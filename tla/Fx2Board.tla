------------------------------ MODULE Fx2Board ------------------------------
(***************************************************************************)
(* usb/umdf2_fx2: the function driver of the FX2 board.  Reads and writes  *)
(* go to the bulk pipes, one of each at a time; requests for an interrupt  *)
(* message wait in a queue that the readers of the interrupt pipe empty.   *)
(* A reset stops all pipes, resets the port and starts them again.         *)
(*                                                                         *)
(* The framework is external: it holds what is sent to a stopped pipe,     *)
(* starts power transitions only while no reset is under way, and presents *)
(* requests in D0 only.                                                    *)
(***************************************************************************)
EXTENDS Integers

CONSTANTS
    Reader,       \* the readers of the interrupt pipe
    MaxWaiting    \* requests for an interrupt message (bound)

Bulk == {"read", "write"}
Pipe == Bulk \cup {"interrupt"}

Flush == "flush"

VARIABLES
    device,      \* "D0", "Dx", "removing", "removed"
    started,    \* the pipes that are started
    reset,      \* the step of ResetDevice; it holds ResetDeviceWaitLock
    failed,     \* a pipe could not be started
    transfer,   \* [Bulk -> the request of the queue in the driver's hands]
    waiting,    \* the requests in InterruptMsgQueue
    answering   \* the readers, or the flush, that run GetInterruptMessage

vars == <<device, started, reset, failed, transfer, waiting, answering>>

Init ==
    /\ device = "Dx"
    /\ started = Bulk
    /\ reset = "none"
    /\ failed = FALSE
    /\ transfer = [p \in Bulk |-> "none"]
    /\ waiting = 0
    /\ answering = {}

-----------------------------------------------------------------------------
(* OsrFxEvtIoRead and OsrFxEvtIoWrite; their exits on an error complete the*)
(* request at once.                                                        *)

Send(p) ==
    /\ device = "D0" /\ transfer[p] = "none"
    /\ transfer' = [transfer EXCEPT ![p] = IF p \in started THEN "sent" ELSE "held"]
    /\ UNCHANGED <<device, started, reset, failed, waiting, answering>>

(* The completion routines.                                                *)
Complete(p) ==
    /\ transfer[p] \in {"sent", "cancelled"}
    /\ transfer' = [transfer EXCEPT ![p] = "none"]
    /\ UNCHANGED <<device, started, reset, failed, waiting, answering>>

Stopped(t, pipes) == [p \in Bulk |-> IF p \in pipes /\ t[p] = "sent" THEN "cancelled" ELSE t[p]]
Purged(t) == [p \in Bulk |-> IF t[p] = "none" THEN "none" ELSE "cancelled"]

Started(t, pipes) == [p \in Bulk |-> IF p \in pipes /\ t[p] = "held" THEN "sent" ELSE t[p]]

-----------------------------------------------------------------------------
(* ResetDevice: the port's reset may fail, and the pipes are started all   *)
(* the same, until one of them cannot be started.                          *)

(* A stop comes back when what it cancelled has completed.                 *)
StopPipes ==
    /\ device = "D0" /\ reset = "none"
    /\ reset' = "stopped"
    /\ started' = {}
    /\ transfer' = Stopped(transfer, Bulk)
    /\ UNCHANGED <<device, failed, waiting, answering>>

ResetPort ==
    /\ reset = "stopped"
    /\ \A p \in Bulk : transfer[p] # "cancelled"
    /\ reset' = "interrupt"
    /\ UNCHANGED <<device, started, failed, transfer, waiting, answering>>

(* Faulty variant: the pipe to write to is forgotten.                      *)
AfterStartShort(p) == IF p = "interrupt" THEN "read" ELSE "none"

AfterStart(p) == IF p = "interrupt" THEN "read" ELSE IF p = "read" THEN "write" ELSE "none"

StartPipe(p) ==
    /\ reset = p
    /\ reset' = AfterStart(p)
    /\ started' = started \cup {p}
    /\ transfer' = Started(transfer, {p})
    /\ UNCHANGED <<device, failed, waiting, answering>>

StartFails(p) ==
    /\ reset = p
    /\ reset' = "none"
    /\ failed' = TRUE
    /\ UNCHANGED <<device, started, transfer, waiting, answering>>

-----------------------------------------------------------------------------
(* Interrupt messages: GET_INTERRUPT_MESSAGE forwards its request.         *)

Forward ==
    /\ device = "D0" /\ waiting < MaxWaiting
    /\ waiting' = waiting + 1
    /\ UNCHANGED <<device, started, reset, failed, transfer, answering>>

(* OsrFxEvtUsbInterruptPipeReadComplete and ReadersFailed.                 *)
Message(r) ==
    /\ "interrupt" \in started /\ r \notin answering
    /\ answering' = answering \cup {r}
    /\ UNCHANGED <<device, started, reset, failed, transfer, waiting>>

(* OsrUsbIoctlGetInterruptMessage completes requests until none is left.   *)
Answer ==
    /\ answering # {} /\ waiting > 0
    /\ waiting' = waiting - 1
    /\ UNCHANGED <<device, started, reset, failed, transfer, answering>>

Answered(a) ==
    /\ a \in answering /\ waiting = 0
    /\ answering' = answering \ {a}
    /\ device' = IF a = Flush THEN "removed" ELSE device
    /\ UNCHANGED <<started, reset, failed, transfer, waiting>>

-----------------------------------------------------------------------------
(* OsrFxEvtDeviceD0Entry, OsrFxEvtDeviceD0Exit, OsrFxEvtIoStop and         *)
(* OsrFxEvtDeviceSelfManagedIoFlush.  IoStop leaves transfers where they   *)
(* are for a suspend and cancels them for a removal.                       *)

D0Entry ==
    /\ device = "Dx"
    /\ \/ device' = "D0" /\ started' = started \cup {"interrupt"}
       \/ device' = "removing" /\ UNCHANGED started
    /\ transfer' = IF device' = "D0" THEN transfer ELSE Purged(transfer)
    /\ UNCHANGED <<reset, failed, waiting, answering>>

D0Exit ==
    /\ device = "D0" /\ reset = "none"
    /\ device' \in {"Dx", "removing"}
    /\ started' = started \ {"interrupt"}
    /\ transfer' = IF device' = "Dx" THEN transfer ELSE Purged(transfer)
    /\ UNCHANGED <<reset, failed, waiting, answering>>

SelfManagedIoFlush ==
    /\ device = "removing" /\ answering = {}
    /\ \A p \in Bulk : transfer[p] = "none"
    /\ answering' = {Flush}
    /\ UNCHANGED <<device, started, reset, failed, transfer, waiting>>

-----------------------------------------------------------------------------
ResetStep == ResetPort \/ \E p \in Pipe : StartPipe(p) \/ StartFails(p)

AnswerStep == Answer \/ \E a \in Reader \cup {Flush} : Answered(a)

Next ==
    \/ \E p \in Bulk : Send(p) \/ Complete(p)
    \/ StopPipes \/ ResetStep
    \/ Forward \/ \E r \in Reader : Message(r)
    \/ AnswerStep
    \/ D0Entry \/ D0Exit \/ SelfManagedIoFlush

Spec == Init /\ [][Next]_vars

FairSpec ==
    Spec /\ WF_vars(ResetStep) /\ WF_vars(AnswerStep) /\ WF_vars(SelfManagedIoFlush)
         /\ \A p \in Bulk : WF_vars(Complete(p))

-----------------------------------------------------------------------------
TypeOK ==
    /\ device \in {"D0", "Dx", "removing", "removed"}
    /\ started \in SUBSET Pipe
    /\ reset \in {"none", "stopped"} \cup Pipe
    /\ failed \in BOOLEAN
    /\ transfer \in [Bulk -> {"none", "sent", "held", "cancelled"}]
    /\ waiting \in 0 .. MaxWaiting
    /\ answering \in SUBSET (Reader \cup {Flush})

(* A transfer ends, whatever resets and power transitions meet it, unless a*)
(* pipe could not be started after a reset; and a removal answers all that *)
(* wait for an interrupt message.                                          *)
TransfersEnd ==
    /\ \A p \in Bulk : transfer[p] # "none" ~> transfer[p] = "none" \/ failed
    /\ device = "removing" ~> device = "removed" /\ waiting = 0
=============================================================================
