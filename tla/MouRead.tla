------------------------------ MODULE MouRead ------------------------------
(***************************************************************************)
(* mohid: a mouse driver above the HID class.  While a file is open the one*)
(* read IRP goes round: its completion routine hands the report to the     *)
(* mouse class and sends the IRP again.  Close and removal stop the cycle  *)
(* through StopReadReport and wait for ReadCompletionEvent.  No lock covers*)
(* the two flags: every access to them is a step.                          *)
(*                                                                         *)
(* The HID class and the PnP manager are external: a device that is gone   *)
(* fails reads and opens, and it is removed when no file is open; one that *)
(* is stopped keeps its reads until it is started again.  The mouse class, *)
(* which opens every mouse once at least, is the only opener.              *)
(***************************************************************************)

VARIABLES
    irp,         \* "free", "down" at the HID class, "cancelled" there, "back"
    completion,  \* the step of the completion routine, or "none"
    client,      \* the step of the mouse class's open or close of the file
    remover,     \* the step of IRP_MN_REMOVE_DEVICE
    flags,       \* FileObject set, ReadReportActive, StopReadReport
    event,       \* ReadCompletionEvent is signalled
    buffers,     \* Report, its MDL and the usage lists are allocated
    gone         \* the device has been pulled out

vars == <<irp, completion, client, remover, flags, event, buffers, gone>>

Init ==
    /\ irp = "free"
    /\ completion = "none"
    /\ client = "new"
    /\ remover = "none"
    /\ flags = [file |-> FALSE, active |-> FALSE, stop |-> FALSE]
    /\ event = FALSE
    /\ buffers = TRUE
    /\ gone = FALSE

-----------------------------------------------------------------------------
(* MouHid_Create: the HID class opens the file first.                      *)
Open ==
    /\ client \in {"new", "closed"} /\ remover = "none" /\ ~gone
    /\ client' = "opening"
    /\ UNCHANGED <<irp, completion, remover, flags, event, buffers, gone>>

(* MouHid_InitiateRead.  The completion routine may run inside the call.   *)
InitiateRead(f) ==
    /\ irp' = "down"
    /\ flags' = [f EXCEPT !.active = TRUE]

(* Faulty variant: the event keeps the signal of the last cycle.           *)
StartReadingSignalled ==
    /\ client = "opening" /\ ~flags.file
    /\ client' = IF gone THEN "closed" ELSE "open"
    /\ InitiateRead([flags EXCEPT !.file = TRUE])
    /\ UNCHANGED <<completion, remover, event, buffers, gone>>

(* When the read is refused the create fails, with FileObject set.         *)
StartReading ==
    /\ client = "opening" /\ ~flags.file
    /\ client' = IF gone THEN "closed" ELSE "open"
    /\ event' = FALSE
    /\ InitiateRead([flags EXCEPT !.file = TRUE])
    /\ UNCHANGED <<completion, remover, buffers, gone>>

-----------------------------------------------------------------------------
(* MouHid_ReadCompletion.                                                  *)

ReadReturns ==
    /\ irp \in {"down", "cancelled"} /\ completion = "none"
    /\ \E status \in {"report", "failed"} :
          /\ status = "report" => irp = "down" /\ ~gone /\ buffers
          /\ status = "failed" => irp = "cancelled" \/ gone
          /\ completion' = IF status = "failed" THEN "inactive" ELSE "look"
    /\ irp' = "back"
    /\ UNCHANGED <<client, remover, flags, event, buffers, gone>>

At(step, next) == completion = step /\ completion' = next

(* Faulty variant: only a failed read ends the cycle.                      *)
LookAway ==
    /\ At("look", "dispatch")
    /\ UNCHANGED <<irp, client, remover, flags, event, buffers, gone>>

Look ==
    /\ At("look", IF flags.stop THEN "inactive" ELSE "dispatch")
    /\ UNCHANGED <<irp, client, remover, flags, event, buffers, gone>>

Dispatch ==
    /\ At("dispatch", "none")
    /\ InitiateRead(flags)
    /\ UNCHANGED <<client, remover, event, buffers, gone>>

SetInactive ==
    /\ At("inactive", "unstop")
    /\ flags' = [flags EXCEPT !.active = FALSE]
    /\ UNCHANGED <<irp, client, remover, event, buffers, gone>>

ResetStop ==
    /\ At("unstop", "signal")
    /\ flags' = [flags EXCEPT !.stop = FALSE]
    /\ UNCHANGED <<irp, client, remover, event, buffers, gone>>

Signal ==
    /\ At("signal", "none")
    /\ event' = TRUE
    /\ irp' = "free"
    /\ UNCHANGED <<client, remover, flags, buffers, gone>>

CompletionStep == Look \/ Dispatch \/ SetInactive \/ ResetStop \/ Signal

-----------------------------------------------------------------------------
(* MouHid_Close.                                                           *)

ClientAt(step, next) == client = step /\ client' = next

Close ==
    /\ ClientAt("open", IF flags.active THEN "stop" ELSE "clear")
    /\ UNCHANGED <<irp, completion, remover, flags, event, buffers, gone>>

SetStop ==
    /\ ClientAt("stop", "wait")
    /\ flags' = [flags EXCEPT !.stop = TRUE]
    /\ UNCHANGED <<irp, completion, remover, event, buffers, gone>>

AwaitRead ==
    /\ ClientAt("wait", "cancel")
    /\ event
    /\ UNCHANGED <<irp, completion, remover, flags, event, buffers, gone>>

(* IoCancelIrp finds a cancel routine only while the IRP is down.          *)
Cancel == irp' = IF irp = "down" THEN "cancelled" ELSE irp

CancelRead ==
    /\ ClientAt("cancel", "clear")
    /\ Cancel
    /\ UNCHANGED <<completion, remover, flags, event, buffers, gone>>

ClearFile ==
    /\ ClientAt("clear", "closed")
    /\ flags' = [flags EXCEPT !.file = FALSE]
    /\ UNCHANGED <<irp, completion, remover, event, buffers, gone>>

CloseStep == SetStop \/ AwaitRead \/ CancelRead \/ ClearFile

-----------------------------------------------------------------------------
(* MouHid_Pnp.                                                             *)

(* IRP_MN_STOP_DEVICE frees the buffers, whether or not a file is open and *)
(* the IRP is back; IRP_MN_START_DEVICE allocates new ones.                *)
StopDevice ==
    /\ ~gone /\ buffers /\ remover = "none"
    /\ buffers' = FALSE
    /\ UNCHANGED <<irp, completion, client, remover, flags, event, gone>>

StartDevice ==
    /\ ~gone /\ ~buffers /\ remover = "none"
    /\ buffers' = TRUE
    /\ UNCHANGED <<irp, completion, client, remover, flags, event, gone>>

(* The device is pulled out: reads fail, and IRP_MN_SURPRISE_REMOVAL frees *)
(* the buffers in the same way.                                            *)
Unplug ==
    /\ ~gone /\ remover = "none"
    /\ gone' = TRUE
    /\ UNCHANGED <<irp, completion, client, remover, flags, event, buffers>>

SurpriseRemoval ==
    /\ gone /\ buffers /\ remover = "none"
    /\ buffers' = FALSE
    /\ UNCHANGED <<irp, completion, client, remover, flags, event, gone>>

RemoverAt(step, next) == remover = step /\ remover' = next

Remove ==
    /\ RemoverAt("none", "cancel")
    /\ client = "closed"
    /\ gone => ~buffers
    /\ flags' = [flags EXCEPT !.stop = TRUE]
    /\ UNCHANGED <<irp, completion, client, event, buffers, gone>>

RemoveCancels ==
    /\ RemoverAt("cancel", "wait")
    /\ Cancel
    /\ buffers' = FALSE
    /\ UNCHANGED <<completion, client, flags, event, gone>>

RemoveFreesIrp ==
    /\ RemoverAt("wait", "freed")
    /\ event
    /\ UNCHANGED <<irp, completion, client, flags, event, buffers, gone>>

RemoveStep == RemoveCancels \/ RemoveFreesIrp

-----------------------------------------------------------------------------
Next ==
    \/ Open \/ StartReading \/ Close \/ CloseStep
    \/ ReadReturns \/ CompletionStep
    \/ StopDevice \/ StartDevice
    \/ Unplug \/ SurpriseRemoval \/ Remove \/ RemoveStep

Step == CloseStep \/ ReadReturns \/ CompletionStep \/ RemoveStep

Spec == Init /\ [][Next]_vars

(* The mouse is moved again and again, a stopped device is started again,  *)
(* and threads run.                                                        *)
FairSpec ==
    Spec /\ WF_vars(CloseStep) /\ SF_vars(ReadReturns) /\ WF_vars(CompletionStep)
         /\ WF_vars(RemoveStep) /\ WF_vars(StartDevice)

-----------------------------------------------------------------------------
TypeOK ==
    /\ irp \in {"free", "down", "cancelled", "back"}
    /\ completion \in {"none", "look", "dispatch", "inactive", "unstop", "signal"}
    /\ client \in {"new", "opening", "open", "stop", "wait", "cancel", "clear", "closed"}
    /\ remover \in {"none", "cancel", "wait", "freed"}
    /\ flags \in [file : BOOLEAN, active : BOOLEAN, stop : BOOLEAN]
    /\ event \in BOOLEAN /\ buffers \in BOOLEAN /\ gone \in BOOLEAN

(* The IRP has come back for good when the file's close has waited for it, *)
(* and so when the removal frees it: ReadCompletionEvent is of this cycle  *)
(* of reports, and nobody sends the IRP again.  Its buffers may be gone    *)
(* much earlier, by a stop or a surprise removal.                          *)
ReadEndsFirst ==
    client = "cancel" \/ remover = "freed" => irp = "free" /\ completion = "none"

(* A close and a removal return as long as the mouse is moved and a device *)
(* that was stopped is started again.                                      *)
CloseReturns ==
    /\ client = "stop" ~> client = "closed"
    /\ remover = "cancel" ~> remover = "freed"
=============================================================================
