--------------------------- MODULE SwitchDebounce ---------------------------
(***************************************************************************)
(* hidusbfx2: the switches of the FX2 board as HID input reports.  The     *)
(* continuous reader of the interrupt pipe notes which switches were turned*)
(* on and starts the debounce timer; the timer's callback completes a read *)
(* of the HID class with them.  Reader, timer and power callbacks share the*)
(* device context without a lock.                                          *)
(*                                                                         *)
(* The framework keeps two reads of the pipe queued, so the completion     *)
(* routine runs in several readers at a time; each access to the context is*)
(* a step.                                                                 *)
(*                                                                         *)
(* The board and the HID class are external: the board sends its switches' *)
(* state when they change and when its pipe is started, and a read may     *)
(* come back without data.                                                 *)
(***************************************************************************)
EXTENDS Integers, Sequences

CONSTANTS
    Switch,
    Reader,      \* the reads of the pipe that the framework has queued
    MaxReads,    \* reads the HID class has pending at the most (bound)
    MaxChanges   \* changes of the switches (bound)

VARIABLES
    switches,    \* the switches that are on, on the board
    wire,        \* what the board has sent and no reader has taken
    changes,     \* how often the switches have changed
    power,       \* "off", the steps of D0Entry, "on"
    context,     \* CurrentSwitchState, LatestToggledSwitch, IsPowerUpSwitchState
    reader,      \* [Reader -> the step of the completion routine, its local variables]
    timer,       \* the debounce timer is in the timer queue
    callback,    \* the step of the timer's callback
    reads,       \* the reads in InterruptMsgQueue
    toggle       \* the latest toggle: "noted", then "reported", or "past" when it was
                 \* written over, or there was no read to report it or no buffer

vars == <<switches, wire, changes, power, context, reader, timer, callback, reads,
          toggle>>

Idle == [at |-> "idle", now |-> {}, toggled |-> {}]

Init ==
    /\ switches = {} /\ changes = 0
    /\ wire = <<>>
    /\ power = "off"
    /\ context = [current |-> {}, latest |-> {}, powerUp |-> FALSE]
    /\ reader = [r \in Reader |-> Idle]
    /\ timer = FALSE
    /\ callback = "none"
    /\ reads = 0
    /\ toggle = "past"

-----------------------------------------------------------------------------
(* The board and the HID class.                                            *)

Change(s) ==
    /\ changes < MaxChanges
    /\ changes' = changes + 1
    /\ switches' = IF s \in switches THEN switches \ {s} ELSE switches \cup {s}
    /\ wire' = IF power \in {"started", "on"} THEN Append(wire, switches') ELSE wire
    /\ UNCHANGED <<power, context, reader, timer, callback, reads, toggle>>

(* HidFx2EvtInternalDeviceControl: IOCTL_HID_READ_REPORT.                  *)
ReadReport ==
    /\ reads < MaxReads
    /\ reads' = reads + 1
    /\ UNCHANGED <<switches, wire, changes, power, context, reader, timer, callback,
                   toggle>>

-----------------------------------------------------------------------------
(* HidFx2EvtDeviceD0Entry, which starts the reader before it sets the flag,*)
(* and HidFx2EvtDeviceD0Exit, which stops the reader and not the timer: the*)
(* stop cancels the reads and waits for the completion routines.           *)

GetSwitchState ==
    /\ power = "off"
    /\ power' = "known"
    /\ context' = [context EXCEPT !.current = switches]
    /\ UNCHANGED <<switches, wire, changes, reader, timer, callback, reads, toggle>>

StartTarget ==
    /\ power = "known"
    /\ power' = "started"
    /\ wire' = <<switches>>
    /\ UNCHANGED <<switches, changes, context, reader, timer, callback, reads,
                   toggle>>

SetPowerUp ==
    /\ power = "started"
    /\ power' = "on"
    /\ context' = [context EXCEPT !.powerUp = TRUE]
    /\ UNCHANGED <<switches, wire, changes, reader, timer, callback, reads, toggle>>

D0Exit ==
    /\ power = "on" /\ \A r \in Reader : reader[r].at = "idle"
    /\ power' = "off"
    /\ wire' = <<>>
    /\ UNCHANGED <<switches, changes, context, reader, timer, callback, reads,
                   toggle>>

-----------------------------------------------------------------------------
(* HidFx2EvtUsbInterruptPipeReadComplete.                                  *)

ReaderStays == UNCHANGED <<switches, changes, power, callback, reads>>

(* The local variables are forgotten when no step uses them any more.      *)
Goes(r, from, to) ==
    /\ reader[r].at = from
    /\ reader' = [reader EXCEPT ![r] =
                     [(IF to = "latest" THEN @ ELSE Idle) EXCEPT !.at = to]]

Receive(r) ==
    /\ wire # <<>>
    /\ reader[r].at = "idle"
    /\ reader' = [reader EXCEPT ![r].at = "check", ![r].now = Head(wire)]
    /\ wire' = Tail(wire)
    /\ ReaderStays /\ UNCHANGED <<context, timer, toggle>>

(* A read without data: it takes the flag, if it is set, and nothing else. *)
ReceiveNothing(r) ==
    /\ power \in {"started", "on"}
    /\ Goes(r, "idle", IF context.powerUp THEN "clear" ELSE "idle")
    /\ ReaderStays /\ UNCHANGED <<wire, context, timer, toggle>>

CheckPowerUp(r) ==
    /\ context.powerUp
    /\ Goes(r, "check", "clear")
    /\ ReaderStays /\ UNCHANGED <<wire, context, timer, toggle>>

IgnorePowerUp(r) ==
    /\ Goes(r, "clear", "idle")
    /\ context' = [context EXCEPT !.powerUp = FALSE]
    /\ ReaderStays /\ UNCHANGED <<wire, timer, toggle>>

(* The check of the flag and the comparison are one step: what comes       *)
(* between them could as well come before the check or after both.         *)
Toggle(r) ==
    /\ reader[r].at = "check" /\ ~context.powerUp
    /\ reader' = [reader EXCEPT ![r].at = "current",
                                ![r].toggled = reader[r].now \ context.current]
    /\ ReaderStays /\ UNCHANGED <<wire, context, timer, toggle>>

StoreCurrent(r) ==
    /\ Goes(r, "current", "latest")
    /\ context' = [context EXCEPT !.current = reader[r].now]
    /\ ReaderStays /\ UNCHANGED <<wire, timer, toggle>>

(* Faulty variant: the timer counts as started while a toggle is stored.   *)
StoreNotedOnce(r) ==
    /\ Goes(r, "latest",
            IF reader[r].toggled = {} \/ context.latest # {} THEN "idle" ELSE "timer")
    /\ context' = [context EXCEPT !.latest = reader[r].toggled]
    /\ toggle' = IF reader[r].toggled = {} THEN "past" ELSE "noted"
    /\ ReaderStays /\ UNCHANGED <<wire, timer>>

Store(r) ==
    /\ Goes(r, "latest", IF reader[r].toggled = {} THEN "idle" ELSE "timer")
    /\ context' = [context EXCEPT !.latest = reader[r].toggled]
    /\ toggle' = IF reader[r].toggled = {} THEN "past" ELSE "noted"
    /\ ReaderStays /\ UNCHANGED <<wire, timer>>

StartTimer(r) ==
    /\ Goes(r, "timer", "idle")
    /\ timer' = TRUE
    /\ ReaderStays /\ UNCHANGED <<wire, context, toggle>>

ReaderStep(r) ==
    \/ Receive(r) \/ CheckPowerUp(r) \/ IgnorePowerUp(r)
    \/ Toggle(r) \/ StoreCurrent(r) \/ Store(r) \/ StartTimer(r)

-----------------------------------------------------------------------------
(* HidFx2EvtTimerFunction and HidFx2CompleteReadReport.                    *)

TimerStays == UNCHANGED <<switches, wire, changes, power, context, reader>>

Expire ==
    /\ timer /\ callback = "none"
    /\ timer' = FALSE
    /\ callback' = "look"
    /\ TimerStays /\ UNCHANGED <<reads, toggle>>

LookForToggle ==
    /\ callback = "look"
    /\ callback' = IF context.latest = {} THEN "none" ELSE "take"
    /\ TimerStays /\ UNCHANGED <<timer, reads, toggle>>

TakeRead ==
    /\ callback = "take"
    /\ IF reads = 0 THEN callback' = "none" /\ toggle' = "past" /\ UNCHANGED reads
                    ELSE callback' = "fill" /\ reads' = reads - 1 /\ UNCHANGED toggle
    /\ TimerStays /\ UNCHANGED timer

(* LatestToggledSwitch is read again here.  The timer's callback does not  *)
(* overtake itself: it is far shorter than the debounce time.              *)
CompleteRead ==
    /\ callback = "fill"
    /\ callback' = "none"
    /\ toggle' = IF context.latest = {} THEN toggle ELSE "reported"
    /\ TimerStays /\ UNCHANGED <<timer, reads>>

(* The read has no buffer of the report's size: it is completed with the   *)
(* error, and names no switch.                                             *)
CompleteUnfilled ==
    /\ callback = "fill"
    /\ callback' = "none"
    /\ toggle' = "past"
    /\ TimerStays /\ UNCHANGED <<timer, reads>>

TimerStep == Expire \/ LookForToggle \/ TakeRead \/ CompleteRead \/ CompleteUnfilled

-----------------------------------------------------------------------------
PowerStep == GetSwitchState \/ StartTarget \/ SetPowerUp

Next ==
    \/ \E s \in Switch : Change(s)
    \/ ReadReport
    \/ PowerStep \/ D0Exit
    \/ \E r \in Reader : ReaderStep(r) \/ ReceiveNothing(r)
    \/ TimerStep

Spec == Init /\ [][Next]_vars

FairSpec == Spec /\ WF_vars(\E r \in Reader : ReaderStep(r)) /\ WF_vars(TimerStep)

-----------------------------------------------------------------------------
TypeOK ==
    /\ switches \in SUBSET Switch /\ wire \in Seq(SUBSET Switch)
    /\ changes \in 0 .. MaxChanges /\ reads \in 0 .. MaxReads
    /\ power \in {"off", "known", "started", "on"}
    /\ context \in [current : SUBSET Switch, latest : SUBSET Switch, powerUp : BOOLEAN]
    /\ reader \in [Reader -> [at : {"idle", "check", "clear", "current", "latest", "timer"},
                              now : SUBSET Switch, toggled : SUBSET Switch]]
    /\ timer \in BOOLEAN
    /\ toggle \in {"noted", "reported", "past"}
    /\ callback \in {"none", "look", "take", "fill"}

(* A toggle that a reader has stored does not stay there unreported, for   *)
(* want of a timer: the timer's callback comes after it and reports it, or *)
(* finds no read to report it in, or one without a buffer, unless a message*)
(* that turns no switch on is stored over it first.  That may be a switch  *)
(* turned off within the debounce time, the board's message on power-up    *)
(* taken before IsPowerUpSwitchState is set, or the message of the other   *)
(* reader.  So it is however two readers, the timer's callback and the     *)
(* power callbacks interleave.                                             *)
NotedToggleEnds == toggle = "noted" ~> toggle # "noted"

(* "We can't be here since we already rejected the switch state with no    *)
(* swicthes turned on": a report names a switch.                           *)
ReportNamesSwitch == callback = "fill" => context.latest # {}
=============================================================================
