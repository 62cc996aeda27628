--------------------------- MODULE MCSmallDrivers ---------------------------
(***************************************************************************)
(* Five drivers that share nothing with each other: one of them runs, with *)
(* a behaviour of its own specification, and the others stay as they are.  *)
(* The definitions of MouHook are this module's own, so that TLC evaluates *)
(* its assumptions.                                                        *)
(***************************************************************************)
EXTENDS MouHook

CONSTANTS Wait, Switch, MaxReads, MaxChanges, Reader, MaxWaiting

VARIABLES
    system,
    irp, completion, client, remover, flags, event, buffers, gone,
    slot, wait, isr, taken, signal,
    switches, wire, changes, power, context, reader, timer, callback, reads, toggle,
    device, started, reset, failed, transfer, waiting, answering

Mouse == INSTANCE MouRead
Interrupt == INSTANCE SpbInterrupt
Switches == INSTANCE SwitchDebounce
Board == INSTANCE Fx2Board

mouse == <<irp, completion, client, remover, flags, event, buffers, gone>>
interrupt == <<slot, wait, isr, taken, signal>>
board == <<device, started, reset, failed, transfer, waiting, answering>>
switch == <<switches, wire, changes, power, context, reader, timer, callback, reads, toggle>>

allVars == <<system, vars, mouse, interrupt, switch, board>>

AllInit ==
    /\ system \in {"hook", "mouse", "interrupt", "switches", "board"}
    /\ Init
    /\ Mouse!Init /\ Interrupt!Init /\ Switches!Init /\ Board!Init

IsHook == system = "hook" /\ UNCHANGED <<system, mouse, interrupt, switch, board>>
IsMouse == system = "mouse" /\ UNCHANGED <<system, vars, interrupt, switch, board>>
IsInterrupt == system = "interrupt" /\ UNCHANGED <<system, vars, mouse, switch, board>>
IsSwitches == system = "switches" /\ UNCHANGED <<system, vars, mouse, interrupt, board>>
IsBoard == system = "board" /\ UNCHANGED <<system, vars, mouse, interrupt, switch>>

(* The switches are alike: it does not matter which is the first to change.*)
FirstOfSwitches == changes = 0 => switches' \subseteq {CHOOSE s \in Switch : TRUE}

AllNext ==
    \/ IsHook /\ Next
    \/ IsMouse /\ Mouse!Next
    \/ IsInterrupt /\ Interrupt!Next
    \/ IsSwitches /\ Switches!Next /\ FirstOfSwitches
    \/ IsBoard /\ Board!Next

AllSpec ==
    /\ AllInit /\ [][AllNext]_allVars
    /\ \A t \in Caller : SF_allVars(IsHook /\ CallerStep(t))
    /\ SF_allVars(IsHook /\ PnpStep) /\ WF_allVars(IsHook /\ UnloadStep)
    /\ \A m \in Mice : WF_allVars(IsHook /\ LeaveHook(m))
    /\ WF_allVars(IsMouse /\ Mouse!CloseStep) /\ SF_allVars(IsMouse /\ Mouse!ReadReturns)
    /\ WF_allVars(IsMouse /\ Mouse!CompletionStep) /\ WF_allVars(IsMouse /\ Mouse!RemoveStep)
    /\ WF_allVars(IsMouse /\ Mouse!StartDevice)
    /\ WF_allVars(IsSwitches /\ \E r \in Reader : Switches!ReaderStep(r))
    /\ WF_allVars(IsSwitches /\ Switches!TimerStep)
    /\ WF_allVars(IsBoard /\ Board!ResetStep) /\ WF_allVars(IsBoard /\ Board!AnswerStep)
    /\ WF_allVars(IsBoard /\ Board!SelfManagedIoFlush)
    /\ \A p \in {"read", "write"} : WF_allVars(IsBoard /\ Board!Complete(p))

ReadEndsFirst == Mouse!ReadEndsFirst
CloseReturns == Mouse!CloseReturns
WaitCompletedOnce == Interrupt!WaitCompletedOnce
NotedToggleEnds == Switches!NotedToggleEnds
TransfersEnd == Board!TransfersEnd
=============================================================================
