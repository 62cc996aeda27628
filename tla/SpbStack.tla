------------------------------ MODULE SpbStack ------------------------------
(***************************************************************************)
(* A bus with its controller driver, SkeletonI2C, and the drivers of its   *)
(* peripherals: SpbTestTool for those in Tool, and for the others a client *)
(* that sends locks, transfers and sequences with delays and cancels them. *)
(*                                                                         *)
(* A peripheral has one target and one SPB request, which carry its name.  *)
(***************************************************************************)
EXTENDS I2cController

CONSTANT
    Tool   \* the peripherals of SpbTestTool

ASSUME ToolAssumption == Tool \subseteq Target /\ Request = Target
ASSUME LengthAssumption == MaxTransfers >= 2   \* SpbTestTool's sequences: write and read

VARIABLE
    dev    \* SpbTestTool's

TestTool == INSTANCE SpbTestTool WITH Device <- Tool

stackVars == <<vars, dev>>

StackInit == Init /\ TestTool!Init

StackTypeOK == TypeOK /\ TestTool!TypeOK

-----------------------------------------------------------------------------
(* What a client of SpbCx may ask for: nothing it would refuse.            *)
Allowed(p) == IF holder = p THEN {"unlock", "transfer"} ELSE {"lock", "transfer", "sequence"}

Ask(d) == \E op \in Allowed(d) : TestTool!Present(d, op) /\ UNCHANGED vars

ToolStep(d) ==
    /\ \/ TestTool!Format(d)
       \/ TestTool!FormatFails(d)
       \/ TestTool!MarkCancelable(d)
       \/ TestTool!MarkFails(d)
       \/ TestTool!SendFails(d)
       \/ TestTool!Unmark(d)
       \/ TestTool!Reuse(d)
       \/ TestTool!Answer(d)
    /\ UNCHANGED vars

Length(op) == IF op = "sequence" THEN 2 ELSE 1

ToolSends(d) == TestTool!Send(d) /\ Submit(d, d, dev[d].op, Length(dev[d].op), {})

ToolCancels(d) == TestTool!Cancel(d) /\ UNCHANGED vars

(* WdfRequestCancelSentRequest.                                            *)
ToolOnCancel(d) ==
    /\ TestTool!OnCancel(d)
    /\ IF req[d].at # "idle" /\ ~req[d].cancelled THEN CancelIssued(d) ELSE UNCHANGED vars

(* The completion of an SPB request runs OnCompletion.                     *)
Ends(p) ==
    \/ /\ Complete(p)
       /\ IF p \in Tool THEN TestTool!Return(p, req[p].status) ELSE UNCHANGED dev
    \/ /\ CancelQueued(p)
       /\ IF p \in Tool THEN TestTool!Return(p, "cancelled") ELSE UNCHANGED dev

OtherSubmits(p) ==
    /\ \E op \in Allowed(p), n \in 1 .. MaxTransfers, delays \in SUBSET (1 .. MaxTransfers) :
          delays \subseteq 1 .. n /\ Submit(p, p, op, n, delays)
    /\ UNCHANGED dev

OtherCancels(p) == CancelIssued(p) /\ UNCHANGED dev

ControllerStep(p) == (HandlerStep(p) \/ OnCancel(p)) /\ UNCHANGED dev

TimerStep == (Expire \/ OnDelayTimerExpired) /\ UNCHANGED dev

Hand(p) == Dispatch(p) /\ UNCHANGED dev

StackNext ==
    \/ \E d \in Tool : Ask(d) \/ ToolStep(d) \/ ToolSends(d) \/ ToolCancels(d) \/ ToolOnCancel(d)
    \/ \E p \in Target \ Tool : OtherSubmits(p) \/ OtherCancels(p)
    \/ \E p \in Target : Ends(p) \/ ControllerStep(p) \/ Hand(p)
    \/ TimerStep

StackSpec == StackInit /\ [][StackNext]_stackVars

(* Handlers, callbacks and completions run, timers expire, and SpbCx serves*)
(* its queue in order: a request that is at times not admissible is handed *)
(* over in the end if it is admissible again and again.  Clients need not  *)
(* ask, cancel or unlock.                                                  *)
Fairness ==
    /\ \A d \in Tool : WF_stackVars(ToolStep(d) \/ ToolSends(d)) /\ WF_stackVars(ToolOnCancel(d))
    /\ \A p \in Target : /\ WF_stackVars(Ends(p))
                         /\ WF_stackVars(HandlerStep(p) /\ UNCHANGED dev)
                         /\ WF_stackVars(OnCancel(p) /\ UNCHANGED dev)
                         /\ SF_stackVars(Hand(p))
    /\ WF_stackVars(Expire /\ UNCHANGED dev)
    /\ WF_stackVars(OnDelayTimerExpired /\ UNCHANGED dev)

FairStackSpec == StackSpec /\ Fairness

-----------------------------------------------------------------------------
(* Every request of the application is answered, whatever is cancelled at  *)
(* whatever time and however late a timer or a cancel callback runs, unless*)
(* another client has locked the controller.                               *)
RequestsAnswered ==
    \A d \in Tool : dev[d].at # "empty" ~> dev[d].at = "empty" \/ holder \notin {None, d}

SequenceFlagMatches == TestTool!SequenceFlagMatches
OnlyCancelledAreCancelled == TestTool!OnlyCancelledAreCancelled
=============================================================================
