--------------------------- MODULE I2cController ---------------------------
(***************************************************************************)
(* SkeletonI2C: the controller driver of a simple peripheral bus, under    *)
(* SpbCx, which queues the requests of all targets and hands them over one *)
(* at a time.                                                              *)
(*                                                                         *)
(* The driver keeps the target it is configured for and each target's      *)
(* current request under one spin lock.  As the sample is built a transfer *)
(* completes where it is configured; a transfer with a delay waits for the *)
(* one delay timer first.  Handler, cancel callback and timer callback are *)
(* one locked section each, and complete the request after it; the         *)
(* handler's section is two steps, so that a cancel may come in between.   *)
(***************************************************************************)
EXTENDS Integers

CONSTANTS
    Target,       \* the peripherals on the bus
    Request,      \* SPB requests, each used again when it has completed
    MaxTransfers  \* the transfers of a sequence (bound)

None == "none"

ASSUME NoneAssumption == None \notin Target \cup Request
ASSUME MaxTransfersAssumption == MaxTransfers \in Nat \ {0}

VARIABLES
    holder,   \* the target that SpbCx has locked the controller for
    target,   \* pDevice->pCurrentTarget
    current,  \* [Target -> pTarget->pCurrentRequest]
    req,      \* [Request -> the request's context and framework state]
    lock,     \* the request whose handler holds pDevice->Lock
    timer,    \* "started" while the delay timer is in the timer queue
    expired   \* callbacks of the timer that have not taken the lock yet

vars == <<holder, target, current, req, lock, timer, expired>>

Kind == {"lock", "unlock", "transfer", "inside", "sequence"}

(* at: "queued" in SpbCx, "handed" to the handler, "current" after its     *)
(* section, "ended" when some section is about to complete it.  index: the *)
(* transfer under way.  marked, cancelled and callback are the framework's:*)
(* cancelable, cancelled by its issuer, cancel callback on its way.        *)
Context == [at : {"idle", "queued", "handed", "current", "ended"},
            target : Target \cup {None},
            kind : Kind,
            count : 1 .. MaxTransfers,
            delays : SUBSET (1 .. MaxTransfers),
            index : 1 .. MaxTransfers + 1,
            status : {"success", "cancelled", "invalid"},
            marked : BOOLEAN, cancelled : BOOLEAN, callback : BOOLEAN]

Idle == [at |-> "idle", target |-> None, kind |-> "transfer", count |-> 1, delays |-> {},
         index |-> 1, status |-> "success",
         marked |-> FALSE, cancelled |-> FALSE, callback |-> FALSE]

MaxCallbacks == 2   \* a DPC that runs and one that is queued again

TypeOK ==
    /\ holder \in Target \cup {None}
    /\ target \in Target \cup {None}
    /\ current \in [Target -> Request \cup {None}]
    /\ req \in [Request -> Context]
    /\ lock \in Request \cup {None}
    /\ timer \in {"started", "stopped"}
    /\ expired \in 0 .. MaxCallbacks

(* OnD0Entry and OnTargetConnect.                                          *)
Init ==
    /\ holder = None
    /\ target = None
    /\ current = [t \in Target |-> None]
    /\ req = [r \in Request |-> Idle]
    /\ lock = None
    /\ timer = "stopped"
    /\ expired = 0

-----------------------------------------------------------------------------
(* SpbCx: a lock keeps the requests of other targets waiting.  A locked    *)
(* controller takes single transfers only, which then are part of the      *)
(* client's own sequence.                                                  *)

Active(r) == req[r].at \in {"handed", "current", "ended"}

Submit(r, t, kind, n, delays) ==
    /\ req[r].at = "idle"
    /\ kind # "sequence" => n = 1 /\ delays = {}
    /\ req' = [req EXCEPT ![r] = [Idle EXCEPT !.at = "queued", !.target = t, !.kind = kind,
                                              !.count = n, !.delays = delays]]
    /\ UNCHANGED <<holder, target, current, lock, timer, expired>>

Admissible(r) == IF holder = None THEN req[r].kind # "unlock"
                                  ELSE holder = req[r].target /\ req[r].kind \in {"unlock", "transfer"}

Position(r) == IF req[r].kind = "transfer" /\ holder # None THEN "inside" ELSE req[r].kind

Dispatch(r) ==
    /\ req[r].at = "queued" /\ ~req[r].cancelled
    /\ \A q \in Request : ~Active(q)
    /\ Admissible(r)
    /\ req' = [req EXCEPT ![r].at = "handed", ![r].kind = Position(r)]
    /\ UNCHANGED <<holder, target, current, lock, timer, expired>>

CancelIssued(r) ==
    /\ req[r].at # "idle" /\ ~req[r].cancelled
    /\ req' = [req EXCEPT ![r].cancelled = TRUE, ![r].callback = @ \/ req[r].marked,
                          ![r].marked = FALSE]
    /\ UNCHANGED <<holder, target, current, lock, timer, expired>>

CancelQueued(r) ==
    /\ req[r].at = "queued" /\ req[r].cancelled
    /\ req' = [req EXCEPT ![r] = Idle]
    /\ UNCHANGED <<holder, target, current, lock, timer, expired>>

-----------------------------------------------------------------------------
(* OnControllerLock and OnControllerUnlock.                                *)

Lock(r) ==
    /\ req[r].at = "handed" /\ req[r].kind = "lock"
    /\ lock = None
    /\ target' = req[r].target
    /\ req' = [req EXCEPT ![r].at = "ended"]
    /\ UNCHANGED <<holder, current, lock, timer, expired>>

Unlock(r) ==
    /\ req[r].at = "handed" /\ req[r].kind = "unlock"
    /\ lock = None
    /\ target' = None
    /\ req' = [req EXCEPT ![r].at = "ended"]
    /\ UNCHANGED <<holder, current, lock, timer, expired>>

-----------------------------------------------------------------------------
(* ControllerCompleteTransfer when no transfer is left or the sequence is  *)
(* aborted; q is the context the caller has brought up to date.            *)

EndsHold(q) == q.kind \in {"transfer", "sequence"}

End(r, q) ==
    /\ target' = IF EndsHold(q) THEN None ELSE target
    /\ current' = [current EXCEPT ![target] = None]
    /\ req' = [req EXCEPT ![r] = [q EXCEPT !.at = "ended", !.marked = FALSE]]

(* Faulty variants: the request is taken for ended although its cancel     *)
(* callback is on its way, and a sequence keeps the bus.                   *)
FinishUnchecked(r, q) == End(r, q)

FinishKeepsBus(r, q) ==
    IF q.marked \/ q.status = "cancelled"
    THEN /\ current' = [current EXCEPT ![target] = None]
         /\ req' = [req EXCEPT ![r] = [q EXCEPT !.at = "ended", !.marked = FALSE]]
         /\ target' = IF q.kind = "transfer" THEN None ELSE target
    ELSE /\ req' = [req EXCEPT ![r] = q]
         /\ UNCHANGED <<target, current>>

(* A request that cannot be unmarked stays current for its cancel callback.*)
Finish(r, q) ==
    IF q.marked \/ q.status = "cancelled"
    THEN End(r, q)
    ELSE /\ req' = [req EXCEPT ![r] = q]
         /\ UNCHANGED <<target, current>>

(* ControllerConfigureForTransfer for transfer i and, in the same section, *)
(* for those after it up to one with a delay, which starts the timer.      *)
Later(q, i) == {j \in q.delays : i < j /\ j <= q.count}

Configure(r, i) ==
    IF Later(req[r], i) = {}
    THEN /\ Finish(r, [req[r] EXCEPT !.index = req[r].count + 1, !.status = "success"])
         /\ UNCHANGED timer
    ELSE \E j \in Later(req[r], i) :
            /\ \A k \in Later(req[r], i) : j <= k
            /\ timer' = "started"
            /\ req' = [req EXCEPT ![r].index = j]
            /\ UNCHANGED <<target, current>>

-----------------------------------------------------------------------------
(* OnRead, OnWrite and OnSequence.                                         *)

HasTransfers(r) == req[r].kind \in {"transfer", "inside", "sequence"}

(* PbcRequestValidate: a transfer is longer than the controller's longest. *)
Reject(r) ==
    /\ req[r].at = "handed" /\ HasTransfers(r)
    /\ req' = [req EXCEPT ![r].at = "ended", ![r].status = "invalid"]
    /\ UNCHANGED <<holder, target, current, lock, timer, expired>>

MarkFails(r) ==
    /\ req[r].at = "handed" /\ HasTransfers(r) /\ lock = None
    /\ req[r].cancelled
    /\ req' = [req EXCEPT ![r].at = "ended", ![r].status = "cancelled"]
    /\ UNCHANGED <<holder, target, current, lock, timer, expired>>

Mark(r) ==
    /\ req[r].at = "handed" /\ HasTransfers(r) /\ lock = None
    /\ ~req[r].cancelled
    /\ lock' = r
    /\ target' = IF EndsHold(req[r]) THEN req[r].target ELSE target
    /\ current' = [current EXCEPT ![req[r].target] = r]
    /\ req' = [req EXCEPT ![r].at = "current", ![r].marked = TRUE]
    /\ UNCHANGED <<holder, timer, expired>>

(* PbcRequestDoTransfer, and the end of the section.                       *)
DoTransfer(r) ==
    /\ lock = r
    /\ lock' = None
    /\ IF 1 \in req[r].delays
       THEN timer' = "started" /\ UNCHANGED <<target, current, req>>
       ELSE Configure(r, 1)
    /\ UNCHANGED <<holder, expired>>

-----------------------------------------------------------------------------
(* The delay timer, and OnDelayTimerExpired.  Stopping the timer does not  *)
(* take back a callback that is on its way to the lock.                    *)

Expire ==
    /\ timer = "started"
    /\ timer' = "stopped"
    /\ expired' = IF expired < MaxCallbacks THEN expired + 1 ELSE expired
    /\ UNCHANGED <<holder, target, current, req, lock>>

CurrentRequest == IF target = None THEN None ELSE current[target]

OnDelayTimerExpired ==
    /\ expired > 0
    /\ lock = None
    /\ expired' = expired - 1
    /\ IF CurrentRequest = None
       THEN UNCHANGED <<target, current, req, timer>>
       ELSE Configure(CurrentRequest, req[CurrentRequest].index)
    /\ UNCHANGED <<holder, lock>>

-----------------------------------------------------------------------------
(* OnCancel.                                                               *)

IsCurrent(r) == target = req[r].target /\ CurrentRequest = r

(* Faulty variant: the sequence is not aborted.                            *)
OnCancelGoesOn(r) ==
    /\ req[r].callback
    /\ lock = None
    /\ IF IsCurrent(r)
       THEN /\ Configure(r, req[r].index)
       ELSE /\ req' = [req EXCEPT ![r].callback = FALSE]
            /\ UNCHANGED <<target, current, timer>>
    /\ UNCHANGED <<holder, lock, expired>>

OnCancel(r) ==
    /\ req[r].callback
    /\ lock = None
    /\ IF IsCurrent(r)
       THEN /\ End(r, [req[r] EXCEPT !.callback = FALSE, !.status = "cancelled"])
            /\ timer' = "stopped"
       ELSE /\ req' = [req EXCEPT ![r].callback = FALSE]
            /\ UNCHANGED <<target, current, timer>>
    /\ UNCHANGED <<holder, lock, expired>>

(* PbcRequestComplete, or SpbRequestComplete of a request not started.     *)
HolderAfter(r) ==
    IF req[r].kind = "lock" THEN req[r].target ELSE IF req[r].kind = "unlock" THEN None ELSE holder

Complete(r) ==
    /\ req[r].at = "ended"
    /\ req' = [req EXCEPT ![r] = Idle]
    /\ holder' = HolderAfter(r)
    /\ UNCHANGED <<target, current, lock, timer, expired>>

-----------------------------------------------------------------------------
HandlerStep(r) == Lock(r) \/ Unlock(r) \/ Reject(r) \/ MarkFails(r) \/ Mark(r) \/ DoTransfer(r)

DriverStep ==
    \/ \E r \in Request : HandlerStep(r) \/ OnCancel(r) \/ Complete(r)
    \/ Expire
    \/ OnDelayTimerExpired

SpbCxStep == \E r \in Request : Dispatch(r) \/ CancelQueued(r)

IssuerStep ==
    \E r \in Request :
        \/ \E t \in Target, kind \in {"lock", "unlock", "transfer", "sequence"},
              n \in 1 .. MaxTransfers, delays \in SUBSET (1 .. MaxTransfers) :
                Submit(r, t, kind, n, delays)
        \/ CancelIssued(r)

Next == DriverStep \/ SpbCxStep \/ IssuerStep

Spec == Init /\ [][Next]_vars

-----------------------------------------------------------------------------
(* The cancel callback finds its request current: OnCancel's two warnings  *)
(* ("without a valid current target", "... request") are never reached, so *)
(* a request whose cancellation was called back is completed by it.        *)
CancelFindsRequest == \A r \in Request : req[r].callback => IsCurrent(r)

(* The target the driver is configured for is the one SpbCx has locked the *)
(* controller for or the one whose request is being handled, and no other  *)
(* target has a current request: NT_ASSERT in the handlers.                *)
BusFollowsLock ==
    /\ \A r \in Request : req[r].at = "handed" =>
            /\ target = IF req[r].kind \in {"unlock", "inside"} THEN req[r].target ELSE None
            /\ \A t \in Target : current[t] = None
    /\ \A t \in Target : current[t] # None => t = target
    /\ (\A r \in Request : ~Active(r)) => target = holder

(* The comment in PbcRequestDoTransfer: "There should never be another     *)
(* request scheduled for delay" when one starts the timer.                 *)
NeverAnotherDelay ==
    [][\A r \in Request : (lock = r /\ lock' = None /\ 1 \in req[r].delays) => timer = "stopped"]_vars
=============================================================================
