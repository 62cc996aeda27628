--------------------------- MODULE SpbStackProofs ---------------------------
(***************************************************************************)
(* Proofs about the controller driver and about the bus.                   *)
(*                                                                         *)
(* I2cController, for any targets and requests and sequences of any length:*)
(* the configured target follows the request that is handled and SpbCx's   *)
(* lock, and a cancel callback finds its request current.  These proofs use*)
(* no assumption of SpbStack.                                              *)
(*                                                                         *)
(* SpbStack: with SpbTestTool and other clients as its issuers the         *)
(* controller driver still is I2cController, so that what is proved of that*)
(* holds here; and SpbTestTool's SPB request is flagged as a sequence      *)
(* exactly while it carries one.                                           *)
(***************************************************************************)
EXTENDS SpbStack, TLAPS

-----------------------------------------------------------------------------
(* The controller driver. *)

NoCurrent == \A t \in Target : current[t] = None

Quiet(r) == ~req[r].marked /\ ~req[r].callback

\* SpbCx has handed over one request at most.
OneActive == \A q, r \in Request : Active(q) /\ Active(r) => q = r

Waiting(r) == /\ req[r].at \in {"idle", "queued"} => Quiet(r)
              /\ req[r].at = "queued" => req[r].kind # "inside"

\* Who holds the controller while a request is with the driver, and what the
\* driver is configured for before and after it.
HeldBy(r) == IF req[r].kind \in {"unlock", "inside"} THEN req[r].target ELSE None

LeftBy(r) == IF req[r].kind \in {"lock", "inside"} THEN req[r].target ELSE None

Handed(r) ==
    req[r].at = "handed" => Quiet(r) /\ NoCurrent /\ target = HeldBy(r)

Current(r) ==
    req[r].at = "current" =>
        /\ HasTransfers(r) /\ ~(req[r].marked /\ req[r].callback)
        /\ target = req[r].target /\ current[target] = r
        /\ \A t \in Target : t # target => current[t] = None

Ended(r) ==
    req[r].at = "ended" => Quiet(r) /\ NoCurrent /\ target = LeftBy(r)

Held(r) == /\ req[r].at # "idle" => req[r].target \in Target
           /\ Active(r) => holder = HeldBy(r)

Nobody == (\A r \in Request : ~Active(r)) => target = holder /\ NoCurrent

LockHeld == lock # None => req[lock].at = "current"

Own(r) == Waiting(r) /\ Handed(r) /\ Current(r) /\ Ended(r) /\ Held(r)

IInv ==
    /\ TypeOK
    /\ OneActive /\ Nobody /\ LockHeld
    /\ \A r \in Request : Own(r)

-----------------------------------------------------------------------------
LEMMA OthersRest ==
    ASSUME IInv, NEW r \in Request, Active(r)
    PROVE  \A q \in Request \ {r} : ~Active(q)
BY DEF IInv, OneActive

\* A step of the request that the driver has, or is given.
LEMMA StepOfActive ==
    ASSUME IInv, TypeOK', NEW r \in Request,
           \A q \in Request \ {r} : ~Active(q) /\ req'[q] = req[q],
           Own(r)', LockHeld',
           ~Active(r)' => target' = holder' /\ NoCurrent'
    PROVE  IInv'
<1>1. \A q \in Request \ {r} : ~Active(q)'
  BY DEF Active
<1>2. OneActive'
  BY <1>1 DEF OneActive
<1>3. Nobody'
  BY DEF Nobody
<1>4. \A q \in Request \ {r} : Own(q)'
  <2> SUFFICES ASSUME NEW q \in Request \ {r} PROVE Own(q)'
    OBVIOUS
  <2>1. Waiting(q) /\ Held(q) /\ req[q].at \in {"idle", "queued", "handed", "current", "ended"}
    BY DEF IInv, Own, TypeOK, Context
  <2>2. Waiting(q)'
    BY <2>1 DEF Waiting, Quiet
  <2>3. Handed(q)' /\ Current(q)' /\ Ended(q)'
    BY <1>1, <2>1 DEF Handed, Current, Ended, Active
  <2>4. Held(q)'
    BY <1>1, <2>1 DEF Held
  <2> QED BY <2>2, <2>3, <2>4 DEF Own
<1> QED BY <1>2, <1>3, <1>4 DEF IInv

\* A step of a request that waits with SpbCx or with its issuer.
LEMMA StepOfWaiting ==
    ASSUME IInv, TypeOK', NEW r \in Request,
           ~Active(r), ~Active(r)',
           \A q \in Request \ {r} : req'[q] = req[q],
           Quiet(r)',
           req'[r].at # "idle" => req'[r].target \in Target /\ req'[r].kind # "inside",
           UNCHANGED <<holder, target, current, lock>>
    PROVE  IInv'
<1>1. \A q \in Request : Active(q)' <=> Active(q)
  BY DEF Active
<1>2. OneActive'
  BY <1>1 DEF IInv, OneActive
<1>3. Nobody'
  BY <1>1 DEF IInv, Nobody, NoCurrent
<1>4. LockHeld'
  BY DEF IInv, LockHeld, TypeOK, Active
<1>5. Own(r)'
  BY DEF Own, Waiting, Handed, Current, Ended, Held, Active
<1>6. \A q \in Request \ {r} : Own(q)'
  BY DEF IInv, Own, Waiting, Handed, Current, Ended, Held, Quiet, NoCurrent, HeldBy, LeftBy,
         HasTransfers, Active
<1> QED BY <1>2, <1>3, <1>4, <1>5, <1>6 DEF IInv

LEMMA IdleContext ==
    /\ Idle \in Context
    /\ Idle.at = "idle" /\ ~Idle.marked /\ ~Idle.callback
BY MaxTransfersAssumption DEF Context, Kind, Idle

-----------------------------------------------------------------------------
\* SpbCx and the issuers.

LEMMA SubmitKeeps ==
    ASSUME IInv, NEW r \in Request, NEW t \in Target,
           NEW kind \in {"lock", "unlock", "transfer", "sequence"},
           NEW n \in 1 .. MaxTransfers, NEW delays \in SUBSET (1 .. MaxTransfers),
           Submit(r, t, kind, n, delays)
    PROVE  IInv'
<1> USE MaxTransfersAssumption
<1> DEFINE new == [Idle EXCEPT !.at = "queued", !.target = t, !.kind = kind,
                               !.count = n, !.delays = delays]
<1>1. /\ new \in Context /\ new.at = "queued" /\ ~new.marked /\ ~new.callback
      /\ new.target = t /\ new.kind = kind
  <2>1. DOMAIN Idle = {"at", "target", "kind", "count", "delays", "index", "status", "marked",
                       "cancelled", "callback"}
    BY DEF Idle
  <2>2. new.at = "queued" /\ new.target = t /\ new.kind = kind
         /\ ~new.marked /\ ~new.callback
    BY <2>1, IdleContext
  <2> QED BY <2>2, IdleContext DEF Context, Kind
<1>2. req' = [req EXCEPT ![r] = new] /\ req[r].at = "idle"
  BY DEF Submit
<1> HIDE DEF new
<1>3. TypeOK'
  BY <1>1, <1>2 DEF IInv, TypeOK, Submit
<1>4. /\ req'[r] = new
      /\ \A q \in Request \ {r} : req'[q] = req[q]
  BY <1>2 DEF IInv, TypeOK
<1>5. /\ ~Active(r) /\ ~Active(r)' /\ Quiet(r)'
      /\ req'[r].target \in Target /\ req'[r].kind # "inside"
  BY <1>1, <1>2, <1>4 DEF Active, Quiet
<1> QED BY <1>3, <1>4, <1>5, StepOfWaiting DEF Submit

LEMMA CancelQueuedKeeps ==
    ASSUME IInv, NEW r \in Request, CancelQueued(r)
    PROVE  IInv'
<1> USE MaxTransfersAssumption
<1>1. Idle \in Context /\ Idle.at = "idle" /\ ~Idle.marked /\ ~Idle.callback
  BY IdleContext
<1>2. req' = [req EXCEPT ![r] = Idle] /\ req[r].at = "queued"
  BY DEF CancelQueued
<1>3. TypeOK'
  BY <1>1, <1>2 DEF IInv, TypeOK, CancelQueued
<1>4. /\ req'[r] = Idle
      /\ \A q \in Request \ {r} : req'[q] = req[q]
  BY <1>2 DEF IInv, TypeOK
<1>5. ~Active(r) /\ ~Active(r)' /\ Quiet(r)' /\ req'[r].at = "idle"
  BY <1>1, <1>2, <1>4 DEF Active, Quiet
<1> QED BY <1>3, <1>4, <1>5, StepOfWaiting DEF CancelQueued

\* Cancelling changes the mark of a request and queues its cancel callback.
LEMMA CancelIssuedKeeps ==
    ASSUME IInv, NEW r \in Request, CancelIssued(r)
    PROVE  IInv'
<1>1. /\ req'[r] = [req[r] EXCEPT !.cancelled = TRUE, !.callback = @ \/ req[r].marked,
                                  !.marked = FALSE]
      /\ \A q \in Request \ {r} : req'[q] = req[q]
      /\ UNCHANGED <<holder, target, current, lock, timer, expired>>
  BY DEF CancelIssued, IInv, TypeOK
<1>2. req[r] \in Context
  BY DEF IInv, TypeOK
<1>3. /\ req'[r].at = req[r].at /\ req'[r].kind = req[r].kind
      /\ req'[r].target = req[r].target
      /\ Quiet(r) => Quiet(r)'
  BY <1>1, <1>2 DEF Context, Quiet
<1>4. TypeOK'
  <2>1. req'[r] \in Context
    BY <1>1, <1>2 DEF Context
  <2> QED BY <1>1, <2>1 DEF CancelIssued, IInv, TypeOK
<1>5. Own(r)
  BY DEF IInv
<1>6. Own(r)'
  BY <1>1, <1>3, <1>5 DEF Own, Waiting, Handed, Current, Ended, Held, HasTransfers, HeldBy, LeftBy,
         NoCurrent, Active
<1>7. CASE Active(r)
  <2>1. LockHeld'
    BY <1>1, <1>3 DEF IInv, LockHeld, TypeOK
  <2>2. Active(r)'
    BY <1>3, <1>7 DEF Active
  <2> QED BY <1>1, <1>4, <1>6, <1>7, <2>1, <2>2, OthersRest, StepOfActive
<1>8. CASE ~Active(r)
  <2>1. ~Active(r)' /\ req'[r].at \in {"idle", "queued"}
    BY <1>2, <1>3, <1>8 DEF Active, Context
  <2>2. /\ Quiet(r)'
        /\ req'[r].at # "idle" => req'[r].target \in Target /\ req'[r].kind # "inside"
    BY <1>6, <2>1 DEF Own, Waiting, Held
  <2> QED BY <1>1, <1>4, <1>8, <2>1, <2>2, StepOfWaiting
<1> QED BY <1>7, <1>8

LEMMA DispatchKeeps ==
    ASSUME IInv, NEW r \in Request, Dispatch(r)
    PROVE  IInv'
<1>1. /\ req'[r] = [req[r] EXCEPT !.at = "handed", !.kind = Position(r)]
      /\ \A q \in Request \ {r} : req'[q] = req[q]
      /\ UNCHANGED <<holder, target, current, lock, timer, expired>>
      /\ req[r].at = "queued" /\ Admissible(r)
      /\ \A q \in Request : ~Active(q)
  BY DEF Dispatch, IInv, TypeOK
<1>2. req[r] \in Context /\ Position(r) \in Kind
  BY DEF IInv, TypeOK, Context, Position, Kind
<1>3. /\ req'[r].at = "handed" /\ req'[r].kind = Position(r)
      /\ req'[r].target = req[r].target
      /\ req'[r].marked = req[r].marked /\ req'[r].callback = req[r].callback
  BY <1>1, <1>2 DEF Context
<1>4. TypeOK'
  <2>1. req'[r] \in Context
    BY <1>1, <1>2 DEF Context
  <2> QED BY <1>1, <2>1 DEF Dispatch, IInv, TypeOK
<1>5. target = holder /\ NoCurrent /\ Own(r) /\ holder \in Target \cup {None}
  BY <1>1 DEF IInv, Nobody, TypeOK
<1>6. holder = HeldBy(r)'
  <2>1. /\ req[r].kind \in Kind \ {"inside"}
        /\ req'[r].kind = IF req[r].kind = "transfer" /\ holder # None THEN "inside" ELSE req[r].kind
        /\ IF holder = None THEN req[r].kind # "unlock"
                            ELSE holder = req[r].target /\ req[r].kind \in {"unlock", "transfer"}
    BY <1>1, <1>2, <1>3, <1>5 DEF Own, Waiting, Context, Position, Admissible
  <2>2. HeldBy(r)' = IF req'[r].kind \in {"unlock", "inside"} THEN req[r].target ELSE None
    BY <1>3 DEF HeldBy
  <2> QED BY <2>1, <2>2, NoneAssumption DEF Kind
<1>7. Own(r)'
  BY <1>1, <1>3, <1>5, <1>6 DEF Own, Waiting, Handed, Current, Ended, Held, Quiet, NoCurrent
<1>8. LockHeld' /\ Active(r)'
  BY <1>1, <1>3 DEF IInv, LockHeld, TypeOK, Active
<1> QED BY <1>1, <1>4, <1>7, <1>8, StepOfActive

-----------------------------------------------------------------------------
\* The handlers.

\* The sections that only set the target and say that the request has ended.
LEMMA EndingKeeps ==
    ASSUME IInv, NEW r \in Request, req[r].at = "handed",
           target' \in Target \cup {None}, target' = LeftBy(r),
           req'[r] \in Context, req' = [req EXCEPT ![r] = req'[r]],
           req'[r].at = "ended", req'[r].kind = req[r].kind, req'[r].target = req[r].target,
           req'[r].marked = req[r].marked, req'[r].callback = req[r].callback,
           UNCHANGED <<holder, current, lock, timer, expired>>
    PROVE  IInv'
<1>1. Own(r) /\ Active(r) /\ Active(r)'
  BY DEF IInv, Active
<1>2. \A q \in Request \ {r} : req'[q] = req[q]
  BY DEF IInv, TypeOK
<1>3. TypeOK'
  BY DEF IInv, TypeOK
<1>4. Quiet(r) /\ NoCurrent /\ holder = HeldBy(r) /\ req[r].target \in Target
  BY <1>1 DEF Own, Handed, Held
<1>5. Quiet(r)' /\ NoCurrent' /\ holder' = HeldBy(r)' /\ target' = LeftBy(r)'
  BY <1>4 DEF Quiet, NoCurrent, HeldBy, LeftBy
<1>6. Own(r)'
  BY <1>4, <1>5 DEF Own, Waiting, Handed, Current, Ended, Held
<1>7. LockHeld'
  BY <1>2 DEF IInv, LockHeld, TypeOK
<1> QED BY <1>1, <1>2, <1>3, <1>6, <1>7, OthersRest, StepOfActive

LEMMA LockingKeeps ==
    ASSUME IInv, NEW r \in Request, Lock(r) \/ Unlock(r)
    PROVE  IInv'
<1>1. req[r] \in Context /\ req[r].at = "handed"
  BY DEF IInv, TypeOK, Lock, Unlock
<1>2. req'[r] = [req[r] EXCEPT !.at = "ended"]
  BY DEF Lock, Unlock, IInv, TypeOK
<1>3. req' = [req EXCEPT ![r] = req'[r]]
  BY <1>2 DEF Lock, Unlock
<1>4. /\ req'[r] \in Context
      /\ req'[r].at = "ended" /\ req'[r].kind = req[r].kind /\ req'[r].target = req[r].target
      /\ req'[r].marked = req[r].marked /\ req'[r].callback = req[r].callback
  BY <1>1, <1>2 DEF Context
<1>5. target' = LeftBy(r) /\ target' \in Target \cup {None}
  BY <1>1 DEF Lock, Unlock, LeftBy, Context
<1>6. UNCHANGED <<holder, current, lock, timer, expired>>
  BY DEF Lock, Unlock
<1> QED BY <1>1, <1>3, <1>4, <1>5, <1>6, EndingKeeps

LEMMA RefusingKeeps ==
    ASSUME IInv, NEW r \in Request, Reject(r) \/ MarkFails(r)
    PROVE  IInv'
<1>1. req[r] \in Context /\ req[r].at = "handed" /\ Own(r) /\ HasTransfers(r)
  BY DEF IInv, TypeOK, Reject, MarkFails
<1>2. PICK s \in {"invalid", "cancelled"} :
         req' = [req EXCEPT ![r].at = "ended", ![r].status = s]
  BY DEF Reject, MarkFails
<1>3. req'[r] = [req[r] EXCEPT !.at = "ended", !.status = s]
  BY <1>2 DEF IInv, TypeOK
<1>4. req' = [req EXCEPT ![r] = req'[r]]
  BY <1>2, <1>3
<1>5. /\ req'[r] \in Context
      /\ req'[r].at = "ended" /\ req'[r].kind = req[r].kind /\ req'[r].target = req[r].target
      /\ req'[r].marked = req[r].marked /\ req'[r].callback = req[r].callback
  BY <1>1, <1>3 DEF Context
<1>6. target' = LeftBy(r) /\ target' \in Target \cup {None}
  BY <1>1 DEF Reject, MarkFails, Own, Handed, HeldBy, LeftBy, HasTransfers, IInv, TypeOK
<1>7. UNCHANGED <<holder, current, lock, timer, expired>>
  BY DEF Reject, MarkFails
<1> QED BY <1>1, <1>4, <1>5, <1>6, <1>7, EndingKeeps

LEMMA MarkKeeps ==
    ASSUME IInv, NEW r \in Request, Mark(r)
    PROVE  IInv'
<1>1. /\ req'[r] = [req[r] EXCEPT !.at = "current", !.marked = TRUE]
      /\ \A q \in Request \ {r} : req'[q] = req[q]
      /\ UNCHANGED <<holder, timer, expired>>
      /\ req[r].at = "handed" /\ HasTransfers(r) /\ lock' = r
  BY DEF Mark, IInv, TypeOK
<1>2. req[r] \in Context /\ Own(r) /\ Active(r)
  BY <1>1 DEF IInv, TypeOK, Active
<1>3. /\ NoCurrent /\ target = HeldBy(r) /\ holder = HeldBy(r) /\ req[r].target \in Target
      /\ ~req[r].callback
  BY <1>1, <1>2 DEF Own, Handed, Held, Quiet
<1>4. /\ req'[r] \in Context /\ req'[r].at = "current" /\ req'[r].kind = req[r].kind
      /\ req'[r].target = req[r].target /\ ~req'[r].callback
  BY <1>1, <1>2, <1>3 DEF Context
<1>5. target' = req[r].target
  BY <1>1, <1>3 DEF Mark, EndsHold, HeldBy, HasTransfers
<1>6. /\ current' = [current EXCEPT ![req[r].target] = r]
      /\ current \in [Target -> Request \cup {None}]
  BY DEF Mark, IInv, TypeOK
<1>7. TypeOK'
  <2>1. req' \in [Request -> Context]
    BY <1>4 DEF Mark, IInv, TypeOK
  <2> QED BY <1>1, <1>3, <1>5, <1>6, <2>1 DEF IInv, TypeOK
<1>8. Current(r)'
  BY <1>1, <1>3, <1>4, <1>5, <1>6 DEF Current, HasTransfers, NoCurrent
<1>9. Own(r)'
  BY <1>1, <1>3, <1>4, <1>8 DEF Own, Waiting, Handed, Ended, Held, HeldBy
<1>10. LockHeld' /\ Active(r)'
  BY <1>1, <1>4 DEF LockHeld, Active
<1> QED BY <1>1, <1>2, <1>7, <1>9, <1>10, OthersRest, StepOfActive

\* A section that leaves the request current and changes only its context.
LEMMA StayingKeeps ==
    ASSUME IInv, NEW r \in Request, req[r].at = "current",
           req'[r] \in Context, req' = [req EXCEPT ![r] = req'[r]],
           req'[r].at = "current", req'[r].kind = req[r].kind, req'[r].target = req[r].target,
           req'[r].marked = req[r].marked, req'[r].callback = req[r].callback,
           UNCHANGED <<holder, target, current>>,
           lock' \in {lock, None}, timer' \in {"started", "stopped"}, expired' \in 0 .. MaxCallbacks
    PROVE  IInv'
<1>1. /\ \A q \in Request \ {r} : req'[q] = req[q]
      /\ Own(r) /\ Active(r) /\ Active(r)'
  BY DEF IInv, TypeOK, Active
<1>2. TypeOK'
  BY DEF IInv, TypeOK
<1>3. Own(r)'
  BY <1>1 DEF Own, Waiting, Handed, Current, Ended, Held, HeldBy, HasTransfers, Active
<1>4. LockHeld'
  BY <1>1 DEF IInv, LockHeld, TypeOK
<1> QED BY <1>1, <1>2, <1>3, <1>4, OthersRest, StepOfActive

\* A section that ends the current request, which the handler's lock no
\* longer protects.
LEMMA EndKeeps ==
    ASSUME IInv, NEW r \in Request, req[r].at = "current",
           NEW q \in Context,
           q.kind = req[r].kind, q.target = req[r].target, ~q.callback,
           End(r, q),
           UNCHANGED holder, lock' = None,
           timer' \in {"started", "stopped"}, expired' \in 0 .. MaxCallbacks
    PROVE  IInv'
<1>1. Own(r) /\ Active(r) /\ Current(r) /\ Held(r)
  BY DEF IInv, Active, Own
<1>2. /\ target = req[r].target /\ target \in Target /\ holder = HeldBy(r) /\ HasTransfers(r)
      /\ \A t \in Target : t # target => current[t] = None
  BY <1>1 DEF Current, Held
<1>3. /\ req'[r] = [q EXCEPT !.at = "ended", !.marked = FALSE]
      /\ \A p \in Request \ {r} : req'[p] = req[p]
      /\ req' = [req EXCEPT ![r] = req'[r]]
  BY DEF End, IInv, TypeOK
<1>4. /\ req'[r] \in Context /\ req'[r].at = "ended" /\ req'[r].kind = req[r].kind
      /\ req'[r].target = req[r].target /\ ~req'[r].marked /\ ~req'[r].callback
  BY <1>3 DEF Context
<1>5. target' = IF req[r].kind \in {"transfer", "sequence"} THEN None ELSE req[r].target
  BY <1>2 DEF End, EndsHold
<1>6. /\ current' = [current EXCEPT ![target] = None]
      /\ current \in [Target -> Request \cup {None}]
  BY DEF End, IInv, TypeOK
<1>7. NoCurrent'
  BY <1>2, <1>6 DEF NoCurrent
<1>8. TypeOK'
  <2>1. req' \in [Request -> Context]
    BY <1>3, <1>4 DEF IInv, TypeOK
  <2> QED BY <1>2, <1>5, <1>6, <2>1 DEF IInv, TypeOK
<1>9. target' = LeftBy(r)' /\ holder' = HeldBy(r)'
  BY <1>2, <1>4, <1>5 DEF LeftBy, HeldBy, HasTransfers
<1>10. Own(r)'
  BY <1>2, <1>4, <1>7, <1>9 DEF Own, Waiting, Handed, Current, Ended, Held, Quiet
<1>11. LockHeld' /\ Active(r)'
  BY <1>4 DEF LockHeld, Active
<1> QED BY <1>1, <1>3, <1>8, <1>10, <1>11, OthersRest, StepOfActive

LEMMA ConfigureKeeps ==
    ASSUME IInv, NEW r \in Request, req[r].at = "current",
           NEW i \in 1 .. MaxTransfers + 1, Configure(r, i),
           UNCHANGED holder, lock' = None, expired' \in 0 .. MaxCallbacks
    PROVE  IInv'
<1> USE MaxTransfersAssumption
<1>1. req[r] \in Context /\ timer \in {"started", "stopped"} /\ Own(r)
  BY DEF IInv, TypeOK
<1>2. CASE Later(req[r], i) = {}
  <2> DEFINE q == [req[r] EXCEPT !.index = req[r].count + 1, !.status = "success"]
  <2>1. /\ q \in Context /\ q.kind = req[r].kind /\ q.target = req[r].target
        /\ q.at = "current" /\ q.marked = req[r].marked /\ q.callback = req[r].callback
        /\ q.status = "success"
    <3>1. req[r].count + 1 \in 1 .. MaxTransfers + 1
      BY <1>1 DEF Context
    <3> QED BY <1>1, <3>1 DEF Context
  <2>2. Finish(r, q) /\ timer' \in {"started", "stopped"}
    BY <1>1, <1>2 DEF Configure
  <2> HIDE DEF q
  <2>3. CASE q.marked /\ ~q.callback
    <3>1. End(r, q)
      BY <2>2, <2>3 DEF Finish
    <3> QED BY <2>1, <2>2, <2>3, <3>1, EndKeeps
  <2>4. CASE ~q.marked
    <3>1. req' = [req EXCEPT ![r] = q] /\ UNCHANGED <<target, current>>
      BY <2>1, <2>2, <2>4 DEF Finish
    <3>2. req'[r] = q
      BY <3>1 DEF IInv, TypeOK
    <3>3. req' = [req EXCEPT ![r] = req'[r]]
      BY <3>1, <3>2
    <3> QED BY <2>1, <2>2, <3>1, <3>2, <3>3, StayingKeeps
  <2>5. ~(q.marked /\ q.callback)
    BY <1>1, <2>1 DEF Own, Current
  <2> QED BY <2>3, <2>4, <2>5
<1>3. CASE Later(req[r], i) # {}
  <2>1. PICK j \in Later(req[r], i) :
            /\ timer' = "started"
            /\ req' = [req EXCEPT ![r].index = j]
            /\ UNCHANGED <<target, current>>
    BY <1>3 DEF Configure
  <2>2. j \in 1 .. MaxTransfers
    BY <1>1, <2>1 DEF Later, Context
  <2>3. req'[r] = [req[r] EXCEPT !.index = j]
    BY <2>1 DEF IInv, TypeOK
  <2>4. /\ req'[r] \in Context /\ req'[r].at = "current"
        /\ req'[r].kind = req[r].kind /\ req'[r].target = req[r].target
        /\ req'[r].marked = req[r].marked /\ req'[r].callback = req[r].callback
    BY <1>1, <2>2, <2>3 DEF Context
  <2>5. req' = [req EXCEPT ![r] = req'[r]]
    BY <2>1, <2>3
  <2> QED BY <2>1, <2>4, <2>5, StayingKeeps
<1> QED BY <1>2, <1>3

LEMMA DoTransferKeeps ==
    ASSUME IInv, NEW r \in Request, DoTransfer(r)
    PROVE  IInv'
<1>1. /\ lock = r /\ lock' = None /\ UNCHANGED <<holder, expired>>
      /\ IF 1 \in req[r].delays
         THEN timer' = "started" /\ UNCHANGED <<target, current, req>>
         ELSE Configure(r, 1)
  BY DEF DoTransfer
<1>2. req[r].at = "current" /\ expired \in 0 .. MaxCallbacks
  BY <1>1, NoneAssumption DEF IInv, LockHeld, TypeOK
<1>3. CASE 1 \in req[r].delays
  <2>1. req' = [req EXCEPT ![r] = req'[r]] /\ req'[r] \in Context
    BY <1>1, <1>3 DEF IInv, TypeOK
  <2> QED BY <1>1, <1>2, <1>3, <2>1, StayingKeeps
<1>4. CASE 1 \notin req[r].delays
  BY <1>1, <1>2, <1>4, MaxTransfersAssumption, ConfigureKeeps
<1> QED BY <1>3, <1>4

-----------------------------------------------------------------------------
\* The timer, the cancel callback and the completion.

LEMMA ExpireKeeps ==
    ASSUME IInv, Expire
    PROVE  IInv'
BY DEF Expire, IInv, TypeOK, MaxCallbacks, OneActive, Nobody, LockHeld, Own, Waiting, Handed, Current,
       Ended, Held, Active, Quiet, NoCurrent, HeldBy, LeftBy, HasTransfers

LEMMA OnDelayTimerExpiredKeeps ==
    ASSUME IInv, OnDelayTimerExpired
    PROVE  IInv'
<1>1. /\ lock = None /\ UNCHANGED <<holder, lock>>
      /\ expired' \in 0 .. MaxCallbacks
  BY DEF OnDelayTimerExpired, IInv, TypeOK, MaxCallbacks
<1>2. CASE CurrentRequest = None
  <2>1. UNCHANGED <<holder, target, current, req, lock, timer>>
    BY <1>1, <1>2 DEF OnDelayTimerExpired
  <2> QED BY <1>1, <2>1 DEF IInv, TypeOK, OneActive, Nobody, LockHeld, Own, Waiting, Handed, Current,
       Ended, Held, Active, Quiet, NoCurrent, HeldBy, LeftBy, HasTransfers
<1>3. CASE CurrentRequest # None
  <2> DEFINE r == CurrentRequest
  <2>1. /\ target \in Target /\ r = current[target] /\ r \in Request
        /\ Configure(r, req[r].index)
    BY <1>3, NoneAssumption DEF OnDelayTimerExpired, CurrentRequest, IInv, TypeOK
  <2>2. \E q \in Request : Active(q)
    BY <1>3, <2>1 DEF IInv, Nobody, NoCurrent
  <2>3. PICK q \in Request : Active(q)
    BY <2>2
  <2>4. q = r /\ req[r].at = "current"
    BY <1>3, <2>1, <2>3 DEF IInv, Own, Handed, Current, Ended, NoCurrent, Active
  <2>5. req[r].index \in 1 .. MaxTransfers + 1
    BY <2>1 DEF IInv, TypeOK, Context
  <2> QED BY <1>1, <2>1, <2>4, <2>5, ConfigureKeeps
<1> QED BY <1>2, <1>3

\* A cancel callback that is on its way finds its request current.
LEMMA CallbackOfCurrent ==
    ASSUME IInv, NEW r \in Request, req[r].callback
    PROVE  req[r].at = "current" /\ IsCurrent(r)
<1>1. Own(r) /\ req[r].at \in {"idle", "queued", "handed", "current", "ended"}
  BY DEF IInv, TypeOK, Context
<1>2. req[r].at = "current"
  BY <1>1 DEF Own, Waiting, Handed, Ended, Quiet
<1>3. target = req[r].target /\ current[target] = r /\ target \in Target
  BY <1>1, <1>2 DEF Own, Current, Held
<1> QED BY <1>2, <1>3, NoneAssumption DEF IsCurrent, CurrentRequest

LEMMA OnCancelKeeps ==
    ASSUME IInv, NEW r \in Request, OnCancel(r)
    PROVE  IInv'
<1> DEFINE q == [req[r] EXCEPT !.callback = FALSE, !.status = "cancelled"]
<1>1. /\ req[r].callback /\ lock = None /\ UNCHANGED <<holder, lock, expired>>
      /\ IsCurrent(r) => End(r, q) /\ timer' = "stopped"
  BY DEF OnCancel
<1>2. req[r].at = "current" /\ IsCurrent(r)
  BY <1>1, CallbackOfCurrent
<1>3. req[r] \in Context /\ expired' \in 0 .. MaxCallbacks
  BY <1>1 DEF IInv, TypeOK
<1>4. q \in Context /\ q.kind = req[r].kind /\ q.target = req[r].target /\ ~q.callback
  BY <1>3 DEF Context
<1> HIDE DEF q
<1> QED BY <1>1, <1>2, <1>3, <1>4, EndKeeps

LEMMA CompleteKeeps ==
    ASSUME IInv, NEW r \in Request, Complete(r)
    PROVE  IInv'
<1>1. /\ req'[r] = Idle /\ req' = [req EXCEPT ![r] = Idle]
      /\ \A q \in Request \ {r} : req'[q] = req[q]
      /\ UNCHANGED <<target, current, lock, timer, expired>>
      /\ req[r].at = "ended" /\ holder' = HolderAfter(r)
  BY DEF Complete, IInv, TypeOK
<1>2. Own(r) /\ Active(r) /\ req[r].kind \in Kind /\ req[r].target \in Target
  BY <1>1 DEF IInv, TypeOK, Active, Own, Held, Context
<1>3. target = LeftBy(r) /\ NoCurrent /\ holder = HeldBy(r)
  BY <1>1, <1>2 DEF Own, Ended, Held
<1>4. holder' = target
  BY <1>1, <1>2, <1>3 DEF HolderAfter, LeftBy, HeldBy, Kind
<1>5. TypeOK'
  BY <1>1, <1>4, IdleContext DEF IInv, TypeOK
<1>6. ~Active(r)' /\ Own(r)'
  BY <1>1, IdleContext DEF Active, Own, Waiting, Handed, Current, Ended, Held, Quiet
<1>7. LockHeld'
  BY <1>1 DEF IInv, LockHeld, TypeOK
<1>8. target' = holder' /\ NoCurrent'
  BY <1>1, <1>3, <1>4 DEF NoCurrent
<1> QED BY <1>1, <1>2, <1>5, <1>6, <1>7, <1>8, OthersRest, StepOfActive

-----------------------------------------------------------------------------
LEMMA InitHolds == Init => IInv
<1> SUFFICES ASSUME Init PROVE IInv
  OBVIOUS
<1>1. \A r \in Request : req[r] = Idle
  BY DEF Init
<1>2. TypeOK
  BY IdleContext DEF Init, TypeOK, MaxCallbacks
<1>3. \A r \in Request : ~Active(r) /\ Own(r)
  BY <1>1, IdleContext DEF Active, Own, Waiting, Handed, Current, Ended, Held, Quiet
<1> QED BY <1>2, <1>3 DEF Init, IInv, OneActive, Nobody, LockHeld, NoCurrent

LEMMA StepKeeps == IInv /\ [Next]_vars => IInv'
<1> SUFFICES ASSUME IInv, [Next]_vars PROVE IInv'
  OBVIOUS
<1>1. CASE DriverStep
  <2>1. CASE \E r \in Request : HandlerStep(r)
    BY <2>1, LockingKeeps, RefusingKeeps, MarkKeeps, DoTransferKeeps DEF HandlerStep
  <2>2. CASE \E r \in Request : OnCancel(r) \/ Complete(r)
    BY <2>2, OnCancelKeeps, CompleteKeeps
  <2>3. CASE Expire \/ OnDelayTimerExpired
    BY <2>3, ExpireKeeps, OnDelayTimerExpiredKeeps
  <2> QED BY <1>1, <2>1, <2>2, <2>3 DEF DriverStep
<1>2. CASE SpbCxStep
  BY <1>2, DispatchKeeps, CancelQueuedKeeps DEF SpbCxStep
<1>3. CASE IssuerStep
  BY <1>3, SubmitKeeps, CancelIssuedKeeps DEF IssuerStep
<1>4. CASE UNCHANGED vars
  BY <1>4 DEF vars, IInv, TypeOK, OneActive, Nobody, LockHeld, Own, Waiting, Handed, Current,
       Ended, Held, Active, Quiet, NoCurrent, HeldBy, LeftBy, HasTransfers
<1> QED BY <1>1, <1>2, <1>3, <1>4 DEF Next

LEMMA Inductive == Spec => []IInv
BY InitHolds, StepKeeps, PTL DEF Spec

\* The driver's state, the requests' contexts and the timer keep their types.
THEOREM TypeCorrect == Spec => []TypeOK
<1>1. IInv => TypeOK
  BY DEF IInv
<1> QED BY <1>1, Inductive, PTL

\* Whenever the framework has called OnCancel for a request, the driver's
\* current target is the request's and the request is its current one: the
\* request is completed there.
THEOREM CancelFindsItsRequest == Spec => []CancelFindsRequest
<1>1. IInv => CancelFindsRequest
  BY CallbackOfCurrent DEF CancelFindsRequest
<1> QED BY <1>1, Inductive, PTL

\* The configured target is SpbCx's lock holder, or the target of the request
\* in hand, and no other target has a current request.
THEOREM BusFollows == Spec => []BusFollowsLock
<1>1. IInv => BusFollowsLock
  <2> SUFFICES ASSUME IInv PROVE BusFollowsLock
    OBVIOUS
  <2>1. ASSUME NEW r \in Request, req[r].at = "handed"
        PROVE  /\ target = HeldBy(r)
               /\ \A t \in Target : current[t] = None
    BY <2>1 DEF IInv, Own, Handed, NoCurrent
  <2>2. ASSUME NEW t \in Target, current[t] # None
        PROVE  t = target
    <3>1. PICK q \in Request : Active(q)
      BY <2>2 DEF IInv, Nobody, NoCurrent
    <3>2. req[q].at = "current"
      BY <2>2, <3>1 DEF IInv, Own, Handed, Ended, NoCurrent, Active
    <3> QED BY <2>2, <3>2 DEF IInv, Own, Current
  <2>3. (\A r \in Request : ~Active(r)) => target = holder
    BY DEF IInv, Nobody
  <2> QED BY <2>1, <2>2, <2>3 DEF BusFollowsLock, HeldBy
<1> QED BY <1>1, Inductive, PTL

-----------------------------------------------------------------------------
(* The bus. *)

ToolTypes == dev \in [Tool -> TestTool!Pair]

Flagged(d) ==
    /\ dev[d].at \in {"empty", "format", "answer"} => ~dev[d].sequence
    /\ dev[d].at \in {"mark", "send", "sent", "unmark"} =>
            (dev[d].sequence <=> dev[d].op = "sequence")

ToolInv == ToolTypes /\ \A d \in Tool : Flagged(d)

-----------------------------------------------------------------------------
LEMMA LengthBounded ==
    ASSUME NEW op
    PROVE  Length(op) \in 1 .. MaxTransfers
BY MaxTransfersAssumption, LengthAssumption DEF Length

\* A step of the bus is a step of the controller, of SpbCx or of an issuer, or
\* leaves them alone.
LEMMA StepImplements ==
    ASSUME StackNext, ToolTypes
    PROVE  [Next]_vars
<1> USE ToolAssumption
<1>1. ASSUME NEW d \in Tool, Ask(d) \/ ToolStep(d) \/ ToolCancels(d)
      PROVE  UNCHANGED vars
  BY <1>1 DEF Ask, ToolStep, ToolCancels
<1>2. ASSUME NEW d \in Tool, ToolSends(d)
      PROVE  IssuerStep
  <2>1. Submit(d, d, dev[d].op, Length(dev[d].op), {})
    BY <1>2 DEF ToolSends
  <2>2. dev[d].op \in {"lock", "unlock", "transfer", "sequence"}
    BY DEF ToolTypes, TestTool!Pair
  <2>3. Length(dev[d].op) \in 1 .. MaxTransfers /\ {} \in SUBSET (1 .. MaxTransfers)
    BY LengthBounded
  <2>4. d \in Request /\ d \in Target
    OBVIOUS
  <2> QED BY <2>1, <2>2, <2>3, <2>4 DEF IssuerStep
<1>3. ASSUME NEW d \in Tool, ToolOnCancel(d)
      PROVE  [Next]_vars
  <2>1. d \in Request
    OBVIOUS
  <2> QED BY <1>3, <2>1 DEF ToolOnCancel, Next, IssuerStep
<1>4. ASSUME NEW p \in Target \ Tool, OtherSubmits(p)
      PROVE  IssuerStep
  <2>1. p \in Request /\ p \in Target
    OBVIOUS
  <2>2. Allowed(p) \subseteq {"lock", "unlock", "transfer", "sequence"}
    BY DEF Allowed
  <2> QED BY <1>4, <2>1, <2>2 DEF OtherSubmits, IssuerStep
<1>5. ASSUME NEW p \in Target \ Tool, OtherCancels(p)
      PROVE  IssuerStep
  <2>1. p \in Request
    OBVIOUS
  <2> QED BY <1>5, <2>1 DEF OtherCancels, IssuerStep
<1>6. ASSUME NEW p \in Target, Ends(p)
      PROVE  DriverStep \/ SpbCxStep
  <2>1. p \in Request
    OBVIOUS
  <2> QED BY <1>6, <2>1 DEF Ends, DriverStep, SpbCxStep
<1>7. ASSUME NEW p \in Target, ControllerStep(p)
      PROVE  DriverStep
  <2>1. p \in Request
    OBVIOUS
  <2> QED BY <1>7, <2>1 DEF ControllerStep, DriverStep
<1>8. ASSUME NEW p \in Target, Hand(p)
      PROVE  SpbCxStep
  <2>1. p \in Request
    OBVIOUS
  <2> QED BY <1>8, <2>1 DEF Hand, SpbCxStep
<1>9. CASE TimerStep
  BY <1>9 DEF TimerStep, Next, DriverStep
<1> QED BY <1>1, <1>2, <1>3, <1>4, <1>5, <1>6, <1>7, <1>8, <1>9 DEF StackNext, Next

-----------------------------------------------------------------------------
\* Every operation of a device keeps its record's type and its flag.
LEMMA PairKeeps ==
    ASSUME ToolInv, NEW d \in Tool, NEW q \in TestTool!Pair, dev' = [dev EXCEPT ![d] = q],
           q.at \in {"empty", "format", "answer"} => ~q.sequence,
           q.at \in {"mark", "send", "sent", "unmark"} => (q.sequence <=> q.op = "sequence")
    PROVE  ToolInv'
<1>1. ToolTypes'
  BY DEF ToolInv, ToolTypes
<1>2. \A e \in Tool : dev'[e] = IF e = d THEN q ELSE dev[e]
  BY DEF ToolInv, ToolTypes
<1> QED BY <1>1, <1>2 DEF ToolInv, Flagged

LEMMA ToolKeeps ==
    ASSUME ToolInv, TypeOK, StackNext
    PROVE  ToolInv'
<1>1. CASE UNCHANGED dev
  BY <1>1 DEF ToolInv, ToolTypes, Flagged
<1>2. ASSUME NEW d \in Tool,
             \/ Ask(d) \/ ToolStep(d) \/ ToolSends(d) \/ ToolCancels(d) \/ ToolOnCancel(d)
             \/ \E status \in {"success", "cancelled", "invalid"} : TestTool!Return(d, status)
      PROVE  ToolInv'
  <2>0. dev[d] \in TestTool!Pair /\ Flagged(d)
    BY DEF ToolInv, ToolTypes
  <2>1. CASE Ask(d)
    <3>1. PICK op \in {"lock", "unlock", "transfer", "sequence"} : TestTool!Present(d, op)
      BY <2>1 DEF Ask, Allowed
    <3> DEFINE q == [dev[d] EXCEPT !.at = "format", !.op = op, !.status = "success"]
    <3>2. dev' = [dev EXCEPT ![d] = q] /\ dev[d].at = "empty"
      BY <3>1 DEF TestTool!Present
    <3>3. q \in TestTool!Pair /\ q.at = "format" /\ ~q.sequence
      BY <2>0, <3>2 DEF TestTool!Pair, Flagged
    <3> QED BY <3>2, <3>3, PairKeeps
  <2>2. CASE TestTool!Format(d)
    <3> DEFINE q == [dev[d] EXCEPT !.at = "mark", !.sequence = @ \/ dev[d].op = "sequence"]
    <3>1. dev' = [dev EXCEPT ![d] = q] /\ dev[d].at = "format"
      BY <2>2 DEF TestTool!Format
    <3>2. /\ q \in TestTool!Pair /\ q.at = "mark" /\ q.op = dev[d].op
          /\ q.sequence <=> dev[d].op = "sequence"
      BY <2>0, <3>1 DEF TestTool!Pair, Flagged
    <3> QED BY <3>1, <3>2, PairKeeps
  <2>3. CASE TestTool!FormatFails(d)
    <3>1. PICK allocated \in BOOLEAN :
             dev' = [dev EXCEPT ![d].at = "pair", ![d].status = "invalid",
                                ![d].sequence = @ \/ allocated]
      BY <2>3 DEF TestTool!FormatFails
    <3> DEFINE q == [dev[d] EXCEPT !.at = "pair", !.status = "invalid",
                                   !.sequence = @ \/ allocated]
    <3>2. dev' = [dev EXCEPT ![d] = q]
      BY <3>1
    <3>3. q \in TestTool!Pair /\ q.at = "pair"
      BY <2>0 DEF TestTool!Pair
    <3> QED BY <3>2, <3>3, PairKeeps
  <2>4. CASE TestTool!MarkCancelable(d)
    <3> DEFINE q == [dev[d] EXCEPT !.at = "send", !.marked = TRUE]
    <3>1. dev' = [dev EXCEPT ![d] = q] /\ dev[d].at = "mark"
      BY <2>4 DEF TestTool!MarkCancelable
    <3>2. /\ q \in TestTool!Pair /\ q.at = "send" /\ q.op = dev[d].op
          /\ q.sequence <=> dev[d].op = "sequence"
      BY <2>0, <3>1 DEF TestTool!Pair, Flagged
    <3> QED BY <3>1, <3>2, PairKeeps
  <2>5. CASE TestTool!MarkFails(d)
    <3> DEFINE q == [dev[d] EXCEPT !.at = "pair", !.status = "cancelled"]
    <3>1. dev' = [dev EXCEPT ![d] = q]
      BY <2>5 DEF TestTool!MarkFails
    <3>2. q \in TestTool!Pair /\ q.at = "pair"
      BY <2>0 DEF TestTool!Pair
    <3> QED BY <3>1, <3>2, PairKeeps
  <2>6. CASE TestTool!Send(d)
    <3> DEFINE q == [dev[d] EXCEPT !.at = "sent"]
    <3>1. dev' = [dev EXCEPT ![d] = q] /\ dev[d].at = "send"
      BY <2>6 DEF TestTool!Send, TestTool!Step
    <3>2. /\ q \in TestTool!Pair /\ q.at = "sent" /\ q.op = dev[d].op
          /\ q.sequence <=> dev[d].op = "sequence"
      BY <2>0, <3>1 DEF TestTool!Pair, Flagged
    <3> QED BY <3>1, <3>2, PairKeeps
  <2>7. CASE TestTool!SendFails(d)
    <3> DEFINE q == [dev[d] EXCEPT !.at = "pair", !.status = "invalid", !.marked = FALSE]
    <3>1. dev' = [dev EXCEPT ![d] = q]
      BY <2>7 DEF TestTool!SendFails
    <3>2. q \in TestTool!Pair /\ q.at = "pair"
      BY <2>0 DEF TestTool!Pair
    <3> QED BY <3>1, <3>2, PairKeeps
  <2>8. CASE \E status \in {"success", "cancelled", "invalid"} : TestTool!Return(d, status)
    <3>1. PICK status \in {"success", "cancelled", "invalid"} : TestTool!Return(d, status)
      BY <2>8
    <3> DEFINE q == [dev[d] EXCEPT !.at = "unmark", !.status = status]
    <3>2. dev' = [dev EXCEPT ![d] = q] /\ dev[d].at = "sent"
      BY <3>1 DEF TestTool!Return
    <3>3. /\ q \in TestTool!Pair /\ q.at = "unmark" /\ q.op = dev[d].op
          /\ q.sequence <=> dev[d].op = "sequence"
      BY <2>0, <3>2 DEF TestTool!Pair, Flagged
    <3> QED BY <3>2, <3>3, PairKeeps
  <2>9. CASE TestTool!Unmark(d)
    <3> DEFINE q == [dev[d] EXCEPT !.at = "pair", !.marked = FALSE]
    <3>1. dev' = [dev EXCEPT ![d] = q]
      BY <2>9 DEF TestTool!Unmark
    <3>2. q \in TestTool!Pair /\ q.at = "pair"
      BY <2>0 DEF TestTool!Pair
    <3> QED BY <3>1, <3>2, PairKeeps
  <2>10. CASE TestTool!Reuse(d)
    <3> DEFINE q == [dev[d] EXCEPT !.at = "answer", !.sequence = FALSE]
    <3>1. dev' = [dev EXCEPT ![d] = q]
      BY <2>10 DEF TestTool!Reuse
    <3>2. q \in TestTool!Pair /\ q.at = "answer" /\ ~q.sequence
      BY <2>0 DEF TestTool!Pair
    <3> QED BY <3>1, <3>2, PairKeeps
  <2>11. CASE TestTool!Answer(d)
    <3> DEFINE q == [dev[d] EXCEPT !.at = "empty", !.cancelled = FALSE, !.callback = FALSE,
                                   !.late = @ \/ dev[d].callback]
    <3>1. dev' = [dev EXCEPT ![d] = q] /\ dev[d].at = "answer"
      BY <2>11 DEF TestTool!Answer
    <3>2. q \in TestTool!Pair /\ q.at = "empty" /\ ~q.sequence
      BY <2>0, <3>1 DEF TestTool!Pair, Flagged
    <3> QED BY <3>1, <3>2, PairKeeps
  <2>12. CASE TestTool!Cancel(d) \/ TestTool!OnCancel(d)
    <3>1. PICK q \in TestTool!Pair : /\ dev' = [dev EXCEPT ![d] = q]
                                     /\ q.at = dev[d].at /\ q.op = dev[d].op
                                     /\ q.sequence = dev[d].sequence
      <4>1. CASE TestTool!Cancel(d)
        <5> DEFINE q == [dev[d] EXCEPT !.cancelled = TRUE, !.marked = FALSE,
                                       !.callback = dev[d].marked]
        <5>1. dev' = [dev EXCEPT ![d] = q]
          BY <4>1 DEF TestTool!Cancel
        <5>2. q \in TestTool!Pair /\ q.at = dev[d].at /\ q.op = dev[d].op
              /\ q.sequence = dev[d].sequence
          BY <2>0 DEF TestTool!Pair
        <5> QED BY <5>1, <5>2
      <4>2. CASE TestTool!OnCancel(d)
        <5> DEFINE q == [dev[d] EXCEPT !.callback = FALSE, !.late = FALSE]
        <5>1. dev' = [dev EXCEPT ![d] = q]
          BY <4>2 DEF TestTool!OnCancel
        <5>2. q \in TestTool!Pair /\ q.at = dev[d].at /\ q.op = dev[d].op
              /\ q.sequence = dev[d].sequence
          BY <2>0 DEF TestTool!Pair
        <5> QED BY <5>1, <5>2
      <4> QED BY <2>12, <4>1, <4>2
    <3> QED BY <2>0, <3>1, PairKeeps DEF Flagged
  <2> QED BY <1>2, <2>1, <2>2, <2>3, <2>4, <2>5, <2>6, <2>7, <2>8, <2>9, <2>10, <2>11, <2>12
        DEF ToolStep, ToolSends, ToolCancels, ToolOnCancel
<1>3. ASSUME NEW p \in Target, Ends(p)
      PROVE  ToolInv'
  <2>1. req[p].status \in {"success", "cancelled", "invalid"}
    BY ToolAssumption DEF TypeOK, Context
  <2> QED BY <1>1, <1>2, <1>3, <2>1 DEF Ends
<1> QED BY <1>1, <1>2, <1>3
      DEF StackNext, OtherSubmits, OtherCancels, ControllerStep, Hand, TimerStep

-----------------------------------------------------------------------------
StackInv == IInv /\ ToolInv

LEMMA StackInductive == StackSpec => []StackInv
<1>1. StackInit => StackInv
  <2>1. TestTool!Init => ToolInv
    BY DEF TestTool!Init, TestTool!Pair, ToolInv, ToolTypes, Flagged
  <2> QED BY <2>1, InitHolds DEF StackInit, StackInv
<1>2. StackInv /\ [StackNext]_stackVars => StackInv'
  <2> SUFFICES ASSUME StackInv, [StackNext]_stackVars PROVE StackInv'
    OBVIOUS
  <2>1. [Next]_vars
    BY StepImplements DEF StackInv, ToolInv, stackVars
  <2>2. IInv'
    BY <2>1, StepKeeps DEF StackInv
  <2>3. CASE UNCHANGED stackVars
    BY <2>2, <2>3 DEF stackVars, StackInv, ToolInv, ToolTypes, Flagged
  <2> QED BY <2>2, <2>3, ToolKeeps DEF StackInv, IInv
<1> QED BY <1>1, <1>2, PTL DEF StackSpec

\* The controller driver keeps its specification on this bus, whatever its
\* clients do: every step of the bus is a step of I2cController or leaves it alone.
THEOREM ImplementsController == StackSpec => Spec
<1>1. StackInit => Init
  BY DEF StackInit
<1>2. StackInv /\ [StackNext]_stackVars => [Next]_vars
  BY StepImplements DEF StackInv, ToolInv, stackVars
<1> QED BY <1>1, <1>2, StackInductive, PTL DEF StackSpec, Spec

\* A cancel callback finds its request current, on the bus too.
THEOREM CancelFindsOnBus == StackSpec => []CancelFindsRequest
BY ImplementsController, CancelFindsItsRequest, PTL

\* SpbTestTool's one SPB request is flagged as a sequence exactly while it is
\* formatted, sent and returned as one.
THEOREM FlagMatches == StackSpec => []SequenceFlagMatches
<1>1. StackInv => SequenceFlagMatches
  BY DEF StackInv, ToolInv, Flagged, SequenceFlagMatches, TestTool!SequenceFlagMatches
<1> QED BY <1>1, StackInductive, PTL
=============================================================================
