------------------------ MODULE RepeatReaderProofs ------------------------
(***************************************************************************)
(* Proofs about the repeat reader, for any readers and any threads that    *)
(* cancel them.                                                            *)
(***************************************************************************)
EXTENDS RepeatReader, TLAPS

(* The places of a submission that has seen Stopping clear and has not     *)
(* completed: a cancel from here on must reach the request.                *)
Committed == {"format", "clear", "send", "pending"}

(* A request is with the lower driver exactly while the reader is pending, *)
(* and can be marked from the moment the submission reads Stopping.        *)
RequestFollowsCode ==
    \A r \in Reader :
        /\ request[r] = "sent" <=> rpc[r] = "pending"
        /\ rpc[r] \in {"check", "format", "clear", "send"} => request[r] = "ready"

(* NoLostCancel, extended backwards to the read of Stopping.               *)
CancelReachesCommitted ==
    \A r \in Reader : stopping[r] /\ rpc[r] \in Committed =>
        marked[r] \/ \E t \in Thread : <<t, r>> \in cancelling

(* A signalled event is one of a reader at rest or still in its first      *)
(* submission, which only the opening of the connection makes.             *)
EventFollowsCode ==
    \A r \in Reader :
        /\ stopEvent[r] => rpc[r] \in {"idle", "stopped"} \/ FirstSubmission(r)
        /\ rpc[r] = "idle" => caller[r] = "open"

IInv ==
    /\ TypeOK
    /\ RequestFollowsCode
    /\ CancelReachesCommitted
    /\ EventFollowsCode

-----------------------------------------------------------------------------
LEMMA TypeInit == Init => TypeOK
BY DEF Init, TypeOK, Label, Submitting, Caller, RequestState, HandleState

LEMMA TypeStep == TypeOK /\ [Next]_rvars => TypeOK'
<1> SUFFICES ASSUME TypeOK, [Next]_rvars PROVE TypeOK'
  OBVIOUS
<1> USE DEF TypeOK, Label, Submitting, Caller, RequestState, HandleState, Go
<1>1. CASE UNCHANGED rvars
  BY <1>1 DEF rvars
<1>2. ASSUME NEW r \in Reader, Start(r) \/ ReaderStep(r) PROVE TypeOK'
  <2>1. CASE Start(r) \/ ResubmitDpc(r) \/ QueueDpc(r) \/ FailureHandled(r)
    BY <2>1 DEF Start, ResubmitDpc, QueueDpc, FailureHandled
  <2>2. CASE Reuse(r) \/ CheckStopping(r) \/ ClearStopEvent(r) \/ SetStopEvent(r)
    BY <2>2 DEF Reuse, CheckStopping, ClearStopEvent, SetStopEvent
  <2>3. CASE Format(r) \/ FormatFails(r) \/ Send(r) \/ SendFails(r)
    BY <2>3 DEF Format, FormatFails, Send, SendFails
  <2> QED BY <1>2, <2>1, <2>2, <2>3 DEF ReaderStep
<1>3. ASSUME NEW r \in Reader, CompleteRead(r) \/ CompleteError(r) \/ CompleteCancelled(r)
      PROVE TypeOK'
  BY <1>3 DEF CompleteRead, CompleteError, CompleteCancelled, Complete
<1>4. ASSUME NEW t \in Thread, NEW r \in Reader,
             CancelSetsStopping(t, r) \/ CancelSentRequest(t, r)
      PROVE TypeOK'
  <2>1. CASE CancelSetsStopping(t, r)
    BY <2>1 DEF CancelSetsStopping
  <2>2. CASE CancelSentRequest(t, r)
    <3>1. (marked[r] \/ request[r] # "free") \in BOOLEAN
      OBVIOUS
    <3> QED BY <2>2, <3>1 DEF CancelSentRequest
  <2> QED BY <1>4, <2>1, <2>2
<1>5. ASSUME NEW r \in Reader, WaitForStop(r) \/ Uninitialize(r) PROVE TypeOK'
  BY <1>5 DEF WaitForStop, Uninitialize
<1> QED BY <1>1, <1>2, <1>3, <1>4, <1>5 DEF Next

(* The reader's code stays at declared places and its variables in their   *)
(* domains, whatever the threads do.                                       *)
THEOREM TypeCorrect == Spec => []TypeOK
<1>1. Init => TypeOK
  BY TypeInit
<1>2. TypeOK /\ [Next]_rvars => TypeOK'
  BY TypeStep
<1> QED BY <1>1, <1>2, PTL DEF Spec

-----------------------------------------------------------------------------
LEMMA InvInit == Init => IInv
<1> SUFFICES ASSUME Init PROVE IInv
  OBVIOUS
<1>1. TypeOK
  BY TypeInit
<1>2. RequestFollowsCode /\ CancelReachesCommitted /\ EventFollowsCode
  BY DEF Init, RequestFollowsCode, CancelReachesCommitted, EventFollowsCode, Committed
<1> QED BY <1>1, <1>2 DEF IInv

(* A step of the reader's own line of control.                             *)
LEMMA ReaderKeepsInv ==
  ASSUME IInv, TypeOK', NEW r \in Reader,
         \/ Start(r) \/ ReaderStep(r)
         \/ CompleteRead(r) \/ CompleteError(r) \/ CompleteCancelled(r)
  PROVE  RequestFollowsCode' /\ CancelReachesCommitted' /\ EventFollowsCode'
<1> USE DEF IInv, TypeOK, RequestFollowsCode, CancelReachesCommitted, EventFollowsCode,
            Committed, FirstSubmission, Submitting, Go
<1>1. CASE Start(r)
  BY <1>1 DEF Start
<1>2. CASE ResubmitDpc(r)
  BY <1>2 DEF ResubmitDpc
<1>3. CASE Reuse(r)
  BY <1>3 DEF Reuse
<1>4. CASE CheckStopping(r)
  <2>1. CASE stopping[r]
    BY <1>4, <2>1 DEF CheckStopping
  <2>2. CASE ~stopping[r]
    BY <1>4, <2>2 DEF CheckStopping
  <2> QED BY <2>1, <2>2
<1>5. CASE Format(r)
  BY <1>5 DEF Format
<1>6. CASE FormatFails(r)
  BY <1>6 DEF FormatFails
<1>7. CASE ClearStopEvent(r)
  BY <1>7 DEF ClearStopEvent
<1>8. CASE Send(r)
  BY <1>8 DEF Send
<1>9. CASE SendFails(r)
  BY <1>9 DEF SendFails
<1>10. CASE QueueDpc(r)
  BY <1>10 DEF QueueDpc
<1>11. CASE FailureHandled(r)
  BY <1>11 DEF FailureHandled
<1>12. CASE SetStopEvent(r)
  BY <1>12 DEF SetStopEvent
<1>13. ASSUME NEW to \in {"echo", "failed", "signal"}, Complete(r, to)
       PROVE  RequestFollowsCode' /\ CancelReachesCommitted' /\ EventFollowsCode'
  BY <1>13 DEF Complete
<1> QED
  BY <1>1, <1>2, <1>3, <1>4, <1>5, <1>6, <1>7, <1>8, <1>9, <1>10, <1>11, <1>12, <1>13
  DEF ReaderStep, CompleteRead, CompleteError, CompleteCancelled

(* The two steps of a cancel: the first announces the thread, the second   *)
(* marks the request of a committed submission before the thread leaves.   *)
LEMMA CancelKeepsInv ==
  ASSUME IInv, TypeOK', NEW t \in Thread, NEW r \in Reader,
         CancelSetsStopping(t, r) \/ CancelSentRequest(t, r)
  PROVE  RequestFollowsCode' /\ CancelReachesCommitted' /\ EventFollowsCode'
<1> USE DEF IInv, TypeOK
<1>1. RequestFollowsCode' /\ EventFollowsCode'
  BY DEF CancelSetsStopping, CancelSentRequest, RequestFollowsCode, EventFollowsCode,
         FirstSubmission
<1>2. CASE CancelSetsStopping(t, r)
  <2>1. CancelReachesCommitted'
    BY <1>2 DEF CancelSetsStopping, CancelReachesCommitted
  <2> QED BY <1>1, <2>1
<1>3. CASE CancelSentRequest(t, r)
  <2> SUFFICES ASSUME NEW s \in Reader, stopping'[s], rpc'[s] \in Committed
               PROVE  marked'[s] \/ \E u \in Thread : <<u, s>> \in cancelling'
    BY <1>1 DEF CancelReachesCommitted
  <2>1. CASE s = r
    <3>1. request[r] # "free"
      BY <1>3, <2>1 DEF CancelSentRequest, RequestFollowsCode, Committed
    <3> QED BY <1>3, <2>1, <3>1 DEF CancelSentRequest
  <2>2. CASE s # r
    BY <1>3, <2>2 DEF CancelSentRequest, CancelReachesCommitted
  <2> QED BY <2>1, <2>2
<1> QED BY <1>2, <1>3

(* The cleanup's steps leave the reader's code and its request where they  *)
(* are, and to clear Stopping withdraws what was asked of the reader.      *)
LEMMA CleanupKeepsInv ==
  ASSUME IInv, TypeOK', NEW r \in Reader, WaitForStop(r) \/ Uninitialize(r)
  PROVE  RequestFollowsCode' /\ CancelReachesCommitted' /\ EventFollowsCode'
<1>1. /\ UNCHANGED <<rpc, caller, status, request, marked, stopEvent, cancelling>>
      /\ \A s \in Reader : stopping'[s] => stopping[s]
  BY DEF WaitForStop, Uninitialize, IInv, TypeOK
<1> QED BY <1>1 DEF IInv, RequestFollowsCode, CancelReachesCommitted, EventFollowsCode,
                    FirstSubmission

LEMMA InvStep == IInv /\ [Next]_rvars => IInv'
<1> SUFFICES ASSUME IInv, [Next]_rvars PROVE IInv'
  OBVIOUS
<1>1. TypeOK'
  BY TypeStep DEF IInv
<1>2. CASE UNCHANGED rvars
  BY <1>2 DEF rvars, IInv, TypeOK, RequestFollowsCode, CancelReachesCommitted,
              EventFollowsCode, FirstSubmission
<1>3. CASE Next
  BY <1>1, <1>3, ReaderKeepsInv, CancelKeepsInv, CleanupKeepsInv DEF Next, IInv
<1> QED BY <1>2, <1>3

LEMMA Invariant == Spec => []IInv
<1>1. Init => IInv
  BY InvInit
<1>2. IInv /\ [Next]_rvars => IInv'
  BY InvStep
<1> QED BY <1>1, <1>2, PTL DEF Spec

-----------------------------------------------------------------------------
(* A cancel is never lost: a read that is with the lower driver after      *)
(* Stopping was set is marked, or a thread is on its way to mark it.       *)
THEOREM CancelNeverLost == Spec => []NoLostCancel
<1>1. IInv => NoLostCancel
  BY DEF IInv, TypeOK, NoLostCancel, RequestFollowsCode, CancelReachesCommitted, Committed
<1> QED BY <1>1, Invariant, PTL

(* A signalled stop event means that the reader is at rest, or still in a  *)
(* first submission that has not cleared the event.                        *)
THEOREM SignalledMeansQuiet == Spec => []StopEventMeansQuiet
<1>1. IInv => StopEventMeansQuiet
  BY DEF IInv, TypeOK, StopEventMeansQuiet, RequestFollowsCode, EventFollowsCode
<1> QED BY <1>1, Invariant, PTL
=============================================================================
