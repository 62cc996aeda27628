---------------------------- MODULE RepeatReader ----------------------------
(***************************************************************************)
(* The repeat reader of bluetooth/bthecho/common/lib/connection.c: a read  *)
(* request that is sent, completes, and is sent again from a DPC, until it *)
(* fails or is told to stop.                                               *)
(*                                                                         *)
(* One reader is one line of control: BthEchoRepeatReaderSubmit runs first *)
(* in the thread that opens the connection and later in the resubmit DPC,  *)
(* and the completion routine runs between two submissions.  rpc[r] is     *)
(* where that line of control stands.  Cancelling a reader is a call of    *)
(* two steps that any thread may make at any time; a pair <<t, r>> is in   *)
(* cancelling while thread t is between the two.                           *)
(*                                                                         *)
(* Every step of this module is one access to shared state: setting a      *)
(* flag, reading it, or one call of the framework.  How often Stopping was *)
(* incremented is not told apart, since the code only tests it for zero.   *)
(***************************************************************************)

CONSTANTS
    Reader,   \* the repeat readers
    Thread    \* the threads that may cancel them

VARIABLES
    rpc,         \* [Reader -> Label], where each reader's code stands
    caller,      \* who last ran the reader's code, a member of Caller
    status,      \* the local variable status of BthEchoRepeatReaderSubmit
    request,     \* RequestPendingRead as the framework sees it
    marked,      \* the framework's cancel mark on RequestPendingRead
    stopping,    \* RepeatReader->Stopping # 0
    stopEvent,   \* RepeatReader->StopEvent is signalled
    cancelling,  \* pairs <<t, r>> in the middle of BthEchoRepeatReaderCancel
    handle       \* RequestPendingRead: held, waited for by the cleanup, or NULL

rvars == <<rpc, caller, status, request, marked, stopping, stopEvent, cancelling, handle>>

(* "idle": initialised and not submitted; "reuse" .. "send": inside        *)
(* BthEchoRepeatReaderSubmit; "pending": sent and not yet completed;       *)
(* "echo", "failed": inside the completion callback, the failure callback; *)
(* "dpc": the resubmit DPC is queued; "signal": about to set StopEvent;    *)
(* "stopped": the reader has ended.                                        *)
Submitting == {"reuse", "check", "format", "clear", "send"}
Label == Submitting \cup {"idle", "pending", "echo", "failed", "dpc", "signal", "stopped"}

(* The first submission, the completion routine and the resubmit DPC.      *)
Caller == {"open", "completion", "dpc"}

(* "free": created or completed, and not reused since; "ready": between    *)
(* WdfRequestReuse and WdfRequestSend; "sent": owned by the lower driver.  *)
RequestState == {"free", "ready", "sent"}

(* "waited": BthEchoRepeatReaderWaitForStop has returned; "cleared": the   *)
(* reader is uninitialised, and a call of the framework on its request     *)
(* stops the machine.                                                      *)
HandleState == {"held", "waited", "cleared"}

TypeOK ==
    /\ rpc \in [Reader -> Label]
    /\ caller \in [Reader -> Caller]
    /\ status \in [Reader -> {"ok", "failed"}]
    /\ request \in [Reader -> RequestState]
    /\ marked \in [Reader -> BOOLEAN]
    /\ stopping \in [Reader -> BOOLEAN]
    /\ stopEvent \in [Reader -> BOOLEAN]
    /\ cancelling \subseteq Thread \X Reader
    /\ handle \in [Reader -> HandleState]

(* BthEchoRepeatReaderInitialize: the stop event is created signalled.     *)
Init ==
    /\ rpc = [r \in Reader |-> "idle"]
    /\ caller = [r \in Reader |-> "open"]
    /\ status = [r \in Reader |-> "ok"]
    /\ request = [r \in Reader |-> "free"]
    /\ marked = [r \in Reader |-> FALSE]
    /\ stopping = [r \in Reader |-> FALSE]
    /\ stopEvent = [r \in Reader |-> TRUE]
    /\ cancelling = {}
    /\ handle = [r \in Reader |-> "held"]

Go(r, from, to) ==
    /\ rpc[r] = from
    /\ rpc' = [rpc EXCEPT ![r] = to]

-----------------------------------------------------------------------------
(* BthEchoRepeatReaderSubmit, one action per access to shared state.       *)

(* The connection's first submission of the reader.                        *)
Start(r) ==
    /\ Go(r, "idle", "reuse")
    /\ UNCHANGED <<caller, status, request, marked, stopping, stopEvent, cancelling, handle>>

(* BthEchoRepeatReaderResubmitReadDpc calls BthEchoRepeatReaderSubmit.     *)
ResubmitDpc(r) ==
    /\ Go(r, "dpc", "reuse")
    /\ caller' = [caller EXCEPT ![r] = "dpc"]
    /\ UNCHANGED <<status, request, marked, stopping, stopEvent, cancelling, handle>>

(* WdfRequestReuse also forgets a cancel that arrived before it.           *)
Reuse(r) ==
    /\ Go(r, "reuse", "check")
    /\ handle[r] # "cleared"
    /\ request' = [request EXCEPT ![r] = "ready"]
    /\ marked' = [marked EXCEPT ![r] = FALSE]
    /\ UNCHANGED <<caller, status, stopping, stopEvent, cancelling, handle>>

(* Faulty variant: the test of Stopping is missing.                        *)
SkipStopping(r) ==
    /\ Go(r, "check", "format")
    /\ status' = [status EXCEPT ![r] = "ok"]
    /\ UNCHANGED <<caller, request, marked, stopping, stopEvent, cancelling, handle>>

(* if (RepeatReader->Stopping) set the event and return success.           *)
CheckStopping(r) ==
    /\ Go(r, "check", IF stopping[r] THEN "signal" ELSE "format")
    /\ status' = [status EXCEPT ![r] = "ok"]
    /\ UNCHANGED <<caller, request, marked, stopping, stopEvent, cancelling, handle>>

(* Formatting succeeds only on a connected connection.                     *)
Format(r) ==
    /\ Go(r, "format", "clear")
    /\ handle[r] # "cleared"
    /\ UNCHANGED <<caller, status, request, marked, stopping, stopEvent, cancelling, handle>>

FormatFails(r) ==
    /\ Go(r, "format", "failed")
    /\ status' = [status EXCEPT ![r] = "failed"]
    /\ UNCHANGED <<caller, request, marked, stopping, stopEvent, cancelling, handle>>

ClearStopEvent(r) ==
    /\ Go(r, "clear", "send")
    /\ stopEvent' = [stopEvent EXCEPT ![r] = FALSE]
    /\ UNCHANGED <<caller, status, request, marked, stopping, cancelling, handle>>

Send(r) ==
    /\ Go(r, "send", "pending")
    /\ handle[r] # "cleared"
    /\ request' = [request EXCEPT ![r] = "sent"]
    /\ UNCHANGED <<caller, status, marked, stopping, stopEvent, cancelling, handle>>

SendFails(r) ==
    /\ Go(r, "send", "failed")
    /\ handle[r] # "cleared"
    /\ status' = [status EXCEPT ![r] = "failed"]
    /\ request' = [request EXCEPT ![r] = "free"]
    /\ UNCHANGED <<caller, marked, stopping, stopEvent, cancelling, handle>>

-----------------------------------------------------------------------------
(* BthEchoRepeatReaderPendingReadCompletion.                               *)

Complete(r, to) ==
    /\ Go(r, "pending", to)
    /\ caller' = [caller EXCEPT ![r] = "completion"]
    /\ request' = [request EXCEPT ![r] = "free"]
    /\ UNCHANGED <<status, marked, stopping, stopEvent, cancelling, handle>>

(* A read may succeed or fail although it was cancelled meanwhile; it      *)
(* completes as cancelled only when the reader was told to stop.           *)
CompleteRead(r) == Complete(r, "echo")
CompleteError(r) == Complete(r, "failed")
CompleteCancelled(r) == marked[r] /\ Complete(r, "signal")

(* Faulty variant: the event is set after every read, not only at the end. *)
QueueDpcAndSignal(r) ==
    /\ Go(r, "echo", "dpc")
    /\ stopEvent' = [stopEvent EXCEPT ![r] = TRUE]
    /\ UNCHANGED <<caller, status, request, marked, stopping, cancelling, handle>>

(* The read callback has returned: KeInsertQueueDpc.                       *)
QueueDpc(r) ==
    /\ Go(r, "echo", "dpc")
    /\ UNCHANGED <<caller, status, request, marked, stopping, stopEvent, cancelling, handle>>

(* The failure callback has returned.                                      *)
FailureHandled(r) ==
    /\ Go(r, "failed", "signal")
    /\ UNCHANGED <<caller, status, request, marked, stopping, stopEvent, cancelling, handle>>

SetStopEvent(r) ==
    /\ Go(r, "signal", "stopped")
    /\ stopEvent' = [stopEvent EXCEPT ![r] = TRUE]
    /\ UNCHANGED <<caller, status, request, marked, stopping, cancelling, handle>>

-----------------------------------------------------------------------------
(* BthEchoRepeatReaderCancel.                                              *)

CancelSetsStopping(t, r) ==
    /\ <<t, r>> \notin cancelling
    /\ stopping' = [stopping EXCEPT ![r] = TRUE]
    /\ cancelling' = cancelling \cup {<<t, r>>}
    /\ UNCHANGED <<rpc, caller, status, request, marked, stopEvent, handle>>

(* Faulty variant: only Stopping is set, the request is not cancelled.     *)
CancelNothing(t, r) ==
    /\ <<t, r>> \in cancelling
    /\ cancelling' = cancelling \ {<<t, r>>}
    /\ UNCHANGED <<rpc, caller, status, request, marked, stopping, stopEvent, handle>>

(* WdfRequestCancelSentRequest marks a request that was reused or sent; on *)
(* a request that is neither it changes nothing the next reuse would keep. *)
CancelSentRequest(t, r) ==
    /\ <<t, r>> \in cancelling
    /\ handle[r] # "cleared"
    /\ cancelling' = cancelling \ {<<t, r>>}
    /\ marked' = [marked EXCEPT ![r] = @ \/ request[r] # "free"]
    /\ UNCHANGED <<rpc, caller, status, request, stopping, stopEvent, handle>>

-----------------------------------------------------------------------------
(* The cleanup callback: BthEchoRepeatReaderWaitForStop returns, and       *)
(* BthEchoRepeatReaderUninitialize clears RequestPendingRead and Stopping. *)

WaitForStop(r) ==
    /\ stopEvent[r] /\ handle[r] = "held"
    /\ handle' = [handle EXCEPT ![r] = "waited"]
    /\ UNCHANGED <<rpc, caller, status, request, marked, stopping, stopEvent, cancelling>>

Uninitialize(r) ==
    /\ handle[r] = "waited"
    /\ handle' = [handle EXCEPT ![r] = "cleared"]
    /\ stopping' = [stopping EXCEPT ![r] = FALSE]
    /\ UNCHANGED <<rpc, caller, status, request, marked, stopEvent, cancelling>>

-----------------------------------------------------------------------------
(* The steps of the driver's own code on reader r, the steps of the lower  *)
(* driver, and the steps of the threads that stop readers.                 *)
ReaderStep(r) ==
    \/ ResubmitDpc(r)
    \/ Reuse(r)
    \/ CheckStopping(r)
    \/ Format(r)
    \/ FormatFails(r)
    \/ ClearStopEvent(r)
    \/ Send(r)
    \/ SendFails(r)
    \/ QueueDpc(r)
    \/ FailureHandled(r)
    \/ SetStopEvent(r)

Next ==
    \/ \E r \in Reader :
        \/ Start(r)
        \/ ReaderStep(r)
        \/ CompleteRead(r)
        \/ CompleteError(r)
        \/ CompleteCancelled(r)
        \/ WaitForStop(r)
        \/ Uninitialize(r)
    \/ \E t \in Thread, r \in Reader :
        \/ CancelSetsStopping(t, r)
        \/ CancelSentRequest(t, r)

Spec == Init /\ [][Next]_rvars

(* Threads and DPCs run, and the lower driver completes a request that was *)
(* cancelled.  A request that was not cancelled may stay pending for ever, *)
(* nobody has to start a reader, and nobody has to cancel one.             *)
Fairness ==
    /\ \A r \in Reader :
        /\ WF_rvars(ReaderStep(r))
        /\ WF_rvars(CompleteCancelled(r))
    /\ \A t \in Thread, r \in Reader : WF_rvars(CancelSentRequest(t, r))

FairSpec == Spec /\ Fairness

-----------------------------------------------------------------------------
(* The reader is being submitted for the first time and its stop event is  *)
(* still signalled from its creation: the submission has not reached       *)
(* KeClearEvent, or it failed or gave up before that.                      *)
FirstSubmission(r) ==
    caller[r] = "open" /\ rpc[r] \in (Submitting \ {"send"}) \cup {"failed", "signal"}

(* A signalled stop event means that the reader is at rest: no request is  *)
(* with the lower driver, no DPC is queued and no callback runs, which is  *)
(* what the cleanup callback relies on when it waits for the event.  Only  *)
(* a first submission that has not reached KeClearEvent escapes it.        *)
StopEventMeansQuiet ==
    \A r \in Reader : stopEvent[r] =>
        \/ rpc[r] \in {"idle", "stopped"} /\ request[r] # "sent"
        \/ FirstSubmission(r)

(* A cancel is never lost: once some thread has set Stopping, a request    *)
(* that is with the lower driver is marked for cancellation or a thread is *)
(* still on its way to mark it.  This is the argument in the comments of   *)
(* BthEchoRepeatReaderSubmit and BthEchoRepeatReaderCancel.                *)
NoLostCancel ==
    \A r \in Reader : stopping[r] /\ request[r] = "sent" =>
        marked[r] \/ \E t \in Thread : <<t, r>> \in cancelling

(* A reader that was told to stop comes to rest with its event signalled,  *)
(* so the wait in the cleanup callback returns.  It is not asked of a      *)
(* reader whose request handle the cleanup has cleared: the wait returned. *)
CancelledReaderStops ==
    \A r \in Reader : stopping[r] ~>
        (stopEvent[r] /\ rpc[r] \in {"idle", "stopped"}) \/ handle[r] = "cleared"
=============================================================================
