------------------------------ MODULE HciWrite ------------------------------
(***************************************************************************)
(* Writing an HCI packet to the UART: bluetooth/serialhcibus, Fdo.c and    *)
(* io.c.  Three threads may touch one write request of bthport:            *)
(*                                                                         *)
(*   handler    FdoIoQuDeviceControl, FdoWriteDeviceIO                     *)
(*   canceler   CB_RequestFromBthportCancel, the cancel callback           *)
(*   completer  CR_WriteDeviceIO, the completion of the request that the   *)
(*              handler created and sent to the UART (RequestToUART)       *)
(*                                                                         *)
(* There is no lock: the word RequestCompletePath and what                 *)
(* WdfRequestUnmarkCancelable returns decide which of them completes the   *)
(* request of bthport.                                                     *)
(***************************************************************************)
EXTENDS Integers

CONSTANTS Writes,       \* the write requests bthport issues
          Cancelled,    \* those it may cancel
          Refused       \* those whose RequestToUART WdfRequestSend may refuse

VARIABLES handler, canceler, completer,   \* where each thread of a write is
          path,         \* RequestCompletePath, as the set of its bits
          cancelable,   \* the mark: "no", "marked", or "cancelled" once called back
          cancelled,    \* the issuer has cancelled the request
          uart,         \* RequestToUART: "none", "formatted", "pending", "done"
          uartRefs,     \* references on RequestToUART, its creation included
          bthportRefs,  \* references this driver took on the request of bthport
          memory,       \* references on TransferContext->Memory
          completions   \* how often the request of bthport was completed

vars == <<handler, canceler, completer, path, cancelable, cancelled, uart,
          uartRefs, bthportRefs, memory, completions>>

Handler == {"start", "mark", "send", "unmark", "balance", "free", "fail", "done"}
Canceler == {"idle", "claim", "cancelSent", "dereference", "deleteMemory", "complete", "done"}
Completer == {"idle", "claim", "unmark", "relinquish", "dereference", "deleteMemory",
              "complete", "deleteRequest", "release", "done"}
Path == SUBSET {"cancellation", "completion"}

\* The types of the variables: no reference is returned twice.
TypeOK ==
    /\ handler \in [Writes -> Handler]
    /\ canceler \in [Writes -> Canceler]
    /\ completer \in [Writes -> Completer]
    /\ path \in [Writes -> Path]
    /\ cancelable \in [Writes -> {"no", "marked", "cancelled"}]
    /\ cancelled \in [Writes -> BOOLEAN]
    /\ uart \in [Writes -> {"none", "formatted", "pending", "done"}]
    /\ uartRefs \in [Writes -> 0..2] /\ bthportRefs \in [Writes -> 0..1]
    /\ memory \in [Writes -> 0..1] /\ completions \in [Writes -> Nat]

Init ==
    /\ handler = [w \in Writes |-> "start"]
    /\ canceler = [w \in Writes |-> "idle"] /\ completer = [w \in Writes |-> "idle"]
    /\ path = [w \in Writes |-> {}]
    /\ cancelable = [w \in Writes |-> "no"] /\ cancelled = [w \in Writes |-> FALSE]
    /\ uart = [w \in Writes |-> "none"]
    /\ uartRefs = [w \in Writes |-> 0] /\ bthportRefs = [w \in Writes |-> 0]
    /\ memory = [w \in Writes |-> 0] /\ completions = [w \in Writes |-> 0]

Goto(pc, w, from, to) == pc[w] = from /\ pc' = [pc EXCEPT ![w] = to]
Take(refs, w, n) == refs' = [refs EXCEPT ![w] = @ + n]
Drop(refs, w) == refs' = [refs EXCEPT ![w] = @ - 1]

-----------------------------------------------------------------------------
(* The handler. *)

\* A faulty variant: only its creation keeps RequestToUART alive.
PrepareUnreferenced(w) ==
    /\ Goto(handler, w, "start", "mark")
    /\ uart' = [uart EXCEPT ![w] = "formatted"]
    /\ Take(uartRefs, w, 1) /\ Take(bthportRefs, w, 1) /\ Take(memory, w, 1)
    /\ path' = [path EXCEPT ![w] = {}]
    /\ UNCHANGED <<canceler, completer, cancelable, cancelled, completions>>

\* RequestToUART and the memory are created, the context is filled in and a
\* reference taken on each request: nobody else knows of the write so far.
Prepare(w) ==
    /\ Goto(handler, w, "start", "mark")
    /\ uart' = [uart EXCEPT ![w] = "formatted"]
    /\ Take(uartRefs, w, 2) /\ Take(bthportRefs, w, 1) /\ Take(memory, w, 1)
    /\ path' = [path EXCEPT ![w] = {}]
    /\ UNCHANGED <<canceler, completer, cancelable, cancelled, completions>>

\* A request that cannot be prepared is completed by FdoIoQuDeviceControl.  When
\* only its memory or its format fails, RequestToUART exists and is not in the
\* context yet: HLP_FreeResourceForWrite does not delete it.
PrepareFails(w) ==
    /\ Goto(handler, w, "start", "fail")
    /\ uartRefs' \in {uartRefs, [uartRefs EXCEPT ![w] = 1]}
    /\ UNCHANGED <<canceler, completer, path, cancelable, cancelled, uart,
                   bthportRefs, memory, completions>>

MarkCancelable(w) ==
    /\ Goto(handler, w, "mark", "send")
    /\ cancelable' = [cancelable EXCEPT ![w] = "marked"]
    /\ UNCHANGED <<canceler, completer, path, cancelled, uart, uartRefs, bthportRefs,
                   memory, completions>>

Send(w) ==
    /\ Goto(handler, w, "send", "done")
    /\ uart' = [uart EXCEPT ![w] = "pending"]
    /\ UNCHANGED <<canceler, completer, path, cancelable, cancelled, uartRefs,
                   bthportRefs, memory, completions>>

SendFails(w) ==
    /\ w \in Refused
    /\ Goto(handler, w, "send", "unmark")
    /\ UNCHANGED <<canceler, completer, path, cancelable, cancelled, uart, uartRefs,
                   bthportRefs, memory, completions>>

\* What WdfRequestUnmarkCancelable returns is only traced: the handler goes on
\* to complete the request although the cancel callback may be running.
UnmarkAfterFailure(w) ==
    /\ Goto(handler, w, "unmark", "balance")
    /\ cancelable' = [cancelable EXCEPT ![w] = IF @ = "marked" THEN "no" ELSE @]
    /\ UNCHANGED <<canceler, completer, path, cancelled, uart, uartRefs, bthportRefs,
                   memory, completions>>

Balance(w) ==
    /\ Goto(handler, w, "balance", "free")
    /\ Drop(uartRefs, w) /\ Drop(bthportRefs, w)
    /\ UNCHANGED <<canceler, completer, path, cancelable, cancelled, uart, memory, completions>>

FreeResourceForWrite(w) ==
    /\ Goto(handler, w, "free", "fail")
    /\ Drop(memory, w) /\ Drop(uartRefs, w)
    /\ UNCHANGED <<canceler, completer, path, cancelable, cancelled, uart, bthportRefs, completions>>

CompleteFailed(w) ==
    /\ Goto(handler, w, "fail", "done")
    /\ Take(completions, w, 1)
    /\ UNCHANGED <<canceler, completer, path, cancelable, cancelled, uart, uartRefs,
                   bthportRefs, memory>>

-----------------------------------------------------------------------------
(* The cancel callback. *)

Cancel(w) ==
    /\ w \in Cancelled /\ ~cancelled[w] /\ completions[w] = 0
    /\ cancelled' = [cancelled EXCEPT ![w] = TRUE]
    /\ UNCHANGED <<handler, canceler, completer, path, cancelable, uart, uartRefs,
                   bthportRefs, memory, completions>>

\* The framework owns a marked request that is cancelled: the callback is on its way.
CallBack(w) ==
    /\ cancelled[w] /\ cancelable[w] = "marked"
    /\ Goto(canceler, w, "idle", "claim")
    /\ cancelable' = [cancelable EXCEPT ![w] = "cancelled"]
    /\ UNCHANGED <<handler, completer, path, cancelled, uart, uartRefs, bthportRefs,
                   memory, completions>>

\* A faulty variant: the callback does not look at what the claim returned.
ClaimCancellationBlindly(w) ==
    /\ Goto(canceler, w, "claim", "cancelSent")
    /\ path' = [path EXCEPT ![w] = @ \cup {"cancellation"}]
    /\ UNCHANGED <<handler, completer, cancelable, cancelled, uart, uartRefs, bthportRefs,
                   memory, completions>>

ClaimCancellation(w) ==
    /\ Goto(canceler, w, "claim", IF path[w] = {} THEN "cancelSent" ELSE "done")
    /\ path' = [path EXCEPT ![w] = @ \cup {"cancellation"}]
    /\ UNCHANGED <<handler, completer, cancelable, cancelled, uart, uartRefs, bthportRefs,
                   memory, completions>>

\* The UART may complete a request that is cancelled at once or later, as it
\* may any request: WdfRequestCancelSentRequest changes no state of the driver.
CancelSentRequest(w) ==
    /\ Goto(canceler, w, "cancelSent", "dereference")
    /\ UNCHANGED <<handler, completer, path, cancelable, cancelled, uart, uartRefs,
                   bthportRefs, memory, completions>>

DereferenceByCancel(w) ==
    /\ Goto(canceler, w, "dereference", "deleteMemory")
    /\ Drop(uartRefs, w)
    /\ UNCHANGED <<handler, completer, path, cancelable, cancelled, uart, bthportRefs,
                   memory, completions>>

DeleteMemoryByCancel(w) ==
    /\ Goto(canceler, w, "deleteMemory", "complete")
    /\ Drop(memory, w)
    /\ UNCHANGED <<handler, completer, path, cancelable, cancelled, uart, uartRefs,
                   bthportRefs, completions>>

CompleteByCancel(w) ==
    /\ Goto(canceler, w, "complete", "done")
    /\ Take(completions, w, 1)
    /\ UNCHANGED <<handler, completer, path, cancelable, cancelled, uart, uartRefs,
                   bthportRefs, memory>>

-----------------------------------------------------------------------------
(* The completion routine. *)

UartCompletes(w) ==
    /\ uart[w] = "pending"
    /\ Goto(completer, w, "idle", "claim")
    /\ uart' = [uart EXCEPT ![w] = "done"]
    /\ UNCHANGED <<handler, canceler, path, cancelable, cancelled, uartRefs, bthportRefs,
                   memory, completions>>

ClaimCompletion(w) ==
    /\ Goto(completer, w, "claim", IF path[w] = {} THEN "unmark" ELSE "deleteRequest")
    /\ path' = [path EXCEPT ![w] = @ \cup {"completion"}]
    /\ UNCHANGED <<handler, canceler, cancelable, cancelled, uart, uartRefs, bthportRefs,
                   memory, completions>>

Unmark(w) ==
    /\ Goto(completer, w, "unmark",
            IF cancelable[w] = "cancelled" THEN "relinquish" ELSE "dereference")
    /\ cancelable' = [cancelable EXCEPT ![w] = IF @ = "marked" THEN "no" ELSE @]
    /\ UNCHANGED <<handler, canceler, path, cancelled, uart, uartRefs, bthportRefs,
                   memory, completions>>

\* Faulty variant: the request is always completed here too.
RelinquishAlways(w) ==
    /\ Goto(completer, w, "relinquish", "deleteRequest")
    /\ path' = [path EXCEPT ![w] = IF @ = {"completion"} THEN {} ELSE @]
    /\ UNCHANGED <<handler, canceler, cancelable, cancelled, uart, uartRefs, bthportRefs,
                   memory, completions>>

\* The compare-and-exchange that leaves the request to a cancel callback that
\* has not yet claimed it; if the callback has been there, it does not complete.
Relinquish(w) ==
    /\ Goto(completer, w, "relinquish",
            IF "cancellation" \in path[w] THEN "dereference" ELSE "deleteRequest")
    /\ path' = [path EXCEPT ![w] = IF @ = {"completion"} THEN {} ELSE @]
    /\ UNCHANGED <<handler, canceler, cancelable, cancelled, uart, uartRefs, bthportRefs,
                   memory, completions>>

\* A faulty variant: only the callback returns the reference on RequestToUART.
DereferenceSkipped(w) ==
    /\ Goto(completer, w, "dereference", "deleteMemory")
    /\ UNCHANGED <<handler, canceler, path, cancelable, cancelled, uart, uartRefs, bthportRefs,
                   memory, completions>>

DereferenceByCompletion(w) ==
    /\ Goto(completer, w, "dereference", "deleteMemory")
    /\ Drop(uartRefs, w)
    /\ UNCHANGED <<handler, canceler, path, cancelable, cancelled, uart, bthportRefs,
                   memory, completions>>

DeleteMemoryByCompletion(w) ==
    /\ Goto(completer, w, "deleteMemory", "complete")
    /\ Drop(memory, w)
    /\ UNCHANGED <<handler, canceler, path, cancelable, cancelled, uart, uartRefs,
                   bthportRefs, completions>>

CompleteByCompletion(w) ==
    /\ Goto(completer, w, "complete", "deleteRequest")
    /\ Take(completions, w, 1)
    /\ UNCHANGED <<handler, canceler, path, cancelable, cancelled, uart, uartRefs,
                   bthportRefs, memory>>

DeleteRequest(w) ==
    /\ Goto(completer, w, "deleteRequest", "release")
    /\ Drop(uartRefs, w)
    /\ UNCHANGED <<handler, canceler, path, cancelable, cancelled, uart, bthportRefs,
                   memory, completions>>

Release(w) ==
    /\ Goto(completer, w, "release", "done")
    /\ Drop(bthportRefs, w)
    /\ UNCHANGED <<handler, canceler, path, cancelable, cancelled, uart, uartRefs,
                   memory, completions>>

-----------------------------------------------------------------------------
HandlerStep(w) ==
    \/ Prepare(w) \/ PrepareFails(w) \/ MarkCancelable(w) \/ Send(w) \/ SendFails(w)
    \/ UnmarkAfterFailure(w) \/ Balance(w) \/ FreeResourceForWrite(w) \/ CompleteFailed(w)

CancelerStep(w) ==
    \/ CallBack(w) \/ ClaimCancellation(w) \/ CancelSentRequest(w)
    \/ DereferenceByCancel(w) \/ DeleteMemoryByCancel(w) \/ CompleteByCancel(w)

CompleterStep(w) ==
    \/ UartCompletes(w) \/ ClaimCompletion(w) \/ Unmark(w) \/ Relinquish(w)
    \/ DereferenceByCompletion(w) \/ DeleteMemoryByCompletion(w)
    \/ CompleteByCompletion(w) \/ DeleteRequest(w) \/ Release(w)

Next == \E w \in Writes : Cancel(w) \/ HandlerStep(w) \/ CancelerStep(w) \/ CompleterStep(w)

Spec == Init /\ [][Next]_vars

\* Threads that have started go on, a callback that is due is called, and the
\* UART completes what was sent to it.  Nothing makes bthport cancel.
FairSpec ==
    /\ Spec
    /\ \A w \in Writes : /\ WF_vars(HandlerStep(w))
                         /\ WF_vars(CancelerStep(w))
                         /\ WF_vars(CompleterStep(w))

-----------------------------------------------------------------------------
(* Properties. *)

\* However the cancel callback and the completion routine interleave, the
\* request of bthport is not completed twice (io.c, the two claims of
\* RequestCompletePath).
CompletedOnce == \A w \in Writes : completions[w] <= 1

\* Whoever still uses an object finds it alive: the cancel callback the request
\* it cancels, the completion routine the request of bthport whose mark it
\* removes, and both of them the context that is part of that request.
Alive(w) == completions[w] = 0 \/ bthportRefs[w] > 0
UsesLiveObjects ==
    \A w \in Writes :
        /\ canceler[w] \in {"cancelSent", "dereference"} => uartRefs[w] > 0
        /\ canceler[w] \in {"deleteMemory"} => memory[w] > 0
        /\ canceler[w] \in {"claim", "cancelSent", "complete"} => completions[w] = 0
        /\ completer[w] \in {"unmark", "dereference", "complete"} => completions[w] = 0
        /\ completer[w] \in {"claim", "relinquish", "deleteMemory", "release"} => Alive(w)
        /\ completer[w] \in {"deleteMemory"} => memory[w] > 0
        /\ completer[w] \in {"dereference", "deleteRequest"} => uartRefs[w] > 0

AtRest(w) ==
    /\ handler[w] = "done"
    /\ canceler[w] \in {"idle", "done"}
    /\ completer[w] \in {"idle", "done"} /\ uart[w] # "pending"

\* A write that is over has left nothing behind: the request is completed and
\* every reference the three threads took on it, on RequestToUART and on the
\* memory is returned exactly once.  A RequestToUART that was never formatted
\* is excepted: PrepareFails leaves it to the device, its parent.
AllReleased ==
    \A w \in Writes :
        AtRest(w) => /\ completions[w] = 1
                     /\ bthportRefs[w] = 0 /\ memory[w] = 0
                     /\ uart[w] # "none" => uartRefs[w] = 0

\* Every write is completed, whether or not it is cancelled.
EveryWriteCompletes == \A w \in Writes : <>(completions[w] = 1)

=============================================================================
