---------------------------- MODULE SpbInterrupt ----------------------------
(***************************************************************************)
(* The interrupt of a SpbTestTool peripheral.  An application leaves a     *)
(* WaitOnInterrupt request with the driver; the passive-level ISR completes*)
(* it and stalls until the application signals.  The request's handlers,   *)
(* their cancel callbacks and the ISR share one slot, without a lock.      *)
(*                                                                         *)
(* Each element of Wait is used once.  Unmarking a request that has been   *)
(* completed meanwhile reports a cancelled one, as the ISR's trace expects.*)
(***************************************************************************)
EXTENDS Integers, FiniteSets

CONSTANT
    Wait    \* WaitOnInterrupt requests

VARIABLES
    slot,     \* {} or the WaitOnInterruptRequest
    wait,     \* [Wait -> the request's handler and cancelable state]
    isr,      \* the step of the ISR
    taken,    \* the ISR's variable request, {} or one element
    signal    \* IsrWaitEvent, a synchronization event

vars == <<slot, wait, isr, taken, signal>>

(* completed: how often the request has been completed, two being too often*)
State == [at : {"new", "mark", "store", "returned"},
          marked : BOOLEAN, cancelled : BOOLEAN, callback : BOOLEAN, completed : 0 .. 2]

TypeOK ==
    /\ slot \in SUBSET Wait /\ taken \in SUBSET Wait
    /\ Cardinality(slot) <= 1 /\ Cardinality(taken) <= 1
    /\ wait \in [Wait -> State]
    /\ isr \in {"idle", "look", "take", "unmark", "complete", "clear", "stall"}
    /\ signal \in BOOLEAN

Init ==
    /\ slot = {} /\ taken = {}
    /\ wait = [w \in Wait |-> [at |-> "new", marked |-> FALSE, cancelled |-> FALSE,
                               callback |-> FALSE, completed |-> 0]]
    /\ isr = "idle"
    /\ signal = FALSE

-----------------------------------------------------------------------------
(* SpbPeripheralWaitOnInterrupt.                                           *)

Refuse(w) ==
    /\ wait[w].at = "new" /\ slot # {}
    /\ wait' = [wait EXCEPT ![w].at = "returned", ![w].completed = @ + 1]
    /\ UNCHANGED <<slot, isr, taken, signal>>

Admit(w) ==
    /\ wait[w].at = "new" /\ slot = {}
    /\ wait' = [wait EXCEPT ![w].at = "mark"]
    /\ UNCHANGED <<slot, isr, taken, signal>>

Mark(w) ==
    /\ wait[w].at = "mark"
    /\ wait' = IF wait[w].cancelled
               THEN [wait EXCEPT ![w].at = "returned", ![w].completed = @ + 1]
               ELSE [wait EXCEPT ![w].at = "store", ![w].marked = TRUE]
    /\ UNCHANGED <<slot, isr, taken, signal>>

Store(w) ==
    /\ wait[w].at = "store"
    /\ slot' = {w}
    /\ wait' = [wait EXCEPT ![w].at = "returned"]
    /\ UNCHANGED <<isr, taken, signal>>

Cancel(w) ==
    /\ wait[w].completed = 0 /\ ~wait[w].cancelled
    /\ wait' = [wait EXCEPT ![w].cancelled = TRUE, ![w].marked = FALSE,
                            ![w].callback = wait[w].marked]
    /\ UNCHANGED <<slot, isr, taken, signal>>

(* SpbPeripheralOnWaitOnInterruptCancel.                                   *)
OnCancel(w) ==
    /\ wait[w].callback
    /\ slot' = slot \ {w}
    /\ wait' = [wait EXCEPT ![w].callback = FALSE, ![w].completed = @ + 1]
    /\ UNCHANGED <<isr, taken, signal>>

-----------------------------------------------------------------------------
(* OnInterruptIsr with SpbPeripheralInterruptNotify.                       *)

IsrAt(step, next) == isr = step /\ isr' = next

Interrupt ==
    /\ IsrAt("idle", "look")
    /\ UNCHANGED <<slot, wait, taken, signal>>

Look ==
    /\ IsrAt("look", IF slot = {} THEN "idle" ELSE "take")
    /\ UNCHANGED <<slot, wait, taken, signal>>

(* The cancel callback may have emptied the slot meanwhile.                *)
Take ==
    /\ IsrAt("take", "unmark")
    /\ taken' = slot
    /\ slot' = {}
    /\ UNCHANGED <<wait, signal>>

(* Faulty variant: the status of WdfRequestUnmarkCancelable is not used.   *)
UnmarkUnchecked ==
    /\ IsrAt("unmark", "complete")
    /\ wait' = [w \in Wait |-> [wait[w] EXCEPT !.marked = @ /\ w \notin taken]]
    /\ UNCHANGED <<slot, taken, signal>>

Unmark ==
    /\ IsrAt("unmark", IF \E w \in taken : wait[w].marked THEN "complete" ELSE "idle")
    /\ wait' = [w \in Wait |-> [wait[w] EXCEPT !.marked = @ /\ w \notin taken]]
    /\ UNCHANGED <<slot, taken, signal>>

Complete ==
    /\ IsrAt("complete", "clear")
    /\ wait' = [w \in Wait |-> IF w \in taken THEN [wait[w] EXCEPT !.completed = @ + 1]
                                              ELSE wait[w]]
    /\ UNCHANGED <<slot, taken, signal>>

ClearSignal ==
    /\ IsrAt("clear", "stall")
    /\ signal' = FALSE
    /\ UNCHANGED <<slot, wait, taken>>

Continue ==
    /\ IsrAt("stall", "idle")
    /\ signal /\ signal' = FALSE
    /\ UNCHANGED <<slot, wait, taken>>

(* SpbPeripheralSignalInterrupt, and OnFileCleanup.                        *)
Signal ==
    /\ signal' = TRUE
    /\ UNCHANGED <<slot, wait, isr, taken>>

-----------------------------------------------------------------------------
Next ==
    \/ \E w \in Wait : Refuse(w) \/ Admit(w) \/ Mark(w) \/ Store(w) \/ Cancel(w) \/ OnCancel(w)
    \/ Interrupt \/ Look \/ Take \/ Unmark \/ Complete \/ ClearSignal \/ Continue
    \/ Signal

Spec == Init /\ [][Next]_vars

-----------------------------------------------------------------------------
(* Whatever the ISR, the cancellation and a second wait do meanwhile, no   *)
(* request is completed twice, and the ISR stalls only for an application  *)
(* whose wait it has completed.                                            *)
WaitCompletedOnce ==
    /\ \A w \in Wait : wait[w].completed <= 1
    /\ isr \in {"clear", "stall"} => \E w \in taken : wait[w].completed = 1
=============================================================================
