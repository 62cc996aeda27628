------------------------------ MODULE MCHciIo ------------------------------
(***************************************************************************)
(* The two kinds of requests that bthport sends: its reads, with the       *)
(* definitions of HciRead, and its writes, W.  They share no state, so a   *)
(* run is about the ones or the others.                                    *)
(***************************************************************************)
EXTENDS HciRead

CONSTANTS Writes, Cancelled, Refused

ASSUME WritesAssumption == Cancelled \subseteq Writes /\ Refused \subseteq Writes

VARIABLES handler, canceler, completer, path, cancelable, cancelled, uart, uartRefs,
          bthportRefs, memory, writeCompletions

W == INSTANCE HciWrite WITH completions <- writeCompletions

writes == <<handler, canceler, completer, path, cancelable, cancelled, uart, uartRefs,
            bthportRefs, memory, writeCompletions>>

\* The writes alone: the queue and the list of the reads stay empty.
WritesSpec ==
    /\ Init /\ W!Init
    /\ [][W!Next /\ UNCHANGED vars]_<<vars, writes>>
    /\ \A w \in Writes : /\ WF_writes(W!HandlerStep(w))
                         /\ WF_writes(W!CancelerStep(w))
                         /\ WF_writes(W!CompleterStep(w))

CompletedOnce == W!CompletedOnce
UsesLiveObjects == W!UsesLiveObjects
AllReleased == W!AllReleased
EveryWriteCompletes == W!EveryWriteCompletes
=============================================================================
