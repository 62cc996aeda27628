---------------------------- MODULE ChannelLife ----------------------------
(***************************************************************************)
(* What the connection code of bluetooth/bthecho promises about an L2CAP   *)
(* channel, whoever asks for its end and whenever: a request to end it is  *)
(* never forgotten, also when it comes while the channel is being opened,  *)
(* and the channel is closed once and only on request.                     *)
(***************************************************************************)
CONSTANT Conn

VARIABLES
    phase,    \* [Conn -> Phase]
    ending    \* the connections whose end was asked for

lvars == <<phase, ending>>

Phase == {"idle", "opening", "open", "closing", "closed"}

Init == phase = [c \in Conn |-> "idle"] /\ ending = {}

Move(c, from, to) ==
    /\ phase[c] = from
    /\ phase' = [phase EXCEPT ![c] = to]

Open(c) == Move(c, "idle", "opening") /\ UNCHANGED ending

Opened(c) == Move(c, "opening", "open") /\ UNCHANGED ending

Refused(c) == Move(c, "opening", "closed") /\ ending' = ending \cup {c}

(* The first to ask has its way; asking again changes nothing.             *)
Ask(c) ==
    /\ phase[c] # "closed"
    /\ ending' = ending \cup {c}
    /\ UNCHANGED phase

Close(c) == c \in ending /\ Move(c, "open", "closing") /\ UNCHANGED ending

Closed(c) == Move(c, "closing", "closed") /\ UNCHANGED ending

Next == \E c \in Conn :
    Open(c) \/ Opened(c) \/ Refused(c) \/ Ask(c) \/ Close(c) \/ Closed(c)

Spec == Init /\ [][Next]_lvars

(* A channel that is opening gets an answer; one that somebody asked to    *)
(* end is closed.                                                          *)
Fairness == \A c \in Conn : /\ WF_lvars(Opened(c) \/ Refused(c))
                            /\ WF_lvars(Close(c))
                            /\ WF_lvars(Closed(c))

FairSpec == Spec /\ Fairness
=============================================================================
