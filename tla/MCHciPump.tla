----------------------------- MODULE MCHciPump -----------------------------
(* Streams for TLC: the shortest packets of each kind, one with a payload   *)
(* that is read in pieces, and noise.  None ends in an empty ACL packet,    *)
(* whose delivery waits for the next byte of the controller.                *)
EXTENDS HciPump

FirstPackets == {Event(0), Event(2), Acl(0), Acl(3)}
LastPackets == {Event(0), Event(3), Acl(2)}
SomeStreams == {<<p, q>> : p \in FirstPackets, q \in LastPackets}
               \cup {<<Event(1), Noise, Event(1), Acl(1)>>, <<Acl(0), Event(0), Acl(0), Event(1)>>}
=============================================================================
