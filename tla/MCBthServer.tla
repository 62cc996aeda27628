---------------------------- MODULE MCBthServer ----------------------------
(* One connection: connections share only the list and the removal loop.   *)
EXTENDS BthServer

CONSTANT c1

OneConn == {c1}
AllFaults == FaultKind
=============================================================================
