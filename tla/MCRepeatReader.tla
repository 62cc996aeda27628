--------------------------- MODULE MCRepeatReader ---------------------------
(* One reader, since readers share nothing, and three threads that may     *)
(* cancel it, each as often as it likes.                                   *)
EXTENDS RepeatReader, TLC

CONSTANTS r1, t1, t2, t3

MCReader == {r1}
MCThread == {t1, t2, t3}
=============================================================================
