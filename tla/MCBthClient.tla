---------------------------- MODULE MCBthClient ----------------------------
EXTENDS BthClient

CONSTANTS f1, q1, q2

OneFile == {f1}
TwoTransfers == {q1, q2}
=============================================================================
