----------------------------- MODULE MCSpbStack -----------------------------
EXTENDS SpbStack

CONSTANTS tool, other

Peripherals == {tool, other}
Tools == {tool}
=============================================================================
