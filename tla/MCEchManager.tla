---------------------------- MODULE MCEchManager ----------------------------
EXTENDS EchManager

CONSTANTS c1, c2

MCCallers == {c1, c2}
=============================================================================
