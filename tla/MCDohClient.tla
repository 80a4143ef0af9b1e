----------------------------- MODULE MCDohClient -----------------------------
EXTENDS DohClient

CONSTANTS r1, r2

MCCallers == {r1, r2}
=============================================================================
