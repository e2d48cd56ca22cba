--------------------------- MODULE MCSessionLifecycle ---------------------------
EXTENDS SessionLifecycle, TLC

CONSTANTS c1, c2, c3

MCCaller == {c1, c2, c3}
MCSymmetry == Permutations(MCCaller)
=============================================================================
