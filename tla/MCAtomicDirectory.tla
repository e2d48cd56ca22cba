------------------------- MODULE MCAtomicDirectory -------------------------
EXTENDS AtomicDirectory, TLC
CONSTANTS cli, desktop
MCProcess == {cli, desktop}
\* The processes are alike.
Alike == Permutations(MCProcess)
=============================================================================
