---------------------------- MODULE MCReplayOrder ----------------------------
EXTENDS ReplayOrder, TLC
=============================================================================
