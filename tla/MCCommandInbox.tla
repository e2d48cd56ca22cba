--------------------------- MODULE MCCommandInbox ---------------------------
(* Small instances of CommandInbox for TLC. *)
EXTENDS CommandInbox, TLC

\* Requests are interchangeable, and so are inputs.
MCSymmetry == Permutations(Caller) \cup Permutations(Input)
=============================================================================
