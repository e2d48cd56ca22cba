----------------------------- MODULE MCGovernor -----------------------------
(* Small instances of Governor for TLC. *)
EXTENDS Governor

CONSTANTS a, b  \* runs

TwoRuns == {a, b}
=============================================================================
