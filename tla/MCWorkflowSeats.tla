-------------------------- MODULE MCWorkflowSeats --------------------------
(* Small instances of WorkflowSeats for TLC. *)
EXTENDS WorkflowSeats

\* The subagents are created in the order of their numbers.
MCRank == [a \in Actor |-> a]

\* Two subagents with one ask, and one that is asked again.
MCMaxAsks == [a \in Actor |-> IF a = 1 THEN 2 ELSE 1]
=============================================================================
