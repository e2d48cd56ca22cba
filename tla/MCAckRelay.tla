----------------------------- MODULE MCAckRelay -----------------------------
(* Small instances of AckRelay for TLC. *)
EXTENDS AckRelay, TLC

\* One direction, with a backlog of messages.
MCOneWay == Desktop :> 2 @@ Phone :> 0
=============================================================================
