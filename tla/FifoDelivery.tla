---------------------------- MODULE FifoDelivery ----------------------------
(***************************************************************************)
(* What a raw relay bridge promises to the RPC layer above it: in each     *)
(* direction the messages that come out are the messages that went in,     *)
(* each of them once, in the order in which they were handed over.         *)
(* Losing the tail is allowed (a bridge that degrades delivers no more);   *)
(* a hole, a repetition, a swap or a message made of parts of two others   *)
(* is not.                                                                 *)
(***************************************************************************)
EXTENDS Naturals, Sequences

CONSTANTS Endpoint,      \* the two ends of the bridge
          Message,       \* what the RPC layer may send
          Peer(_)        \* the other end

VARIABLES sent,          \* [Endpoint -> Seq(Message)], handed to protocol.send
          delivered      \* [Endpoint -> Seq(Message)], fired by protocol.onMessage

vars == <<sent, delivered>>

Init == /\ sent = [e \in Endpoint |-> <<>>]
        /\ delivered = [e \in Endpoint |-> <<>>]

Send(e, m) == /\ sent' = [sent EXCEPT ![e] = Append(@, m)]
              /\ UNCHANGED delivered

Deliver(e) == /\ Len(delivered[e]) < Len(sent[Peer(e)])
              /\ delivered' = [delivered EXCEPT
                     ![e] = Append(@, sent[Peer(e)][Len(@) + 1])]
              /\ UNCHANGED sent

Next == \E e \in Endpoint : Deliver(e) \/ \E m \in Message : Send(e, m)

Spec == Init /\ [][Next]_vars
=============================================================================
