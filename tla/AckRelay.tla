------------------------------ MODULE AckRelay ------------------------------
(***************************************************************************)
(* The acknowledged raw relay protocol of a web remote control bridge      *)
(* (packages/client/src/webRemoteControlAcknowledgedRelay*.ts and the      *)
(* frame assembler of packages/shared/src/web-remote-control-rpc-          *)
(* transport.ts).  The desktop and the phone each own one instance; each   *)
(* instance sends and receives.  A message is cut into frames with         *)
(* consecutive physical sequence numbers, kept for replay until the peer   *)
(* acknowledges it, and replayed as a whole when the link comes back.      *)
(*                                                                         *)
(* The code is single-threaded: one action is one entry into an instance,  *)
(* with the flush that entry ends in.  sendFrame may refuse a frame        *)
(* (return false) at any point of a flush, so a flush hands over any       *)
(* prefix of what is pending.  A payload that arrives inside sendFrame is  *)
(* queued and handled between two frames, which is a flush that stops      *)
(* there, followed by the arrival.                                         *)
(***************************************************************************)
EXTENDS Integers, Sequences

CONSTANTS Desktop, Phone,      \* the two ends
          Payload,             \* the distinguishable contents of a message
          MaxFragments,        \* maxFragments
          ReplayBufferMax,     \* replayBufferMaxBytes, a frame counts for 1
          HighWaterMark,       \* saturationHighWaterMarkBytes
          LowWaterMark,        \* saturationLowWaterMarkBytes
          MaxMessages,         \* bound: messages one end reserves
          WireCapacity,        \* bound: payloads in flight to one end
          MaxFailures          \* bound: failures of the link

ASSUME EndpointAssumption == Desktop # Phone
ASSUME LimitAssumption ==
    /\ MaxFragments \in Nat \ {0}
    /\ ReplayBufferMax \in Nat /\ HighWaterMark \in Nat /\ LowWaterMark \in Nat
    /\ LowWaterMark <= HighWaterMark
ASSUME BoundAssumption ==
    /\ MaxMessages \in [{Desktop, Phone} -> Nat]
    /\ WireCapacity \in Nat /\ MaxFailures \in Nat

Endpoint == {Desktop, Phone}
Peer(e) == IF e = Desktop THEN Phone ELSE Desktop

\* One frame of a message.  The checksum stands for the content.
Frame == [zcode_type : {"rpc-frame"}, seq : Nat \ {0}, messageSeq : Nat \ {0},
          fragmentIndex : Nat, fragmentCount : 1..MaxFragments, checksum : Payload]
Ack == [zcode_type : {"rpc-frame-ack"}, ackMessageSeq : Nat]
RelayPayload == Frame \cup Ack

AckOf(ack) == [zcode_type |-> "rpc-frame-ack", ackMessageSeq |-> ack]
IsAck(p) == p.zcode_type = "rpc-frame-ack"
IsLast(f) == f.fragmentIndex + 1 = f.fragmentCount

\* The content of a message: what it carries, and in how many fragments.
Message == [payload : Payload, fragments : 1..MaxFragments]
Batch == [message : Message, lastSeq : Nat]

Open == "open"
\* Terminal faults that only a peer that breaks the protocol can cause.
PeerFault == {"futureAck", "messageGap", "fragmentGap", "metadataMismatch",
              "checksumMismatch", "conflictingDuplicate"}
\* The other reasons to degrade (an expired grace or assembly, a full replay
\* buffer, a physical gap, a listener or a transport that throws, the owner's
\* decision) are not told apart.
Phase == {Open, "degraded", "disposed"} \cup PeerFault

VARIABLES
  \* sender: outboundBatches, its storage laid out frame by frame.  Frame i
  \* has physical seq i; the frames before head are released.
  frames,            \* [Endpoint -> Seq(Frame)]
  batches,           \* per message: content, and its last frame's seq
  head,              \* headIndex, as the first retained frame
  cursor,            \* nextUnsentIndex and nextFrameIndex, as a physical seq
  highestFullySent,  \* highestFullySentMessageSeq
  lastAcked,         \* lastAckedMessageSeq
  unackedBytes,      \* unacknowledgedByteCount
  saturated,
  \* receiver
  pendingAck,        \* pendingAckMessageSeq, 0 for null
  expectedSeq,       \* the assembler's expectedPhysicalSeq
  expectedMessage,   \* its expectedMessageSeq
  active,            \* the frames of its active assembly, <<>> for null
  settled,           \* the frames of the last message it completed
  delivered,         \* history: messages fired by onMessage
  \* both
  phase,             \* Phase; the instance is of use only while Open
  \* the relay between the two
  wire,              \* [Endpoint -> Seq], payloads in flight to an end
  failures             \* payloads dropped and replays cut short

queueVars == <<frames, batches, head>>
ackVars == <<lastAcked, unackedBytes, saturated>>
assemblerVars == <<expectedSeq, expectedMessage, active, settled>>
flushVars == <<cursor, highestFullySent, pendingAck, wire>>
vars == <<queueVars, ackVars, assemblerVars, flushVars, delivered, phase, failures>>

Init ==
  /\ frames = [e \in Endpoint |-> <<>>]
  /\ batches = [e \in Endpoint |-> <<>>]
  /\ head = [e \in Endpoint |-> 1]
  /\ cursor = [e \in Endpoint |-> 1]
  /\ highestFullySent = [e \in Endpoint |-> 0]
  /\ lastAcked = [e \in Endpoint |-> 0]
  /\ unackedBytes = [e \in Endpoint |-> 0]
  /\ saturated = [e \in Endpoint |-> FALSE]
  /\ pendingAck = [e \in Endpoint |-> 0]
  /\ expectedSeq = [e \in Endpoint |-> 1]
  /\ expectedMessage = [e \in Endpoint |-> 1]
  /\ active = [e \in Endpoint |-> <<>>]
  /\ settled = [e \in Endpoint |-> <<>>]
  /\ delivered = [e \in Endpoint |-> <<>>]
  /\ phase = [e \in Endpoint |-> Open]
  /\ wire = [e \in Endpoint |-> <<>>]
  /\ failures = 0

-----------------------------------------------------------------------------
(* Sending *)

IsOpen(e) == phase[e] = Open

LargerOf(i, j) == IF i < j THEN j ELSE i

\* Mutant: a message counts as fully sent only once the next one has begun.
FullySentLate(f) == f.messageSeq - 1

\* The messages whose last frame is f or an earlier one.
FullySentThrough(f) == IF IsLast(f) THEN f.messageSeq ELSE f.messageSeq - 1

\* flushPendingFrames on a queue `log` with position c and pending ack `ack`:
\* the ack goes first, then frames in order; the transport takes the ack or
\* not (ackTaken) and then n frames.  w is the wire the flush writes to.
Flush(e, log, c, ack, w, ackTaken, n) ==
  LET sentFrames == SubSeq(log, c, c + n - 1)
      out == (IF ackTaken THEN <<AckOf(ack)>> ELSE <<>>) \o sentFrames
  IN /\ ackTaken => ack # 0
     /\ n > 0 => (ackTaken \/ ack = 0)
     /\ c + n <= Len(log) + 1
     /\ Len(w[Peer(e)]) + Len(out) <= WireCapacity
     /\ wire' = [w EXCEPT ![Peer(e)] = @ \o out]
     /\ cursor' = [cursor EXCEPT ![e] = c + n]
     /\ pendingAck' = [pendingAck EXCEPT ![e] = IF ackTaken THEN 0 ELSE ack]
     /\ highestFullySent' = [highestFullySent EXCEPT
          ![e] = IF n = 0 THEN @ ELSE LargerOf(@, FullySentThrough(log[c + n - 1]))]

\* Everything a flush may do: the transport decides how much it takes.
SomeFlush(e, log, c, ack, w) ==
  \E ackTaken \in BOOLEAN, n \in 0..WireCapacity : Flush(e, log, c, ack, w, ackTaken, n)

\* enterDegraded and dispose: the queue, the pending ack and the assembler go
\* (dispose leaves the flag it no longer reads).
Close(e, reason) ==
  /\ phase' = [phase EXCEPT ![e] = reason]
  /\ head' = [head EXCEPT ![e] = Len(frames[e]) + 1]
  /\ cursor' = [cursor EXCEPT ![e] = Len(frames[e]) + 1]
  /\ pendingAck' = [pendingAck EXCEPT ![e] = 0]
  /\ unackedBytes' = [unackedBytes EXCEPT ![e] = 0]
  /\ saturated' = [saturated EXCEPT ![e] = @ /\ reason = "disposed"]
  /\ active' = [active EXCEPT ![e] = <<>>]
  /\ settled' = [settled EXCEPT ![e] = <<>>]
  /\ UNCHANGED <<frames, batches, highestFullySent, lastAcked,
                 expectedSeq, expectedMessage, delivered>>

\* encodeWebRemoteControlRpcTransportMessage.
Encoded(firstPhysicalSeq, messageSeq, m) ==
  [i \in 1..m.fragments |->
     [zcode_type |-> "rpc-frame", seq |-> firstPhysicalSeq + i - 1,
      messageSeq |-> messageSeq, fragmentIndex |-> i - 1,
      fragmentCount |-> m.fragments, checksum |-> m.payload]]

\* reserveMessage, when the whole batch fits the replay buffer.
Reserve(e, m) ==
  LET log == frames[e] \o Encoded(Len(frames[e]) + 1, Len(batches[e]) + 1, m)
      bytes == unackedBytes[e] + m.fragments
  IN /\ IsOpen(e)
     /\ Len(batches[e]) < MaxMessages[e]
     /\ bytes <= ReplayBufferMax
     /\ frames' = [frames EXCEPT ![e] = log]
     /\ batches' = [batches EXCEPT ![e] = Append(@, [message |-> m, lastSeq |-> Len(log)])]
     /\ unackedBytes' = [unackedBytes EXCEPT ![e] = bytes]
     /\ saturated' = [saturated EXCEPT ![e] = @ \/ bytes > HighWaterMark]
     /\ SomeFlush(e, log, cursor[e], pendingAck[e], wire)
     /\ UNCHANGED <<head, lastAcked, assemblerVars, delivered, phase, failures>>

\* reserveMessage, when it does not: refused before its first frame is sent.
ReserveRefused(e, m) ==
  /\ IsOpen(e)
  /\ Len(batches[e]) < MaxMessages[e]
  /\ unackedBytes[e] + m.fragments > ReplayBufferMax
  /\ Close(e, "degraded")
  /\ UNCHANGED <<wire, failures>>

\* flushPendingFrames called from outside (the desktop, once bridge-ready is out).
FlushPending(e) ==
  /\ IsOpen(e)
  /\ SomeFlush(e, frames[e], cursor[e], pendingAck[e], wire)
  /\ UNCHANGED <<queueVars, ackVars, assemblerVars, delivered, phase, failures>>

\* replayUnacknowledged: every retained frame is unsent again, and the
\* transport, which has just reported ready, takes all of them ...
ReplayUnacknowledged(e) ==
  /\ IsOpen(e)
  /\ Flush(e, frames[e], head[e], pendingAck[e], wire,
           pendingAck[e] # 0, Len(frames[e]) + 1 - head[e])
  /\ UNCHANGED <<queueVars, ackVars, assemblerVars, delivered, phase, failures>>

\* ... or breaks again before it has.
ReplayCutShort(e) ==
  /\ IsOpen(e)
  /\ failures < MaxFailures
  /\ failures' = failures + 1
  /\ SomeFlush(e, frames[e], head[e], pendingAck[e], wire)
  /\ UNCHANGED <<queueVars, ackVars, assemblerVars, delivered, phase>>

-----------------------------------------------------------------------------
(* Receiving *)

\* The retained queue after releaseThrough(ack).
HeadAfter(e, ack) == LargerOf(head[e], batches[e][ack].lastSeq + 1)

\* Mutant: the bytes are counted from the first slot of the storage.
BytesAfterFromFirstSlot(e, ack) == unackedBytes[e] - batches[e][ack].lastSeq

\* Mutant: a cumulative ack gives back the bytes of the named batch only.
BytesAfterOneBatch(e, ack) ==
  LargerOf(0, unackedBytes[e] - batches[e][ack].message.fragments)

\* unacknowledgedByteCount after it.
BytesAfter(e, ack) == LargerOf(0, unackedBytes[e] - (HeadAfter(e, ack) - head[e]))

\* Mutant: the producer wakes only strictly below the low mark.
StillSaturatedAtMark(e, bytes) == saturated[e] /\ bytes >= LowWaterMark

StillSaturated(e, bytes) == saturated[e] /\ bytes > LowWaterMark

\* The release of every batch up to ack.
Released(e, ack) ==
  /\ head' = [head EXCEPT ![e] = HeadAfter(e, ack)]
  /\ cursor' = [cursor EXCEPT ![e] = LargerOf(@, HeadAfter(e, ack))]
  /\ unackedBytes' = [unackedBytes EXCEPT ![e] = BytesAfter(e, ack)]
  /\ lastAcked' = [lastAcked EXCEPT ![e] = ack]
  /\ saturated' = [saturated EXCEPT ![e] = StillSaturated(e, BytesAfter(e, ack))]
  /\ UNCHANGED <<frames, batches, highestFullySent, pendingAck,
                 assemblerVars, delivered, phase>>

\* processAck, for an ack that is news; one of what was never fully sent is
\* a terminal fault.
ReceiveAck(e) ==
  LET ack == Head(wire[e]).ackMessageSeq
  IN /\ IsOpen(e) /\ wire[e] # <<>> /\ IsAck(Head(wire[e]))
     /\ ack > lastAcked[e]
     /\ IF ack > highestFullySent[e] THEN Close(e, "futureAck") ELSE Released(e, ack)
     /\ wire' = [wire EXCEPT ![e] = Tail(@)]
     /\ UNCHANGED failures

\* processAck, for an ack that is no news.
ReceiveStaleAck(e) ==
  /\ IsOpen(e) /\ wire[e] # <<>> /\ IsAck(Head(wire[e]))
  /\ Head(wire[e]).ackMessageSeq <= lastAcked[e]
  /\ wire' = [wire EXCEPT ![e] = Tail(@)]
  /\ UNCHANGED <<queueVars, ackVars, assemblerVars, cursor, highestFullySent,
                 pendingAck, delivered, phase, failures>>

\* Frames the assembler remembers a fingerprint of.
Remembered(e) == active[e] \o settled[e]

\* Mutant: a duplicate acknowledges the message still being assembled.
LastCompletedEager(e) == expectedMessage[e]

\* Mutant: a duplicate is dropped without acknowledging it again.
LastCompletedNone(e) == 0

LastCompleted(e) == expectedMessage[e] - 1

\* Mutant: the assembler resynchronises on whatever comes after a gap.
VerdictResync(e, f) ==
  IF f.seq < expectedSeq[e] THEN "duplicate"
  ELSE IF IsLast(f) THEN "complete" ELSE "incomplete"

\* What WebRemoteControlRpcTransportAssembler.accept makes of a frame.
Verdict(e, f) ==
  IF \E i \in DOMAIN Remembered(e) : Remembered(e)[i].seq = f.seq
  THEN IF \E i \in DOMAIN Remembered(e) : Remembered(e)[i] = f
       THEN "duplicate" ELSE "conflictingDuplicate"
  ELSE IF f.seq < expectedSeq[e] THEN "duplicate"
  ELSE IF f.seq > expectedSeq[e] THEN "physicalGap"
  ELSE IF f.messageSeq # expectedMessage[e] THEN "messageGap"
  ELSE IF f.fragmentIndex # Len(active[e]) THEN "fragmentGap"
  ELSE IF active[e] # <<>> /\ f.fragmentCount # active[e][1].fragmentCount
  THEN "metadataMismatch"
  ELSE IF active[e] # <<>> /\ f.checksum # active[e][1].checksum
  THEN "checksumMismatch"
  ELSE IF IsLast(f) THEN "complete" ELSE "incomplete"

FrameArrives(e, verdict) ==
  /\ IsOpen(e) /\ wire[e] # <<>> /\ ~ IsAck(Head(wire[e]))
  /\ Verdict(e, Head(wire[e])) = verdict

\* queueAck followed by its flush; messageSeq 0 is the duplicate that has
\* nothing to acknowledge yet.
QueueAckAndFlush(e, messageSeq) ==
  LET w == [wire EXCEPT ![e] = Tail(@)]
  IN IF messageSeq = 0
     THEN wire' = w /\ UNCHANGED <<cursor, highestFullySent, pendingAck>>
     ELSE SomeFlush(e, frames[e], cursor[e], LargerOf(pendingAck[e], messageSeq), w)

ReceiveDuplicate(e) ==
  /\ FrameArrives(e, "duplicate")
  /\ QueueAckAndFlush(e, LastCompleted(e))
  /\ UNCHANGED <<queueVars, ackVars, assemblerVars, delivered, phase, failures>>

ReceiveFragment(e) ==
  /\ FrameArrives(e, "incomplete")
  /\ active' = [active EXCEPT ![e] = Append(@, Head(wire[e]))]
  /\ expectedSeq' = [expectedSeq EXCEPT ![e] = @ + 1]
  /\ wire' = [wire EXCEPT ![e] = Tail(@)]
  /\ UNCHANGED <<queueVars, ackVars, expectedMessage, settled, cursor,
                 highestFullySent, pendingAck, delivered, phase, failures>>

\* The last fragment: the message is fired to the listener, then acknowledged.
ReceiveLast(e) ==
  LET f == Head(wire[e])
  IN /\ FrameArrives(e, "complete")
     /\ settled' = [settled EXCEPT ![e] = Append(active[e], f)]
     /\ active' = [active EXCEPT ![e] = <<>>]
     /\ expectedSeq' = [expectedSeq EXCEPT ![e] = @ + 1]
     /\ expectedMessage' = [expectedMessage EXCEPT ![e] = @ + 1]
     /\ delivered' = [delivered EXCEPT
          ![e] = Append(@, [payload |-> f.checksum, fragments |-> Len(active[e]) + 1])]
     /\ QueueAckAndFlush(e, f.messageSeq)
     /\ UNCHANGED <<queueVars, ackVars, phase, failures>>

\* The last fragment, when the listener throws: no ack, the bridge is lost.
DeliveryFails(e) ==
  /\ FrameArrives(e, "complete")
  /\ Close(e, "degraded")
  /\ wire' = [wire EXCEPT ![e] = Tail(@)]
  /\ UNCHANGED failures

\* A terminal fault of the assembler: a frame is missing, or the frame
\* contradicts what came before it.
ReceiveFault(e) ==
  \E verdict \in PeerFault \cup {"physicalGap"} :
    /\ FrameArrives(e, verdict)
    /\ Close(e, IF verdict \in PeerFault THEN verdict ELSE "degraded")
    /\ wire' = [wire EXCEPT ![e] = Tail(@)]
    /\ UNCHANGED failures

\* acceptPayload after degradation or disposal: the payload is not taken.
Discard(e) ==
  /\ ~ IsOpen(e) /\ wire[e] # <<>>
  /\ wire' = [wire EXCEPT ![e] = Tail(@)]
  /\ UNCHANGED <<queueVars, ackVars, assemblerVars, cursor, highestFullySent,
                 pendingAck, delivered, phase, failures>>

Receive(e) ==
  \/ ReceiveAck(e) \/ ReceiveStaleAck(e)
  \/ ReceiveDuplicate(e) \/ ReceiveFragment(e) \/ ReceiveLast(e)
  \/ DeliveryFails(e) \/ ReceiveFault(e) \/ Discard(e)

-----------------------------------------------------------------------------
(* Failures *)

\* AcknowledgedRelayDeadline: something has waited for longer than the grace.
GraceExpires(e) ==
  /\ IsOpen(e)
  /\ head[e] <= Len(frames[e]) \/ pendingAck[e] # 0
  /\ Close(e, "degraded")
  /\ UNCHANGED <<wire, failures>>

\* The assembly timer: the rest of a message has not come.
AssemblyExpires(e) ==
  /\ IsOpen(e) /\ active[e] # <<>>
  /\ Close(e, "degraded")
  /\ UNCHANGED <<wire, failures>>

\* markDegraded by the owner, or a sendFrame that throws.
MarkDegraded(e) ==
  /\ IsOpen(e)
  /\ Close(e, "degraded")
  /\ UNCHANGED <<wire, failures>>

Dispose(e) ==
  /\ phase[e] # "disposed"
  /\ Close(e, "disposed")
  /\ UNCHANGED <<wire, failures>>

\* The relay drops a payload (the addressee is not paired, a socket breaks).
Lose(e, i) ==
  /\ failures < MaxFailures
  /\ failures' = failures + 1
  /\ wire' = [wire EXCEPT ![e] = SubSeq(@, 1, i - 1) \o SubSeq(@, i + 1, Len(@))]
  /\ UNCHANGED <<queueVars, ackVars, assemblerVars, cursor, highestFullySent,
                 pendingAck, delivered, phase>>

Next ==
  \E e \in Endpoint :
    \/ \E m \in Message : Reserve(e, m) \/ ReserveRefused(e, m)
    \/ FlushPending(e) \/ ReplayUnacknowledged(e) \/ ReplayCutShort(e)
    \/ Receive(e)
    \/ GraceExpires(e) \/ AssemblyExpires(e) \/ MarkDegraded(e) \/ Dispose(e)
    \/ \E i \in DOMAIN wire[e] : Lose(e, i)

Spec == Init /\ [][Next]_vars

\* Weak fairness for what the event loop delivers.  The transport answers every
\* heartbeat of a paired socket, and every match after a broken one, with
\* onSendReady, on which both ends replay; strong fairness, because only the
\* bound on the wire can make a replay wait.
FairSpec == /\ Spec
            /\ \A e \in Endpoint : WF_vars(Receive(e)) /\ SF_vars(ReplayUnacknowledged(e))

-----------------------------------------------------------------------------
(* Properties *)

\* Every variable keeps its type: the protocol's counters, queues and wires.
TypeOK ==
  /\ frames \in [Endpoint -> Seq(Frame)]
  /\ batches \in [Endpoint -> Seq(Batch)]
  /\ head \in [Endpoint -> Nat \ {0}] /\ cursor \in [Endpoint -> Nat \ {0}]
  /\ highestFullySent \in [Endpoint -> Nat] /\ lastAcked \in [Endpoint -> Nat]
  /\ unackedBytes \in [Endpoint -> Nat] /\ saturated \in [Endpoint -> BOOLEAN]
  /\ pendingAck \in [Endpoint -> Nat]
  /\ expectedSeq \in [Endpoint -> Nat \ {0}]
  /\ expectedMessage \in [Endpoint -> Nat \ {0}]
  /\ active \in [Endpoint -> Seq(Frame)] /\ settled \in [Endpoint -> Seq(Frame)]
  /\ delivered \in [Endpoint -> Seq(Message)]
  /\ phase \in [Endpoint -> Phase]
  /\ wire \in [Endpoint -> Seq(RelayPayload)]
  /\ failures \in Nat

\* Two ends that follow the protocol never fault each other: no ack runs ahead
\* of what was fully sent, and whatever the relay drops or a replay repeats
\* shows as a gap in the physical sequence or as a duplicate, never as a
\* message mixed from two or as a conflicting fragment.
OnlyHonestFaults == \A e \in Endpoint : phase[e] \notin PeerFault

\* A batch leaves the replay queue only when the peer has delivered it: as long
\* as the sender is open, everything not delivered can still be replayed.
ReleasedWasDelivered ==
  \A e \in Endpoint : IsOpen(e) =>
    \A i \in 1..head[e] - 1 : frames[e][i].messageSeq <= Len(delivered[Peer(e)])

\* unacknowledgedByteCount, which admits messages to the replay buffer, is the
\* size of exactly what a replay would send, and within the buffer's limit.
AdmissionIsExact ==
  \A e \in Endpoint : IsOpen(e) =>
    /\ unackedBytes[e] = Len(frames[e]) + 1 - head[e]
    /\ unackedBytes[e] <= ReplayBufferMax

\* Back-pressure follows the backlog: the producer is told to stop while the
\* backlog is above the high mark, and a stopped producer always has a backlog
\* whose acknowledgement will wake it.
BackPressureIsLive ==
  \A e \in Endpoint : IsOpen(e) =>
    /\ unackedBytes[e] > HighWaterMark => saturated[e]
    /\ saturated[e] => unackedBytes[e] > LowWaterMark

\* What each end hands in and what the other end gets out is a FIFO channel.
Sent == [e \in Endpoint |-> [m \in DOMAIN batches[e] |-> batches[e][m].message]]
Fifo == INSTANCE FifoDelivery WITH sent <- Sent
ImplementsFifo == Fifo!Spec

\* A reserved message is acknowledged in the end, whatever the relay dropped,
\* unless one of the two instances has been given up.
EveryMessageAcknowledged ==
  \A e \in Endpoint : \A m \in 1..MaxMessages[e] :
    (IsOpen(e) /\ Len(batches[e]) >= m)
      ~> (lastAcked[e] >= m \/ ~ IsOpen(e) \/ ~ IsOpen(Peer(e)))
=============================================================================
