--------------------------- MODULE AckRelay_proofs ---------------------------
(***************************************************************************)
(* Proofs about AckRelay, for every number of messages, fragments and      *)
(* failures, every limit and every capacity of the wire: the inductive     *)
(* invariant, what the operators do to a queue of frames and to the wire,  *)
(* one lemma for each step and conjunct, and the theorems.                 *)
(***************************************************************************)
EXTENDS AckRelay, SequenceTheorems, TLAPS

-----------------------------------------------------------------------------
(* The inductive invariant *)

\* The physical seq of the last frame of message m.
End(bs, m) == IF m = 0 THEN 0 ELSE bs[m].lastSeq

\* A log of frames is the encoding of its messages, one after the other.
QueueOK(log, bs) ==
  /\ Len(log) = End(bs, Len(bs))
  /\ \A m \in DOMAIN bs :
       /\ bs[m].lastSeq = End(bs, m - 1) + bs[m].message.fragments
       /\ bs[m].lastSeq <= Len(log)
       /\ \A j \in 1..bs[m].message.fragments :
            /\ log[End(bs, m - 1) + j].messageSeq = m
            /\ log[End(bs, m - 1) + j].fragmentIndex = j - 1
  /\ \A m, k \in DOMAIN bs : m < k => bs[m].lastSeq < bs[k].lastSeq
  /\ \A i \in DOMAIN log :
       /\ log[i].seq = i
       /\ log[i].messageSeq \in DOMAIN bs
       /\ i = End(bs, log[i].messageSeq - 1) + log[i].fragmentIndex + 1
       /\ log[i].fragmentCount = bs[log[i].messageSeq].message.fragments
       /\ log[i].checksum = bs[log[i].messageSeq].message.payload
       /\ log[i].fragmentIndex < log[i].fragmentCount

\* What a sender knows lags behind what its peer has delivered, which lags
\* behind what it has sent.
SenderOK(e) ==
  /\ lastAcked[e] <= Len(delivered[Peer(e)])
  /\ Len(delivered[Peer(e)]) <= highestFullySent[e]
  /\ highestFullySent[e] <= Len(batches[e])
  /\ pendingAck[e] <= Len(delivered[e])
  /\ IsOpen(e) =>
       /\ head[e] = End(batches[e], lastAcked[e]) + 1
       /\ unackedBytes[e] = Len(frames[e]) + 1 - head[e]
       /\ unackedBytes[e] <= ReplayBufferMax
       /\ unackedBytes[e] > HighWaterMark => saturated[e]
       /\ saturated[e] => unackedBytes[e] > LowWaterMark

\* What a receiver holds is a prefix of its peer's log, cut into messages.
ReceiverOK(e) ==
  LET log == frames[Peer(e)]
      bs == batches[Peer(e)]
      done == Len(delivered[e])
  IN /\ expectedMessage[e] = done + 1
     /\ done <= Len(bs)
     /\ \A m \in 1..done : delivered[e][m] = bs[m].message
     /\ IsOpen(e) =>
          /\ expectedSeq[e] = End(bs, done) + Len(active[e]) + 1
          /\ active[e] # <<>> =>
               done < Len(bs) /\ Len(active[e]) < bs[done + 1].message.fragments
          /\ \A j \in 1..Len(active[e]) : active[e][j] = log[End(bs, done) + j]
          /\ \A j \in 1..Len(settled[e]) :
               settled[e][j].seq \in DOMAIN log /\ settled[e][j] = log[settled[e][j].seq]

\* What may be in flight to an end, given its peer's log of frames, the number
\* of messages its peer has delivered and its peer's highestFullySent.
InFlightOK(p, log, done, fullySent) ==
  IF IsAck(p) THEN p.ackMessageSeq <= done
  ELSE /\ p.seq \in DOMAIN log
       /\ p = log[p.seq]
       /\ IsLast(p) => p.messageSeq <= fullySent

WireOK(e) ==
  LET q == Peer(e) IN
  \A k \in 1..Len(wire[e]) :
    InFlightOK(wire[e][k], frames[q], Len(delivered[q]), highestFullySent[q])

IInv ==
  /\ TypeOK
  /\ \A e \in Endpoint : QueueOK(frames[e], batches[e])
  /\ \A e \in Endpoint : SenderOK(e)
  /\ \A e \in Endpoint : ReceiverOK(e)
  /\ \A e \in Endpoint : WireOK(e)
  /\ OnlyHonestFaults

-----------------------------------------------------------------------------
(* Lemmas about the two ends and about queues *)

\* The other end of the other end is the end itself.
LEMMA PeerFacts ==
  \A e \in Endpoint : Peer(e) \in Endpoint /\ Peer(e) # e /\ Peer(Peer(e)) = e
                     /\ \A x \in Endpoint : x = e \/ x = Peer(e)
BY EndpointAssumption DEF Endpoint, Peer

LEMMA AckFacts ==
  /\ \A a \in Nat : AckOf(a) \in RelayPayload /\ IsAck(AckOf(a)) /\ AckOf(a).ackMessageSeq = a
  /\ \A p \in Ack : IsAck(p) /\ p.ackMessageSeq \in Nat
  /\ \A p \in Frame : ~ IsAck(p) /\ p \in RelayPayload
  /\ \A p \in RelayPayload : IF IsAck(p) THEN p \in Ack ELSE p \in Frame
BY DEF AckOf, Ack, IsAck, Frame, RelayPayload

LEMMA EndIsNat ==
  ASSUME NEW bs \in Seq(Batch), NEW m \in 0..Len(bs)
  PROVE  End(bs, m) \in Nat
<1>1. CASE m = 0
  BY <1>1 DEF End
<1>2. CASE m # 0
  <2>1. bs[m] \in Batch
    BY <1>2
  <2> QED BY <1>2, <2>1 DEF End, Batch
<1> QED BY <1>1, <1>2

\* The ends of the messages of a queue never go down, and stay within it.
LEMMA EndFacts ==
  ASSUME NEW log \in Seq(Frame), NEW bs \in Seq(Batch), QueueOK(log, bs)
  PROVE  /\ Len(bs) \in Nat /\ Len(log) \in Nat /\ DOMAIN bs = 1..Len(bs)
         /\ DOMAIN log = 1..Len(log)
         /\ \A k \in 0..Len(bs) : End(bs, k) \in Nat /\ End(bs, k) <= Len(log)
         /\ End(bs, Len(bs)) = Len(log)
         /\ \A k, l \in 0..Len(bs) : k <= l => End(bs, k) <= End(bs, l)
<1>1. /\ Len(bs) \in Nat /\ Len(log) \in Nat /\ DOMAIN bs = 1..Len(bs)
      /\ DOMAIN log = 1..Len(log)
  OBVIOUS
<1>2. \A k \in 0..Len(bs) : End(bs, k) \in Nat
  BY EndIsNat
<1>3. /\ \A k \in 1..Len(bs) : End(bs, k) = bs[k].lastSeq /\ bs[k].lastSeq <= Len(log)
      /\ End(bs, 0) = 0 /\ End(bs, Len(bs)) = Len(log)
      /\ \A k, l \in 1..Len(bs) : k < l => bs[k].lastSeq < bs[l].lastSeq
  <2>1. /\ \A k \in 1..Len(bs) : bs[k].lastSeq <= Len(log)
        /\ End(bs, Len(bs)) = Len(log)
        /\ \A k, l \in 1..Len(bs) : k < l => bs[k].lastSeq < bs[l].lastSeq
    BY <1>1, Zenon DEF QueueOK
  <2>2. \A k \in 1..Len(bs) : k # 0
    BY <1>1
  <2> QED BY <2>1, <2>2, Zenon DEF End
<1> DEFINE b == Len(bs)
           n == Len(log)
           E(k) == End(bs, k)
<1> HIDE DEF b, n, E
<1>4. /\ b \in Nat /\ n \in Nat /\ \A k \in 0..b : E(k) \in Nat
      /\ \A k \in 1..b : E(k) <= n
      /\ E(0) = 0 /\ E(b) = n
      /\ \A k, l \in 1..b : k < l => E(k) < E(l)
  BY <1>1, <1>2, <1>3 DEF b, n, E
<1>5. \A k \in 0..b : k = 0 \/ k \in 1..b
  BY <1>4
<1>6. \A k \in 0..b : E(k) <= n
  BY <1>4, <1>5
<1>7. \A k, l \in 0..b : k <= l => E(k) <= E(l)
  <2> TAKE k, l \in 0..b
  <2>1. E(k) \in Nat /\ E(l) \in Nat /\ k \in Nat /\ l \in Nat
    BY <1>4
  <2>2. CASE k = 0
    BY <1>4, <2>1, <2>2
  <2>3. CASE k # 0 /\ k < l
    <3>1. k \in 1..b /\ l \in 1..b
      BY <1>4, <2>3
    <3> QED BY <1>4, <2>1, <2>3, <3>1
  <2>4. CASE k = l
    BY <2>1, <2>4
  <2> QED BY <2>1, <2>2, <2>3, <2>4
<1> QED BY <1>1, <1>3, <1>4, <1>6, <1>7 DEF b, n, E

\* Frames of a queue are in the order of their messages, and the last frame of
\* a message is before every frame of a later one.
LEMMA QueueOrder ==
  ASSUME NEW log \in Seq(Frame), NEW bs \in Seq(Batch),
         QueueOK(log, bs), NEW i \in DOMAIN log, NEW j \in DOMAIN log, i < j, IsLast(log[i])
  PROVE  log[i].messageSeq < log[j].messageSeq
<1> DEFINE mi == log[i].messageSeq
           mj == log[j].messageSeq
<1>1. /\ mi \in DOMAIN bs /\ mj \in DOMAIN bs /\ DOMAIN bs = 1..Len(bs) /\ Len(bs) \in Nat
      /\ i \in Nat /\ j \in Nat /\ log[i] \in Frame /\ log[j] \in Frame
      /\ bs[mi] \in Batch /\ bs[mj] \in Batch
  BY DEF QueueOK
<1>2. bs[mi].lastSeq = i
  <2>1. bs[mi].lastSeq = End(bs, mi - 1) + bs[mi].message.fragments
    BY <1>1 DEF QueueOK
  <2>2. i = End(bs, mi - 1) + log[i].fragmentIndex + 1
    BY <1>1 DEF QueueOK
  <2>3. log[i].fragmentCount = bs[mi].message.fragments /\ log[i].fragmentIndex \in Nat
    BY <1>1 DEF QueueOK, Frame
  <2>4. End(bs, mi - 1) \in Nat
    BY <1>1, EndIsNat
  <2> QED BY <2>1, <2>2, <2>3, <2>4 DEF IsLast
<1>3. j <= bs[mj].lastSeq
  <2>1. bs[mj].lastSeq = End(bs, mj - 1) + bs[mj].message.fragments
    BY <1>1 DEF QueueOK
  <2>2. j = End(bs, mj - 1) + log[j].fragmentIndex + 1
    BY <1>1 DEF QueueOK
  <2>3. log[j].fragmentCount = bs[mj].message.fragments /\ log[j].fragmentIndex < log[j].fragmentCount
    BY <1>1 DEF QueueOK
  <2>4. End(bs, mj - 1) \in Nat
    BY <1>1, EndIsNat, SMTT(30)
  <2>5. log[j].fragmentIndex \in Nat /\ log[j].fragmentCount \in Nat
    BY <1>1, LimitAssumption DEF Frame
  <2> QED BY <2>1, <2>2, <2>3, <2>4, <2>5, SMTT(30)
<1>4. CASE mj < mi
  <2>1. bs[mj].lastSeq < bs[mi].lastSeq
    BY <1>1, <1>4 DEF QueueOK
  <2> QED BY <1>1, <1>2, <1>3, <2>1 DEF Batch
<1>5. CASE mj = mi
  BY <1>1, <1>2, <1>3, <1>5 DEF Batch
<1>6. mi \in Nat /\ mj \in Nat
  BY <1>1
<1> HIDE DEF mi, mj
<1> QED BY <1>4, <1>5, <1>6 DEF mi, mj

-----------------------------------------------------------------------------
(* Flushing *)

FlushTypes == /\ cursor \in [Endpoint -> Nat \ {0}]
              /\ highestFullySent \in [Endpoint -> Nat]
              /\ pendingAck \in [Endpoint -> Nat]

\* What e has on the wire after a flush: what was there, the ack, and frames
\* of the log that count as sent.
FlushedPayload(e, log, ack, w, hfs, p) ==
  \/ \E j \in 1..Len(w[Peer(e)]) : p = w[Peer(e)][j]
  \/ p = AckOf(ack)
  \/ \E i \in DOMAIN log : p = log[i] /\ (IsLast(log[i]) => log[i].messageSeq <= hfs)

FlushEffect(e, log, bs, ack, w) ==
  /\ wire' \in [Endpoint -> Seq(RelayPayload)]
  /\ FlushTypes'
  /\ wire'[e] = w[e]
  /\ \A k \in 1..Len(wire'[Peer(e)]) :
       FlushedPayload(e, log, ack, w, highestFullySent'[e], wire'[Peer(e)][k])
  /\ pendingAck'[e] \in {0, ack}
  /\ pendingAck'[Peer(e)] = pendingAck[Peer(e)]
  /\ highestFullySent'[e] >= highestFullySent[e]
  /\ highestFullySent'[e] <= Len(bs)
  /\ highestFullySent'[Peer(e)] = highestFullySent[Peer(e)]

LEMMA FlushHasEffect ==
  ASSUME NEW e \in Endpoint, NEW log \in Seq(Frame), NEW bs \in Seq(Batch), QueueOK(log, bs),
         NEW c \in Nat \ {0}, NEW ack \in Nat, NEW w \in [Endpoint -> Seq(RelayPayload)],
         NEW ackTaken \in BOOLEAN, NEW n \in Nat,
         FlushTypes, highestFullySent[e] <= Len(bs),
         Flush(e, log, c, ack, w, ackTaken, n)
  PROVE  FlushEffect(e, log, bs, ack, w)
<1> DEFINE sentFrames == SubSeq(log, c, c + n - 1)
           acks == IF ackTaken THEN <<AckOf(ack)>> ELSE <<>>
           out == acks \o sentFrames
           q == Peer(e)
           last == log[c + n - 1]
<1>1. q \in Endpoint /\ q # e /\ Len(log) \in Nat /\ Len(bs) \in Nat
  BY PeerFacts
<1> HIDE DEF q
<1>2. c + n <= Len(log) + 1
  BY DEF Flush
<1>3. \A i \in c..c + n - 1 : i \in DOMAIN log /\ log[i] \in Frame
  BY <1>1, <1>2
<1>4. /\ sentFrames \in Seq(RelayPayload)
      /\ Len(sentFrames) = n
      /\ \A i \in 1..n : sentFrames[i] = log[c + i - 1]
  <2>1. \A i \in c..c + n - 1 : log[i] \in RelayPayload
    BY <1>3, AckFacts
  <2> QED BY <2>1, SubSeqProperties, Z3
<1>5. /\ acks \in Seq(RelayPayload) /\ Len(acks) \in {0, 1}
      /\ \A i \in 1..Len(acks) : acks[i] = AckOf(ack)
  <2>1. AckOf(ack) \in RelayPayload
    BY AckFacts
  <2> QED BY <2>1
<1> HIDE DEF sentFrames, acks
<1>6. /\ out \in Seq(RelayPayload) /\ Len(out) = Len(acks) + n
      /\ \A i \in 1..Len(out) : out[i] = AckOf(ack) \/ \E j \in c..c + n - 1 : out[i] = log[j]
  <2>1. /\ out \in Seq(RelayPayload)
        /\ Len(out) = Len(acks) + Len(sentFrames)
        /\ \A i \in 1..Len(acks) + Len(sentFrames) :
             out[i] = IF i <= Len(acks) THEN acks[i] ELSE sentFrames[i - Len(acks)]
    BY <1>4, <1>5, ConcatProperties, ZenonT(40)
  <2>2. ASSUME NEW i \in 1..Len(out), i > Len(acks)
        PROVE  \E j \in c..c + n - 1 : out[i] = log[j]
    <3> DEFINE k == i - Len(acks)
    <3>1. /\ k \in 1..n /\ c + k - 1 \in c..c + n - 1
          /\ i \in 1..Len(acks) + Len(sentFrames) /\ ~ (i <= Len(acks))
      <4>1. /\ Len(out) = Len(acks) + n /\ Len(sentFrames) = n
            /\ Len(acks) \in Nat /\ i \in 1..Len(out) /\ i > Len(acks)
        BY <2>1, <2>2, <1>4, <1>5
      <4> QED BY <4>1
    <3>2. out[i] = sentFrames[k]
      BY <2>1, <3>1
    <3> HIDE DEF k
    <3>3. sentFrames[k] = log[c + k - 1]
      BY <3>1, <1>4
    <3> QED BY <3>1, <3>2, <3>3
  <2>3. ASSUME NEW i \in 1..Len(out), i <= Len(acks)
        PROVE  out[i] = AckOf(ack)
    BY <2>1, <2>3, <1>4, <1>5
  <2>4. Len(acks) \in Nat /\ Len(out) \in Nat
    BY <1>4, <1>5, <2>1
  <2>5. \A i \in 1..Len(out) : i <= Len(acks) \/ i > Len(acks)
    BY <2>4
  <2> QED BY <2>1, <2>2, <2>3, <2>5, <1>4
<1> HIDE DEF out
<1>7. wire' = [w EXCEPT ![q] = @ \o out]
  BY DEF Flush, out, acks, sentFrames, q
<1>8. /\ wire'[e] = w[e]
      /\ wire'[q] = w[q] \o out
      /\ wire' \in [Endpoint -> Seq(RelayPayload)]
  BY <1>1, <1>6, <1>7, ConcatProperties
<1>9. \A k \in 1..Len(wire'[q]) :
        \/ \E j \in 1..Len(w[q]) : wire'[q][k] = w[q][j]
        \/ wire'[q][k] = AckOf(ack)
        \/ \E j \in c..c + n - 1 : wire'[q][k] = log[j]
  <2>1. w[q] \in Seq(RelayPayload)
    BY <1>1
  <2>2. /\ Len(w[q] \o out) = Len(w[q]) + Len(out)
        /\ \A i \in 1..Len(w[q]) + Len(out) :
             (w[q] \o out)[i] = IF i <= Len(w[q]) THEN w[q][i] ELSE out[i - Len(w[q])]
    <3>1. out \in Seq(RelayPayload)
      BY <1>6
    <3> QED BY <2>1, <3>1, ConcatProperties
  <2>3. Len(w[q]) \in Nat /\ Len(out) \in Nat
    BY <2>1, <1>6, LenProperties
  <2>4. TAKE k \in 1..Len(wire'[q])
  <2>5. CASE k <= Len(w[q])
    BY <2>2, <2>3, <2>4, <2>5, <1>8
  <2>6. CASE k > Len(w[q])
    <3>1. k - Len(w[q]) \in 1..Len(out)
      BY <2>2, <2>3, <2>6, <1>8
    <3>2. wire'[q][k] = out[k - Len(w[q])]
      BY <2>2, <2>3, <2>6, <1>8, SMTT(30)
    <3> QED BY <3>1, <3>2, <1>6
  <2> QED BY <2>3, <2>5, <2>6
<1>10. /\ cursor' = [cursor EXCEPT ![e] = c + n]
       /\ pendingAck' = [pendingAck EXCEPT ![e] = IF ackTaken THEN 0 ELSE ack]
       /\ highestFullySent' = [highestFullySent EXCEPT
            ![e] = IF n = 0 THEN @ ELSE LargerOf(@, FullySentThrough(last))]
  BY DEF Flush
<1>11. n > 0 => /\ last \in Frame /\ last.messageSeq \in 1..Len(bs)
                /\ FullySentThrough(last) \in 0..Len(bs)
  <2> SUFFICES ASSUME n > 0
               PROVE  /\ last \in Frame /\ last.messageSeq \in 1..Len(bs)
                      /\ FullySentThrough(last) \in 0..Len(bs)
    OBVIOUS
  <2>1. c + n - 1 \in DOMAIN log /\ last \in Frame
    BY <1>2, <1>3
  <2>2. last.messageSeq \in 1..Len(bs)
    <3>1. \A i \in DOMAIN log : log[i].messageSeq \in DOMAIN bs
      BY DEF QueueOK
    <3> QED BY <2>1, <3>1
  <2> QED BY <2>1, <2>2, <1>1, SMTT(30) DEF FullySentThrough
<1>12. /\ FlushTypes'
       /\ pendingAck'[e] \in {0, ack} /\ pendingAck'[q] = pendingAck[q]
       /\ highestFullySent'[q] = highestFullySent[q]
  BY <1>1, <1>10, <1>11, SMTT(30) DEF FlushTypes, LargerOf
<1>13. /\ highestFullySent'[e] >= highestFullySent[e]
       /\ highestFullySent'[e] <= Len(bs)
       /\ n > 0 => highestFullySent'[e] >= FullySentThrough(last)
  BY <1>1, <1>10, <1>11, SMTT(30) DEF FlushTypes, LargerOf
<1>14. ASSUME NEW j \in c..c + n - 1, IsLast(log[j])
       PROVE  log[j].messageSeq <= highestFullySent'[e]
  <2>1. n > 0 /\ j \in DOMAIN log /\ c + n - 1 \in DOMAIN log
    BY <1>2, <1>3
  <2>2. CASE j = c + n - 1
    BY <2>1, <2>2, <1>13, <1>14 DEF FullySentThrough
  <2>3. CASE j < c + n - 1
    <3>1. log[j].messageSeq < last.messageSeq
      BY <2>1, <2>3, <1>14, QueueOrder
    <3>2. log[j].messageSeq \in Nat /\ last.messageSeq \in Nat
      BY <2>1, <1>3, <1>11 DEF Frame
    <3>3. log[j].messageSeq <= FullySentThrough(last)
      <4>1. FullySentThrough(last) = last.messageSeq \/ FullySentThrough(last) = last.messageSeq - 1
        BY DEF FullySentThrough
      <4> QED BY <3>1, <3>2, <4>1, SMTT(30)
    <3>4. highestFullySent'[e] \in Nat
      BY <1>12 DEF FlushTypes
    <3> QED BY <2>1, <3>2, <3>3, <3>4, <1>11, <1>13, SMTT(30)
  <2> QED BY <2>2, <2>3
<1>15. \A k \in 1..Len(wire'[q]) :
         FlushedPayload(e, log, ack, w, highestFullySent'[e], wire'[q][k])
  BY <1>3, <1>9, <1>14 DEF FlushedPayload, q
<1> QED BY <1>8, <1>12, <1>13, <1>15 DEF FlushEffect, q

-----------------------------------------------------------------------------
(* The wire *)

\* w holds nothing that is not in flight already.
Sub(w) ==
  /\ w \in [Endpoint -> Seq(RelayPayload)]
  /\ \A x \in Endpoint : \A k \in 1..Len(w[x]) :
       \E j \in 1..Len(wire[x]) : w[x][k] = wire[x][j]

\* A step that only adds to what the ends have reserved, sent and delivered.
Grows ==
  \A x \in Endpoint :
    /\ Len(delivered[x]) <= Len(delivered'[x])
    /\ highestFullySent[x] <= highestFullySent'[x]
    /\ DOMAIN frames[x] \subseteq DOMAIN frames'[x]
    /\ \A i \in DOMAIN frames[x] : frames'[x][i] = frames[x][i]

LEMMA WireIsSub ==
  ASSUME TypeOK
  PROVE  Sub(wire)
<1>1. \A x \in Endpoint : Len(wire[x]) \in Nat
  BY DEF TypeOK
<1> QED BY <1>1 DEF Sub, TypeOK

LEMMA TailIsSub ==
  ASSUME TypeOK, NEW e \in Endpoint, wire[e] # <<>>
  PROVE  /\ Sub([wire EXCEPT ![e] = Tail(@)])
         /\ Head(wire[e]) = wire[e][1] /\ 1 \in 1..Len(wire[e]) /\ wire[e][1] \in RelayPayload
<1>1. wire[e] \in Seq(RelayPayload) /\ wire \in [Endpoint -> Seq(RelayPayload)]
  BY DEF TypeOK
<1>2. /\ Tail(wire[e]) \in Seq(RelayPayload)
      /\ Len(Tail(wire[e])) = Len(wire[e]) - 1
      /\ \A i \in 1..Len(Tail(wire[e])) : Tail(wire[e])[i] = wire[e][i + 1]
  BY <1>1, HeadTailProperties
<1>3. Len(wire[e]) \in Nat \ {0}
  BY <1>1, EmptySeq
<1>4. ASSUME NEW x \in Endpoint, NEW k \in 1..Len([wire EXCEPT ![e] = Tail(@)][x])
      PROVE  \E j \in 1..Len(wire[x]) : [wire EXCEPT ![e] = Tail(@)][x][k] = wire[x][j]
  <2>1. CASE x = e
    <3>1. k \in 1..Len(Tail(wire[e])) /\ k + 1 \in 1..Len(wire[e])
      BY <1>1, <1>2, <1>3, <1>4, <2>1
    <3> QED BY <1>1, <1>2, <2>1, <3>1
  <2>2. CASE x # e
    BY <1>1, <1>4, <2>2
  <2> QED BY <2>1, <2>2
<1>5. [wire EXCEPT ![e] = Tail(@)] \in [Endpoint -> Seq(RelayPayload)]
  BY <1>1, <1>2
<1>6. Head(wire[e]) = wire[e][1] /\ 1 \in 1..Len(wire[e]) /\ wire[e][1] \in RelayPayload
  BY <1>1, <1>3
<1> QED BY <1>4, <1>5, <1>6 DEF Sub

LEMMA LossIsSub ==
  ASSUME TypeOK, NEW e \in Endpoint, NEW i \in DOMAIN wire[e]
  PROVE  Sub([wire EXCEPT ![e] = SubSeq(@, 1, i - 1) \o SubSeq(@, i + 1, Len(@))])
<1> DEFINE s == wire[e]
           a == SubSeq(s, 1, i - 1)
           b == SubSeq(s, i + 1, Len(s))
           w == [wire EXCEPT ![e] = a \o b]
<1>1. s \in Seq(RelayPayload) /\ wire \in [Endpoint -> Seq(RelayPayload)] /\ Len(s) \in Nat
      /\ i \in 1..Len(s)
  BY SMTT(30) DEF TypeOK
<1>2. /\ a \in Seq(RelayPayload) /\ Len(a) = i - 1
      /\ \A k \in 1..i - 1 : a[k] = s[k]
  <2>1. /\ \A k \in 1..i - 1 : s[k] \in RelayPayload
        /\ 1 \in Int /\ i - 1 \in Int
    BY <1>1
  <2>2. /\ a \in Seq(RelayPayload)
        /\ Len(a) = IF 1 <= i - 1 THEN i - 1 - 1 + 1 ELSE 0
        /\ \A k \in 1..i - 1 - 1 + 1 : a[k] = s[1 + k - 1]
    <3>1. /\ SubSeq(s, 1, i - 1) \in Seq(RelayPayload)
          /\ Len(SubSeq(s, 1, i - 1)) = IF 1 <= i - 1 THEN i - 1 - 1 + 1 ELSE 0
          /\ \A k \in 1..i - 1 - 1 + 1 : SubSeq(s, 1, i - 1)[k] = s[1 + k - 1]
      <4> HIDE DEF s, a
      <4> QED BY <2>1, SubSeqProperties
    <3> QED BY <3>1, Zenon DEF a
  <2> HIDE DEF a
  <2> QED BY <1>1, <2>2
<1>3. /\ b \in Seq(RelayPayload) /\ Len(b) = Len(s) - i
      /\ \A k \in 1..Len(s) - i : b[k] = s[i + k]
  <2>1. /\ \A k \in i + 1..Len(s) : s[k] \in RelayPayload
        /\ i + 1 \in Int /\ Len(s) \in Int
    BY <1>1
  <2>2. /\ b \in Seq(RelayPayload)
        /\ Len(b) = IF i + 1 <= Len(s) THEN Len(s) - (i + 1) + 1 ELSE 0
        /\ \A k \in 1..Len(s) - (i + 1) + 1 : b[k] = s[i + 1 + k - 1]
    <3>1. /\ SubSeq(s, i + 1, Len(s)) \in Seq(RelayPayload)
          /\ Len(SubSeq(s, i + 1, Len(s))) = IF i + 1 <= Len(s) THEN Len(s) - (i + 1) + 1 ELSE 0
          /\ \A k \in 1..Len(s) - (i + 1) + 1 : SubSeq(s, i + 1, Len(s))[k] = s[i + 1 + k - 1]
      <4> HIDE DEF s, b
      <4> QED BY <2>1, SubSeqProperties
    <3> QED BY <3>1, Zenon DEF b
  <2> HIDE DEF b
  <2> QED BY <1>1, <2>2
<1> HIDE DEF a, b
<1>4. /\ a \o b \in Seq(RelayPayload) /\ Len(a \o b) = Len(a) + Len(b)
      /\ \A k \in 1..Len(a) + Len(b) : (a \o b)[k] = IF k <= Len(a) THEN a[k] ELSE b[k - Len(a)]
  BY <1>2, <1>3, ConcatProperties
<1>5. ASSUME NEW x \in Endpoint, NEW k \in 1..Len(w[x])
      PROVE  \E j \in 1..Len(wire[x]) : w[x][k] = wire[x][j]
  <2>1. CASE x # e
    BY <1>1, <2>1
  <2>2. CASE x = e
    <3>1. w[x] = a \o b
      BY <1>1, <2>2
    <3>2. k \in 1..Len(a) + Len(b)
      BY <3>1, <1>4
    <3> HIDE DEF w, s
    <3>3. CASE k <= Len(a)
      <4>1. (a \o b)[k] = s[k] /\ k \in 1..Len(s)
        <5>1. /\ Len(a) = i - 1 /\ Len(b) = Len(s) - i /\ k \in 1..Len(a) + Len(b)
              /\ i \in 1..Len(s) /\ Len(s) \in Nat
          BY <1>1, <1>2, <1>3, <3>2
        <5>2. (a \o b)[k] = IF k <= Len(a) THEN a[k] ELSE b[k - Len(a)]
          BY <1>4, <3>2
        <5> QED BY <5>1, <5>2, <3>3, <1>2, <1>3
      <4> QED BY <2>2, <3>1, <4>1 DEF s
    <3>4. CASE k > Len(a)
      <4>1. (a \o b)[k] = s[k + 1] /\ k + 1 \in 1..Len(s)
        <5>1. /\ Len(a) = i - 1 /\ Len(b) = Len(s) - i /\ k \in 1..Len(a) + Len(b)
              /\ i \in 1..Len(s) /\ Len(s) \in Nat
          BY <1>1, <1>2, <1>3, <3>2
        <5>2. (a \o b)[k] = IF k <= Len(a) THEN a[k] ELSE b[k - Len(a)]
          BY <1>4, <3>2
        <5>3. k - Len(a) \in 1..Len(s) - i /\ i + (k - Len(a)) = k + 1
          BY <5>1, <3>4, SMTT(30)
        <5>4. b[k - Len(a)] = s[i + (k - Len(a))]
          BY <5>3, <1>3
        <5>5. ~ (k <= Len(a))
          BY <5>1, <3>4
        <5>6. (a \o b)[k] = b[k - Len(a)]
          BY <5>2, <5>5
        <5>7. k + 1 \in 1..Len(s)
          BY <5>1, <3>4
        <5> QED BY <5>3, <5>4, <5>6, <5>7
      <4> QED BY <2>2, <3>1, <4>1 DEF s
    <3> QED BY <3>2, <3>3, <3>4, <1>1, <1>2
  <2> QED BY <2>1, <2>2
<1>6. w \in [Endpoint -> Seq(RelayPayload)]
  BY <1>1, <1>4
<1> QED BY <1>5, <1>6 DEF Sub, a, b

LEMMA InFlightStable ==
  ASSUME TypeOK, Grows, NEW q \in Endpoint, NEW p \in RelayPayload,
         InFlightOK(p, frames[q], Len(delivered[q]), highestFullySent[q]),
         highestFullySent' \in [Endpoint -> Nat], delivered' \in [Endpoint -> Seq(Message)]
  PROVE  InFlightOK(p, frames'[q], Len(delivered'[q]), highestFullySent'[q])
<1>1. CASE IsAck(p)
  <2>1. p.ackMessageSeq \in Nat
    BY <1>1, AckFacts
  <2>2. delivered[q] \in Seq(Message) /\ delivered'[q] \in Seq(Message)
    BY DEF TypeOK
  <2>3. Len(delivered[q]) \in Nat /\ Len(delivered'[q]) \in Nat
    BY <2>2, LenProperties
  <2>4. p.ackMessageSeq <= Len(delivered[q]) /\ Len(delivered[q]) <= Len(delivered'[q])
    BY <1>1 DEF InFlightOK, Grows
  <2> QED BY <1>1, <2>1, <2>3, <2>4 DEF InFlightOK
<1>2. CASE ~ IsAck(p)
  <2>1. p.messageSeq \in Nat
    BY <1>2, AckFacts DEF Frame
  <2>2. highestFullySent[q] \in Nat /\ highestFullySent'[q] \in Nat
    BY DEF TypeOK
  <2>3. /\ p.seq \in DOMAIN frames[q] /\ p = frames[q][p.seq]
        /\ IsLast(p) => p.messageSeq <= highestFullySent[q]
    BY <1>2 DEF InFlightOK
  <2>4. p.seq \in DOMAIN frames'[q] /\ p = frames'[q][p.seq]
    BY <2>3 DEF Grows
  <2>5. IsLast(p) => p.messageSeq <= highestFullySent'[q]
    BY <2>1, <2>2, <2>3 DEF Grows
  <2> QED BY <1>2, <2>4, <2>5 DEF InFlightOK
<1> QED BY <1>1, <1>2

\* The payloads of a part of the wire stay in order when a step only adds.
LEMMA SubStaysInFlight ==
  ASSUME TypeOK, Grows, \A x \in Endpoint : WireOK(x), NEW w, Sub(w),
         highestFullySent' \in [Endpoint -> Nat], delivered' \in [Endpoint -> Seq(Message)],
         NEW x \in Endpoint, NEW j \in 1..Len(w[x])
  PROVE  InFlightOK(w[x][j], frames'[Peer(x)], Len(delivered'[Peer(x)]),
                    highestFullySent'[Peer(x)])
<1>1. PICK i \in 1..Len(wire[x]) : w[x][j] = wire[x][i]
  BY DEF Sub
<1>2. wire[x] \in Seq(RelayPayload)
  BY DEF TypeOK
<1>3. wire[x][i] \in RelayPayload
  BY <1>2
<1>4. InFlightOK(wire[x][i], frames[Peer(x)], Len(delivered[Peer(x)]), highestFullySent[Peer(x)])
  BY DEF WireOK
<1>5. Peer(x) \in Endpoint
  BY PeerFacts
<1> QED BY <1>1, <1>3, <1>4, <1>5, InFlightStable

\* A step that puts nothing on the wire keeps the wire in order.
LEMMA WireAfterSub ==
  ASSUME TypeOK, Grows, \A x \in Endpoint : WireOK(x), Sub(wire'),
         highestFullySent' \in [Endpoint -> Nat], delivered' \in [Endpoint -> Seq(Message)]
  PROVE  \A x \in Endpoint : WireOK(x)'
BY SubStaysInFlight DEF WireOK

\* And so does a flush, whatever the transport takes of it.
LEMMA WireAfterFlush ==
  ASSUME TypeOK, Grows, \A x \in Endpoint : WireOK(x), NEW e \in Endpoint,
         NEW bs \in Seq(Batch), NEW ack \in Nat, NEW w, Sub(w),
         QueueOK(frames'[e], bs), ack <= Len(delivered'[e]),
         frames' \in [Endpoint -> Seq(Frame)], delivered' \in [Endpoint -> Seq(Message)],
         FlushEffect(e, frames'[e], bs, ack, w)
  PROVE  \A x \in Endpoint : WireOK(x)'
<1> DEFINE q == Peer(e)
           ok(p) == InFlightOK(p, frames'[e], Len(delivered'[e]), highestFullySent'[e])
<1>1. q \in Endpoint /\ Peer(q) = e /\ \A x \in Endpoint : x = e \/ x = q
  BY PeerFacts
<1>2. highestFullySent' \in [Endpoint -> Nat]
  BY DEF FlushEffect, FlushTypes
<1>3. \A x \in Endpoint : \A j \in 1..Len(w[x]) :
        InFlightOK(w[x][j], frames'[Peer(x)], Len(delivered'[Peer(x)]), highestFullySent'[Peer(x)])
  BY <1>2, SubStaysInFlight
<1>4. WireOK(e)'
  <2>1. wire'[e] = w[e]
    BY DEF FlushEffect
  <2> QED BY <1>3, <2>1 DEF WireOK
<1>5. \A j \in 1..Len(w[q]) : ok(w[q][j])
  BY <1>1, <1>3
<1>6. ok(AckOf(ack))
  BY AckFacts DEF InFlightOK
<1>7. ASSUME NEW i \in DOMAIN frames'[e],
             IsLast(frames'[e][i]) => frames'[e][i].messageSeq <= highestFullySent'[e]
      PROVE  ok(frames'[e][i])
  <2>1. frames'[e][i].seq = i
    BY DEF QueueOK
  <2>2. frames'[e][i] \in Frame
    OBVIOUS
  <2>3. ~ IsAck(frames'[e][i])
    BY <2>2, AckFacts
  <2> QED BY <2>1, <2>3, <1>7 DEF InFlightOK
<1>8. \A k \in 1..Len(wire'[q]) :
        FlushedPayload(e, frames'[e], ack, w, highestFullySent'[e], wire'[q][k])
  BY DEF FlushEffect
<1>9. \A k \in 1..Len(wire'[q]) : ok(wire'[q][k])
  <2> HIDE DEF ok
  <2> QED BY <1>5, <1>6, <1>7, <1>8 DEF FlushedPayload
<1>10. WireOK(q)'
  BY <1>1, <1>9 DEF WireOK
<1> QED BY <1>1, <1>4, <1>10

-----------------------------------------------------------------------------
(* Reserving a message *)

\* log2 and bs2 are a queue of n frames and b messages with one more message
\* of c frames behind it.
OneMore(log, bs, n, b, m, c, log2, bs2) ==
  /\ n \in Nat /\ n = Len(log) /\ DOMAIN log = 1..n
  /\ b \in Nat /\ b = Len(bs) /\ DOMAIN bs = 1..b
  /\ \A k \in 1..b : bs[k].lastSeq \in Nat /\ bs[k].message.fragments \in Nat
  /\ c \in Nat \ {0} /\ c = m.fragments
  /\ Len(log2) = n + c /\ DOMAIN log2 = 1..n + c
  /\ \A i \in 1..n : log2[i] = log[i]
  /\ \A j \in 1..c : /\ log2[n + j].seq = n + j
                     /\ log2[n + j].messageSeq = b + 1
                     /\ log2[n + j].fragmentIndex = j - 1
                     /\ log2[n + j].fragmentCount = c
                     /\ log2[n + j].checksum = m.payload
  /\ Len(bs2) = b + 1 /\ DOMAIN bs2 = 1..b + 1
  /\ \A i \in 1..b : bs2[i] = bs[i]
  /\ bs2[b + 1].message = m /\ bs2[b + 1].lastSeq = n + c

LEMMA LongerQueue ==
  ASSUME NEW log, NEW bs, NEW n, NEW b, NEW m, NEW c, NEW log2, NEW bs2,
         QueueOK(log, bs), OneMore(log, bs, n, b, m, c, log2, bs2)
  PROVE  QueueOK(log2, bs2)
<1>1. /\ n \in Nat /\ b \in Nat /\ c \in Nat \ {0}
      /\ \A k \in 0..b : k = 0 \/ k \in 1..b
      /\ \A k \in 1..b : k - 1 \in 0..b /\ k \in 0..b
      /\ \A k \in 1..b + 1 : k \in 1..b \/ k = b + 1
      /\ b + 1 - 1 = b /\ b + 1 \in 1..b + 1 /\ b \in 0..b
  BY DEF OneMore
<1>2. /\ n = Len(log) /\ DOMAIN log = 1..n /\ b = Len(bs) /\ DOMAIN bs = 1..b
      /\ Len(log2) = n + c /\ DOMAIN log2 = 1..n + c
      /\ Len(bs2) = b + 1 /\ DOMAIN bs2 = 1..b + 1
  BY DEF OneMore
<1>3. \A k \in 1..b : bs[k].lastSeq \in Nat /\ bs[k].message.fragments \in Nat
  BY DEF OneMore
<1>4. \A i \in 1..n : log2[i] = log[i]
  BY DEF OneMore
<1>5. \A j \in 1..c : /\ log2[n + j].seq = n + j
                      /\ log2[n + j].messageSeq = b + 1
                      /\ log2[n + j].fragmentIndex = j - 1
                      /\ log2[n + j].fragmentCount = c
                      /\ log2[n + j].checksum = m.payload
  BY DEF OneMore
<1>6. \A k \in 1..b : bs2[k] = bs[k]
  BY DEF OneMore
<1>7. bs2[b + 1].message = m /\ bs2[b + 1].lastSeq = n + c /\ m.fragments = c
  BY DEF OneMore
<1>8. /\ \A k \in 0..b : End(bs2, k) = End(bs, k) /\ End(bs, k) \in Nat
      /\ End(bs2, b) = n
      /\ End(bs2, b + 1) = n + c
  <2>1. \A k \in 0..b : End(bs, k) \in Nat
    BY <1>1, <1>3 DEF End
  <2>2. \A k \in 0..b : End(bs2, k) = End(bs, k)
    BY <1>1, <1>6 DEF End
  <2>3. End(bs, b) = n
    BY <1>2 DEF QueueOK
  <2>4. End(bs2, b) = n
    BY <1>1, <2>2, <2>3
  <2>5. End(bs2, b + 1) = n + c
    BY <1>1, <1>7 DEF End
  <2> QED BY <2>1, <2>2, <2>4, <2>5
<1>10. \A k \in 1..b : bs[k].lastSeq <= n
  BY <1>2 DEF QueueOK
<1>11. ASSUME NEW k \in 1..b
       PROVE  /\ bs2[k].lastSeq = End(bs2, k - 1) + bs2[k].message.fragments
              /\ bs2[k].lastSeq <= n + c
              /\ \A j \in 1..bs2[k].message.fragments :
                   /\ log2[End(bs2, k - 1) + j].messageSeq = k
                   /\ log2[End(bs2, k - 1) + j].fragmentIndex = j - 1
  <2>1. /\ bs[k].lastSeq = End(bs, k - 1) + bs[k].message.fragments
        /\ \A j \in 1..bs[k].message.fragments :
             /\ log[End(bs, k - 1) + j].messageSeq = k
             /\ log[End(bs, k - 1) + j].fragmentIndex = j - 1
    <3>1. k \in DOMAIN bs
      BY <1>2, <1>11
    <3> QED BY <3>1, Zenon DEF QueueOK
  <2>2. bs2[k] = bs[k] /\ End(bs2, k - 1) = End(bs, k - 1) /\ End(bs, k - 1) \in Nat
    BY <1>1, <1>6, <1>8
  <2>3. bs[k].lastSeq \in Nat /\ bs[k].lastSeq <= n /\ bs[k].message.fragments \in Nat
    BY <1>3, <1>10
  <2> DEFINE start == End(bs, k - 1)
             size == bs[k].message.fragments
             last == bs[k].lastSeq
  <2>4. \A j \in 1..size : start + j \in 1..n
    <3>1. last \in Nat /\ last <= n /\ size \in Nat /\ start \in Nat /\ last = start + size
      BY <2>1, <2>2, <2>3
    <3> HIDE DEF start, size, last
    <3> QED BY <3>1, <1>1
  <2>5. \A j \in 1..size : log2[start + j] = log[start + j]
    BY <2>4, <1>4, Zenon
  <2>6. bs2[k].lastSeq <= n + c
    <3>1. last \in Nat /\ last <= n
      BY <2>3
    <3>2. last <= n + c
      <4> HIDE DEF last
      <4> QED BY <3>1, <1>1
    <3> QED BY <2>2, <3>2, Zenon
  <2>7. ASSUME NEW j \in 1..size
        PROVE  log2[start + j].messageSeq = k /\ log2[start + j].fragmentIndex = j - 1
    BY <2>1, <2>5, Zenon
  <2> QED BY <2>1, <2>2, <2>6, <2>7, Zenon
<1>12. /\ bs2[b + 1].lastSeq = End(bs2, b) + bs2[b + 1].message.fragments
       /\ bs2[b + 1].lastSeq <= n + c
       /\ \A j \in 1..bs2[b + 1].message.fragments :
            /\ log2[End(bs2, b) + j].messageSeq = b + 1
            /\ log2[End(bs2, b) + j].fragmentIndex = j - 1
  <2>1. \A j \in 1..c : log2[n + j].messageSeq = b + 1 /\ log2[n + j].fragmentIndex = j - 1
    BY <1>5, Zenon
  <2>2. n + c <= n + c
    BY <1>1
  <2> QED BY <1>7, <1>8, <2>1, <2>2, Zenon
<1>14. ASSUME NEW k \in 1..b + 1, NEW l \in 1..b + 1, k < l
       PROVE  bs2[k].lastSeq < bs2[l].lastSeq
  <2>1. CASE l \in 1..b
    <3>1. k \in 1..b
      BY <1>1, <1>14, <2>1
    <3>2. bs[k].lastSeq < bs[l].lastSeq
      BY <1>2, <1>14, <2>1, <3>1, Zenon DEF QueueOK
    <3> QED BY <1>6, <2>1, <3>1, <3>2, Zenon
  <2>2. CASE l = b + 1
    <3>1. k \in 1..b
      BY <1>1, <1>14, <2>2
    <3>2. bs2[k] = bs[k] /\ bs[k].lastSeq \in Nat /\ bs[k].lastSeq <= n
      BY <1>3, <1>6, <1>10, <3>1, Zenon
    <3>3. bs2[k].lastSeq < n + c
      BY <1>1, <3>2
    <3> QED BY <1>7, <2>2, <3>3, Zenon
  <2> QED BY <2>1, <2>2, <1>1
<1>15. ASSUME NEW i \in 1..n + c
       PROVE  /\ log2[i].seq = i
              /\ log2[i].messageSeq \in 1..b + 1
              /\ i = End(bs2, log2[i].messageSeq - 1) + log2[i].fragmentIndex + 1
              /\ log2[i].fragmentCount = bs2[log2[i].messageSeq].message.fragments
              /\ log2[i].checksum = bs2[log2[i].messageSeq].message.payload
              /\ log2[i].fragmentIndex < log2[i].fragmentCount
  <2>1. CASE i \in 1..n
    <3> DEFINE k == log[i].messageSeq
    <3>1. log2[i] = log[i]
      BY <1>4, <2>1, Zenon
    <3>2. /\ log[i].seq = i /\ k \in 1..b
          /\ i = End(bs, k - 1) + log[i].fragmentIndex + 1
          /\ log[i].fragmentCount = bs[k].message.fragments
          /\ log[i].checksum = bs[k].message.payload
          /\ log[i].fragmentIndex < log[i].fragmentCount
      BY <1>2, <2>1, Zenon DEF QueueOK
    <3>3. bs2[k] = bs[k] /\ End(bs2, k - 1) = End(bs, k - 1)
      BY <1>1, <1>6, <1>8, <3>2, Zenon
    <3>4. k \in 1..b + 1
      BY <1>1, <3>2
    <3> QED BY <3>1, <3>2, <3>3, <3>4, Zenon
  <2>2. CASE i \in n + 1..n + c
    <3>1. PICK j \in 1..c : /\ n + j = i /\ j \in Nat
                            /\ i = n + (j - 1) + 1 /\ j - 1 < c
      <4>1. i - n \in 1..c /\ n + (i - n) = i
        BY <1>1, <2>2
      <4>2. PICK j \in 1..c : n + j = i
        BY <4>1
      <4> QED BY <1>1, <4>2
    <3>2. /\ log2[i].seq = i /\ log2[i].messageSeq = b + 1
          /\ log2[i].fragmentIndex = j - 1 /\ log2[i].fragmentCount = c
          /\ log2[i].checksum = m.payload
      BY <1>5, <3>1
    <3>3. End(bs2, b + 1 - 1) = n
      BY <1>1, <1>8, Zenon
    <3>4. b + 1 \in 1..b + 1 /\ bs2[b + 1].message = m /\ m.fragments = c
      BY <1>1, <1>7, Zenon
    <3> DEFINE f == log2[i]
    <3>5. /\ f.messageSeq = b + 1 /\ f.fragmentIndex = j - 1 /\ f.fragmentCount = m.fragments
          /\ bs2[f.messageSeq].message = m /\ f.seq = i /\ f.checksum = m.payload
          /\ End(bs2, f.messageSeq - 1) = n /\ f.messageSeq \in 1..b + 1
      <4>1. f.messageSeq = b + 1 /\ f.fragmentIndex = j - 1 /\ f.fragmentCount = m.fragments
        BY <3>2, <3>4
      <4>2. f.seq = i /\ f.checksum = m.payload
        BY <3>2
      <4> HIDE DEF f
      <4>3. f.messageSeq - 1 = b
        BY <4>1, <1>1
      <4>4. End(bs2, f.messageSeq - 1) = n
        BY <4>3, <1>8, Zenon
      <4>5. bs2[f.messageSeq].message = m /\ f.messageSeq \in 1..b + 1
        BY <4>1, <3>4, Zenon
      <4> QED BY <4>1, <4>2, <4>4, <4>5, Zenon
    <3>6. i = n + f.fragmentIndex + 1 /\ f.fragmentIndex < f.fragmentCount
      <4> HIDE DEF f
      <4> QED BY <3>1, <3>4, <3>5
    <3> QED BY <3>5, <3>6, Zenon
  <2>3. i \in 1..n \/ i \in n + 1..n + c
    BY <1>1
  <2> QED BY <2>1, <2>2, <2>3, Zenon
<1>16. ASSUME NEW k \in 1..b + 1
       PROVE  /\ bs2[k].lastSeq = End(bs2, k - 1) + bs2[k].message.fragments
              /\ bs2[k].lastSeq <= n + c
              /\ \A j \in 1..bs2[k].message.fragments :
                   /\ log2[End(bs2, k - 1) + j].messageSeq = k
                   /\ log2[End(bs2, k - 1) + j].fragmentIndex = j - 1
  <2>1. CASE k \in 1..b
    BY <1>11, <2>1, Zenon
  <2>2. CASE k = b + 1
    <3>1. k - 1 = b
      BY <1>1, <2>2
    <3> QED BY <1>12, <2>2, <3>1, Zenon
  <2> QED BY <1>1, <2>1, <2>2, Zenon
<1>17. Len(log2) = End(bs2, Len(bs2))
  BY <1>2, <1>8, Zenon
<1> QED BY <1>2, <1>14, <1>15, <1>16, <1>17, Zenon DEF QueueOK

\* What reserveMessage makes of a queue.
WithMessage(log, bs, m, log2, bs2) ==
  /\ log \in Seq(Frame) /\ bs \in Seq(Batch) /\ QueueOK(log, bs) /\ m \in Message
  /\ log2 = log \o Encoded(Len(log) + 1, Len(bs) + 1, m)
  /\ bs2 = Append(bs, [message |-> m, lastSeq |-> Len(log2)])

\* What is true of it.
MessageAdded(log, bs, m, log2, bs2) ==
  /\ log2 \in Seq(Frame) /\ bs2 \in Seq(Batch) /\ QueueOK(log2, bs2)
  /\ Len(log2) = Len(log) + m.fragments
  /\ \A i \in DOMAIN log : i \in DOMAIN log2 /\ log2[i] = log[i]
  /\ Len(bs2) = Len(bs) + 1
  /\ \A i \in DOMAIN bs : bs2[i] = bs[i]

\* The queue with one more message, encoded behind it.
LEMMA ReservedQueue ==
  ASSUME NEW log, NEW bs, NEW m, NEW log2, NEW bs2, WithMessage(log, bs, m, log2, bs2)
  PROVE  MessageAdded(log, bs, m, log2, bs2)
<1> DEFINE enc == Encoded(Len(log) + 1, Len(bs) + 1, m)
           n == Len(log)
           b == Len(bs)
           c == m.fragments
<1>0. log \in Seq(Frame) /\ bs \in Seq(Batch) /\ QueueOK(log, bs) /\ m \in Message
  BY DEF WithMessage
<1> USE <1>0
<1>1. n \in Nat /\ b \in Nat /\ c \in 1..MaxFragments /\ c \in Nat /\ m.payload \in Payload
      /\ DOMAIN log = 1..n /\ DOMAIN bs = 1..b
  BY LimitAssumption DEF Message
<1>2. /\ enc \in Seq(Frame) /\ Len(enc) = c
      /\ \A j \in 1..c : enc[j] = [zcode_type |-> "rpc-frame", seq |-> n + 1 + j - 1,
           messageSeq |-> b + 1, fragmentIndex |-> j - 1,
           fragmentCount |-> c, checksum |-> m.payload]
  <2>1. \A j \in 1..c : [zcode_type |-> "rpc-frame", seq |-> n + 1 + j - 1,
           messageSeq |-> b + 1, fragmentIndex |-> j - 1,
           fragmentCount |-> c, checksum |-> m.payload] \in Frame
    BY <1>1 DEF Frame
  <2>2. enc = [j \in 1..c |-> [zcode_type |-> "rpc-frame", seq |-> n + 1 + j - 1,
           messageSeq |-> b + 1, fragmentIndex |-> j - 1,
           fragmentCount |-> c, checksum |-> m.payload]]
    BY DEF Encoded
  <2> DEFINE R(j) == [zcode_type |-> "rpc-frame", seq |-> n + 1 + j - 1,
           messageSeq |-> b + 1, fragmentIndex |-> j - 1,
           fragmentCount |-> c, checksum |-> m.payload]
  <2>3. c \in Nat /\ enc = [j \in 1..c |-> R(j)] /\ \A j \in 1..c : R(j) \in Frame
    BY <1>1, <2>1, <2>2, Zenon
  <2>4. /\ enc \in Seq(Frame) /\ Len(enc) = c
        /\ \A j \in 1..c : enc[j] = R(j)
    <3> HIDE DEF enc, R, c
    <3> QED BY <2>3
  <2> QED BY <2>4, Zenon
<1> HIDE DEF enc
<1>3. /\ log2 \in Seq(Frame) /\ Len(log2) = n + c
      /\ \A i \in 1..n + c : log2[i] = IF i <= n THEN log[i] ELSE enc[i - n]
  <2>1. enc \in Seq(Frame) /\ Len(enc) = c /\ log2 = log \o enc
    BY <1>2 DEF enc, WithMessage
  <2>2. /\ log \o enc \in Seq(Frame)
        /\ Len(log \o enc) = Len(log) + Len(enc)
        /\ \A i \in 1..Len(log) + Len(enc) :
             (log \o enc)[i] = IF i <= Len(log) THEN log[i] ELSE enc[i - Len(log)]
    BY <2>1, ConcatProperties, Zenon
  <2> QED BY <2>1, <2>2, Zenon
<1>4. [message |-> m, lastSeq |-> Len(log2)] \in Batch
  BY <1>1, <1>3 DEF Batch
<1>5. /\ bs2 \in Seq(Batch) /\ Len(bs2) = b + 1
      /\ \A i \in 1..b : bs2[i] = bs[i]
      /\ bs2[b + 1] = [message |-> m, lastSeq |-> n + c]
  <2>1. bs2 = Append(bs, [message |-> m, lastSeq |-> n + c])
    BY <1>3, Zenon DEF WithMessage
  <2> QED BY <1>1, <1>3, <1>4, <2>1, AppendProperties
<1>6. \A i \in 1..n : log2[i] = log[i]
  BY <1>1, <1>3
<1> HIDE DEF n, b, c
<1>7. ASSUME NEW j \in 1..c
      PROVE  /\ log2[n + j].seq = n + j
             /\ log2[n + j].messageSeq = b + 1
             /\ log2[n + j].fragmentIndex = j - 1
             /\ log2[n + j].fragmentCount = c
             /\ log2[n + j].checksum = m.payload
  <2>0. n \in Nat /\ c \in Nat /\ j \in 1..c
    BY <1>1, <1>7
  <2>1. n + j \in 1..n + c /\ ~ (n + j <= n) /\ n + j - n = j /\ n + 1 + j - 1 = n + j
    BY <2>0
  <2>2. log2[n + j] = enc[j]
    <3>1. \A i \in 1..n + c : ~ (i <= n) => log2[i] = enc[i - n]
      BY <1>3
    <3>2. PICK i \in 1..n + c : n + j = i /\ ~ (i <= n) /\ i - n = j
      BY <2>0, <2>1
    <3>3. log2[i] = enc[i - n]
      BY <3>1, <3>2, Zenon
    <3> QED BY <3>2, <3>3, Zenon
  <2>3. enc[j] = [zcode_type |-> "rpc-frame", seq |-> n + 1 + j - 1,
                  messageSeq |-> b + 1, fragmentIndex |-> j - 1,
                  fragmentCount |-> c, checksum |-> m.payload]
    BY <1>2, Zenon
  <2>4. log2[n + j] = [zcode_type |-> "rpc-frame", seq |-> n + j,
                       messageSeq |-> b + 1, fragmentIndex |-> j - 1,
                       fragmentCount |-> c, checksum |-> m.payload]
    BY <2>1, <2>2, <2>3, Zenon
  <2> QED BY <2>4
<1>8. QueueOK(log2, bs2)
  <2>1. n = Len(log) /\ b = Len(bs) /\ c = m.fragments
    BY DEF n, b, c
  <2>2. c \in Nat \ {0}
    BY <1>1
  <2>3. \A k \in 1..b : bs[k].lastSeq \in Nat /\ bs[k].message.fragments \in Nat
    <3>1. \A k \in 1..b : bs[k] \in Batch
      BY <1>1
    <3> QED BY <3>1, LimitAssumption DEF Batch, Message
  <2>4. DOMAIN log2 = 1..n + c /\ DOMAIN bs2 = 1..b + 1
    BY <1>3, <1>5
  <2>5. bs2[b + 1].message = m /\ bs2[b + 1].lastSeq = n + c
    BY <1>5
  <2>6. OneMore(log, bs, n, b, m, c, log2, bs2)
    BY <1>1, <1>3, <1>5, <1>6, <1>7, <2>1, <2>2, <2>3, <2>4, <2>5, Zenon DEF OneMore
  <2> QED BY <2>6, LongerQueue, Zenon
<1> QED BY <1>1, <1>3, <1>5, <1>6, <1>8, SMTT(30) DEF n, b, c, MessageAdded

-----------------------------------------------------------------------------
(* The facts of the type invariant *)

\* The type invariant, one end at a time.
LEMMA TypeFacts ==
  ASSUME TypeOK, NEW x \in Endpoint
  PROVE  /\ frames[x] \in Seq(Frame) /\ batches[x] \in Seq(Batch)
         /\ head[x] \in Nat \ {0} /\ cursor[x] \in Nat \ {0}
         /\ highestFullySent[x] \in Nat /\ lastAcked[x] \in Nat
         /\ unackedBytes[x] \in Nat /\ saturated[x] \in BOOLEAN /\ pendingAck[x] \in Nat
         /\ expectedSeq[x] \in Nat \ {0} /\ expectedMessage[x] \in Nat \ {0}
         /\ active[x] \in Seq(Frame) /\ settled[x] \in Seq(Frame)
         /\ delivered[x] \in Seq(Message) /\ phase[x] \in Phase
         /\ wire[x] \in Seq(RelayPayload)
BY DEF TypeOK

LEMMA LengthFacts ==
  ASSUME TypeOK, NEW x \in Endpoint
  PROVE  /\ Len(frames[x]) \in Nat /\ Len(batches[x]) \in Nat /\ Len(active[x]) \in Nat
         /\ Len(settled[x]) \in Nat /\ Len(delivered[x]) \in Nat /\ Len(wire[x]) \in Nat
BY TypeFacts, LenProperties

-----------------------------------------------------------------------------
(* The invariant holds initially *)

LEMMA InitIInv ==
  ASSUME Init
  PROVE  IInv
<1>1. /\ \A e \in Endpoint : /\ frames[e] = <<>> /\ batches[e] = <<>> /\ head[e] = 1
                             /\ highestFullySent[e] = 0 /\ lastAcked[e] = 0
                             /\ unackedBytes[e] = 0 /\ saturated[e] = FALSE
                             /\ pendingAck[e] = 0 /\ expectedSeq[e] = 1
                             /\ expectedMessage[e] = 1 /\ active[e] = <<>>
                             /\ settled[e] = <<>> /\ delivered[e] = <<>>
                             /\ phase[e] = Open /\ wire[e] = <<>>
  BY DEF Init
<1>2. TypeOK
  <2>1. Open \in Phase /\ <<>> \in Seq(Frame) /\ <<>> \in Seq(Batch)
        /\ <<>> \in Seq(Message) /\ <<>> \in Seq(RelayPayload)
    BY DEF Phase
  <2> QED BY <2>1 DEF Init, TypeOK
<1>3. \A e \in Endpoint : QueueOK(frames[e], batches[e])
  BY <1>1 DEF QueueOK, End
<1>4. \A e \in Endpoint : SenderOK(e)
  <2>1. \A e \in Endpoint : Peer(e) \in Endpoint
    BY PeerFacts
  <2>2. ASSUME NEW e \in Endpoint
        PROVE  SenderOK(e)
    <3>1. Len(delivered[Peer(e)]) = 0 /\ Len(delivered[e]) = 0
          /\ Len(frames[e]) = 0 /\ Len(batches[e]) = 0
      BY <1>1, <2>1
    <3> QED BY <1>1, <3>1, LimitAssumption DEF SenderOK, End
  <2> QED BY <2>2
<1>5. \A e \in Endpoint : ReceiverOK(e)
  <2>1. \A e \in Endpoint : Peer(e) \in Endpoint
    BY PeerFacts
  <2> QED BY <1>1, <2>1 DEF ReceiverOK, End
<1>6. \A e \in Endpoint : WireOK(e)
  BY <1>1 DEF WireOK
<1>7. OnlyHonestFaults
  BY <1>1 DEF OnlyHonestFaults, Open, PeerFault
<1> QED BY <1>2, <1>3, <1>4, <1>5, <1>6, <1>7 DEF IInv

-----------------------------------------------------------------------------
(* Steps that close an end *)

LEMMA CloseKeeps ==
  ASSUME IInv, NEW e \in Endpoint, NEW reason \in {"degraded", "disposed"},
         Close(e, reason), Sub(wire'), failures' \in Nat
  PROVE  IInv'
<1>1. /\ frames' = frames /\ batches' = batches /\ delivered' = delivered
      /\ highestFullySent' = highestFullySent /\ lastAcked' = lastAcked
      /\ expectedSeq' = expectedSeq /\ expectedMessage' = expectedMessage
  BY DEF Close
<1>2. /\ TypeOK
      /\ phase' = [phase EXCEPT ![e] = reason]
      /\ head' = [head EXCEPT ![e] = Len(frames[e]) + 1]
      /\ cursor' = [cursor EXCEPT ![e] = Len(frames[e]) + 1]
      /\ pendingAck' = [pendingAck EXCEPT ![e] = 0]
      /\ unackedBytes' = [unackedBytes EXCEPT ![e] = 0]
      /\ saturated' = [saturated EXCEPT ![e] = saturated[e] /\ reason = "disposed"]
      /\ active' = [active EXCEPT ![e] = <<>>]
      /\ settled' = [settled EXCEPT ![e] = <<>>]
  BY DEF Close, IInv
<1>3. reason \in Phase /\ reason # Open /\ reason \notin PeerFault
  BY DEF Phase, Open, PeerFault
<1>4. \A x \in Endpoint : Len(frames[x]) \in Nat /\ Len(delivered[x]) \in Nat
  BY <1>2, LengthFacts
<1>5. TypeOK'
  <2>1. Len(frames[e]) + 1 \in Nat \ {0}
    BY <1>4
  <2>2. <<>> \in Seq(Frame)
    OBVIOUS
  <2>3. wire' \in [Endpoint -> Seq(RelayPayload)]
    BY DEF Sub
  <2> QED BY <1>1, <1>2, <1>3, <2>1, <2>2, <2>3 DEF TypeOK
<1>6. /\ phase'[e] = reason /\ pendingAck'[e] = 0
      /\ \A x \in Endpoint : x # e =>
           /\ phase'[x] = phase[x] /\ head'[x] = head[x] /\ pendingAck'[x] = pendingAck[x]
           /\ unackedBytes'[x] = unackedBytes[x] /\ saturated'[x] = saturated[x]
           /\ active'[x] = active[x] /\ settled'[x] = settled[x]
  BY <1>2 DEF TypeOK
<1>7. \A x \in Endpoint : QueueOK(frames[x], batches[x])'
  BY <1>1 DEF IInv
<1>8. \A x \in Endpoint : SenderOK(x)'
  <2> TAKE x \in Endpoint
  <2>1. SenderOK(x)
    BY DEF IInv
  <2>2. CASE x = e
    BY <1>1, <1>3, <1>4, <1>6, <2>1, <2>2 DEF SenderOK, IsOpen
  <2>3. CASE x # e
    BY <1>1, <1>6, <2>1, <2>3 DEF SenderOK, IsOpen
  <2> QED BY <2>2, <2>3
<1>9. \A x \in Endpoint : ReceiverOK(x)'
  <2> TAKE x \in Endpoint
  <2>1. ReceiverOK(x)
    BY DEF IInv
  <2>2. CASE x = e
    BY <1>1, <1>3, <1>6, <2>1, <2>2 DEF ReceiverOK, IsOpen
  <2>3. CASE x # e
    BY <1>1, <1>6, <2>1, <2>3 DEF ReceiverOK, IsOpen
  <2> QED BY <2>2, <2>3
<1>10. Grows
  BY <1>1, <1>2, <1>4, SMTT(30) DEF Grows, TypeOK
<1>11. \A x \in Endpoint : WireOK(x)'
  BY <1>1, <1>2, <1>10, WireAfterSub DEF IInv, TypeOK
<1>12. OnlyHonestFaults'
  BY <1>3, <1>6 DEF IInv, OnlyHonestFaults
<1> QED BY <1>5, <1>7, <1>8, <1>9, <1>11, <1>12 DEF IInv

-----------------------------------------------------------------------------
(* Steps that only flush *)

LEMMA SomeFlushHasEffect ==
  ASSUME TypeOK, NEW e \in Endpoint, NEW log \in Seq(Frame), NEW bs \in Seq(Batch),
         QueueOK(log, bs), NEW c \in Nat \ {0}, NEW ack \in Nat, NEW w, Sub(w),
         highestFullySent[e] <= Len(bs), SomeFlush(e, log, c, ack, w)
  PROVE  FlushEffect(e, log, bs, ack, w)
<1>1. PICK ackTaken \in BOOLEAN, n \in 0..WireCapacity : Flush(e, log, c, ack, w, ackTaken, n)
  BY DEF SomeFlush
<1>2. n \in Nat
  BY BoundAssumption
<1>3. FlushTypes /\ w \in [Endpoint -> Seq(RelayPayload)]
  BY DEF TypeOK, FlushTypes, Sub
<1> QED BY <1>1, <1>2, <1>3, FlushHasEffect

LEMMA EffectKeeps ==
  ASSUME IInv, NEW e \in Endpoint, NEW ack \in Nat, ack <= Len(delivered[e]),
         NEW w, Sub(w), FlushEffect(e, frames[e], batches[e], ack, w),
         UNCHANGED <<queueVars, ackVars, assemblerVars, delivered, phase>>, failures' \in Nat
  PROVE  IInv'
<1>1. /\ frames' = frames /\ batches' = batches /\ head' = head
      /\ lastAcked' = lastAcked /\ unackedBytes' = unackedBytes /\ saturated' = saturated
      /\ expectedSeq' = expectedSeq /\ expectedMessage' = expectedMessage
      /\ active' = active /\ settled' = settled
      /\ delivered' = delivered /\ phase' = phase
  BY DEF queueVars, ackVars, assemblerVars
<1>2. /\ TypeOK /\ OnlyHonestFaults
      /\ \A x \in Endpoint : QueueOK(frames[x], batches[x])
      /\ \A x \in Endpoint : SenderOK(x)
      /\ \A x \in Endpoint : ReceiverOK(x)
      /\ \A x \in Endpoint : WireOK(x)
  BY DEF IInv
<1>3. TypeOK'
  <2>1. wire' \in [Endpoint -> Seq(RelayPayload)] /\ FlushTypes'
    BY DEF FlushEffect
  <2> QED BY <1>1, <1>2, <2>1 DEF TypeOK, FlushTypes
<1>4. /\ pendingAck'[e] \in {0, ack}
      /\ pendingAck'[Peer(e)] = pendingAck[Peer(e)]
      /\ highestFullySent'[e] >= highestFullySent[e]
      /\ highestFullySent'[e] <= Len(batches[e])
      /\ highestFullySent'[Peer(e)] = highestFullySent[Peer(e)]
  BY DEF FlushEffect
<1>5. /\ Peer(e) \in Endpoint /\ Peer(Peer(e)) = e
      /\ \A x \in Endpoint : x = e \/ x = Peer(e)
  BY PeerFacts
<1>6. \A x \in Endpoint : /\ highestFullySent[x] \in Nat /\ highestFullySent'[x] \in Nat
                          /\ Len(delivered[x]) \in Nat /\ Len(batches[x]) \in Nat
                          /\ highestFullySent[x] <= highestFullySent'[x]
                          /\ highestFullySent'[x] <= Len(batches[x])
                          /\ pendingAck'[x] <= Len(delivered[x])
  <2>1. \A x \in Endpoint : highestFullySent[x] \in Nat /\ highestFullySent'[x] \in Nat
    BY <1>2, <1>3 DEF TypeOK
  <2>2. \A x \in Endpoint : Len(delivered[x]) \in Nat /\ Len(batches[x]) \in Nat
    BY <1>2, LengthFacts
  <2>3. \A x \in Endpoint : highestFullySent[x] <= Len(batches[x])
                            /\ pendingAck[x] <= Len(delivered[x])
    BY <1>2 DEF SenderOK
  <2>4. ASSUME NEW x \in Endpoint, x = e
        PROVE  /\ highestFullySent[x] <= highestFullySent'[x]
               /\ highestFullySent'[x] <= Len(batches[x])
               /\ pendingAck'[x] <= Len(delivered[x])
    BY <1>4, <2>1, <2>2, <2>4
  <2>5. ASSUME NEW x \in Endpoint, x = Peer(e)
        PROVE  /\ highestFullySent[x] <= highestFullySent'[x]
               /\ highestFullySent'[x] <= Len(batches[x])
               /\ pendingAck'[x] <= Len(delivered[x])
    BY <1>4, <2>1, <2>2, <2>3, <2>5
  <2> QED BY <1>5, <2>1, <2>2, <2>4, <2>5
<1>7. \A x \in Endpoint : SenderOK(x)'
  <2> TAKE x \in Endpoint
  <2>1. SenderOK(x) /\ Peer(x) \in Endpoint
    BY <1>2, PeerFacts
  <2>2. Len(delivered[Peer(x)]) <= highestFullySent'[x]
    BY <1>6, <2>1 DEF SenderOK
  <2> QED BY <1>1, <1>6, <2>1, <2>2 DEF SenderOK, IsOpen
<1>8. \A x \in Endpoint : ReceiverOK(x)'
  BY <1>1, <1>2 DEF ReceiverOK, IsOpen
<1>9. Grows
  BY <1>1, <1>6 DEF Grows
<1>10. \A x \in Endpoint : WireOK(x)'
  <2>1. frames' \in [Endpoint -> Seq(Frame)] /\ delivered' \in [Endpoint -> Seq(Message)]
        /\ batches[e] \in Seq(Batch)
    BY <1>1, <1>2 DEF TypeOK
  <2>2. /\ QueueOK(frames'[e], batches[e]) /\ ack <= Len(delivered'[e])
        /\ FlushEffect(e, frames'[e], batches[e], ack, w)
    BY <1>1, <1>2
  <2> QED BY <1>2, <1>9, <2>1, <2>2, WireAfterFlush
<1>11. (\A x \in Endpoint : QueueOK(frames[x], batches[x]))' /\ OnlyHonestFaults'
  BY <1>1, <1>2 DEF OnlyHonestFaults
<1> QED BY <1>3, <1>7, <1>8, <1>10, <1>11 DEF IInv

LEMMA FlushKeeps ==
  ASSUME IInv, NEW e \in Endpoint, NEW c \in Nat \ {0}, NEW ack \in Nat,
         ack <= Len(delivered[e]), NEW w, Sub(w), SomeFlush(e, frames[e], c, ack, w),
         UNCHANGED <<queueVars, ackVars, assemblerVars, delivered, phase>>, failures' \in Nat
  PROVE  IInv'
<1>1. /\ TypeOK /\ QueueOK(frames[e], batches[e]) /\ highestFullySent[e] <= Len(batches[e])
      /\ frames[e] \in Seq(Frame) /\ batches[e] \in Seq(Batch)
  BY TypeFacts DEF IInv, SenderOK
<1>2. FlushEffect(e, frames[e], batches[e], ack, w)
  BY <1>1, SomeFlushHasEffect
<1> QED BY <1>2, EffectKeeps

\* Steps that only take payloads off the wire.
LEMMA WireOnlyKeeps ==
  ASSUME IInv, Sub(wire'), failures' \in Nat,
         UNCHANGED <<queueVars, ackVars, assemblerVars, cursor, highestFullySent,
                     pendingAck, delivered, phase>>
  PROVE  IInv'
<1>1. /\ frames' = frames /\ batches' = batches /\ head' = head
      /\ lastAcked' = lastAcked /\ unackedBytes' = unackedBytes /\ saturated' = saturated
      /\ expectedSeq' = expectedSeq /\ expectedMessage' = expectedMessage
      /\ active' = active /\ settled' = settled
      /\ delivered' = delivered /\ phase' = phase /\ pendingAck' = pendingAck
      /\ cursor' = cursor /\ highestFullySent' = highestFullySent
  BY DEF queueVars, ackVars, assemblerVars
<1>2. TypeOK /\ TypeOK'
  BY <1>1 DEF IInv, TypeOK, Sub
<1>3. Grows
  BY <1>1, <1>2, LengthFacts DEF Grows, TypeOK
<1>4. \A x \in Endpoint : WireOK(x)'
  BY <1>2, <1>3, WireAfterSub DEF IInv, TypeOK
<1>5. /\ \A x \in Endpoint : SenderOK(x)'
      /\ \A x \in Endpoint : ReceiverOK(x)'
      /\ \A x \in Endpoint : QueueOK(frames[x], batches[x])'
      /\ OnlyHonestFaults'
  BY <1>1 DEF IInv, SenderOK, ReceiverOK, OnlyHonestFaults, IsOpen
<1> QED BY <1>2, <1>4, <1>5 DEF IInv

-----------------------------------------------------------------------------
(* Acknowledgements *)

\* An ack in flight never runs ahead of what its receiver has fully sent.
LEMMA HonestAck ==
  ASSUME IInv, NEW e \in Endpoint, wire[e] # <<>>, IsAck(Head(wire[e]))
  PROVE  LET ack == Head(wire[e]).ackMessageSeq
         IN ack \in Nat /\ ack <= Len(delivered[Peer(e)]) /\ ack <= highestFullySent[e]
            /\ ack <= Len(batches[e])
<1>1. Head(wire[e]) = wire[e][1] /\ 1 \in 1..Len(wire[e]) /\ wire[e][1] \in RelayPayload
  BY TailIsSub DEF IInv
<1>2. wire[e][1].ackMessageSeq \in Nat
  BY <1>1, AckFacts
<1>3. wire[e][1].ackMessageSeq <= Len(delivered[Peer(e)])
  BY <1>1 DEF IInv, WireOK, InFlightOK
<1>4. /\ Len(delivered[Peer(e)]) <= highestFullySent[e]
      /\ highestFullySent[e] <= Len(batches[e])
  BY DEF IInv, SenderOK
<1>5. /\ Len(delivered[Peer(e)]) \in Nat /\ highestFullySent[e] \in Nat
      /\ Len(batches[e]) \in Nat
  BY PeerFacts, LengthFacts, TypeFacts DEF IInv
<1> QED BY <1>1, <1>2, <1>3, <1>4, <1>5

\* What the release of every batch up to ack does to the sender's accounts.
LEMMA ReleaseFacts ==
  ASSUME IInv, NEW e \in Endpoint, IsOpen(e), NEW ack \in Nat, ack <= Len(batches[e]),
         ack > lastAcked[e]
  PROVE  /\ HeadAfter(e, ack) = End(batches[e], ack) + 1
         /\ HeadAfter(e, ack) \in Nat \ {0}
         /\ BytesAfter(e, ack) = Len(frames[e]) + 1 - HeadAfter(e, ack)
         /\ BytesAfter(e, ack) \in Nat
         /\ BytesAfter(e, ack) <= unackedBytes[e]
<1> DEFINE last == lastAcked[e]
           n == Len(frames[e])
           b == Len(batches[e])
           E(k) == End(batches[e], k)
<1>1. /\ n \in Nat /\ b \in Nat /\ \A k \in 0..b : E(k) \in Nat /\ E(k) <= n
      /\ \A k, l \in 0..b : k <= l => E(k) <= E(l)
  BY EndFacts, TypeFacts DEF IInv
<1>2. /\ last \in Nat /\ head[e] = E(last) + 1 /\ unackedBytes[e] = n + 1 - head[e]
  BY TypeFacts DEF IInv, SenderOK
<1>3. batches[e][ack].lastSeq = E(ack)
  <2>1. ack # 0
    BY <1>2
  <2> QED BY <2>1 DEF End
<1>4. last \in 0..b /\ ack \in 0..b /\ last <= ack
  BY <1>1, <1>2
<1> HIDE DEF last, n, b, E
<1>5. E(last) <= E(ack) /\ E(ack) <= n /\ E(last) \in Nat /\ E(ack) \in Nat
  BY <1>1, <1>4
<1>6. HeadAfter(e, ack) = E(ack) + 1
  BY <1>2, <1>3, <1>5 DEF HeadAfter, LargerOf
<1>7. BytesAfter(e, ack) = n + 1 - (E(ack) + 1)
  BY <1>1, <1>2, <1>5, <1>6, SMTT(30) DEF BytesAfter, LargerOf
<1>8. n + 1 - (E(ack) + 1) \in Nat /\ n + 1 - (E(ack) + 1) <= unackedBytes[e]
  BY <1>1, <1>2, <1>5, SMTT(30)
<1> QED BY <1>5, <1>6, <1>7, <1>8 DEF n, E

LEMMA ReleaseKeeps ==
  ASSUME IInv, NEW e \in Endpoint, IsOpen(e), NEW ack \in Nat, ack > lastAcked[e],
         ack <= Len(batches[e]), ack <= Len(delivered[Peer(e)]),
         Released(e, ack), Sub(wire'), failures' \in Nat
  PROVE  IInv'
<1>1. /\ frames' = frames /\ batches' = batches
      /\ expectedSeq' = expectedSeq /\ expectedMessage' = expectedMessage
      /\ active' = active /\ settled' = settled
      /\ delivered' = delivered /\ phase' = phase /\ pendingAck' = pendingAck
      /\ highestFullySent' = highestFullySent
  BY DEF Released, assemblerVars
<1>2. /\ head' = [head EXCEPT ![e] = HeadAfter(e, ack)]
      /\ cursor' = [cursor EXCEPT ![e] = LargerOf(@, HeadAfter(e, ack))]
      /\ unackedBytes' = [unackedBytes EXCEPT ![e] = BytesAfter(e, ack)]
      /\ lastAcked' = [lastAcked EXCEPT ![e] = ack]
      /\ saturated' = [saturated EXCEPT ![e] = StillSaturated(e, BytesAfter(e, ack))]
  BY DEF Released
<1>3. /\ HeadAfter(e, ack) = End(batches[e], ack) + 1
      /\ HeadAfter(e, ack) \in Nat \ {0}
      /\ BytesAfter(e, ack) = Len(frames[e]) + 1 - HeadAfter(e, ack)
      /\ BytesAfter(e, ack) \in Nat
      /\ BytesAfter(e, ack) <= unackedBytes[e]
  BY ReleaseFacts
<1> DEFINE h == HeadAfter(e, ack)
           y == BytesAfter(e, ack)
<1> HIDE DEF h, y
<1>4. TypeOK
  BY DEF IInv
<1>5. /\ head'[e] = h /\ unackedBytes'[e] = y /\ lastAcked'[e] = ack
      /\ saturated'[e] = StillSaturated(e, y)
      /\ \A x \in Endpoint : x # e =>
           /\ head'[x] = head[x] /\ unackedBytes'[x] = unackedBytes[x]
           /\ lastAcked'[x] = lastAcked[x] /\ saturated'[x] = saturated[x]
  BY <1>2, <1>4 DEF TypeOK, h, y
<1>6. TypeOK'
  <2>1. LargerOf(cursor[e], HeadAfter(e, ack)) \in Nat \ {0}
    BY <1>3, <1>4, TypeFacts DEF LargerOf
  <2>2. StillSaturated(e, BytesAfter(e, ack)) \in BOOLEAN
    BY <1>4, TypeFacts DEF StillSaturated
  <2>3. wire' \in [Endpoint -> Seq(RelayPayload)]
    BY DEF Sub
  <2> QED BY <1>1, <1>2, <1>3, <1>4, <2>1, <2>2, <2>3 DEF TypeOK
<1>7. \A x \in Endpoint : SenderOK(x)'
  <2> TAKE x \in Endpoint
  <2>1. SenderOK(x)
    BY DEF IInv
  <2>2. CASE x # e
    BY <1>1, <1>5, <2>1, <2>2 DEF SenderOK, IsOpen
  <2>3. CASE x = e
    <3>1. h = End(batches[e], ack) + 1 /\ y = Len(frames[e]) + 1 - h
          /\ y \in Nat /\ y <= unackedBytes[e]
      BY <1>3 DEF h, y
    <3>2. /\ unackedBytes[e] \in Nat /\ unackedBytes[e] <= ReplayBufferMax
          /\ unackedBytes[e] > HighWaterMark => saturated[e]
      BY <1>4, <2>1, <2>3, TypeFacts DEF SenderOK
    <3>3. /\ y <= ReplayBufferMax
          /\ y > HighWaterMark => StillSaturated(e, y)
          /\ StillSaturated(e, y) => y > LowWaterMark
      BY <3>1, <3>2, LimitAssumption, SMTT(30) DEF StillSaturated
    <3> QED BY <1>1, <1>5, <2>1, <2>3, <3>1, <3>3 DEF SenderOK, IsOpen
  <2> QED BY <2>2, <2>3
<1>8. /\ \A x \in Endpoint : ReceiverOK(x)'
      /\ \A x \in Endpoint : QueueOK(frames[x], batches[x])'
      /\ OnlyHonestFaults'
  BY <1>1 DEF IInv, ReceiverOK, OnlyHonestFaults, IsOpen
<1>9. Grows
  BY <1>1, <1>4, LengthFacts DEF Grows, TypeOK
<1>10. \A x \in Endpoint : WireOK(x)'
  BY <1>1, <1>4, <1>9, WireAfterSub DEF IInv, TypeOK
<1> QED BY <1>6, <1>7, <1>8, <1>10 DEF IInv

-----------------------------------------------------------------------------
(* Frames *)

\* A frame in flight is the one its seq names in the peer's log, and its
\* last frame is in flight only once its message counts as fully sent.
LEMMA FrameInFlight ==
  ASSUME IInv, NEW e \in Endpoint, wire[e] # <<>>, ~ IsAck(Head(wire[e]))
  PROVE  LET f == Head(wire[e])
             log == frames[Peer(e)]
         IN /\ f \in Frame /\ f.seq \in DOMAIN log /\ f = log[f.seq]
            /\ IsLast(f) => f.messageSeq <= highestFullySent[Peer(e)]
<1>1. Head(wire[e]) = wire[e][1] /\ 1 \in 1..Len(wire[e]) /\ wire[e][1] \in RelayPayload
  BY TailIsSub DEF IInv
<1>2. wire[e][1] \in Frame
  BY <1>1, AckFacts
<1>3. InFlightOK(wire[e][1], frames[Peer(e)], Len(delivered[Peer(e)]), highestFullySent[Peer(e)])
  BY <1>1 DEF IInv, WireOK
<1> QED BY <1>1, <1>2, <1>3 DEF InFlightOK

\* The frames of the active assembly are in the peer's log, behind the
\* messages delivered so far.
LEMMA AssemblyInLog ==
  ASSUME IInv, NEW e \in Endpoint, IsOpen(e), NEW j \in 1..Len(active[e])
  PROVE  End(batches[Peer(e)], Len(delivered[e])) + j \in DOMAIN frames[Peer(e)]
<1> DEFINE log == frames[Peer(e)]
           bs == batches[Peer(e)]
           la == Len(active[e])
           start == End(bs, Len(delivered[e]))
<1>1. /\ Peer(e) \in Endpoint /\ TypeOK /\ QueueOK(log, bs) /\ ReceiverOK(e)
  BY PeerFacts DEF IInv
<1>2. /\ log \in Seq(Frame) /\ bs \in Seq(Batch) /\ active[e] \in Seq(Frame) /\ la \in Nat
  BY <1>1, TypeFacts, LengthFacts
<1> DEFINE done == Len(delivered[e])
           size == bs[done + 1].message.fragments
           last == bs[done + 1].lastSeq
           n == Len(log)
<1>3. /\ done < Len(bs) /\ la < size /\ done \in Nat /\ Len(bs) \in Nat /\ n \in Nat
  <2>1. active[e] # <<>>
    BY <1>2
  <2> QED BY <1>1, <1>2, <2>1, LengthFacts DEF ReceiverOK
<1>4. done \in 0..Len(bs) /\ done + 1 \in DOMAIN bs /\ done + 1 - 1 = done
  BY <1>2, <1>3
<1>5. start \in Nat /\ DOMAIN log = 1..n
  BY <1>1, <1>2, <1>4, EndFacts
<1>6. last = start + size /\ last <= n
  <2> DEFINE k == done + 1
  <2>1. bs[k].lastSeq = End(bs, k - 1) + bs[k].message.fragments /\ bs[k].lastSeq <= n
    <3>1. k \in DOMAIN bs
      BY <1>4
    <3> HIDE DEF k, log, bs
    <3> QED BY <1>1, <3>1, Zenon DEF QueueOK
  <2> QED BY <1>4, <2>1
<1>7. size \in Nat
  <2>1. bs[done + 1] \in Batch
    BY <1>2, <1>4
  <2> QED BY <2>1, LimitAssumption DEF Batch, Message
<1>8. start + j \in 1..n
  <2> HIDE DEF start, size, last, n, la
  <2>1. j \in 1..la
    BY DEF la
  <2> QED BY <1>2, <1>3, <1>5, <1>6, <1>7, <2>1
<1> QED BY <1>5, <1>8, Zenon

\* Whatever the assembler remembers is in the peer's log at its own seq.
LEMMA RememberedInLog ==
  ASSUME IInv, NEW e \in Endpoint, IsOpen(e), NEW i \in DOMAIN Remembered(e)
  PROVE  Remembered(e)[i] = frames[Peer(e)][Remembered(e)[i].seq]
<1> DEFINE log == frames[Peer(e)]
           bs == batches[Peer(e)]
           a == active[e]
           s == settled[e]
           start == End(bs, Len(delivered[e]))
<1>1. /\ Peer(e) \in Endpoint /\ TypeOK /\ QueueOK(log, bs)
      /\ ReceiverOK(e)
  BY PeerFacts DEF IInv
<1>2. /\ a \in Seq(Frame) /\ s \in Seq(Frame) /\ log \in Seq(Frame) /\ bs \in Seq(Batch)
      /\ Len(a) \in Nat /\ Len(s) \in Nat
  BY <1>1, TypeFacts, LengthFacts
<1>3. /\ \A j \in 1..Len(a) : a[j] = log[start + j]
      /\ \A j \in 1..Len(s) : s[j] = log[s[j].seq]
  BY <1>1 DEF ReceiverOK
<1>4. \A j \in 1..Len(a) : a[j] = log[a[j].seq]
  <2> TAKE j \in 1..Len(a)
  <2>7. start + j \in DOMAIN log
    BY AssemblyInLog
  <2>8. log[start + j].seq = start + j
    BY <1>1, <2>7, Zenon DEF QueueOK
  <2> QED BY <1>3, <2>8
<1>5. /\ Len(a \o s) = Len(a) + Len(s) /\ DOMAIN (a \o s) = 1..Len(a) + Len(s)
      /\ \A k \in 1..Len(a) + Len(s) :
           (a \o s)[k] = IF k <= Len(a) THEN a[k] ELSE s[k - Len(a)]
  <2> HIDE DEF a, s
  <2>1. /\ a \o s \in Seq(Frame) /\ Len(a \o s) = Len(a) + Len(s)
        /\ \A k \in 1..Len(a) + Len(s) :
             (a \o s)[k] = IF k <= Len(a) THEN a[k] ELSE s[k - Len(a)]
    BY <1>2, ConcatProperties, Zenon
  <2> QED BY <2>1, LenProperties
<1>6. \E x \in Frame : (a \o s)[i] = x /\ x = log[x.seq]
  <2>1. i \in 1..Len(a) + Len(s)
    BY <1>5 DEF Remembered
  <2>2. CASE i <= Len(a)
    <3>1. i \in 1..Len(a)
      BY <1>2, <2>1, <2>2
    <3>2. (a \o s)[i] = a[i]
      BY <1>5, <2>1, <2>2
    <3> QED BY <1>2, <1>4, <3>1, <3>2
  <2>3. CASE ~ (i <= Len(a))
    <3>1. i - Len(a) \in 1..Len(s)
      <4> DEFINE la == Len(a)
                 ls == Len(s)
      <4>1. la \in Nat /\ ls \in Nat /\ i \in 1..la + ls /\ ~ (i <= la)
        BY <1>2, <2>1, <2>3
      <4>2. i - la \in 1..ls
        <5> HIDE DEF la, ls
        <5> QED BY <4>1
      <4> QED BY <4>2
    <3>2. (a \o s)[i] = s[i - Len(a)]
      BY <1>5, <2>1, <2>3
    <3> QED BY <1>2, <1>3, <3>1, <3>2
  <2> QED BY <2>2, <2>3
<1> QED BY <1>6 DEF Remembered

\* The frame the assembler is waiting for is the next one of the message it
\* is assembling, with the same fragment count and the same content.
NextFragment(e, f) ==
  LET bs == batches[Peer(e)]
      done == Len(delivered[e])
  IN /\ f.seq = End(bs, done) + Len(active[e]) + 1
     /\ done + 1 \in DOMAIN bs
     /\ f.messageSeq = done + 1
     /\ f.fragmentIndex = Len(active[e])
     /\ f.fragmentCount = bs[done + 1].message.fragments
     /\ f.checksum = bs[done + 1].message.payload
     /\ \A j \in DOMAIN active[e] : /\ active[e][j].fragmentCount = f.fragmentCount
                                   /\ active[e][j].checksum = f.checksum
     /\ \A j \in 1..Len(active[e]) + 1 : End(bs, done) + j \in DOMAIN frames[Peer(e)]

LEMMA ExpectedFrame ==
  ASSUME IInv, NEW e \in Endpoint, IsOpen(e), wire[e] # <<>>, ~ IsAck(Head(wire[e])),
         Head(wire[e]).seq = expectedSeq[e]
  PROVE  NextFragment(e, Head(wire[e]))
<1> DEFINE f == Head(wire[e])
           log == frames[Peer(e)]
           bs == batches[Peer(e)]
           a == active[e]
           la == Len(a)
           done == Len(delivered[e])
           start == End(bs, done)
           size == bs[done + 1].message.fragments
<1>1. /\ Peer(e) \in Endpoint /\ TypeOK /\ QueueOK(log, bs) /\ ReceiverOK(e)
      /\ f \in Frame /\ f.seq \in DOMAIN log /\ f = log[f.seq]
  BY PeerFacts, FrameInFlight DEF IInv
<1>2. /\ log \in Seq(Frame) /\ bs \in Seq(Batch) /\ a \in Seq(Frame)
      /\ la \in Nat /\ done \in Nat /\ Len(bs) \in Nat /\ Len(log) \in Nat
  BY <1>1, TypeFacts, LengthFacts
<1>3. /\ f.seq = start + la + 1
      /\ done <= Len(bs)
      /\ a # <<>> => done < Len(bs) /\ la < size
      /\ \A j \in 1..la : a[j] = log[start + j]
  BY <1>1 DEF ReceiverOK
<1>4. /\ DOMAIN bs = 1..Len(bs) /\ DOMAIN log = 1..Len(log)
      /\ \A k \in 0..Len(bs) : End(bs, k) \in Nat
      /\ End(bs, Len(bs)) = Len(log)
  BY <1>1, <1>2, EndFacts
<1>5. start \in Nat
  BY <1>2, <1>3, <1>4
<1>6. done < Len(bs)
  <2>1. CASE a # <<>>
    BY <1>3, <2>1
  <2>2. CASE a = <<>>
    <3>1. la = 0
      BY <2>2
    <3>2. start + la + 1 \in 1..Len(log)
      BY <1>1, <1>3, <1>4
    <3>3. start # Len(log)
      <4> HIDE DEF start, la, log
      <4> QED BY <1>2, <1>5, <3>1, <3>2
    <3>4. done # Len(bs)
      BY <1>4, <3>3
    <3> QED BY <1>2, <1>3, <3>4
  <2> QED BY <2>1, <2>2
<1>7. done + 1 \in DOMAIN bs /\ done + 1 - 1 = done
  BY <1>2, <1>4, <1>6
<1>8. size \in Nat \ {0}
  <2>1. bs[done + 1] \in Batch
    BY <1>2, <1>7
  <2> QED BY <2>1, LimitAssumption DEF Batch, Message
<1>9. la < size
  <2>1. CASE a # <<>>
    BY <1>3, <2>1
  <2>2. CASE a = <<>>
    <3>1. la = 0
      BY <2>2
    <3> QED BY <1>8, <3>1
  <2> QED BY <2>1, <2>2
<1>10. /\ bs[done + 1].lastSeq = start + size
       /\ bs[done + 1].lastSeq <= Len(log)
       /\ \A j \in 1..size : /\ log[start + j].messageSeq = done + 1
                            /\ log[start + j].fragmentIndex = j - 1
  <2> DEFINE k == done + 1
  <2>1. /\ bs[k].lastSeq = End(bs, k - 1) + bs[k].message.fragments
        /\ bs[k].lastSeq <= Len(log)
        /\ \A j \in 1..bs[k].message.fragments :
             /\ log[End(bs, k - 1) + j].messageSeq = k
             /\ log[End(bs, k - 1) + j].fragmentIndex = j - 1
    <3>1. QueueOK(log, bs) /\ k \in DOMAIN bs
      BY <1>1, <1>7
    <3> HIDE DEF log, bs, k
    <3> QED BY <3>1, Zenon DEF QueueOK
  <2>2. End(bs, k - 1) = start
    BY <1>7
  <2> QED BY <2>1, <2>2, Zenon
<1>11. \A j \in 1..size : start + j \in DOMAIN log
  <2> DEFINE n == Len(log)
             last == bs[done + 1].lastSeq
  <2>1. start \in Nat /\ size \in Nat /\ n \in Nat /\ last = start + size /\ last <= n
    BY <1>2, <1>5, <1>8, <1>10
  <2>2. \A j \in 1..size : start + j \in 1..n
    <3> HIDE DEF start, size, n, last
    <3> QED BY <2>1
  <2> QED BY <1>4, <2>2
<1>12. ASSUME NEW j \in 1..size
       PROVE  /\ log[start + j].messageSeq = done + 1 /\ log[start + j].fragmentIndex = j - 1
              /\ log[start + j].fragmentCount = size
              /\ log[start + j].checksum = bs[done + 1].message.payload
  <2>1. /\ log[start + j].fragmentCount = bs[log[start + j].messageSeq].message.fragments
        /\ log[start + j].checksum = bs[log[start + j].messageSeq].message.payload
    BY <1>1, <1>11, Zenon DEF QueueOK
  <2>2. log[start + j].messageSeq = done + 1 /\ log[start + j].fragmentIndex = j - 1
    BY <1>10, Zenon
  <2> QED BY <2>1, <2>2, Zenon
<1>13. la + 1 \in 1..size /\ start + (la + 1) = start + la + 1 /\ (la + 1) - 1 = la
       /\ \A j \in 1..la : j \in 1..size
  <2> HIDE DEF start, la, size
  <2> QED BY <1>2, <1>5, <1>8, <1>9
<1>14. f = log[start + (la + 1)]
  BY <1>1, <1>3, <1>13
<1>15. /\ f.messageSeq = done + 1 /\ f.fragmentIndex = la /\ f.fragmentCount = size
       /\ f.checksum = bs[done + 1].message.payload
  <2> HIDE DEF f, log, bs, start, la, size, done
  <2> QED BY <1>12, <1>13, <1>14
<1>16. \A j \in DOMAIN a : a[j].fragmentCount = f.fragmentCount /\ a[j].checksum = f.checksum
  <2>1. DOMAIN a = 1..la
    BY <1>2
  <2> HIDE DEF f, log, bs, start, la, size, done, a
  <2> QED BY <1>3, <1>12, <1>13, <1>15, <2>1
<1>17. \A j \in 1..la + 1 : start + j \in DOMAIN log
  <2> HIDE DEF start, la, size, log
  <2>1. \A j \in 1..la + 1 : j \in 1..size
    BY <1>2, <1>8, <1>9
  <2> QED BY <1>11, <2>1, Zenon
<1> QED BY <1>3, <1>7, <1>15, <1>16, <1>17, Zenon DEF NextFragment

\* The assembler never finds a fault that only a dishonest peer could cause,
\* and takes only the frame it is waiting for.
LEMMA HonestVerdict ==
  ASSUME IInv, NEW e \in Endpoint, IsOpen(e), wire[e] # <<>>, ~ IsAck(Head(wire[e]))
  PROVE  LET f == Head(wire[e])
         IN /\ Verdict(e, f) \notin PeerFault
            /\ Verdict(e, f) \in {"complete", "incomplete"} => NextFragment(e, f)
            /\ Verdict(e, f) = "complete" => IsLast(f)
            /\ Verdict(e, f) = "incomplete" => ~ IsLast(f)
<1> DEFINE f == Head(wire[e])
           known == \E i \in DOMAIN Remembered(e) : Remembered(e)[i].seq = f.seq
           same == \E i \in DOMAIN Remembered(e) : Remembered(e)[i] = f
<1>1. f = frames[Peer(e)][f.seq] /\ f \in Frame
  BY FrameInFlight
<1>2. known => same
  <2> SUFFICES ASSUME NEW i \in DOMAIN Remembered(e), Remembered(e)[i].seq = f.seq
               PROVE  same
    OBVIOUS
  <2>1. Remembered(e)[i] = frames[Peer(e)][Remembered(e)[i].seq]
    BY RememberedInLog
  <2> QED BY <1>1, <2>1, Zenon
<1>3. f.seq \in Nat /\ expectedSeq[e] \in Nat
  BY <1>1, TypeFacts DEF Frame, IInv
<1>4. /\ expectedMessage[e] = Len(delivered[e]) + 1
      /\ active[e] # <<>> => 1 \in DOMAIN active[e]
  <2>1. active[e] \in Seq(Frame)
    BY TypeFacts DEF IInv
  <2> QED BY <2>1 DEF IInv, ReceiverOK
<1>5. f.seq = expectedSeq[e] => NextFragment(e, f)
  BY ExpectedFrame
<1>6. NextFragment(e, f) =>
        /\ f.messageSeq = expectedMessage[e] /\ f.fragmentIndex = Len(active[e])
        /\ active[e] # <<>> => /\ f.fragmentCount = active[e][1].fragmentCount
                              /\ f.checksum = active[e][1].checksum
  BY <1>4 DEF NextFragment
<1>7. Verdict(e, f) =
        IF known THEN IF same THEN "duplicate" ELSE "conflictingDuplicate"
        ELSE IF f.seq < expectedSeq[e] THEN "duplicate"
        ELSE IF f.seq > expectedSeq[e] THEN "physicalGap"
        ELSE IF f.messageSeq # expectedMessage[e] THEN "messageGap"
        ELSE IF f.fragmentIndex # Len(active[e]) THEN "fragmentGap"
        ELSE IF active[e] # <<>> /\ f.fragmentCount # active[e][1].fragmentCount
        THEN "metadataMismatch"
        ELSE IF active[e] # <<>> /\ f.checksum # active[e][1].checksum
        THEN "checksumMismatch"
        ELSE IF IsLast(f) THEN "complete" ELSE "incomplete"
  BY DEF Verdict
<1> HIDE DEF f, known, same
<1>8. CASE known \/ f.seq < expectedSeq[e]
  <2>1. Verdict(e, f) = "duplicate"
    BY <1>2, <1>7, <1>8
  <2> QED BY <2>1 DEF PeerFault, f
<1>9. CASE ~ known /\ f.seq > expectedSeq[e]
  <2>1. Verdict(e, f) = "physicalGap"
    BY <1>3, <1>7, <1>9
  <2> QED BY <2>1 DEF PeerFault, f
<1>10. CASE ~ known /\ f.seq = expectedSeq[e]
  <2>1. Verdict(e, f) = IF IsLast(f) THEN "complete" ELSE "incomplete"
    BY <1>3, <1>5, <1>6, <1>7, <1>10
  <2>2. NextFragment(e, f)
    BY <1>5, <1>10
  <2> QED BY <2>1, <2>2 DEF PeerFault, f
<1>11. f.seq < expectedSeq[e] \/ f.seq > expectedSeq[e] \/ f.seq = expectedSeq[e]
  BY <1>3
<1> QED BY <1>8, <1>9, <1>10, <1>11, Zenon DEF f

LEMMA FragmentKeeps ==
  ASSUME IInv, NEW e \in Endpoint, ReceiveFragment(e)
  PROVE  IInv'
<1> DEFINE f == Head(wire[e])
           log == frames[Peer(e)]
           bs == batches[Peer(e)]
           a == active[e]
           a2 == Append(a, f)
           la == Len(a)
           done == Len(delivered[e])
           start == End(bs, done)
           size == bs[done + 1].message.fragments
<1>1. /\ frames' = frames /\ batches' = batches /\ head' = head
      /\ lastAcked' = lastAcked /\ unackedBytes' = unackedBytes /\ saturated' = saturated
      /\ expectedMessage' = expectedMessage /\ settled' = settled
      /\ delivered' = delivered /\ phase' = phase /\ pendingAck' = pendingAck
      /\ cursor' = cursor /\ highestFullySent' = highestFullySent /\ failures' = failures
  BY DEF ReceiveFragment, queueVars, ackVars
<1>2. /\ active' = [active EXCEPT ![e] = Append(@, Head(wire[e]))]
      /\ expectedSeq' = [expectedSeq EXCEPT ![e] = @ + 1]
      /\ wire' = [wire EXCEPT ![e] = Tail(@)]
      /\ IsOpen(e) /\ wire[e] # <<>> /\ ~ IsAck(f)
      /\ Verdict(e, f) = "incomplete"
  BY DEF ReceiveFragment, FrameArrives
<1>3. /\ TypeOK /\ Peer(e) \in Endpoint /\ ReceiverOK(e)
      /\ QueueOK(log, bs)
  BY PeerFacts DEF IInv
<1>4. /\ f \in Frame /\ f.seq \in DOMAIN log /\ f = log[f.seq]
      /\ ~ IsLast(f) /\ NextFragment(e, f)
  BY <1>2, FrameInFlight, HonestVerdict
<1>5. /\ a \in Seq(Frame) /\ la \in Nat /\ bs \in Seq(Batch) /\ log \in Seq(Frame)
      /\ Len(bs) \in Nat /\ done \in Nat /\ DOMAIN bs = 1..Len(bs)
  BY <1>3, TypeFacts, LengthFacts
<1>6. /\ a2 \in Seq(Frame) /\ Len(a2) = la + 1 /\ a2 # <<>>
      /\ \A j \in 1..la : a2[j] = a[j]
      /\ a2[la + 1] = f
  <2>1. a2 \in Seq(Frame) /\ Len(a2) = la + 1 /\ a2[la + 1] = f
        /\ \A j \in 1..la : a2[j] = a[j]
    BY <1>4, <1>5, AppendProperties
  <2>2. Len(a2) # 0
    <3> HIDE DEF a2, la
    <3> QED BY <1>5, <2>1
  <2>3. Len(<<>>) = 0
    OBVIOUS
  <2> HIDE DEF a2
  <2> QED BY <2>1, <2>2, <2>3, Zenon
<1>7. /\ f.seq = start + la + 1 /\ done + 1 \in DOMAIN bs
      /\ f.fragmentIndex = la /\ f.fragmentCount = size
  BY <1>4 DEF NextFragment
<1>8. f.fragmentIndex < f.fragmentCount
  BY <1>3, <1>4 DEF QueueOK
<1>9. size \in Nat
  <2>1. bs[done + 1] \in Batch
    BY <1>5, <1>7
  <2> QED BY <2>1, LimitAssumption DEF Batch, Message
<1>10. la + 1 < size
  <2>1. la + 1 # size
    BY <1>4, <1>7 DEF IsLast
  <2> HIDE DEF la, size, f
  <2> QED BY <1>5, <1>7, <1>8, <1>9, <2>1
<1>11. start \in Nat /\ done < Len(bs) /\ done <= Len(bs)
  <2>1. done + 1 \in 1..Len(bs)
    BY <1>5, <1>7
  <2>2. done \in 0..Len(bs) /\ done < Len(bs)
    BY <1>5, <2>1
  <2> QED BY <1>3, <1>5, <2>2, EndFacts
<1>12. /\ expectedSeq[e] = start + la + 1
       /\ expectedMessage[e] = done + 1
       /\ \A m \in 1..done : delivered[e][m] = bs[m].message
       /\ \A j \in 1..la : a[j] = log[start + j]
       /\ \A j \in 1..Len(settled[e]) :
            settled[e][j].seq \in DOMAIN log /\ settled[e][j] = log[settled[e][j].seq]
  BY <1>2, <1>3 DEF ReceiverOK
<1>13. /\ active'[e] = a2 /\ expectedSeq'[e] = start + la + 1 + 1
       /\ \A x \in Endpoint : x # e =>
            active'[x] = active[x] /\ expectedSeq'[x] = expectedSeq[x]
  BY <1>2, <1>3, <1>12 DEF TypeOK
<1>14. ReceiverOK(e)'
  <2>1. \A j \in 1..la + 1 : a2[j] = log[start + j]
    <3> TAKE j \in 1..la + 1
    <3>1. CASE j \in 1..la
      BY <1>6, <1>12, <3>1, Zenon
    <3>2. CASE j = la + 1
      <4>1. start + j = f.seq
        <5> HIDE DEF la, start
        <5> QED BY <1>5, <1>7, <1>11, <3>2
      <4>2. f = log[start + j]
        BY <1>4, <4>1, Zenon
      <4> QED BY <1>6, <3>2, <4>2, Zenon
    <3>3. j \in 1..la \/ j = la + 1
      <4> HIDE DEF la
      <4> QED BY <1>5
    <3> QED BY <3>1, <3>2, <3>3
  <2>2. start + la + 1 + 1 = start + (la + 1) + 1
    <3> HIDE DEF la, start
    <3> QED BY <1>5, <1>11
  <2> HIDE DEF a2, la, start, log, bs, done, size
  <2>3. /\ expectedSeq'[e] = start + Len(a2) + 1 /\ Len(a2) < size
        /\ \A j \in 1..Len(a2) : a2[j] = log[start + j]
    BY <1>6, <1>10, <1>13, <2>1, <2>2, Zenon
  <2> USE DEF a2, la, start, log, bs, done, size
  <2> QED BY <1>1, <1>11, <1>12, <1>13, <2>3, Zenon DEF ReceiverOK, IsOpen
<1>15. \A x \in Endpoint : ReceiverOK(x)'
  <2>1. ASSUME NEW x \in Endpoint, x # e
        PROVE  ReceiverOK(x)'
    <3>1. ReceiverOK(x)
      BY DEF IInv
    <3> QED BY <1>1, <1>13, <2>1, <3>1 DEF ReceiverOK, IsOpen
  <2> QED BY <1>14, <2>1
<1>16. Sub(wire')
  BY <1>2, <1>3, TailIsSub
<1>17. TypeOK'
  <2>1. expectedSeq[e] + 1 \in Nat \ {0}
    BY <1>3, TypeFacts
  <2> HIDE DEF a2
  <2>2. active' = [active EXCEPT ![e] = a2]
    BY <1>2 DEF a2
  <2>3. active' \in [Endpoint -> Seq(Frame)]
    BY <1>3, <1>6, <2>2 DEF TypeOK
  <2>4. expectedSeq' \in [Endpoint -> Nat \ {0}]
    BY <1>2, <1>3, <2>1 DEF TypeOK
  <2>5. wire' \in [Endpoint -> Seq(RelayPayload)]
    BY <1>16 DEF Sub
  <2> QED BY <1>1, <1>3, <2>3, <2>4, <2>5, Zenon DEF TypeOK
<1>18. Grows
  BY <1>1, <1>3, LengthFacts DEF Grows, TypeOK
<1>19. \A x \in Endpoint : WireOK(x)'
  BY <1>1, <1>3, <1>16, <1>18, WireAfterSub DEF IInv, TypeOK
<1>20. /\ \A x \in Endpoint : SenderOK(x)'
       /\ \A x \in Endpoint : QueueOK(frames[x], batches[x])'
       /\ OnlyHonestFaults'
  BY <1>1 DEF IInv, SenderOK, OnlyHonestFaults, IsOpen
<1> QED BY <1>15, <1>17, <1>19, <1>20 DEF IInv

\* A flush in a step that also delivers one more message to e.
LEMMA DeliveryKeepsCounters ==
  ASSUME IInv, NEW e \in Endpoint, NEW ack \in Nat, NEW w, Sub(w),
         FlushEffect(e, frames[e], batches[e], ack, w),
         UNCHANGED <<queueVars, ackVars, phase>>,
         delivered' \in [Endpoint -> Seq(Message)],
         Len(delivered'[e]) = Len(delivered[e]) + 1, delivered'[Peer(e)] = delivered[Peer(e)],
         ack <= Len(delivered'[e]), Len(delivered'[e]) <= highestFullySent[Peer(e)]
  PROVE  /\ \A x \in Endpoint : SenderOK(x)'
         /\ \A x \in Endpoint : WireOK(x)'
<1> DEFINE q == Peer(e)
<1>1. /\ frames' = frames /\ batches' = batches /\ head' = head
      /\ lastAcked' = lastAcked /\ unackedBytes' = unackedBytes /\ saturated' = saturated
      /\ phase' = phase
  BY DEF queueVars, ackVars
<1>2. TypeOK /\ SenderOK(e) /\ SenderOK(q) /\ QueueOK(frames[e], batches[e])
  BY PeerFacts DEF IInv
<1>3. q \in Endpoint /\ q # e /\ Peer(q) = e /\ \A x \in Endpoint : x = e \/ x = q
  BY PeerFacts
<1>4. /\ pendingAck'[e] \in {0, ack} /\ pendingAck'[q] = pendingAck[q]
      /\ highestFullySent'[e] >= highestFullySent[e]
      /\ highestFullySent'[e] <= Len(batches[e])
      /\ highestFullySent'[q] = highestFullySent[q]
      /\ FlushTypes'
  BY DEF FlushEffect
<1>5. \A x \in Endpoint : /\ highestFullySent[x] \in Nat /\ highestFullySent'[x] \in Nat
                          /\ Len(delivered[x]) \in Nat /\ lastAcked[x] \in Nat
                          /\ pendingAck[x] \in Nat /\ pendingAck'[x] \in Nat
  BY <1>2, <1>4, TypeFacts, LengthFacts DEF FlushTypes
<1> HIDE DEF q
<1>6. SenderOK(e)'
  <2>1. /\ Len(delivered'[q]) <= highestFullySent'[e]
        /\ pendingAck'[e] <= Len(delivered'[e])
    <3>1. Len(delivered[q]) <= highestFullySent[e]
      BY <1>2 DEF SenderOK, q
    <3>2. Len(delivered'[q]) <= highestFullySent'[e]
      BY <1>3, <1>4, <1>5, <3>1 DEF q
    <3>3. pendingAck'[e] <= Len(delivered'[e])
      <4>1. Len(delivered'[e]) \in Nat
        BY <1>5
      <4> QED BY <1>4, <1>5, <4>1
    <3> QED BY <3>2, <3>3
  <2> QED BY <1>1, <1>2, <1>4, <2>1 DEF SenderOK, IsOpen, q
<1>7. SenderOK(q)'
  <2>1. /\ lastAcked[q] <= Len(delivered[e]) /\ highestFullySent[q] <= Len(batches[q])
        /\ pendingAck[q] <= Len(delivered[q])
    BY <1>2, <1>3 DEF SenderOK
  <2>2. /\ lastAcked'[q] <= Len(delivered'[e])
        /\ Len(delivered'[e]) <= highestFullySent'[q]
        /\ highestFullySent'[q] <= Len(batches'[q])
        /\ pendingAck'[q] <= Len(delivered'[q])
    <3>1. lastAcked[q] <= Len(delivered[e]) + 1
      BY <1>3, <1>5, <2>1
    <3> QED BY <1>1, <1>4, <2>1, <3>1 DEF q
  <2> QED BY <1>1, <1>2, <1>3, <2>2 DEF SenderOK, IsOpen
<1>8. \A x \in Endpoint : SenderOK(x)'
  BY <1>3, <1>6, <1>7
<1>9. Grows
  <2>1. \A x \in Endpoint : Len(delivered[x]) <= Len(delivered'[x])
    BY <1>3, <1>5 DEF q
  <2>2. \A x \in Endpoint : highestFullySent[x] <= highestFullySent'[x]
    <3>1. highestFullySent[q] <= highestFullySent'[q]
      BY <1>3, <1>4, <1>5
    <3>2. highestFullySent[e] <= highestFullySent'[e]
      BY <1>4, <1>5
    <3> QED BY <1>3, <3>1, <3>2, Zenon
  <2> QED BY <1>1, <2>1, <2>2 DEF Grows
<1>10. \A x \in Endpoint : WireOK(x)'
  <2>1. frames' \in [Endpoint -> Seq(Frame)] /\ batches[e] \in Seq(Batch)
    BY <1>1, <1>2 DEF TypeOK
  <2>2. /\ QueueOK(frames'[e], batches[e])
        /\ FlushEffect(e, frames'[e], batches[e], ack, w)
    BY <1>1, <1>2
  <2>3. \A x \in Endpoint : WireOK(x)
    BY DEF IInv
  <2> QED BY <1>2, <1>9, <2>1, <2>2, <2>3, WireAfterFlush
<1> QED BY <1>8, <1>10

\* The message fired to the listener is the next one the peer reserved.
LEMMA LastMessage ==
  ASSUME IInv, NEW e \in Endpoint, ReceiveLast(e)
  PROVE  LET bs == batches[Peer(e)]
             done == Len(delivered[e])
             f == Head(wire[e])
         IN /\ done + 1 \in DOMAIN bs
            /\ [payload |-> f.checksum, fragments |-> Len(active[e]) + 1] = bs[done + 1].message
<1> DEFINE f == Head(wire[e])
           bs == batches[Peer(e)]
           la == Len(active[e])
           r == bs[Len(delivered[e]) + 1].message
<1>1. IsOpen(e) /\ wire[e] # <<>> /\ ~ IsAck(f) /\ Verdict(e, f) = "complete"
  BY DEF ReceiveLast, FrameArrives
<1>2. IsLast(f) /\ NextFragment(e, f)
  BY <1>1, HonestVerdict
<1>3. /\ Len(delivered[e]) + 1 \in DOMAIN bs /\ f.fragmentIndex = la
      /\ f.fragmentCount = r.fragments /\ f.checksum = r.payload
  BY <1>2 DEF NextFragment
<1>4. r.fragments = la + 1
  BY <1>2, <1>3 DEF IsLast
<1>5. r \in Message
  <2>1. bs \in Seq(Batch)
    BY PeerFacts, TypeFacts DEF IInv
  <2>2. bs[Len(delivered[e]) + 1] \in Batch
    BY <1>3, <2>1
  <2> QED BY <2>2 DEF Batch
<1>6. r = [payload |-> f.checksum, fragments |-> la + 1]
  <2>1. r \in Message /\ r.payload = f.checksum /\ r.fragments = la + 1
    BY <1>3, <1>4, <1>5
  <2> HIDE DEF r, f, la
  <2> QED BY <2>1 DEF Message
<1> QED BY <1>3, <1>6, Zenon

LEMMA LastKeeps ==
  ASSUME IInv, NEW e \in Endpoint, ReceiveLast(e)
  PROVE  IInv'
<1> DEFINE f == Head(wire[e])
           log == frames[Peer(e)]
           bs == batches[Peer(e)]
           a == active[e]
           a2 == Append(a, f)
           la == Len(a)
           d == delivered[e]
           msg == [payload |-> f.checksum, fragments |-> la + 1]
           d2 == Append(d, msg)
           done == Len(d)
           start == End(bs, done)
           size == bs[done + 1].message.fragments
           ack == LargerOf(pendingAck[e], f.messageSeq)
           w == [wire EXCEPT ![e] = Tail(@)]
<1>1. /\ frames' = frames /\ batches' = batches /\ head' = head
      /\ lastAcked' = lastAcked /\ unackedBytes' = unackedBytes /\ saturated' = saturated
      /\ phase' = phase /\ failures' = failures
  BY DEF ReceiveLast, queueVars, ackVars
<1>2. /\ active' = [active EXCEPT ![e] = <<>>]
      /\ settled' = [settled EXCEPT ![e] = a2]
      /\ expectedSeq' = [expectedSeq EXCEPT ![e] = @ + 1]
      /\ expectedMessage' = [expectedMessage EXCEPT ![e] = @ + 1]
      /\ delivered' = [delivered EXCEPT ![e] = d2]
      /\ QueueAckAndFlush(e, f.messageSeq)
      /\ IsOpen(e) /\ wire[e] # <<>> /\ ~ IsAck(f)
      /\ Verdict(e, f) = "complete"
  BY DEF ReceiveLast, FrameArrives
<1>3. /\ TypeOK /\ Peer(e) \in Endpoint /\ ReceiverOK(e)
      /\ QueueOK(log, bs) /\ SenderOK(e)
  BY PeerFacts DEF IInv
<1>4. /\ f \in Frame /\ f.seq \in DOMAIN log /\ f = log[f.seq]
      /\ IsLast(f) /\ NextFragment(e, f)
      /\ f.messageSeq <= highestFullySent[Peer(e)]
  BY <1>2, FrameInFlight, HonestVerdict
<1>5. /\ a \in Seq(Frame) /\ la \in Nat /\ bs \in Seq(Batch) /\ log \in Seq(Frame)
      /\ Len(bs) \in Nat /\ done \in Nat /\ DOMAIN bs = 1..Len(bs) /\ d \in Seq(Message)
      /\ pendingAck[e] \in Nat /\ cursor[e] \in Nat \ {0}
      /\ frames[e] \in Seq(Frame) /\ batches[e] \in Seq(Batch)
  BY <1>3, TypeFacts, LengthFacts
<1>6. /\ f.seq = start + la + 1 /\ done + 1 \in DOMAIN bs /\ f.messageSeq = done + 1
      /\ f.fragmentIndex = la /\ f.fragmentCount = size
      /\ f.checksum = bs[done + 1].message.payload
      /\ \A j \in 1..la + 1 : start + j \in DOMAIN log
  BY <1>4 DEF NextFragment
<1>7. /\ expectedSeq[e] = start + la + 1
      /\ expectedMessage[e] = done + 1
      /\ \A m \in 1..done : d[m] = bs[m].message
      /\ \A j \in 1..la : a[j] = log[start + j]
  BY <1>2, <1>3 DEF ReceiverOK
<1>8. bs[done + 1] \in Batch /\ size = la + 1 /\ size \in Nat
  <2>1. bs[done + 1] \in Batch
    BY <1>5, <1>6
  <2>2. la + 1 = size
    BY <1>4, <1>6 DEF IsLast
  <2> QED BY <1>5, <2>1, <2>2, SMTT(30)
<1>9. msg = bs[done + 1].message /\ msg \in Message
  <2>1. bs[done + 1].message \in Message
    BY <1>8 DEF Batch
  <2> QED BY <2>1, LastMessage
<1>10. /\ d2 \in Seq(Message) /\ Len(d2) = done + 1
       /\ \A m \in 1..done : d2[m] = d[m]
       /\ d2[done + 1] = msg
  <2> HIDE DEF msg
  <2> QED BY <1>5, <1>9, AppendProperties
<1>11. /\ a2 \in Seq(Frame) /\ Len(a2) = la + 1
       /\ \A j \in 1..la : a2[j] = a[j]
       /\ a2[la + 1] = f
  BY <1>4, <1>5, AppendProperties
<1> HIDE DEF f, log, bs, a, a2, la, d, msg, d2, done, start, size, ack, w
<1>12. /\ active'[e] = <<>> /\ settled'[e] = a2 /\ delivered'[e] = d2
       /\ expectedSeq'[e] = start + la + 1 + 1 /\ expectedMessage'[e] = done + 1 + 1
       /\ \A x \in Endpoint : x # e =>
            /\ active'[x] = active[x] /\ settled'[x] = settled[x]
            /\ delivered'[x] = delivered[x] /\ expectedSeq'[x] = expectedSeq[x]
            /\ expectedMessage'[x] = expectedMessage[x]
  BY <1>2, <1>3, <1>7 DEF TypeOK
<1>13. start \in Nat /\ done + 1 <= Len(bs) /\ End(bs, done + 1) = start + (la + 1)
  <2>1. done + 1 \in 1..Len(bs) /\ done \in 0..Len(bs)
    BY <1>5, <1>6
  <2>2. start \in Nat
    BY <1>3, <1>5, <2>1, EndFacts DEF start
  <2>3. bs[done + 1].lastSeq = End(bs, (done + 1) - 1) + bs[done + 1].message.fragments
    <3> DEFINE k == done + 1
    <3>1. k \in DOMAIN bs
      BY <1>6
    <3>2. bs[k].lastSeq = End(bs, k - 1) + bs[k].message.fragments
      <4> HIDE DEF k
      <4> QED BY <1>3, <3>1, Zenon DEF QueueOK
    <3> QED BY <3>2, Zenon
  <2>4. (done + 1) - 1 = done /\ done + 1 # 0 /\ done + 1 <= Len(bs)
    BY <1>5, <2>1
  <2>5. End(bs, done + 1) = bs[done + 1].lastSeq
    BY <2>4 DEF End
  <2>6. bs[done + 1].lastSeq = start + size
    BY <2>3, <2>4, Zenon DEF start, size
  <2> QED BY <1>8, <2>2, <2>4, <2>5, <2>6, Zenon
<1>14. ReceiverOK(e)'
  <2>1. \A m \in 1..done + 1 : d2[m] = bs[m].message
    <3>1. \A m \in 1..done + 1 : m \in 1..done \/ m = done + 1
      BY <1>5
    <3> QED BY <1>7, <1>9, <1>10, <3>1, Zenon
  <2>2. start + la + 1 + 1 = End(bs, done + 1) + Len(<<>>) + 1
    BY <1>5, <1>13
  <2>3. \A j \in 1..la + 1 : a2[j] = log[start + j] /\ a2[j].seq = start + j
    <3>1. \A j \in 1..la + 1 : j \in 1..la \/ j = la + 1
      BY <1>5
    <3>2. start + (la + 1) = f.seq
      BY <1>5, <1>6, <1>13
    <3>3. \A j \in 1..la + 1 : a2[j] = log[start + j]
      BY <1>4, <1>7, <1>11, <3>1, <3>2, Zenon DEF log, f
    <3>4. \A j \in 1..la + 1 : log[start + j].seq = start + j
      BY <1>3, <1>6, Zenon DEF QueueOK
    <3> QED BY <3>3, <3>4, Zenon
  <2>4. \A j \in 1..Len(a2) : a2[j].seq \in DOMAIN log /\ a2[j] = log[a2[j].seq]
    BY <1>6, <1>11, <2>3, Zenon
  <2>5. \A j \in 1..Len(<<>>) : <<>>[j] = log[End(bs, done + 1) + j]
    OBVIOUS
  <2>6. /\ expectedMessage'[e] = Len(delivered'[e]) + 1
        /\ Len(delivered'[e]) <= Len(batches'[Peer(e)])
        /\ \A m \in 1..Len(delivered'[e]) : delivered'[e][m] = batches'[Peer(e)][m].message
    BY <1>1, <1>10, <1>12, <1>13, <2>1, Zenon DEF bs
  <2>7. Len(delivered'[e]) = done + 1 /\ frames'[Peer(e)] = log /\ batches'[Peer(e)] = bs
    BY <1>1, <1>10, <1>12, Zenon DEF log, bs
  <2> QED BY <1>12, <2>2, <2>4, <2>5, <2>6, <2>7, Zenon DEF ReceiverOK, IsOpen
<1>15. \A x \in Endpoint : ReceiverOK(x)'
  <2>1. ASSUME NEW x \in Endpoint, x # e
        PROVE  ReceiverOK(x)'
    <3>1. ReceiverOK(x)
      BY DEF IInv
    <3> QED BY <1>1, <1>12, <2>1, <3>1, Zenon DEF ReceiverOK, IsOpen
  <2> QED BY <1>14, <2>1
<1>16. Sub(w)
  BY <1>2, <1>3, TailIsSub DEF w
<1>17. ack \in Nat /\ ack <= done + 1
  <2>1. pendingAck[e] <= done
    BY <1>3 DEF SenderOK, done, d
  <2> QED BY <1>5, <1>6, <2>1 DEF ack, LargerOf
<1>18. FlushEffect(e, frames[e], batches[e], ack, w)
  <2>1. f.messageSeq # 0
    BY <1>5, <1>6
  <2>2. SomeFlush(e, frames[e], cursor[e], ack, w)
    BY <1>2, <2>1 DEF QueueAckAndFlush, ack, w
  <2>3. QueueOK(frames[e], batches[e]) /\ highestFullySent[e] <= Len(batches[e])
    BY <1>3 DEF IInv, SenderOK
  <2> QED BY <1>3, <1>5, <1>16, <1>17, <2>2, <2>3, SomeFlushHasEffect
<1>19. TypeOK'
  <2>1. expectedSeq[e] + 1 \in Nat \ {0} /\ expectedMessage[e] + 1 \in Nat \ {0}
    BY <1>3, TypeFacts
  <2>2. <<>> \in Seq(Frame)
    OBVIOUS
  <2>3. /\ active' \in [Endpoint -> Seq(Frame)] /\ settled' \in [Endpoint -> Seq(Frame)]
        /\ delivered' \in [Endpoint -> Seq(Message)]
    BY <1>2, <1>3, <1>10, <1>11, <2>2 DEF TypeOK
  <2>4. /\ expectedSeq' \in [Endpoint -> Nat \ {0}]
        /\ expectedMessage' \in [Endpoint -> Nat \ {0}]
    BY <1>2, <1>3, <2>1 DEF TypeOK
  <2>5. wire' \in [Endpoint -> Seq(RelayPayload)] /\ FlushTypes'
    BY <1>18 DEF FlushEffect
  <2> QED BY <1>1, <1>3, <2>3, <2>4, <2>5, Zenon DEF TypeOK, FlushTypes
<1>20. /\ \A x \in Endpoint : SenderOK(x)'
       /\ \A x \in Endpoint : WireOK(x)'
  <2>1. /\ Len(delivered'[e]) = Len(delivered[e]) + 1 /\ delivered'[Peer(e)] = delivered[Peer(e)]
        /\ ack <= Len(delivered'[e]) /\ Len(delivered'[e]) <= highestFullySent[Peer(e)]
    BY <1>4, <1>6, <1>10, <1>12, <1>17, PeerFacts DEF done, d, f
  <2>2. delivered' \in [Endpoint -> Seq(Message)]
    BY <1>19 DEF TypeOK
  <2>3. UNCHANGED <<queueVars, ackVars, phase>>
    BY <1>1 DEF queueVars, ackVars
  <2> QED BY <1>16, <1>17, <1>18, <2>1, <2>2, <2>3, DeliveryKeepsCounters
<1>21. (\A x \in Endpoint : QueueOK(frames[x], batches[x]))' /\ OnlyHonestFaults'
  BY <1>1 DEF IInv, OnlyHonestFaults
<1> QED BY <1>15, <1>19, <1>20, <1>21 DEF IInv

-----------------------------------------------------------------------------
(* Reserving a message *)

LEMMA ReserveKeeps ==
  ASSUME IInv, NEW e \in Endpoint, NEW m \in Message, Reserve(e, m)
  PROVE  IInv'
<1> DEFINE q == Peer(e)
           log == frames[e]
           bs == batches[e]
           log2 == log \o Encoded(Len(log) + 1, Len(bs) + 1, m)
           bs2 == Append(bs, [message |-> m, lastSeq |-> Len(log2)])
           bytes == unackedBytes[e] + m.fragments
           n == Len(log)
           b == Len(bs)
<1>1. /\ head' = head /\ lastAcked' = lastAcked
      /\ expectedSeq' = expectedSeq /\ expectedMessage' = expectedMessage
      /\ active' = active /\ settled' = settled
      /\ delivered' = delivered /\ phase' = phase /\ failures' = failures
  BY DEF Reserve, assemblerVars
<1>2. /\ IsOpen(e) /\ bytes <= ReplayBufferMax
      /\ frames' = [frames EXCEPT ![e] = log2]
      /\ batches' = [batches EXCEPT ![e] = bs2]
      /\ unackedBytes' = [unackedBytes EXCEPT ![e] = bytes]
      /\ saturated' = [saturated EXCEPT ![e] = @ \/ bytes > HighWaterMark]
      /\ SomeFlush(e, log2, cursor[e], pendingAck[e], wire)
  BY DEF Reserve
<1>3. /\ TypeOK /\ q \in Endpoint /\ q # e /\ Peer(q) = e
      /\ QueueOK(log, bs) /\ log \in Seq(Frame) /\ bs \in Seq(Batch)
      /\ SenderOK(e) /\ \A x \in Endpoint : x = e \/ x = q
  BY PeerFacts, TypeFacts DEF IInv
<1>4. WithMessage(log, bs, m, log2, bs2)
  BY <1>3 DEF WithMessage
<1> HIDE DEF log2, bs2
<1>5. /\ log2 \in Seq(Frame) /\ bs2 \in Seq(Batch) /\ QueueOK(log2, bs2)
      /\ Len(log2) = n + m.fragments
      /\ \A i \in DOMAIN log : i \in DOMAIN log2 /\ log2[i] = log[i]
      /\ Len(bs2) = b + 1
      /\ \A i \in DOMAIN bs : bs2[i] = bs[i]
  <2> HIDE DEF log, bs
  <2>1. MessageAdded(log, bs, m, log2, bs2)
    BY <1>4, ReservedQueue, Zenon
  <2> QED BY <2>1, Zenon DEF MessageAdded
<1>6. m.fragments \in Nat
  BY LimitAssumption DEF Message
<1>7. /\ n \in Nat /\ b \in Nat /\ DOMAIN bs = 1..b /\ DOMAIN log = 1..n
      /\ head[e] \in Nat /\ unackedBytes[e] \in Nat /\ saturated[e] \in BOOLEAN
      /\ pendingAck[e] \in Nat /\ cursor[e] \in Nat \ {0} /\ highestFullySent[e] \in Nat
      /\ lastAcked[e] \in Nat /\ Len(delivered[e]) \in Nat /\ Len(delivered[q]) \in Nat
  BY <1>3, TypeFacts, LengthFacts
<1>8. \A k \in 0..b : End(bs2, k) = End(bs, k)
  <2>1. \A k \in 0..b : k = 0 \/ k \in DOMAIN bs
    BY <1>7
  <2> HIDE DEF bs, b
  <2> QED BY <1>5, <2>1, Zenon DEF End
<1> HIDE DEF q, log, bs, bytes, n, b
<1>9. /\ frames'[e] = log2 /\ batches'[e] = bs2 /\ unackedBytes'[e] = bytes
      /\ saturated'[e] = (saturated[e] \/ bytes > HighWaterMark)
      /\ frames'[q] = frames[q] /\ batches'[q] = batches[q]
      /\ unackedBytes'[q] = unackedBytes[q] /\ saturated'[q] = saturated[q]
  BY <1>2, <1>3 DEF TypeOK
<1>10. highestFullySent[e] <= Len(bs2) /\ highestFullySent[e] <= b
  <2>1. highestFullySent[e] <= b
    BY <1>3 DEF SenderOK, b, bs
  <2> QED BY <1>5, <1>7, <2>1
<1>11. FlushEffect(e, log2, bs2, pendingAck[e], wire) /\ Sub(wire)
  BY <1>2, <1>3, <1>5, <1>7, <1>10, SomeFlushHasEffect, WireIsSub
<1>12. /\ pendingAck'[e] \in {0, pendingAck[e]} /\ pendingAck'[q] = pendingAck[q]
       /\ highestFullySent'[e] >= highestFullySent[e]
       /\ highestFullySent'[e] <= Len(bs2)
       /\ highestFullySent'[q] = highestFullySent[q]
       /\ FlushTypes' /\ wire' \in [Endpoint -> Seq(RelayPayload)]
  BY <1>11 DEF FlushEffect, q
<1>13. TypeOK'
  <2>1. bytes \in Nat
    BY <1>6, <1>7 DEF bytes
  <2>2. (saturated[e] \/ bytes > HighWaterMark) \in BOOLEAN
    OBVIOUS
  <2>3. frames' \in [Endpoint -> Seq(Frame)] /\ batches' \in [Endpoint -> Seq(Batch)]
    BY <1>2, <1>3, <1>5 DEF TypeOK
  <2>4. unackedBytes' \in [Endpoint -> Nat] /\ saturated' \in [Endpoint -> BOOLEAN]
    BY <1>2, <1>3, <2>1, <2>2 DEF TypeOK
  <2> QED BY <1>1, <1>3, <1>12, <2>3, <2>4, Zenon DEF TypeOK, FlushTypes
<1>14. \A x \in Endpoint : QueueOK(frames[x], batches[x])'
  <2>1. QueueOK(frames[q], batches[q])
    BY <1>3 DEF IInv
  <2>2. QueueOK(frames'[e], batches'[e]) /\ QueueOK(frames'[q], batches'[q])
    BY <1>5, <1>9, <2>1, Zenon
  <2> QED BY <1>3, <2>2, Zenon
<1>15. SenderOK(e)'
  <2>1. /\ lastAcked[e] <= Len(delivered[q]) /\ Len(delivered[q]) <= highestFullySent[e]
        /\ pendingAck[e] <= Len(delivered[e])
        /\ head[e] = End(bs, lastAcked[e]) + 1
        /\ unackedBytes[e] = n + 1 - head[e]
        /\ unackedBytes[e] > HighWaterMark => saturated[e]
        /\ saturated[e] => unackedBytes[e] > LowWaterMark
    BY <1>2, <1>3 DEF SenderOK, q, bs, n, log
  <2>2. lastAcked[e] \in 0..b
    BY <1>7, <1>10, <2>1, SMTT(30)
  <2>3. head[e] = End(bs2, lastAcked[e]) + 1
    BY <1>8, <2>1, <2>2
  <2>4. bytes = Len(log2) + 1 - head[e]
    <3> DEFINE h == head[e]
               u == unackedBytes[e]
               c == m.fragments
    <3>1. /\ Len(log2) = n + c /\ u = n + 1 - h /\ bytes = u + c
          /\ n \in Nat /\ c \in Nat /\ h \in Nat /\ u \in Nat
      BY <1>5, <1>6, <1>7, <2>1, Zenon DEF bytes
    <3>2. bytes = (n + c) + 1 - h
      <4> HIDE DEF h, u, c
      <4> QED BY <3>1
    <3> QED BY <3>1, <3>2, Zenon
  <2>5. /\ bytes > HighWaterMark => (saturated[e] \/ bytes > HighWaterMark)
        /\ (saturated[e] \/ bytes > HighWaterMark) => bytes > LowWaterMark
    <3> DEFINE u == unackedBytes[e]
               c == m.fragments
               t == saturated[e]
    <3>1. /\ bytes = u + c /\ c \in Nat /\ u \in Nat /\ t \in BOOLEAN
          /\ u > HighWaterMark => t
          /\ t => u > LowWaterMark
      BY <1>6, <1>7, <2>1, Zenon DEF bytes
    <3>2. bytes > HighWaterMark => bytes > LowWaterMark
      <4> HIDE DEF u, c, t
      <4> QED BY <3>1, LimitAssumption
    <3>3. t => bytes > LowWaterMark
      <4> HIDE DEF u, c, t
      <4> QED BY <3>1, LimitAssumption
    <3> QED BY <3>2, <3>3, Zenon
  <2>6. /\ Len(delivered[q]) <= highestFullySent'[e]
        /\ pendingAck'[e] <= Len(delivered[e])
    <3>1. highestFullySent'[e] \in Nat
      BY <1>12 DEF FlushTypes
    <3>2. Len(delivered[q]) <= highestFullySent'[e]
      BY <1>7, <1>12, <2>1, <3>1, SMTT(30)
    <3>3. pendingAck'[e] = 0 => pendingAck'[e] <= Len(delivered[e])
      BY <1>7
    <3>4. pendingAck'[e] = pendingAck[e] => pendingAck'[e] <= Len(delivered[e])
      BY <2>1, Zenon
    <3> QED BY <1>12, <3>2, <3>3, <3>4, Zenon
  <2>7. /\ lastAcked'[e] <= Len(delivered'[q])
        /\ Len(delivered'[q]) <= highestFullySent'[e]
        /\ highestFullySent'[e] <= Len(batches'[e])
        /\ pendingAck'[e] <= Len(delivered'[e])
    BY <1>1, <1>9, <1>12, <2>1, <2>6, Zenon
  <2>8. /\ head'[e] = End(batches'[e], lastAcked'[e]) + 1
        /\ unackedBytes'[e] = Len(frames'[e]) + 1 - head'[e]
        /\ unackedBytes'[e] <= ReplayBufferMax
        /\ unackedBytes'[e] > HighWaterMark => saturated'[e]
        /\ saturated'[e] => unackedBytes'[e] > LowWaterMark
    BY <1>1, <1>2, <1>9, <2>3, <2>4, <2>5, Zenon
  <2> QED BY <2>7, <2>8, Zenon DEF SenderOK, q
<1>16. SenderOK(q)'
  <2>1. SenderOK(q)
    BY <1>3 DEF IInv
  <2> QED BY <1>1, <1>3, <1>9, <1>12, <2>1, Zenon DEF SenderOK, IsOpen
<1>17. ReceiverOK(e)'
  <2>1. ReceiverOK(e)
    BY DEF IInv
  <2> QED BY <1>1, <1>9, <2>1, Zenon DEF ReceiverOK, IsOpen, q
<1>18. ReceiverOK(q)'
  <2> DEFINE done == Len(delivered[q])
             a == active[q]
             la == Len(a)
             s == settled[q]
  <2>1. /\ ReceiverOK(q) /\ frames[Peer(q)] = log /\ batches[Peer(q)] = bs
    BY <1>3 DEF IInv, log, bs
  <2>2. /\ expectedMessage[q] = done + 1
        /\ done <= b
        /\ \A k \in 1..done : delivered[q][k] = bs[k].message
        /\ IsOpen(q) =>
             /\ expectedSeq[q] = End(bs, done) + la + 1
             /\ a # <<>> => done < b /\ la < bs[done + 1].message.fragments
             /\ \A j \in 1..la : a[j] = log[End(bs, done) + j]
             /\ \A j \in 1..Len(s) : s[j].seq \in DOMAIN log /\ s[j] = log[s[j].seq]
    BY <2>1, Zenon DEF ReceiverOK, b
  <2>3. done \in Nat /\ la \in Nat /\ done \in 0..b /\ \A k \in 1..done : k \in DOMAIN bs
    <3>1. la \in Nat /\ done \in Nat
      BY <1>3, LengthFacts
    <3> HIDE DEF done, la
    <3> QED BY <1>7, <2>2, <3>1
  <2> HIDE DEF done, la, a, s
  <2>4. End(bs2, done) = End(bs, done) /\ done <= Len(bs2)
    BY <1>5, <1>7, <1>8, <2>2, <2>3
  <2>5. \A k \in 1..done : delivered[q][k] = bs2[k].message
    BY <1>5, <2>2, <2>3, Zenon
  <2>6. ASSUME IsOpen(q)
        PROVE  /\ expectedSeq[q] = End(bs2, done) + la + 1
               /\ a # <<>> => done < Len(bs2) /\ la < bs2[done + 1].message.fragments
               /\ \A j \in 1..la : a[j] = log2[End(bs2, done) + j]
               /\ \A j \in 1..Len(s) : s[j].seq \in DOMAIN log2 /\ s[j] = log2[s[j].seq]
    <3>1. expectedSeq[q] = End(bs2, done) + la + 1
      BY <2>2, <2>4, <2>6, Zenon
    <3>2. a # <<>> => /\ done < Len(bs2) /\ done + 1 \in DOMAIN bs
                      /\ la < bs[done + 1].message.fragments
      BY <1>5, <1>7, <2>2, <2>3, <2>6
    <3>3. a # <<>> => done < Len(bs2) /\ la < bs2[done + 1].message.fragments
      BY <1>5, <3>2, Zenon
    <3>4. \A j \in 1..la : End(bs, done) + j \in DOMAIN log
      BY <1>3, <2>2, <2>3, <2>6, AssemblyInLog DEF done, la, a, log, bs
    <3>5. \A j \in 1..la : a[j] = log2[End(bs2, done) + j]
      BY <1>5, <2>2, <2>4, <2>6, <3>4, Zenon
    <3>6. \A j \in 1..Len(s) : s[j].seq \in DOMAIN log2 /\ s[j] = log2[s[j].seq]
      BY <1>5, <2>2, <2>6, Zenon
    <3> QED BY <3>1, <3>3, <3>5, <3>6, Zenon
  <2>7. frames'[Peer(q)] = log2 /\ batches'[Peer(q)] = bs2
    BY <1>3, <1>9
  <2>8. expectedMessage'[q] = done + 1
    BY <1>1, <2>2, Zenon
  <2> QED BY <1>1, <2>4, <2>5, <2>6, <2>7, <2>8, Zenon DEF ReceiverOK, IsOpen, done, la, a, s
<1>19. Grows
  <2>1. \A x \in Endpoint : Len(delivered[x]) <= Len(delivered'[x])
    BY <1>1, <1>3, LengthFacts
  <2>2. highestFullySent[q] <= highestFullySent'[q] /\ highestFullySent[e] <= highestFullySent'[e]
    <3>1. highestFullySent[q] \in Nat /\ highestFullySent'[e] \in Nat
      BY <1>3, <1>12, TypeFacts DEF FlushTypes
    <3> QED BY <1>7, <1>12, <3>1
  <2>3. /\ DOMAIN frames[e] \subseteq DOMAIN frames'[e]
        /\ \A i \in DOMAIN frames[e] : frames'[e][i] = frames[e][i]
    BY <1>5, <1>9, Zenon DEF log
  <2>4. /\ DOMAIN frames[q] \subseteq DOMAIN frames'[q]
        /\ \A i \in DOMAIN frames[q] : frames'[q][i] = frames[q][i]
    BY <1>9, Zenon
  <2> QED BY <1>3, <2>1, <2>2, <2>3, <2>4, Zenon DEF Grows
<1>20. \A x \in Endpoint : WireOK(x)'
  <2>1. /\ QueueOK(frames'[e], bs2) /\ pendingAck[e] <= Len(delivered'[e])
        /\ FlushEffect(e, frames'[e], bs2, pendingAck[e], wire)
    BY <1>1, <1>3, <1>5, <1>9, <1>11 DEF SenderOK
  <2>2. frames' \in [Endpoint -> Seq(Frame)] /\ delivered' \in [Endpoint -> Seq(Message)]
    BY <1>13 DEF TypeOK
  <2>3. \A x \in Endpoint : WireOK(x)
    BY DEF IInv
  <2> QED BY <1>3, <1>5, <1>7, <1>11, <1>19, <2>1, <2>2, <2>3, WireAfterFlush
<1>21. OnlyHonestFaults'
  BY <1>1 DEF IInv, OnlyHonestFaults
<1>22. (\A x \in Endpoint : SenderOK(x)') /\ (\A x \in Endpoint : ReceiverOK(x)')
  BY <1>3, <1>15, <1>16, <1>17, <1>18
<1> QED BY <1>13, <1>14, <1>20, <1>21, <1>22 DEF IInv

-----------------------------------------------------------------------------
(* The invariant is inductive *)

LEMMA NextKeeps ==
  ASSUME IInv, [Next]_vars
  PROVE  IInv'
<1>1. TypeOK /\ failures \in Nat
  BY DEF IInv, TypeOK
<1>2. CASE UNCHANGED vars
  <2>1. /\ UNCHANGED <<queueVars, ackVars, assemblerVars, cursor, highestFullySent,
                       pendingAck, delivered, phase>>
        /\ wire' = wire /\ failures' \in Nat
    BY <1>1, <1>2 DEF vars, flushVars
  <2>2. Sub(wire')
    BY <1>1, <2>1, WireIsSub
  <2> QED BY <2>1, <2>2, WireOnlyKeeps
<1>3. ASSUME NEW e \in Endpoint, NEW m \in Message, Reserve(e, m)
      PROVE  IInv'
  BY <1>3, ReserveKeeps
<1>4. ASSUME NEW e \in Endpoint, NEW reason \in {"degraded", "disposed"},
             Close(e, reason), UNCHANGED <<wire, failures>>
      PROVE  IInv'
  <2>1. Sub(wire')
    BY <1>1, <1>4, WireIsSub
  <2> QED BY <1>1, <1>4, <2>1, CloseKeeps
<1>5. ASSUME NEW e \in Endpoint, NEW m \in Message, ReserveRefused(e, m)
      PROVE  IInv'
  BY <1>4, <1>5 DEF ReserveRefused
<1>6. ASSUME NEW e \in Endpoint,
             FlushPending(e) \/ ReplayUnacknowledged(e) \/ ReplayCutShort(e)
      PROVE  IInv'
  <2>1. /\ cursor[e] \in Nat \ {0} /\ head[e] \in Nat \ {0} /\ pendingAck[e] \in Nat
        /\ pendingAck[e] <= Len(delivered[e]) /\ Sub(wire)
    BY <1>1, TypeFacts, WireIsSub DEF IInv, SenderOK
  <2>2. CASE FlushPending(e)
    <3>1. SomeFlush(e, frames[e], cursor[e], pendingAck[e], wire)
      BY <2>2 DEF FlushPending
    <3>2. UNCHANGED <<queueVars, ackVars, assemblerVars, delivered, phase>> /\ failures' \in Nat
      BY <1>1, <2>2 DEF FlushPending
    <3> QED BY <2>1, <3>1, <3>2, FlushKeeps
  <2>3. CASE ReplayUnacknowledged(e)
    <3> DEFINE n == Len(frames[e]) + 1 - head[e]
               taken == pendingAck[e] # 0
    <3>1. Flush(e, frames[e], head[e], pendingAck[e], wire, taken, n)
      BY <2>3 DEF ReplayUnacknowledged
    <3>2. UNCHANGED <<queueVars, ackVars, assemblerVars, delivered, phase>> /\ failures' \in Nat
      BY <1>1, <2>3 DEF ReplayUnacknowledged
    <3>3. IsOpen(e)
      BY <2>3 DEF ReplayUnacknowledged
    <3>4. n \in Nat
      <4>1. unackedBytes[e] = n /\ unackedBytes[e] \in Nat
        BY <1>1, <3>3, TypeFacts DEF IInv, SenderOK
      <4> QED BY <4>1, Zenon
    <3>5. /\ frames[e] \in Seq(Frame) /\ batches[e] \in Seq(Batch)
          /\ QueueOK(frames[e], batches[e]) /\ highestFullySent[e] <= Len(batches[e])
          /\ FlushTypes /\ wire \in [Endpoint -> Seq(RelayPayload)] /\ taken \in BOOLEAN
      BY <1>1, TypeFacts DEF IInv, SenderOK, FlushTypes, TypeOK
    <3> HIDE DEF n, taken
    <3>6. FlushEffect(e, frames[e], batches[e], pendingAck[e], wire)
      BY <2>1, <3>1, <3>4, <3>5, FlushHasEffect
    <3> QED BY <2>1, <3>2, <3>6, EffectKeeps
  <2>4. CASE ReplayCutShort(e)
    <3>1. SomeFlush(e, frames[e], head[e], pendingAck[e], wire)
      BY <2>4 DEF ReplayCutShort
    <3>2. UNCHANGED <<queueVars, ackVars, assemblerVars, delivered, phase>> /\ failures' \in Nat
      BY <1>1, <2>4 DEF ReplayCutShort
    <3> QED BY <2>1, <3>1, <3>2, FlushKeeps
  <2> QED BY <1>6, <2>2, <2>3, <2>4
<1>7. ASSUME NEW e \in Endpoint, wire[e] # <<>>, wire' = [wire EXCEPT ![e] = Tail(@)]
      PROVE  Sub(wire')
  BY <1>1, <1>7, TailIsSub
<1>8. ASSUME NEW e \in Endpoint, ReceiveAck(e)
      PROVE  IInv'
  <2> DEFINE ack == Head(wire[e]).ackMessageSeq
  <2>1. /\ IsOpen(e) /\ wire[e] # <<>> /\ IsAck(Head(wire[e])) /\ ack > lastAcked[e]
        /\ IF ack > highestFullySent[e] THEN Close(e, "futureAck") ELSE Released(e, ack)
        /\ wire' = [wire EXCEPT ![e] = Tail(@)] /\ failures' = failures
    BY <1>8 DEF ReceiveAck
  <2>2. /\ ack \in Nat /\ ack <= Len(delivered[Peer(e)]) /\ ack <= highestFullySent[e]
        /\ ack <= Len(batches[e])
    BY <2>1, HonestAck
  <2>3. highestFullySent[e] \in Nat
    BY <1>1, TypeFacts
  <2> HIDE DEF ack
  <2>4. ~ (ack > highestFullySent[e])
    BY <2>2, <2>3
  <2>5. Sub(wire')
    BY <1>7, <2>1
  <2> QED BY <1>1, <2>1, <2>2, <2>4, <2>5, ReleaseKeeps
<1>9. ASSUME NEW e \in Endpoint, ReceiveStaleAck(e) \/ Discard(e)
      PROVE  IInv'
  <2>1. /\ wire[e] # <<>> /\ wire' = [wire EXCEPT ![e] = Tail(@)] /\ failures' = failures
        /\ UNCHANGED <<queueVars, ackVars, assemblerVars, cursor, highestFullySent,
                       pendingAck, delivered, phase>>
    BY <1>9 DEF ReceiveStaleAck, Discard
  <2>2. Sub(wire')
    BY <1>7, <2>1
  <2> QED BY <1>1, <2>1, <2>2, WireOnlyKeeps
<1>10. ASSUME NEW e \in Endpoint, ReceiveDuplicate(e)
       PROVE  IInv'
  <2> DEFINE w == [wire EXCEPT ![e] = Tail(@)]
             ack == LargerOf(pendingAck[e], LastCompleted(e))
  <2>1. /\ wire[e] # <<>> /\ QueueAckAndFlush(e, LastCompleted(e)) /\ failures' = failures
        /\ UNCHANGED <<queueVars, ackVars, assemblerVars, delivered, phase>>
    BY <1>10 DEF ReceiveDuplicate, FrameArrives
  <2>2. Sub(w)
    BY <1>1, <2>1, TailIsSub
  <2> HIDE DEF w
  <2>3. CASE LastCompleted(e) = 0
    <3>1. wire' = w /\ UNCHANGED <<cursor, highestFullySent, pendingAck>>
      BY <2>1, <2>3 DEF QueueAckAndFlush, w
    <3>2. Sub(wire')
      BY <2>2, <3>1
    <3>3. UNCHANGED <<queueVars, ackVars, assemblerVars, cursor, highestFullySent,
                      pendingAck, delivered, phase>>
      BY <2>1, <3>1
    <3> QED BY <1>1, <2>1, <3>2, <3>3, WireOnlyKeeps
  <2>4. CASE LastCompleted(e) # 0
    <3>1. SomeFlush(e, frames[e], cursor[e], ack, w)
      BY <2>1, <2>4 DEF QueueAckAndFlush, w
    <3>2. /\ LastCompleted(e) = Len(delivered[e]) /\ Len(delivered[e]) \in Nat
          /\ pendingAck[e] <= Len(delivered[e]) /\ pendingAck[e] \in Nat
          /\ cursor[e] \in Nat \ {0}
      <4>1. expectedMessage[e] = Len(delivered[e]) + 1 /\ Len(delivered[e]) \in Nat
        BY <1>1, LengthFacts DEF IInv, ReceiverOK
      <4>2. expectedMessage[e] - 1 = Len(delivered[e])
        BY <4>1
      <4> QED BY <1>1, <4>1, <4>2, TypeFacts DEF IInv, SenderOK, LastCompleted
    <3>3. ack \in Nat /\ ack <= Len(delivered[e])
      BY <3>2 DEF LargerOf
    <3> HIDE DEF ack
    <3> QED BY <1>1, <2>1, <2>2, <3>1, <3>2, <3>3, FlushKeeps
  <2> QED BY <2>3, <2>4
<1>11. ASSUME NEW e \in Endpoint, DeliveryFails(e) \/ ReceiveFault(e)
       PROVE  IInv'
  <2>1. /\ IsOpen(e) /\ wire[e] # <<>> /\ ~ IsAck(Head(wire[e]))
        /\ wire' = [wire EXCEPT ![e] = Tail(@)] /\ failures' = failures
    BY <1>11 DEF DeliveryFails, ReceiveFault, FrameArrives
  <2>2. Close(e, "degraded")
    <3>1. Verdict(e, Head(wire[e])) \notin PeerFault
      BY <2>1, HonestVerdict
    <3>2. CASE DeliveryFails(e)
      BY <3>2 DEF DeliveryFails
    <3>3. CASE ReceiveFault(e)
      <4>1. PICK verdict \in PeerFault \cup {"physicalGap"} :
              /\ Verdict(e, Head(wire[e])) = verdict
              /\ Close(e, IF verdict \in PeerFault THEN verdict ELSE "degraded")
        BY <3>3 DEF ReceiveFault, FrameArrives
      <4>2. verdict \notin PeerFault
        BY <3>1, <4>1
      <4> QED BY <4>1, <4>2
    <3> QED BY <1>11, <3>2, <3>3
  <2>3. Sub(wire')
    BY <1>7, <2>1
  <2> QED BY <1>1, <2>1, <2>2, <2>3, CloseKeeps
<1>12. ASSUME NEW e \in Endpoint, Receive(e)
       PROVE  IInv'
  BY <1>8, <1>9, <1>10, <1>11, <1>12, FragmentKeeps, LastKeeps DEF Receive
<1>13. ASSUME NEW e \in Endpoint,
              GraceExpires(e) \/ AssemblyExpires(e) \/ MarkDegraded(e) \/ Dispose(e)
       PROVE  IInv'
  BY <1>4, <1>13 DEF GraceExpires, AssemblyExpires, MarkDegraded, Dispose
<1>14. ASSUME NEW e \in Endpoint, NEW i \in DOMAIN wire[e], Lose(e, i)
       PROVE  IInv'
  <2>1. /\ wire' = [wire EXCEPT ![e] = SubSeq(@, 1, i - 1) \o SubSeq(@, i + 1, Len(@))]
        /\ failures' \in Nat
        /\ UNCHANGED <<queueVars, ackVars, assemblerVars, cursor, highestFullySent,
                       pendingAck, delivered, phase>>
    BY <1>1, <1>14 DEF Lose
  <2>2. Sub(wire')
    BY <1>1, <2>1, LossIsSub
  <2> QED BY <2>1, <2>2, WireOnlyKeeps
<1> QED BY <1>2, <1>3, <1>5, <1>6, <1>12, <1>13, <1>14 DEF Next

\* Everything the two ends know about each other, in every reachable state.
THEOREM Invariance == Spec => []IInv
<1>1. Init => IInv
  BY InitIInv
<1>2. IInv /\ [Next]_vars => IInv'
  BY NextKeeps
<1> QED BY <1>1, <1>2, PTL DEF Spec

-----------------------------------------------------------------------------
(* What follows from it *)

\* The counters, queues and wires of both ends keep their types, whatever the
\* relay drops and however a flush is cut short.
THEOREM TypeCorrect == Spec => []TypeOK
<1>1. IInv => TypeOK
  BY DEF IInv
<1> QED BY <1>1, Invariance, PTL

\* Two ends that run this code never fault each other (processAck's futureAck,
\* the assembler's gap, mismatch and conflict errors).
THEOREM HonestFaults == Spec => []OnlyHonestFaults
<1>1. IInv => OnlyHonestFaults
  BY DEF IInv
<1> QED BY <1>1, Invariance, PTL

\* releaseThrough lets go of a frame only when the peer has delivered its message.
THEOREM ReleaseIsSafe == Spec => []ReleasedWasDelivered
<1>1. ASSUME IInv
      PROVE  ReleasedWasDelivered
  <2> SUFFICES ASSUME NEW e \in Endpoint, IsOpen(e), NEW i \in 1..head[e] - 1
               PROVE  frames[e][i].messageSeq <= Len(delivered[Peer(e)])
    BY DEF ReleasedWasDelivered
  <2> DEFINE bs == batches[e]
             log == frames[e]
             mi == log[i].messageSeq
             acked == lastAcked[e]
             E(k) == End(bs, k)
             index == log[i].fragmentIndex
             done == Len(delivered[Peer(e)])
             n == Len(log)
             b == Len(bs)
  <2>1. /\ TypeOK /\ QueueOK(log, bs) /\ SenderOK(e) /\ Peer(e) \in Endpoint
    BY <1>1, PeerFacts DEF IInv
  <2>2. /\ acked \in Nat /\ done \in Nat /\ n \in Nat /\ b \in Nat /\ head[e] \in Nat
        /\ log \in Seq(Frame) /\ bs \in Seq(Batch)
    BY <2>1, TypeFacts, LengthFacts
  <2>3. /\ acked <= done /\ done <= highestFullySent[e] /\ highestFullySent[e] <= b
        /\ head[e] = E(acked) + 1 /\ highestFullySent[e] \in Nat
    BY <2>1, TypeFacts DEF SenderOK
  <2>4. /\ \A k \in 0..b : E(k) \in Nat /\ E(k) <= n
        /\ \A k, l \in 0..b : k <= l => E(k) <= E(l)
        /\ DOMAIN log = 1..n /\ DOMAIN bs = 1..b
    BY <2>1, <2>2, EndFacts
  <2>5. i \in Nat /\ i <= E(acked) /\ i \in DOMAIN log /\ acked \in 0..b
    <3> HIDE DEF E, acked, done, b, n, log
    <3>1. acked \in 0..b
      BY <2>2, <2>3
    <3>2. E(acked) \in Nat /\ E(acked) <= n
      BY <2>4, <3>1
    <3> QED BY <2>2, <2>3, <2>4, <3>1, <3>2
  <2>6. mi \in 1..b /\ i = E(mi - 1) + index + 1
    BY <2>1, <2>4, <2>5 DEF QueueOK
  <2>7. index \in Nat
    <3>1. log[i] \in Frame
      BY <2>2, <2>5
    <3> QED BY <3>1 DEF Frame
  <2>8. ASSUME mi > acked
        PROVE  FALSE
    <3> HIDE DEF E, acked, done, b, n, log, mi, index
    <3>1. mi - 1 \in 0..b /\ acked <= mi - 1
      BY <2>2, <2>5, <2>6, <2>8
    <3>2. E(acked) <= E(mi - 1) /\ E(mi - 1) \in Nat /\ E(acked) \in Nat
      BY <2>4, <2>5, <3>1
    <3> QED BY <2>5, <2>6, <2>7, <3>2
  <2>9. mi \in Nat
    BY <2>2, <2>6
  <2> HIDE DEF mi, acked, done
  <2>10. mi <= done
    BY <2>2, <2>3, <2>8, <2>9
  <2> QED BY <2>10 DEF mi, done
<1> QED BY <1>1, Invariance, PTL

\* unacknowledgedByteCount measures exactly what a replay would send, and
\* reserveMessage keeps it within the replay buffer.
THEOREM AdmissionCorrect == Spec => []AdmissionIsExact
<1>1. IInv => AdmissionIsExact
  BY DEF IInv, SenderOK, AdmissionIsExact
<1> QED BY <1>1, Invariance, PTL

\* A producer that was told to stop has a backlog whose ack will wake it.
THEOREM BackPressureCorrect == Spec => []BackPressureIsLive
<1>1. IInv => BackPressureIsLive
  BY DEF IInv, SenderOK, BackPressureIsLive
<1> QED BY <1>1, Invariance, PTL

-----------------------------------------------------------------------------
(* The protocol implements a FIFO channel *)

\* Reserving a message is handing it to the channel.
LEMMA ReserveSends ==
  ASSUME IInv, NEW e \in Endpoint, NEW m \in Message, Reserve(e, m)
  PROVE  Fifo!Send(e, m)
<1> DEFINE bs == batches[e]
           new == [message |-> m, lastSeq |-> Len(frames'[e])]
           s == Sent[e]
           t == [k \in DOMAIN batches'[e] |-> batches'[e][k].message]
<1>1. /\ TypeOK /\ bs \in Seq(Batch) /\ Len(bs) \in Nat
  BY TypeFacts, LengthFacts DEF IInv
<1>2. /\ delivered' = delivered
      /\ frames' = [frames EXCEPT ![e] = frames[e] \o Encoded(Len(frames[e]) + 1, Len(bs) + 1, m)]
      /\ batches' = [batches EXCEPT ![e] = Append(@, [message |-> m, lastSeq |->
              Len(frames[e] \o Encoded(Len(frames[e]) + 1, Len(bs) + 1, m))])]
  BY DEF Reserve
<1>3. /\ batches' = [batches EXCEPT ![e] = Append(bs, new)]
      /\ \A x \in Endpoint : x # e => batches'[x] = batches[x]
      /\ batches'[e] = Append(bs, new)
  <2>1. frames'[e] = frames[e] \o Encoded(Len(frames[e]) + 1, Len(bs) + 1, m)
    BY <1>1, <1>2 DEF TypeOK
  <2>2. batches' = [batches EXCEPT ![e] = Append(bs, new)]
    BY <1>2, <2>1
  <2> HIDE DEF new
  <2> QED BY <1>1, <2>2 DEF TypeOK
<1>4. /\ s \in Seq(Message) /\ Len(s) = Len(bs)
      /\ \A k \in 1..Len(bs) : s[k] = bs[k].message
  <2>1. s = [k \in 1..Len(bs) |-> bs[k].message]
    BY <1>1 DEF Sent
  <2>2. \A k \in 1..Len(bs) : bs[k].message \in Message
    <3>1. \A k \in 1..Len(bs) : bs[k] \in Batch
      BY <1>1
    <3> QED BY <3>1 DEF Batch
  <2> HIDE DEF s, bs
  <2> QED BY <1>1, <2>1, <2>2
<1>5. /\ Append(s, m) \in Seq(Message) /\ Len(Append(s, m)) = Len(bs) + 1
      /\ \A k \in 1..Len(bs) : Append(s, m)[k] = bs[k].message
      /\ Append(s, m)[Len(bs) + 1] = m
  <2> HIDE DEF s, bs
  <2> QED BY <1>1, <1>4, AppendProperties
<1>6. /\ DOMAIN Append(bs, new) = 1..Len(bs) + 1
      /\ \A k \in 1..Len(bs) : Append(bs, new)[k] = bs[k]
      /\ Append(bs, new)[Len(bs) + 1] = new
  <2>1. new \in Batch
    <3>1. TypeOK'
      BY ReserveKeeps DEF IInv
    <3>2. frames'[e] \in Seq(Frame)
      BY <3>1 DEF TypeOK
    <3>3. Len(frames'[e]) \in Nat
      BY <3>2, LenProperties
    <3> QED BY <3>3 DEF Batch
  <2> HIDE DEF bs, new
  <2> QED BY <1>1, <2>1, AppendProperties
<1>7. new.message = m
  OBVIOUS
<1>8. t = Append(s, m)
  <2> HIDE DEF s, new
  <2>1. t = [k \in 1..Len(bs) + 1 |-> Append(bs, new)[k].message]
    BY <1>3, <1>6
  <2>2. \A k \in 1..Len(bs) + 1 : Append(bs, new)[k].message = Append(s, m)[k]
    <3>1. \A k \in 1..Len(bs) + 1 : k \in 1..Len(bs) \/ k = Len(bs) + 1
      BY <1>1
    <3> QED BY <1>5, <1>6, <1>7, <3>1, Zenon
  <2>3. Append(s, m) = [k \in 1..Len(bs) + 1 |-> Append(s, m)[k]]
    <3> DEFINE u == Append(s, m)
    <3>1. u \in Seq(Message) /\ Len(u) = Len(bs) + 1
      BY <1>5
    <3> HIDE DEF u, bs
    <3>2. u \in [1..Len(bs) + 1 -> Message]
      BY <3>1, LenProperties
    <3>3. u = [k \in 1..Len(bs) + 1 |-> u[k]]
      BY <3>2, Zenon
    <3> QED BY <3>3, Zenon DEF u
  <2> HIDE DEF t, bs
  <2> QED BY <2>1, <2>2, <2>3
<1>9. Sent' = [Sent EXCEPT ![e] = Append(@, m)]
  <2>1. Sent' = [x \in Endpoint |-> [k \in DOMAIN batches'[x] |-> batches'[x][k].message]]
    BY DEF Sent
  <2>2. [Sent EXCEPT ![e] = Append(@, m)]
          = [x \in Endpoint |-> IF x = e THEN Append(s, m) ELSE Sent[x]]
    BY DEF Sent
  <2>3. \A x \in Endpoint : x # e =>
          [k \in DOMAIN batches'[x] |-> batches'[x][k].message] = Sent[x]
    BY <1>3 DEF Sent
  <2>4. \A x \in Endpoint : [k \in DOMAIN batches'[x] |-> batches'[x][k].message]
                           = IF x = e THEN Append(s, m) ELSE Sent[x]
    <3> HIDE DEF s
    <3> QED BY <1>8, <2>3
  <2> QED BY <2>1, <2>2, <2>4
<1> QED BY <1>2, <1>9 DEF Fifo!Send

\* Firing a message to the listener is taking the next one out of the channel.
LEMMA LastDelivers ==
  ASSUME IInv, NEW e \in Endpoint, ReceiveLast(e)
  PROVE  Fifo!Deliver(e)
<1> DEFINE bs == batches[Peer(e)]
           done == Len(delivered[e])
           msg == [payload |-> Head(wire[e]).checksum, fragments |-> Len(active[e]) + 1]
<1>1. Peer(e) \in Endpoint /\ TypeOK /\ bs \in Seq(Batch) /\ Len(bs) \in Nat /\ done \in Nat
  BY PeerFacts, TypeFacts, LengthFacts DEF IInv
<1>2. done + 1 \in DOMAIN bs /\ msg = bs[done + 1].message
  BY LastMessage
<1>3. delivered' = [delivered EXCEPT ![e] = Append(@, msg)] /\ batches' = batches
  BY DEF ReceiveLast, queueVars
<1> HIDE DEF msg
<1>4. Sent[Peer(e)] = [k \in 1..Len(bs) |-> bs[k].message]
  BY <1>1 DEF Sent
<1>5. Len(Sent[Peer(e)]) = Len(bs) /\ Sent[Peer(e)][done + 1] = msg
  <2>1. DOMAIN bs = 1..Len(bs)
    BY <1>1
  <2> HIDE DEF bs, done
  <2> QED BY <1>1, <1>2, <1>4, <2>1
<1>6. done < Len(bs)
  BY <1>1, <1>2
<1>7. Sent' = Sent
  BY <1>3 DEF Sent
<1> QED BY <1>3, <1>5, <1>6, <1>7 DEF Fifo!Deliver

LEMMA StepSimulation ==
  ASSUME IInv, [Next]_vars
  PROVE  [Fifo!Next]_<<Sent, delivered>>
<1>1. ASSUME NEW e \in Endpoint, NEW m \in Message, Reserve(e, m)
      PROVE  Fifo!Next
  BY <1>1, ReserveSends DEF Fifo!Next
<1>2. ASSUME NEW e \in Endpoint, ReceiveLast(e)
      PROVE  Fifo!Next
  BY <1>2, LastDelivers DEF Fifo!Next
<1>3. ASSUME UNCHANGED <<batches, delivered>>
      PROVE  UNCHANGED <<Sent, delivered>>
  BY <1>3 DEF Sent
<1>4. CASE UNCHANGED vars
  BY <1>3, <1>4 DEF vars, queueVars
<1>5. ASSUME NEW e \in Endpoint,
             \/ FlushPending(e) \/ ReplayUnacknowledged(e) \/ ReplayCutShort(e)
             \/ ReceiveAck(e) \/ ReceiveStaleAck(e) \/ ReceiveDuplicate(e)
             \/ ReceiveFragment(e) \/ DeliveryFails(e) \/ ReceiveFault(e) \/ Discard(e)
             \/ GraceExpires(e) \/ AssemblyExpires(e) \/ MarkDegraded(e) \/ Dispose(e)
      PROVE  UNCHANGED <<batches, delivered>>
  <2>1. CASE FlushPending(e) \/ ReplayUnacknowledged(e) \/ ReplayCutShort(e)
    BY <2>1 DEF FlushPending, ReplayUnacknowledged, ReplayCutShort, queueVars
  <2>2. CASE ReceiveAck(e)
    BY <2>2 DEF ReceiveAck, Close, Released
  <2>3. CASE ReceiveStaleAck(e) \/ ReceiveDuplicate(e) \/ ReceiveFragment(e) \/ Discard(e)
    BY <2>3 DEF ReceiveStaleAck, ReceiveDuplicate, ReceiveFragment, Discard, queueVars
  <2>4. CASE DeliveryFails(e) \/ ReceiveFault(e)
    BY <2>4 DEF DeliveryFails, ReceiveFault, Close
  <2>5. CASE GraceExpires(e) \/ AssemblyExpires(e) \/ MarkDegraded(e) \/ Dispose(e)
    BY <2>5 DEF GraceExpires, AssemblyExpires, MarkDegraded, Dispose, Close
  <2> QED BY <1>5, <2>1, <2>2, <2>3, <2>4, <2>5
<1>6. ASSUME NEW e \in Endpoint, NEW m \in Message, ReserveRefused(e, m)
      PROVE  UNCHANGED <<batches, delivered>>
  BY <1>6 DEF ReserveRefused, Close
<1>7. ASSUME NEW e \in Endpoint, NEW i \in DOMAIN wire[e], Lose(e, i)
      PROVE  UNCHANGED <<batches, delivered>>
  BY <1>7 DEF Lose, queueVars
<1> QED BY <1>1, <1>2, <1>3, <1>4, <1>5, <1>6, <1>7 DEF Next, Receive

\* Loss, replay, duplication and cut flushes stay below the RPC layer: what it
\* hands in and what it gets out is FifoDelivery.
THEOREM Refinement == Spec => ImplementsFifo
<1>1. Init => Fifo!Init
  BY DEF Init, Fifo!Init, Sent
<1>2. IInv /\ [Next]_vars => [Fifo!Next]_<<Sent, delivered>>
  BY StepSimulation
<1> QED BY <1>1, <1>2, Invariance, PTL DEF Spec, ImplementsFifo, Fifo!Spec, Fifo!vars

=============================================================================
