------------------------- MODULE CommandInbox_proofs -------------------------
(* The inductive invariants of CommandInbox and the proofs of its safety      *)
(* properties: the types and the exclusion of double admission for every      *)
(* history, the transcript and the cached index while no runtime is restarted. *)
EXTENDS CommandInbox, FiniteSetTheorems, SequenceTheorems, TLAPS

\* Where a request is the head of the gate of its key, where it is in the gate
\* of the session, and where it is the head of that.
HeadOfKey == Waiting \ {"keyGate"}
InSession == {"sessionGate", "lookupAgain", "prepare", "decide"} \cup Executing
HeadOfSession == InSession \ {"sessionGate"}

\* A request has a key while it is under way; only an input is admitted.
CommandsOK ==
  \A c \in Caller : /\ pc[c] = "idle" <=> command[c] = NoCommand
                    /\ pc[c] \in {"admit", "cancel"} => command[c] \in Input

\* Each gate holds once each of the requests that have asked for it and not
\* given it up, and whoever has passed it is at its head.
KeyGatesOK ==
  /\ \A k \in Command : /\ IsInjective(keyGate[k])
                        /\ ToSet(keyGate[k]) = {c \in Caller : pc[c] \in Waiting /\ command[c] = k}
  /\ \A c \in Caller : pc[c] \in HeadOfKey => Head(keyGate[command[c]]) = c

SessionGateOK ==
  /\ IsInjective(sessionGate)
  /\ ToSet(sessionGate) = {c \in Caller : pc[c] \in InSession}
  /\ \A c \in Caller : pc[c] \in HeadOfSession => Head(sessionGate) = c

\* What a request has found by its lookups still holds until it acts on it.
Knows(c) ==
  /\ pc[c] \in {"lookup", "sessionGate", "lookupAgain", "prepare", "decide"} =>
       ~ InFlight(command[c])
  /\ pc[c] \in {"lookupAgain", "prepare", "decide", "admit"} => command[c] \notin live
  /\ pc[c] = "execute" /\ command[c] \in Input => command[c] \in live
  /\ pc[c] \in {"execute", "cancel"} /\ command[c] \in Input => core[command[c]] = "none"
LookedUp == \A c \in Caller : Knows(c)

\* What the runtime works on is pinned.
PinnedOK == \A k \in Input : core[k] # "none" => k \in live

IInv == TypeOK /\ CommandsOK /\ KeyGatesOK /\ SessionGateOK /\ LookedUp /\ PinnedOK

\* Without a restart, ledger and transcript agree, the runtime has no input
\* whose promotion it repeats, and whoever is about to execute an input has
\* seen that it is not in the transcript.
Unreleased == restarts = 0 /\ session \in {"unloaded", "ready"}
Entered == \A k \in Input : entered[k] = IF ledger[k] = "promoted" THEN 1 ELSE 0
Sees(c) ==
  pc[c] \in {"prepare", "decide", "admit", "execute", "cancel"} /\ command[c] \in Input =>
    ledger[command[c]] # "promoted"
Fresh ==
  /\ \A k \in Input : core[k] = "pending" => ledger[k] # "promoted"
  /\ \A c \in Caller : Sees(c)
TInv == Unreleased /\ Entered /\ Fresh /\ IndexKnowsTranscript

-----------------------------------------------------------------------------
(* Queues and tables: sequences without repetition *)

LEMMA Sequence ==
  ASSUME NEW S, NEW s \in Seq(S)
  PROVE  Len(s) \in Nat /\ DOMAIN s = 1..Len(s) /\ \A i \in 1..Len(s) : s[i] \in S
OBVIOUS

\* The head leaves.
LEMMA HeadLeaves ==
  ASSUME NEW S, NEW s \in Seq(S), s # <<>>, IsInjective(s)
  PROVE  /\ Tail(s) \in Seq(S) /\ IsInjective(Tail(s))
         /\ ToSet(Tail(s)) = ToSet(s) \ {Head(s)}
<1> DEFINE rest == Tail(s)
<1>1. Len(s) \in Nat \ {0} /\ DOMAIN s = 1..Len(s) /\ Head(s) = s[1]
  BY EmptySeq, Sequence
<1>2. /\ rest \in Seq(S) /\ DOMAIN rest = 1..(Len(s) - 1)
      /\ \A i \in 1..(Len(s) - 1) : rest[i] = s[i + 1]
  BY <1>1, HeadTailProperties, Sequence
<1> HIDE DEF rest
<1>3. IsInjective(rest)
  <2> SUFFICES ASSUME NEW i \in 1..(Len(s) - 1), NEW j \in 1..(Len(s) - 1), rest[i] = rest[j]
               PROVE  i = j
    BY <1>2 DEF IsInjective
  <2>1. (i + 1) \in DOMAIN s /\ (j + 1) \in DOMAIN s /\ s[i + 1] = s[j + 1]
    BY <1>1, <1>2
  <2> QED BY <1>1, <2>1 DEF IsInjective
<1>4. ToSet(rest) = ToSet(s) \ {Head(s)}
  <2>1. ASSUME NEW x \in ToSet(rest) PROVE x \in ToSet(s) \ {Head(s)}
    <3>1. PICK i \in 1..(Len(s) - 1) : x = s[i + 1]
      BY <1>2 DEF ToSet
    <3>2. (i + 1) \in DOMAIN s /\ i + 1 # 1 /\ 1 \in DOMAIN s
      BY <1>1
    <3> QED BY <1>1, <3>1, <3>2 DEF ToSet, IsInjective
  <2>2. ASSUME NEW x \in ToSet(s) \ {Head(s)} PROVE x \in ToSet(rest)
    <3>1. PICK i \in 1..Len(s) : x = s[i]
      BY <1>1 DEF ToSet
    <3>2. i # 1
      BY <1>1, <3>1
    <3>3. (i - 1) \in 1..(Len(s) - 1) /\ rest[i - 1] = x
      BY <1>1, <1>2, <3>1, <3>2
    <3> QED BY <1>2, <3>3 DEF ToSet
  <2> QED BY <2>1, <2>2
<1> QED BY <1>2, <1>3, <1>4 DEF rest

LEMMA HeadIsIn ==
  ASSUME NEW S, NEW s \in Seq(S), s # <<>> PROVE Head(s) \in ToSet(s)
<1>1. Len(s) \in Nat \ {0} /\ DOMAIN s = 1..Len(s) /\ Head(s) = s[1]
  BY EmptySeq, Sequence
<1> QED BY <1>1 DEF ToSet

LEMMA EmptyHasNone ==
  ASSUME NEW S, NEW s \in Seq(S) PROVE s = <<>> <=> ToSet(s) = {}
<1>1. DOMAIN s = 1..Len(s) /\ Len(s) \in Nat /\ (s = <<>> => Len(s) = 0)
  BY EmptySeq, Sequence
<1>2. CASE s = <<>>
  BY <1>1, <1>2 DEF ToSet
<1>3. CASE s # <<>>
  BY <1>3, HeadIsIn
<1> QED BY <1>2, <1>3

\* One more at the end.
LEMMA OneMore ==
  ASSUME NEW S, NEW s \in Seq(S), IsInjective(s), NEW x \in S, x \notin ToSet(s)
  PROVE  /\ Append(s, x) \in Seq(S) /\ IsInjective(Append(s, x))
         /\ ToSet(Append(s, x)) = ToSet(s) \cup {x}
         /\ Len(Append(s, x)) = Len(s) + 1
         /\ s # <<>> => Head(Append(s, x)) = Head(s)
<1> DEFINE more == Append(s, x)
<1>1. Len(s) \in Nat /\ DOMAIN s = 1..Len(s)
  BY Sequence
<1>2. /\ more \in Seq(S) /\ Len(more) = Len(s) + 1 /\ DOMAIN more = 1..(Len(s) + 1)
      /\ \A i \in 1..Len(s) : more[i] = s[i]
      /\ more[Len(s) + 1] = x
  BY <1>1, AppendProperties, Sequence
<1> HIDE DEF more
<1>3. \A i \in 1..Len(s) : s[i] # x
  BY <1>1 DEF ToSet
<1>4. \A i \in 1..(Len(s) + 1) : i \in 1..Len(s) \/ i = Len(s) + 1
  BY <1>1
<1>5. IsInjective(more)
  BY <1>1, <1>2, <1>3, <1>4 DEF IsInjective
<1>6. ToSet(more) = ToSet(s) \cup {x}
  <2>1. ASSUME NEW y \in ToSet(more) PROVE y \in ToSet(s) \cup {x}
    BY <1>1, <1>2, <1>4, <2>1 DEF ToSet
  <2>2. ASSUME NEW y \in ToSet(s) \cup {x} PROVE y \in ToSet(more)
    <3>1. (Len(s) + 1) \in DOMAIN more /\ \A i \in DOMAIN s : i \in DOMAIN more
      BY <1>1, <1>2
    <3> QED BY <1>1, <1>2, <2>2, <3>1 DEF ToSet
  <2> QED BY <2>1, <2>2
<1>7. s # <<>> => Head(more) = Head(s)
  <2> SUFFICES ASSUME s # <<>> PROVE Head(more) = Head(s)
    OBVIOUS
  <2>1. Len(s) \in Nat \ {0}
    BY EmptySeq
  <2>2. 1 \in 1..Len(s) /\ Head(s) = s[1] /\ Head(more) = more[1]
    BY <2>1, <1>2
  <2> QED BY <1>2, <2>2
<1> QED BY <1>2, <1>5, <1>6, <1>7 DEF more

\* A place is the last one or there is one after it.
LEMMA EndOrNot == ASSUME NEW l \in Nat, NEW n \in 0..l PROVE n + 1 <= l \/ n = l
OBVIOUS

\* A key leaves the table.
LEMMA OneLess ==
  ASSUME NEW S, NEW p \in Seq(S), IsInjective(p), NEW a
  PROVE  /\ Without(p, a) \in Seq(S) /\ IsInjective(Without(p, a))
         /\ a \notin ToSet(Without(p, a)) /\ Len(Without(p, a)) <= Len(p)
<1>0. Len(p) \in Nat
  OBVIOUS
<1> DEFINE k == CHOOSE k \in DOMAIN p : p[k] = a
           rest == Without(p, a)
<1>a. CASE a \notin ToSet(p)
  BY <1>0, <1>a DEF Without
<1> SUFFICES ASSUME a \in ToSet(p)
             PROVE  rest \in Seq(S) /\ IsInjective(rest) /\ a \notin ToSet(rest) /\ Len(rest) <= Len(p)
  BY <1>a
<1>1. k \in 1..Len(p) /\ p[k] = a /\ Len(p) \in Nat /\ DOMAIN p = 1..Len(p)
      /\ \A i \in 1..Len(p) : p[i] \in S
  BY DEF ToSet
<1>2. rest = SubSeq(p, 1, k - 1) \o SubSeq(p, k + 1, Len(p))
  BY DEF Without, RemoveAt
<1> HIDE DEF k, rest
<1>3. /\ rest \in Seq(S) /\ Len(rest) = Len(p) - 1 /\ DOMAIN rest = 1..(Len(p) - 1)
      /\ \A i \in 1..(Len(p) - 1) : rest[i] = IF i < k THEN p[i] ELSE p[i + 1]
  <2> DEFINE u == SubSeq(p, 1, k - 1)
             v == SubSeq(p, k + 1, Len(p))
  <2>1. /\ u \in Seq(S) /\ Len(u) = IF 1 <= k - 1 THEN (k - 1) - 1 + 1 ELSE 0
        /\ \A i \in 1..((k - 1) - 1 + 1) : u[i] = p[1 + i - 1]
    BY <1>1, SubSeqProperties
  <2>2. /\ v \in Seq(S) /\ Len(v) = IF k + 1 <= Len(p) THEN Len(p) - (k + 1) + 1 ELSE 0
        /\ \A i \in 1..(Len(p) - (k + 1) + 1) : v[i] = p[(k + 1) + i - 1]
    BY <1>1, SubSeqProperties
  <2>3. rest = u \o v
    BY <1>2
  <2> HIDE DEF u, v
  <2>4. Len(u) = k - 1 /\ Len(v) = Len(p) - k
    <3>1. Len(u) = k - 1
      BY <1>1, <2>1
    <3>2. CASE k + 1 <= Len(p)
      BY <1>1, <2>2, <3>1, <3>2
    <3>3. CASE k = Len(p)
      BY <1>1, <2>2, <3>1, <3>3, SMTT(30)
    <3>4. k + 1 <= Len(p) \/ k = Len(p)
      <4>1. k \in 0..Len(p)
        BY <1>1
      <4> QED BY <1>1, <4>1, EndOrNot
    <3> QED BY <3>2, <3>3, <3>4
  <2>5. /\ rest \in Seq(S) /\ Len(rest) = Len(u) + Len(v)
        /\ \A i \in 1..(Len(u) + Len(v)) : rest[i] = IF i <= Len(u) THEN u[i] ELSE v[i - Len(u)]
    BY <2>1, <2>2, <2>3, ConcatProperties
  <2>6. ASSUME NEW i \in 1..(Len(p) - 1) PROVE rest[i] = IF i < k THEN p[i] ELSE p[i + 1]
    <3>1. i \in 1..(Len(u) + Len(v)) /\ k \in Nat
      BY <1>1, <2>4
    <3>2. CASE i < k
      <4>1. i \in 1..((k - 1) - 1 + 1) /\ i <= Len(u) /\ 1 + i - 1 = i
        BY <1>1, <2>4, <3>2
      <4> QED BY <2>1, <2>5, <3>1, <3>2, <4>1
    <3>3. CASE ~ (i < k)
      <4>1. /\ (i - (k - 1)) \in 1..(Len(p) - (k + 1) + 1) /\ ~ (i <= Len(u))
            /\ (k + 1) + (i - (k - 1)) - 1 = i + 1 /\ i - Len(u) = i - (k - 1)
        BY <1>1, <2>4, <3>1, <3>3
      <4> QED BY <2>2, <2>5, <3>1, <3>3, <4>1
    <3> QED BY <3>2, <3>3
  <2> QED BY <1>1, <2>4, <2>5, <2>6
<1>4. IsInjective(rest)
  BY <1>1, <1>3, SMTT(30) DEF IsInjective
<1>5. a \notin ToSet(rest)
  <2> SUFFICES ASSUME NEW i \in 1..(Len(p) - 1) PROVE rest[i] # a
    BY <1>3 DEF ToSet
  <2>1. PICK j \in 1..Len(p) : rest[i] = p[j] /\ j # k
    BY <1>1, <1>3
  <2> QED BY <1>1, <2>1 DEF IsInjective
<1> QED BY <1>1, <1>3, <1>4, <1>5

\* The table is trimmed.
LEMMA Trimmed ==
  ASSUME NEW S, NEW p \in Seq(S), IsInjective(p)
  PROVE  Latest(p) \in Seq(S) /\ IsInjective(Latest(p)) /\ Len(Latest(p)) <= SettledMax
<1> DEFINE first == IF Len(p) > SettledMax THEN Len(p) - SettledMax + 1 ELSE 1
           rest == Latest(p)
<1>0. SettledMax \in Nat \ {0} /\ Len(p) \in Nat /\ DOMAIN p = 1..Len(p)
      /\ \A i \in 1..Len(p) : p[i] \in S
  BY BoundAssumption, Sequence
<1>1. rest = SubSeq(p, first, Len(p))
  BY DEF Latest
<1>2. first \in Nat \ {0} /\ first <= Len(p) + 1 /\ Len(p) - first + 1 <= SettledMax
  BY <1>0
<1> HIDE DEF first, rest
<1>3. /\ rest \in Seq(S) /\ Len(rest) = IF first <= Len(p) THEN Len(p) - first + 1 ELSE 0
      /\ \A i \in 1..(Len(p) - first + 1) : rest[i] = p[first + i - 1]
  BY <1>0, <1>1, <1>2, SubSeqProperties
<1>4. Len(rest) = Len(p) - first + 1
  BY <1>0, <1>2, <1>3
<1>5. DOMAIN rest = 1..(Len(p) - first + 1)
  BY <1>3, <1>4, Sequence
<1>6. IsInjective(rest)
  <2> SUFFICES ASSUME NEW i \in 1..(Len(p) - first + 1), NEW j \in 1..(Len(p) - first + 1),
                      rest[i] = rest[j]
               PROVE  i = j
    BY <1>5 DEF IsInjective
  <2>1. /\ (first + i - 1) \in DOMAIN p /\ (first + j - 1) \in DOMAIN p
        /\ p[first + i - 1] = p[first + j - 1]
    BY <1>0, <1>2, <1>3
  <2>2. first + i - 1 = first + j - 1
    BY <2>1 DEF IsInjective
  <2> QED BY <1>0, <1>2, <2>2
<1> QED BY <1>2, <1>3, <1>4, <1>6 DEF rest

\* The table of what has settled, with its limit.
Table(keys) == keys \in Seq(Command) /\ Len(keys) <= SettledMax /\ IsInjective(keys)

LEMMA TableKept ==
  ASSUME NEW keys, Table(keys), NEW k \in Command
  PROVE  Table(Touched(keys, k)) /\ Table(Without(keys, k))
<1> DEFINE less == Without(keys, k)
<1>1. less \in Seq(Command) /\ IsInjective(less) /\ k \notin ToSet(less) /\ Len(less) <= Len(keys)
  BY OneLess DEF Table
<1>2. Append(less, k) \in Seq(Command) /\ IsInjective(Append(less, k))
  BY <1>1, OneMore
<1>3. Table(Touched(keys, k))
  BY <1>2, Trimmed DEF Touched, Table
<1>4. Table(less)
  <2>1. Len(less) \in Nat /\ Len(keys) \in Nat /\ Len(keys) <= SettledMax /\ SettledMax \in Nat
    BY <1>1, BoundAssumption DEF Table
  <2> QED BY <1>1, <2>1 DEF Table
<1> QED BY <1>3, <1>4

\* A write that settles rows promotes none and unpromotes none.
SameTranscript(rows, others) ==
  \A k \in Input : others[k] = "promoted" <=> rows[k] = "promoted"

LEMMA SettledRows ==
  ASSUME NEW rows \in [Input -> Status], NEW keys, NEW status \in {"discarded", "cancelled", "failed"}
  PROVE  Settled(rows, keys, status) \in [Input -> Status]
         /\ SameTranscript(rows, Settled(rows, keys, status))
BY DEF Settled, Status, SameTranscript

-----------------------------------------------------------------------------
(* The gates *)

Await == Waiting \cup Executing
GatesTyped ==
  /\ pc \in [Caller -> {"idle"} \cup Await]
  /\ command \in [Caller -> Command \cup {NoCommand}] /\ queryOnly \in [Caller -> BOOLEAN]
  /\ keyGate \in [Command -> Seq(Caller)] /\ sessionGate \in Seq(Caller)
GatesOK == GatesTyped /\ CommandsOK /\ KeyGatesOK /\ SessionGateOK

\* A request that is answered or admitted holds whatever it gives up.
Grants(c) ==
  /\ pc[c] # "idle"
  /\ pc[c] \in Waiting => Head(keyGate[command[c]]) = c
  /\ pc[c] \in InSession => Head(sessionGate) = c

\* Only c moves.
Others(c) == \A d \in Caller \ {c} : pc'[d] = pc[d] /\ command'[d] = command[d]

LEMMA OfGates ==
  ASSUME IInv PROVE GatesOK /\ \A c \in Caller : pc[c] # "idle" => command[c] \in Command
<1>1. GatesOK
  BY DEF IInv, TypeOK, GatesOK, GatesTyped, Await
<1> QED BY <1>1 DEF IInv, TypeOK, CommandsOK

LEMMA KeyQueue ==
  ASSUME GatesOK, NEW c \in Caller, pc[c] \in Waiting
  PROVE  /\ command[c] \in Command /\ keyGate[command[c]] \in Seq(Caller)
         /\ IsInjective(keyGate[command[c]]) /\ c \in ToSet(keyGate[command[c]])
         /\ keyGate[command[c]] # <<>>
<1>1. /\ command[c] \in Command /\ keyGate[command[c]] \in Seq(Caller)
      /\ IsInjective(keyGate[command[c]]) /\ c \in ToSet(keyGate[command[c]])
  BY DEF GatesOK, GatesTyped, CommandsOK, KeyGatesOK, Waiting
<1> QED BY <1>1, EmptyHasNone

LEMMA SessionQueue ==
  ASSUME GatesOK
  PROVE  /\ sessionGate \in Seq(Caller) /\ IsInjective(sessionGate)
         /\ \A c \in Caller : pc[c] \in InSession => c \in ToSet(sessionGate) /\ sessionGate # <<>>
         /\ \A c \in Caller : pc[c] \in InSession /\ Head(sessionGate) = c => HoldsSession(c)
         /\ \A c \in Caller : HoldsSession(c) => pc[c] \in InSession /\ Head(sessionGate) = c
<1>1. sessionGate \in Seq(Caller) /\ IsInjective(sessionGate)
  BY DEF GatesOK, GatesTyped, SessionGateOK
<1>2. \A c \in Caller : pc[c] \in InSession => c \in ToSet(sessionGate) /\ sessionGate # <<>>
  BY <1>1, EmptyHasNone DEF GatesOK, SessionGateOK
<1>3. sessionGate # <<>> => Head(sessionGate) \in ToSet(sessionGate)
  BY <1>1, HeadIsIn
<1> QED BY <1>1, <1>2, <1>3 DEF HoldsSession, GatesOK, SessionGateOK

\* The request goes on without asking for a gate or giving one up.
LEMMA GoesOn ==
  ASSUME GatesOK, NEW c \in Caller, NEW await \in Await, pc[c] # "idle", Goto(c, await), KeepGates,
         pc[c] \in Waiting <=> await \in Waiting,
         pc[c] \in InSession <=> await \in InSession,
         await \in HeadOfKey => Head(keyGate[command[c]]) = c,
         await \in HeadOfSession => Head(sessionGate) = c,
         await \in {"admit", "cancel"} => command[c] \in Input
  PROVE  GatesOK' /\ Others(c) /\ pc'[c] = await /\ command'[c] = command[c]
<1>1. /\ pc' = [pc EXCEPT ![c] = await] /\ pc \in [Caller -> {"idle"} \cup Await]
      /\ command' = command /\ queryOnly' = queryOnly
      /\ keyGate' = keyGate /\ sessionGate' = sessionGate
  BY DEF Goto, KeepGates, GatesOK, GatesTyped
<1>2. pc'[c] = await /\ Others(c) /\ pc' \in [Caller -> {"idle"} \cup Await]
  BY <1>1 DEF Others
<1>3. GatesTyped'
  BY <1>1, <1>2 DEF GatesOK, GatesTyped
<1>4. CommandsOK'
  BY <1>1, <1>2 DEF GatesOK, CommandsOK, Others, Await, Waiting, Executing
<1>5. KeyGatesOK'
  <2>1. ASSUME NEW k \in Command
        PROVE  {d \in Caller : pc'[d] \in Waiting /\ command'[d] = k}
                 = {d \in Caller : pc[d] \in Waiting /\ command[d] = k}
    BY <1>1, <1>2 DEF Others
  <2>2. ASSUME NEW d \in Caller, pc'[d] \in HeadOfKey PROVE Head(keyGate'[command'[d]]) = d
    BY <1>1, <1>2, <2>2 DEF Others, GatesOK, KeyGatesOK
  <2> QED BY <1>1, <2>1, <2>2 DEF GatesOK, KeyGatesOK
<1>6. SessionGateOK'
  <2>1. {d \in Caller : pc'[d] \in InSession} = {d \in Caller : pc[d] \in InSession}
    BY <1>1, <1>2 DEF Others
  <2>2. ASSUME NEW d \in Caller, pc'[d] \in HeadOfSession PROVE Head(sessionGate') = d
    BY <1>1, <1>2, <2>2 DEF Others, GatesOK, SessionGateOK
  <2> QED BY <1>1, <2>1, <2>2 DEF GatesOK, SessionGateOK
<1> QED BY <1>1, <1>2, <1>3, <1>4, <1>5, <1>6 DEF GatesOK

\* The key gate passes to the next request, and the session gate does not move.
LEMMA KeyGatePasses ==
  ASSUME GatesOK, NEW c \in Caller, pc[c] \in Waiting, Head(keyGate[command[c]]) = c, Others(c),
         keyGate' = [keyGate EXCEPT ![command[c]] = Tail(@)], pc'[c] \notin Waiting
  PROVE  KeyGatesOK' /\ keyGate' \in [Command -> Seq(Caller)]
<1> DEFINE k0 == command[c]
           q == keyGate[k0]
<1>1. k0 \in Command /\ q \in Seq(Caller) /\ IsInjective(q) /\ q # <<>> /\ Head(q) = c
  BY KeyQueue
<1>2. Tail(q) \in Seq(Caller) /\ IsInjective(Tail(q)) /\ ToSet(Tail(q)) = ToSet(q) \ {c}
  BY <1>1, HeadLeaves
<1>3. /\ keyGate' \in [Command -> Seq(Caller)] /\ keyGate'[k0] = Tail(q)
      /\ \A k \in Command \ {k0} : keyGate'[k] = keyGate[k]
  BY <1>1, <1>2 DEF GatesOK, GatesTyped
<1>4. ASSUME NEW k \in Command
      PROVE  IsInjective(keyGate'[k])
             /\ ToSet(keyGate'[k]) = {d \in Caller : pc'[d] \in Waiting /\ command'[d] = k}
  <2>1. /\ IsInjective(keyGate[k])
        /\ ToSet(keyGate[k]) = {d \in Caller : pc[d] \in Waiting /\ command[d] = k}
    BY DEF GatesOK, KeyGatesOK
  <2>2. {d \in Caller : pc'[d] \in Waiting /\ command'[d] = k}
          = {d \in Caller : pc[d] \in Waiting /\ command[d] = k} \ {c}
    BY DEF Others
  <2>3. CASE k = k0
    BY <1>2, <1>3, <2>1, <2>2, <2>3
  <2>4. CASE k # k0
    BY <1>3, <2>1, <2>2, <2>4
  <2> QED BY <2>3, <2>4
<1>5. ASSUME NEW d \in Caller, pc'[d] \in HeadOfKey PROVE Head(keyGate'[command'[d]]) = d
  <2>1. d # c /\ pc[d] \in HeadOfKey /\ command'[d] = command[d]
    BY <1>5 DEF Others, HeadOfKey
  <2>2. Head(keyGate[command[d]]) = d /\ command[d] \in Command
    BY <2>1, KeyQueue DEF GatesOK, KeyGatesOK, HeadOfKey
  <2>3. command[d] # k0
    BY <1>1, <2>1, <2>2
  <2> QED BY <1>3, <2>1, <2>2, <2>3
<1> QED BY <1>3, <1>4, <1>5 DEF KeyGatesOK

\* A request that executes has no key gate.
LEMMA KeyGateStays ==
  ASSUME GatesOK, NEW c \in Caller, pc[c] \notin Waiting, Others(c), keyGate' = keyGate,
         pc'[c] \notin Waiting
  PROVE  KeyGatesOK' /\ keyGate' \in [Command -> Seq(Caller)]
<1>1. ASSUME NEW k \in Command
      PROVE  {d \in Caller : pc'[d] \in Waiting /\ command'[d] = k}
               = {d \in Caller : pc[d] \in Waiting /\ command[d] = k}
  BY DEF Others
<1>2. ASSUME NEW d \in Caller, pc'[d] \in HeadOfKey PROVE Head(keyGate'[command'[d]]) = d
  <2>1. d # c /\ pc[d] \in HeadOfKey /\ command'[d] = command[d]
    BY <1>2 DEF Others, HeadOfKey
  <2> QED BY <2>1 DEF GatesOK, KeyGatesOK
<1> QED BY <1>1, <1>2 DEF GatesOK, GatesTyped, KeyGatesOK

\* The decision to execute.
LEMMA KeyGateGivenUp ==
  ASSUME GatesOK, NEW c \in Caller, pc[c] = "decide", NEW await \in {"admit", "execute"}, Goto(c, await),
         keyGate' = [keyGate EXCEPT ![command[c]] = Tail(@)],
         UNCHANGED <<command, queryOnly, sessionGate>>, await = "admit" => command[c] \in Input
  PROVE  GatesOK' /\ Others(c) /\ pc'[c] = await /\ command'[c] = command[c]
<1>1. /\ pc' = [pc EXCEPT ![c] = await] /\ pc \in [Caller -> {"idle"} \cup Await]
      /\ command' = command /\ queryOnly' = queryOnly /\ sessionGate' = sessionGate
  BY DEF Goto, GatesOK, GatesTyped
<1>2. pc'[c] = await /\ Others(c) /\ pc' \in [Caller -> {"idle"} \cup Await]
  BY <1>1 DEF Others, Await, Executing
<1>3. Head(keyGate[command[c]]) = c /\ Head(sessionGate) = c
  BY DEF GatesOK, KeyGatesOK, SessionGateOK, HeadOfKey, HeadOfSession, InSession, Waiting
<1>4. KeyGatesOK' /\ keyGate' \in [Command -> Seq(Caller)]
  BY <1>2, <1>3, KeyGatePasses DEF Waiting
<1>5. CommandsOK'
  BY <1>1, <1>2 DEF GatesOK, CommandsOK, Others
<1>6. SessionGateOK'
  <2>1. {d \in Caller : pc'[d] \in InSession} = {d \in Caller : pc[d] \in InSession}
    BY <1>2 DEF Others, InSession, Executing
  <2>2. ASSUME NEW d \in Caller, pc'[d] \in HeadOfSession PROVE Head(sessionGate') = d
    BY <1>1, <1>2, <1>3, <2>2 DEF Others, GatesOK, SessionGateOK
  <2> QED BY <1>1, <2>1, <2>2 DEF GatesOK, SessionGateOK
<1> QED BY <1>1, <1>2, <1>4, <1>5, <1>6 DEF GatesOK, GatesTyped

\* An answer, at whatever await it comes.
LEMMA Answered ==
  ASSUME GatesOK, NEW c \in Caller, Grants(c), Answer(c)
  PROVE  GatesOK' /\ Others(c) /\ pc'[c] = "idle"
<1>1. /\ pc' = [pc EXCEPT ![c] = "idle"] /\ pc \in [Caller -> {"idle"} \cup Await]
      /\ command' = [command EXCEPT ![c] = NoCommand]
      /\ queryOnly' = [queryOnly EXCEPT ![c] = FALSE]
      /\ sessionGate' = IF HoldsSession(c) THEN Tail(sessionGate) ELSE sessionGate
      /\ keyGate' = [keyGate EXCEPT ![command[c]] = IF pc[c] \in Executing THEN @ ELSE Tail(@)]
  BY DEF Answer, Goto, GatesOK, GatesTyped, SessionGateAfterAnswer
<1>2. /\ pc'[c] = "idle" /\ command'[c] = NoCommand /\ Others(c)
      /\ pc' \in [Caller -> {"idle"} \cup Await]
      /\ command' \in [Caller -> Command \cup {NoCommand}] /\ queryOnly' \in [Caller -> BOOLEAN]
  BY <1>1 DEF Others, GatesOK, GatesTyped
<1>3. pc[c] \in Waiting \/ pc[c] \in Executing
  BY DEF Grants, GatesOK, GatesTyped, Await
<1>4. KeyGatesOK' /\ keyGate' \in [Command -> Seq(Caller)]
  <2>1. CASE pc[c] \in Waiting
    <3>1. pc[c] \notin Executing
      BY <2>1 DEF Waiting, Executing
    <3> QED BY <1>1, <1>2, <2>1, <3>1, KeyGatePasses DEF Grants, Waiting
  <2>2. CASE pc[c] \in Executing
    <3>1. pc[c] \notin Waiting
      BY <2>2 DEF Waiting, Executing
    <3>2. keyGate' = keyGate
      BY <1>1, <2>2 DEF GatesOK, GatesTyped
    <3> QED BY <1>2, <3>1, <3>2, KeyGateStays DEF Waiting
  <2> QED BY <1>3, <2>1, <2>2
<1>5. CommandsOK'
  BY <1>2 DEF GatesOK, CommandsOK, Others
<1>6. SessionGateOK' /\ sessionGate' \in Seq(Caller)
  <2>1. {d \in Caller : pc'[d] \in InSession} = {d \in Caller : pc[d] \in InSession} \ {c}
    BY <1>2 DEF Others, InSession, Executing
  <2>2. "idle" \notin HeadOfSession
    BY DEF HeadOfSession, InSession, Executing
  <2>3. CASE pc[c] \in InSession
    <3>1. HoldsSession(c) /\ Head(sessionGate) = c /\ sessionGate # <<>>
      BY <2>3, SessionQueue DEF Grants
    <3>2. /\ sessionGate' \in Seq(Caller) /\ IsInjective(sessionGate')
          /\ ToSet(sessionGate') = ToSet(sessionGate) \ {c}
      BY <1>1, <3>1, SessionQueue, HeadLeaves
    <3>3. \A d \in Caller : pc'[d] \notin HeadOfSession
      BY <1>2, <2>2, <3>1 DEF Others, GatesOK, SessionGateOK
    <3> QED BY <2>1, <3>2, <3>3 DEF GatesOK, SessionGateOK
  <2>4. CASE pc[c] \notin InSession
    <3>1. ~ HoldsSession(c)
      BY <2>4, SessionQueue
    <3>2. sessionGate' = sessionGate
      BY <1>1, <3>1
    <3>3. ASSUME NEW d \in Caller, pc'[d] \in HeadOfSession PROVE Head(sessionGate') = d
      BY <1>2, <2>2, <3>2, <3>3 DEF Others, GatesOK, SessionGateOK
    <3> QED BY <2>1, <2>4, <3>2, <3>3 DEF GatesOK, GatesTyped, SessionGateOK
  <2> QED BY <2>3, <2>4
<1> QED BY <1>2, <1>4, <1>5, <1>6 DEF GatesOK, GatesTyped

\* A new request asks for the gate of its key.
LEMMA Joins ==
  ASSUME GatesOK, NEW c \in Caller, pc[c] = "idle", NEW k \in Command, NEW query \in BOOLEAN,
         Call(c, k, query)
  PROVE  GatesOK' /\ Others(c) /\ pc'[c] = "keyGate"
<1> DEFINE q == keyGate[k]
<1>1. /\ pc' = [pc EXCEPT ![c] = "keyGate"] /\ pc \in [Caller -> {"idle"} \cup Await]
      /\ command' = [command EXCEPT ![c] = k]
      /\ queryOnly' = [queryOnly EXCEPT ![c] = query]
      /\ keyGate' = [keyGate EXCEPT ![k] = Append(q, c)] /\ sessionGate' = sessionGate
  BY DEF Call, Goto, GatesOK, GatesTyped
<1>2. /\ pc'[c] = "keyGate" /\ command'[c] = k /\ Others(c)
      /\ pc' \in [Caller -> {"idle"} \cup Await]
      /\ command' \in [Caller -> Command \cup {NoCommand}] /\ queryOnly' \in [Caller -> BOOLEAN]
  BY <1>1 DEF Others, GatesOK, GatesTyped, Await, Waiting
<1>3. /\ q \in Seq(Caller) /\ IsInjective(q)
      /\ ToSet(q) = {d \in Caller : pc[d] \in Waiting /\ command[d] = k}
  BY DEF GatesOK, GatesTyped, KeyGatesOK
<1>4. c \notin ToSet(q)
  BY <1>3 DEF Waiting
<1>5. /\ Append(q, c) \in Seq(Caller) /\ IsInjective(Append(q, c))
      /\ ToSet(Append(q, c)) = ToSet(q) \cup {c}
      /\ q # <<>> => Head(Append(q, c)) = Head(q)
  BY <1>3, <1>4, OneMore
<1>6. /\ keyGate' \in [Command -> Seq(Caller)] /\ keyGate'[k] = Append(q, c)
      /\ \A j \in Command \ {k} : keyGate'[j] = keyGate[j]
  BY <1>1, <1>5 DEF GatesOK, GatesTyped
<1> HIDE DEF q
<1>7. CommandsOK'
  BY <1>2, CommandAssumption DEF GatesOK, CommandsOK, Others
<1>8. KeyGatesOK'
  <2>1. ASSUME NEW j \in Command
        PROVE  IsInjective(keyGate'[j])
               /\ ToSet(keyGate'[j]) = {d \in Caller : pc'[d] \in Waiting /\ command'[d] = j}
    <3>1. /\ IsInjective(keyGate[j])
          /\ ToSet(keyGate[j]) = {d \in Caller : pc[d] \in Waiting /\ command[d] = j}
      BY DEF GatesOK, KeyGatesOK
    <3>2. CASE j = k
      <4>1. {d \in Caller : pc'[d] \in Waiting /\ command'[d] = k}
              = {d \in Caller : pc[d] \in Waiting /\ command[d] = k} \cup {c}
        BY <1>2 DEF Others, Waiting
      <4> QED BY <1>3, <1>5, <1>6, <3>2, <4>1
    <3>3. CASE j # k
      <4>1. {d \in Caller : pc'[d] \in Waiting /\ command'[d] = j}
              = {d \in Caller : pc[d] \in Waiting /\ command[d] = j}
        BY <1>2, <3>3 DEF Others, Waiting
      <4> QED BY <1>6, <3>1, <3>3, <4>1
    <3> QED BY <3>2, <3>3
  <2>2. ASSUME NEW d \in Caller, pc'[d] \in HeadOfKey PROVE Head(keyGate'[command'[d]]) = d
    <3>1. d # c /\ pc[d] \in HeadOfKey /\ command'[d] = command[d]
      BY <1>2, <2>2 DEF Others, HeadOfKey
    <3>2. Head(keyGate[command[d]]) = d /\ command[d] \in Command /\ keyGate[command[d]] # <<>>
      BY <3>1, KeyQueue DEF GatesOK, KeyGatesOK, HeadOfKey
    <3> QED BY <1>5, <1>6, <3>1, <3>2 DEF q
  <2> QED BY <2>1, <2>2 DEF KeyGatesOK
<1>9. SessionGateOK'
  <2>1. {d \in Caller : pc'[d] \in InSession} = {d \in Caller : pc[d] \in InSession}
    BY <1>2 DEF Others, InSession, Executing
  <2>2. ASSUME NEW d \in Caller, pc'[d] \in HeadOfSession PROVE Head(sessionGate') = d
    <3>1. d # c
      BY <1>2, <2>2 DEF HeadOfSession, InSession, Executing
    <3> QED BY <1>1, <1>2, <2>2, <3>1 DEF Others, GatesOK, SessionGateOK
  <2> QED BY <1>1, <2>1, <2>2 DEF GatesOK, SessionGateOK
<1> QED BY <1>1, <1>2, <1>6, <1>7, <1>8, <1>9 DEF GatesOK, GatesTyped

\* A request that was not found asks for the gate of the session.
LEMMA AsksForSession ==
  ASSUME GatesOK, NEW c \in Caller, pc[c] = "lookup", Goto(c, "sessionGate"),
         sessionGate' = Append(sessionGate, c), UNCHANGED <<command, queryOnly, keyGate>>
  PROVE  GatesOK' /\ Others(c) /\ pc'[c] = "sessionGate" /\ command'[c] = command[c]
<1>1. /\ pc' = [pc EXCEPT ![c] = "sessionGate"] /\ pc \in [Caller -> {"idle"} \cup Await]
      /\ command' = command /\ queryOnly' = queryOnly /\ keyGate' = keyGate
  BY DEF Goto, GatesOK, GatesTyped
<1>2. /\ pc'[c] = "sessionGate" /\ Others(c) /\ pc' \in [Caller -> {"idle"} \cup Await]
  BY <1>1 DEF Others, Await, Waiting
<1>3. c \notin ToSet(sessionGate)
  BY DEF GatesOK, SessionGateOK, InSession, Executing
<1>4. /\ sessionGate' \in Seq(Caller) /\ IsInjective(sessionGate')
      /\ ToSet(sessionGate') = ToSet(sessionGate) \cup {c}
      /\ sessionGate # <<>> => Head(sessionGate') = Head(sessionGate)
  BY <1>3, OneMore, SessionQueue
<1>5. CommandsOK'
  BY <1>1, <1>2 DEF GatesOK, CommandsOK, Others
<1>6. KeyGatesOK'
  <2>1. ASSUME NEW k \in Command
        PROVE  {d \in Caller : pc'[d] \in Waiting /\ command'[d] = k}
                 = {d \in Caller : pc[d] \in Waiting /\ command[d] = k}
    BY <1>1, <1>2 DEF Others, Waiting
  <2>2. ASSUME NEW d \in Caller, pc'[d] \in HeadOfKey PROVE Head(keyGate'[command'[d]]) = d
    BY <1>1, <1>2, <2>2 DEF Others, GatesOK, KeyGatesOK, HeadOfKey, Waiting
  <2> QED BY <1>1, <2>1, <2>2 DEF GatesOK, KeyGatesOK
<1>7. SessionGateOK'
  <2>1. {d \in Caller : pc'[d] \in InSession} = {d \in Caller : pc[d] \in InSession} \cup {c}
    BY <1>2 DEF Others, InSession
  <2>2. ASSUME NEW d \in Caller, pc'[d] \in HeadOfSession PROVE Head(sessionGate') = d
    <3>1. d # c /\ pc[d] \in HeadOfSession /\ pc[d] \in InSession
      BY <1>2, <2>2 DEF Others, HeadOfSession
    <3> QED BY <1>4, <3>1, SessionQueue DEF GatesOK, SessionGateOK
  <2> QED BY <1>4, <2>1, <2>2 DEF GatesOK, SessionGateOK
<1> QED BY <1>1, <1>2, <1>4, <1>5, <1>6, <1>7 DEF GatesOK, GatesTyped

\* Only the head of the session gate is past it.
LEMMA OneExecutes ==
  ASSUME GatesOK, NEW c \in Caller, NEW d \in Caller, pc[c] \in HeadOfSession, pc[d] \in HeadOfSession
  PROVE  c = d
BY DEF GatesOK, SessionGateOK

\* Only the head of a key gate decides on the key.
LEMMA OneDecides ==
  ASSUME GatesOK, NEW c \in Caller, NEW d \in Caller, pc[c] \in HeadOfKey, pc[d] \in HeadOfKey,
         command[c] = command[d]
  PROVE  c = d
BY DEF GatesOK, KeyGatesOK

-----------------------------------------------------------------------------
(* The steps of a request *)

RestTyped ==
  /\ live \subseteq Input /\ Table(settled)
  /\ indexLoaded \in BOOLEAN /\ index \subseteq Input
  /\ session \in Residency
  /\ core \in [Input -> InCore] /\ ledger \in [Input -> Status]
  /\ entered \in [Input -> Nat]

LEMMA Parts == IInv <=> GatesOK /\ RestTyped /\ LookedUp /\ PinnedOK
BY DEF IInv, TypeOK, GatesOK, GatesTyped, RestTyped, Table, Await

\* The request at c executes only what it has executed or has decided on, and
\* it touches pins and runtime only past the session gate.
Orderly(c) ==
  /\ pc'[c] \in Executing => pc[c] \in Executing \cup {"decide"} /\ command'[c] = command[c]
  /\ pc[c] \in HeadOfSession \/ UNCHANGED <<live, core>>

LEMMA OthersKnow ==
  ASSUME IInv, NEW c \in Caller, Others(c), Orderly(c), NEW d \in Caller, d # c
  PROVE  Knows(d)'
<1>1. pc'[d] = pc[d] /\ command'[d] = command[d] /\ Knows(d) /\ GatesOK
  BY OfGates DEF Others, IInv, LookedUp
<1>2. ASSUME pc[d] \in {"lookup", "sessionGate", "lookupAgain", "prepare", "decide"}, InFlight(command[d])'
      PROVE  FALSE
  <2>1. PICK e \in Caller : pc'[e] \in Executing /\ command'[e] = command[d]
    BY <1>1, <1>2 DEF InFlight
  <2>2. ~ InFlight(command[d])
    BY <1>1, <1>2 DEF Knows
  <2>3. CASE e # c
    BY <2>1, <2>2, <2>3 DEF Others, InFlight
  <2>4. CASE e = c
    <3>1. pc[c] = "decide" /\ command[c] = command[d]
      BY <2>1, <2>2, <2>4 DEF Orderly, InFlight
    <3>2. pc[c] \in HeadOfKey /\ pc[d] \in HeadOfKey
      BY <1>2, <3>1 DEF HeadOfKey, Waiting
    <3> QED BY <1>1, <3>1, <3>2, OneDecides
  <2> QED BY <2>3, <2>4
<1>3. CASE pc[c] \in HeadOfSession
  <2>1. pc[d] \notin HeadOfSession
    BY <1>1, <1>3, OneExecutes
  <2>2. pc[d] \notin {"lookupAgain", "prepare", "decide", "admit", "execute", "cancel"}
    BY <2>1 DEF HeadOfSession, InSession, Executing
  <2>3. /\ pc'[d] \in {"lookup", "sessionGate", "lookupAgain", "prepare", "decide"} => ~ InFlight(command[d])'
        /\ pc'[d] \notin {"lookupAgain", "prepare", "decide", "admit"}
        /\ pc'[d] # "execute" /\ pc'[d] \notin {"execute", "cancel"}
    BY <1>1, <1>2, <2>2
  <2> QED BY <2>3 DEF Knows
<1>4. CASE live' = live /\ core' = core
  <2>1. pc'[d] \in {"lookup", "sessionGate", "lookupAgain", "prepare", "decide"} => ~ InFlight(command[d])'
    BY <1>1, <1>2
  <2> QED BY <1>1, <1>4, <2>1 DEF Knows
<1> QED BY <1>3, <1>4 DEF Orderly

LEMMA RequestStep ==
  ASSUME IInv, NEW c \in Caller, Others(c), Orderly(c), GatesOK', RestTyped', Knows(c)', PinnedOK'
  PROVE  IInv'
<1>1. LookedUp'
  BY OthersKnow DEF LookedUp
<1> QED BY <1>1, Parts DEF IInv, TypeOK, GatesOK, GatesTyped, RestTyped, Table, Await

LEMMA StillNotInFlight ==
  ASSUME NEW c \in Caller, Others(c), pc'[c] \notin Executing, ~ InFlight(command[c]),
         command'[c] = command[c]
  PROVE  ~ InFlight(command[c])'
BY DEF InFlight, Others

\* An answer keeps the invariant, with what the request has done to the
\* stores.
LEMMA AnswerKeeps ==
  ASSUME IInv, NEW c \in Caller, Grants(c), Answer(c), RestTyped', PinnedOK',
         pc[c] \in HeadOfSession \/ UNCHANGED <<live, core>>
  PROVE  IInv'
<1>1. GatesOK' /\ Others(c) /\ pc'[c] = "idle"
  BY OfGates, Answered
<1>2. Orderly(c) /\ Knows(c)'
  BY <1>1 DEF Orderly, Knows, Executing
<1> QED BY <1>1, <1>2, RequestStep

\* Whoever is past a gate is its head.
LEMMA HoldsGates ==
  ASSUME IInv, NEW c \in Caller, pc[c] \in HeadOfKey \cup Executing, pc[c] # "sessionGate"
  PROVE  Grants(c)
BY DEF IInv, KeyGatesOK, SessionGateOK, Grants, HeadOfKey, HeadOfSession, InSession, Waiting, Executing

LEMMA Command0 ==
  ASSUME IInv, NEW c \in Caller, pc[c] # "idle"
  PROVE  command[c] \in Command /\ RestTyped /\ PinnedOK /\ Knows(c) /\ GatesOK
BY OfGates, Parts DEF IInv, LookedUp

LEMMA AwaitFinalKeeps == ASSUME IInv, NEW c \in Caller, AwaitFinal(c) PROVE IInv'
<1>1. /\ pc[c] = "keyGate" /\ Head(keyGate[command[c]]) = c /\ Goto(c, "final") /\ KeepGates
      /\ UNCHANGED <<live, settled, indexLoaded, index, session, core, ledger, entered>>
  BY DEF AwaitFinal, KeyGranted, At, memoryVars, indexVars
<1>2. GatesOK' /\ Others(c) /\ pc'[c] = "final"
  BY <1>1, OfGates, GoesOn DEF Await, Waiting, Executing, InSession, HeadOfKey, HeadOfSession
<1>3. RestTyped' /\ PinnedOK'
  BY <1>1, Command0 DEF RestTyped, PinnedOK
<1>4. Orderly(c) /\ Knows(c)'
  BY <1>1, <1>2 DEF Orderly, Knows, Executing
<1> QED BY <1>2, <1>3, <1>4, RequestStep

LEMMA FinalArrivesKeeps == ASSUME IInv, NEW c \in Caller, FinalArrives(c) PROVE IInv'
<1>1. /\ pc[c] = "final" /\ Answer(c)
      /\ UNCHANGED <<live, settled, indexLoaded, index, session, core, ledger, entered>>
  BY DEF FinalArrives, At, memoryVars, indexVars
<1>2. Grants(c)
  BY <1>1, HoldsGates DEF HeadOfKey, Waiting
<1>3. RestTyped' /\ PinnedOK'
  BY <1>1, Command0 DEF RestTyped, PinnedOK
<1> QED BY <1>1, <1>2, <1>3, AnswerKeeps

\* A lookup in memory, before or behind the session gate.
LEMMA LookupMemoryKeeps ==
  ASSUME IInv, NEW c \in Caller, Grants(c), ~ InFlight(command[c]),
         NEW next \in {"lookup", "lookupAgain"}, LookupMemory(c, next),
         pc[c] = IF next = "lookup" THEN "keyGate" ELSE "sessionGate"
  PROVE  IInv'
<1>1. /\ UNCHANGED <<live, indexLoaded, index, session, core, ledger, entered>>
      /\ command[c] \in Command /\ RestTyped /\ PinnedOK /\ GatesOK
  BY Command0 DEF LookupMemory, indexVars
<1>2. PinnedOK'
  BY <1>1 DEF PinnedOK
<1>3. CASE Remembered(command[c])
  <2>1. Answer(c) /\ settled' \in {settled, Touched(settled, command[c])}
    BY <1>3 DEF LookupMemory
  <2>2. RestTyped'
    BY <1>1, <2>1, TableKept DEF RestTyped
  <2> QED BY <1>1, <1>2, <2>1, <2>2, AnswerKeeps
<1>4. CASE ~ Remembered(command[c])
  <2>1. Goto(c, next) /\ KeepGates /\ settled' = settled
    BY <1>4 DEF LookupMemory
  <2>2. RestTyped'
    BY <1>1, <2>1 DEF RestTyped
  <2>3. /\ pc[c] \in Waiting <=> next \in Waiting
        /\ pc[c] \in InSession <=> next \in InSession
        /\ pc[c] \in Waiting /\ pc[c] # "idle" /\ next \in Await
        /\ next \notin {"admit", "cancel"} /\ next \notin Executing
        /\ next \in HeadOfSession => pc[c] \in InSession
    BY DEF Await, Waiting, Executing, InSession, HeadOfSession
  <2>4. GatesOK' /\ Others(c) /\ pc'[c] = next /\ command'[c] = command[c]
    BY <1>1, <2>1, <2>3, GoesOn DEF Grants
  <2>5. ~ InFlight(command[c])'
    BY <2>3, <2>4, StillNotInFlight
  <2>6. command[c] \notin live'
    BY <1>1, <1>4 DEF Remembered
  <2>7. Knows(c)'
    BY <2>4, <2>5, <2>6 DEF Knows
  <2>8. Orderly(c)
    BY <1>1, <2>3, <2>4 DEF Orderly
  <2> QED BY <1>2, <2>2, <2>4, <2>7, <2>8, RequestStep
<1> QED BY <1>3, <1>4

LEMMA FirstLookupKeeps == ASSUME IInv, NEW c \in Caller, FirstLookup(c) PROVE IInv'
<1>1. /\ pc[c] = "keyGate" /\ Head(keyGate[command[c]]) = c /\ ~ InFlight(command[c])
      /\ LookupMemory(c, "lookup")
  BY DEF FirstLookup, KeyGranted, At
<1>2. Grants(c)
  BY <1>1 DEF Grants, InSession, Executing
<1> QED BY <1>1, <1>2, LookupMemoryKeeps

LEMMA SecondLookupKeeps == ASSUME IInv, NEW c \in Caller, SecondLookup(c) PROVE IInv'
<1>1. pc[c] = "sessionGate" /\ HoldsSession(c) /\ LookupMemory(c, "lookupAgain")
  BY DEF SecondLookup, At
<1>2. Grants(c) /\ ~ InFlight(command[c])
  BY <1>1, Command0 DEF Grants, HoldsSession, IInv, KeyGatesOK, HeadOfKey, Waiting, Knows
<1> QED BY <1>1, <1>2, LookupMemoryKeeps

LEMMA FactsTyped == ASSUME NEW rows PROVE Facts(rows) \subseteq Input
BY DEF Facts

\* What a lookup through the index does to the stores.
LEMMA LookupRows ==
  ASSUME RestTyped, NEW swept, NEW rows \in {ledger, Settled(ledger, swept, "discarded")}
  PROVE  rows \in [Input -> Status] /\ SameTranscript(ledger, rows)
BY SettledRows DEF RestTyped, SameTranscript

LEMMA LookupFactsKeeps == ASSUME IInv, NEW c \in Caller, LookupFacts(c) PROVE IInv'
<1>1. PICK rows : /\ rows = IF ~ indexLoaded /\ SweepsOnLoad
                            THEN Settled(ledger, Input, "discarded") ELSE ledger
                  /\ ledger' = rows /\ indexLoaded' = TRUE
                  /\ index' = IF indexLoaded THEN index ELSE Facts(rows)
  BY DEF LookupFacts
<1>2. /\ pc[c] \in {"lookup", "lookupAgain"}
      /\ UNCHANGED <<live, settled, session, core, entered>>
      /\ command[c] \in Command /\ RestTyped /\ PinnedOK /\ GatesOK /\ Knows(c) /\ Grants(c)
  BY Command0, HoldsGates DEF LookupFacts, At, memoryVars, HeadOfKey, Waiting, Executing
<1>3. RestTyped' /\ PinnedOK'
  <2>1. ledger' \in [Input -> Status]
    BY <1>1, <1>2, LookupRows
  <2>2. index' \subseteq Input
    BY <1>1, <1>2, FactsTyped DEF RestTyped
  <2> QED BY <1>1, <1>2, <2>1, <2>2 DEF RestTyped, PinnedOK
<1>4. CASE Answer(c)
  BY <1>2, <1>3, <1>4, AnswerKeeps
<1>5. CASE ~ Answer(c) /\ pc[c] = "lookup"
  <2>1. /\ Goto(c, "sessionGate") /\ sessionGate' = Append(sessionGate, c)
        /\ UNCHANGED <<command, queryOnly, keyGate>>
    BY <1>5 DEF LookupFacts, At
  <2>2. GatesOK' /\ Others(c) /\ pc'[c] = "sessionGate" /\ command'[c] = command[c]
    BY <1>2, <1>5, <2>1, AsksForSession
  <2>3. ~ InFlight(command[c])'
    BY <1>2, <1>5, <2>2, StillNotInFlight DEF Knows, Executing
  <2>4. Knows(c)' /\ Orderly(c)
    BY <1>2, <2>2, <2>3 DEF Knows, Orderly, Executing
  <2> QED BY <1>3, <2>2, <2>4, RequestStep
<1>6. CASE ~ Answer(c) /\ pc[c] = "lookupAgain"
  <2>1. Goto(c, "prepare") /\ KeepGates
    BY <1>6 DEF LookupFacts, At, KeepGates
  <2>2. GatesOK' /\ Others(c) /\ pc'[c] = "prepare" /\ command'[c] = command[c]
    BY <1>2, <1>6, <2>1, GoesOn DEF Await, Waiting, Executing, InSession, HeadOfKey, HeadOfSession, Grants
  <2>3. ~ InFlight(command[c])'
    BY <1>2, <1>6, <2>2, StillNotInFlight DEF Knows, Executing
  <2>4. Knows(c)' /\ Orderly(c)
    BY <1>2, <1>6, <2>2, <2>3 DEF Knows, Orderly, Executing
  <2> QED BY <1>3, <2>2, <2>4, RequestStep
<1> QED BY <1>2, <1>4, <1>5, <1>6

LEMMA LookupFailsKeeps == ASSUME IInv, NEW c \in Caller, LookupFails(c) PROVE IInv'
<1>1. PICK swept \in SUBSET Input :
        ledger' = IF SweepsOnLoad THEN Settled(ledger, swept, "discarded") ELSE ledger
  BY DEF LookupFails
<1>2. /\ pc[c] \in {"lookup", "lookupAgain"} /\ Answer(c)
      /\ UNCHANGED <<live, settled, indexLoaded, index, session, core, entered>>
  BY DEF LookupFails, At, memoryVars, indexVars
<1>3. RestTyped /\ PinnedOK /\ Grants(c)
  BY <1>2, Command0, HoldsGates DEF HeadOfKey, Waiting, Executing
<1>4. ledger' \in [Input -> Status]
  BY <1>1, <1>3, LookupRows
<1>5. RestTyped' /\ PinnedOK'
  BY <1>2, <1>3, <1>4 DEF RestTyped, PinnedOK
<1> QED BY <1>2, <1>3, <1>5, AnswerKeeps

LEMMA PrepareKeeps == ASSUME IInv, NEW c \in Caller, Prepare(c) PROVE IInv'
<1>1. /\ pc[c] = "prepare" /\ (Answer(c) \/ (Goto(c, "decide") /\ KeepGates))
      /\ UNCHANGED <<live, settled, indexLoaded, index, session, core, ledger, entered>>
  BY DEF Prepare, At, memoryVars, indexVars
<1>2. RestTyped /\ PinnedOK /\ Grants(c) /\ Knows(c) /\ GatesOK
  BY <1>1, Command0, HoldsGates DEF HeadOfKey, Waiting, Executing
<1>3. RestTyped' /\ PinnedOK'
  BY <1>1, <1>2 DEF RestTyped, PinnedOK
<1>4. CASE Answer(c)
  BY <1>1, <1>2, <1>3, <1>4, AnswerKeeps
<1>5. CASE Goto(c, "decide") /\ KeepGates
  <2>1. GatesOK' /\ Others(c) /\ pc'[c] = "decide" /\ command'[c] = command[c]
    BY <1>1, <1>2, <1>5, GoesOn DEF Await, Waiting, Executing, InSession, HeadOfKey, HeadOfSession, Grants
  <2>2. ~ InFlight(command[c])'
    BY <1>1, <1>2, <2>1, StillNotInFlight DEF Knows, Executing
  <2>3. Knows(c)' /\ Orderly(c)
    BY <1>1, <1>2, <2>1, <2>2 DEF Knows, Orderly, Executing
  <2> QED BY <1>3, <2>1, <2>3, RequestStep
<1> QED BY <1>1, <1>4, <1>5

LEMMA RefuseKeeps == ASSUME IInv, NEW c \in Caller, Refuse(c) \/ Noop(c) PROVE IInv'
<1>1. /\ pc[c] = "decide" /\ Answer(c) /\ settled' \in {settled, Touched(settled, command[c])}
      /\ UNCHANGED <<live, indexLoaded, index, session, core, ledger, entered>>
  BY DEF Refuse, Noop, At, memoryVars, indexVars
<1>2. command[c] \in Command /\ RestTyped /\ PinnedOK /\ Grants(c)
  BY <1>1, Command0, HoldsGates DEF HeadOfKey, Waiting, Executing
<1>3. RestTyped' /\ PinnedOK'
  BY <1>1, <1>2, TableKept DEF RestTyped, PinnedOK
<1> QED BY <1>1, <1>2, <1>3, AnswerKeeps

LEMMA AllowKeeps == ASSUME IInv, NEW c \in Caller, Allow(c) PROVE IInv'
<1> DEFINE await == IF command[c] \in Input THEN "admit" ELSE "execute"
<1>1. /\ pc[c] = "decide" /\ Goto(c, await)
      /\ keyGate' = [keyGate EXCEPT ![command[c]] = Tail(@)]
      /\ UNCHANGED <<command, queryOnly, sessionGate>>
      /\ UNCHANGED <<live, settled, indexLoaded, index, session, core, ledger, entered>>
  BY DEF Allow, At, memoryVars, indexVars
<1>2. RestTyped /\ PinnedOK /\ Knows(c) /\ GatesOK
  BY <1>1, Command0
<1>3. RestTyped' /\ PinnedOK'
  BY <1>1, <1>2 DEF RestTyped, PinnedOK
<1>4. await \in {"admit", "execute"} /\ (await = "admit" <=> command[c] \in Input)
  OBVIOUS
<1> HIDE DEF await
<1>5. GatesOK' /\ Others(c) /\ pc'[c] = await /\ command'[c] = command[c]
  BY <1>1, <1>2, <1>4, KeyGateGivenUp
<1>6. Knows(c)' /\ Orderly(c)
  BY <1>1, <1>2, <1>4, <1>5 DEF Knows, Orderly, HeadOfSession, InSession
<1> QED BY <1>3, <1>5, <1>6, RequestStep

\* A step of the execution that does not end the request.
LEMMA Executes ==
  ASSUME IInv, NEW c \in Caller, pc[c] \in Executing, NEW await \in Executing \ {"admit"},
         await = "cancel" => command[c] \in Input, Goto(c, await), KeepGates
  PROVE  GatesOK' /\ Others(c) /\ Orderly(c) /\ pc'[c] = await /\ command'[c] = command[c]
<1>1. GatesOK /\ Grants(c)
  BY OfGates, HoldsGates DEF Executing
<1>2. /\ await \in Await /\ await \notin Waiting /\ await \in HeadOfSession /\ await \in InSession
      /\ pc[c] \notin Waiting /\ pc[c] \in HeadOfSession /\ pc[c] \in InSession /\ pc[c] # "idle"
  BY DEF Await, Waiting, Executing, InSession, HeadOfSession
<1>3. GatesOK' /\ Others(c) /\ pc'[c] = await /\ command'[c] = command[c]
  BY <1>1, <1>2, GoesOn DEF Grants, HeadOfKey
<1> QED BY <1>2, <1>3 DEF Orderly

LEMMA InputOfAdmit ==
  ASSUME IInv, NEW c \in Caller, pc[c] \in {"admit", "cancel"} PROVE command[c] \in Input
BY DEF IInv, CommandsOK

\* Whatever the writes of an admission do, the row keeps its type and does
\* not reach the transcript.
LEMMA AdmitRows ==
  ASSUME RestTyped, NEW k \in Input
  PROVE  LET written == [ledger EXCEPT ![k] = IF @ = "absent" THEN "admitted" ELSE @]
         IN /\ written \in [Input -> Status] /\ SameTranscript(ledger, written)
            /\ Settled(written, {k}, "failed") \in [Input -> Status]
            /\ SameTranscript(ledger, Settled(written, {k}, "failed"))
<1> DEFINE written == [ledger EXCEPT ![k] = IF @ = "absent" THEN "admitted" ELSE @]
<1>1. written \in [Input -> Status] /\ SameTranscript(ledger, written)
  BY DEF RestTyped, Status, SameTranscript
<1> HIDE DEF written
<1>2. /\ Settled(written, {k}, "failed") \in [Input -> Status]
      /\ SameTranscript(written, Settled(written, {k}, "failed"))
  BY <1>1, SettledRows
<1> QED BY <1>1, <1>2 DEF SameTranscript, written

LEMMA AdmitKeeps == ASSUME IInv, NEW c \in Caller, Admit(c) PROVE IInv'
<1>1. PICK k \in Input : k = command[c]
  BY InputOfAdmit DEF Admit, At
<1>2. /\ pc[c] = "admit" /\ Goto(c, "execute") /\ KeepGates
      /\ ledger' = [ledger EXCEPT ![k] = IF @ = "absent" THEN "admitted" ELSE @]
      /\ live' = live \cup {k} /\ settled' = Without(settled, k)
      /\ UNCHANGED <<indexLoaded, index, session, core, entered>>
  BY <1>1 DEF Admit, At, indexVars
<1>3. RestTyped /\ PinnedOK /\ Knows(c) /\ k \in Command
  BY <1>1, <1>2, Command0
<1>4. GatesOK' /\ Others(c) /\ Orderly(c) /\ pc'[c] = "execute" /\ command'[c] = command[c]
  BY <1>2, Executes DEF Executing
<1>5. RestTyped'
  BY <1>2, <1>3, AdmitRows, TableKept DEF RestTyped
<1>6. PinnedOK'
  BY <1>2, <1>3 DEF PinnedOK
<1>7. core[k] = "none"
  BY <1>1, <1>2, <1>3 DEF Knows, PinnedOK
<1>8. Knows(c)'
  BY <1>1, <1>2, <1>4, <1>7 DEF Knows
<1> QED BY <1>4, <1>5, <1>6, <1>8, RequestStep

LEMMA AdmitFailsKeeps == ASSUME IInv, NEW c \in Caller, AdmitFails(c) PROVE IInv'
<1>1. PICK k \in Input : k = command[c]
  BY InputOfAdmit DEF AdmitFails, At
<1> DEFINE written == [ledger EXCEPT ![k] = IF @ = "absent" THEN "admitted" ELSE @]
<1>2. /\ pc[c] = "admit" /\ Goto(c, "settle") /\ KeepGates
      /\ ledger' \in {ledger, written, Settled(written, {k}, "failed")}
      /\ UNCHANGED <<live, settled, indexLoaded, index, session, core, entered>>
  BY <1>1 DEF AdmitFails, At, indexVars, memoryVars
<1>3. RestTyped /\ PinnedOK
  BY <1>2, Command0
<1>4. GatesOK' /\ Others(c) /\ Orderly(c) /\ pc'[c] = "settle"
  BY <1>2, Executes DEF Executing
<1>5. ledger' \in [Input -> Status]
  BY <1>2, <1>3, AdmitRows DEF RestTyped
<1>6. RestTyped' /\ PinnedOK'
  BY <1>2, <1>3, <1>5 DEF RestTyped, PinnedOK
<1>7. Knows(c)'
  BY <1>4 DEF Knows
<1> QED BY <1>4, <1>6, <1>7, RequestStep

LEMMA ExecuteKeeps == ASSUME IInv, NEW c \in Caller, Execute(c) PROVE IInv'
<1>1. /\ pc[c] = "execute" /\ Goto(c, "settle") /\ KeepGates
      /\ core' = IF command[c] \in Input THEN [core EXCEPT ![command[c]] = "pending"] ELSE core
      /\ UNCHANGED <<live, settled, indexLoaded, index, session, ledger, entered>>
  BY DEF Execute, At, indexVars, memoryVars
<1>2. RestTyped /\ PinnedOK /\ Knows(c)
  BY <1>1, Command0
<1>3. GatesOK' /\ Others(c) /\ Orderly(c) /\ pc'[c] = "settle"
  BY <1>1, Executes DEF Executing
<1>4. RestTyped' /\ PinnedOK'
  BY <1>1, <1>2 DEF RestTyped, PinnedOK, InCore, Knows
<1>5. Knows(c)'
  BY <1>3 DEF Knows
<1> QED BY <1>3, <1>4, <1>5, RequestStep

LEMMA ExecuteFailsKeeps == ASSUME IInv, NEW c \in Caller, ExecuteFails(c) PROVE IInv'
<1> DEFINE await == IF command[c] \in Input THEN "cancel" ELSE "settle"
<1>1. /\ pc[c] = "execute" /\ Goto(c, await) /\ KeepGates
      /\ UNCHANGED <<live, settled, indexLoaded, index, session, core, ledger, entered>>
  BY DEF ExecuteFails, At, indexVars, memoryVars
<1>2. await \in {"cancel", "settle"} /\ (await = "cancel" => command[c] \in Input)
  OBVIOUS
<1> HIDE DEF await
<1>3. RestTyped /\ PinnedOK /\ Knows(c)
  BY <1>1, Command0
<1>4. GatesOK' /\ Others(c) /\ Orderly(c) /\ pc'[c] = await /\ command'[c] = command[c]
  BY <1>1, <1>2, Executes DEF Executing
<1>5. RestTyped' /\ PinnedOK' /\ Knows(c)'
  BY <1>1, <1>2, <1>3, <1>4 DEF RestTyped, PinnedOK, Knows
<1> QED BY <1>4, <1>5, RequestStep

LEMMA CancelKeeps == ASSUME IInv, NEW c \in Caller, Cancel(c) PROVE IInv'
<1>1. PICK k \in Input : k = command[c]
  BY InputOfAdmit DEF Cancel, At
<1>2. /\ pc[c] = "cancel" /\ Answer(c) /\ ledger' \in {ledger, Settled(ledger, {k}, "cancelled")}
      /\ live' = live \ {k} /\ settled' = Touched(settled, k)
      /\ UNCHANGED <<indexLoaded, index, session, core, entered>>
  BY <1>1 DEF Cancel, At, indexVars
<1>3. RestTyped /\ PinnedOK /\ Knows(c) /\ Grants(c) /\ k \in Command
  BY <1>1, <1>2, Command0, HoldsGates DEF Executing
<1>4. ledger' \in [Input -> Status]
  BY <1>2, <1>3, SettledRows DEF RestTyped
<1>5. RestTyped'
  BY <1>2, <1>3, <1>4, TableKept DEF RestTyped
<1>6. PinnedOK'
  BY <1>1, <1>2, <1>3 DEF PinnedOK, Knows
<1> QED BY <1>2, <1>3, <1>5, <1>6, AnswerKeeps DEF HeadOfSession, InSession, Executing

LEMMA SettleKeeps == ASSUME IInv, NEW c \in Caller, Settle(c) PROVE IInv'
<1>1. /\ pc[c] = "settle" /\ Answer(c) /\ settled' \in {settled, Touched(settled, command[c])}
      /\ UNCHANGED <<live, indexLoaded, index, session, core, ledger, entered>>
  BY DEF Settle, At, indexVars
<1>2. command[c] \in Command /\ RestTyped /\ PinnedOK /\ Grants(c)
  BY <1>1, Command0, HoldsGates DEF Executing
<1>3. RestTyped' /\ PinnedOK'
  BY <1>1, <1>2, TableKept DEF RestTyped, PinnedOK
<1> QED BY <1>1, <1>2, <1>3, AnswerKeeps

LEMMA CallKeeps ==
  ASSUME IInv, NEW c \in Caller, NEW k \in Command, NEW query \in BOOLEAN, Call(c, k, query)
  PROVE  IInv'
<1>1. pc[c] = "idle" /\ UNCHANGED <<live, settled, indexLoaded, index, session, core, ledger, entered>>
  BY DEF Call, At, indexVars, memoryVars
<1>2. GatesOK' /\ Others(c) /\ pc'[c] = "keyGate"
  BY <1>1, OfGates, Joins
<1>3. RestTyped' /\ PinnedOK'
  BY <1>1, Parts DEF RestTyped, PinnedOK
<1>4. Orderly(c) /\ Knows(c)'
  BY <1>1, <1>2 DEF Orderly, Knows, Executing
<1> QED BY <1>2, <1>3, <1>4, RequestStep

-----------------------------------------------------------------------------
(* The steps of the runtime and of the residency *)

\* While no request moves, the runtime may end work and release pins, but not
\* those a request relies on.
LEMMA RuntimeStep ==
  ASSUME IInv, UNCHANGED requestVars, RestTyped', PinnedOK', live' \subseteq live,
         \A k \in Input : core[k] = "none" => core'[k] = "none",
         \A c \in Caller : pc[c] = "execute" /\ command[c] \in Input => command[c] \in live'
  PROVE  IInv'
<1>1. /\ pc' = pc /\ command' = command /\ queryOnly' = queryOnly
      /\ keyGate' = keyGate /\ sessionGate' = sessionGate
  BY DEF requestVars
<1>2. GatesOK /\ LookedUp
  BY Parts
<1>3. GatesOK'
  BY <1>1, <1>2 DEF GatesOK, GatesTyped, CommandsOK, KeyGatesOK, SessionGateOK
<1>4. ASSUME NEW c \in Caller PROVE Knows(c)'
  <2>1. Knows(c)
    BY <1>2 DEF LookedUp
  <2>2. pc[c] \in {"lookup", "sessionGate", "lookupAgain", "prepare", "decide"} =>
          ~ InFlight(command[c])'
    BY <1>1, <2>1 DEF Knows, InFlight
  <2> QED BY <1>1, <2>1, <2>2 DEF Knows
<1>5. LookedUp'
  BY <1>4 DEF LookedUp
<1> QED BY <1>3, <1>5, Parts DEF IInv, TypeOK, GatesOK, GatesTyped, RestTyped, Table, Await

LEMMA Executors ==
  ASSUME IInv, NEW c \in Caller, pc[c] = "execute", command[c] \in Input
  PROVE  command[c] \in live /\ core[command[c]] = "none" /\ InFlight(command[c])
BY DEF IInv, LookedUp, Knows, InFlight, Executing

LEMMA RuntimeKeeps == ASSUME IInv, NEW k \in Input, Runtime(k) PROVE IInv'
<1>1. RestTyped /\ PinnedOK /\ k \in Command
  BY Parts DEF Command
<1>2. \A c \in Caller : pc[c] = "execute" /\ command[c] \in Input => command[c] \in live
  BY Executors
<1>3. CASE Promote(k)
  <2>1. /\ UNCHANGED requestVars /\ UNCHANGED <<live, settled, indexLoaded, index, session>>
        /\ core[k] = "pending" /\ core' = [core EXCEPT ![k] = "promotedEvent"]
        /\ ledger' = [ledger EXCEPT ![k] = "promoted"]
        /\ entered' = [entered EXCEPT ![k] = @ + 1]
    BY <1>3 DEF Promote, memoryVars, indexVars
  <2>2. RestTyped' /\ PinnedOK' /\ \A j \in Input : core[j] = "none" => core'[j] = "none"
    BY <1>1, <2>1 DEF RestTyped, PinnedOK, InCore, Status
  <2> QED BY <1>2, <2>1, <2>2, RuntimeStep
<1>4. CASE RemoveQueued(k)
  <2>1. /\ UNCHANGED requestVars /\ UNCHANGED <<live, settled, indexLoaded, index, session, entered>>
        /\ core[k] = "pending" /\ core' = [core EXCEPT ![k] = "removedEvent"]
        /\ ledger' \in {ledger, Settled(ledger, {k}, "cancelled")}
    BY <1>4 DEF RemoveQueued, memoryVars, indexVars
  <2>2. ledger' \in [Input -> Status]
    BY <1>1, <2>1, SettledRows DEF RestTyped
  <2>3. RestTyped' /\ PinnedOK' /\ \A j \in Input : core[j] = "none" => core'[j] = "none"
    BY <1>1, <2>1, <2>2 DEF RestTyped, PinnedOK, InCore
  <2> QED BY <1>2, <2>1, <2>3, RuntimeStep
<1>5. CASE EndUnrecorded(k) \/ EventDropped(k)
  <2>1. /\ UNCHANGED requestVars
        /\ UNCHANGED <<live, settled, indexLoaded, index, session, ledger, entered>>
        /\ core' = [core EXCEPT ![k] = "none"]
    BY <1>5 DEF EndUnrecorded, EventDropped, memoryVars, indexVars
  <2>2. RestTyped' /\ PinnedOK' /\ \A j \in Input : core[j] = "none" => core'[j] = "none"
    BY <1>1, <2>1 DEF RestTyped, PinnedOK, InCore
  <2> QED BY <1>2, <2>1, <2>2, RuntimeStep
<1>6. CASE EventArrives(k)
  <2>1. /\ UNCHANGED requestVars /\ UNCHANGED <<index, session, ledger, entered>>
        /\ core[k] # "none" /\ core' = [core EXCEPT ![k] = "none"]
        /\ indexLoaded' = FALSE /\ live' = live \ {k}
        /\ settled' \in {settled, Touched(settled, k)}
    BY <1>6 DEF EventArrives, IndexLoadedAfterEvent
  <2>2. RestTyped' /\ PinnedOK' /\ \A j \in Input : core[j] = "none" => core'[j] = "none"
    BY <1>1, <2>1, TableKept DEF RestTyped, PinnedOK, InCore
  <2>3. \A c \in Caller : pc[c] = "execute" /\ command[c] \in Input => command[c] \in live'
    BY <2>1, Executors
  <2> QED BY <2>1, <2>2, <2>3, RuntimeStep
<1> QED BY <1>3, <1>4, <1>5, <1>6 DEF Runtime

LEMMA EmptyTable == Table(<<>>)
<1>1. <<>> \in Seq(Command) /\ Len(<<>>) = 0 /\ DOMAIN <<>> = 1..0
  BY EmptySeq, Sequence
<1> QED BY <1>1, BoundAssumption DEF Table, IsInjective

LEMMA ResidencyKeeps ==
  ASSUME IInv, Activate \/ Deactivate \/ Restart \/ Release \/ FinishRelease PROVE IInv'
<1>1. RestTyped /\ PinnedOK
  BY Parts
<1>2. \A c \in Caller : pc[c] = "execute" /\ command[c] \in Input =>
        command[c] \in live /\ InFlight(command[c]) /\ command[c] \in Command
  BY Executors DEF Command
<1>3. UNCHANGED requestVars /\ UNCHANGED <<indexLoaded, index, core, entered>> /\ session' \in Residency
  BY DEF Activate, Deactivate, Restart, Release, FinishRelease, indexVars, Residency
<1>4. ledger' \in [Input -> Status]
  BY <1>1, SettledRows DEF Activate, Deactivate, Restart, Release, FinishRelease, RestTyped
<1>5. settled' \in {settled, <<>>}
  BY DEF Activate, Deactivate, Restart, Release, FinishRelease, memoryVars
<1>6. live' = live \/ (live' = {} /\ (\A k \in Input : core[k] = "none") /\ \A k \in Command : ~ InFlight(k))
  BY DEF Activate, Deactivate, Restart, Release, FinishRelease, memoryVars, Drained
<1>7. RestTyped'
  BY <1>1, <1>3, <1>4, <1>5, <1>6, EmptyTable DEF RestTyped
<1>8. PinnedOK' /\ live' \subseteq live
  BY <1>1, <1>3, <1>6 DEF PinnedOK
<1>9. \A c \in Caller : pc[c] = "execute" /\ command[c] \in Input => command[c] \in live'
  BY <1>2, <1>6
<1> QED BY <1>3, <1>7, <1>8, <1>9, RuntimeStep

\* A process begins: nothing is under way and nothing is remembered.
Begins ==
  /\ pc = [c \in Caller |-> "idle"]
  /\ command = [c \in Caller |-> NoCommand] /\ queryOnly = [c \in Caller |-> FALSE]
  /\ keyGate = [k \in Command |-> <<>>] /\ sessionGate = <<>>
  /\ live = {} /\ settled = <<>> /\ indexLoaded = FALSE /\ index = {}
  /\ session = "unloaded" /\ core = [k \in Input |-> "none"]

LEMMA EmptyGate ==
  <<>> \in Seq(Caller) /\ IsInjective(<<>>) /\ ToSet(<<>>) = {}
<1>1. <<>> \in Seq(Caller) /\ DOMAIN <<>> = {}
  BY EmptySeq
<1> QED BY <1>1 DEF IsInjective, ToSet

LEMMA BeginsSafe ==
  ASSUME Begins, ledger \in [Input -> Status], entered \in [Input -> Nat] PROVE IInv
<1>1. RestTyped
  BY EmptyTable DEF Begins, RestTyped, Residency, InCore
<1>2. GatesTyped
  BY EmptyGate DEF Begins, GatesTyped
<1>3. CommandsOK /\ LookedUp /\ PinnedOK
  BY CommandAssumption DEF Begins, CommandsOK, LookedUp, Knows, PinnedOK
<1>4. KeyGatesOK
  BY EmptyGate DEF Begins, KeyGatesOK, HeadOfKey, Waiting
<1>5. SessionGateOK
  BY EmptyGate DEF Begins, SessionGateOK, HeadOfSession, InSession, Executing
<1> QED BY <1>1, <1>2, <1>3, <1>4, <1>5, Parts DEF GatesOK

LEMMA CrashBegins ==
  ASSUME IInv, Crash PROVE Begins' /\ UNCHANGED <<ledger, entered>>
BY DEF Crash, Begins

LEMMA BeginsSafeNext ==
  ASSUME Begins', ledger' \in [Input -> Status], entered' \in [Input -> Nat] PROVE IInv'
<1>1. RestTyped'
  BY EmptyTable DEF Begins, RestTyped, Residency, InCore
<1>2. GatesTyped'
  BY EmptyGate DEF Begins, GatesTyped
<1>3. CommandsOK' /\ LookedUp' /\ PinnedOK'
  BY CommandAssumption DEF Begins, CommandsOK, LookedUp, Knows, PinnedOK
<1>4. KeyGatesOK'
  BY EmptyGate DEF Begins, KeyGatesOK, HeadOfKey, Waiting
<1>5. SessionGateOK'
  BY EmptyGate DEF Begins, SessionGateOK, HeadOfSession, InSession, Executing
<1> QED BY <1>1, <1>2, <1>3, <1>4, <1>5 DEF IInv, TypeOK, GatesTyped, RestTyped, Table, Await

LEMMA InitSafe == Init => IInv
<1> SUFFICES ASSUME Init PROVE IInv
  OBVIOUS
<1>1. Begins /\ ledger \in [Input -> Status] /\ entered \in [Input -> Nat]
  BY DEF Init, Begins, Status
<1> QED BY <1>1, BeginsSafe

LEMMA StutterSafe == ASSUME IInv, UNCHANGED vars PROVE IInv'
<1>1. UNCHANGED requestVars /\ UNCHANGED <<live, settled, indexLoaded, index, session, core, ledger, entered>>
  BY DEF vars, memoryVars, indexVars
<1>2. RestTyped' /\ PinnedOK'
  BY <1>1, Parts DEF RestTyped, PinnedOK
<1> QED BY <1>1, <1>2, Executors, RuntimeStep

LEMMA RequestKeeps == ASSUME IInv, NEW c \in Caller, Request(c) PROVE IInv'
BY AwaitFinalKeeps, FinalArrivesKeeps, FirstLookupKeeps, SecondLookupKeeps, LookupFactsKeeps,
   LookupFailsKeeps, PrepareKeeps, RefuseKeeps, AllowKeeps, AdmitKeeps, AdmitFailsKeeps,
   ExecuteKeeps, ExecuteFailsKeeps, CancelKeeps, SettleKeeps DEF Request

LEMMA NextKeeps == ASSUME IInv, [Next]_vars PROVE IInv'
<1>1. CASE Crash
  BY <1>1, CrashBegins, BeginsSafeNext, Parts DEF RestTyped
<1> QED BY <1>1, RequestKeeps, CallKeeps, RuntimeKeeps, ResidencyKeeps, StutterSafe DEF Next

\* The gates and the lookups of the inbox, with the pins of the runtime: who
\* holds what at which await (command-inbox.ts handle, acquireKeyGate,
\* acquireSessionGate, pinLiveInput).
THEOREM InvariantHolds == Spec => []IInv
<1>1. IInv /\ [Next]_vars => IInv'
  BY NextKeeps
<1> QED BY <1>1, InitSafe, PTL DEF Spec

\* Every variable keeps its type; the table of settled commands stays within
\* its limit (command-inbox.ts rememberSettled) and holds a key once.
THEOREM TypeCorrect == Spec => []TypeOK
<1>1. IInv => TypeOK
  BY DEF IInv
<1> QED BY <1>1, InvariantHolds, PTL

\* Whoever is about to admit a command is the only one to execute anything,
\* and the runtime has no work for it left.
LEMMA NobodyElse == IInv => NoDoubleAdmission
<1> SUFFICES ASSUME IInv PROVE NoDoubleAdmission
  OBVIOUS
<1>1. GatesOK /\ LookedUp /\ PinnedOK
  BY Parts
<1>2. ASSUME NEW c \in Caller, pc[c] \in {"prepare", "decide", "admit"}
      PROVE  /\ ~ \E d \in Caller \ {c} : pc[d] \in Executing /\ command[d] = command[c]
             /\ command[c] \in Input => core[command[c]] = "none" /\ command[c] \notin live
  <2>1. Knows(c)
    BY <1>1 DEF LookedUp
  <2>2. pc[c] \in HeadOfSession /\ \A d \in Caller : pc[d] \in Executing => pc[d] \in HeadOfSession
    BY <1>2 DEF HeadOfSession, InSession, Executing
  <2>3. ~ \E d \in Caller \ {c} : pc[d] \in Executing
    BY <1>1, <2>2, OneExecutes
  <2> QED BY <1>1, <1>2, <2>1, <2>3 DEF Knows, PinnedOK
<1>3. Cardinality({c \in Caller : pc[c] \in Executing}) <= 1
  <2> DEFINE E == {c \in Caller : pc[c] \in Executing}
  <2>1. \A c, d \in E : c = d
    <3>1. \A c \in E : pc[c] \in HeadOfSession
      BY DEF HeadOfSession, InSession, Executing
    <3> QED BY <1>1, <3>1, OneExecutes
  <2>2. CASE E = {}
    BY <2>2, FS_EmptySet
  <2>3. CASE E # {}
    <3>1. PICK c \in E : TRUE
      BY <2>3
    <3>2. E = {c}
      BY <2>1, <3>1
    <3> QED BY <3>2, FS_Singleton
  <2> QED BY <2>2, <2>3
<1> QED BY <1>2, <1>3 DEF NoDoubleAdmission

\* A command is never admitted a second time while an earlier admission of it
\* is at work, whatever requests, queries, evictions, restarts and crashes
\* meet (command-inbox.ts, the two gates and lookupExact).
THEOREM NoDoubleAdmissionHolds == Spec => []NoDoubleAdmission
BY NobodyElse, InvariantHolds, PTL

-----------------------------------------------------------------------------
(* Whose turn it is *)

\* Of those who are past the session gate or ask for it, the head has its turn.
LEMMA SessionGoesOn ==
  ASSUME GatesOK, NEW c \in Caller, pc[c] \in InSession
  PROVE  \E d \in Caller : HasTurn(d)
<1> DEFINE d == Head(sessionGate)
<1>1. sessionGate \in Seq(Caller) /\ sessionGate # <<>>
  BY SessionQueue
<1>2. d \in ToSet(sessionGate)
  BY <1>1, HeadIsIn
<1>3. d \in Caller /\ pc[d] \in InSession
  BY <1>2 DEF GatesOK, SessionGateOK
<1>4. HoldsSession(d)
  BY <1>3, SessionQueue
<1>5. HasTurn(d)
  BY <1>3, <1>4 DEF HasTurn, InSession, At, Waiting, Executing
<1> QED BY <1>3, <1>5

\* A shared final is waited for no longer than its command executes.
LEMMA FinalGoesOn ==
  ASSUME GatesOK, NEW c \in Caller, pc[c] = "final"
  PROVE  \E d \in Caller : HasTurn(d)
<1>1. CASE InFlight(command[c])
  <2>1. PICK d \in Caller : pc[d] \in Executing
    BY <1>1 DEF InFlight
  <2>2. HasTurn(d)
    BY <2>1 DEF HasTurn, Executing
  <2> QED BY <2>2
<1>2. CASE ~ InFlight(command[c])
  BY <1>2 DEF HasTurn, At
<1> QED BY <1>1, <1>2

\* Whoever has passed the gate of its key waits for the session at most, or
\* for a final.
LEMMA PastKeyGate ==
  ASSUME GatesOK, NEW c \in Caller, pc[c] \notin {"idle", "keyGate"}
  PROVE  \E d \in Caller : HasTurn(d)
<1>1. pc[c] \in Waiting \cup Executing
  BY DEF GatesOK, GatesTyped, Await
<1>2. CASE pc[c] \in InSession
  BY <1>2, SessionGoesOn
<1>3. CASE pc[c] = "final"
  BY <1>3, FinalGoesOn
<1>4. CASE pc[c] \notin InSession \cup {"final"}
  <2>1. HasTurn(c)
    BY <1>1, <1>4 DEF HasTurn, InSession
  <2> QED BY <2>1
<1> QED BY <1>2, <1>3, <1>4

\* The head of the gate of a key has its turn, or has passed it.
LEMMA KeyGateGoesOn ==
  ASSUME GatesOK, NEW c \in Caller, pc[c] = "keyGate"
  PROVE  \E d \in Caller : HasTurn(d)
<1> DEFINE k == command[c]
           d == Head(keyGate[k])
<1>1. k \in Command /\ keyGate[k] \in Seq(Caller) /\ keyGate[k] # <<>>
  BY KeyQueue DEF Waiting
<1>2. d \in ToSet(keyGate[k])
  BY <1>1, HeadIsIn
<1>3. d \in Caller /\ pc[d] \in Waiting /\ command[d] = k
  BY <1>1, <1>2 DEF GatesOK, KeyGatesOK
<1>4. CASE pc[d] = "keyGate"
  <2>1. HasTurn(d)
    BY <1>3, <1>4 DEF HasTurn, KeyGranted, At
  <2> QED BY <1>3, <2>1
<1>5. CASE pc[d] # "keyGate"
  <2>1. pc[d] # "idle"
    BY <1>3 DEF Waiting
  <2> QED BY <1>3, <1>5, <2>1, PastKeyGate
<1> QED BY <1>4, <1>5

LEMMA SomebodyHasTurn == IInv => NoRequestStuck
<1> SUFFICES ASSUME IInv, NEW c \in Caller, pc[c] # "idle"
             PROVE  \E d \in Caller : HasTurn(d)
  BY DEF NoRequestStuck, At
<1>1. GatesOK
  BY OfGates
<1> QED BY <1>1, KeyGateGoesOn, PastKeyGate

\* The gates of the keys, the gate of the session and the shared finals
\* (command-inbox.ts AsyncGateRegistry, inFlight) never have all the requests
\* under way wait for each other: a request asks for the session only at the
\* head of its key, gives its key up before it executes, and an execution
\* waits for nobody.
THEOREM NoRequestIsStuck == Spec => []NoRequestStuck
BY SomebodyHasTurn, InvariantHolds, PTL

-----------------------------------------------------------------------------
(* The transcript, while no runtime is restarted *)

SeesPlaces == {"prepare", "decide", "admit", "execute", "cancel"}

LEMMA Moved ==
  ASSUME IInv, NEW c \in Caller, NEW await, Goto(c, await), command' = command
  PROVE  Others(c) /\ pc'[c] = await /\ command'[c] = command[c]
BY Parts DEF GatesOK, GatesTyped, Goto, Others

LEMMA MovedAway ==
  ASSUME IInv, NEW c \in Caller, Answer(c)
  PROVE  Others(c) /\ pc'[c] = "idle"
BY Parts DEF GatesOK, GatesTyped, Answer, Goto, Others

LEMMA IndexKept ==
  ASSUME IndexKnowsTranscript, UNCHANGED <<indexLoaded, index>>, SameTranscript(ledger, ledger'),
         \A k \in Input : core'[k] = "none" => core[k] = "none", live \subseteq live'
  PROVE  IndexKnowsTranscript'
BY DEF IndexKnowsTranscript, SameTranscript

\* A step of a request, with what it leaves of the stores.
LEMMA TranscriptKept ==
  ASSUME TInv, NEW c \in Caller, Others(c), UNCHANGED <<restarts, session, entered>>,
         SameTranscript(ledger, ledger'),
         \A k \in Input : core'[k] = "pending" => core[k] = "pending" \/ ledger[k] # "promoted",
         pc'[c] \in SeesPlaces /\ command'[c] \in Input => ledger[command'[c]] # "promoted",
         IndexKnowsTranscript'
  PROVE  TInv'
<1>1. Unreleased'
  BY DEF TInv, Unreleased
<1>2. Entered'
  BY DEF TInv, Entered, SameTranscript
<1>3. ASSUME NEW d \in Caller PROVE Sees(d)'
  <2>1. CASE d = c
    BY <2>1 DEF Sees, SeesPlaces, SameTranscript
  <2>2. CASE d # c
    BY <2>2 DEF TInv, Fresh, Sees, Others, SameTranscript
  <2> QED BY <2>1, <2>2
<1>4. \A k \in Input : core'[k] = "pending" => ledger'[k] # "promoted"
  BY DEF TInv, Fresh, SameTranscript
<1> QED BY <1>1, <1>2, <1>3, <1>4 DEF TInv, Fresh

LEMMA QuietStep ==
  ASSUME TInv, NEW c \in Caller, Others(c), SameTranscript(ledger, ledger'),
         UNCHANGED <<restarts, session, entered, indexLoaded, index, core>>, live \subseteq live',
         pc'[c] \in SeesPlaces /\ command'[c] \in Input => ledger[command'[c]] # "promoted"
  PROVE  TInv'
<1>1. IndexKnowsTranscript'
  BY IndexKept DEF TInv
<1> QED BY <1>1, TranscriptKept DEF TInv, Fresh

LEMMA SameRows == SameTranscript(ledger, ledger)
BY DEF SameTranscript

\* The requests that wait, look or are refused.
LEMMA LookingKeeps ==
  ASSUME IInv, TInv, NEW c \in Caller,
         \/ AwaitFinal(c) \/ FinalArrives(c) \/ FirstLookup(c) \/ SecondLookup(c)
         \/ LookupFails(c) \/ Refuse(c) \/ Noop(c) \/ Settle(c)
  PROVE  TInv'
<1>1. UNCHANGED <<restarts, session, entered, indexLoaded, index, core, live>>
  BY DEF AwaitFinal, FinalArrives, FirstLookup, SecondLookup, LookupMemory, LookupFails, Refuse, Noop,
         Settle, memoryVars, indexVars, boundVars
<1>2. SameTranscript(ledger, ledger')
  <2>1. CASE LookupFails(c)
    <3>1. PICK swept \in SUBSET Input :
            ledger' = IF SweepsOnLoad THEN Settled(ledger, swept, "discarded") ELSE ledger
      BY <2>1 DEF LookupFails
    <3> QED BY <3>1, Parts, LookupRows
  <2>2. CASE ~ LookupFails(c)
    <3>1. ledger' = ledger
      BY <2>2 DEF AwaitFinal, FinalArrives, FirstLookup, SecondLookup, LookupMemory, Refuse, Noop,
                  Settle
    <3> QED BY <3>1, SameRows
  <2> QED BY <2>1, <2>2
<1>3. \/ Answer(c)
      \/ \E await \in {"final", "lookup", "lookupAgain"} : Goto(c, await) /\ command' = command
  BY DEF AwaitFinal, FinalArrives, FirstLookup, SecondLookup, LookupMemory, LookupFails, Refuse, Noop,
         Settle, KeepGates
<1>4. Others(c) /\ pc'[c] \notin SeesPlaces
  <2>1. CASE Answer(c)
    BY <2>1, MovedAway DEF SeesPlaces
  <2>2. ASSUME NEW await \in {"final", "lookup", "lookupAgain"}, Goto(c, await), command' = command
        PROVE  Others(c) /\ pc'[c] \notin SeesPlaces
    BY <2>2, Moved DEF SeesPlaces
  <2> QED BY <1>3, <2>1, <2>2
<1> QED BY <1>1, <1>2, <1>4, QuietStep

\* A lookup in the durable facts: what it does not find is not in the
\* transcript.
LEMMA FactsKeep == ASSUME IInv, TInv, NEW c \in Caller, LookupFacts(c) PROVE TInv'
<1>1. PICK rows : /\ rows = IF ~ indexLoaded /\ SweepsOnLoad
                            THEN Settled(ledger, Input, "discarded") ELSE ledger
                  /\ ledger' = rows /\ indexLoaded' = TRUE
                  /\ index' = IF indexLoaded THEN index ELSE Facts(rows)
  BY DEF LookupFacts
<1>2. /\ pc[c] \in {"lookup", "lookupAgain"}
      /\ UNCHANGED <<live, session, core, entered, restarts>>
  BY DEF LookupFacts, At, memoryVars, boundVars
<1>3. SameTranscript(ledger, ledger')
  BY <1>1, Parts, LookupRows
<1>4. ASSUME NEW k \in Input, ledger'[k] = "promoted", k \notin live, core[k] = "none"
      PROVE  k \in index'
  <2>1. CASE indexLoaded
    BY <1>1, <1>3, <1>4, <2>1 DEF TInv, IndexKnowsTranscript, SameTranscript
  <2>2. CASE ~ indexLoaded
    BY <1>1, <1>4, <2>2 DEF Facts
  <2> QED BY <2>1, <2>2
<1>5. IndexKnowsTranscript'
  BY <1>2, <1>4 DEF IndexKnowsTranscript
<1>6. Others(c) /\ (pc'[c] \in SeesPlaces /\ command'[c] \in Input => ledger[command'[c]] # "promoted")
  <2>1. CASE Answer(c)
    BY <2>1, MovedAway DEF SeesPlaces
  <2>2. CASE ~ Answer(c) /\ pc[c] = "lookup"
    <3>1. Goto(c, "sessionGate") /\ command' = command
      BY <2>2 DEF LookupFacts, At
    <3> QED BY <3>1, Moved DEF SeesPlaces
  <2>3. CASE ~ Answer(c) /\ pc[c] = "lookupAgain"
    <3>1. Goto(c, "prepare") /\ command' = command /\ command[c] \notin index'
      BY <1>1, <2>3 DEF LookupFacts, At
    <3>2. Others(c) /\ command'[c] = command[c]
      BY <3>1, Moved
    <3>3. command[c] \notin live /\ PinnedOK
      BY <2>3, Command0 DEF Knows
    <3>4. command[c] \in Input => ledger[command[c]] # "promoted"
      BY <1>3, <1>4, <3>1, <3>3 DEF PinnedOK, SameTranscript
    <3> QED BY <3>2, <3>4
  <2> QED BY <1>2, <2>1, <2>2, <2>3
<1> QED BY <1>2, <1>3, <1>5, <1>6, TranscriptKept DEF TInv, Fresh

\* The steps from the decision to the execution.
LEMMA DecidingKeeps ==
  ASSUME IInv, TInv, NEW c \in Caller,
         Prepare(c) \/ Allow(c) \/ Admit(c) \/ AdmitFails(c) \/ ExecuteFails(c)
  PROVE  TInv'
<1>1. /\ UNCHANGED <<restarts, session, entered, indexLoaded, index, core>> /\ live \subseteq live'
      /\ pc[c] \in {"prepare", "decide", "admit", "execute"}
  BY DEF Prepare, Allow, Admit, AdmitFails, ExecuteFails, memoryVars, indexVars, boundVars, At
<1>2. SameTranscript(ledger, ledger')
  <2>1. CASE Admit(c) \/ AdmitFails(c)
    <3>1. PICK k \in Input : k = command[c]
      BY <2>1, InputOfAdmit DEF Admit, AdmitFails, At
    <3> DEFINE written == [ledger EXCEPT ![k] = IF @ = "absent" THEN "admitted" ELSE @]
    <3>2. ledger' \in {ledger, written, Settled(written, {k}, "failed")}
      BY <2>1, <3>1 DEF Admit, AdmitFails
    <3> QED BY <3>2, AdmitRows, Parts, SameRows
  <2>2. CASE ~ (Admit(c) \/ AdmitFails(c))
    <3>1. ledger' = ledger
      BY <2>2 DEF Prepare, Allow, ExecuteFails
    <3> QED BY <3>1, SameRows
  <2> QED BY <2>1, <2>2
<1>3. Answer(c) \/ \E await \in Await : Goto(c, await) /\ command' = command
  BY DEF Prepare, Allow, Admit, AdmitFails, ExecuteFails, KeepGates, Await, Waiting, Executing
<1>4. Others(c) /\ (pc'[c] = "idle" \/ command'[c] = command[c])
  <2>1. CASE Answer(c)
    BY <2>1, MovedAway
  <2>2. ASSUME NEW await \in Await, Goto(c, await), command' = command
        PROVE  Others(c) /\ command'[c] = command[c]
    BY <2>2, Moved
  <2> QED BY <1>3, <2>1, <2>2
<1>5. command[c] \in Input => ledger[command[c]] # "promoted"
  BY <1>1 DEF TInv, Fresh, Sees
<1> QED BY <1>1, <1>2, <1>4, <1>5, QuietStep DEF SeesPlaces

LEMMA ExecutingKeeps == ASSUME IInv, TInv, NEW c \in Caller, Execute(c) PROVE TInv'
<1>1. /\ pc[c] = "execute" /\ Goto(c, "settle") /\ command' = command
      /\ core' = IF command[c] \in Input THEN [core EXCEPT ![command[c]] = "pending"] ELSE core
      /\ UNCHANGED <<live, indexLoaded, index, session, ledger, entered, restarts>>
  BY DEF Execute, At, indexVars, memoryVars, boundVars, KeepGates
<1>2. Others(c) /\ pc'[c] \notin SeesPlaces
  BY <1>1, Moved DEF SeesPlaces
<1>3. core \in [Input -> InCore] /\ SameTranscript(ledger, ledger')
  BY <1>1, Parts DEF RestTyped, SameTranscript
<1>4. command[c] \in Input => ledger[command[c]] # "promoted"
  BY <1>1 DEF TInv, Fresh, Sees
<1>5. IndexKnowsTranscript'
  BY <1>1, <1>3, IndexKept DEF TInv
<1> QED BY <1>1, <1>2, <1>3, <1>4, <1>5, TranscriptKept

\* The pin that a cancellation releases is not of an input in the transcript.
LEMMA CancellingKeeps == ASSUME IInv, TInv, NEW c \in Caller, Cancel(c) PROVE TInv'
<1>1. PICK k \in Input : k = command[c]
  BY InputOfAdmit DEF Cancel, At
<1>2. /\ pc[c] = "cancel" /\ Answer(c) /\ ledger' \in {ledger, Settled(ledger, {k}, "cancelled")}
      /\ live' = live \ {k}
      /\ UNCHANGED <<indexLoaded, index, session, core, entered, restarts>>
  BY <1>1 DEF Cancel, At, indexVars, boundVars
<1>3. Others(c) /\ pc'[c] \notin SeesPlaces
  BY <1>2, MovedAway DEF SeesPlaces
<1>4. SameTranscript(ledger, ledger')
  BY <1>2, Parts, SettledRows, SameRows DEF RestTyped
<1>5. ledger[k] # "promoted"
  BY <1>1, <1>2 DEF TInv, Fresh, Sees
<1>6. IndexKnowsTranscript'
  BY <1>2, <1>4, <1>5 DEF TInv, IndexKnowsTranscript, SameTranscript
<1> QED BY <1>2, <1>3, <1>4, <1>6, TranscriptKept DEF TInv, Fresh

LEMMA CallingKeeps ==
  ASSUME IInv, TInv, NEW c \in Caller, NEW k \in Command, NEW query \in BOOLEAN, Call(c, k, query)
  PROVE  TInv'
<1>1. /\ pc[c] = "idle" /\ UNCHANGED <<live, indexLoaded, index, session, core, ledger, entered, restarts>>
  BY DEF Call, At, indexVars, memoryVars
<1>2. Others(c) /\ pc'[c] = "keyGate"
  BY <1>1, OfGates, Joins
<1>3. SameTranscript(ledger, ledger') /\ pc'[c] \notin SeesPlaces
  BY <1>1, <1>2 DEF SameTranscript, SeesPlaces
<1> QED BY <1>1, <1>2, <1>3, QuietStep

\* A step of the runtime or of the residency, while no request moves.
LEMMA StoresKept ==
  ASSUME TInv, UNCHANGED requestVars, Unreleased',
         \A k \in Input : /\ entered'[k] = IF ledger'[k] = "promoted" THEN 1 ELSE 0
                          /\ core'[k] = "pending" => core[k] = "pending" /\ (ledger[k] = ledger'[k] \/ ledger'[k] # "promoted"),
         \A c \in Caller : pc[c] \in SeesPlaces /\ command[c] \in Input => ledger'[command[c]] # "promoted",
         IndexKnowsTranscript'
  PROVE  TInv'
<1>1. pc' = pc /\ command' = command
  BY DEF requestVars
<1>2. Entered'
  BY DEF Entered
<1>3. Fresh'
  BY <1>1 DEF TInv, Fresh, Sees, SeesPlaces
<1> QED BY <1>2, <1>3 DEF TInv

\* What the runtime works on, no request is about to execute.
LEMMA NotAbout ==
  ASSUME IInv, NEW k \in Input, core[k] # "none", NEW c \in Caller, pc[c] \in SeesPlaces
  PROVE  command[c] # k
<1>1. Knows(c) /\ k \in live
  BY DEF IInv, LookedUp, PinnedOK
<1>2. CASE pc[c] \in {"prepare", "decide", "admit"}
  BY <1>1, <1>2 DEF Knows
<1>3. CASE pc[c] \in {"execute", "cancel"}
  BY <1>1, <1>3 DEF Knows
<1> QED BY <1>2, <1>3 DEF SeesPlaces

LEMMA PromotesOnce == ASSUME IInv, TInv, NEW k \in Input, Promote(k) PROVE TInv'
<1>1. /\ UNCHANGED requestVars /\ UNCHANGED <<live, indexLoaded, index, session, restarts>>
      /\ core[k] = "pending" /\ core' = [core EXCEPT ![k] = "promotedEvent"]
      /\ ledger' = [ledger EXCEPT ![k] = "promoted"]
      /\ entered' = [entered EXCEPT ![k] = @ + 1]
  BY DEF Promote, memoryVars, indexVars, boundVars
<1>2. core \in [Input -> InCore] /\ ledger \in [Input -> Status] /\ entered \in [Input -> Nat]
  BY Parts DEF RestTyped
<1>3. entered[k] = 0
  BY <1>1 DEF TInv, Fresh, Entered
<1>4. ASSUME NEW j \in Input
      PROVE  /\ entered'[j] = IF ledger'[j] = "promoted" THEN 1 ELSE 0
             /\ core'[j] = "pending" => core[j] = "pending" /\ ledger'[j] = ledger[j]
  BY <1>1, <1>2, <1>3 DEF TInv, Entered
<1>5. ASSUME NEW c \in Caller, pc[c] \in SeesPlaces, command[c] \in Input
      PROVE  ledger'[command[c]] # "promoted"
  <2>1. command[c] # k
    BY <1>1, <1>5, NotAbout
  <2>2. ledger[command[c]] # "promoted"
    BY <1>5 DEF TInv, Fresh, Sees, SeesPlaces
  <2> QED BY <1>1, <1>2, <1>5, <2>1, <2>2
<1>6. IndexKnowsTranscript'
  BY <1>1, <1>2 DEF TInv, IndexKnowsTranscript
<1>7. Unreleased'
  BY <1>1 DEF TInv, Unreleased
<1> QED BY <1>1, <1>4, <1>5, <1>6, <1>7, StoresKept

\* The other steps of the runtime promote nothing.
LEMMA RuntimeTranscript ==
  ASSUME IInv, TInv, NEW k \in Input,
         RemoveQueued(k) \/ EndUnrecorded(k) \/ EventArrives(k) \/ EventDropped(k)
  PROVE  TInv'
<1>1. /\ UNCHANGED requestVars /\ UNCHANGED <<index, session, entered, restarts>>
      /\ ledger' \in {ledger, Settled(ledger, {k}, "cancelled")}
  BY DEF RemoveQueued, EndUnrecorded, EventArrives, EventDropped, memoryVars, indexVars, boundVars
<1>2. core \in [Input -> InCore] /\ SameTranscript(ledger, ledger')
  BY <1>1, Parts, SettledRows, SameRows DEF RestTyped
<1>3. session # "released"
  BY DEF TInv, Unreleased
<1>4. PICK event \in {"none", "removedEvent"} : core' = [core EXCEPT ![k] = event]
  BY DEF RemoveQueued, EndUnrecorded, EventArrives, EventDropped
<1>5. \A j \in Input : /\ entered'[j] = IF ledger'[j] = "promoted" THEN 1 ELSE 0
                       /\ core'[j] = "pending" => core[j] = "pending" /\ ledger'[j] # "promoted"
  BY <1>1, <1>2, <1>4 DEF TInv, Entered, Fresh, SameTranscript
<1>6. \A c \in Caller : pc[c] \in SeesPlaces /\ command[c] \in Input => ledger'[command[c]] # "promoted"
  BY <1>2 DEF TInv, Fresh, Sees, SeesPlaces, SameTranscript
<1>7. IndexKnowsTranscript'
  <2>1. CASE EventArrives(k)
    <3>1. indexLoaded' = FALSE
      BY <2>1 DEF EventArrives, IndexLoadedAfterEvent
    <3> QED BY <3>1 DEF IndexKnowsTranscript
  <2>2. CASE RemoveQueued(k) \/ EndUnrecorded(k)
    <3>1. core[k] = "pending" /\ UNCHANGED <<live, indexLoaded>>
      BY <2>2 DEF RemoveQueued, EndUnrecorded, memoryVars, indexVars
    <3>2. ledger[k] # "promoted"
      BY <3>1 DEF TInv, Fresh
    <3> QED BY <1>1, <1>2, <1>4, <3>1, <3>2 DEF TInv, IndexKnowsTranscript, SameTranscript
  <2>3. ~ EventDropped(k)
    BY <1>3 DEF EventDropped
  <2> QED BY <2>1, <2>2, <2>3
<1>8. Unreleased'
  BY <1>1 DEF TInv, Unreleased
<1> QED BY <1>1, <1>5, <1>6, <1>7, <1>8, StoresKept

LEMMA ResidencyTranscript ==
  ASSUME MaxRestarts = 0, IInv, TInv, Activate \/ Deactivate \/ Restart \/ Release \/ FinishRelease
  PROVE  TInv'
<1>1. Activate \/ Deactivate
  BY DEF Restart, Release, FinishRelease, TInv, Unreleased
<1>2. /\ UNCHANGED requestVars /\ UNCHANGED <<live, indexLoaded, index, core, entered, restarts>>
      /\ session' \in {"unloaded", "ready"}
  BY <1>1 DEF Activate, Deactivate, memoryVars, indexVars, boundVars
<1>3. SameTranscript(ledger, ledger')
  BY <1>1, Parts, SettledRows, SameRows DEF Activate, Deactivate, RestTyped
<1>4. \A j \in Input : /\ entered'[j] = IF ledger'[j] = "promoted" THEN 1 ELSE 0
                       /\ core'[j] = "pending" => core[j] = "pending" /\ ledger'[j] # "promoted"
  BY <1>2, <1>3 DEF TInv, Entered, Fresh, SameTranscript
<1>5. \A c \in Caller : pc[c] \in SeesPlaces /\ command[c] \in Input => ledger'[command[c]] # "promoted"
  BY <1>3 DEF TInv, Fresh, Sees, SeesPlaces, SameTranscript
<1>6. IndexKnowsTranscript'
  BY <1>2, <1>3, IndexKept DEF TInv
<1>7. Unreleased'
  BY <1>2 DEF TInv, Unreleased
<1> QED BY <1>2, <1>4, <1>5, <1>6, <1>7, StoresKept

LEMMA CrashTranscript == ASSUME IInv, TInv, Crash PROVE TInv'
<1>1. UNCHANGED <<ledger, entered, restarts>>
  BY DEF Crash
<1>2. /\ pc' = [c \in Caller |-> "idle"] /\ indexLoaded' = FALSE /\ session' = "unloaded"
      /\ core' = [k \in Input |-> "none"]
  BY DEF Crash
<1>3. Unreleased' /\ Entered' /\ IndexKnowsTranscript'
  BY <1>1, <1>2 DEF TInv, Unreleased, Entered, IndexKnowsTranscript
<1>4. Fresh'
  BY <1>2 DEF Fresh, Sees
<1> QED BY <1>3, <1>4 DEF TInv

LEMMA InitTranscript == Init => TInv
BY DEF Init, TInv, Unreleased, Entered, Fresh, Sees, IndexKnowsTranscript

LEMMA StutterTranscript == ASSUME TInv, UNCHANGED vars PROVE TInv'
BY DEF vars, requestVars, memoryVars, indexVars, boundVars, TInv, Unreleased, Entered, Fresh, Sees,
       IndexKnowsTranscript

LEMMA TranscriptNext == ASSUME MaxRestarts = 0, IInv, TInv, [Next]_vars PROVE TInv'
<1>1. ASSUME NEW c \in Caller, Request(c) PROVE TInv'
  BY <1>1, LookingKeeps, FactsKeep, DecidingKeeps, ExecutingKeeps, CancellingKeeps DEF Request
<1>2. ASSUME NEW c \in Caller, NEW k \in Command, NEW query \in BOOLEAN, Call(c, k, query) PROVE TInv'
  BY <1>2, CallingKeeps
<1>3. ASSUME NEW k \in Input, Runtime(k) PROVE TInv'
  BY <1>3, PromotesOnce, RuntimeTranscript DEF Runtime
<1> QED BY <1>1, <1>2, <1>3, ResidencyTranscript, CrashTranscript, StutterTranscript DEF Next

\* Ledger, transcript, runtime and requests agree while no runtime of the
\* session is restarted (v4-gateway.ts admitCommandInput and its settlement
\* paths; session-inputs.ts promoteSessionInput).
THEOREM TranscriptInvariant == ASSUME MaxRestarts = 0 PROVE Spec => [](IInv /\ TInv)
<1>1. Init => IInv /\ TInv
  BY InitSafe, InitTranscript
<1>2. IInv /\ TInv /\ [Next]_vars => (IInv /\ TInv)'
  BY NextKeeps, TranscriptNext
<1> QED BY <1>1, <1>2, PTL DEF Spec

\* However often a command is sent, forgotten by the LRU, swept or asked
\* about, and wherever the process crashes, its input enters the transcript at
\* most once, as long as the session's runtime is not restarted.
THEOREM AtMostOnceHolds == ASSUME MaxRestarts = 0 PROVE Spec => []AtMostOnceInTranscript
<1>1. TInv => AtMostOnceInTranscript
  BY DEF TInv, Entered, AtMostOnceInTranscript
<1> QED BY <1>1, TranscriptInvariant, PTL

\* The cached index knows whatever is in the transcript and no longer pinned,
\* under the same condition (persistent-command-index.ts, and its invalidation
\* in v4-gateway.ts).
THEOREM IndexKnowsTranscriptHolds == ASSUME MaxRestarts = 0 PROVE Spec => []IndexKnowsTranscript
<1>1. TInv => IndexKnowsTranscript
  BY DEF TInv
<1> QED BY <1>1, TranscriptInvariant, PTL
=============================================================================
