------------------------- MODULE ReplayOrder_proofs -------------------------
(* The inductive invariants of ReplayOrder and the proofs of its types and     *)
(* safety properties, for any number of branches, steps and lives.             *)
(*                                                                             *)
(* Running says where the branches are, what waits at the gate and what the    *)
(* log holds.  Follows says where a life stands in the settle order: the calls *)
(* of the script are determined by the order of the answers, so a life that    *)
(* answers in the order of the one before it makes the same calls.             *)
(* Moves says that nobody is lost on the way and that the gate stops only      *)
(* where it must, Causal that every node in the order had been called before   *)
(* it answered: so the gate never waits in vain.                               *)
EXTENDS ReplayOrder, FiniteSetTheorems, FunctionTheorems, SequenceTheorems, WellFoundedInduction, TLAPS

-----------------------------------------------------------------------------
(* Sequences *)

LEMMA Sequence ==
  ASSUME NEW S, NEW s \in Seq(S)
  PROVE  Len(s) \in Nat /\ DOMAIN s = 1 .. Len(s) /\ \A i \in 1 .. Len(s) : s[i] \in S
OBVIOUS

\* A table of values in S is a sequence.
LEMMA TableIsSequence ==
  ASSUME NEW S, NEW n \in Nat, NEW f \in [1 .. n -> S] PROVE f \in Seq(S) /\ Len(f) = n
OBVIOUS

LEMMA Elements ==
  ASSUME NEW S, NEW s \in Seq(S)
  PROVE  /\ \A x : x \in ToSet(s) <=> \E i \in 1 .. Len(s) : x = s[i]
         /\ ToSet(s) \subseteq S
         /\ IsInjective(s) <=> \A i, j \in 1 .. Len(s) : s[i] = s[j] => i = j
BY Sequence DEF ToSet, IsInjective

LEMMA NonEmpty ==
  ASSUME NEW S, NEW s \in Seq(S), s # <<>>
  PROVE  Len(s) >= 1 /\ Head(s) = s[1] /\ Head(s) \in ToSet(s) /\ Head(s) \in S
<1>1. Len(s) \in Nat \ {0} /\ DOMAIN s = 1 .. Len(s) /\ Head(s) = s[1]
  BY EmptySeq, Sequence
<1>2. 1 \in 1 .. Len(s) /\ Len(s) >= 1
  BY <1>1
<1> QED BY <1>1, <1>2, Elements

\* The head leaves.
LEMMA HeadLeaves ==
  ASSUME NEW S, NEW s \in Seq(S), s # <<>>
  PROVE  /\ Tail(s) \in Seq(S) /\ Len(Tail(s)) = Len(s) - 1
         /\ \A i \in 1 .. Len(s) - 1 : Tail(s)[i] = s[i + 1]
         /\ IsInjective(s) => IsInjective(Tail(s)) /\ ToSet(Tail(s)) = ToSet(s) \ {Head(s)}
<1> DEFINE rest == Tail(s)
<1>1. Len(s) \in Nat \ {0} /\ Head(s) = s[1]
  BY EmptySeq, Sequence
<1>2. /\ rest \in Seq(S) /\ Len(rest) = Len(s) - 1
      /\ \A i \in 1 .. (Len(s) - 1) : rest[i] = s[i + 1]
  BY <1>1, HeadTailProperties, Sequence
<1> HIDE DEF rest
<1>3. ASSUME IsInjective(s) PROVE IsInjective(rest)
  <2> SUFFICES ASSUME NEW i \in 1 .. (Len(s) - 1), NEW j \in 1 .. (Len(s) - 1), rest[i] = rest[j]
               PROVE  i = j
    BY <1>2, Elements
  <2>1. (i + 1) \in 1 .. Len(s) /\ (j + 1) \in 1 .. Len(s) /\ s[i + 1] = s[j + 1]
    BY <1>1, <1>2
  <2>2. i + 1 = j + 1
    BY <1>3, <2>1, Elements
  <2> QED BY <2>2
<1>4. ASSUME IsInjective(s) PROVE ToSet(rest) = ToSet(s) \ {Head(s)}
  <2>1. ASSUME NEW x \in ToSet(rest) PROVE x \in ToSet(s) \ {Head(s)}
    <3>1. PICK i \in 1 .. (Len(s) - 1) : x = s[i + 1]
      BY <1>2, Elements
    <3>2. (i + 1) \in 1 .. Len(s) /\ i + 1 # 1 /\ 1 \in 1 .. Len(s)
      BY <1>1
    <3> QED BY <1>1, <1>4, <3>1, <3>2, Elements
  <2>2. ASSUME NEW x \in ToSet(s) \ {Head(s)} PROVE x \in ToSet(rest)
    <3>1. PICK i \in 1 .. Len(s) : x = s[i]
      BY Elements
    <3>2. i # 1
      BY <1>1, <3>1
    <3>3. (i - 1) \in 1 .. (Len(s) - 1) /\ rest[i - 1] = x
      BY <1>1, <1>2, <3>1, <3>2
    <3> QED BY <1>2, <3>3, Elements
  <2> QED BY <2>1, <2>2
<1> QED BY <1>2, <1>3, <1>4 DEF rest

\* One more at the end.
LEMMA OneMore ==
  ASSUME NEW S, NEW s \in Seq(S), NEW x \in S
  PROVE  /\ Append(s, x) \in Seq(S) /\ Len(Append(s, x)) = Len(s) + 1
         /\ \A i \in 1 .. Len(s) : Append(s, x)[i] = s[i]
         /\ Append(s, x)[Len(s) + 1] = x
         /\ ToSet(Append(s, x)) = ToSet(s) \cup {x}
         /\ IsInjective(s) /\ x \notin ToSet(s) => IsInjective(Append(s, x))
<1> DEFINE more == Append(s, x)
<1>1. Len(s) \in Nat
  BY Sequence
<1>2. /\ more \in Seq(S) /\ Len(more) = Len(s) + 1
      /\ \A i \in 1 .. Len(s) : more[i] = s[i]
      /\ more[Len(s) + 1] = x
  BY <1>1, AppendProperties, Sequence
<1> HIDE DEF more
<1>3. x \notin ToSet(s) => \A i \in 1 .. Len(s) : s[i] # x
  BY Elements
<1>4. \A i \in 1 .. (Len(s) + 1) : i \in 1 .. Len(s) \/ i = Len(s) + 1
  BY <1>1
<1>5. IsInjective(s) /\ x \notin ToSet(s) => IsInjective(more)
  BY <1>1, <1>2, <1>3, <1>4, Elements
<1>6. ToSet(more) = ToSet(s) \cup {x}
  <2>1. ASSUME NEW y \in ToSet(more) PROVE y \in ToSet(s) \cup {x}
    BY <1>1, <1>2, <1>4, <2>1, Elements
  <2>2. ASSUME NEW y \in ToSet(s) \cup {x} PROVE y \in ToSet(more)
    <3>1. (Len(s) + 1) \in 1 .. Len(more) /\ \A i \in 1 .. Len(s) : i \in 1 .. Len(more)
      BY <1>1, <1>2
    <3> QED BY <1>1, <1>2, <2>2, <3>1, Elements
  <2> QED BY <2>1, <2>2
<1> QED BY <1>2, <1>5, <1>6 DEF more

\* Two in a row.
LEMMA Joined ==
  ASSUME NEW S, NEW s \in Seq(S), NEW t \in Seq(S)
  PROVE  /\ s \o t \in Seq(S) /\ Len(s \o t) = Len(s) + Len(t)
         /\ \A i \in 1 .. Len(s) : (s \o t)[i] = s[i]
         /\ \A i \in 1 .. Len(t) : (s \o t)[Len(s) + i] = t[i]
         /\ ToSet(s \o t) = ToSet(s) \cup ToSet(t)
         /\ IsInjective(s) /\ IsInjective(t) /\ ToSet(s) \cap ToSet(t) = {} => IsInjective(s \o t)
<1> DEFINE u == s \o t
<1>1. Len(s) \in Nat /\ Len(t) \in Nat
  BY Sequence
<1>2. /\ u \in Seq(S) /\ Len(u) = Len(s) + Len(t)
      /\ \A i \in 1 .. Len(s) + Len(t) : u[i] = IF i <= Len(s) THEN s[i] ELSE t[i - Len(s)]
  BY ConcatProperties
<1> HIDE DEF u
<1>3. \A i \in 1 .. Len(s) : i \in 1 .. Len(u) /\ u[i] = s[i]
  BY <1>1, <1>2
<1>4. \A i \in 1 .. Len(t) : Len(s) + i \in 1 .. Len(u) /\ u[Len(s) + i] = t[i]
  <2> SUFFICES ASSUME NEW i \in 1 .. Len(t) PROVE Len(s) + i \in 1 .. Len(u) /\ u[Len(s) + i] = t[i]
    OBVIOUS
  <2>1. Len(s) + i \in 1 .. Len(s) + Len(t) /\ ~ (Len(s) + i <= Len(s)) /\ (Len(s) + i) - Len(s) = i
    BY <1>1
  <2> QED BY <1>2, <2>1
<1>5. ASSUME NEW i \in 1 .. Len(u)
      PROVE  i \in 1 .. Len(s) \/ \E j \in 1 .. Len(t) : i = Len(s) + j
  <2>1. CASE i <= Len(s)
    BY <1>1, <1>2, <2>1
  <2>2. CASE ~ (i <= Len(s))
    <3>1. i - Len(s) \in 1 .. Len(t) /\ i = Len(s) + (i - Len(s))
      BY <1>1, <1>2, <2>2
    <3> QED BY <3>1
  <2> QED BY <2>1, <2>2
<1>6. ToSet(u) = ToSet(s) \cup ToSet(t)
  <2>1. ASSUME NEW y \in ToSet(u) PROVE y \in ToSet(s) \cup ToSet(t)
    <3>1. PICK i \in 1 .. Len(u) : y = u[i]
      BY <1>2, Elements
    <3>2. CASE i \in 1 .. Len(s)
      BY <1>3, <3>1, <3>2, Elements
    <3>3. CASE \E j \in 1 .. Len(t) : i = Len(s) + j
      BY <1>4, <3>1, <3>3, Elements
    <3> QED BY <1>5, <3>2, <3>3
  <2>2. ASSUME NEW y \in ToSet(s) \cup ToSet(t) PROVE y \in ToSet(u)
    <3>1. CASE y \in ToSet(s)
      <4>1. PICK i \in 1 .. Len(s) : y = s[i]
        BY <3>1, Elements
      <4> QED BY <1>2, <1>3, <4>1, Elements
    <3>2. CASE y \in ToSet(t)
      <4>1. PICK i \in 1 .. Len(t) : y = t[i]
        BY <3>2, Elements
      <4> QED BY <1>2, <1>4, <4>1, Elements
    <3> QED BY <2>2, <3>1, <3>2
  <2> QED BY <2>1, <2>2
<1>7. ASSUME IsInjective(s), IsInjective(t), ToSet(s) \cap ToSet(t) = {} PROVE IsInjective(u)
  <2> SUFFICES ASSUME NEW i \in 1 .. Len(u), NEW j \in 1 .. Len(u), u[i] = u[j] PROVE i = j
    BY <1>2, Elements
  <2>1. CASE i \in 1 .. Len(s) /\ j \in 1 .. Len(s)
    BY <1>3, <1>7, <2>1, Elements
  <2>2. CASE \E k, l \in 1 .. Len(t) : i = Len(s) + k /\ j = Len(s) + l
    BY <1>4, <1>7, <2>2, Elements, SMTT(30)
  <2>3. ASSUME NEW k \in 1 .. Len(s), NEW l \in 1 .. Len(t) PROVE u[k] # u[Len(s) + l]
    <3>1. s[k] \in ToSet(s) /\ t[l] \in ToSet(t)
      BY Elements
    <3> QED BY <1>3, <1>4, <1>7, <3>1
  <2> QED BY <1>5, <2>1, <2>2, <2>3
<1> QED BY <1>2, <1>3, <1>4, <1>6, <1>7 DEF u

\* A stretch of a sequence.
LEMMA Stretch ==
  ASSUME NEW S, NEW s \in Seq(S), NEW m \in Nat, NEW n \in m .. Len(s)
  PROVE  /\ SubSeq(s, m + 1, n) \in Seq(S) /\ Len(SubSeq(s, m + 1, n)) = n - m
         /\ \A i \in 1 .. n - m : SubSeq(s, m + 1, n)[i] = s[m + i]
         /\ ToSet(SubSeq(s, m + 1, n)) = {s[i] : i \in m + 1 .. n}
         /\ IsInjective(s) => IsInjective(SubSeq(s, m + 1, n))
<1> DEFINE u == SubSeq(s, m + 1, n)
<1>1. Len(s) \in Nat /\ n \in Nat /\ m <= n /\ n <= Len(s)
  BY Sequence
<1>2. \A i \in m + 1 .. n : i \in 1 .. Len(s) /\ s[i] \in S
  BY <1>1, Sequence
<1>3. /\ u \in Seq(S) /\ Len(u) = IF m + 1 <= n THEN n - (m + 1) + 1 ELSE 0
      /\ \A i \in 1 .. n - (m + 1) + 1 : u[i] = s[(m + 1) + i - 1]
  BY <1>1, <1>2, SubSeqProperties
<1>4. Len(u) = n - m
  BY <1>1, <1>3
<1>5. \A i \in 1 .. n - m : u[i] = s[m + i] /\ m + i \in m + 1 .. n /\ m + i \in 1 .. Len(s)
  <2> SUFFICES ASSUME NEW i \in 1 .. n - m PROVE u[i] = s[m + i] /\ m + i \in m + 1 .. n /\ m + i \in 1 .. Len(s)
    OBVIOUS
  <2>1. i \in 1 .. n - (m + 1) + 1 /\ (m + 1) + i - 1 = m + i /\ m + i \in m + 1 .. n
    BY <1>1
  <2> QED BY <1>2, <1>3, <2>1
<1> HIDE DEF u
<1>6. ToSet(u) = {s[i] : i \in m + 1 .. n}
  <2>1. ASSUME NEW i \in m + 1 .. n PROVE s[i] \in ToSet(u)
    <3>1. i - m \in 1 .. n - m /\ m + (i - m) = i
      BY <1>1
    <3>2. u[i - m] = s[i]
      BY <1>5, <3>1
    <3> QED BY <1>3, <1>4, <3>1, <3>2, Elements
  <2>2. ASSUME NEW x \in ToSet(u) PROVE x \in {s[i] : i \in m + 1 .. n}
    BY <1>3, <1>4, <1>5, Elements
  <2> QED BY <2>1, <2>2
<1>7. ASSUME IsInjective(s) PROVE IsInjective(u)
  <2> SUFFICES ASSUME NEW i \in 1 .. n - m, NEW j \in 1 .. n - m, u[i] = u[j] PROVE i = j
    BY <1>3, <1>4, Elements
  <2>1. m + i = m + j
    BY <1>5, <1>7, Elements, SMTT(30)
  <2> QED BY <1>1, <2>1
<1> QED BY <1>3, <1>4, <1>5, <1>6, <1>7 DEF u

\* One sequence begins like another.
Begins(s, t) == Len(s) <= Len(t) /\ \A i \in 1 .. Len(s) : s[i] = t[i]

LEMMA BeginsIsPrefix ==
  ASSUME NEW S, NEW s \in Seq(S), NEW t \in Seq(S), Begins(s, t) PROVE IsPrefix(s, t)
<1>1. Len(s) \in Nat /\ Len(t) \in Nat /\ Len(s) <= Len(t)
  BY Sequence DEF Begins
<1>2. /\ SubSeq(s, 0 + 1, Len(s)) \in Seq(S) /\ Len(SubSeq(s, 0 + 1, Len(s))) = Len(s) - 0
      /\ \A i \in 1 .. Len(s) - 0 : SubSeq(s, 0 + 1, Len(s))[i] = s[0 + i]
  <2>1. Len(s) \in 0 .. Len(s)
    BY <1>1
  <2> QED BY <2>1, Stretch
<1>3. /\ SubSeq(t, 0 + 1, Len(s)) \in Seq(S) /\ Len(SubSeq(t, 0 + 1, Len(s))) = Len(s) - 0
      /\ \A i \in 1 .. Len(s) - 0 : SubSeq(t, 0 + 1, Len(s))[i] = t[0 + i]
  <2>1. Len(s) \in 0 .. Len(t)
    BY <1>1
  <2> QED BY <2>1, Stretch
<1>4. \A i \in 1 .. Len(s) - 0 : 0 + i = i /\ i \in 1 .. Len(s) /\ s[i] = t[i]
  BY <1>1 DEF Begins
<1>5. SubSeq(s, 0 + 1, Len(s)) = SubSeq(t, 0 + 1, Len(s))
  BY <1>2, <1>3, <1>4, SeqEqual
<1>6. 0 + 1 = 1
  OBVIOUS
<1> QED BY <1>1, <1>5, <1>6 DEF IsPrefix

\* Every nonempty set of numbers has a least one.
LEMMA Least == ASSUME NEW T, T \subseteq Nat, T # {} PROVE \E n \in T : \A m \in T : n <= m
<1>1. PICK n \in T : \A m \in T : <<m, n>> \notin OpToRel(<, Nat)
  BY WFMin, NatLessThanWellFounded, Zenon
<1>2. \A m \in T : ~ (m < n)
  BY <1>1, Zenon DEF OpToRel
<1>3. ASSUME NEW m \in T PROVE n <= m
  <2>1. n \in Nat /\ m \in Nat
    OBVIOUS
  <2> QED BY <1>2, <2>1
<1> QED BY <1>3

LEMMA Induction ==
  ASSUME NEW T, 0 \in T, \A n \in Nat : n \in T => n + 1 \in T
  PROVE  \A n \in Nat : n \in T
<1> DEFINE Bad == Nat \ T
<1> SUFFICES ASSUME Bad # {} PROVE FALSE
  OBVIOUS
<1>1. PICK m \in Bad : \A k \in Bad : m <= k
  <2>1. Bad \subseteq Nat
    OBVIOUS
  <2> HIDE DEF Bad
  <2> QED BY <2>1, Least
<1>2. m \in Nat /\ m \notin T /\ m # 0
  OBVIOUS
<1>3. m - 1 \in Nat /\ ~ (m <= m - 1) /\ (m - 1) + 1 = m
  BY <1>2
<1>4. m - 1 \in T
  BY <1>1, <1>3
<1> QED BY <1>2, <1>3, <1>4

\* What is before the last element.
LEMMA LastLeaves ==
  ASSUME NEW S, NEW s \in Seq(S), Len(s) # 0
  PROVE  \E r \in Seq(S), x \in S : s = Append(r, x) /\ Len(s) = Len(r) + 1
<1> DEFINE n == Len(s) - 1
           r == SubSeq(s, 0 + 1, n)
<1>1. n \in Nat /\ n \in 0 .. Len(s) /\ Len(s) = n + 1 /\ n - 0 = n /\ 0 \in Nat
  BY Sequence
<1>2. r \in Seq(S) /\ Len(r) = n /\ \A i \in 1 .. n : r[i] = s[i]
  <2>1. /\ r \in Seq(S) /\ Len(r) = n - 0
        /\ \A i \in 1 .. n - 0 : r[i] = s[0 + i]
    BY <1>1, Stretch
  <2>2. \A i \in 1 .. n : 0 + i = i
    BY <1>1
  <2> QED BY <1>1, <2>1, <2>2
<1>3. s[Len(s)] \in S
  BY <1>1, Sequence
<1> HIDE DEF r
<1> DEFINE t == Append(r, s[Len(s)])
<1>4. /\ t \in Seq(S) /\ Len(t) = n + 1 /\ t[n + 1] = s[Len(s)]
      /\ \A i \in 1 .. n : t[i] = r[i]
  BY <1>2, <1>3, OneMore
<1>5. \A i \in 1 .. Len(s) : i \in 1 .. n \/ i = n + 1
  <2> HIDE DEF n
  <2> QED BY <1>1
<1>6. s = t
  <2>1. \A i \in 1 .. Len(s) : s[i] = t[i]
    BY <1>1, <1>2, <1>4, <1>5
  <2> HIDE DEF t
  <2> QED BY <1>1, <1>4, <2>1, SeqEqual, SMTT(30)
<1> QED BY <1>1, <1>2, <1>3, <1>6

-----------------------------------------------------------------------------
(* recoverSettleOrder, event by event *)

Scan(rows, events, f) ==
  f = [k \in 0 .. Len(events) |->
         IF k = 0 THEN <<>> ELSE Counted(rows, f[k - 1], events[k])]

LEMMA ScanOf ==
  ASSUME NEW rows, NEW events \in Seq(Instance), NEW f, Scan(rows, events, f)
  PROVE  /\ f[0] = <<>>
         /\ \A k \in 1 .. Len(events) : f[k] = Counted(rows, f[k - 1], events[k])
<1>1. Len(events) \in Nat
  BY Sequence
<1>2. \A k \in 0 .. Len(events) : f[k] = IF k = 0 THEN <<>> ELSE Counted(rows, f[k - 1], events[k])
  BY DEF Scan
<1>3. 0 \in 0 .. Len(events) /\ \A k \in 1 .. Len(events) : k # 0 /\ k \in 0 .. Len(events)
  BY <1>1
<1> QED BY <1>2, <1>3

LEMMA ScanExists ==
  ASSUME NEW rows PROVE \A events \in Seq(Instance) : \E f : Scan(rows, events, f)
<1> DEFINE T == {n \in Nat : \A events \in Seq(Instance) : Len(events) = n => \E f : Scan(rows, events, f)}
<1>1. 0 \in T
  <2> SUFFICES ASSUME NEW events \in Seq(Instance), Len(events) = 0 PROVE \E f : Scan(rows, events, f)
    OBVIOUS
  <2> DEFINE h == [k \in 0 .. 0 |-> <<>>]
  <2>1. h = [k \in 0 .. 0 |-> IF k = 0 THEN <<>> ELSE Counted(rows, h[k - 1], events[k])]
    OBVIOUS
  <2> QED BY <2>1 DEF Scan
<1>2. ASSUME NEW n \in Nat, n \in T PROVE n + 1 \in T
  <2> SUFFICES ASSUME NEW events \in Seq(Instance), Len(events) = n + 1 PROVE \E f : Scan(rows, events, f)
    OBVIOUS
  <2>1. PICK r \in Seq(Instance), x \in Instance : events = Append(r, x) /\ Len(events) = Len(r) + 1
    <3>1. Len(events) # 0
      OBVIOUS
    <3> QED BY <3>1, LastLeaves
  <2>2. Len(r) \in Nat /\ Len(r) = n
    BY <2>1, Sequence
  <2>3. PICK g : Scan(rows, r, g)
    BY <1>2, <2>2
  <2>4. g[0] = <<>> /\ \A k \in 1 .. n : g[k] = Counted(rows, g[k - 1], r[k])
    BY <2>2, <2>3, ScanOf
  <2>5. \A k \in 1 .. n : events[k] = r[k]
    BY <2>1, <2>2, OneMore
  <2> DEFINE h == [k \in 0 .. n + 1 |-> IF k = n + 1 THEN Counted(rows, g[n], events[n + 1]) ELSE g[k]]
  <2>6. ASSUME NEW k \in 0 .. n + 1
        PROVE  h[k] = IF k = 0 THEN <<>> ELSE Counted(rows, h[k - 1], events[k])
    <3>1. CASE k = n + 1
      <4>1. k # 0 /\ k - 1 = n /\ n \in 0 .. n + 1 /\ n # n + 1
        BY <3>1
      <4> QED BY <3>1, <4>1
    <3>2. CASE k = 0
      <4>1. 0 # n + 1 /\ 0 \in 0 .. n + 1
        OBVIOUS
      <4> QED BY <2>4, <3>2, <4>1
    <3>3. CASE k # n + 1 /\ k # 0
      <4>1. k \in 1 .. n /\ k - 1 \in 0 .. n + 1 /\ k - 1 # n + 1
        BY <3>3
      <4>2. h[k] = g[k] /\ h[k - 1] = g[k - 1]
        BY <3>3, <4>1
      <4> QED BY <2>4, <2>5, <3>3, <4>1, <4>2
    <3> QED BY <3>1, <3>2, <3>3
  <2>7. h = [k \in 0 .. n + 1 |-> IF k = 0 THEN <<>> ELSE Counted(rows, h[k - 1], events[k])]
    BY <2>6
  <2> HIDE DEF h
  <2>8. Scan(rows, events, h)
    BY <2>7 DEF Scan
  <2> QED BY <2>8
<1> HIDE DEF T
<1>3. \A n \in Nat : n \in T
  BY <1>1, <1>2, Induction
<1> QED BY <1>3, Sequence DEF T

LEMMA ScanUnique ==
  ASSUME NEW rows, NEW r \in Seq(Instance), NEW x \in Instance,
         NEW g, Scan(rows, r, g), NEW f, Scan(rows, Append(r, x), f)
  PROVE  f[Len(r) + 1] = Counted(rows, g[Len(r)], x)
<1> DEFINE events == Append(r, x)
           n == Len(r)
           T == {k \in Nat : k <= n => f[k] = g[k]}
<1>1. n \in Nat /\ events \in Seq(Instance) /\ Len(events) = n + 1
      /\ (\A k \in 1 .. n : events[k] = r[k]) /\ events[n + 1] = x
  BY Sequence, OneMore
<1>2. g[0] = <<>> /\ \A k \in 1 .. n : g[k] = Counted(rows, g[k - 1], r[k])
  BY ScanOf
<1>3. f[0] = <<>> /\ \A k \in 1 .. n + 1 : f[k] = Counted(rows, f[k - 1], events[k])
  <2>1. Scan(rows, events, f)
    OBVIOUS
  <2> HIDE DEF events, n
  <2>2. f[0] = <<>> /\ \A k \in 1 .. Len(events) : f[k] = Counted(rows, f[k - 1], events[k])
    BY <1>1, <2>1, ScanOf
  <2> QED BY <1>1, <2>2
<1> HIDE DEF n, events
<1>4. 0 \in T
  BY <1>2, <1>3
<1>5. ASSUME NEW k \in Nat, k \in T PROVE k + 1 \in T
  <2> SUFFICES ASSUME k + 1 <= n PROVE f[k + 1] = g[k + 1]
    OBVIOUS
  <2>1. k + 1 \in 1 .. n /\ k + 1 \in 1 .. n + 1 /\ (k + 1) - 1 = k /\ k <= n
    BY <1>1
  <2>2. f[k] = g[k]
    BY <1>5, <2>1
  <2> QED BY <1>1, <1>2, <1>3, <2>1, <2>2
<1> HIDE DEF T
<1>6. n \in T
  BY <1>1, <1>4, <1>5, Induction
<1>7. f[n] = g[n]
  BY <1>1, <1>6 DEF T
<1>8. n + 1 \in 1 .. n + 1 /\ (n + 1) - 1 = n
  BY <1>1
<1> QED BY <1>1, <1>3, <1>7, <1>8 DEF n

LEMMA ScanGives ==
  ASSUME NEW rows, NEW events \in Seq(Instance)
  PROVE  \E f : Scan(rows, events, f) /\ SettleOrder(rows, events) = f[Len(events)]
<1> DEFINE f == CHOOSE f : f = [k \in 0 .. Len(events) |->
                     IF k = 0 THEN <<>> ELSE Counted(rows, f[k - 1], events[k])]
<1>1. \E g : g = [k \in 0 .. Len(events) |->
                     IF k = 0 THEN <<>> ELSE Counted(rows, g[k - 1], events[k])]
  <2>1. PICK g : Scan(rows, events, g)
    BY ScanExists
  <2> QED BY <2>1 DEF Scan
<1>2. f = [k \in 0 .. Len(events) |->
                     IF k = 0 THEN <<>> ELSE Counted(rows, f[k - 1], events[k])]
  BY <1>1
<1>3. SettleOrder(rows, events) = f[Len(events)]
  BY DEF SettleOrder
<1> HIDE DEF f
<1> QED BY <1>2, <1>3 DEF Scan

LEMMA NothingFound == ASSUME NEW rows PROVE SettleOrder(rows, <<>>) = <<>>
<1>1. <<>> \in Seq(Instance) /\ Len(<<>>) = 0
  OBVIOUS
<1>2. PICK f : Scan(rows, <<>>, f) /\ SettleOrder(rows, <<>>) = f[0]
  BY <1>1, ScanGives
<1> QED BY <1>1, <1>2, ScanOf

LEMMA OneEventMore ==
  ASSUME NEW rows, NEW r \in Seq(Instance), NEW x \in Instance
  PROVE  SettleOrder(rows, Append(r, x)) = Counted(rows, SettleOrder(rows, r), x)
<1>1. Append(r, x) \in Seq(Instance) /\ Len(Append(r, x)) = Len(r) + 1
  BY OneMore
<1>2. PICK g : Scan(rows, r, g) /\ SettleOrder(rows, r) = g[Len(r)]
  BY ScanGives
<1>3. PICK f : Scan(rows, Append(r, x), f) /\ SettleOrder(rows, Append(r, x)) = f[Len(r) + 1]
  BY <1>1, ScanGives
<1> QED BY <1>2, <1>3, ScanUnique

LEMMA JoinedToNothing == ASSUME NEW S, NEW s \in Seq(S) PROVE s \o <<>> = s
OBVIOUS

LEMMA JoinedThenOne ==
  ASSUME NEW S, NEW s \in Seq(S), NEW t \in Seq(S), NEW x \in S
  PROVE  s \o Append(t, x) = Append(s \o t, x)
<1> DEFINE u == s \o t
           v == s \o Append(t, x)
           w == Append(s \o t, x)
           n == Len(s) + Len(t)
<1>1. Len(s) \in Nat /\ Len(t) \in Nat
  BY Sequence
<1>2. /\ Append(t, x) \in Seq(S) /\ Len(Append(t, x)) = Len(t) + 1 /\ Append(t, x)[Len(t) + 1] = x
      /\ \A i \in 1 .. Len(t) : Append(t, x)[i] = t[i]
  BY OneMore
<1>3. /\ u \in Seq(S) /\ Len(u) = n
      /\ \A i \in 1 .. Len(s) : u[i] = s[i]
      /\ \A i \in 1 .. Len(t) : u[Len(s) + i] = t[i]
  BY Joined
<1>4. w \in Seq(S) /\ Len(w) = n + 1 /\ (\A i \in 1 .. n : w[i] = u[i]) /\ w[n + 1] = x
  <2>1. PICK y \in Seq(S) : y = s \o t
    BY Joined
  <2>2. /\ Append(y, x) \in Seq(S) /\ Len(Append(y, x)) = Len(y) + 1
        /\ \A i \in 1 .. Len(y) : Append(y, x)[i] = y[i]
        /\ Append(y, x)[Len(y) + 1] = x
    BY OneMore
  <2> QED BY <1>3, <2>1, <2>2
<1>5. /\ v \in Seq(S) /\ Len(v) = Len(s) + (Len(t) + 1)
      /\ \A i \in 1 .. Len(s) : v[i] = s[i]
      /\ \A i \in 1 .. Len(t) + 1 : v[Len(s) + i] = Append(t, x)[i]
  <2>1. PICK y \in Seq(S) : y = Append(t, x)
    BY OneMore
  <2>2. /\ s \o y \in Seq(S) /\ Len(s \o y) = Len(s) + Len(y)
        /\ \A i \in 1 .. Len(s) : (s \o y)[i] = s[i]
        /\ \A i \in 1 .. Len(y) : (s \o y)[Len(s) + i] = y[i]
    BY Joined
  <2> QED BY <1>2, <2>1, <2>2
<1> HIDE DEF u, v, w
<1>6. Len(v) = Len(w)
  BY <1>1, <1>4, <1>5
<1>7. ASSUME NEW i \in 1 .. Len(v) PROVE v[i] = w[i]
  <2>1. CASE i \in 1 .. Len(s)
    <3>1. i \in 1 .. n
      BY <1>1, <2>1
    <3> QED BY <1>3, <1>4, <1>5, <2>1, <3>1
  <2>2. CASE i \notin 1 .. Len(s) /\ i # n + 1
    <3>1. PICK k \in 1 .. Len(t) : i = Len(s) + k
      <4>1. i \in Nat /\ i > Len(s) /\ i <= Len(s) + (Len(t) + 1) /\ i # Len(s) + Len(t) + 1
        BY <1>1, <1>5, <2>2
      <4>2. i - Len(s) \in 1 .. Len(t) /\ i = Len(s) + (i - Len(s))
        BY <1>1, <4>1
      <4> QED BY <4>2
    <3>2. i \in 1 .. n /\ k \in 1 .. Len(t) + 1
      BY <1>1, <3>1
    <3>3. v[i] = t[k] /\ w[i] = t[k]
      BY <1>2, <1>3, <1>4, <1>5, <3>1, <3>2
    <3> QED BY <3>3
  <2>3. CASE i = n + 1
    <3>1. i = Len(s) + (Len(t) + 1) /\ Len(t) + 1 \in 1 .. Len(t) + 1
      BY <1>1, <2>3
    <3> QED BY <1>2, <1>4, <1>5, <2>3, <3>1
  <2> QED BY <2>1, <2>2, <2>3
<1>8. v = w
  BY <1>4, <1>5, <1>6, <1>7, SeqEqual
<1> QED BY <1>8 DEF v, w

\* The order holds each claimable event of the log once.
LEMMA Found ==
  ASSUME NEW rows
  PROVE  \A events \in Seq(Instance) :
           /\ SettleOrder(rows, events) \in Seq(Instance) /\ IsInjective(SettleOrder(rows, events))
           /\ ToSet(SettleOrder(rows, events)) = {i \in ToSet(events) : ClaimableIn(rows, i)}
<1> DEFINE Good(events) ==
             /\ SettleOrder(rows, events) \in Seq(Instance) /\ IsInjective(SettleOrder(rows, events))
             /\ ToSet(SettleOrder(rows, events)) = {i \in ToSet(events) : ClaimableIn(rows, i)}
           T == {n \in Nat : \A events \in Seq(Instance) : Len(events) = n => Good(events)}
<1>1. 0 \in T
  <2> SUFFICES ASSUME NEW events \in Seq(Instance), Len(events) = 0 PROVE Good(events)
    OBVIOUS
  <2>1. events = <<>> /\ <<>> \in Seq(Instance) /\ ToSet(<<>>) = {} /\ IsInjective(<<>>)
    BY EmptySeq DEF ToSet, IsInjective
  <2> QED BY <2>1, NothingFound
<1>2. ASSUME NEW n \in Nat, n \in T PROVE n + 1 \in T
  <2> SUFFICES ASSUME NEW events \in Seq(Instance), Len(events) = n + 1 PROVE Good(events)
    OBVIOUS
  <2>1. PICK r \in Seq(Instance), x \in Instance : events = Append(r, x) /\ Len(events) = Len(r) + 1
    <3>1. Len(events) # 0
      OBVIOUS
    <3> QED BY <3>1, LastLeaves
  <2>2. Len(r) \in Nat /\ Len(r) = n
    BY <2>1, Sequence
  <2>3. Good(r)
    BY <1>2, <2>2
  <2> DEFINE f == SettleOrder(rows, r)
             g == SettleOrder(rows, events)
  <2>4. f \in Seq(Instance) /\ IsInjective(f) /\ ToSet(f) = {i \in ToSet(r) : ClaimableIn(rows, i)}
    BY <2>3
  <2>5. g = Counted(rows, f, x) /\ ToSet(events) = ToSet(r) \cup {x}
    BY <2>1, OneEventMore, OneMore
  <2> HIDE DEF f
  <2> SUFFICES g \in Seq(Instance) /\ IsInjective(g) /\ ToSet(g) = {i \in ToSet(events) : ClaimableIn(rows, i)}
    OBVIOUS
  <2> HIDE DEF g
  <2>6. CASE ClaimableIn(rows, x) /\ x \notin ToSet(f)
    <3>1. g = Append(f, x)
      BY <2>5, <2>6 DEF Counted
    <3>2. g \in Seq(Instance) /\ IsInjective(g) /\ ToSet(g) = ToSet(f) \cup {x}
      BY <2>4, <2>6, <3>1, OneMore
    <3> QED BY <2>4, <2>5, <2>6, <3>2
  <2>7. CASE ~ (ClaimableIn(rows, x) /\ x \notin ToSet(f))
    <3>1. g = f
      BY <2>5, <2>7 DEF Counted
    <3> QED BY <2>4, <2>5, <2>7, <3>1
  <2> QED BY <2>6, <2>7
<1> HIDE DEF T
<1>3. \A n \in Nat : n \in T
  BY <1>1, <1>2, Induction
<1> QED BY <1>3, Sequence DEF T

\* More events only lengthen the order, and do not if it knows them all.
LEMMA FoundMore ==
  ASSUME NEW rows, NEW events \in Seq(Instance)
  PROVE  \A more \in Seq(Instance) :
           /\ Begins(SettleOrder(rows, events), SettleOrder(rows, events \o more))
           /\ ToSet(more) \subseteq ToSet(SettleOrder(rows, events))
                => SettleOrder(rows, events \o more) = SettleOrder(rows, events)
<1> DEFINE f == SettleOrder(rows, events)
           Good(more) == /\ Begins(f, SettleOrder(rows, events \o more))
                         /\ ToSet(more) \subseteq ToSet(f) => SettleOrder(rows, events \o more) = f
           T == {n \in Nat : \A more \in Seq(Instance) : Len(more) = n => Good(more)}
<1>0. f \in Seq(Instance) /\ Len(f) \in Nat
  BY Found, Sequence
<1>1. 0 \in T
  <2> SUFFICES ASSUME NEW more \in Seq(Instance), Len(more) = 0 PROVE Good(more)
    OBVIOUS
  <2>1. more = <<>>
    BY EmptySeq
  <2>2. events \o more = events
    BY <2>1, JoinedToNothing
  <2> QED BY <1>0, <2>2 DEF Begins
<1>2. ASSUME NEW n \in Nat, n \in T PROVE n + 1 \in T
  <2> SUFFICES ASSUME NEW more \in Seq(Instance), Len(more) = n + 1 PROVE Good(more)
    OBVIOUS
  <2>1. PICK r \in Seq(Instance), x \in Instance : more = Append(r, x) /\ Len(more) = Len(r) + 1
    <3>1. Len(more) # 0
      OBVIOUS
    <3> QED BY <3>1, LastLeaves
  <2>2. Len(r) \in Nat /\ Len(r) = n
    BY <2>1, Sequence
  <2>3. Good(r)
    BY <1>2, <2>2
  <2>4. events \o more = Append(events \o r, x) /\ events \o r \in Seq(Instance)
    BY <2>1, JoinedThenOne, Joined
  <2> DEFINE g == SettleOrder(rows, events \o r)
             h == SettleOrder(rows, events \o more)
  <2>5. h = Counted(rows, g, x) /\ ToSet(more) = ToSet(r) \cup {x}
    <3>1. SettleOrder(rows, Append(events \o r, x)) = Counted(rows, SettleOrder(rows, events \o r), x)
      BY <2>4, OneEventMore
    <3> QED BY <2>1, <2>4, <3>1, OneMore
  <2>6. g \in Seq(Instance) /\ Len(g) \in Nat
    BY <2>4, Found, Sequence
  <2>7. Begins(f, g) /\ (ToSet(r) \subseteq ToSet(f) => g = f)
    BY <2>3
  <2> SUFFICES Begins(f, h) /\ (ToSet(more) \subseteq ToSet(f) => h = f)
    OBVIOUS
  <2> HIDE DEF f, g, h
  <2>8. h = g \/ (h = Append(g, x) /\ x \notin ToSet(g))
    BY <2>5 DEF Counted
  <2>9. Begins(f, h)
    <3>1. CASE h = g
      BY <2>7, <3>1
    <3>2. CASE h = Append(g, x)
      <4>1. Len(h) = Len(g) + 1 /\ \A i \in 1 .. Len(g) : h[i] = g[i]
        BY <2>6, <3>2, OneMore
      <4>2. Len(f) <= Len(g) /\ \A i \in 1 .. Len(f) : f[i] = g[i] /\ i \in 1 .. Len(g)
        BY <1>0, <2>6, <2>7 DEF Begins
      <4> QED BY <1>0, <2>6, <4>1, <4>2 DEF Begins
    <3> QED BY <2>8, <3>1, <3>2
  <2>10. ASSUME ToSet(more) \subseteq ToSet(f) PROVE h = f
    <3>1. x \in ToSet(f) /\ g = f
      BY <2>5, <2>7, <2>10
    <3> QED BY <2>8, <3>1
  <2> QED BY <2>9, <2>10
<1> HIDE DEF T
<1>3. \A n \in Nat : n \in T
  BY <1>1, <1>2, Induction
<1> QED BY <1>3, Sequence DEF T

\* What rows the order is read with matters only for the events of the log.
LEMMA FoundSame ==
  ASSUME NEW rows, NEW other
  PROVE  \A events \in Seq(Instance) :
           (\A i \in ToSet(events) : ClaimableIn(rows, i) <=> ClaimableIn(other, i))
             => SettleOrder(rows, events) = SettleOrder(other, events)
<1> DEFINE Alike(events) == \A i \in ToSet(events) : ClaimableIn(rows, i) <=> ClaimableIn(other, i)
           Good(events) == Alike(events) => SettleOrder(rows, events) = SettleOrder(other, events)
           T == {n \in Nat : \A events \in Seq(Instance) : Len(events) = n => Good(events)}
<1>1. 0 \in T
  <2> SUFFICES ASSUME NEW events \in Seq(Instance), Len(events) = 0
               PROVE  SettleOrder(rows, events) = SettleOrder(other, events)
    OBVIOUS
  <2>1. events = <<>>
    BY EmptySeq
  <2> QED BY <2>1, NothingFound
<1>2. ASSUME NEW n \in Nat, n \in T PROVE n + 1 \in T
  <2> SUFFICES ASSUME NEW events \in Seq(Instance), Len(events) = n + 1, Alike(events)
               PROVE  SettleOrder(rows, events) = SettleOrder(other, events)
    OBVIOUS
  <2>1. PICK r \in Seq(Instance), x \in Instance : events = Append(r, x) /\ Len(events) = Len(r) + 1
    <3>1. Len(events) # 0
      OBVIOUS
    <3> QED BY <3>1, LastLeaves
  <2>2. Len(r) \in Nat /\ Len(r) = n
    BY <2>1, Sequence
  <2>3. ToSet(events) = ToSet(r) \cup {x}
    BY <2>1, OneMore
  <2>4. SettleOrder(rows, r) = SettleOrder(other, r)
    BY <1>2, <2>2, <2>3
  <2>5. ClaimableIn(rows, x) <=> ClaimableIn(other, x)
    BY <2>3
  <2>6. Counted(rows, SettleOrder(rows, r), x) = Counted(other, SettleOrder(other, r), x)
    BY <2>4, <2>5 DEF Counted
  <2> QED BY <2>1, <2>6, OneEventMore
<1> HIDE DEF T
<1>3. \A n \in Nat : n \in T
  BY <1>1, <1>2, Induction
<1> QED BY <1>3, Sequence DEF T

-----------------------------------------------------------------------------
(* The rows *)

Table == [Site -> Seq([input : Branch, status : {"running", "completed"}])]

Journaled(rows, i) == i \in Instance /\ i[2] <= Len(rows[i[1]])

\* Rows are added and completed, and neither change their input nor go back.
Keeps(rows, other) ==
  /\ \A s \in Site : Len(rows[s]) <= Len(other[s])
  /\ \A i : Journaled(rows, i) =>
       /\ other[i[1]][i[2]].input = rows[i[1]][i[2]].input
       /\ rows[i[1]][i[2]].status = "completed" => other[i[1]][i[2]].status = "completed"

LEMMA Sites == /\ Site \subseteq Nat \ {0} /\ NodeSite \subseteq Site /\ ReportSite \in Site
               /\ ReportSite \notin NodeSite /\ 1 \in NodeSite
               /\ \A s \in Site : s # ReportSite => s \in NodeSite /\ s + 1 \in Site
               /\ \A s \in NodeSite : s # ReportSite /\ s + 1 \in Site
BY ReplayOrderAssumption DEF Site, NodeSite, ReportSite

LEMMA BranchNumbers == Branch \subseteq Nat \ {0}
BY ReplayOrderAssumption DEF Branch

LEMMA RowOf ==
  ASSUME NEW rows \in Table, NEW i, Journaled(rows, i)
  PROVE  /\ i[1] \in Site /\ i[2] \in Nat \ {0} /\ i[2] \in 1 .. Len(rows[i[1]]) /\ i = <<i[1], i[2]>>
         /\ rows[i[1]][i[2]] \in [input : Branch, status : {"running", "completed"}]
         /\ rows[i[1]][i[2]].input \in Branch
         /\ rows[i[1]][i[2]].status \in {"running", "completed"}
<1>1. i[1] \in Site /\ i[2] \in Nat \ {0} /\ i[2] <= Len(rows[i[1]]) /\ i = <<i[1], i[2]>>
  BY DEF Journaled, Instance
<1>2. rows[i[1]] \in Seq([input : Branch, status : {"running", "completed"}])
  BY <1>1 DEF Table
<1>3. Len(rows[i[1]]) \in Nat
  BY <1>2, Sequence
<1>4. i[2] \in 1 .. Len(rows[i[1]])
  BY <1>1, <1>3
<1>5. rows[i[1]][i[2]] \in [input : Branch, status : {"running", "completed"}]
  BY <1>2, <1>4, Sequence
<1> QED BY <1>1, <1>4, <1>5

LEMMA Lengths == ASSUME NEW rows \in Table PROVE \A s \in Site : Len(rows[s]) \in Nat
<1>1. \A s \in Site : rows[s] \in Seq([input : Branch, status : {"running", "completed"}])
  BY DEF Table
<1> QED BY <1>1, Sequence

LEMMA KeptRows ==
  ASSUME NEW rows \in Table, NEW other \in Table, Keeps(rows, other), NEW i, Journaled(rows, i)
  PROVE  /\ Journaled(other, i)
         /\ other[i[1]][i[2]].input = rows[i[1]][i[2]].input
         /\ rows[i[1]][i[2]].status = "completed" => other[i[1]][i[2]].status = "completed"
<1>1. i[1] \in Site /\ i[2] \in Nat /\ i[2] <= Len(rows[i[1]]) /\ i \in Instance
  BY DEF Journaled, Instance
<1>2. Len(rows[i[1]]) \in Nat /\ Len(other[i[1]]) \in Nat /\ Len(rows[i[1]]) <= Len(other[i[1]])
  BY <1>1, Lengths DEF Keeps
<1>3. i[2] <= Len(other[i[1]])
  BY <1>1, <1>2
<1> QED BY <1>1, <1>3 DEF Keeps, Journaled

LEMMA SameRows == ASSUME NEW rows \in Table PROVE Keeps(rows, rows)
BY Lengths DEF Keeps

\* A row is completed.
Completed(rows, i) == [rows EXCEPT ![i[1]][i[2]].status = "completed"]

LEMMA CompletedRow ==
  ASSUME NEW rows \in Table, NEW i, Journaled(rows, i)
  PROVE  /\ Completed(rows, i) \in Table /\ Keeps(rows, Completed(rows, i))
         /\ \A s \in Site : Len(Completed(rows, i)[s]) = Len(rows[s])
         /\ Completed(rows, i)[i[1]][i[2]].status = "completed"
         /\ \A j : Journaled(rows, j) /\ j # i => Completed(rows, i)[j[1]][j[2]] = rows[j[1]][j[2]]
<1> DEFINE R == [input : Branch, status : {"running", "completed"}]
           s == i[1]
           o == i[2]
           old == rows[s]
           row == [old[o] EXCEPT !.status = "completed"]
           new == [old EXCEPT ![o] = row]
           t == Completed(rows, i)
<1>1. s \in Site /\ o \in 1 .. Len(old) /\ i = <<s, o>> /\ old[o] \in R
  BY RowOf
<1>2. old \in Seq(R)
  BY <1>1 DEF Table
<1>3. row \in R /\ row.input = old[o].input /\ row.status = "completed"
  BY <1>1
<1> HIDE DEF R, row
<1>4. /\ new \in Seq(R) /\ Len(new) = Len(old) /\ new[o] = row
      /\ \A p \in 1 .. Len(old) : p # o => new[p] = old[p]
  <2> HIDE DEF old, o
  <2> QED BY <1>1, <1>2, <1>3
<1>5. t = [rows EXCEPT ![s] = new]
  BY DEF Completed, row
<1> HIDE DEF new
<1>6. t \in Table /\ t[s] = new /\ \A r \in Site : r # s => t[r] = rows[r]
  <2>1. rows \in [Site -> Seq(R)] /\ s \in Site /\ new \in Seq(R)
    BY <1>1, <1>4 DEF Table, R
  <2> HIDE DEF t, s
  <2>2. t \in [Site -> Seq(R)]
    BY <1>5, <2>1
  <2>3. t[s] = new
    BY <1>5, <2>1
  <2>4. \A r \in Site : r # s => t[r] = rows[r]
    BY <1>5, <2>1
  <2> QED BY <2>2, <2>3, <2>4 DEF Table, R
<1> HIDE DEF t
<1>7. \A r \in Site : Len(t[r]) = Len(rows[r])
  BY <1>4, <1>6
<1>8. ASSUME NEW j, Journaled(rows, j), j # i PROVE t[j[1]][j[2]] = rows[j[1]][j[2]]
  <2>1. j[1] \in Site /\ j[2] \in 1 .. Len(rows[j[1]]) /\ j = <<j[1], j[2]>>
    BY <1>8, RowOf
  <2>2. CASE j[1] # s
    BY <1>6, <2>1, <2>2
  <2>3. CASE j[1] = s
    <3>1. j[2] # o
      BY <1>1, <1>8, <2>1, <2>3
    <3> QED BY <1>4, <1>6, <2>1, <2>3, <3>1
  <2> QED BY <2>2, <2>3
<1>9. t[s][o] = row
  BY <1>4, <1>6
<1>10. Keeps(rows, t)
  <2>1. \A r \in Site : Len(rows[r]) <= Len(t[r])
    BY <1>7, Lengths
  <2>2. ASSUME NEW j, Journaled(rows, j)
        PROVE  /\ t[j[1]][j[2]].input = rows[j[1]][j[2]].input
               /\ rows[j[1]][j[2]].status = "completed" => t[j[1]][j[2]].status = "completed"
    BY <1>3, <1>8, <1>9, <2>2
  <2> QED BY <2>1, <2>2 DEF Keeps
<1> QED BY <1>3, <1>6, <1>7, <1>8, <1>9, <1>10 DEF t

\* A row is added.
Added(rows, s, row) == [rows EXCEPT ![s] = Append(@, row)]

LEMMA AddedRow ==
  ASSUME NEW rows \in Table, NEW s \in Site,
         NEW row \in [input : Branch, status : {"running", "completed"}]
  PROVE  /\ Added(rows, s, row) \in Table /\ Keeps(rows, Added(rows, s, row))
         /\ Len(Added(rows, s, row)[s]) = Len(rows[s]) + 1
         /\ \A r \in Site : r # s => Added(rows, s, row)[r] = rows[r]
         /\ Added(rows, s, row)[s][Len(rows[s]) + 1] = row
         /\ \A j : Journaled(rows, j) => Added(rows, s, row)[j[1]][j[2]] = rows[j[1]][j[2]]
<1> DEFINE R == [input : Branch, status : {"running", "completed"}]
           new == Append(rows[s], row)
           t == Added(rows, s, row)
<1>1. rows[s] \in Seq(R) /\ Len(rows[s]) \in Nat
  BY Lengths DEF Table
<1>2. row \in R
  OBVIOUS
<1> HIDE DEF R
<1>3. /\ new \in Seq(R) /\ Len(new) = Len(rows[s]) + 1 /\ new[Len(rows[s]) + 1] = row
      /\ \A p \in 1 .. Len(rows[s]) : new[p] = rows[s][p]
  <2>1. PICK old \in Seq(R) : old = rows[s]
    BY <1>1
  <2> QED BY <1>2, <2>1, OneMore
<1> HIDE DEF new
<1>4. t = [rows EXCEPT ![s] = new]
  BY DEF Added, new
<1>5. t \in Table /\ t[s] = new /\ \A r \in Site : r # s => t[r] = rows[r]
  BY <1>3, <1>4 DEF Table, R
<1> HIDE DEF t
<1>6. ASSUME NEW j, Journaled(rows, j) PROVE t[j[1]][j[2]] = rows[j[1]][j[2]]
  <2>1. j[1] \in Site /\ j[2] \in 1 .. Len(rows[j[1]])
    BY <1>6, RowOf
  <2> QED BY <1>3, <1>5, <2>1, SMTT(30)
<1>7. \A r \in Site : Len(rows[r]) <= Len(t[r])
  <2>1. ASSUME NEW r \in Site PROVE Len(rows[r]) <= Len(t[r])
    <3>1. Len(rows[r]) \in Nat
      BY Lengths
    <3> QED BY <1>1, <1>3, <1>5, <3>1
  <2> QED BY <2>1
<1>8. Keeps(rows, t)
  BY <1>6, <1>7 DEF Keeps
<1> QED BY <1>3, <1>5, <1>6, <1>8 DEF t

-----------------------------------------------------------------------------
(* The log *)

\* The row of a node that has been settled.
Finished(rows, i) ==
  Journaled(rows, i) /\ i[1] \in NodeSite /\ rows[i[1]][i[2]].status = "completed"

LEMMA FinishedClaimable == ASSUME NEW rows, NEW i, Finished(rows, i) PROVE ClaimableIn(rows, i)
BY Sites DEF Finished, ClaimableIn, SiteOf

LEMMA KeptFinished ==
  ASSUME NEW rows \in Table, NEW other \in Table, Keeps(rows, other), NEW i, Finished(rows, i)
  PROVE  Finished(other, i)
BY KeptRows DEF Finished

LEMMA JoinedToOne == ASSUME NEW S, NEW s \in Seq(S), NEW x \in S PROVE s \o <<x>> = Append(s, x)
<1>1. <<>> \in Seq(S) /\ Append(<<>>, x) = <<x>>
  OBVIOUS
<1>2. s \o Append(<<>>, x) = Append(s \o <<>>, x)
  BY <1>1, JoinedThenOne
<1> QED BY <1>1, <1>2, JoinedToNothing

LEMMA BeginsAgain ==
  ASSUME NEW S, NEW s \in Seq(S), NEW t \in Seq(S), NEW u \in Seq(S), Begins(s, t), Begins(t, u)
  PROVE  Begins(s, u)
<1>1. Len(s) \in Nat /\ Len(t) \in Nat /\ Len(u) \in Nat /\ Len(s) <= Len(t) /\ Len(t) <= Len(u)
  BY Sequence DEF Begins
<1>2. \A i \in 1 .. Len(s) : i \in 1 .. Len(t) /\ s[i] = t[i] /\ t[i] = u[i]
  BY <1>1 DEF Begins
<1> QED BY <1>1, <1>2 DEF Begins

LEMMA BeginsItself == ASSUME NEW S, NEW s \in Seq(S) PROVE Begins(s, s)
BY Sequence DEF Begins

\* The order of a log of settled nodes has all of them.
LEMMA OrderOfLog ==
  ASSUME NEW rows, NEW events \in Seq(Instance), \A i \in ToSet(events) : Finished(rows, i)
  PROVE  /\ SettleOrder(rows, events) \in Seq(Instance) /\ IsInjective(SettleOrder(rows, events))
         /\ ToSet(SettleOrder(rows, events)) = ToSet(events)
<1>1. \A i \in ToSet(events) : ClaimableIn(rows, i)
  BY FinishedClaimable
<1> QED BY <1>1, Found, ZenonT(40)

\* Later rows give the same order.
LEMMA OrderKept ==
  ASSUME NEW rows \in Table, NEW other \in Table, Keeps(rows, other),
         NEW events \in Seq(Instance), \A i \in ToSet(events) : Finished(rows, i)
  PROVE  /\ \A i \in ToSet(events) : Finished(other, i)
         /\ SettleOrder(other, events) = SettleOrder(rows, events)
<1>1. \A i \in ToSet(events) : Finished(other, i)
  BY KeptFinished
<1>2. \A i \in ToSet(events) : ClaimableIn(rows, i) <=> ClaimableIn(other, i)
  BY <1>1, FinishedClaimable
<1> QED BY <1>1, <1>2, FoundSame

\* More events make it longer, known ones leave it, a new one is the last.
LEMMA OrderGrows ==
  ASSUME NEW rows \in Table, NEW other \in Table, Keeps(rows, other),
         NEW events \in Seq(Instance), \A i \in ToSet(events) : Finished(rows, i),
         NEW more \in Seq(Instance), \A i \in ToSet(more) : Finished(other, i)
  PROVE  /\ \A i \in ToSet(events \o more) : Finished(other, i)
         /\ Begins(SettleOrder(rows, events), SettleOrder(other, events \o more))
         /\ ToSet(more) \subseteq ToSet(events)
              => SettleOrder(other, events \o more) = SettleOrder(rows, events)
<1>1. \A i \in ToSet(events) : Finished(other, i)
  BY OrderKept
<1>2. SettleOrder(other, events) = SettleOrder(rows, events)
  BY OrderKept
<1>3. ToSet(SettleOrder(rows, events)) = ToSet(events)
  BY OrderOfLog
<1>4. ToSet(events \o more) = ToSet(events) \cup ToSet(more)
  BY Joined
<1> QED BY <1>1, <1>2, <1>3, <1>4, FoundMore

LEMMA OrderGrowsByOne ==
  ASSUME NEW rows \in Table, NEW other \in Table, Keeps(rows, other),
         NEW events \in Seq(Instance), \A i \in ToSet(events) : Finished(rows, i),
         NEW i \in Instance, Finished(other, i), i \notin ToSet(events)
  PROVE  SettleOrder(other, events \o <<i>>) = Append(SettleOrder(rows, events), i)
<1>1. SettleOrder(other, events) = SettleOrder(rows, events)
  BY OrderKept
<1>2. i \notin ToSet(SettleOrder(rows, events)) /\ ClaimableIn(other, i)
  BY OrderOfLog, FinishedClaimable
<1>3. SettleOrder(other, Append(events, i)) = Counted(other, SettleOrder(other, events), i)
  BY OneEventMore
<1> QED BY <1>1, <1>2, <1>3, JoinedToOne DEF Counted

-----------------------------------------------------------------------------
(* The invariant *)

Open == parked \cup ToSet(queue) \cup Live

\* A branch is in one place: a call of it is under way, or an answer to it, or
\* one node of it is open, which is the one it has called.
StreamsOK ==
  /\ IsInjective(calls) /\ IsInjective(replies) /\ ToSet(calls) \cap ToSet(replies) = {}
  /\ \A b \in ToSet(replies) : at[b] \in NodeSite

Waits(i) ==
  /\ Journaled(journal, i) /\ i[1] \in NodeSite /\ i[2] <= ordinal[i[1]]
  /\ i[1] = at[BranchOf(i)]
  /\ BranchOf(i) \notin ToSet(calls) \cup ToSet(replies)

WaitingOK ==
  /\ \A i \in Open : Waits(i)
  /\ \A i, j \in Open : BranchOf(i) = BranchOf(j) => i = j

GateOK ==
  /\ IsInjective(queue) /\ parked \cap ToSet(queue) = {}
  /\ \A i \in parked \cup ToSet(queue) : Finished(journal, i)

\* Only settled nodes are logged, and the order of this life is how the order
\* of the next begins.
LogOK ==
  /\ \A i \in ToSet(log) : Finished(journal, i)
  /\ \A i \in ToSet(order) : Finished(journal, i)
  /\ IsInjective(order)
  /\ Begins(order, SettleOrder(journal, log))

CountsOK == \A s \in Site : ordinal[s] <= Len(journal[s])

Running == StreamsOK /\ WaitingOK /\ GateOK /\ LogOK /\ CountsOK
Base == TypeOK /\ (outcome = "running" => Running)

LEMMA Types ==
  ASSUME TypeOK
  PROVE  /\ journal \in Table
         /\ log \in Seq(Instance) /\ order \in Seq(Instance) /\ queue \in Seq(Instance)
         /\ Len(order) \in Nat /\ cursor \in Nat /\ cursor <= Len(order)
         /\ calls \in Seq(Branch) /\ replies \in Seq(Branch)
         /\ at \in [Branch -> Site] /\ ordinal \in [Site -> Nat]
         /\ parked \subseteq Instance
<1>1. order \in Seq(Instance)
  BY DEF TypeOK
<1>2. Len(order) \in Nat
  BY <1>1, Sequence
<1>3. cursor \in Nat /\ cursor <= Len(order)
  BY <1>2 DEF TypeOK
<1>4. journal \in Table
  BY DEF TypeOK, Table
<1> QED BY <1>1, <1>2, <1>3, <1>4 DEF TypeOK

LEMMA LiveRows ==
  ASSUME TypeOK, CountsOK, NEW i \in Live
  PROVE  /\ i \in Instance /\ Journaled(journal, i) /\ i[1] \in NodeSite /\ i[1] \in Site
         /\ i[2] <= ordinal[i[1]] /\ Row(i).status = "running" /\ ~ Finished(journal, i)
<1>1. i \in NodeSite \X Branch /\ i[2] <= ordinal[i[1]] /\ Row(i).status = "running"
  BY DEF Live
<1>2. i[1] \in NodeSite /\ i[2] \in Branch /\ i = <<i[1], i[2]>>
  BY <1>1
<1>3. i[1] \in Site /\ i[2] \in Nat \ {0} /\ i \in Instance
  BY <1>1, <1>2, Sites, BranchNumbers DEF Instance
<1>4. ordinal[i[1]] \in Nat /\ ordinal[i[1]] <= Len(journal[i[1]]) /\ Len(journal[i[1]]) \in Nat
  BY <1>3, Types, Lengths DEF CountsOK
<1>5. i[2] <= Len(journal[i[1]])
  BY <1>1, <1>3, <1>4
<1> QED BY <1>1, <1>2, <1>3, <1>5 DEF Journaled, Finished, Row

-----------------------------------------------------------------------------
(* The next call is taken *)

Takes(b, i) ==
  /\ b = Caller /\ i = Called /\ b \in Branch /\ i \in Instance
  /\ i[1] = at[b] /\ i[2] = ordinal[i[1]] + 1
  /\ Recorded <=> Journaled(journal, i)
  /\ b \in ToSet(calls) /\ b \notin ToSet(replies)
  /\ calls' \in Seq(Branch) /\ IsInjective(calls') /\ ToSet(calls') = ToSet(calls) \ {b}
  /\ ordinal' \in [Site -> Nat] /\ ordinal'[i[1]] = i[2]
  /\ \A s \in Site : s # i[1] => ordinal'[s] = ordinal[s]
  /\ \A s \in Site : ordinal[s] <= ordinal'[s]

LEMMA CallIsTaken ==
  ASSUME TypeOK, StreamsOK, TakeCall
  PROVE  \E b \in Branch, i \in Instance : Takes(b, i)
<1> DEFINE b == Head(calls)
           s == at[b]
           o == ordinal[s] + 1
           i == <<s, o>>
<1>1. calls \in Seq(Branch) /\ calls # <<>>
  BY Types DEF TakeCall
<1>2. b \in Branch /\ b \in ToSet(calls)
  BY <1>1, NonEmpty
<1>3. calls' \in Seq(Branch) /\ IsInjective(calls') /\ ToSet(calls') = ToSet(calls) \ {b}
  BY <1>1, HeadLeaves DEF TakeCall, StreamsOK
<1>4. b \notin ToSet(replies)
  BY <1>2 DEF StreamsOK
<1>5. s \in Site /\ ordinal[s] \in Nat
  BY <1>2, Types
<1>6. Caller = b /\ Called = i /\ (Recorded <=> o <= Len(journal[s]))
  BY DEF Caller, Called, Recorded
<1>7. ordinal' = [ordinal EXCEPT ![s] = @ + 1]
  BY <1>6 DEF TakeCall
<1>8. /\ ordinal' \in [Site -> Nat] /\ ordinal'[s] = o
      /\ \A r \in Site : r # s => ordinal'[r] = ordinal[r]
  BY <1>5, <1>7, Types
<1> HIDE DEF b, s
<1>9. \A r \in Site : ordinal[r] <= ordinal'[r]
  <2>1. ASSUME NEW r \in Site PROVE ordinal[r] <= ordinal'[r]
    <3>1. ordinal[r] \in Nat
      BY Types
    <3> QED BY <1>5, <1>8, <3>1
  <2> QED BY <2>1
<1>10. i \in Instance /\ i[1] = s /\ i[2] = o
  BY <1>5 DEF Instance
<1>11. s = at[b]
  BY DEF s
<1> HIDE DEF i, o
<1>12. o = ordinal[s] + 1
  BY DEF o
<1>13. Recorded <=> Journaled(journal, i)
  BY <1>6, <1>10 DEF Journaled
<1>14. Takes(b, i)
  BY <1>2, <1>3, <1>4, <1>6, <1>8, <1>9, <1>10, <1>11, <1>12, <1>13 DEF Takes
<1> QED BY <1>2, <1>10, <1>14

\* Who is open has not been called again.
LEMMA OthersWait ==
  ASSUME NEW b, NEW i, Takes(b, i), WaitingOK
  PROVE  \A j \in Open : BranchOf(j) # b /\ BranchOf(j) \notin ToSet(calls')
BY DEF Takes, WaitingOK, Waits

\* Only the node that was called can be executing anew.
LEMMA LiveAfterCall ==
  ASSUME TypeOK, CountsOK, NEW b, NEW i, Takes(b, i),
         \A j : Journaled(journal, j) => Row(j)' = Row(j)
  PROVE  Live' \subseteq Live \cup {i}
<1> SUFFICES ASSUME NEW j \in Live', j # i PROVE j \in Live
  OBVIOUS
<1>1. j \in NodeSite \X Branch /\ j[2] <= ordinal'[j[1]] /\ Row(j)'.status = "running"
  BY DEF Live
<1>2. j[1] \in Site /\ j[2] \in Nat \ {0} /\ j = <<j[1], j[2]>> /\ j \in Instance
  <2>1. j[1] \in NodeSite /\ j[2] \in Branch /\ j = <<j[1], j[2]>>
    BY <1>1
  <2> QED BY <2>1, Sites, BranchNumbers DEF Instance
<1>3. i = <<i[1], i[2]>> /\ i[1] \in Site /\ i[2] \in Nat /\ i[2] = ordinal[i[1]] + 1 /\ ordinal'[i[1]] = i[2]
  BY DEF Takes, Instance
<1>4. ordinal[j[1]] \in Nat /\ ordinal[j[1]] <= Len(journal[j[1]]) /\ Len(journal[j[1]]) \in Nat
  BY <1>2, Types, Lengths DEF CountsOK
<1>5. j[2] <= ordinal[j[1]]
  <2>1. CASE j[1] = i[1]
    <3>1. j[2] # i[2]
      BY <1>2, <1>3, <2>1
    <3> QED BY <1>1, <1>2, <1>3, <1>4, <2>1, <3>1
  <2>2. CASE j[1] # i[1]
    BY <1>1, <1>2, <2>2 DEF Takes
  <2> QED BY <2>1, <2>2
<1>6. Journaled(journal, j)
  BY <1>2, <1>4, <1>5 DEF Journaled
<1> QED BY <1>1, <1>5, <1>6 DEF Live

\* Everybody who stays open waits on.
LEMMA WaitingKept ==
  ASSUME TypeOK, TypeOK', Keeps(journal, journal'), WaitingOK, NEW New,
         Open' \subseteq Open \cup New,
         \A i \in New : Waits(i)',
         \A i \in New, j \in Open : BranchOf(i)' # BranchOf(j),
         \A i, j \in New : i = j,
         \A i \in Open : i \in Open' =>
              /\ at'[BranchOf(i)] = at[BranchOf(i)]
              /\ BranchOf(i) \notin ToSet(calls') \cup ToSet(replies'),
         \A s \in Site : ordinal[s] <= ordinal'[s]
  PROVE  WaitingOK'
<1>1. ASSUME NEW i \in Open PROVE BranchOf(i)' = BranchOf(i) /\ Journaled(journal, i) /\ Journaled(journal', i)
  <2>1. Journaled(journal, i)
    BY DEF WaitingOK, Waits
  <2>2. journal \in Table /\ journal' \in Table
    BY DEF TypeOK, Table
  <2> QED BY <2>1, <2>2, KeptRows DEF BranchOf, Row
<1>2. ASSUME NEW i \in Open, i \in Open' PROVE Waits(i)'
  <2>1. i[1] \in NodeSite /\ i[2] <= ordinal[i[1]] /\ i[1] = at[BranchOf(i)]
    BY DEF WaitingOK, Waits
  <2>2. i[1] \in Site /\ i[2] \in Nat /\ ordinal[i[1]] \in Nat /\ ordinal'[i[1]] \in Nat
    BY <1>1, Types, RowOf DEF TypeOK
  <2>3. i[2] <= ordinal'[i[1]]
    BY <2>1, <2>2
  <2>4. at'[BranchOf(i)] = at[BranchOf(i)] /\ BranchOf(i) \notin ToSet(calls') \cup ToSet(replies')
    BY <1>2
  <2> QED BY <1>1, <2>1, <2>3, <2>4 DEF Waits
<1>3. \A i \in Open' : Waits(i)'
  BY <1>2
<1>4. ASSUME NEW i \in Open', NEW j \in Open', BranchOf(i)' = BranchOf(j)' PROVE i = j
  <2>1. CASE i \in Open /\ j \in Open
    BY <1>1, <1>4, <2>1 DEF WaitingOK
  <2>2. CASE i \in New /\ j \in New
    BY <2>2
  <2>3. CASE i \in New /\ j \in Open
    BY <1>1, <1>4, <2>3
  <2>4. CASE i \in Open /\ j \in New
    BY <1>1, <1>4, <2>4
  <2> QED BY <2>1, <2>2, <2>3, <2>4
<1> QED BY <1>3, <1>4 DEF WaitingOK

-----------------------------------------------------------------------------
(* The gate *)

LEMMA PumpStops ==
  ASSUME TypeOK, NEW arrived
  PROVE  /\ PumpedTo(arrived) \in cursor .. Len(order)
         /\ \A j \in cursor + 1 .. PumpedTo(arrived) : order[j] \in arrived
         /\ PumpedTo(arrived) < Len(order) => order[PumpedTo(arrived) + 1] \notin arrived
<1> DEFINE Stops == {k \in cursor .. Len(order) : k < Len(order) => order[k + 1] \notin arrived}
<1>1. Len(order) \in Nat /\ cursor \in Nat /\ cursor <= Len(order)
  BY Types
<1>2. PICK k \in Stops : \A m \in Stops : k <= m
  <2>1. Len(order) \in Stops /\ Stops \subseteq Nat
    BY <1>1
  <2> HIDE DEF Stops
  <2> QED BY <2>1, Least
<1>3. k \in cursor .. Len(order) /\ (k < Len(order) => order[k + 1] \notin arrived)
  OBVIOUS
<1>4. ASSUME NEW j \in cursor + 1 .. k PROVE order[j] \in arrived
  <2>1. j - 1 \in cursor .. Len(order) /\ j - 1 < Len(order) /\ (j - 1) + 1 = j /\ ~ (k <= j - 1)
    BY <1>1, <1>3
  <2>2. j - 1 \notin Stops
    BY <1>2, <2>1
  <2> QED BY <2>1, <2>2
<1> QED BY <1>3, <1>4 DEF PumpedTo

\* What a cached settlement that arrives does to the gate.
HoldMoves(i, to) ==
  /\ to \in cursor .. Len(order) /\ cursor' = to
  /\ \A k \in cursor + 1 .. to : order[k] \in parked \cup {i}
  /\ queue' = queue \o SubSeq(order, cursor + 1, to)
  /\ queue' \in Seq(Instance) /\ Len(queue') = Len(queue) + (to - cursor)
  /\ \A k \in 1 .. Len(queue) : queue'[k] = queue[k]
  /\ \A k \in 1 .. to - cursor : queue'[Len(queue) + k] = order[cursor + k]
  /\ parked' \subseteq Instance
  /\ parked' \cup ToSet(queue') = parked \cup ToSet(queue) \cup {i}
  /\ ToSet(queue) \subseteq ToSet(queue')
  /\ IsInjective(queue') /\ parked' \cap ToSet(queue') = {}

LEMMA HoldsInGate ==
  ASSUME TypeOK, GateOK, IsInjective(order), NEW i \in Instance, i = Called, Hold,
         i \notin parked \cup ToSet(queue)
  PROVE  \E to : HoldMoves(i, to)
<1> DEFINE arrived == parked \cup {i}
           to == PumpedTo(arrived)
           moved == SubSeq(order, cursor + 1, to)
           passed == {order[k] : k \in cursor + 1 .. to}
<1>1. /\ cursor' = to /\ queue' = queue \o moved
      /\ parked' = arrived \ passed
  BY DEF Hold
<1>2. to \in cursor .. Len(order) /\ \A k \in cursor + 1 .. to : order[k] \in arrived
  BY PumpStops
<1>3. cursor \in Nat /\ order \in Seq(Instance) /\ queue \in Seq(Instance) /\ parked \subseteq Instance
  BY Types
<1> HIDE DEF to
<1>4. /\ moved \in Seq(Instance) /\ Len(moved) = to - cursor /\ ToSet(moved) = passed
      /\ (\A k \in 1 .. to - cursor : moved[k] = order[cursor + k]) /\ IsInjective(moved)
  BY <1>2, <1>3, Stretch, SMTT(30)
<1>5. passed \subseteq arrived /\ passed \cap ToSet(queue) = {}
  BY <1>2 DEF GateOK
<1> HIDE DEF moved, passed
<1>6. /\ queue' \in Seq(Instance) /\ Len(queue') = Len(queue) + Len(moved)
      /\ \A k \in 1 .. Len(queue) : queue'[k] = queue[k]
      /\ \A k \in 1 .. Len(moved) : queue'[Len(queue) + k] = moved[k]
      /\ ToSet(queue') = ToSet(queue) \cup passed
      /\ IsInjective(queue')
  <2>1. PICK m \in Seq(Instance) : m = moved
    BY <1>4
  <2>2. /\ queue \o m \in Seq(Instance) /\ Len(queue \o m) = Len(queue) + Len(m)
        /\ \A k \in 1 .. Len(queue) : (queue \o m)[k] = queue[k]
        /\ \A k \in 1 .. Len(m) : (queue \o m)[Len(queue) + k] = m[k]
        /\ ToSet(queue \o m) = ToSet(queue) \cup ToSet(m)
        /\ IsInjective(queue) /\ IsInjective(m) /\ ToSet(queue) \cap ToSet(m) = {} => IsInjective(queue \o m)
    BY <1>3, Joined
  <2>3. ToSet(m) = passed /\ IsInjective(m) /\ IsInjective(queue)
    BY <1>4, <2>1 DEF GateOK
  <2> QED BY <1>1, <1>5, <2>1, <2>2, <2>3
<1>7. parked' \subseteq Instance /\ parked' \cap ToSet(queue') = {} /\ ToSet(queue) \subseteq ToSet(queue')
      /\ parked' \cup ToSet(queue') = parked \cup ToSet(queue) \cup {i}
  BY <1>1, <1>3, <1>5, <1>6 DEF GateOK
<1>8. queue' = queue \o SubSeq(order, cursor + 1, to)
  BY <1>1 DEF moved
<1>9. HoldMoves(i, to)
  BY <1>1, <1>2, <1>4, <1>6, <1>7, <1>8 DEF HoldMoves
<1> QED BY <1>9

-----------------------------------------------------------------------------
(* The engine takes a call *)

\* The call is recorded under the branch that makes it, and has an answer.
LEMMA CachedIsFinished ==
  ASSUME TypeOK, NEW b, NEW i, Takes(b, i), Replays, Claimable(Called)
  PROVE  Finished(journal, i) /\ Journaled(journal, i) /\ BranchOf(i) = b /\ i[1] \in NodeSite
<1>1. Journaled(journal, i) /\ BranchOf(i) = b
  BY DEF Replays, Takes
<1>2. i[1] \in Site /\ i[1] # ReportSite /\ journal[i[1]][i[2]].status = "completed"
  BY DEF Takes, Claimable, ClaimableIn, SiteOf, Instance
<1> QED BY <1>1, <1>2, Sites DEF Finished

\* The only new node that is open afterwards is the one that was called.
LEMMA CalledWaits ==
  ASSUME TypeOK, TypeOK', Running, Keeps(journal, journal'), NEW b, NEW i, Takes(b, i),
         NEW New, New \subseteq {i}, Open' \subseteq Open \cup New,
         \A j \in New : Waits(j)' /\ BranchOf(j)' = b,
         at' = at, ToSet(replies') \subseteq ToSet(replies) \cup {b}
  PROVE  WaitingOK'
<1>1. \A j \in Open : BranchOf(j) # b /\ BranchOf(j) \notin ToSet(calls')
  BY OthersWait DEF Running
<1>2. \A j \in Open : BranchOf(j) \notin ToSet(replies)
  BY DEF Running, WaitingOK, Waits
<1>3. \A s \in Site : ordinal[s] <= ordinal'[s]
  BY DEF Takes
<1>4. \A j \in New : Waits(j)'
  OBVIOUS
<1>5. \A j \in New, k \in Open : BranchOf(j)' # BranchOf(k)
  BY <1>1
<1>6. \A j \in Open : j \in Open' =>
        /\ at'[BranchOf(j)] = at[BranchOf(j)]
        /\ BranchOf(j) \notin ToSet(calls') \cup ToSet(replies')
  BY <1>1, <1>2
<1>7. WaitingOK /\ \A j, k \in New : j = k
  BY DEF Running
<1> QED BY <1>3, <1>4, <1>5, <1>6, <1>7, WaitingKept

LEMMA CountsKept ==
  ASSUME TypeOK, CountsOK, NEW b, NEW i, Takes(b, i), journal' \in Table, Keeps(journal, journal'),
         Journaled(journal', i)
  PROVE  CountsOK'
<1> SUFFICES ASSUME NEW s \in Site PROVE ordinal'[s] <= Len(journal'[s])
  BY DEF CountsOK
<1>1. Len(journal[s]) \in Nat /\ Len(journal'[s]) \in Nat /\ Len(journal[s]) <= Len(journal'[s])
  BY Types, Lengths DEF Keeps
<1>2. CASE s = i[1]
  BY <1>2 DEF Takes, Journaled
<1>3. CASE s # i[1]
  <2>1. ordinal'[s] = ordinal[s] /\ ordinal[s] <= Len(journal[s]) /\ ordinal[s] \in Nat
    BY <1>3, Types DEF Takes, CountsOK
  <2> QED BY <1>1, <2>1
<1> QED BY <1>2, <1>3

LEMMA HoldKeepsBase == ASSUME Base, Hold PROVE Base'
<1>1. TypeOK /\ outcome = "running" /\ Running /\ TakeCall /\ Replays /\ Claimable(Called)
  BY DEF Base, Hold, TakeCall
<1>2. PICK b \in Branch, i \in Instance : Takes(b, i)
  BY <1>1, CallIsTaken DEF Running
<1>3. Finished(journal, i) /\ Journaled(journal, i) /\ BranchOf(i) = b /\ i[1] \in NodeSite
  BY <1>1, <1>2, CachedIsFinished
<1>4. i = Called /\ i \notin Open /\ \A j \in Open : BranchOf(j) # b /\ BranchOf(j) \notin ToSet(calls')
  BY <1>1, <1>2, <1>3, OthersWait DEF Running, Takes
<1>5. PICK to : HoldMoves(i, to)
  <2>1. i \notin parked \cup ToSet(queue)
    BY <1>4 DEF Open
  <2> QED BY <1>1, <1>4, <2>1, HoldsInGate DEF Running, LogOK
<1>6. UNCHANGED <<journal, log, torn, overtaken, lives, outcome, at, replies, order>>
  BY DEF Hold, durable
<1>7. TypeOK'
  <2>1. Len(order) \in Nat /\ cursor \in Nat
    BY <1>1, Types
  <2>2. cursor' \in 0 .. Len(order)
    BY <1>5, <2>1 DEF HoldMoves
  <2>3. calls' \in Seq(Branch) /\ ordinal' \in [Site -> Nat]
    BY <1>2 DEF Takes
  <2>4. queue' \in Seq(Instance) /\ parked' \subseteq Instance
    BY <1>5 DEF HoldMoves
  <2> QED BY <1>1, <1>6, <2>2, <2>3, <2>4 DEF TypeOK
<1>8. StreamsOK'
  BY <1>1, <1>2, <1>6 DEF Running, StreamsOK, Takes
<1>9. Keeps(journal, journal')
  BY <1>1, <1>6, Types, SameRows
<1>10. Open' \subseteq Open \cup {i}
  <2>1. \A j : Journaled(journal, j) => Row(j)' = Row(j)
    BY <1>6 DEF Row
  <2>2. Live' \subseteq Live \cup {i}
    BY <1>1, <1>2, <2>1, LiveAfterCall DEF Running
  <2> QED BY <1>5, <2>2 DEF HoldMoves, Open
<1>11. BranchOf(i)' = b /\ Waits(i)'
  <2>1. BranchOf(i)' = BranchOf(i)
    BY <1>6 DEF BranchOf, Row
  <2>2. i[1] = at[b] /\ ordinal'[i[1]] = i[2] /\ b \notin ToSet(calls') \cup ToSet(replies) /\ i[2] \in Nat
    BY <1>2 DEF Takes, Instance
  <2> QED BY <1>3, <1>6, <2>1, <2>2 DEF Waits
<1>12. WaitingOK'
  <2>1. PICK New : New = {i}
    OBVIOUS
  <2>2. New \subseteq {i} /\ (\A j \in New : Waits(j)' /\ BranchOf(j)' = b) /\ Open' \subseteq Open \cup New
    BY <1>10, <1>11, <2>1
  <2>3. at' = at /\ ToSet(replies') \subseteq ToSet(replies) \cup {b}
    BY <1>6
  <2> QED BY <1>1, <1>2, <1>7, <1>9, <2>2, <2>3, CalledWaits
<1>13. GateOK'
  BY <1>1, <1>3, <1>5, <1>6 DEF Running, GateOK, HoldMoves
<1>14. LogOK'
  BY <1>1, <1>6 DEF Running, LogOK
<1>15. CountsOK'
  <2>1. journal' \in Table /\ Journaled(journal', i)
    BY <1>1, <1>3, <1>6, Types
  <2> QED BY <1>1, <1>2, <1>9, <2>1, CountsKept DEF Running
<1> QED BY <1>7, <1>8, <1>12, <1>13, <1>14, <1>15 DEF Base, Running

-----------------------------------------------------------------------------
(* Answers *)

Answered(new) ==
  /\ replies' \in Seq(Branch) /\ Len(replies') = Len(replies) + Len(new)
  /\ \A k \in 1 .. Len(replies) : replies'[k] = replies[k]
  /\ \A k \in 1 .. Len(new) : replies'[Len(replies) + k] = BranchOf(new[k])
  /\ ToSet(replies') = ToSet(replies) \cup {BranchOf(i) : i \in ToSet(new)}

LEMMA AnswersGoOut ==
  ASSUME TypeOK, NEW new \in Seq(Instance), \A i \in ToSet(new) : Journaled(journal, i),
         replies' = replies \o BranchesOf(new)
  PROVE  Answered(new)
<1> DEFINE b == BranchesOf(new)
<1>1. Len(new) \in Nat /\ DOMAIN new = 1 .. Len(new)
  BY Sequence
<1>2. \A k \in 1 .. Len(new) : new[k] \in ToSet(new) /\ BranchOf(new[k]) \in Branch
  <2>1. ASSUME NEW k \in 1 .. Len(new) PROVE new[k] \in ToSet(new)
    BY Elements
  <2>2. ASSUME NEW i \in ToSet(new) PROVE BranchOf(i) \in Branch
    BY Types, RowOf DEF BranchOf, Row
  <2> QED BY <2>1, <2>2
<1>3. b = [k \in 1 .. Len(new) |-> BranchOf(new[k])]
  BY <1>1 DEF BranchesOf
<1> HIDE DEF b
<1>4. b \in [1 .. Len(new) -> Branch] /\ \A k \in 1 .. Len(new) : b[k] = BranchOf(new[k])
  BY <1>2, <1>3
<1>5. PICK c \in Seq(Branch) : c = b /\ Len(c) = Len(new)
  BY <1>1, <1>4, TableIsSequence
<1>6. replies \in Seq(Branch)
  BY Types
<1>7. /\ replies \o c \in Seq(Branch) /\ Len(replies \o c) = Len(replies) + Len(c)
      /\ \A k \in 1 .. Len(replies) : (replies \o c)[k] = replies[k]
      /\ \A k \in 1 .. Len(c) : (replies \o c)[Len(replies) + k] = c[k]
      /\ ToSet(replies \o c) = ToSet(replies) \cup ToSet(c)
  BY <1>6, Joined
<1>8. ToSet(c) = {BranchOf(i) : i \in ToSet(new)}
  <2>1. ASSUME NEW x \in ToSet(c) PROVE x \in {BranchOf(i) : i \in ToSet(new)}
    <3>1. PICK k \in 1 .. Len(c) : x = c[k]
      BY Elements
    <3> QED BY <1>2, <1>4, <1>5, <3>1
  <2>2. ASSUME NEW i \in ToSet(new) PROVE BranchOf(i) \in ToSet(c)
    <3>1. PICK k \in 1 .. Len(new) : i = new[k]
      BY Elements
    <3>2. c[k] = BranchOf(i) /\ k \in 1 .. Len(c)
      BY <1>4, <1>5, <3>1
    <3> QED BY <3>2, Elements
  <2> QED BY <2>1, <2>2
<1>9. replies' = replies \o c
  BY <1>5 DEF b
<1> QED BY <1>4, <1>5, <1>7, <1>8, <1>9 DEF Answered

\* Answers to branches that are in no stream keep the streams in order.
LEMMA StreamsAfterAnswers ==
  ASSUME TypeOK, StreamsOK, NEW new \in Seq(Instance), IsInjective(new), Answered(new),
         \A i, j \in ToSet(new) : BranchOf(i) = BranchOf(j) => i = j,
         \A i \in ToSet(new) : /\ BranchOf(i) \notin ToSet(calls') \cup ToSet(replies)
                               /\ at[BranchOf(i)] \in NodeSite,
         IsInjective(calls'), ToSet(calls') \subseteq ToSet(calls), at' = at
  PROVE  StreamsOK'
<1> DEFINE m == Len(replies)
           n == Len(new)
<1>1. /\ replies \in Seq(Branch) /\ m \in Nat /\ n \in Nat
      /\ replies' \in Seq(Branch) /\ Len(replies') = m + n
      /\ \A k \in 1 .. m : replies'[k] = replies[k]
      /\ \A k \in 1 .. n : replies'[m + k] = BranchOf(new[k])
      /\ ToSet(replies') = ToSet(replies) \cup {BranchOf(i) : i \in ToSet(new)}
  BY Types, Sequence DEF Answered
<1>2. \A k \in 1 .. m : replies[k] \in ToSet(replies)
  BY <1>1, Elements
<1>3. \A k \in 1 .. n : new[k] \in ToSet(new)
  BY Elements
<1>4. \A k, l \in 1 .. m : replies[k] = replies[l] => k = l
  BY <1>1, Elements DEF StreamsOK
<1>5. \A k, l \in 1 .. n : new[k] = new[l] => k = l
  BY Elements
<1> HIDE DEF m, n
<1>6. ASSUME NEW k \in 1 .. m + n PROVE k \in 1 .. m \/ \E l \in 1 .. n : k = m + l
  <2>1. CASE k <= m
    BY <1>1, <2>1
  <2>2. CASE ~ (k <= m)
    <3>1. k - m \in 1 .. n /\ k = m + (k - m)
      BY <1>1, <2>2
    <3> QED BY <3>1
  <2> QED BY <2>1, <2>2
<1>7. ASSUME NEW k \in 1 .. m + n, NEW l \in 1 .. m + n, replies'[k] = replies'[l] PROVE k = l
  <2>1. CASE k \in 1 .. m /\ l \in 1 .. m
    <3>1. replies[k] = replies[l]
      BY <1>1, <1>7, <2>1
    <3> QED BY <1>4, <2>1, <3>1
  <2>2. CASE \E p, q \in 1 .. n : k = m + p /\ l = m + q
    <3>1. PICK p \in 1 .. n, q \in 1 .. n : k = m + p /\ l = m + q
      BY <2>2
    <3>2. BranchOf(new[p]) = BranchOf(new[q])
      BY <1>1, <1>7, <3>1
    <3>3. new[p] = new[q]
      BY <1>3, <3>2
    <3> QED BY <1>5, <3>1, <3>3
  <2>3. ASSUME NEW p \in 1 .. m, NEW q \in 1 .. n PROVE replies'[p] # replies'[m + q]
    <3>1. replies'[p] = replies[p] /\ replies'[m + q] = BranchOf(new[q])
      BY <1>1
    <3>2. replies[p] \in ToSet(replies)
      BY <1>2
    <3>3. new[q] \in ToSet(new)
      BY <1>3
    <3>4. BranchOf(new[q]) \notin ToSet(replies)
      BY <3>3
    <3> QED BY <3>1, <3>2, <3>4
  <2> QED BY <1>6, <1>7, <2>1, <2>2, <2>3
<1>8. IsInjective(replies')
  BY <1>1, <1>7, Elements
<1>9. ToSet(calls') \cap ToSet(replies') = {} /\ \A b \in ToSet(replies') : at'[b] \in NodeSite
  BY <1>1 DEF StreamsOK
<1> QED BY <1>8, <1>9 DEF StreamsOK

LEMMA LogAfterAnswers ==
  ASSUME TypeOK, LogOK, journal' \in Table, Keeps(journal, journal'), order' = order,
         NEW new \in Seq(Instance), \A i \in ToSet(new) : Finished(journal', i), log' = log \o new
  PROVE  LogOK' /\ log' \in Seq(Instance)
<1>1. log \in Seq(Instance) /\ order \in Seq(Instance) /\ journal \in Table
  BY Types
<1>2. \A i \in ToSet(log) \cup ToSet(order) : Finished(journal, i)
  BY DEF LogOK
<1>3. /\ \A i \in ToSet(log \o new) : Finished(journal', i)
      /\ Begins(SettleOrder(journal, log), SettleOrder(journal', log \o new))
  BY <1>1, <1>2, OrderGrows
<1>4. \A i \in ToSet(order) : Finished(journal', i)
  BY <1>1, <1>2, KeptFinished
<1>5. log \o new \in Seq(Instance)
  BY <1>1, Joined
<1>6. SettleOrder(journal, log) \in Seq(Instance) /\ SettleOrder(journal', log \o new) \in Seq(Instance)
  BY <1>1, <1>5, Found
<1>7. Begins(order, SettleOrder(journal', log \o new))
  BY <1>1, <1>3, <1>6, BeginsAgain DEF LogOK
<1> QED BY <1>3, <1>4, <1>5, <1>7 DEF LogOK

LEMMA LogStays ==
  ASSUME TypeOK, LogOK, journal' \in Table, Keeps(journal, journal'), order' = order, log' = log
  PROVE  LogOK'
<1>1. log \in Seq(Instance) /\ order \in Seq(Instance) /\ journal \in Table
  BY Types
<1>2. \A i \in ToSet(log) \cup ToSet(order) : Finished(journal, i)
  BY DEF LogOK
<1>3. (\A i \in ToSet(log) : Finished(journal', i)) /\ SettleOrder(journal', log) = SettleOrder(journal, log)
  BY <1>1, <1>2, OrderKept
<1>4. \A i \in ToSet(order) : Finished(journal', i)
  BY <1>1, <1>2, KeptFinished
<1> QED BY <1>3, <1>4 DEF LogOK

LEMMA One ==
  ASSUME NEW S, NEW x \in S
  PROVE  <<x>> \in Seq(S) /\ Len(<<x>>) = 1 /\ <<x>>[1] = x /\ ToSet(<<x>>) = {x} /\ IsInjective(<<x>>)
<1>1. <<x>> \in Seq(S) /\ Len(<<x>>) = 1 /\ <<x>>[1] = x
  OBVIOUS
<1>2. \A k \in 1 .. Len(<<x>>) : k = 1
  BY <1>1
<1>3. 1 \in 1 .. Len(<<x>>)
  BY <1>1
<1>4. ToSet(<<x>>) = {x} /\ IsInjective(<<x>>)
  <2>1. PICK s \in Seq(S) : s = <<x>>
    BY <1>1
  <2>2. s[1] = x /\ 1 \in 1 .. Len(s) /\ \A k \in 1 .. Len(s) : k = 1
    BY <1>1, <1>2, <1>3, <2>1
  <2>3. \A y : y \in ToSet(s) <=> \E k \in 1 .. Len(s) : y = s[k]
    BY Elements
  <2>4. \A y : y \in ToSet(s) <=> y = x
    BY <2>2, <2>3
  <2>5. IsInjective(s)
    BY <2>2, Elements
  <2> QED BY <2>1, <2>4, <2>5
<1> QED BY <1>1, <1>4

LEMMA GateKept ==
  ASSUME TypeOK, GateOK, journal' \in Table, Keeps(journal, journal'), parked' = parked, queue' = queue
  PROVE  GateOK'
<1>1. \A i \in parked \cup ToSet(queue) : Finished(journal', i)
  BY Types, KeptFinished DEF GateOK
<1> QED BY <1>1 DEF GateOK

LEMMA PassThroughKeepsBase == ASSUME Base, PassThrough PROVE Base'
<1>1. TypeOK /\ outcome = "running" /\ Running /\ TakeCall /\ Replays /\ Claimable(Called)
  BY DEF Base, PassThrough, TakeCall
<1>2. PICK b \in Branch, i \in Instance : Takes(b, i)
  BY <1>1, CallIsTaken DEF Running
<1>3. Finished(journal, i) /\ Journaled(journal, i) /\ BranchOf(i) = b /\ i[1] \in NodeSite
  BY <1>1, <1>2, CachedIsFinished
<1>4. PICK new \in Seq(Instance) : new = <<i>> /\ ToSet(new) = {i} /\ IsInjective(new)
  BY One
<1>5. /\ log' = log \o new /\ replies' = replies \o BranchesOf(new)
      /\ UNCHANGED <<journal, torn, overtaken, lives, outcome, at, order, cursor, parked, queue>>
  <2>1. new = <<Called>>
    BY <1>2, <1>4 DEF Takes
  <2> QED BY <2>1 DEF PassThrough, Settle, gate
<1>6. Keeps(journal, journal') /\ journal' \in Table
  BY <1>1, <1>5, Types, SameRows
<1>7. Answered(new)
  BY <1>1, <1>3, <1>4, <1>5, AnswersGoOut
<1>8. LogOK' /\ log' \in Seq(Instance)
  BY <1>1, <1>3, <1>4, <1>5, <1>6, LogAfterAnswers DEF Running
<1>9. TypeOK'
  BY <1>1, <1>2, <1>5, <1>7, <1>8 DEF TypeOK, Answered, Takes
<1>10. StreamsOK'
  <2>1. BranchOf(i) \notin ToSet(calls') \cup ToSet(replies) /\ at[BranchOf(i)] \in NodeSite
    BY <1>2, <1>3 DEF Takes
  <2>2. IsInjective(calls') /\ ToSet(calls') \subseteq ToSet(calls) /\ at' = at
    BY <1>2, <1>5 DEF Takes
  <2> QED BY <1>1, <1>4, <1>7, <2>1, <2>2, StreamsAfterAnswers DEF Running
<1>11. WaitingOK'
  <2>1. Live' \subseteq Live \cup {i} /\ i \notin Live'
    <3>1. (\A j : Journaled(journal, j) => Row(j)' = Row(j)) /\ Row(i)'.status = "completed"
      BY <1>3, <1>5 DEF Row, Finished
    <3> QED BY <1>1, <1>2, <3>1, LiveAfterCall DEF Running, Live
  <2>2. PICK New : New = {}
    OBVIOUS
  <2>3. Open' \subseteq Open \cup New /\ New \subseteq {i} /\ \A j \in New : Waits(j)' /\ BranchOf(j)' = b
    BY <1>5, <2>1, <2>2 DEF Open
  <2>4. at' = at /\ ToSet(replies') \subseteq ToSet(replies) \cup {b}
    BY <1>3, <1>4, <1>5, <1>7 DEF Answered
  <2> QED BY <1>1, <1>2, <1>6, <1>9, <2>3, <2>4, CalledWaits
<1>12. GateOK'
  BY <1>1, <1>5, <1>6, GateKept DEF Running
<1>13. CountsOK'
  <2>1. Journaled(journal', i)
    BY <1>3, <1>5
  <2> QED BY <1>1, <1>2, <1>6, <2>1, CountsKept DEF Running
<1> QED BY <1>8, <1>9, <1>10, <1>11, <1>12, <1>13 DEF Base, Running

\* The row of the call is that of its branch, and the other rows are as before.
RowsAfterCall(b, i) ==
  /\ journal' \in Table /\ Keeps(journal, journal') /\ Journaled(journal', i)
  /\ BranchOf(i)' = b
  /\ \A j : Journaled(journal, j) => Row(j)' = Row(j)
  /\ \A s \in Site : Len(journal'[s]) = Len(journal[s]) \/ (s = i[1] /\ Len(journal'[s]) = i[2])

LEMMA RowStays ==
  ASSUME TypeOK, NEW b, NEW i, Takes(b, i), Replays, journal' = journal
  PROVE  RowsAfterCall(b, i)
<1>1. Journaled(journal, i) /\ BranchOf(i) = b
  BY DEF Replays, Takes
<1>2. journal \in Table /\ Keeps(journal, journal)
  BY Types, SameRows
<1> QED BY <1>1, <1>2 DEF RowsAfterCall, BranchOf, Row

LEMMA RowIsWritten ==
  ASSUME TypeOK, CountsOK, NEW b, NEW i, Takes(b, i), ~ Recorded, NEW status \in {"running", "completed"},
         journal' = [journal EXCEPT ![i[1]] = Append(@, [input |-> b, status |-> status])]
  PROVE  /\ RowsAfterCall(b, i) /\ Row(i)'.status = status
         /\ i[2] = Len(journal[i[1]]) + 1 /\ Len(journal'[i[1]]) = i[2]
         /\ \A s \in Site : s # i[1] => journal'[s] = journal[s]
<1> DEFINE row == [input |-> b, status |-> status]
           site == i[1]
<1>1. row \in [input : Branch, status : {"running", "completed"}] /\ site \in Site /\ journal \in Table
  BY Types DEF Takes, Instance
<1>2. journal' = Added(journal, site, row)
  BY DEF Added
<1>3. i[2] = Len(journal[site]) + 1
  <2>1. ordinal[site] \in Nat /\ Len(journal[site]) \in Nat /\ ordinal[site] <= Len(journal[site]) /\ i[2] = ordinal[site] + 1
    BY <1>1, Types, Lengths DEF CountsOK, Takes
  <2>2. ~ (i[2] <= Len(journal[site]))
    BY DEF Takes, Journaled
  <2> QED BY <2>1, <2>2
<1>4. row.input = b /\ row.status = status
  OBVIOUS
<1> HIDE DEF row
<1>5. /\ journal' \in Table /\ Keeps(journal, journal')
      /\ Len(journal'[site]) = Len(journal[site]) + 1
      /\ \A q \in Site : q # site => journal'[q] = journal[q]
      /\ journal'[site][Len(journal[site]) + 1] = row
      /\ \A j : Journaled(journal, j) => journal'[j[1]][j[2]] = journal[j[1]][j[2]]
  <2>1. PICK r \in Site, new \in [input : Branch, status : {"running", "completed"}] : r = site /\ new = row
    BY <1>1
  <2>2. journal' = Added(journal, r, new)
    BY <1>2, <2>1
  <2>3. PICK rows \in Table : rows = journal
    BY <1>1
  <2>4. PICK t : t = Added(rows, r, new)
    OBVIOUS
  <2>5. t \in Table /\ Keeps(rows, t)
    BY <2>1, <2>3, <2>4, AddedRow
  <2>6. Len(t[r]) = Len(rows[r]) + 1 /\ t[r][Len(rows[r]) + 1] = new
    BY <2>1, <2>3, <2>4, AddedRow
  <2>7. \A q \in Site : q # r => t[q] = rows[q]
    BY <2>1, <2>3, <2>4, AddedRow
  <2>8. \A j : Journaled(rows, j) => t[j[1]][j[2]] = rows[j[1]][j[2]]
    BY <2>1, <2>3, <2>4, AddedRow
  <2>9. journal' = t
    BY <2>2, <2>3, <2>4
  <2> HIDE DEF site
  <2>10. rows = journal /\ r = site /\ new = row
    BY <2>1, <2>3
  <2>11. journal' \in Table /\ Keeps(journal, journal')
    BY <2>5, <2>9, <2>10
  <2>12. Len(journal'[site]) = Len(journal[site]) + 1 /\ journal'[site][Len(journal[site]) + 1] = row
    BY <2>6, <2>9, <2>10
  <2>13. \A q \in Site : q # site => journal'[q] = journal[q]
    BY <2>7, <2>9, <2>10
  <2>14. ASSUME NEW j, Journaled(journal, j) PROVE journal'[j[1]][j[2]] = journal[j[1]][j[2]]
    <3>1. Journaled(rows, j)
      BY <2>10, <2>14
    <3>2. t[j[1]][j[2]] = rows[j[1]][j[2]]
      BY <2>8, <3>1
    <3> QED BY <2>9, <2>10, <3>2
  <2> QED BY <2>11, <2>12, <2>13, <2>14
<1>6. Journaled(journal', i)
  <2>1. Len(journal'[site]) \in Nat
    BY <1>1, <1>5, Lengths
  <2> QED BY <1>3, <1>5, <2>1 DEF Takes, Journaled
<1> QED BY <1>3, <1>4, <1>5, <1>6 DEF RowsAfterCall, BranchOf, Row

\* A call that is not answered at once leaves everything else as it is.
LEMMA CallKeepsRest ==
  ASSUME TypeOK, Running, NEW b, NEW i, Takes(b, i), RowsAfterCall(b, i),
         UNCHANGED <<log, torn, overtaken, lives, outcome, at, replies, order, cursor, parked, queue>>
  PROVE  TypeOK' /\ StreamsOK' /\ GateOK' /\ LogOK' /\ CountsOK'
<1>1. journal' \in Table /\ Keeps(journal, journal') /\ Journaled(journal', i)
  BY DEF RowsAfterCall
<1>2. TypeOK'
  BY <1>1 DEF TypeOK, Takes, Table
<1>3. StreamsOK'
  BY DEF Running, StreamsOK, Takes
<1>4. GateOK'
  BY <1>1, GateKept DEF Running
<1>5. LogOK'
  BY <1>1, LogStays DEF Running
<1>6. CountsOK'
  BY <1>1, CountsKept DEF Running
<1> QED BY <1>2, <1>3, <1>4, <1>5, <1>6

LEMMA GoLiveRows ==
  ASSUME TypeOK, CountsOK, NEW b, NEW i, Takes(b, i), GoLive
  PROVE  RowsAfterCall(b, i) /\ Row(i)'.status = "running"
<1>1. i = Called /\ b = Caller
  BY DEF Takes
<1>2. CASE Replays /\ Row(Called).status = "running" /\ UNCHANGED journal
  BY <1>1, <1>2, RowStays DEF Row
<1>3. CASE ~ Recorded /\ journal' = [journal EXCEPT ![Called[1]] =
                       Append(@, [input |-> Caller, status |-> "running"])]
  <2>1. journal' = [journal EXCEPT ![i[1]] = Append(@, [input |-> b, status |-> "running"])]
    BY <1>1, <1>3
  <2> QED BY <1>3, <2>1, RowIsWritten
<1> QED BY <1>2, <1>3 DEF GoLive

LEMMA GoLiveKeepsBase == ASSUME Base, GoLive PROVE Base'
<1>1. TypeOK /\ outcome = "running" /\ Running /\ TakeCall
  BY DEF Base, GoLive, TakeCall
<1>2. PICK b \in Branch, i \in Instance : Takes(b, i)
  BY <1>1, CallIsTaken DEF Running
<1>3. RowsAfterCall(b, i)
  BY <1>1, <1>2, GoLiveRows DEF Running
<1>4. UNCHANGED <<log, torn, overtaken, lives, outcome, at, replies, order, cursor, parked, queue>>
  BY DEF GoLive, gate
<1>5. TypeOK' /\ StreamsOK' /\ GateOK' /\ LogOK' /\ CountsOK'
  BY <1>1, <1>2, <1>3, <1>4, CallKeepsRest
<1>6. WaitingOK'
  <2>1. Open' \subseteq Open \cup {i}
    <3>1. Live' \subseteq Live \cup {i}
      BY <1>1, <1>2, <1>3, LiveAfterCall DEF Running, RowsAfterCall
    <3> QED BY <1>4, <3>1 DEF Open
  <2>2. Waits(i)'
    <3>1. i[1] \in NodeSite
      BY <1>2, Sites DEF GoLive, Takes, Instance
    <3>2. i[1] = at[b] /\ ordinal'[i[1]] = i[2] /\ b \notin ToSet(calls') \cup ToSet(replies) /\ i[2] \in Nat
      BY <1>2 DEF Takes, Instance
    <3> QED BY <1>3, <1>4, <3>1, <3>2 DEF Waits, RowsAfterCall
  <2>3. PICK New : New = {i}
    OBVIOUS
  <2>4. New \subseteq {i} /\ (\A j \in New : Waits(j)' /\ BranchOf(j)' = b) /\ Open' \subseteq Open \cup New
    BY <1>3, <2>1, <2>2, <2>3 DEF RowsAfterCall
  <2>5. at' = at /\ ToSet(replies') \subseteq ToSet(replies) \cup {b} /\ Keeps(journal, journal')
    BY <1>3, <1>4 DEF RowsAfterCall
  <2> QED BY <1>1, <1>2, <1>5, <2>4, <2>5, CalledWaits
<1> QED BY <1>5, <1>6 DEF Base, Running

LEMMA ReportRows ==
  ASSUME TypeOK, CountsOK, NEW b, NEW i, Takes(b, i), Report
  PROVE  RowsAfterCall(b, i) /\ i[1] = ReportSite
<1>1. i = Called /\ b = Caller /\ i[1] = ReportSite
  BY DEF Takes, Report
<1>2. CASE Replays /\ UNCHANGED journal
  BY <1>1, <1>2, RowStays
<1>3. CASE ~ Recorded /\ journal' = [journal EXCEPT ![ReportSite] =
                       Append(@, [input |-> Caller, status |-> "completed"])]
  <2>1. journal' = [journal EXCEPT ![i[1]] = Append(@, [input |-> b, status |-> "completed"])]
    BY <1>1, <1>3
  <2> QED BY <1>1, <1>3, <2>1, RowIsWritten
<1> QED BY <1>2, <1>3 DEF Report

LEMMA ReportKeepsBase == ASSUME Base, Report PROVE Base'
<1>1. TypeOK /\ outcome = "running" /\ Running /\ TakeCall
  BY DEF Base, Report, TakeCall
<1>2. PICK b \in Branch, i \in Instance : Takes(b, i)
  BY <1>1, CallIsTaken DEF Running
<1>3. RowsAfterCall(b, i) /\ i[1] = ReportSite
  BY <1>1, <1>2, ReportRows DEF Running
<1>4. UNCHANGED <<log, torn, overtaken, lives, outcome, at, replies, order, cursor, parked, queue>>
  BY DEF Report, gate
<1>5. TypeOK' /\ StreamsOK' /\ GateOK' /\ LogOK' /\ CountsOK'
  BY <1>1, <1>2, <1>3, <1>4, CallKeepsRest
<1>6. WaitingOK'
  <2>1. Live' \subseteq Live \cup {i}
    BY <1>1, <1>2, <1>3, LiveAfterCall DEF Running, RowsAfterCall
  <2>2. i \notin Live'
    BY <1>3, Sites DEF Live
  <2>3. PICK New : New = {}
    OBVIOUS
  <2>4. New \subseteq {i} /\ (\A j \in New : Waits(j)' /\ BranchOf(j)' = b) /\ Open' \subseteq Open \cup New
    BY <1>4, <2>1, <2>2, <2>3 DEF Open
  <2>5. at' = at /\ ToSet(replies') \subseteq ToSet(replies) \cup {b} /\ Keeps(journal, journal')
    BY <1>3, <1>4 DEF RowsAfterCall
  <2> QED BY <1>1, <1>2, <1>5, <2>4, <2>5, CalledWaits
<1> QED BY <1>5, <1>6 DEF Base, Running

LEMMA MismatchKeepsBase == ASSUME Base, Mismatch PROVE Base'
<1>1. TypeOK /\ Running /\ TakeCall
  BY DEF Base, Mismatch, TakeCall
<1>2. PICK b \in Branch, i \in Instance : Takes(b, i)
  BY <1>1, CallIsTaken DEF Running
<1>3. TypeOK' /\ outcome' # "running"
  BY <1>1, <1>2 DEF TypeOK, Mismatch, Takes, durable, gate
<1> QED BY <1>3 DEF Base

LEMMA FlushKeepsBase == ASSUME Base, Flush PROVE Base'
<1>1. TypeOK /\ outcome = "running" /\ Running
  BY DEF Base, Flush
<1>2. /\ log' = log \o queue /\ replies' = replies \o BranchesOf(queue) /\ queue' = <<>>
      /\ UNCHANGED <<journal, torn, overtaken, lives, outcome, ordinal, at, calls, order, cursor, parked>>
  BY DEF Flush, Settle
<1>3. queue \in Seq(Instance) /\ IsInjective(queue) /\ \A i \in ToSet(queue) : Finished(journal, i)
  BY <1>1, Types DEF Running, GateOK
<1>4. Keeps(journal, journal') /\ journal' \in Table
  BY <1>1, <1>2, Types, SameRows
<1>5. Answered(queue)
  BY <1>1, <1>2, <1>3, AnswersGoOut DEF Finished
<1>6. LogOK' /\ log' \in Seq(Instance)
  BY <1>1, <1>2, <1>3, <1>4, LogAfterAnswers DEF Running
<1>7. <<>> \in Seq(Instance) /\ IsInjective(<<>>) /\ ToSet(<<>>) = {}
  BY DEF IsInjective, ToSet
<1>8. TypeOK'
  BY <1>1, <1>2, <1>5, <1>6, <1>7 DEF TypeOK, Answered
<1>9. StreamsOK'
  <2>1. \A i, j \in ToSet(queue) : BranchOf(i) = BranchOf(j) => i = j
    BY <1>1 DEF Running, WaitingOK, Open
  <2>2. \A i \in ToSet(queue) : /\ BranchOf(i) \notin ToSet(calls') \cup ToSet(replies)
                                /\ at[BranchOf(i)] \in NodeSite
    BY <1>1, <1>2 DEF Running, WaitingOK, Open, Waits
  <2>3. IsInjective(calls') /\ ToSet(calls') \subseteq ToSet(calls) /\ at' = at
    BY <1>1, <1>2 DEF Running, StreamsOK
  <2> QED BY <1>1, <1>3, <1>5, <2>1, <2>2, <2>3, StreamsAfterAnswers DEF Running
<1>10. WaitingOK'
  <2>1. Live' = Live
    BY <1>2 DEF Live, Row
  <2>2. Open' = parked \cup Live
    BY <1>2, <1>7, <2>1 DEF Open
  <2>3. (parked \cup Live) \cap ToSet(queue) = {}
    BY <1>1, <1>3, LiveRows DEF Running, GateOK
  <2>4. PICK New : New = {}
    OBVIOUS
  <2>5. Open' \subseteq Open \cup New
    BY <2>2 DEF Open
  <2>6. ASSUME NEW i \in Open, i \in Open'
        PROVE  /\ at'[BranchOf(i)] = at[BranchOf(i)]
               /\ BranchOf(i) \notin ToSet(calls') \cup ToSet(replies')
    <3>1. i \notin ToSet(queue)
      BY <2>2, <2>3, <2>6
    <3>2. \A j \in ToSet(queue) : j \in Open /\ j # i
      BY <3>1 DEF Open
    <3>3. \A j \in ToSet(queue) : BranchOf(j) # BranchOf(i)
      BY <1>1, <3>2 DEF Running, WaitingOK
    <3>4. BranchOf(i) \notin ToSet(calls) \cup ToSet(replies)
      BY <1>1 DEF Running, WaitingOK, Waits
    <3> QED BY <1>2, <1>5, <3>3, <3>4 DEF Answered
  <2>7. WaitingOK /\ (\A i \in New : Waits(i)') /\ (\A i, j \in New : i = j)
        /\ (\A i \in New, j \in Open : BranchOf(i)' # BranchOf(j))
    BY <1>1, <2>4 DEF Running
  <2>8. \A s \in Site : ordinal[s] <= ordinal'[s]
    <3>1. \A s \in Site : ordinal[s] \in Nat
      BY <1>1, Types
    <3> QED BY <1>2, <3>1
  <2> QED BY <1>1, <1>4, <1>8, <2>5, <2>6, <2>7, <2>8, WaitingKept
<1>11. GateOK'
  BY <1>1, <1>2, <1>7 DEF Running, GateOK
<1>12. CountsOK'
  BY <1>1, <1>2 DEF Running, CountsOK
<1> QED BY <1>6, <1>8, <1>9, <1>10, <1>11, <1>12 DEF Base, Running

\* The row of a node that answers.
LEMMA AnswerIsWritten ==
  ASSUME TypeOK, CountsOK, NEW i \in Live, journal' = Settled(i)
  PROVE  /\ journal' \in Table /\ Keeps(journal, journal') /\ Finished(journal', i)
         /\ \A s \in Site : Len(journal'[s]) = Len(journal[s])
         /\ \A j : Journaled(journal, j) /\ j # i => Row(j)' = Row(j)
         /\ \A j : Journaled(journal, j) => BranchOf(j)' = BranchOf(j)
<1>1. Journaled(journal, i) /\ i[1] \in NodeSite /\ journal \in Table
  BY LiveRows, Types
<1>2. journal' = Completed(journal, i)
  BY DEF Settled, Completed
<1>3. /\ journal' \in Table /\ Keeps(journal, journal')
      /\ \A s \in Site : Len(journal'[s]) = Len(journal[s])
      /\ journal'[i[1]][i[2]].status = "completed"
      /\ \A j : Journaled(journal, j) /\ j # i => journal'[j[1]][j[2]] = journal[j[1]][j[2]]
  BY <1>1, <1>2, CompletedRow
<1>4. \A j : Journaled(journal, j) => Journaled(journal', j) /\ BranchOf(j)' = BranchOf(j)
  BY <1>1, <1>3, KeptRows DEF BranchOf, Row
<1> QED BY <1>1, <1>3, <1>4 DEF Finished, Row

LEMMA LiveSettlesKeepsBase == ASSUME Base, NEW i \in Live, LiveSettles(i) PROVE Base'
<1>1. TypeOK /\ outcome = "running" /\ Running
  BY DEF Base, LiveSettles
<1>2. /\ i \in Instance /\ Journaled(journal, i) /\ i[1] \in NodeSite /\ ~ Finished(journal, i)
      /\ i \in Open
  BY <1>1, LiveRows DEF Running, Open
<1>3. PICK new \in Seq(Instance) : new = <<i>> /\ ToSet(new) = {i} /\ IsInjective(new)
  BY <1>2, One
<1>4. /\ journal' = Settled(i) /\ log' = log \o new /\ replies' = replies \o BranchesOf(new)
      /\ UNCHANGED <<torn, lives, outcome, ordinal, at, calls, order, cursor, parked, queue>>
      /\ overtaken' = (overtaken \/ ~CaughtUp)
  BY <1>3 DEF LiveSettles, Settle, gate
<1>5. /\ journal' \in Table /\ Keeps(journal, journal') /\ Finished(journal', i)
      /\ \A s \in Site : Len(journal'[s]) = Len(journal[s])
      /\ \A j : Journaled(journal, j) /\ j # i => Row(j)' = Row(j)
      /\ \A j : Journaled(journal, j) => BranchOf(j)' = BranchOf(j)
  BY <1>1, <1>4, AnswerIsWritten DEF Running
<1>6. Answered(new)
  BY <1>1, <1>2, <1>3, <1>4, AnswersGoOut
<1>7. LogOK' /\ log' \in Seq(Instance)
  BY <1>1, <1>3, <1>4, <1>5, LogAfterAnswers DEF Running
<1>8. TypeOK'
  BY <1>1, <1>4, <1>5, <1>6, <1>7 DEF TypeOK, Answered, Table
<1>9. Waits(i) /\ \A j \in Open : j # i => BranchOf(j) # BranchOf(i)
  BY <1>1, <1>2 DEF Running, WaitingOK
<1>10. StreamsOK'
  <2>1. \A j, k \in ToSet(new) : BranchOf(j) = BranchOf(k) => j = k
    BY <1>3
  <2>2. \A j \in ToSet(new) : /\ BranchOf(j) \notin ToSet(calls') \cup ToSet(replies)
                              /\ at[BranchOf(j)] \in NodeSite
    BY <1>3, <1>4, <1>9 DEF Waits
  <2>3. IsInjective(calls') /\ ToSet(calls') \subseteq ToSet(calls) /\ at' = at
    BY <1>1, <1>4 DEF Running, StreamsOK
  <2> QED BY <1>1, <1>3, <1>6, <2>1, <2>2, <2>3, StreamsAfterAnswers DEF Running
<1>11. Live' \subseteq Live \ {i}
  <2>1. ASSUME NEW j \in Live' PROVE j \in Live \ {i}
    <3>1. j \in NodeSite \X Branch /\ j[2] <= ordinal[j[1]] /\ Row(j)'.status = "running"
      BY <1>4 DEF Live
    <3>2. j # i
      BY <1>5, <3>1 DEF Finished, Row
    <3>3. j[1] \in NodeSite /\ j[2] \in Branch /\ j = <<j[1], j[2]>>
      BY <3>1
    <3>4. j[1] \in Site /\ j[2] \in Nat \ {0} /\ j \in Instance
      BY <3>3, Sites, BranchNumbers DEF Instance
    <3>5. ordinal[j[1]] \in Nat /\ ordinal[j[1]] <= Len(journal[j[1]]) /\ Len(journal[j[1]]) \in Nat
      BY <1>1, <3>4, Types, Lengths DEF Running, CountsOK
    <3>6. Journaled(journal, j)
      BY <3>1, <3>4, <3>5 DEF Journaled
    <3> QED BY <1>5, <3>1, <3>2, <3>6 DEF Live
  <2> QED BY <2>1
<1>12. GateOK'
  BY <1>1, <1>4, <1>5, GateKept DEF Running
<1>13. WaitingOK'
  <2>1. i \notin parked \cup ToSet(queue)
    BY <1>1, <1>2 DEF Running, GateOK
  <2>2. Open' \subseteq Open \ {i}
    BY <1>4, <1>11, <2>1 DEF Open
  <2>3. PICK New : New = {}
    OBVIOUS
  <2>4. Open' \subseteq Open \cup New
    BY <2>2
  <2>5. ASSUME NEW j \in Open, j \in Open'
        PROVE  /\ at'[BranchOf(j)] = at[BranchOf(j)]
               /\ BranchOf(j) \notin ToSet(calls') \cup ToSet(replies')
    <3>1. BranchOf(j) # BranchOf(i)
      BY <1>9, <2>2, <2>5
    <3>2. BranchOf(j) \notin ToSet(calls) \cup ToSet(replies)
      BY <1>1 DEF Running, WaitingOK, Waits
    <3> QED BY <1>3, <1>4, <1>6, <3>1, <3>2 DEF Answered
  <2>6. WaitingOK /\ (\A j \in New : Waits(j)') /\ (\A j, k \in New : j = k)
        /\ (\A j \in New, k \in Open : BranchOf(j)' # BranchOf(k))
    BY <1>1, <2>3 DEF Running
  <2>7. \A s \in Site : ordinal[s] <= ordinal'[s]
    <3>1. \A s \in Site : ordinal[s] \in Nat
      BY <1>1, Types
    <3> QED BY <1>4, <3>1
  <2> QED BY <1>1, <1>5, <1>8, <2>4, <2>5, <2>6, <2>7, WaitingKept
<1>14. CountsOK'
  BY <1>1, <1>4, <1>5 DEF Running, CountsOK
<1> QED BY <1>7, <1>8, <1>10, <1>12, <1>13, <1>14 DEF Base, Running

\* The answer that is read and the call that follows it.
Continues(b) ==
  /\ b = replies[1] /\ b \in Branch /\ b \in ToSet(replies) /\ b \notin ToSet(calls) /\ Len(replies) >= 1
  /\ replies' \in Seq(Branch) /\ Len(replies') = Len(replies) - 1
  /\ \A k \in 1 .. Len(replies) - 1 : replies'[k] = replies[k + 1]
  /\ IsInjective(replies') /\ ToSet(replies') = ToSet(replies) \ {b}
  /\ calls' \in Seq(Branch) /\ Len(calls') = Len(calls) + 1
  /\ \A k \in 1 .. Len(calls) : calls'[k] = calls[k]
  /\ calls'[Len(calls) + 1] = b
  /\ IsInjective(calls') /\ ToSet(calls') = ToSet(calls) \cup {b}
  /\ at[b] \in NodeSite /\ at' \in [Branch -> Site] /\ at'[b] = at[b] + 1
  /\ \A a \in Branch : a # b => at'[a] = at[a]

LEMMA BranchContinues == ASSUME TypeOK, StreamsOK, Continue PROVE \E b : Continues(b)
<1> DEFINE b == Head(replies)
<1>1. replies \in Seq(Branch) /\ calls \in Seq(Branch) /\ replies # <<>> /\ at \in [Branch -> Site]
  BY Types DEF Continue
<1>2. Len(replies) >= 1 /\ b = replies[1] /\ b \in ToSet(replies) /\ b \in Branch
  BY <1>1, NonEmpty
<1>3. b \notin ToSet(calls) /\ at[b] \in NodeSite /\ IsInjective(replies) /\ IsInjective(calls)
  BY <1>2 DEF StreamsOK
<1>4. at[b] + 1 \in Site
  BY <1>3, Sites
<1>5. replies' = Tail(replies) /\ at' = [at EXCEPT ![b] = @ + 1] /\ calls' = Append(calls, b)
  BY DEF Continue
<1> HIDE DEF b
<1>6. at' \in [Branch -> Site] /\ at'[b] = at[b] + 1 /\ \A a \in Branch : a # b => at'[a] = at[a]
  BY <1>1, <1>2, <1>4, <1>5
<1>7. /\ replies' \in Seq(Branch) /\ Len(replies') = Len(replies) - 1
      /\ \A k \in 1 .. Len(replies) - 1 : replies'[k] = replies[k + 1]
      /\ IsInjective(replies') /\ ToSet(replies') = ToSet(replies) \ {b}
  BY <1>1, <1>3, <1>5, HeadLeaves DEF b
<1>8. /\ calls' \in Seq(Branch) /\ Len(calls') = Len(calls) + 1
      /\ \A k \in 1 .. Len(calls) : calls'[k] = calls[k]
      /\ calls'[Len(calls) + 1] = b
      /\ IsInjective(calls') /\ ToSet(calls') = ToSet(calls) \cup {b}
  BY <1>1, <1>2, <1>3, <1>5, OneMore
<1>9. Continues(b)
  BY <1>2, <1>3, <1>6, <1>7, <1>8 DEF Continues
<1> QED BY <1>9

LEMMA ContinueKeepsBase == ASSUME Base, Continue PROVE Base'
<1>1. TypeOK /\ outcome = "running" /\ Running
  BY DEF Base, Continue
<1>2. PICK b : Continues(b)
  BY <1>1, BranchContinues DEF Running
<1>3. UNCHANGED <<journal, log, torn, overtaken, lives, outcome, ordinal, order, cursor, parked, queue>>
  BY DEF Continue, durable, gate
<1>4. Keeps(journal, journal') /\ journal' \in Table
  BY <1>1, <1>3, Types, SameRows
<1>5. TypeOK'
  BY <1>1, <1>2, <1>3 DEF TypeOK, Continues
<1>6. StreamsOK'
  <2>1. \A a \in ToSet(replies') : at'[a] \in NodeSite
    <3>1. ToSet(replies) \subseteq Branch
      BY <1>1, Types, Elements
    <3> QED BY <1>1, <1>2, <3>1 DEF Running, StreamsOK, Continues
  <2> QED BY <1>1, <1>2, <2>1 DEF Running, StreamsOK, Continues
<1>7. WaitingOK'
  <2>1. Open' = Open
    BY <1>3 DEF Open, Live, Row
  <2>2. PICK New : New = {}
    OBVIOUS
  <2>3. Open' \subseteq Open \cup New
    BY <2>1
  <2>4. ASSUME NEW i \in Open
        PROVE  /\ at'[BranchOf(i)] = at[BranchOf(i)]
               /\ BranchOf(i) \notin ToSet(calls') \cup ToSet(replies')
    <3>1. BranchOf(i) \notin ToSet(calls) \cup ToSet(replies) /\ Journaled(journal, i)
      BY <1>1 DEF Running, WaitingOK, Waits
    <3>2. BranchOf(i) \in Branch
      BY <1>1, <3>1, Types, RowOf DEF BranchOf, Row
    <3> QED BY <1>2, <3>1, <3>2 DEF Continues
  <2>5. WaitingOK /\ (\A i \in New : Waits(i)') /\ (\A i, j \in New : i = j)
        /\ (\A i \in New, j \in Open : BranchOf(i)' # BranchOf(j))
    BY <1>1, <2>2 DEF Running
  <2>6. \A s \in Site : ordinal[s] <= ordinal'[s]
    <3>1. \A s \in Site : ordinal[s] \in Nat
      BY <1>1, Types
    <3> QED BY <1>3, <3>1
  <2> QED BY <1>1, <1>4, <1>5, <2>3, <2>4, <2>5, <2>6, WaitingKept
<1>8. GateOK' /\ LogOK' /\ CountsOK'
  BY <1>1, <1>3 DEF Running, GateOK, LogOK, CountsOK
<1> QED BY <1>5, <1>6, <1>7, <1>8 DEF Base, Running

LEMMA CompleteKeepsBase == ASSUME Base, Complete PROVE Base'
BY DEF Base, Complete, TypeOK, durable, script, gate

\* The script starts.
LEMMA ScriptStarts ==
  /\ Fresh \in Seq(Branch) /\ Len(Fresh) = Branches /\ IsInjective(Fresh)
  /\ \A k \in 1 .. Branches : Fresh[k] = k
  /\ <<>> \in Seq(Branch) /\ <<>> \in Seq(Instance) /\ IsInjective(<<>>) /\ ToSet(<<>>) = {}
<1>1. Branches \in Nat /\ Branch = 1 .. Branches
  BY ReplayOrderAssumption DEF Branch
<1>2. Fresh \in [1 .. Branches -> Branch] /\ \A k \in 1 .. Branches : Fresh[k] = k
  BY <1>1 DEF Fresh
<1>3. Fresh \in Seq(Branch) /\ Len(Fresh) = Branches
  BY <1>1, <1>2, TableIsSequence
<1>4. IsInjective(Fresh)
  BY <1>2, <1>3, Elements
<1>5. <<>> \in Seq(Branch) /\ <<>> \in Seq(Instance) /\ IsInjective(<<>>) /\ ToSet(<<>>) = {}
  BY DEF IsInjective, ToSet
<1> QED BY <1>2, <1>3, <1>4, <1>5

\* Nothing has been called in this life.
LEMMA NothingCalled == ASSUME ordinal = [s \in Site |-> 0] PROVE Live = {}
<1> SUFFICES ASSUME NEW i \in Live PROVE FALSE
  OBVIOUS
<1>1. i[1] \in NodeSite /\ i[2] \in Branch /\ i[2] <= ordinal[i[1]]
  BY DEF Live
<1>2. ordinal[i[1]] = 0 /\ i[2] \in Nat \ {0}
  BY <1>1, Sites, BranchNumbers
<1> QED BY <1>1, <1>2

LEMMA InitGivesBase == ASSUME Init PROVE Base
<1>1. journal = [s \in Site |-> <<>>] /\ journal \in Table
  BY DEF Init, Table
<1>2. TypeOK
  <2>1. at \in [Branch -> Site] /\ ordinal \in [Site -> Nat]
    BY Sites DEF Init
  <2>2. cursor \in 0 .. Len(order) /\ lives \in Nat \ {0}
    BY DEF Init
  <2>3. {log, order, queue} \subseteq Seq(Instance) /\ calls \in Seq(Branch) /\ replies \in Seq(Branch)
    BY ScriptStarts DEF Init
  <2>4. torn \in BOOLEAN /\ overtaken \in BOOLEAN /\ outcome \in {"running", "completed", "errored"} /\ parked \subseteq Instance
    BY DEF Init
  <2> QED BY <1>1, <2>1, <2>2, <2>3, <2>4 DEF TypeOK, Table
<1>3. Live = {}
  BY NothingCalled DEF Init
<1>4. StreamsOK /\ WaitingOK /\ GateOK
  BY <1>3, ScriptStarts DEF Init, StreamsOK, WaitingOK, GateOK, Open
<1>5. LogOK
  <2>1. SettleOrder(journal, log) = <<>>
    BY NothingFound DEF Init
  <2>2. Begins(<<>>, <<>>)
    BY ScriptStarts, BeginsItself
  <2> QED BY <2>1, <2>2, ScriptStarts DEF Init, LogOK
<1>6. CountsOK
  <2>1. \A s \in Site : ordinal[s] = 0 /\ Len(journal[s]) = 0
    BY <1>1 DEF Init
  <2> QED BY <2>1 DEF CountsOK
<1> QED BY <1>2, <1>4, <1>5, <1>6 DEF Base, Running

-----------------------------------------------------------------------------
(* A life ends and the next one begins *)

\* The rows are kept, and the order is read from them and the log.
Resumed ==
  /\ journal' \in Table /\ Keeps(journal, journal') /\ log' = log
  /\ order' = SettleOrder(journal', log')

LEMMA LeftBehind ==
  ASSUME TypeOK, Running, "stop" \notin Endings, NEW ending \in Endings, Resume(ending)
  PROVE  Resumed /\ (ending = "crash" => journal' = journal)
<1>1. ending \in {"crash", "torn"}
  BY ReplayOrderAssumption
<1>2. PICK left \in Left(ending) :
        journal' = left.rows /\ log' = left.events /\ order' = SettleOrder(left.rows, left.events)
  BY DEF Resume
<1>3. journal \in Table /\ Keeps(journal, journal)
  BY Types, SameRows
<1>4. CASE ending = "crash"
  <2>1. left.rows = journal /\ left.events = log
    BY <1>2, <1>4 DEF Left
  <2> QED BY <1>2, <1>3, <2>1 DEF Resumed
<1>5. CASE ending = "torn"
  <2>1. left \in {[rows |-> Settled(i), events |-> log] : i \in {j \in Live : MayAnswer}}
    BY <1>2, <1>5 DEF Left
  <2>2. PICK i \in Live : left.rows = Settled(i) /\ left.events = log
    BY <2>1
  <2>3. journal' = Settled(i) /\ log' = log
    BY <1>2, <2>2
  <2>4. journal' \in Table /\ Keeps(journal, journal')
    BY <2>3, AnswerIsWritten DEF Running
  <2> QED BY <1>2, <1>5, <2>2, <2>3, <2>4 DEF Resumed
<1> QED BY <1>1, <1>4, <1>5

LEMMA ResumeKeepsBase ==
  ASSUME Base, "stop" \notin Endings, NEW ending \in Endings, Resume(ending)
  PROVE  Base' /\ IsPrefix(order, order')
<1>1. TypeOK /\ outcome = "running" /\ Running
  BY DEF Base, Resume
<1>2. Resumed
  BY <1>1, LeftBehind
<1>3. /\ ordinal' = [s \in Site |-> 0] /\ at' = [b \in Branch |-> 1] /\ calls' = Fresh /\ replies' = <<>>
      /\ cursor' = 0 /\ parked' = {} /\ queue' = <<>> /\ outcome' = "running" /\ lives' = lives + 1
      /\ torn' \in BOOLEAN /\ overtaken' \in BOOLEAN
  BY <1>1 DEF Resume, TypeOK
<1>4. /\ log \in Seq(Instance) /\ order \in Seq(Instance) /\ journal \in Table
      /\ journal' \in Table /\ Keeps(journal, journal') /\ log' = log
      /\ \A i \in ToSet(log) : Finished(journal, i)
  BY <1>1, <1>2, Types DEF Running, LogOK, Resumed
<1>5. /\ \A i \in ToSet(log') : Finished(journal', i)
      /\ order' = SettleOrder(journal, log)
  BY <1>2, <1>4, OrderKept DEF Resumed
<1>6. order' \in Seq(Instance) /\ IsInjective(order') /\ ToSet(order') = ToSet(log')
  BY <1>4, <1>5, OrderOfLog
<1>7. LogOK'
  <2>1. Begins(order', order')
    BY <1>6, BeginsItself
  <2> QED BY <1>2, <1>5, <1>6, <2>1 DEF LogOK, Resumed
<1>8. TypeOK'
  <2>1. at' \in [Branch -> Site] /\ ordinal' \in [Site -> Nat]
    BY <1>3, Sites
  <2>2. Len(order') \in Nat
    BY <1>6, Sequence
  <2>3. cursor' \in 0 .. Len(order') /\ lives' \in Nat \ {0}
    BY <1>1, <1>3, <2>2 DEF TypeOK
  <2> QED BY <1>3, <1>4, <1>6, <2>1, <2>3, ScriptStarts DEF TypeOK, Table
<1>9. Live' = {}
  <2> SUFFICES ASSUME NEW i \in Live' PROVE FALSE
    OBVIOUS
  <2>1. i[1] \in NodeSite /\ i[2] \in Branch /\ i[2] <= ordinal'[i[1]]
    BY DEF Live
  <2>2. ordinal'[i[1]] = 0 /\ i[2] \in Nat \ {0}
    BY <1>3, <2>1, Sites, BranchNumbers
  <2> QED BY <2>1, <2>2
<1>10. StreamsOK' /\ WaitingOK' /\ GateOK'
  BY <1>3, <1>9, ScriptStarts DEF StreamsOK, WaitingOK, GateOK, Open
<1>11. CountsOK'
  <2>1. \A s \in Site : ordinal'[s] = 0 /\ Len(journal'[s]) \in Nat
    BY <1>3, <1>4, Lengths
  <2> QED BY <2>1 DEF CountsOK
<1>12. IsPrefix(order, order')
  <2>1. Begins(order, order')
    BY <1>1, <1>5 DEF Running, LogOK
  <2> QED BY <1>4, <1>6, <2>1, BeginsIsPrefix
<1> QED BY <1>7, <1>8, <1>10, <1>11, <1>12 DEF Base, Running

LEMMA NextKeepsBase ==
  ASSUME Base, "stop" \notin Endings, [Next]_vars
  PROVE  Base' /\ [IsPrefix(order, order')]_order
<1>1. CASE \E ending \in Endings : Resume(ending)
  BY <1>1, ResumeKeepsBase
<1>2. CASE Flush
  BY <1>2, FlushKeepsBase DEF Flush
<1>3. CASE Mismatch
  BY <1>3, MismatchKeepsBase DEF Mismatch, gate
<1>4. CASE Hold
  BY <1>4, HoldKeepsBase DEF Hold
<1>5. CASE PassThrough
  BY <1>5, PassThroughKeepsBase DEF PassThrough, gate
<1>6. CASE GoLive
  BY <1>6, GoLiveKeepsBase DEF GoLive, gate
<1>7. CASE Report
  BY <1>7, ReportKeepsBase DEF Report, gate
<1>8. CASE Answers
  BY <1>8, LiveSettlesKeepsBase DEF Answers, LiveSettles, gate
<1>9. CASE Continue
  BY <1>9, ContinueKeepsBase DEF Continue, gate
<1>10. CASE Complete
  BY <1>10, CompleteKeepsBase DEF Complete, gate
<1>11. CASE UNCHANGED vars
  <2>1. UNCHANGED <<journal, log, torn, overtaken, lives, outcome, ordinal, at, calls, replies, order, cursor, parked, queue>>
    BY <1>11 DEF vars, durable, script, gate
  <2>2. Live' = Live
    BY <2>1 DEF Live, Row
  <2>3. Open' = Open
    BY <2>1, <2>2 DEF Open
  <2>4. TypeOK => TypeOK'
    BY <2>1 DEF TypeOK
  <2>5. Running => Running'
    BY <2>1, <2>3 DEF Running, StreamsOK, WaitingOK, Waits, GateOK, LogOK, CountsOK, BranchOf, Row
  <2> QED BY <2>1, <2>4, <2>5 DEF Base
<1> QED BY <1>1, <1>2, <1>3, <1>4, <1>5, <1>6, <1>7, <1>8, <1>9, <1>10, <1>11 DEF Next, Engine

-----------------------------------------------------------------------------
(* The calls of the script *)

\* If the answers come in the order L, the k-th call of the script is the
\* first one of branch k, or the one that follows the answer L[k - Branches].
CallSite(L, k) == IF k <= Branches THEN 1 ELSE L[k - Branches][1] + 1
CallBranch(rows, L, k) ==
  IF k <= Branches THEN k ELSE rows[L[k - Branches][1]][L[k - Branches][2]].input

\* How many of the first k calls are of a site.
CallsOf(L, s, k) == {j \in 1 .. k : CallSite(L, j) = s}
Count(L, s, k) == Cardinality(CallsOf(L, s, k))

Total(L) == Branches + Len(L)

LEMMA CountIsNat ==
  ASSUME NEW L, NEW s, NEW k \in Nat
  PROVE  IsFiniteSet(CallsOf(L, s, k)) /\ Count(L, s, k) \in Nat
<1>1. IsFiniteSet(1 .. k)
  BY FS_Interval
<1>2. CallsOf(L, s, k) \subseteq 1 .. k
  BY DEF CallsOf
<1>3. IsFiniteSet(CallsOf(L, s, k))
  BY <1>1, <1>2, FS_Subset
<1> QED BY <1>3, FS_CardinalityType DEF Count

LEMMA CountOfNone == ASSUME NEW L, NEW s PROVE Count(L, s, 0) = 0
<1>1. CallsOf(L, s, 0) = {}
  BY DEF CallsOf
<1> QED BY <1>1, FS_EmptySet DEF Count

LEMMA CountNext ==
  ASSUME NEW L, NEW s, NEW k \in Nat
  PROVE  Count(L, s, k + 1) = IF CallSite(L, k + 1) = s THEN Count(L, s, k) + 1 ELSE Count(L, s, k)
<1>1. 1 .. k + 1 = (1 .. k) \cup {k + 1} /\ k + 1 \notin 1 .. k
  OBVIOUS
<1>2. IsFiniteSet(CallsOf(L, s, k)) /\ k + 1 \notin CallsOf(L, s, k)
  BY <1>1, CountIsNat DEF CallsOf
<1>3. CASE CallSite(L, k + 1) = s
  <2>1. CallsOf(L, s, k + 1) = CallsOf(L, s, k) \cup {k + 1}
    BY <1>1, <1>3 DEF CallsOf
  <2>2. Cardinality(CallsOf(L, s, k) \cup {k + 1}) = Cardinality(CallsOf(L, s, k)) + 1
    BY <1>2, FS_AddElement
  <2> QED BY <1>3, <2>1, <2>2 DEF Count
<1>4. CASE CallSite(L, k + 1) # s
  <2>1. CallsOf(L, s, k + 1) = CallsOf(L, s, k)
    BY <1>1, <1>4 DEF CallsOf
  <2> QED BY <1>4, <2>1 DEF Count
<1> QED BY <1>3, <1>4

LEMMA CountGrows ==
  ASSUME NEW L, NEW s, NEW k \in Nat, NEW m \in Nat, k <= m
  PROVE  Count(L, s, k) <= Count(L, s, m)
<1>1. CallsOf(L, s, k) \subseteq CallsOf(L, s, m)
  BY DEF CallsOf
<1> QED BY <1>1, CountIsNat, FS_Subset DEF Count

\* The ordinal of a call is that of no other call of the site.
LEMMA CountIsOwn ==
  ASSUME NEW L, NEW k \in Nat \ {0}, NEW m \in Nat \ {0}, CallSite(L, k) = CallSite(L, m),
         Count(L, CallSite(L, k), k) = Count(L, CallSite(L, m), m)
  PROVE  k = m
<1> DEFINE s == CallSite(L, k)
<1>1. ASSUME NEW p \in Nat \ {0}, NEW q \in Nat \ {0}, p < q, CallSite(L, q) = s
      PROVE  Count(L, s, p) < Count(L, s, q)
  <2>1. q - 1 \in Nat /\ p <= q - 1 /\ (q - 1) + 1 = q /\ p \in Nat
    BY <1>1
  <2>2. Count(L, s, p) <= Count(L, s, q - 1)
    BY <2>1, CountGrows
  <2>3. Count(L, s, q) = Count(L, s, q - 1) + 1
    BY <1>1, <2>1, CountNext
  <2>4. Count(L, s, p) \in Nat /\ Count(L, s, q - 1) \in Nat
    BY <2>1, CountIsNat
  <2> QED BY <2>2, <2>3, <2>4
<1>2. Count(L, s, k) \in Nat /\ Count(L, s, m) \in Nat /\ Count(L, s, k) = Count(L, s, m)
  BY CountIsNat
<1>3. CASE k < m
  BY <1>1, <1>2, <1>3
<1>4. CASE m < k
  BY <1>1, <1>2, <1>4
<1> QED BY <1>3, <1>4

\* A longer order has the same calls first.
LEMMA CallsOfLonger ==
  ASSUME NEW L \in Seq(Instance), NEW M \in Seq(Instance), Begins(L, M)
  PROVE  /\ \A k \in 1 .. Total(L) : CallSite(M, k) = CallSite(L, k)
         /\ \A rows : \A k \in 1 .. Total(L) : CallBranch(rows, M, k) = CallBranch(rows, L, k)
         /\ \A s : \A k \in 0 .. Total(L) : Count(M, s, k) = Count(L, s, k)
<1>1. Branches \in Nat /\ Len(L) \in Nat /\ Total(L) = Branches + Len(L)
  BY ReplayOrderAssumption, Sequence DEF Total
<1>2. ASSUME NEW k \in 1 .. Total(L), ~ (k <= Branches) PROVE M[k - Branches] = L[k - Branches]
  <2>1. k - Branches \in 1 .. Len(L)
    BY <1>1, <1>2
  <2> QED BY <2>1 DEF Begins
<1>3. \A k \in 1 .. Total(L) : CallSite(M, k) = CallSite(L, k)
  BY <1>2 DEF CallSite
<1>4. ASSUME NEW rows, NEW k \in 1 .. Total(L) PROVE CallBranch(rows, M, k) = CallBranch(rows, L, k)
  BY <1>2 DEF CallBranch
<1>5. ASSUME NEW s, NEW k \in 0 .. Total(L) PROVE Count(M, s, k) = Count(L, s, k)
  <2>1. \A j \in 1 .. k : j \in 1 .. Total(L)
    BY <1>1
  <2>2. CallsOf(M, s, k) = CallsOf(L, s, k)
    BY <1>3, <2>1 DEF CallsOf
  <2> QED BY <2>2 DEF Count
<1> QED BY <1>3, <1>4, <1>5

-----------------------------------------------------------------------------
(* Where a life stands in the order L: the engine has taken t calls, the     *)
(* script has read c answers, and h answers have gone out.                   *)

\* Answers that are replayed go out as the gate releases them; live ones only
\* when the replay has caught up.
Position(L, h, c, t) ==
  /\ h = c + Len(replies) /\ Branches + c = t + Len(calls)
  /\ (L = order /\ h + Len(queue) = cursor) \/ (h = Len(L) /\ queue = <<>> /\ cursor = Len(order))

\* The streams hold what is next in the order.
Streamed(L, h, c, t) ==
  /\ \A j \in 1 .. Len(queue) : queue[j] = L[h + j]
  /\ \A j \in 1 .. Len(replies) : replies[j] = BranchOf(L[c + j]) /\ at[replies[j]] = L[c + j][1]
  /\ \A j \in 1 .. Len(calls) : /\ calls[j] = CallBranch(journal, L, t + j)
                                 /\ at[calls[j]] = CallSite(L, t + j)

Numbered(L, t) == \A s \in Site : ordinal[s] = Count(L, s, t)

\* The rows are those of the calls, and every settled node is in the order.
RowsAgree(rows, L) ==
  /\ \A s \in Site : Len(rows[s]) <= Count(L, s, Total(L))
  /\ \A k \in 1 .. Total(L) :
       Journaled(rows, <<CallSite(L, k), Count(L, CallSite(L, k), k)>>) =>
         rows[CallSite(L, k)][Count(L, CallSite(L, k), k)].input = CallBranch(rows, L, k)
  /\ \A i : Finished(rows, i) => i \in ToSet(L)

\* What has been released has been called.
Released(L, h) == \A j \in 1 .. Len(L) : j <= h \/ j <= cursor => L[j][2] <= ordinal[L[j][1]]

Canon == SettleOrder(journal, log)

Follows(L, h, c, t) ==
  /\ h \in Nat /\ c \in Nat /\ t \in Nat
  /\ Position(L, h, c, t) /\ Streamed(L, h, c, t) /\ Numbered(L, t)
  /\ RowsAgree(journal, L) /\ Released(L, h)

\* The lives have followed one order so far.
Faithful == ~ torn /\ ~ overtaken

Agrees == outcome = "running" /\ Faithful => \E h, c, t \in Nat : Follows(Canon, h, c, t)

LEMMA CanonOf ==
  ASSUME TypeOK, Running
  PROVE  /\ Canon \in Seq(Instance) /\ IsInjective(Canon) /\ Len(Canon) \in Nat
         /\ ToSet(Canon) = ToSet(log)
         /\ \A j \in 1 .. Len(Canon) : Finished(journal, Canon[j]) /\ Canon[j] \in Instance
<1>1. log \in Seq(Instance) /\ \A i \in ToSet(log) : Finished(journal, i)
  BY Types DEF Running, LogOK
<1>2. Canon \in Seq(Instance) /\ IsInjective(Canon) /\ ToSet(Canon) = ToSet(log)
  BY <1>1, OrderOfLog DEF Canon
<1> QED BY <1>1, <1>2, Sequence, Elements

LEMMA PositionBounds ==
  ASSUME TypeOK, NEW L \in Seq(Instance), NEW h \in Nat, NEW c \in Nat, NEW t \in Nat, Position(L, h, c, t)
  PROVE  /\ Len(L) \in Nat /\ Len(replies) \in Nat /\ Len(calls) \in Nat /\ Len(queue) \in Nat
         /\ Len(order) \in Nat /\ Branches \in Nat /\ cursor \in Nat /\ cursor <= Len(order)
         /\ h <= Len(L) /\ c <= h /\ t + Len(calls) <= Total(L) /\ Total(L) \in Nat
         /\ Total(L) = Branches + Len(L)
<1>1. /\ Len(L) \in Nat /\ Len(replies) \in Nat /\ Len(calls) \in Nat /\ Len(queue) \in Nat
      /\ Len(order) \in Nat /\ Branches \in Nat /\ cursor \in Nat /\ cursor <= Len(order)
  BY Types, Sequence, ReplayOrderAssumption
<1>2. h <= Len(L)
  BY <1>1 DEF Position
<1>3. Total(L) = Branches + Len(L)
  BY DEF Total
<1>4. c <= h /\ t + Len(calls) = Branches + c
  BY <1>1 DEF Position
<1> QED BY <1>1, <1>2, <1>3, <1>4

-----------------------------------------------------------------------------
(* The next call is the next one of the order *)

\* i is the instance of the next call in the order, and b its branch.
NextCall(L, t, b, i) ==
  /\ t + 1 \in 1 .. Total(L)
  /\ b = CallBranch(journal, L, t + 1) /\ i = <<CallSite(L, t + 1), Count(L, CallSite(L, t + 1), t + 1)>>
  /\ i[1] = CallSite(L, t + 1) /\ i[2] = Count(L, i[1], t + 1)

LEMMA CallsShift ==
  ASSUME TypeOK, TakeCall
  PROVE  /\ Len(calls) \in Nat /\ Len(calls) >= 1 /\ Caller = calls[1] /\ Len(calls') = Len(calls) - 1
         /\ \A j \in 1 .. Len(calls) - 1 : calls'[j] = calls[j + 1]
<1>1. calls \in Seq(Branch) /\ calls # <<>> /\ calls' = Tail(calls)
  BY Types DEF TakeCall
<1> QED BY <1>1, NonEmpty, HeadLeaves, Sequence DEF Caller

LEMMA CallIsNext ==
  ASSUME TypeOK, Running, NEW h, NEW c, NEW t, Follows(Canon, h, c, t), TakeCall,
         NEW b, NEW i, Takes(b, i)
  PROVE  /\ NextCall(Canon, t, b, i) /\ (Recorded => BranchOf(i) = b)
         /\ \A s \in Site : ordinal'[s] = Count(Canon, s, t + 1)
<1> DEFINE L == Canon
<1>1. L \in Seq(Instance)
  BY CanonOf
<1>2. h \in Nat /\ c \in Nat /\ t \in Nat /\ Position(L, h, c, t) /\ Streamed(L, h, c, t)
      /\ Numbered(L, t) /\ RowsAgree(journal, L)
  BY DEF Follows
<1> HIDE DEF L
<1>3. t + 1 \in 1 .. Total(L)
  BY <1>1, <1>2, PositionBounds, CallsShift, SMTT(30)
<1>4. b = calls[1] /\ 1 \in 1 .. Len(calls)
  BY CallsShift DEF Takes
<1>5. b = CallBranch(journal, L, t + 1) /\ at[b] = CallSite(L, t + 1)
  BY <1>2, <1>4 DEF Streamed
<1>6. i[1] \in Site /\ i[1] = CallSite(L, t + 1) /\ i[2] = ordinal[i[1]] + 1 /\ i = <<i[1], i[2]>>
  BY <1>5 DEF Takes, Instance
<1>7. Count(L, i[1], t + 1) = Count(L, i[1], t) + 1
  BY <1>2, <1>6, CountNext
<1>8. i[2] = Count(L, i[1], t + 1)
  BY <1>2, <1>6, <1>7 DEF Numbered
<1>9. NextCall(L, t, b, i)
  BY <1>3, <1>5, <1>6, <1>8, ReplayOrderAssumption DEF NextCall
<1>10. ASSUME Recorded PROVE BranchOf(i) = b
  <2>1. Journaled(journal, <<CallSite(L, t + 1), Count(L, CallSite(L, t + 1), t + 1)>>)
    BY <1>6, <1>8, <1>10 DEF Takes
  <2>2. journal[CallSite(L, t + 1)][Count(L, CallSite(L, t + 1), t + 1)].input = CallBranch(journal, L, t + 1)
    BY <1>2, <1>3, <2>1 DEF RowsAgree
  <2> QED BY <1>5, <1>6, <1>8, <2>2 DEF BranchOf, Row
<1>11. ASSUME NEW s \in Site PROVE ordinal'[s] = Count(L, s, t + 1)
  <2>1. CASE s = i[1]
    BY <1>8, <2>1 DEF Takes
  <2>2. CASE s # i[1]
    <3>1. Count(L, s, t + 1) = Count(L, s, t)
      BY <1>2, <1>6, <2>2, CountNext
    <3> QED BY <1>2, <2>2, <3>1 DEF Takes, Numbered
  <2> QED BY <2>1, <2>2
<1> QED BY <1>9, <1>10, <1>11 DEF L

\* So the hash check never fails,
LEMMA NoMismatch ==
  ASSUME TypeOK, Running, NEW h, NEW c, NEW t, Follows(Canon, h, c, t)
  PROVE  ~ Mismatch
<1> SUFFICES ASSUME Mismatch PROVE FALSE
  OBVIOUS
<1>1. TakeCall /\ Recorded /\ BranchOf(Called) # Caller
  BY DEF Mismatch
<1>2. PICK b \in Branch, i \in Instance : Takes(b, i)
  BY <1>1, CallIsTaken DEF Running
<1>3. BranchOf(i) = b
  BY <1>1, <1>2, CallIsNext
<1> QED BY <1>1, <1>2, <1>3 DEF Takes

\* and whatever is settled is held until its turn.
LEMMA NoPassThrough ==
  ASSUME TypeOK, Running, NEW h, NEW c, NEW t, Follows(Canon, h, c, t)
  PROVE  ~ PassThrough
<1> SUFFICES ASSUME PassThrough PROVE FALSE
  OBVIOUS
<1> DEFINE L == Canon
<1>1. TakeCall /\ Replays /\ Claimable(Called) /\ ~ Held(Called)
  BY DEF PassThrough
<1>2. PICK b \in Branch, i \in Instance : Takes(b, i)
  BY <1>1, CallIsTaken DEF Running
<1>3. Finished(journal, i) /\ i = Called
  BY <1>1, <1>2, CachedIsFinished DEF Takes
<1>4. L \in Seq(Instance) /\ Len(L) \in Nat
  BY CanonOf
<1>5. h \in Nat /\ c \in Nat /\ t \in Nat /\ Position(L, h, c, t) /\ RowsAgree(journal, L) /\ Released(L, h)
  BY DEF Follows
<1> HIDE DEF L
<1>6. PICK j \in 1 .. Len(L) : L[j] = i
  BY <1>3, <1>4, <1>5, Elements DEF RowsAgree
<1>7. j <= h \/ j <= cursor
  <2>1. CASE L = order
    <3>1. DOMAIN order = 1 .. Len(order)
      BY Types, Sequence
    <3>2. ~ (j > cursor)
      BY <1>1, <1>3, <1>6, <2>1, <3>1 DEF Held
    <3>3. cursor \in Nat
      BY Types
    <3> QED BY <3>2, <3>3
  <2>2. CASE h = Len(L)
    BY <1>4, <2>2
  <2> QED BY <1>5, <2>1, <2>2 DEF Position
<1>8. i[2] <= ordinal[i[1]]
  BY <1>5, <1>6, <1>7 DEF Released
<1>9. ordinal[i[1]] \in Nat /\ i[2] = ordinal[i[1]] + 1
  BY <1>2, Types DEF Takes, Instance
<1> QED BY <1>8, <1>9

-----------------------------------------------------------------------------
(* A call is taken *)

\* What the order says of a call stays so when rows are kept.
LEMMA CallsKept ==
  ASSUME NEW L \in Seq(Instance), \A j \in 1 .. Len(L) : BranchOf(L[j])' = BranchOf(L[j])
  PROVE  \A k \in 1 .. Total(L) : CallBranch(journal', L, k) = CallBranch(journal, L, k)
<1> SUFFICES ASSUME NEW k \in 1 .. Total(L) PROVE CallBranch(journal', L, k) = CallBranch(journal, L, k)
  OBVIOUS
<1>1. Branches \in Nat /\ Len(L) \in Nat /\ Total(L) = Branches + Len(L)
  BY ReplayOrderAssumption, Sequence DEF Total
<1>2. CASE k <= Branches
  BY <1>2 DEF CallBranch
<1>3. CASE ~ (k <= Branches)
  <2>1. k - Branches \in 1 .. Len(L)
    BY <1>1, <1>3
  <2>2. BranchOf(L[k - Branches])' = BranchOf(L[k - Branches])
    BY <2>1
  <2> QED BY <1>3, <2>2 DEF CallBranch, BranchOf, Row
<1> QED BY <1>2, <1>3

\* The rows still agree with the order.
LEMMA RowsAgreeAfterCall ==
  ASSUME TypeOK, Running, NEW L \in Seq(Instance), NEW t \in Nat, RowsAgree(journal, L),
         NEW b, NEW i, Takes(b, i), NextCall(L, t, b, i), RowsAfterCall(b, i),
         \A j : Finished(journal', j) => Finished(journal, j),
         \A k \in 1 .. Total(L) : CallBranch(journal', L, k) = CallBranch(journal, L, k)
  PROVE  RowsAgree(journal', L)
<1>1. Total(L) \in Nat
  BY ReplayOrderAssumption, Sequence DEF Total
<1>2. t + 1 \in Nat /\ t + 1 <= Total(L) /\ i[2] = Count(L, i[1], t + 1) /\ i[1] = CallSite(L, t + 1)
      /\ b = CallBranch(journal, L, t + 1)
  BY DEF NextCall
<1>3. i[1] \in Site /\ i[2] \in Nat /\ i[2] = ordinal[i[1]] + 1 /\ ordinal[i[1]] \in Nat
  BY Types DEF Takes, Instance
<1>4. \A s \in Site : Len(journal[s]) \in Nat /\ Len(journal'[s]) \in Nat /\ ordinal[s] <= Len(journal[s])
  BY Types, Lengths DEF RowsAfterCall, Running, CountsOK
<1>5. ASSUME NEW s \in Site PROVE Len(journal'[s]) <= Count(L, s, Total(L))
  <2>1. CASE Len(journal'[s]) = Len(journal[s])
    BY <2>1 DEF RowsAgree
  <2>2. CASE s = i[1] /\ Len(journal'[s]) = i[2]
    BY <1>1, <1>2, <2>2, CountGrows
  <2> QED BY <2>1, <2>2 DEF RowsAfterCall
<1>6. ASSUME NEW k \in 1 .. Total(L), Journaled(journal', <<CallSite(L, k), Count(L, CallSite(L, k), k)>>)
      PROVE  journal'[CallSite(L, k)][Count(L, CallSite(L, k), k)].input = CallBranch(journal', L, k)
  <2>1. PICK j : j = <<CallSite(L, k), Count(L, CallSite(L, k), k)>>
    OBVIOUS
  <2>2. j[1] = CallSite(L, k) /\ j[2] = Count(L, CallSite(L, k), k) /\ Journaled(journal', j)
    BY <1>6, <2>1
  <2>3. j \in Instance /\ j[1] \in Site /\ j[2] \in Nat /\ j[2] <= Len(journal'[j[1]])
    BY <2>2 DEF Journaled, Instance
  <2>4. CASE Journaled(journal, j)
    <3>1. Row(j)' = Row(j)
      BY <2>4 DEF RowsAfterCall
    <3>2. journal[j[1]][j[2]].input = CallBranch(journal, L, k)
      BY <2>1, <2>2, <2>4 DEF RowsAgree
    <3> QED BY <2>2, <3>1, <3>2 DEF Row
  <2>5. CASE ~ Journaled(journal, j)
    <3>1. ~ (j[2] <= Len(journal[j[1]]))
      BY <2>3, <2>5 DEF Journaled
    <3>2. j[1] = i[1] /\ Len(journal'[j[1]]) = i[2]
      BY <2>3, <3>1 DEF RowsAfterCall
    <3>3. j[2] = i[2]
      BY <1>3, <1>4, <2>3, <3>1, <3>2, SMTT(30)
    <3>4. CallSite(L, k) = CallSite(L, t + 1) /\ Count(L, CallSite(L, k), k) = Count(L, CallSite(L, t + 1), t + 1)
      BY <1>2, <2>2, <3>2, <3>3
    <3>5. k = t + 1
      <4>1. k \in Nat \ {0} /\ t + 1 \in Nat \ {0}
        BY <1>1
      <4> QED BY <3>4, <4>1, CountIsOwn
    <3>6. Row(i)'.input = b
      BY DEF RowsAfterCall, BranchOf
    <3> QED BY <1>2, <2>2, <3>2, <3>3, <3>5, <3>6 DEF Row
  <2> QED BY <2>4, <2>5
<1>7. ASSUME NEW j, Finished(journal', j) PROVE j \in ToSet(L)
  BY <1>7 DEF RowsAgree
<1> QED BY <1>5, <1>6, <1>7 DEF RowsAgree

\* A taken call: what it does to the calls, the ordinals and the rows.
LEMMA CallAdvances ==
  ASSUME TypeOK, TakeCall, NEW L \in Seq(Instance), NEW h \in Nat, NEW c \in Nat, NEW t \in Nat,
         Position(L, h, c, t), Streamed(L, h, c, t), at' = at,
         \A k \in 1 .. Total(L) : CallBranch(journal', L, k) = CallBranch(journal, L, k)
  PROVE  /\ Branches + c = (t + 1) + Len(calls')
         /\ \A j \in 1 .. Len(calls') : /\ calls'[j] = CallBranch(journal', L, (t + 1) + j)
                                        /\ at'[calls'[j]] = CallSite(L, (t + 1) + j)
<1>1. Len(calls) \in Nat /\ Len(calls) >= 1 /\ Len(calls') = Len(calls) - 1
      /\ \A j \in 1 .. Len(calls) - 1 : calls'[j] = calls[j + 1]
  BY CallsShift
<1>2. t + Len(calls) <= Total(L) /\ Total(L) \in Nat /\ Branches \in Nat
  BY PositionBounds
<1>3. Branches + c = (t + 1) + Len(calls')
  BY <1>1, <1>2 DEF Position
<1>4. ASSUME NEW j \in 1 .. Len(calls')
      PROVE  calls'[j] = CallBranch(journal', L, (t + 1) + j) /\ at'[calls'[j]] = CallSite(L, (t + 1) + j)
  <2>1. j + 1 \in 1 .. Len(calls) /\ j \in 1 .. Len(calls) - 1 /\ t + (j + 1) = (t + 1) + j
        /\ t + (j + 1) \in 1 .. Total(L)
    BY <1>1, <1>2
  <2>2. calls[j + 1] = CallBranch(journal, L, t + (j + 1)) /\ at[calls[j + 1]] = CallSite(L, t + (j + 1))
    BY <2>1 DEF Streamed
  <2> QED BY <1>1, <2>1, <2>2
<1> QED BY <1>3, <1>4

\* The order of a life that follows L consists of journaled rows.
LEMMA OrderIsJournaled ==
  ASSUME TypeOK, Running, NEW L, L = Canon
  PROVE  /\ L \in Seq(Instance) /\ Len(L) \in Nat /\ ToSet(L) = ToSet(log)
         /\ \A j \in 1 .. Len(L) : /\ Finished(journal, L[j]) /\ Journaled(journal, L[j])
                                    /\ L[j] \in Instance /\ L[j][1] \in Site /\ L[j][2] \in Nat
                                    /\ L[j] \in ToSet(L)
<1>1. L \in Seq(Instance) /\ Len(L) \in Nat /\ ToSet(L) = ToSet(log)
      /\ \A j \in 1 .. Len(L) : Finished(journal, L[j]) /\ L[j] \in Instance
  BY CanonOf
<1>2. \A j \in 1 .. Len(L) : Journaled(journal, L[j]) /\ L[j][1] \in Site /\ L[j][2] \in Nat
  BY <1>1 DEF Finished, Instance
<1>3. \A j \in 1 .. Len(L) : L[j] \in ToSet(L)
  BY <1>1, Elements
<1> QED BY <1>1, <1>2, <1>3

\* Rows that are kept give the same order as long as nothing new is logged.
LEMMA CanonStays ==
  ASSUME TypeOK, Running, journal' \in Table, Keeps(journal, journal'), log' = log, NEW L, L = Canon
  PROVE  Canon' = L /\ \A j \in 1 .. Len(L) : BranchOf(L[j])' = BranchOf(L[j])
<1>1. journal \in Table /\ log \in Seq(Instance) /\ \A i \in ToSet(log) : Finished(journal, i)
  BY Types DEF Running, LogOK
<1>2. SettleOrder(journal', log) = SettleOrder(journal, log)
  BY <1>1, OrderKept
<1>3. \A j \in 1 .. Len(L) : Journaled(journal, L[j])
  BY OrderIsJournaled
<1>4. \A j \in 1 .. Len(L) : BranchOf(L[j])' = BranchOf(L[j])
  BY <1>1, <1>3, KeptRows DEF BranchOf, Row
<1> QED BY <1>2, <1>4 DEF Canon

\* What has been released stays called.
LEMMA ReleasedStays ==
  ASSUME TypeOK, Running, NEW L, L = Canon, NEW h, Released(L, h), cursor' = cursor,
         \A s \in Site : ordinal[s] <= ordinal'[s], ordinal' \in [Site -> Nat]
  PROVE  Released(L, h)'
<1> SUFFICES ASSUME NEW j \in 1 .. Len(L), j <= h \/ j <= cursor PROVE L[j][2] <= ordinal'[L[j][1]]
  BY DEF Released
<1>1. L[j][1] \in Site /\ L[j][2] \in Nat
  BY OrderIsJournaled
<1>2. L[j][2] <= ordinal[L[j][1]]
  BY DEF Released
<1>3. ordinal[L[j][1]] \in Nat /\ ordinal'[L[j][1]] \in Nat /\ ordinal[L[j][1]] <= ordinal'[L[j][1]]
  BY <1>1, Types
<1> QED BY <1>1, <1>2, <1>3

\* A row that is not the call's was there before.
LEMMA OldRow ==
  ASSUME TypeOK, CountsOK, NEW b, NEW i, Takes(b, i), RowsAfterCall(b, i),
         NEW j, Journaled(journal', j), j # i
  PROVE  Journaled(journal, j)
<1>1. j \in Instance /\ j[1] \in Site /\ j[2] \in Nat /\ j = <<j[1], j[2]>> /\ j[2] <= Len(journal'[j[1]])
  BY DEF Journaled, Instance
<1>2. i[2] \in Nat /\ i[2] = ordinal[i[1]] + 1 /\ i = <<i[1], i[2]>> /\ i[1] \in Site /\ ordinal[i[1]] \in Nat
  BY Types DEF Takes, Instance
<1>3. Len(journal[j[1]]) \in Nat /\ ordinal[j[1]] <= Len(journal[j[1]])
  BY <1>1, Types, Lengths DEF CountsOK
<1>4. CASE Len(journal'[j[1]]) = Len(journal[j[1]])
  BY <1>1, <1>4 DEF Journaled
<1>5. CASE j[1] = i[1] /\ Len(journal'[j[1]]) = i[2]
  <2>1. j[2] # i[2]
    BY <1>1, <1>2, <1>5
  <2>2. j[2] <= Len(journal[j[1]])
    BY <1>1, <1>2, <1>3, <1>5, <2>1
  <2> QED BY <1>1, <2>2 DEF Journaled
<1> QED BY <1>1, <1>4, <1>5 DEF RowsAfterCall

\* A call that goes live or reports.
LEMMA CallFollows ==
  ASSUME TypeOK, Running, TakeCall, NEW L, L = Canon, NEW h, NEW c, NEW t, Follows(L, h, c, t),
         NEW b, NEW i, Takes(b, i), RowsAfterCall(b, i),
         \A j : Finished(journal', j) => Finished(journal, j),
         UNCHANGED <<log, torn, overtaken, lives, outcome, at, replies, order, cursor, parked, queue>>
  PROVE  Canon' = L /\ Follows(L, h, c, t + 1)'
<1>1. h \in Nat /\ c \in Nat /\ t \in Nat /\ Position(L, h, c, t) /\ Streamed(L, h, c, t)
      /\ Numbered(L, t) /\ RowsAgree(journal, L) /\ Released(L, h)
  BY DEF Follows
<1>2. L \in Seq(Instance)
  BY OrderIsJournaled
<1>3. Canon' = L /\ \A j \in 1 .. Len(L) : BranchOf(L[j])' = BranchOf(L[j])
  BY CanonStays DEF RowsAfterCall
<1>4. \A k \in 1 .. Total(L) : CallBranch(journal', L, k) = CallBranch(journal, L, k)
  BY <1>2, <1>3, CallsKept
<1>5. NextCall(L, t, b, i) /\ \A s \in Site : ordinal'[s] = Count(L, s, t + 1)
  BY CallIsNext
<1>6. RowsAgree(journal', L)
  BY <1>1, <1>2, <1>4, <1>5, RowsAgreeAfterCall
<1>7. /\ Branches + c = (t + 1) + Len(calls')
      /\ \A j \in 1 .. Len(calls') : /\ calls'[j] = CallBranch(journal', L, (t + 1) + j)
                                     /\ at'[calls'[j]] = CallSite(L, (t + 1) + j)
  BY <1>1, <1>2, <1>4, CallAdvances
<1>8. Position(L, h, c, t + 1)'
  BY <1>1, <1>7 DEF Position
<1>9. Streamed(L, h, c, t + 1)'
  <2>1. ASSUME NEW j \in 1 .. Len(replies) PROVE BranchOf(L[c + j])' = BranchOf(L[c + j])
    <3>1. c + j \in 1 .. Len(L)
      <4>1. Len(replies) \in Nat /\ h = c + Len(replies) /\ h <= Len(L) /\ Len(L) \in Nat
        BY <1>1, <1>2, PositionBounds DEF Position
      <4> QED BY <1>1, <4>1
    <3> QED BY <1>3, <3>1
  <2>2. \A j \in 1 .. Len(replies) : replies[j] = BranchOf(L[c + j]) /\ at[replies[j]] = L[c + j][1]
    BY <1>1 DEF Streamed
  <2>3. \A j \in 1 .. Len(replies) : replies[j] = BranchOf(L[c + j])' /\ at[replies[j]] = L[c + j][1]
    BY <2>1, <2>2
  <2>4. \A j \in 1 .. Len(queue) : queue[j] = L[h + j]
    BY <1>1 DEF Streamed
  <2> QED BY <1>7, <2>3, <2>4 DEF Streamed
<1>10. Numbered(L, t + 1)'
  BY <1>5 DEF Numbered
<1>11. Released(L, h)'
  BY <1>1, ReleasedStays DEF Takes
<1>12. t + 1 \in Nat
  BY <1>1
<1> QED BY <1>1, <1>3, <1>6, <1>8, <1>9, <1>10, <1>11, <1>12 DEF Follows

LEMMA GoLiveFollows ==
  ASSUME TypeOK, Running, GoLive, NEW L, L = Canon, NEW h, NEW c, NEW t, Follows(L, h, c, t)
  PROVE  Canon' = L /\ Follows(L, h, c, t + 1)'
<1>1. TakeCall /\ UNCHANGED <<log, torn, overtaken, lives, outcome, at, replies, order, cursor, parked, queue>>
  BY DEF GoLive, gate
<1>2. PICK b \in Branch, i \in Instance : Takes(b, i)
  BY <1>1, CallIsTaken DEF Running
<1>3. RowsAfterCall(b, i) /\ Row(i)'.status = "running"
  BY <1>2, GoLiveRows DEF Running
<1>4. ASSUME NEW j, Finished(journal', j) PROVE Finished(journal, j)
  <2>1. j # i
    BY <1>3, <1>4 DEF Finished, Row
  <2>2. Journaled(journal, j)
    BY <1>2, <1>3, <1>4, <2>1, OldRow DEF Running, Finished
  <2> QED BY <1>3, <1>4, <2>2 DEF Finished, RowsAfterCall, Row
<1> QED BY <1>1, <1>2, <1>3, <1>4, CallFollows

LEMMA ReportFollows ==
  ASSUME TypeOK, Running, Report, NEW L, L = Canon, NEW h, NEW c, NEW t, Follows(L, h, c, t)
  PROVE  Canon' = L /\ Follows(L, h, c, t + 1)'
<1>1. TakeCall /\ UNCHANGED <<log, torn, overtaken, lives, outcome, at, replies, order, cursor, parked, queue>>
  BY DEF Report, gate
<1>2. PICK b \in Branch, i \in Instance : Takes(b, i)
  BY <1>1, CallIsTaken DEF Running
<1>3. RowsAfterCall(b, i) /\ i[1] = ReportSite
  BY <1>2, ReportRows DEF Running
<1>4. ASSUME NEW j, Finished(journal', j) PROVE Finished(journal, j)
  <2>1. j # i
    BY <1>3, <1>4, Sites DEF Finished
  <2>2. Journaled(journal, j)
    BY <1>2, <1>3, <1>4, <2>1, OldRow DEF Running, Finished
  <2> QED BY <1>3, <1>4, <2>2 DEF Finished, RowsAfterCall, Row
<1> QED BY <1>1, <1>2, <1>3, <1>4, CallFollows

-----------------------------------------------------------------------------
(* A cached settlement arrives at the gate *)

\* Somebody can only be held while the order of the lives before is replayed.
LEMMA HeldInReplay ==
  ASSUME TypeOK, NEW L, NEW h, NEW c, NEW t, Position(L, h, c, t), Hold
  PROVE  L = order /\ h + Len(queue) = cursor
<1>1. DOMAIN order = 1 .. Len(order) /\ Len(order) \in Nat /\ cursor \in Nat
  BY Types, Sequence
<1>2. PICK k \in 1 .. Len(order) : k > cursor
  BY <1>1 DEF Hold, Held
<1>3. cursor # Len(order)
  <2> SUFFICES ASSUME cursor = Len(order) PROVE FALSE
    OBVIOUS
  <2>1. k \in Nat /\ k <= cursor
    BY <1>1
  <2>2. k > cursor
    BY <1>2
  <2> QED BY <1>1, <2>1, <2>2
<1> QED BY <1>3 DEF Position

LEMMA HoldStreams ==
  ASSUME TypeOK, NEW h \in Nat, NEW i, NEW to, HoldMoves(i, to),
         h + Len(queue) = cursor, \A j \in 1 .. Len(queue) : queue[j] = order[h + j]
  PROVE  h + Len(queue') = cursor' /\ \A j \in 1 .. Len(queue') : queue'[j] = order[h + j]
<1> DEFINE n == Len(queue)
<1>1. n \in Nat /\ cursor \in Nat /\ Len(order) \in Nat
  BY Types, Sequence
<1>2. to \in Nat /\ cursor <= to /\ cursor' = to /\ Len(queue') = n + (to - cursor)
  BY <1>1 DEF HoldMoves
<1>3. /\ \A k \in 1 .. n : queue'[k] = queue[k]
      /\ \A k \in 1 .. to - cursor : queue'[n + k] = order[cursor + k]
  BY DEF HoldMoves
<1>4. h + n = cursor
  OBVIOUS
<1>5. \A j \in 1 .. n : queue[j] = order[h + j]
  OBVIOUS
<1> HIDE DEF n
<1>6. h + Len(queue') = cursor'
  BY <1>1, <1>2, <1>4
<1>7. ASSUME NEW j \in 1 .. Len(queue') PROVE queue'[j] = order[h + j]
  <2>1. CASE j <= n
    <3>1. j \in 1 .. n
      BY <1>1, <1>2, <2>1
    <3> QED BY <1>3, <1>5, <3>1
  <2>2. CASE ~ (j <= n)
    <3>1. j - n \in 1 .. to - cursor /\ n + (j - n) = j /\ cursor + (j - n) = h + j
      BY <1>1, <1>2, <1>4, <2>2
    <3>2. queue'[n + (j - n)] = order[cursor + (j - n)]
      BY <1>3, <3>1
    <3> QED BY <3>1, <3>2
  <2> QED BY <2>1, <2>2
<1> QED BY <1>6, <1>7

LEMMA HoldReleases ==
  ASSUME TypeOK, Running, NEW L, L = Canon, L = order, NEW h \in Nat, h <= cursor, Released(L, h),
         NEW b, NEW i, Takes(b, i), NEW to, HoldMoves(i, to)
  PROVE  Released(L, h)'
<1> SUFFICES ASSUME NEW j \in 1 .. Len(L), j <= h \/ j <= cursor' PROVE L[j][2] <= ordinal'[L[j][1]]
  BY DEF Released
<1>1. L[j][1] \in Site /\ L[j][2] \in Nat /\ Len(L) \in Nat
  BY OrderIsJournaled
<1>2. cursor \in Nat /\ to \in Nat /\ cursor <= to /\ cursor' = to
  BY Types DEF HoldMoves
<1>3. ordinal[L[j][1]] \in Nat /\ ordinal'[L[j][1]] \in Nat /\ ordinal[L[j][1]] <= ordinal'[L[j][1]]
  BY <1>1, Types DEF Takes
<1>4. CASE j <= cursor
  <2>1. L[j][2] <= ordinal[L[j][1]]
    BY <1>4 DEF Released
  <2> QED BY <1>1, <1>3, <2>1
<1>5. CASE ~ (j <= cursor)
  <2>1. j \in cursor + 1 .. to
    BY <1>1, <1>2, <1>5
  <2>2. L[j] \in parked \cup {i}
    BY <2>1 DEF HoldMoves
  <2>3. CASE L[j] = i
    BY <1>1, <1>3, <2>3 DEF Takes
  <2>4. CASE L[j] \in parked
    <3>1. L[j][2] <= ordinal[L[j][1]]
      BY <2>4 DEF Running, WaitingOK, Waits, Open
    <3> QED BY <1>1, <1>3, <3>1
  <2> QED BY <2>2, <2>3, <2>4
<1> QED BY <1>4, <1>5

LEMMA HoldFollows ==
  ASSUME TypeOK, Running, Hold, NEW L, L = Canon, NEW h, NEW c, NEW t, Follows(L, h, c, t)
  PROVE  Canon' = L /\ Follows(L, h, c, t + 1)'
<1>1. TakeCall /\ Replays /\ Claimable(Called) /\ UNCHANGED <<journal, log, torn, overtaken, lives, outcome, at, replies, order>>
  BY DEF Hold, durable
<1>2. PICK b \in Branch, i \in Instance : Takes(b, i)
  BY <1>1, CallIsTaken DEF Running
<1>3. Finished(journal, i) /\ Journaled(journal, i) /\ BranchOf(i) = b
  BY <1>1, <1>2, CachedIsFinished
<1>4. PICK to : HoldMoves(i, to)
  <2>1. i = Called /\ i \notin parked \cup ToSet(queue)
    BY <1>2, <1>3, OthersWait DEF Running, Takes, Open
  <2> QED BY <2>1, HoldsInGate DEF Running, LogOK
<1>5. h \in Nat /\ c \in Nat /\ t \in Nat /\ Position(L, h, c, t) /\ Streamed(L, h, c, t)
      /\ Numbered(L, t) /\ RowsAgree(journal, L) /\ Released(L, h)
  BY DEF Follows
<1>6. L \in Seq(Instance)
  BY OrderIsJournaled
<1>7. L = order /\ h + Len(queue) = cursor
  BY <1>5, HeldInReplay
<1>8. h + Len(queue') = cursor' /\ \A j \in 1 .. Len(queue') : queue'[j] = L[h + j]
  <2>1. \A j \in 1 .. Len(queue) : queue[j] = order[h + j]
    BY <1>5, <1>7 DEF Streamed
  <2> QED BY <1>4, <1>5, <1>7, <2>1, HoldStreams
<1>9. Canon' = L /\ \A j : BranchOf(j)' = BranchOf(j)
  BY <1>1 DEF Canon, BranchOf, Row
<1>10. NextCall(L, t, b, i) /\ \A s \in Site : ordinal'[s] = Count(L, s, t + 1)
  BY <1>2, CallIsNext, <1>1
<1>11. \A k \in 1 .. Total(L) : CallBranch(journal', L, k) = CallBranch(journal, L, k)
  BY <1>1
<1>12. /\ Branches + c = (t + 1) + Len(calls')
       /\ \A j \in 1 .. Len(calls') : /\ calls'[j] = CallBranch(journal', L, (t + 1) + j)
                                      /\ at'[calls'[j]] = CallSite(L, (t + 1) + j)
  BY <1>1, <1>5, <1>6, <1>11, CallAdvances, ZenonT(40)
<1>13. Position(L, h, c, t + 1)'
  BY <1>1, <1>5, <1>7, <1>8, <1>12 DEF Position
<1>14. Streamed(L, h, c, t + 1)'
  <2>1. \A j \in 1 .. Len(replies) : replies[j] = BranchOf(L[c + j]) /\ at[replies[j]] = L[c + j][1]
    BY <1>5 DEF Streamed
  <2>2. \A j \in 1 .. Len(replies') : replies'[j] = BranchOf(L[c + j])' /\ at'[replies'[j]] = L[c + j][1]
    BY <1>1, <1>9, <2>1
  <2> QED BY <1>8, <1>12, <2>2 DEF Streamed
<1>15. Numbered(L, t + 1)'
  BY <1>10 DEF Numbered
<1>16. Released(L, h)'
  <2>1. h <= cursor
    <3>1. Len(queue) \in Nat /\ cursor \in Nat
      BY Types, Sequence
    <3> QED BY <1>5, <1>7, <3>1
  <2> QED BY <1>2, <1>4, <1>5, <1>7, <2>1, HoldReleases
<1>17. RowsAgree(journal', L) /\ t + 1 \in Nat
  BY <1>1, <1>5
<1> QED BY <1>5, <1>9, <1>13, <1>14, <1>15, <1>16, <1>17 DEF Follows

-----------------------------------------------------------------------------
(* Answers go out and are read *)

\* The answers that are under way, and those that go out, in the order L.
RepliesFit(L, c) ==
  \A j \in 1 .. Len(replies) : replies[j] = BranchOf(L[c + j])' /\ at[replies[j]] = L[c + j][1]
AnswersFit(new, L, h) ==
  \A j \in 1 .. Len(new) : /\ new[j] = L[h + j] /\ at[BranchOf(new[j])] = new[j][1]
                            /\ BranchOf(new[j])' = BranchOf(new[j])
RepliesFitThen(L, c) ==
  \A j \in 1 .. Len(replies') : replies'[j] = BranchOf(L[c + j])' /\ at'[replies'[j]] = L[c + j][1]

\* The answers that go out are the next ones of the order.
LEMMA RepliesGrow ==
  ASSUME TypeOK, NEW new \in Seq(Instance), Answered(new), at' = at, NEW L,
         NEW h \in Nat, NEW c \in Nat, h = c + Len(replies), RepliesFit(L, c), AnswersFit(new, L, h)
  PROVE  h + Len(new) = c + Len(replies') /\ RepliesFitThen(L, c)
<1> DEFINE m == Len(replies)
           n == Len(new)
<1>1. m \in Nat /\ n \in Nat /\ Len(replies') = m + n /\ h = c + m
  BY Types, Sequence DEF Answered
<1>2. /\ \A k \in 1 .. m : replies'[k] = replies[k]
      /\ \A k \in 1 .. n : replies'[m + k] = BranchOf(new[k])
  BY DEF Answered
<1>3. \A j \in 1 .. m : replies[j] = BranchOf(L[c + j])' /\ at[replies[j]] = L[c + j][1]
  BY DEF RepliesFit
<1>4. \A j \in 1 .. n : /\ new[j] = L[h + j] /\ at[BranchOf(new[j])] = new[j][1]
                        /\ BranchOf(new[j])' = BranchOf(new[j])
  BY DEF AnswersFit
<1> HIDE DEF m, n
<1>5. ASSUME NEW j \in 1 .. m + n PROVE replies'[j] = BranchOf(L[c + j])' /\ at'[replies'[j]] = L[c + j][1]
  <2>1. CASE j <= m
    <3>1. j \in 1 .. m
      BY <1>1, <2>1
    <3> QED BY <1>2, <1>3, <3>1
  <2>2. CASE ~ (j <= m)
    <3>1. PICK k \in 1 .. n : j = m + k /\ c + j = h + k
      <4>1. j - m \in 1 .. n /\ j = m + (j - m) /\ c + j = h + (j - m)
        BY <1>1, <2>2
      <4> QED BY <4>1
    <3>2. new[k] = L[c + j] /\ replies'[j] = BranchOf(new[k])
      BY <1>2, <1>4, <3>1
    <3> QED BY <1>4, <3>1, <3>2
  <2> QED BY <2>1, <2>2
<1>6. h + n = c + Len(replies')
  <2>1. c \in Nat /\ (c + m) + n = c + (m + n)
    BY <1>1
  <2> QED BY <1>1, <2>1
<1> QED BY <1>1, <1>5, <1>6 DEF n, RepliesFitThen

LEMMA FlushFollows ==
  ASSUME TypeOK, Running, Flush, NEW L, L = Canon, NEW h, NEW c, NEW t, Follows(L, h, c, t)
  PROVE  Canon' = L /\ \E g \in Nat : Follows(L, g, c, t)'
<1>1. /\ log' = log \o queue /\ replies' = replies \o BranchesOf(queue) /\ queue' = <<>> /\ queue # <<>>
      /\ UNCHANGED <<journal, torn, overtaken, lives, outcome, ordinal, at, calls, order, cursor, parked>>
  BY DEF Flush, Settle
<1>2. PICK new : new = queue
  OBVIOUS
<1>3. new \in Seq(Instance) /\ Len(new) \in Nat /\ \A i \in ToSet(new) : Finished(journal, i) /\ Waits(i)
  BY <1>2, Types, Sequence DEF Running, GateOK, WaitingOK, Open
<1>4. h \in Nat /\ c \in Nat /\ t \in Nat /\ Position(L, h, c, t) /\ Streamed(L, h, c, t)
      /\ Numbered(L, t) /\ RowsAgree(journal, L) /\ Released(L, h)
  BY DEF Follows
<1>5. L \in Seq(Instance) /\ ToSet(L) = ToSet(log)
  BY OrderIsJournaled
<1>6. L = order /\ h + Len(new) = cursor
  BY <1>1, <1>2, <1>4 DEF Position
<1>7. Canon' = L
  <2>1. ToSet(new) \subseteq ToSet(log)
    BY <1>3, <1>4, <1>5 DEF RowsAgree
  <2>2. journal \in Table /\ log \in Seq(Instance) /\ \A i \in ToSet(log) : Finished(journal, i)
    BY Types DEF Running, LogOK
  <2>3. SettleOrder(journal, log \o new) = SettleOrder(journal, log)
    BY <1>3, <2>1, <2>2, SameRows, OrderGrows
  <2> QED BY <1>1, <1>2, <2>3 DEF Canon
<1>8. \A j : BranchOf(j)' = BranchOf(j)
  BY <1>1 DEF BranchOf, Row
<1>9. Answered(new)
  BY <1>1, <1>2, <1>3, AnswersGoOut DEF Finished
<1>10. h + Len(new) = c + Len(replies') /\ RepliesFitThen(L, c)
  <2>1. h = c + Len(replies)
    BY <1>4 DEF Position
  <2>2. RepliesFit(L, c)
    BY <1>4, <1>8 DEF Streamed, RepliesFit
  <2>3. ASSUME NEW j \in 1 .. Len(new)
        PROVE  new[j] = L[h + j] /\ at[BranchOf(new[j])] = new[j][1] /\ BranchOf(new[j])' = BranchOf(new[j])
    <3>1. new[j] \in ToSet(new) /\ new[j] = L[h + j]
      BY <1>2, <1>3, <1>4, Elements DEF Streamed
    <3> QED BY <1>3, <1>8, <3>1 DEF Waits
  <2>4. at' = at /\ h \in Nat /\ c \in Nat
    BY <1>1, <1>4
  <2>5. AnswersFit(new, L, h)
    BY <2>3 DEF AnswersFit
  <2> QED BY <1>3, <1>9, <2>1, <2>2, <2>4, <2>5, RepliesGrow
<1>11. h + Len(new) \in Nat
  BY <1>3, <1>4
<1>12. Len(<<>>) = 0
  OBVIOUS
<1>13. PICK g : g = h + Len(new)
  OBVIOUS
<1>14. g \in Nat /\ g = c + Len(replies') /\ g = cursor
  BY <1>6, <1>10, <1>11, <1>13
<1>15. Position(L, g, c, t)'
  <2>1. g + Len(queue') = cursor'
    BY <1>1, <1>12, <1>14
  <2> QED BY <1>1, <1>4, <1>6, <1>14, <2>1 DEF Position
<1>16. Streamed(L, g, c, t)'
  <2>1. \A j \in 1 .. Len(queue') : FALSE
    BY <1>1, <1>12
  <2>2. \A j \in 1 .. Len(calls) : calls[j] = CallBranch(journal, L, t + j) /\ at[calls[j]] = CallSite(L, t + j)
    BY <1>4 DEF Streamed
  <2>3. \A j \in 1 .. Len(calls') : calls'[j] = CallBranch(journal', L, t + j) /\ at'[calls'[j]] = CallSite(L, t + j)
    BY <1>1, <2>2
  <2> QED BY <1>10, <2>1, <2>3 DEF Streamed, RepliesFitThen
<1>17. Numbered(L, t)' /\ RowsAgree(journal', L)
  BY <1>1, <1>4 DEF Numbered
<1>18. Released(L, g)'
  BY <1>1, <1>4, <1>14 DEF Released
<1>19. Follows(L, g, c, t)'
  BY <1>4, <1>14, <1>15, <1>16, <1>17, <1>18 DEF Follows
<1> QED BY <1>7, <1>14, <1>19

\* A branch reads its answer and makes its next call.
LEMMA ContinueFollows ==
  ASSUME TypeOK, Running, Continue, NEW L, L = Canon, NEW h, NEW c, NEW t, Follows(L, h, c, t)
  PROVE  Canon' = L /\ Follows(L, h, c + 1, t)'
<1>1. PICK b : Continues(b)
  BY BranchContinues DEF Running
<1>2. UNCHANGED <<journal, log, torn, overtaken, lives, outcome, ordinal, order, cursor, parked, queue>>
  BY DEF Continue, durable, gate
<1>3. h \in Nat /\ c \in Nat /\ t \in Nat /\ Position(L, h, c, t) /\ Streamed(L, h, c, t)
      /\ Numbered(L, t) /\ RowsAgree(journal, L) /\ Released(L, h)
  BY DEF Follows
<1>4. L \in Seq(Instance) /\ Len(replies) \in Nat /\ Len(calls) \in Nat /\ Branches \in Nat \ {0}
      /\ replies \in Seq(Branch) /\ calls \in Seq(Branch)
  BY OrderIsJournaled, Types, Sequence, ReplayOrderAssumption
<1>5. Canon' = L /\ \A j : BranchOf(j)' = BranchOf(j)
  BY <1>2 DEF Canon, BranchOf, Row
<1>6. /\ b = replies[1] /\ Len(replies) >= 1 /\ Len(replies') = Len(replies) - 1
      /\ Len(calls') = Len(calls) + 1 /\ b \in Branch /\ b \notin ToSet(calls) /\ b \notin ToSet(replies')
  BY <1>1 DEF Continues
<1>7. h = c + Len(replies) /\ Branches + c = t + Len(calls)
  BY <1>3 DEF Position
<1>8. c + 1 \in Nat /\ h = (c + 1) + Len(replies') /\ Branches + (c + 1) = t + Len(calls')
  BY <1>3, <1>4, <1>6, <1>7, SMTT(30)
<1>9. Position(L, h, c + 1, t)'
  BY <1>2, <1>3, <1>8 DEF Position
<1>10. b = BranchOf(L[c + 1]) /\ at[b] = L[c + 1][1]
  <2>1. 1 \in 1 .. Len(replies)
    BY <1>4, <1>6
  <2> QED BY <1>3, <1>6, <2>1 DEF Streamed
<1>11. ASSUME NEW j \in 1 .. Len(replies')
       PROVE  replies'[j] = BranchOf(L[(c + 1) + j])' /\ at'[replies'[j]] = L[(c + 1) + j][1]
  <2>1. j + 1 \in 1 .. Len(replies) /\ j \in 1 .. Len(replies) - 1 /\ c + (j + 1) = (c + 1) + j
    BY <1>3, <1>4, <1>6
  <2>2. replies'[j] = replies[j + 1]
    BY <1>1, <2>1 DEF Continues
  <2>3. replies[j + 1] = BranchOf(L[c + (j + 1)]) /\ at[replies[j + 1]] = L[c + (j + 1)][1]
    BY <1>3, <2>1 DEF Streamed
  <2>4. replies[j + 1] \in Branch
    BY <1>4, <2>1, Sequence
  <2>5. replies'[j] \in ToSet(replies')
    <3>1. replies' \in Seq(Branch)
      BY <1>1 DEF Continues
    <3>2. PICK r \in Seq(Branch) : r = replies'
      BY <3>1
    <3>3. r[j] \in ToSet(r)
      BY <3>2, Elements
    <3> QED BY <3>2, <3>3
  <2>6. at'[replies'[j]] = at[replies'[j]]
    BY <1>1, <1>6, <2>2, <2>4, <2>5 DEF Continues
  <2> QED BY <1>5, <2>1, <2>2, <2>3, <2>6
<1>12. ASSUME NEW j \in 1 .. Len(calls')
       PROVE  calls'[j] = CallBranch(journal', L, t + j) /\ at'[calls'[j]] = CallSite(L, t + j)
  <2>1. CASE j <= Len(calls)
    <3>1. j \in 1 .. Len(calls)
      BY <1>4, <1>6, <2>1
    <3>2. calls'[j] = calls[j]
      BY <1>1, <3>1 DEF Continues
    <3>3. calls[j] = CallBranch(journal, L, t + j) /\ at[calls[j]] = CallSite(L, t + j)
      BY <1>3, <3>1 DEF Streamed
    <3>4. calls[j] \in ToSet(calls) /\ calls[j] \in Branch
      BY <1>4, <3>1, Elements, Sequence
    <3>5. at'[calls[j]] = at[calls[j]]
      BY <1>1, <1>6, <3>4 DEF Continues
    <3> QED BY <1>2, <3>2, <3>3, <3>5
  <2>2. CASE ~ (j <= Len(calls))
    <3>1. j = Len(calls) + 1
      BY <1>4, <1>6, <2>2
    <3>2. t + j = Branches + (c + 1)
      BY <1>3, <1>4, <1>7, <3>1, SMTT(30)
    <3>3. ~ (t + j <= Branches) /\ (t + j) - Branches = c + 1
      BY <1>3, <1>4, <3>2
    <3>4. CallBranch(journal', L, t + j) = BranchOf(L[c + 1]) /\ CallSite(L, t + j) = L[c + 1][1] + 1
      BY <1>2, <3>3 DEF CallBranch, CallSite, BranchOf, Row
    <3>5. calls'[j] = b /\ at'[b] = at[b] + 1
      BY <1>1, <3>1 DEF Continues
    <3> QED BY <1>10, <3>4, <3>5
  <2> QED BY <2>1, <2>2
<1>13. Streamed(L, h, c + 1, t)'
  <2>1. \A j \in 1 .. Len(queue) : queue[j] = L[h + j]
    BY <1>3 DEF Streamed
  <2> QED BY <1>2, <1>11, <1>12, <2>1 DEF Streamed
<1>14. Numbered(L, t)' /\ RowsAgree(journal', L) /\ Released(L, h)'
  BY <1>2, <1>3 DEF Numbered, Released
<1> QED BY <1>3, <1>5, <1>8, <1>9, <1>13, <1>14 DEF Follows

-----------------------------------------------------------------------------
(* A live node answers *)

\* A live answer that overtakes nothing comes when the whole order has gone out.
LEMMA AllHaveGoneOut ==
  ASSUME TypeOK, NEW L, NEW h, NEW c, NEW t, Position(L, h, c, t), h \in Nat, CaughtUp, MayAnswer
  PROVE  h = Len(L) /\ queue = <<>> /\ cursor = Len(order)
<1>1. queue = <<>> /\ cursor = Len(order)
  BY DEF MayAnswer, CaughtUp
<1>2. Len(queue) = 0
  BY <1>1
<1>3. h = Len(L)
  <2>1. CASE L = order /\ h + Len(queue) = cursor
    BY <1>1, <1>2, <2>1
  <2> QED BY <2>1 DEF Position
<1> QED BY <1>1, <1>3

\* The rows agree with the order that has one answer more.
LEMMA RowsAgreeAfterAnswer ==
  ASSUME TypeOK, Running, NEW L \in Seq(Instance), RowsAgree(journal, L), NEW i \in Instance,
         NEW M \in Seq(Instance), Len(M) = Len(L) + 1, Begins(L, M), ToSet(M) = ToSet(L) \cup {i},
         journal' \in Table,
         \A s \in Site : Len(journal'[s]) = Len(journal[s]),
         \A j : Journaled(journal, j) => BranchOf(j)' = BranchOf(j),
         \A j : Finished(journal', j) => j = i \/ Finished(journal, j),
         \A k \in 1 .. Total(L) : CallBranch(journal', L, k) = CallBranch(journal, L, k)
  PROVE  RowsAgree(journal', M)
<1> DEFINE n == Total(L)
<1>1. n \in Nat /\ Total(M) = n + 1 /\ Len(L) \in Nat /\ Branches \in Nat
  <2>1. Len(L) \in Nat
    BY Sequence
  <2>2. Branches \in Nat
    BY ReplayOrderAssumption
  <2>3. Total(M) = Branches + Len(M) /\ n = Branches + Len(L) /\ Len(M) = Len(L) + 1
    BY DEF Total
  <2> HIDE DEF n
  <2> QED BY <2>1, <2>2, <2>3
<1>2. /\ \A k \in 1 .. n : CallSite(M, k) = CallSite(L, k)
      /\ \A k \in 1 .. n : CallBranch(journal', M, k) = CallBranch(journal', L, k)
      /\ \A s : \A k \in 0 .. n : Count(M, s, k) = Count(L, s, k)
  BY CallsOfLonger
<1>3. \A s \in Site : Len(journal[s]) <= Count(L, s, n) /\ Len(journal[s]) \in Nat
  BY Types, Lengths DEF RowsAgree
<1>4. \A k \in 1 .. n : CallBranch(journal', L, k) = CallBranch(journal, L, k)
  OBVIOUS
<1> HIDE DEF n
<1>5. ASSUME NEW s \in Site
      PROVE  Len(journal'[s]) <= Count(M, s, n) /\ Count(M, s, n) \in Nat /\ Count(M, s, n + 1) \in Nat
             /\ Count(M, s, n) <= Count(M, s, n + 1) /\ Len(journal'[s]) \in Nat
  <2>1. Count(M, s, n) = Count(L, s, n)
    BY <1>1, <1>2
  <2>2. Count(M, s, n) \in Nat /\ Count(M, s, n + 1) \in Nat /\ Count(M, s, n) <= Count(M, s, n + 1)
    BY <1>1, CountIsNat, CountGrows
  <2> QED BY <1>3, <2>1, <2>2
<1>6. \A s \in Site : Len(journal'[s]) <= Count(M, s, n + 1)
  <2>1. ASSUME NEW s \in Site PROVE Len(journal'[s]) <= Count(M, s, n + 1)
    BY <1>5
  <2> QED BY <2>1
<1>7. ASSUME NEW k \in 1 .. n + 1, Journaled(journal', <<CallSite(M, k), Count(M, CallSite(M, k), k)>>)
      PROVE  journal'[CallSite(M, k)][Count(M, CallSite(M, k), k)].input = CallBranch(journal', M, k)
  <2>1. PICK j : j = <<CallSite(M, k), Count(M, CallSite(M, k), k)>>
    OBVIOUS
  <2>2. j[1] = CallSite(M, k) /\ j[2] = Count(M, CallSite(M, k), k) /\ Journaled(journal', j)
    BY <1>7, <2>1
  <2>3. j \in Instance /\ j[1] \in Site /\ j[2] <= Len(journal'[j[1]])
    BY <2>2 DEF Journaled, Instance
  <2>4. k # n + 1
    <3> SUFFICES ASSUME k = n + 1 PROVE FALSE
      OBVIOUS
    <3>1. Count(M, j[1], n + 1) = Count(M, j[1], n) + 1
      BY <1>1, <2>2, CountNext
    <3>2. j[2] = Count(M, j[1], n + 1)
      BY <2>2
    <3>3. Len(journal'[j[1]]) <= Count(M, j[1], n) /\ Count(M, j[1], n) \in Nat /\ Len(journal'[j[1]]) \in Nat
      BY <1>5, <2>3
    <3> QED BY <2>3, <3>1, <3>2, <3>3
  <2>5. k \in 1 .. n /\ k \in 0 .. n
    BY <1>1, <2>4
  <2>6. j = <<CallSite(L, k), Count(L, CallSite(L, k), k)>>
    BY <1>2, <2>1, <2>5
  <2>7. Journaled(journal, j)
    BY <2>2, <2>3 DEF Journaled
  <2>8. journal[CallSite(L, k)][Count(L, CallSite(L, k), k)].input = CallBranch(journal, L, k)
    BY <2>5, <2>6, <2>7 DEF RowsAgree, n
  <2>9. BranchOf(j) = CallBranch(journal, L, k)
    BY <2>6, <2>8 DEF BranchOf, Row
  <2>10. BranchOf(j)' = CallBranch(journal', M, k)
    BY <1>2, <1>4, <2>5, <2>7, <2>9
  <2> QED BY <2>2, <2>10 DEF BranchOf, Row
<1>8. ASSUME NEW j, Finished(journal', j) PROVE j \in ToSet(M)
  BY <1>8 DEF RowsAgree
<1> QED BY <1>1, <1>6, <1>7, <1>8 DEF RowsAgree

LEMMA LiveSettlesFollows ==
  ASSUME TypeOK, Running, NEW i \in Live, LiveSettles(i), Faithful',
         NEW L, L = Canon, NEW h, NEW c, NEW t, Follows(L, h, c, t)
  PROVE  \E M : Canon' = M /\ Follows(M, h + 1, c, t)'
<1>1. /\ i \in Instance /\ Journaled(journal, i) /\ i[1] \in NodeSite /\ i[1] \in Site
      /\ i[2] <= ordinal[i[1]] /\ ~ Finished(journal, i) /\ Waits(i)
  BY LiveRows DEF Running, WaitingOK, Open
<1>2. PICK new \in Seq(Instance) : new = <<i>> /\ ToSet(new) = {i} /\ Len(new) = 1 /\ new[1] = i
  BY <1>1, One
<1>3. /\ journal' = Settled(i) /\ log' = log \o new /\ replies' = replies \o BranchesOf(new) /\ MayAnswer
      /\ CaughtUp
      /\ UNCHANGED <<torn, lives, outcome, ordinal, at, calls, order, cursor, parked, queue>>
  BY <1>2 DEF LiveSettles, Settle, gate, Faithful
<1>4. /\ journal' \in Table /\ Keeps(journal, journal') /\ Finished(journal', i)
      /\ \A s \in Site : Len(journal'[s]) = Len(journal[s])
      /\ \A j : Journaled(journal, j) /\ j # i => Row(j)' = Row(j)
      /\ \A j : Journaled(journal, j) => BranchOf(j)' = BranchOf(j)
  BY <1>3, AnswerIsWritten DEF Running
<1>5. h \in Nat /\ c \in Nat /\ t \in Nat /\ Position(L, h, c, t) /\ Streamed(L, h, c, t)
      /\ Numbered(L, t) /\ RowsAgree(journal, L) /\ Released(L, h)
  BY DEF Follows
<1>6. L \in Seq(Instance) /\ Len(L) \in Nat /\ ToSet(L) = ToSet(log)
      /\ \A j \in 1 .. Len(L) : Journaled(journal, L[j])
  BY OrderIsJournaled
<1>7. h = Len(L) /\ queue = <<>> /\ cursor = Len(order)
  BY <1>3, <1>5, AllHaveGoneOut
<1>8. PICK M : M = Append(L, i)
  OBVIOUS
<1>9. /\ M \in Seq(Instance) /\ Len(M) = Len(L) + 1 /\ ToSet(M) = ToSet(L) \cup {i}
      /\ \A j \in 1 .. Len(L) : M[j] = L[j]
      /\ M[Len(L) + 1] = i
  BY <1>1, <1>6, <1>8, OneMore
<1>10. Begins(L, M)
  BY <1>6, <1>9 DEF Begins
<1>11. Canon' = M
  <2>1. journal \in Table /\ log \in Seq(Instance) /\ \A j \in ToSet(log) : Finished(journal, j)
    BY Types DEF Running, LogOK
  <2>2. i \notin ToSet(log)
    BY <1>1, <2>1
  <2>3. SettleOrder(journal', log \o <<i>>) = Append(SettleOrder(journal, log), i)
    BY <1>1, <1>4, <2>1, <2>2, OrderGrowsByOne
  <2> QED BY <1>2, <1>3, <1>8, <2>3 DEF Canon
<1>12. /\ \A k \in 1 .. Total(L) : CallSite(M, k) = CallSite(L, k)
       /\ \A k \in 1 .. Total(L) : CallBranch(journal', M, k) = CallBranch(journal', L, k)
       /\ \A s : \A k \in 0 .. Total(L) : Count(M, s, k) = Count(L, s, k)
  BY <1>6, <1>9, <1>10, CallsOfLonger
<1>13. \A k \in 1 .. Total(L) : CallBranch(journal', L, k) = CallBranch(journal, L, k)
  BY <1>4, <1>6, CallsKept
<1>14. /\ t + Len(calls) <= Total(L) /\ Total(L) \in Nat /\ Len(calls) \in Nat /\ Len(replies) \in Nat
       /\ c <= h
  BY <1>5, <1>6, PositionBounds
<1>15. RowsAgree(journal', M)
  <2>1. ASSUME NEW j, Finished(journal', j), j # i PROVE Finished(journal, j)
    <3>1. Journaled(journal, j)
      BY <1>4, <2>1 DEF Finished, Journaled, Instance
    <3>2. Row(j)' = Row(j)
      BY <1>4, <2>1, <3>1
    <3> QED BY <2>1, <3>1, <3>2 DEF Finished, Row
  <2>2. \A j : Finished(journal', j) => j = i \/ Finished(journal, j)
    BY <2>1
  <2> QED BY <1>1, <1>4, <1>5, <1>6, <1>9, <1>10, <1>13, <2>2, RowsAgreeAfterAnswer
<1>16. Answered(new)
  BY <1>1, <1>2, <1>3, AnswersGoOut
<1>17. h + Len(new) = c + Len(replies') /\ RepliesFitThen(M, c)
  <2>1. h = c + Len(replies)
    BY <1>5 DEF Position
  <2>2. ASSUME NEW j \in 1 .. Len(replies)
        PROVE  replies[j] = BranchOf(M[c + j])' /\ at[replies[j]] = M[c + j][1]
    <3>1. replies[j] = BranchOf(L[c + j]) /\ at[replies[j]] = L[c + j][1]
      BY <1>5 DEF Streamed
    <3>2. c + j \in 1 .. Len(L)
      BY <1>5, <1>7, <1>14, <2>1
    <3>3. M[c + j] = L[c + j] /\ BranchOf(L[c + j])' = BranchOf(L[c + j])
      BY <1>4, <1>6, <1>9, <3>2
    <3> QED BY <3>1, <3>3
  <2>3. ASSUME NEW j \in 1 .. Len(new)
        PROVE  new[j] = M[h + j] /\ at[BranchOf(new[j])] = new[j][1] /\ BranchOf(new[j])' = BranchOf(new[j])
    <3>1. j = 1
      BY <1>2
    <3>2. new[j] = i /\ M[h + j] = i
      BY <1>2, <1>7, <1>9, <3>1
    <3> QED BY <1>1, <1>4, <3>2 DEF Waits
  <2>4. at' = at /\ h \in Nat /\ c \in Nat /\ M \in Seq(Instance)
    BY <1>3, <1>5, <1>9
  <2>5. RepliesFit(M, c) /\ AnswersFit(new, M, h)
    BY <2>2, <2>3 DEF RepliesFit, AnswersFit
  <2> QED BY <1>16, <2>1, <2>4, <2>5, RepliesGrow
<1>18. h + 1 \in Nat /\ h + 1 = c + Len(replies') /\ h + 1 = Len(M)
  BY <1>2, <1>5, <1>7, <1>9, <1>17
<1>19. Position(M, h + 1, c, t)'
  BY <1>3, <1>5, <1>7, <1>18 DEF Position
<1>20. Streamed(M, h + 1, c, t)'
  <2>1. \A j \in 1 .. Len(queue') : FALSE
    <3>1. Len(queue') = 0
      BY <1>3, <1>7
    <3> QED BY <3>1
  <2>2. ASSUME NEW j \in 1 .. Len(calls)
        PROVE  calls[j] = CallBranch(journal', M, t + j) /\ at[calls[j]] = CallSite(M, t + j)
    <3>1. calls[j] = CallBranch(journal, L, t + j) /\ at[calls[j]] = CallSite(L, t + j)
      BY <1>5 DEF Streamed
    <3>2. t + j \in 1 .. Total(L)
      BY <1>5, <1>14
    <3> QED BY <1>12, <1>13, <3>1, <3>2
  <2> QED BY <1>3, <1>17, <2>1, <2>2 DEF Streamed, RepliesFitThen
<1>21. Numbered(M, t)'
  <2>1. t \in 0 .. Total(L)
    BY <1>5, <1>14
  <2> QED BY <1>3, <1>5, <1>12, <2>1 DEF Numbered
<1>22. Released(M, h + 1)'
  <2> SUFFICES ASSUME NEW j \in 1 .. Len(M) PROVE M[j][2] <= ordinal'[M[j][1]]
    BY DEF Released
  <2>1. CASE j \in 1 .. Len(L)
    <3>1. M[j] = L[j] /\ j <= h
      BY <1>6, <1>7, <1>9, <2>1
    <3>2. L[j][2] <= ordinal[L[j][1]]
      BY <1>5, <2>1, <3>1 DEF Released
    <3> QED BY <1>3, <3>1, <3>2
  <2>2. CASE ~ (j \in 1 .. Len(L))
    <3>1. j = Len(L) + 1
      BY <1>6, <1>9, <2>2
    <3> QED BY <1>1, <1>3, <1>9, <3>1
  <2> QED BY <2>1, <2>2
<1>23. Follows(M, h + 1, c, t)'
  BY <1>5, <1>15, <1>18, <1>19, <1>20, <1>21, <1>22 DEF Follows
<1> QED BY <1>11, <1>23

-----------------------------------------------------------------------------
(* A life begins *)

\* At the beginning nothing of the order has gone out and nothing been read.
StartOf(L) ==
  /\ L = order /\ calls = Fresh /\ replies = <<>> /\ queue = <<>> /\ cursor = 0
  /\ ordinal = [s \in Site |-> 0] /\ at = [b \in Branch |-> 1] /\ RowsAgree(journal, L)

StartFollows == \A L \in Seq(Instance) : StartOf(L) => Follows(L, 0, 0, 0)

LEMMA StartsAtOnce == StartFollows
<1> SUFFICES ASSUME NEW L \in Seq(Instance), StartOf(L) PROVE Follows(L, 0, 0, 0)
  BY DEF StartFollows
<1>0. /\ L = order /\ calls = Fresh /\ replies = <<>> /\ queue = <<>> /\ cursor = 0
      /\ ordinal = [s \in Site |-> 0] /\ at = [b \in Branch |-> 1] /\ RowsAgree(journal, L)
  BY DEF StartOf
<1>1. Branches \in Nat /\ Len(<<>>) = 0
  BY ReplayOrderAssumption
<1>2. Len(Fresh) = Branches /\ \A k \in 1 .. Branches : Fresh[k] = k
  BY ScriptStarts
<1>3. Position(L, 0, 0, 0)
  BY <1>0, <1>1, <1>2 DEF Position
<1>4. Streamed(L, 0, 0, 0)
  <2>1. ASSUME NEW j \in 1 .. Branches PROVE calls[j] = CallBranch(journal, L, 0 + j) /\ at[calls[j]] = CallSite(L, 0 + j)
    <3>1. 0 + j = j /\ j <= Branches /\ j \in Branch
      BY <1>1 DEF Branch
    <3> QED BY <1>0, <1>2, <3>1 DEF CallBranch, CallSite
  <2>2. Len(queue) = 0 /\ Len(replies) = 0 /\ Len(calls) = Branches
    BY <1>0, <1>1, <1>2
  <2>3. \A j \in 1 .. Len(queue) : FALSE
    BY <2>2
  <2>4. \A j \in 1 .. Len(replies) : FALSE
    BY <2>2
  <2> QED BY <2>1, <2>2, <2>3, <2>4 DEF Streamed
<1>5. Numbered(L, 0)
  BY <1>0, CountOfNone DEF Numbered
<1>6. Released(L, 0)
  <2>1. Len(L) \in Nat
    BY Sequence
  <2>2. \A j \in 1 .. Len(L) : ~ (j <= 0)
    BY <2>1
  <2> QED BY <1>0, <2>2 DEF Released
<1> QED BY <1>0, <1>3, <1>4, <1>5, <1>6 DEF Follows
LEMMA NextStartsAtOnce == StartFollows'
BY StartsAtOnce, PTL

LEMMA InitAgrees == ASSUME Init PROVE Agrees
<1>1. PICK L : L = <<>> /\ L \in Seq(Instance) /\ ToSet(L) = {}
  BY ScriptStarts
<1>2. Canon = L
  BY <1>1, NothingFound DEF Init, Canon
<1>3. journal = [s \in Site |-> <<>>] /\ journal \in Table
  BY DEF Init, Table
<1>4. \A j : ~ Journaled(journal, j)
  <2> SUFFICES ASSUME NEW j, Journaled(journal, j) PROVE FALSE
    OBVIOUS
  <2>1. j[1] \in Site /\ j[2] \in Nat \ {0} /\ j[2] <= Len(journal[j[1]])
    BY DEF Journaled, Instance
  <2>2. Len(journal[j[1]]) = 0
    BY <1>3, <2>1
  <2> QED BY <2>1, <2>2
<1>5. RowsAgree(journal, L)
  <2>1. Total(L) \in Nat
    BY <1>1, ReplayOrderAssumption, Sequence DEF Total
  <2>2. ASSUME NEW s \in Site PROVE Len(journal[s]) <= Count(L, s, Total(L))
    <3>1. Len(journal[s]) = 0
      BY <1>3
    <3> QED BY <2>1, <3>1, CountIsNat
  <2> QED BY <1>4, <2>2 DEF RowsAgree, Finished
<1>6. Follows(L, 0, 0, 0)
  BY <1>1, <1>5, StartsAtOnce DEF Init, StartFollows, StartOf
<1> QED BY <1>2, <1>6 DEF Agrees

\* A life that ends in a crash leaves the order it followed to the next one.
LEMMA ResumeAgrees ==
  ASSUME Base, Agrees, "stop" \notin Endings, NEW ending \in Endings, Resume(ending)
  PROVE  Agrees'
<1>1. TypeOK /\ outcome = "running" /\ Running
  BY DEF Base, Resume
<1>2. CASE ending = "torn"
  <2>1. torn'
    BY <1>2 DEF Resume
  <2> QED BY <2>1 DEF Agrees, Faithful
<1>3. CASE ending = "crash" /\ ~ Faithful
  <2>1. ~ Faithful'
    BY <1>3 DEF Resume, Faithful
  <2> QED BY <2>1 DEF Agrees
<1>4. CASE ending = "crash" /\ Faithful
  <2>1. Resumed /\ journal' = journal
    BY <1>1, <1>4, LeftBehind
  <2>2. PICK L : L = Canon
    OBVIOUS
  <2>3. PICK h \in Nat, c \in Nat, t \in Nat : Follows(L, h, c, t)
    BY <1>1, <1>4, <2>2 DEF Agrees
  <2>4. Canon' = L /\ order' = L /\ L \in Seq(Instance)
    BY <1>1, <2>1, <2>2, OrderIsJournaled DEF Resumed, Canon
  <2>5. RowsAgree(journal', L)
    BY <2>1, <2>3 DEF Follows
  <2>6. /\ ordinal' = [s \in Site |-> 0] /\ at' = [b \in Branch |-> 1] /\ calls' = Fresh /\ replies' = <<>>
        /\ cursor' = 0 /\ queue' = <<>>
    BY DEF Resume
  <2>7. Follows(L, 0, 0, 0)'
    BY <2>4, <2>5, <2>6, NextStartsAtOnce DEF StartFollows, StartOf
  <2> QED BY <2>4, <2>7 DEF Agrees
<1> QED BY <1>2, <1>3, <1>4, ReplayOrderAssumption

LEMMA NextAgrees ==
  ASSUME "stop" \notin Endings, Base, Agrees, ReplayAgrees, [Next]_vars
  PROVE  Agrees' /\ ReplayAgrees'
<1>1. CASE \E ending \in Endings : Resume(ending)
  <2>1. Agrees'
    BY <1>1, ResumeAgrees
  <2>2. ReplayAgrees'
    BY <1>1 DEF Resume, ReplayAgrees
  <2> QED BY <2>1, <2>2
<1>2. CASE UNCHANGED vars
  <2>1. UNCHANGED <<journal, log, torn, overtaken, lives, outcome, ordinal, at, calls, replies, order, cursor, parked, queue>>
    BY <1>2 DEF vars, durable, script, gate
  <2>2. Canon' = Canon /\ \A j : BranchOf(j)' = BranchOf(j)
    BY <2>1 DEF Canon, BranchOf, Row
  <2>3. ASSUME NEW L, NEW h \in Nat, NEW c \in Nat, NEW t \in Nat, Follows(L, h, c, t) PROVE Follows(L, h, c, t)'
    BY <2>1, <2>2, <2>3 DEF Follows, Position, Streamed, Numbered, Released
  <2>4. Faithful' <=> Faithful
    BY <2>1 DEF Faithful
  <2>5. Agrees'
    BY <2>1, <2>2, <2>3, <2>4 DEF Agrees
  <2> QED BY <2>1, <2>5 DEF ReplayAgrees
<1>3. CASE Engine \/ Answers \/ Continue \/ Complete
  <2>1. outcome = "running" /\ torn' = torn /\ (overtaken => overtaken')
    <3>1. CASE Engine \/ Continue \/ Complete
      BY <1>3, <3>1 DEF Engine, Flush, Mismatch, Hold, PassThrough, GoLive, Report, Continue,
                        Complete, TakeCall, durable
    <3>2. CASE Answers
      <4>1. PICK i \in Live : LiveSettles(i)
        BY <3>2 DEF Answers
      <4>2. outcome = "running" /\ torn' = torn /\ overtaken' = (overtaken \/ ~CaughtUp)
        BY <4>1 DEF LiveSettles
      <4> QED BY <4>2
    <3> QED BY <1>3, <3>1, <3>2
  <2>2. CASE ~ Faithful'
    <3>1. Agrees'
      BY <2>2 DEF Agrees
    <3>2. torn' \/ overtaken'
      BY <2>2 DEF Faithful
    <3> QED BY <3>1, <3>2 DEF ReplayAgrees
  <2>3. CASE Faithful'
    <3>1. TypeOK /\ Running
      BY <2>1 DEF Base
    <3>2. PICK L : L = Canon
      OBVIOUS
    <3>3. PICK h \in Nat, c \in Nat, t \in Nat : Follows(L, h, c, t)
      BY <2>1, <2>3, <3>2 DEF Agrees, Faithful
    <3>4. ~ Mismatch /\ ~ PassThrough
      BY <3>1, <3>2, <3>3, NoMismatch, NoPassThrough
    <3>5. outcome' # "errored"
      BY <1>3, <2>1, <3>4 DEF Engine, Answers, Flush, Hold, GoLive, Report, LiveSettles, Continue, Complete
    <3>6. h + 1 \in Nat /\ c + 1 \in Nat /\ t + 1 \in Nat
      OBVIOUS
    <3>7. ASSUME Flush PROVE Agrees'
      BY <3>1, <3>2, <3>3, <3>7, FlushFollows DEF Agrees
    <3>8. ASSUME Hold PROVE Agrees'
      BY <3>1, <3>2, <3>3, <3>6, <3>8, HoldFollows DEF Agrees
    <3>9. ASSUME GoLive PROVE Agrees'
      BY <3>1, <3>2, <3>3, <3>6, <3>9, GoLiveFollows DEF Agrees
    <3>10. ASSUME Report PROVE Agrees'
      BY <3>1, <3>2, <3>3, <3>6, <3>10, ReportFollows DEF Agrees
    <3>11. ASSUME Answers PROVE Agrees'
      BY <3>1, <3>2, <3>3, <3>6, <2>3, <3>11, LiveSettlesFollows DEF Agrees, Answers
    <3>12. ASSUME Continue PROVE Agrees'
      BY <3>1, <3>2, <3>3, <3>6, <3>12, ContinueFollows DEF Agrees
    <3>13. ASSUME Complete PROVE Agrees'
      BY <3>13 DEF Agrees, Complete
    <3>14. Agrees'
      BY <1>3, <3>4, <3>7, <3>8, <3>9, <3>10, <3>11, <3>12, <3>13 DEF Engine
    <3> QED BY <3>5, <3>14 DEF ReplayAgrees
  <2> QED BY <2>2, <2>3
<1> QED BY <1>1, <1>2, <1>3 DEF Next

-----------------------------------------------------------------------------
(* Nobody is lost *)

\* A branch has reported, or something of it is under way.
NoneLost ==
  \A b \in Branch : \/ at[b] = ReportSite
                    \/ b \in ToSet(calls) \cup ToSet(replies)
                    \/ \E i \in Open : BranchOf(i) = b

\* The calls of a site that have been taken are those of the branches that
\* are past it or wait there.
Gone(s) == {b \in Branch : at[b] > s \/ (at[b] = s /\ b \notin ToSet(calls))}
CallsOK == \A s \in Site : ordinal[s] = Cardinality(Gone(s))

\* What the gate holds is ahead of the cursor, but not at its head, and
\* whatever is ahead and has been called is held.
Ahead == {order[j] : j \in cursor + 1 .. Len(order)}
GateStops ==
  /\ cursor < Len(order) => order[cursor + 1] \notin parked
  /\ parked \subseteq Ahead
  /\ \A i \in Ahead : i[2] <= ordinal[i[1]] => i \in parked

Moves == NoneLost /\ CallsOK /\ GateStops
Moving == outcome = "running" => Moves

LEMMA GoneIsFinite ==
  /\ \A s : IsFiniteSet(Gone(s)) /\ Cardinality(Gone(s)) <= Branches /\ Cardinality(Gone(s)) \in Nat
<1>1. Branches \in Nat /\ Branch = 1 .. Branches
  BY ReplayOrderAssumption DEF Branch
<1>2. IsFiniteSet(Branch) /\ Cardinality(Branch) = Branches
  <2>1. IsFiniteSet(1 .. Branches) /\ Cardinality(1 .. Branches) = Branches - 1 + 1
    BY <1>1, FS_Interval
  <2> QED BY <1>1, <2>1
<1>3. \A s : Gone(s) \subseteq Branch
  BY DEF Gone
<1> QED BY <1>2, <1>3, FS_Subset, FS_CardinalityType
LEMMA GoneIsFiniteThen == (\A s : IsFiniteSet(Gone(s)) /\ Cardinality(Gone(s)) <= Branches /\ Cardinality(Gone(s)) \in Nat)'
BY GoneIsFinite, PTL

LEMMA CallIsCounted ==
  ASSUME TypeOK, CallsOK, NEW b, NEW i, Takes(b, i), at' = at
  PROVE  CallsOK' /\ i[2] \in Branch
<1>1. /\ b \in Branch /\ i[1] = at[b] /\ i[1] \in Site /\ b \in ToSet(calls) /\ ToSet(calls') = ToSet(calls) \ {b}
      /\ i[2] = ordinal[i[1]] + 1 /\ ordinal'[i[1]] = i[2]
      /\ \A s \in Site : s # i[1] => ordinal'[s] = ordinal[s]
      /\ i[2] \in Nat \ {0}
  BY DEF Takes, Instance
<1>3. b \notin Gone(i[1]) /\ Gone(i[1])' = Gone(i[1]) \cup {b}
  <2>1. ~ (at[b] > at[b])
    <3>1. at[b] \in Nat
      BY <1>1, Types, Sites
    <3>2. PICK n \in Nat : n = at[b]
      BY <3>1
    <3>3. ~ (n > n)
      OBVIOUS
    <3> QED BY <3>2, <3>3
  <2>2. b \notin Gone(i[1]) /\ b \in Gone(i[1])'
    BY <1>1, <2>1 DEF Gone
  <2>3. \A a \in Branch : a # b => (a \in Gone(i[1])' <=> a \in Gone(i[1]))
    BY <1>1 DEF Gone
  <2>4. Gone(i[1]) \subseteq Branch /\ Gone(i[1])' \subseteq Branch
    BY DEF Gone
  <2> QED BY <1>1, <2>2, <2>3, <2>4
<1>4. \A s \in Site : s # i[1] => Gone(s)' = Gone(s)
  BY <1>1 DEF Gone
<1>5. PICK G, H : G = Gone(i[1]) /\ H = Gone(i[1])'
  OBVIOUS
<1>6. /\ IsFiniteSet(G) /\ Cardinality(G) \in Nat /\ Cardinality(H) <= Branches
      /\ Cardinality(H) = Cardinality(G) + 1
  <2>1. IsFiniteSet(G) /\ Cardinality(G) \in Nat
    BY <1>5, GoneIsFinite
  <2>2. Cardinality(H) <= Branches
    BY <1>5, GoneIsFiniteThen
  <2>3. H = G \cup {b} /\ b \notin G
    BY <1>3, <1>5
  <2> QED BY <2>1, <2>2, <2>3, FS_AddElement
<1>7. ordinal[i[1]] = Cardinality(G)
  BY <1>1, <1>5 DEF CallsOK
<1>8. ordinal'[i[1]] = Cardinality(H) /\ i[2] <= Branches
  BY <1>1, <1>6, <1>7
<1>9. CallsOK'
  <2> SUFFICES ASSUME NEW s \in Site PROVE ordinal'[s] = Cardinality(Gone(s)')
    BY DEF CallsOK
  <2>1. CASE s = i[1]
    BY <1>5, <1>8, <2>1
  <2>2. CASE s # i[1]
    BY <1>1, <1>4, <2>2 DEF CallsOK
  <2> QED BY <2>1, <2>2
<1>10. i[2] \in Branch
  BY <1>1, <1>8, ReplayOrderAssumption DEF Branch
<1> QED BY <1>9, <1>10

LEMMA CallIsCountedLater ==
  ASSUME TypeOK, CallsOK, NEW b, Continues(b), ordinal' = ordinal
  PROVE  CallsOK'
<1>1. /\ b \in Branch /\ b \notin ToSet(calls) /\ ToSet(calls') = ToSet(calls) \cup {b}
      /\ at'[b] = at[b] + 1 /\ \A a \in Branch : a # b => at'[a] = at[a]
  BY DEF Continues
<1>2. at[b] \in Nat
  BY <1>1, Types, Sites
<1>3. ASSUME NEW s \in Site PROVE Gone(s)' = Gone(s)
  <2>1. s \in Nat
    BY Sites
  <2>2. at'[b] > s <=> at[b] > s \/ at[b] = s
    BY <1>1, <1>2, <2>1
  <2>3. b \in Gone(s)' <=> b \in Gone(s)
    BY <1>1, <2>2 DEF Gone
  <2>4. \A a \in Branch : a # b => (a \in Gone(s)' <=> a \in Gone(s))
    BY <1>1 DEF Gone
  <2>5. Gone(s) \subseteq Branch /\ Gone(s)' \subseteq Branch
    BY DEF Gone
  <2> QED BY <2>3, <2>4, <2>5
<1> QED BY <1>3 DEF CallsOK

\* Who leaves a stream or ceases to be open is elsewhere.
LEMMA NobodyIsLost ==
  ASSUME TypeOK, NoneLost,
         \A b \in Branch : at'[b] = at[b] \/ b \in ToSet(calls') \cup ToSet(replies'),
         \A b \in ToSet(calls) \cup ToSet(replies) :
            \/ b \in ToSet(calls') \cup ToSet(replies') \/ at'[b] = ReportSite
            \/ \E i \in Open' : BranchOf(i)' = b,
         \A i \in Open : \/ BranchOf(i) \in ToSet(calls') \cup ToSet(replies')
                         \/ i \in Open' /\ BranchOf(i)' = BranchOf(i)
  PROVE  NoneLost'
<1> SUFFICES ASSUME NEW b \in Branch
             PROVE  \/ at'[b] = ReportSite \/ b \in ToSet(calls') \cup ToSet(replies')
                    \/ \E i \in Open' : BranchOf(i)' = b
  BY DEF NoneLost
<1>1. CASE at[b] = ReportSite
  BY <1>1
<1>2. CASE b \in ToSet(calls) \cup ToSet(replies)
  BY <1>2
<1>3. CASE \E i \in Open : BranchOf(i) = b
  BY <1>3
<1> QED BY <1>1, <1>2, <1>3 DEF NoneLost

\* A call that is taken leaves what is open.
LEMMA OthersStayOpen ==
  ASSUME TypeOK, Running, NEW b, NEW i, Takes(b, i), RowsAfterCall(b, i),
         parked \cup ToSet(queue) \subseteq parked' \cup ToSet(queue')
  PROVE  \A j \in Open : j \in Open' /\ BranchOf(j)' = BranchOf(j)
<1> SUFFICES ASSUME NEW j \in Open PROVE j \in Open' /\ BranchOf(j)' = BranchOf(j)
  OBVIOUS
<1>1. \A s \in Site : ordinal[s] <= ordinal'[s]
  BY DEF Takes
<1>2. Journaled(journal, j)
  BY DEF Running, WaitingOK, Waits
<1>3. Row(j)' = Row(j)
  BY <1>2 DEF RowsAfterCall
<1>4. CASE j \in Live
  <2>1. j[1] \in Site /\ j[2] \in Nat /\ ordinal[j[1]] \in Nat
    BY <1>2, Types DEF Journaled, Instance
  <2>2. ordinal'[j[1]] \in Nat /\ ordinal[j[1]] <= ordinal'[j[1]]
    BY <1>1, <2>1 DEF Takes
  <2>3. j \in NodeSite \X Branch /\ j[2] <= ordinal[j[1]] /\ Row(j).status = "running"
    BY <1>4 DEF Live
  <2>4. j[2] <= ordinal'[j[1]]
    BY <2>1, <2>2, <2>3
  <2>5. j \in Live'
    BY <1>3, <2>3, <2>4 DEF Live
  <2> QED BY <1>3, <2>5 DEF Open, BranchOf
<1>5. CASE j \in parked \cup ToSet(queue)
  BY <1>3, <1>5 DEF Open, BranchOf
<1> QED BY <1>4, <1>5 DEF Open

\* A call that is taken is answered, or its node is open, or it is a report.
LEMMA CallerIsNotLost ==
  ASSUME TypeOK, Running, NoneLost, NEW b, NEW i, Takes(b, i), at' = at,
         RowsAfterCall(b, i), ToSet(replies) \subseteq ToSet(replies'),
         parked \cup ToSet(queue) \subseteq parked' \cup ToSet(queue'),
         b \in ToSet(replies') \/ i \in Open' \/ i[1] = ReportSite
  PROVE  NoneLost'
<1>1. b \in ToSet(calls) /\ ToSet(calls') = ToSet(calls) \ {b} /\ i[1] = at[b]
  BY DEF Takes
<1>2. BranchOf(i)' = b
  BY DEF RowsAfterCall
<1>3. \A j \in Open : j \in Open' /\ BranchOf(j)' = BranchOf(j)
  BY OthersStayOpen
<1>4. ASSUME NEW a \in ToSet(calls) \cup ToSet(replies)
      PROVE  \/ a \in ToSet(calls') \cup ToSet(replies') \/ at'[a] = ReportSite
             \/ \E j \in Open' : BranchOf(j)' = a
  <2>1. CASE a = b
    BY <1>1, <1>2, <2>1
  <2>2. CASE a # b
    BY <1>1, <2>2
  <2> QED BY <2>1, <2>2
<1>5. \A a \in Branch : at'[a] = at[a]
  OBVIOUS
<1> QED BY <1>3, <1>4, <1>5, NobodyIsLost

-----------------------------------------------------------------------------
(* The gate stops where it must *)

LEMMA AheadIsInstances ==
  ASSUME order \in Seq(Instance), cursor \in Nat PROVE Ahead \subseteq Instance
<1> SUFFICES ASSUME NEW j \in cursor + 1 .. Len(order) PROVE order[j] \in Instance
  BY DEF Ahead
<1>1. j \in 1 .. Len(order)
  BY Sequence
<1> QED BY <1>1, Sequence

\* A call that does not arrive at the gate is none of those ahead.
LEMMA GateIsAsBefore ==
  ASSUME TypeOK, GateStops, NEW b, NEW i, Takes(b, i), i \notin Ahead,
         UNCHANGED <<order, cursor, parked>>
  PROVE  GateStops'
<1>1. Ahead' = Ahead
  BY DEF Ahead
<1>2. Ahead \subseteq Instance
  BY Types, AheadIsInstances
<1>3. ASSUME NEW j \in Ahead, j[2] <= ordinal'[j[1]] PROVE j \in parked
  <2>1. j[1] \in Site /\ j[2] \in Nat /\ j = <<j[1], j[2]>> /\ ordinal[j[1]] \in Nat
    BY <1>2, Types DEF Instance
  <2>2. i[1] \in Site /\ i[2] \in Nat /\ i = <<i[1], i[2]>> /\ i # j
    BY DEF Takes, Instance
  <2>3. j[2] <= ordinal[j[1]]
    <3>1. CASE j[1] = i[1]
      <4>1. j[2] # i[2] /\ i[2] = ordinal[j[1]] + 1 /\ ordinal'[j[1]] = i[2]
        BY <2>1, <2>2, <3>1 DEF Takes
      <4> QED BY <1>3, <2>1, <2>2, <4>1
    <3>2. CASE j[1] # i[1]
      BY <1>3, <2>1, <3>2 DEF Takes
    <3> QED BY <3>1, <3>2
  <2> QED BY <2>3 DEF GateStops
<1> QED BY <1>1, <1>3 DEF GateStops

\* The call arrives, and the gate releases as much as it can.
LEMMA GateStopsAgain ==
  ASSUME TypeOK, IsInjective(order), GateStops, NEW b, NEW i, Takes(b, i), Hold
  PROVE  GateStops'
<1> DEFINE arrived == parked \cup {i}
           to == PumpedTo(arrived)
           passed == {order[k] : k \in cursor + 1 .. to}
<1>1. i = Called
  BY DEF Takes
<1>2. order' = order /\ cursor' = to /\ parked' = arrived \ passed /\ i \in Ahead
  <2>1. order' = order /\ cursor' = to /\ parked' = arrived \ passed /\ Held(i)
    BY <1>1 DEF Hold
  <2>2. PICK k \in DOMAIN order : k > cursor /\ order[k] = i
    BY <2>1 DEF Held
  <2>3. k \in cursor + 1 .. Len(order)
    BY <2>2, Types, Sequence
  <2> QED BY <2>1, <2>2, <2>3 DEF Ahead
<1>3. /\ to \in cursor .. Len(order)
      /\ to < Len(order) => order[to + 1] \notin arrived
  BY PumpStops
<1>4. Len(order) \in Nat /\ cursor \in Nat /\ order \in Seq(Instance)
  BY Types
<1> HIDE DEF to
<1>5. \A k \in cursor + 1 .. Len(order) : k \in cursor + 1 .. to \/ k \in to + 1 .. Len(order)
  BY <1>3, <1>4
<1>6. \A k \in to + 1 .. Len(order) : k \in cursor + 1 .. Len(order) /\ k \in 1 .. Len(order)
                                      /\ k \notin cursor + 1 .. to
  BY <1>3, <1>4
<1>7. \A k \in cursor + 1 .. to : k \in 1 .. Len(order)
  BY <1>3, <1>4
<1>8. \A k, l \in 1 .. Len(order) : order[k] = order[l] => k = l
  BY <1>4, Elements
<1>9. Ahead' = {order[k] : k \in to + 1 .. Len(order)}
  BY <1>2 DEF Ahead
<1>10. Ahead' \subseteq Ahead
  BY <1>6, <1>9 DEF Ahead
<1>11. Ahead' \cap passed = {}
  BY <1>6, <1>7, <1>8, <1>9
<1>12. \A j \in Ahead : j \in passed \/ j \in Ahead'
  BY <1>5, <1>9 DEF Ahead
<1> HIDE DEF passed
<1>13. cursor' < Len(order') => order'[cursor' + 1] \notin parked'
  BY <1>2, <1>3
<1>14. parked' \subseteq Ahead'
  BY <1>2, <1>12 DEF GateStops
<1>15. ASSUME NEW j \in Ahead', j[2] <= ordinal'[j[1]] PROVE j \in parked'
  <2>1. CASE j = i
    BY <1>2, <1>11, <2>1
  <2>2. CASE j # i
    <3>1. j \in Ahead /\ j \in Instance
      BY <1>4, <1>10, AheadIsInstances
    <3>2. j[1] \in Site /\ j[2] \in Nat /\ j = <<j[1], j[2]>> /\ ordinal[j[1]] \in Nat
      BY <3>1, Types DEF Instance
    <3>3. i[1] \in Site /\ i[2] \in Nat /\ i = <<i[1], i[2]>>
      BY DEF Takes, Instance
    <3>4. j[2] <= ordinal[j[1]]
      <4>1. CASE j[1] = i[1]
        <5>1. j[2] # i[2] /\ i[2] = ordinal[j[1]] + 1 /\ ordinal'[j[1]] = i[2]
          BY <2>2, <3>2, <3>3, <4>1 DEF Takes
        <5> QED BY <1>15, <3>2, <3>3, <5>1
      <4>2. CASE j[1] # i[1]
        BY <1>15, <3>2, <4>2 DEF Takes
      <4> QED BY <4>1, <4>2
    <3>5. j \in parked
      BY <3>1, <3>4 DEF GateStops
    <3> QED BY <1>2, <1>11, <3>5
  <2> QED BY <2>1, <2>2
<1> QED BY <1>13, <1>14, <1>15 DEF GateStops

-----------------------------------------------------------------------------
(* A life begins *)

LEMMA FreshCallsAll == ToSet(Fresh) = Branch
<1>1. Fresh \in Seq(Branch) /\ Len(Fresh) = Branches /\ \A k \in 1 .. Branches : Fresh[k] = k
  BY ScriptStarts
<1>2. Branch = 1 .. Branches
  BY DEF Branch
<1> QED BY <1>1, <1>2, Elements

\* Everybody has called the first site and no call has been taken.
Starting ==
  /\ ordinal = [s \in Site |-> 0] /\ at = [b \in Branch |-> 1] /\ calls = Fresh
  /\ order \in Seq(Instance) /\ parked = {} /\ cursor = 0
StartsMoving == Starting => Moves

LEMMA StartMoves == StartsMoving
<1> SUFFICES ASSUME Starting PROVE Moves
  BY DEF StartsMoving
<1>1. /\ ordinal = [s \in Site |-> 0] /\ at = [b \in Branch |-> 1] /\ calls = Fresh
      /\ order \in Seq(Instance) /\ parked = {} /\ cursor = 0
  BY DEF Starting
<1>2. ToSet(calls) = Branch
  BY <1>1, FreshCallsAll
<1>3. NoneLost
  BY <1>2 DEF NoneLost
<1>4. CallsOK
  <2> SUFFICES ASSUME NEW s \in Site PROVE ordinal[s] = Cardinality(Gone(s))
    BY DEF CallsOK
  <2>1. s \in Nat \ {0}
    BY Sites
  <2>2. ~ (1 > s)
    BY <2>1
  <2>3. Gone(s) = {}
    BY <1>1, <1>2, <2>2 DEF Gone
  <2> QED BY <1>1, <2>3, FS_EmptySet
<1>5. GateStops
  <2>1. ASSUME NEW i \in Ahead PROVE ~ (i[2] <= ordinal[i[1]])
    <3>1. i \in Instance
      BY <1>1, AheadIsInstances
    <3>2. i[1] \in Site /\ i[2] \in Nat \ {0}
      BY <3>1 DEF Instance
    <3>3. ordinal[i[1]] = 0
      BY <1>1, <3>2
    <3> QED BY <3>2, <3>3
  <2> QED BY <1>1, <2>1 DEF GateStops
<1> QED BY <1>3, <1>4, <1>5 DEF Moves
LEMMA NextStartMoves == StartsMoving'
BY StartMoves, PTL

-----------------------------------------------------------------------------
(* The steps *)

LEMMA InitMoves == ASSUME Init PROVE Moves
<1>1. /\ ordinal = [s \in Site |-> 0] /\ at = [b \in Branch |-> 1] /\ calls = Fresh
      /\ order = <<>> /\ parked = {} /\ cursor = 0
  BY DEF Init
<1> QED BY <1>1, ScriptStarts, StartMoves DEF Starting, StartsMoving

LEMMA HoldMovesOn == ASSUME Base, Moves, Hold PROVE Moves'
<1>1. TypeOK /\ Running /\ TakeCall /\ Replays /\ Claimable(Called)
      /\ UNCHANGED <<journal, at, replies, order>>
  BY DEF Base, Hold, TakeCall, durable
<1>2. PICK b \in Branch, i \in Instance : Takes(b, i)
  BY <1>1, CallIsTaken DEF Running
<1>3. i = Called /\ i \notin Open
  <2>1. Finished(journal, i) /\ BranchOf(i) = b
    BY <1>1, <1>2, CachedIsFinished
  <2> QED BY <1>1, <1>2, <2>1, OthersWait DEF Running, Takes
<1>4. PICK to : HoldMoves(i, to)
  BY <1>1, <1>3, HoldsInGate DEF Running, LogOK, Open
<1>5. RowsAfterCall(b, i)
  BY <1>1, <1>2, RowStays
<1>6. i \in Open' /\ parked \cup ToSet(queue) \subseteq parked' \cup ToSet(queue')
  BY <1>4 DEF HoldMoves, Open
<1>7. NoneLost'
  BY <1>1, <1>2, <1>5, <1>6, CallerIsNotLost DEF Moves
<1>8. CallsOK'
  BY <1>1, <1>2, CallIsCounted DEF Moves
<1>9. GateStops'
  BY <1>1, <1>2, GateStopsAgain DEF Moves, Running, LogOK
<1> QED BY <1>7, <1>8, <1>9 DEF Moves

LEMMA PassThroughMovesOn == ASSUME Base, Moves, PassThrough PROVE Moves'
<1>1. /\ TypeOK /\ Running /\ TakeCall /\ Replays /\ Claimable(Called) /\ ~ Held(Called)
      /\ UNCHANGED <<journal, at, order, cursor, parked, queue>>
      /\ replies' = replies \o BranchesOf(<<Called>>)
  BY DEF Base, PassThrough, TakeCall, Settle, gate
<1>2. PICK b \in Branch, i \in Instance : Takes(b, i)
  BY <1>1, CallIsTaken DEF Running
<1>3. i = Called /\ Finished(journal, i) /\ Journaled(journal, i) /\ BranchOf(i) = b
  BY <1>1, <1>2, CachedIsFinished DEF Takes
<1>4. PICK new \in Seq(Instance) : new = <<i>> /\ ToSet(new) = {i}
  BY One
<1>5. Answered(new)
  BY <1>1, <1>3, <1>4, AnswersGoOut
<1>6. ToSet(replies') = ToSet(replies) \cup {b}
  BY <1>3, <1>4, <1>5 DEF Answered
<1>7. RowsAfterCall(b, i)
  BY <1>1, <1>2, RowStays
<1>8. NoneLost'
  BY <1>1, <1>2, <1>6, <1>7, CallerIsNotLost DEF Moves
<1>9. i \notin Ahead
  <2> SUFFICES ASSUME NEW j \in cursor + 1 .. Len(order), i = order[j] PROVE FALSE
    BY DEF Ahead
  <2>1. j \in DOMAIN order /\ j > cursor
    BY <1>1, Types, Sequence
  <2> QED BY <1>1, <1>3, <2>1 DEF Held
<1> QED BY <1>1, <1>2, <1>8, <1>9, CallIsCounted, GateIsAsBefore DEF Moves

LEMMA AheadIsFinished ==
  ASSUME TypeOK, Running PROVE \A i \in Ahead : Finished(journal, i)
<1> SUFFICES ASSUME NEW j \in cursor + 1 .. Len(order) PROVE Finished(journal, order[j])
  BY DEF Ahead
<1>1. j \in 1 .. Len(order) /\ order \in Seq(Instance)
  BY Types
<1>2. order[j] \in ToSet(order)
  BY <1>1, Elements
<1> QED BY <1>2 DEF Running, LogOK

LEMMA CallGoesLive ==
  ASSUME GoLive, NEW b, NEW i, Takes(b, i), i[2] \in Branch, Row(i)'.status = "running"
  PROVE  i \in Open'
<1>1. i[1] \in NodeSite /\ i = <<i[1], i[2]>> /\ ordinal'[i[1]] = i[2] /\ i[2] \in Nat
  <2>1. i = Called /\ i \in Instance /\ ordinal'[i[1]] = i[2]
    BY DEF Takes
  <2>2. i[1] \in Site /\ i[1] # ReportSite /\ i = <<i[1], i[2]>> /\ i[2] \in Nat
    BY <2>1 DEF GoLive, Instance
  <2> QED BY <2>1, <2>2, Sites
<1>2. i \in NodeSite \X Branch /\ i[2] <= ordinal'[i[1]]
  BY <1>1
<1> QED BY <1>2 DEF Open, Live

LEMMA GoLiveMovesOn == ASSUME Base, Moves, GoLive PROVE Moves'
<1>1. TypeOK /\ Running /\ TakeCall /\ UNCHANGED <<at, replies, order, cursor, parked, queue>>
  BY DEF Base, GoLive, TakeCall, gate
<1>2. PICK b \in Branch, i \in Instance : Takes(b, i)
  BY <1>1, CallIsTaken DEF Running
<1>3. RowsAfterCall(b, i) /\ Row(i)'.status = "running"
  BY <1>1, <1>2, GoLiveRows DEF Running
<1>4. CallsOK' /\ i[2] \in Branch
  BY <1>1, <1>2, CallIsCounted DEF Moves
<1>5. i \in Open'
  BY <1>2, <1>3, <1>4, CallGoesLive
<1>6. NoneLost'
  BY <1>1, <1>2, <1>3, <1>5, CallerIsNotLost DEF Moves
<1>7. i \notin Ahead
  <2> SUFFICES ASSUME Finished(journal, i) PROVE FALSE
    BY <1>1, AheadIsFinished
  <2> QED BY <1>3 DEF Finished, RowsAfterCall, Row
<1> QED BY <1>1, <1>2, <1>4, <1>6, <1>7, GateIsAsBefore DEF Moves

LEMMA ReportMovesOn == ASSUME Base, Moves, Report PROVE Moves'
<1>1. TypeOK /\ Running /\ TakeCall /\ UNCHANGED <<at, replies, order, cursor, parked, queue>>
  BY DEF Base, Report, TakeCall, gate
<1>2. PICK b \in Branch, i \in Instance : Takes(b, i)
  BY <1>1, CallIsTaken DEF Running
<1>3. RowsAfterCall(b, i) /\ i[1] = ReportSite
  BY <1>1, <1>2, ReportRows DEF Running
<1>4. NoneLost'
  BY <1>1, <1>2, <1>3, CallerIsNotLost DEF Moves
<1>5. i \notin Ahead
  BY <1>1, <1>3, AheadIsFinished, Sites DEF Finished
<1> QED BY <1>1, <1>2, <1>4, <1>5, CallIsCounted, GateIsAsBefore DEF Moves

LEMMA FlushMovesOn == ASSUME Base, Moves, Flush PROVE Moves'
<1>1. TypeOK /\ Running
  BY DEF Base, Flush
<1>2. /\ replies' = replies \o BranchesOf(queue) /\ queue' = <<>>
      /\ UNCHANGED <<journal, ordinal, at, calls, order, cursor, parked>>
  BY DEF Flush, Settle
<1>3. queue \in Seq(Instance) /\ \A i \in ToSet(queue) : Finished(journal, i)
  BY <1>1, Types DEF Running, GateOK
<1>4. Answered(queue)
  BY <1>1, <1>2, <1>3, AnswersGoOut DEF Finished
<1>5. Live' = Live /\ \A i : BranchOf(i)' = BranchOf(i)
  BY <1>2 DEF Live, Row, BranchOf
<1>6. NoneLost'
  <2>1. \A i \in Open : \/ BranchOf(i) \in ToSet(calls') \cup ToSet(replies')
                        \/ i \in Open' /\ BranchOf(i)' = BranchOf(i)
    BY <1>2, <1>4, <1>5 DEF Open, Answered
  <2>2. ToSet(calls) \cup ToSet(replies) \subseteq ToSet(calls') \cup ToSet(replies')
    BY <1>2, <1>4 DEF Answered
  <2> QED BY <1>1, <1>2, <2>1, <2>2, NobodyIsLost DEF Moves
<1> QED BY <1>2, <1>6 DEF Moves, CallsOK, Gone, GateStops, Ahead

LEMMA LiveSettlesMovesOn == ASSUME Base, Moves, NEW i \in Live, LiveSettles(i) PROVE Moves'
<1>1. TypeOK /\ Running
  BY DEF Base, LiveSettles
<1>2. i \in Instance /\ Journaled(journal, i)
  BY <1>1, LiveRows DEF Running
<1>3. PICK new \in Seq(Instance) : new = <<i>> /\ ToSet(new) = {i}
  BY <1>2, One
<1>4. /\ journal' = Settled(i) /\ replies' = replies \o BranchesOf(new)
      /\ UNCHANGED <<ordinal, at, calls, order, cursor, parked, queue>>
  BY <1>3 DEF LiveSettles, Settle, gate
<1>5. /\ \A j : Journaled(journal, j) /\ j # i => Row(j)' = Row(j)
      /\ \A j : Journaled(journal, j) => BranchOf(j)' = BranchOf(j)
  BY <1>1, <1>4, AnswerIsWritten DEF Running
<1>6. Answered(new)
  BY <1>1, <1>2, <1>3, <1>4, AnswersGoOut
<1>7. NoneLost'
  <2>1. ASSUME NEW j \in Open
        PROVE  \/ BranchOf(j) \in ToSet(calls') \cup ToSet(replies')
               \/ j \in Open' /\ BranchOf(j)' = BranchOf(j)
    <3>1. Journaled(journal, j)
      BY <1>1 DEF Running, WaitingOK, Waits
    <3>2. CASE j = i
      BY <1>3, <1>6, <3>2 DEF Answered
    <3>3. CASE j # i
      <4>1. Row(j)' = Row(j) /\ BranchOf(j)' = BranchOf(j)
        BY <1>5, <3>1, <3>3
      <4>2. j \in Live => j \in Live'
        BY <1>4, <4>1 DEF Live
      <4> QED BY <1>4, <4>1, <4>2 DEF Open
    <3> QED BY <3>2, <3>3
  <2>2. ToSet(calls) \cup ToSet(replies) \subseteq ToSet(calls') \cup ToSet(replies')
    BY <1>4, <1>6 DEF Answered
  <2> QED BY <1>1, <1>4, <2>1, <2>2, NobodyIsLost DEF Moves
<1> QED BY <1>4, <1>7 DEF Moves, CallsOK, Gone, GateStops, Ahead

LEMMA ContinueMovesOn == ASSUME Base, Moves, Continue PROVE Moves'
<1>1. TypeOK /\ Running
  BY DEF Base, Continue
<1>2. PICK b : Continues(b)
  BY <1>1, BranchContinues DEF Running
<1>3. UNCHANGED <<journal, ordinal, order, cursor, parked, queue>>
  BY DEF Continue, durable, gate
<1>4. Open' = Open /\ \A i : BranchOf(i)' = BranchOf(i)
  BY <1>3 DEF Open, Live, Row, BranchOf
<1>5. /\ ToSet(calls) \cup ToSet(replies) \subseteq ToSet(calls') \cup ToSet(replies')
      /\ \A a \in Branch : at'[a] = at[a] \/ a \in ToSet(calls')
  BY <1>2 DEF Continues
<1>6. NoneLost'
  BY <1>1, <1>4, <1>5, NobodyIsLost DEF Moves
<1>7. CallsOK'
  BY <1>1, <1>2, <1>3, CallIsCountedLater DEF Moves
<1> QED BY <1>3, <1>6, <1>7 DEF Moves, GateStops, Ahead

LEMMA ResumeMoves ==
  ASSUME Base, "stop" \notin Endings, NEW ending \in Endings, Resume(ending)
  PROVE  Moves'
<1>1. /\ ordinal' = [s \in Site |-> 0] /\ at' = [b \in Branch |-> 1] /\ calls' = Fresh
      /\ parked' = {} /\ cursor' = 0
  BY DEF Resume
<1>2. order' \in Seq(Instance)
  BY ResumeKeepsBase DEF Base, TypeOK
<1> QED BY <1>1, <1>2, NextStartMoves DEF Starting, StartsMoving

LEMMA NextMoves ==
  ASSUME Base, Moving, "stop" \notin Endings, [Next]_vars PROVE Moving'
<1>1. CASE \E ending \in Endings : Resume(ending)
  BY <1>1, ResumeMoves DEF Moving
<1>2. CASE UNCHANGED vars
  <2>1. UNCHANGED <<journal, outcome, ordinal, at, calls, replies, order, cursor, parked, queue>>
    BY <1>2 DEF vars, durable, script, gate
  <2>2. Open' = Open /\ \A i : BranchOf(i)' = BranchOf(i)
    BY <2>1 DEF Open, Live, Row, BranchOf
  <2> QED BY <2>1, <2>2 DEF Moving, Moves, NoneLost, CallsOK, Gone, GateStops, Ahead
<1>3. CASE Engine \/ Answers \/ Continue \/ Complete
  <2>1. outcome = "running"
    BY <1>3 DEF Engine, Answers, Flush, Mismatch, Hold, PassThrough, GoLive, Report, LiveSettles, Continue,
                Complete, TakeCall
  <2>2. Moves
    BY <2>1 DEF Moving
  <2>3. ASSUME Mismatch \/ Complete PROVE outcome' # "running"
    BY <2>3 DEF Mismatch, Complete
  <2>4. ASSUME Flush \/ Hold \/ PassThrough \/ GoLive \/ Report \/ Continue PROVE Moves'
    BY <2>2, <2>4, FlushMovesOn, HoldMovesOn, PassThroughMovesOn, GoLiveMovesOn, ReportMovesOn, ContinueMovesOn
  <2>5. ASSUME Answers PROVE Moves'
    BY <2>2, <2>5, LiveSettlesMovesOn DEF Answers
  <2> QED BY <1>3, <2>3, <2>4, <2>5 DEF Engine, Moving
<1> QED BY <1>1, <1>2, <1>3 DEF Next

-----------------------------------------------------------------------------
(* Who has passed a site and what has been answered there *)

\* The branches that have been given the answer of a site, and the nodes of it
\* that have been called and are no longer open.
Passed(s) == {b \in Branch : at[b] > s \/ (at[b] = s /\ b \in ToSet(replies))}
CalledAt(s) == {i \in Instance : i[1] = s /\ i[2] <= ordinal[s]}
OpenAt(s) == {i \in Open : i[1] = s}
AnsweredAt(s) == CalledAt(s) \ OpenAt(s)

LEMMA Parts ==
  ASSUME NEW S, NEW T, IsFiniteSet(S), IsFiniteSet(T), S \cap T = {}
  PROVE  Cardinality(S \cup T) = Cardinality(S) + Cardinality(T)
<1>1. Cardinality(S) \in Nat /\ Cardinality(T) \in Nat
  BY FS_CardinalityType
<1>2. Cardinality(S \cup T) = Cardinality(S) + Cardinality(T) - Cardinality(S \cap T)
  BY FS_Union
<1>3. Cardinality(S \cap T) = 0
  BY FS_EmptySet
<1> QED BY <1>1, <1>2, <1>3

\* As many nodes of a site have been called as its counter says.
LEMMA CalledAtIsCounted ==
  ASSUME TypeOK, NEW s \in Site
  PROVE  IsFiniteSet(CalledAt(s)) /\ Cardinality(CalledAt(s)) = ordinal[s]
<1>1. PICK n \in Nat : n = ordinal[s]
  BY Types
<1> DEFINE C == CalledAt(s)
           f == [o \in 1 .. n |-> <<s, o>>]
<1>2. \A i : i \in C <=> \E o \in 1 .. n : i = <<s, o>>
  <2>1. ASSUME NEW o \in 1 .. n PROVE <<s, o>> \in C
    <3>1. o \in Nat \ {0} /\ o <= n
      OBVIOUS
    <3> QED BY <1>1, <3>1 DEF CalledAt, Instance
  <2>2. ASSUME NEW i \in C PROVE \E o \in 1 .. n : i = <<s, o>>
    <3>1. i \in Instance /\ i[1] = s /\ i[2] <= n
      BY <1>1 DEF CalledAt
    <3>2. i = <<s, i[2]>> /\ i[2] \in Nat \ {0}
      BY <3>1 DEF Instance
    <3>3. i[2] \in 1 .. n
      BY <3>1, <3>2
    <3> QED BY <3>2, <3>3
  <2> QED BY <2>1, <2>2
<1> HIDE DEF C
<1>3. f \in Bijection(1 .. n, C)
  <2>1. f \in [1 .. n -> C]
    BY <1>2
  <2>2. \A o, p \in 1 .. n : f[o] = f[p] => o = p
    OBVIOUS
  <2>3. \A i \in C : \E o \in 1 .. n : f[o] = i
    BY <1>2
  <2> QED BY <2>1, <2>2, <2>3, Fun_IsBij
<1>4. ExistsBijection(1 .. n, C)
  BY <1>3 DEF ExistsBijection
<1>5. IsFiniteSet(1 .. n) /\ Cardinality(1 .. n) = n
  BY FS_Interval
<1>6. IsFiniteSet(C) /\ Cardinality(C) = n
  BY <1>4, <1>5, FS_Bijection
<1> QED BY <1>1, <1>6 DEF C

\* Whose call of a site has been taken has passed it or has a node open there.
LEMMA GoneHavePassedOrWait ==
  ASSUME TypeOK, Running, NoneLost, NEW s \in NodeSite
  PROVE  /\ Gone(s) = Passed(s) \cup {BranchOf(i) : i \in OpenAt(s)}
         /\ Passed(s) \cap {BranchOf(i) : i \in OpenAt(s)} = {}
<1> DEFINE W == {BranchOf(i) : i \in OpenAt(s)}
<1>1. ASSUME NEW b \in W PROVE b \in Branch /\ at[b] = s /\ b \notin ToSet(calls) \cup ToSet(replies)
  <2>1. PICK i \in OpenAt(s) : b = BranchOf(i)
    OBVIOUS
  <2>2. Waits(i) /\ i[1] = s
    BY <2>1 DEF OpenAt, Running, WaitingOK
  <2>3. BranchOf(i) \in Branch
    BY <2>2, Types, RowOf DEF Waits, BranchOf, Row
  <2> QED BY <2>1, <2>2, <2>3 DEF Waits
<1>2. ASSUME NEW b \in Branch, at[b] = s, b \notin ToSet(calls) \cup ToSet(replies) PROVE b \in W
  <2>1. at[b] # ReportSite
    BY <1>2, Sites
  <2>2. PICK i \in Open : BranchOf(i) = b
    BY <1>2, <2>1 DEF NoneLost
  <2>3. i[1] = s
    BY <1>2, <2>2 DEF Running, WaitingOK, Waits
  <2> QED BY <2>2, <2>3 DEF OpenAt
<1>3. \A b \in Branch : at[b] = s => ~ (at[b] > s)
  <2>1. PICK n \in Nat : n = s
    BY Sites
  <2>2. ~ (n > n)
    OBVIOUS
  <2> QED BY <2>1, <2>2
<1> HIDE DEF W
<1>4. \A b \in ToSet(replies) : b \notin ToSet(calls)
  BY DEF Running, StreamsOK
<1>5. \A b : b \in Gone(s) <=> b \in Passed(s) \/ b \in W
  BY <1>1, <1>2, <1>4 DEF Gone, Passed
<1>6. Passed(s) \cap W = {}
  BY <1>1, <1>3 DEF Passed
<1> QED BY <1>5, <1>6 DEF W

\* As many branches have passed a site as nodes have been answered there.
LEMMA PassedAreAnswered ==
  ASSUME TypeOK, Running, NoneLost, CallsOK, NEW s \in NodeSite
  PROVE  /\ IsFiniteSet(Passed(s)) /\ IsFiniteSet(AnsweredAt(s))
         /\ Cardinality(Passed(s)) = Cardinality(AnsweredAt(s))
<1>1. s \in Site
  BY Sites
<1>2. PICK C, O, A, P, W, G :
        /\ C = CalledAt(s) /\ O = OpenAt(s) /\ A = AnsweredAt(s)
        /\ P = Passed(s) /\ W = {BranchOf(i) : i \in O} /\ G = Gone(s)
  OBVIOUS
<1>3. IsFiniteSet(C) /\ Cardinality(C) = ordinal[s] /\ IsFiniteSet(G) /\ Cardinality(G) = ordinal[s]
  BY <1>1, <1>2, CalledAtIsCounted, GoneIsFinite DEF CallsOK
<1>4. O \subseteq C
  <2> SUFFICES ASSUME NEW i \in Open, i[1] = s PROVE i \in CalledAt(s)
    BY <1>2 DEF OpenAt
  <2>1. Waits(i)
    BY DEF Running, WaitingOK
  <2> QED BY <2>1 DEF Waits, Journaled, CalledAt
<1>5. C = A \cup O /\ A \cap O = {}
  BY <1>2, <1>4 DEF AnsweredAt
<1>6. G = P \cup W /\ P \cap W = {}
  BY <1>2, GoneHavePassedOrWait
<1>7. IsFiniteSet(A) /\ IsFiniteSet(O) /\ IsFiniteSet(P) /\ IsFiniteSet(W)
  BY <1>3, <1>5, <1>6, FS_Subset
<1>8. Cardinality(W) = Cardinality(O)
  <2> DEFINE g == [i \in O |-> BranchOf(i)]
  <2>1. g \in [O -> W] /\ \A w \in W : \E i \in O : g[i] = w
    BY <1>2
  <2>2. \A i, j \in O : g[i] = g[j] => i = j
    BY <1>2 DEF OpenAt, Running, WaitingOK
  <2> HIDE DEF g
  <2>3. g \in Bijection(O, W)
    BY <2>1, <2>2, Fun_IsBij
  <2>4. ExistsBijection(O, W)
    BY <2>3 DEF ExistsBijection
  <2> QED BY <1>7, <2>4, FS_Bijection
<1>9. Cardinality(C) = Cardinality(A) + Cardinality(O) /\ Cardinality(G) = Cardinality(P) + Cardinality(W)
  BY <1>5, <1>6, <1>7, Parts
<1>10. Cardinality(A) \in Nat /\ Cardinality(O) \in Nat /\ Cardinality(P) \in Nat
  BY <1>7, FS_CardinalityType
<1>11. Cardinality(P) = Cardinality(A)
  BY <1>3, <1>8, <1>9, <1>10
<1> QED BY <1>2, <1>7, <1>11

-----------------------------------------------------------------------------
(* Every call but the first of a branch follows an answer *)

\* The first calls are those of the first site.
LEMMA FirstCalls ==
  ASSUME NEW L \in Seq(Instance), NEW m \in 0 .. Len(L)
  PROVE  Count(L, 1, Branches + m) = Branches
<1>1. Branches \in Nat /\ Len(L) \in Nat /\ m \in Nat
  BY ReplayOrderAssumption, Sequence
<1>2. ASSUME NEW j \in 1 .. Branches + m PROVE CallSite(L, j) = 1 <=> j <= Branches
  <2>1. CASE j <= Branches
    BY <2>1 DEF CallSite
  <2>2. CASE ~ (j <= Branches)
    <3>1. j - Branches \in 1 .. Len(L)
      BY <1>1, <2>2
    <3>2. L[j - Branches] \in Instance
      BY <3>1, Sequence
    <3>3. PICK s \in Nat \ {0} : s = L[j - Branches][1]
      BY <3>2, Sites DEF Instance
    <3>4. CallSite(L, j) = s + 1
      BY <2>2, <3>3 DEF CallSite
    <3>5. s + 1 # 1
      BY <3>3
    <3> QED BY <2>2, <3>4, <3>5
  <2> QED BY <2>1, <2>2
<1>3. CallsOf(L, 1, Branches + m) = 1 .. Branches
  <2>1. \A j : j \in 1 .. Branches <=> j \in 1 .. Branches + m /\ j <= Branches
    BY <1>1
  <2> QED BY <1>2, <2>1 DEF CallsOf
<1>4. Cardinality(1 .. Branches) = Branches
  BY <1>1, FS_Interval
<1> QED BY <1>3, <1>4 DEF Count

\* The answers of a site that are in the order each have a call that follows.
LEMMA AnswersHaveCalls ==
  ASSUME TypeOK, NEW s \in NodeSite, NEW L \in Seq(Instance), AnsweredAt(s) \subseteq ToSet(L)
  PROVE  Cardinality(AnsweredAt(s)) <= Count(L, s + 1, Total(L))
<1>1. Branches \in Nat /\ Len(L) \in Nat /\ Total(L) \in Nat /\ Total(L) = Branches + Len(L)
  BY ReplayOrderAssumption, Sequence DEF Total
<1>2. PICK A, T : A = AnsweredAt(s) /\ T = CallsOf(L, s + 1, Total(L))
  OBVIOUS
<1> DEFINE place(i) == CHOOSE k \in 1 .. Len(L) : L[k] = i
           f == [i \in A |-> Branches + place(i)]
<1>3. ASSUME NEW i \in A PROVE place(i) \in 1 .. Len(L) /\ L[place(i)] = i
  <2>1. \E k \in 1 .. Len(L) : L[k] = i
    BY <1>2, Elements
  <2> QED BY <2>1
<1> HIDE DEF place
<1>4. ASSUME NEW i \in A PROVE Branches + place(i) \in T
  <2>1. PICK k \in 1 .. Len(L) : k = place(i) /\ L[k] = i
    BY <1>3
  <2>2. i[1] = s
    BY <1>2 DEF AnsweredAt, CalledAt
  <2>3. Branches + k \in 1 .. Total(L) /\ ~ (Branches + k <= Branches) /\ (Branches + k) - Branches = k
    BY <1>1
  <2>4. CallSite(L, Branches + k) = s + 1
    BY <2>1, <2>2, <2>3 DEF CallSite
  <2> QED BY <1>2, <2>1, <2>3, <2>4 DEF CallsOf
<1>5. ASSUME NEW i \in A, NEW j \in A, Branches + place(i) = Branches + place(j) PROVE i = j
  <2>1. place(i) \in Nat /\ place(j) \in Nat
    BY <1>3
  <2>2. place(i) = place(j)
    BY <1>1, <1>5, <2>1
  <2> QED BY <1>3, <2>2
<1>6. f \in [A -> T] /\ \A i, j \in A : f[i] = f[j] => i = j
  BY <1>4, <1>5
<1> HIDE DEF f
<1>7. f \in Injection(A, T)
  BY <1>6, Fun_IsInj
<1>8. IsFiniteSet(T)
  BY <1>1, <1>2, CountIsNat
<1>9. Cardinality(A) <= Cardinality(T)
  BY <1>7, <1>8, FS_Injection
<1> QED BY <1>2, <1>9 DEF Count

\* The calls that follow an answer of a site each follow another one.
LEMMA CallsHaveAnswers ==
  ASSUME TypeOK, NEW s \in NodeSite, NEW L \in Seq(Instance), IsInjective(L), NEW m \in 0 .. Len(L),
         \A k \in 1 .. m : L[k][2] <= ordinal[L[k][1]] /\ L[k] \notin Open
  PROVE  Count(L, s + 1, Branches + m) <= Cardinality(AnsweredAt(s))
<1>1. Branches \in Nat /\ Len(L) \in Nat /\ m \in Nat /\ s \in Nat \ {0} /\ s \in Site
  BY ReplayOrderAssumption, Sequence, Sites
<1>2. PICK A, S : A = AnsweredAt(s) /\ S = CallsOf(L, s + 1, Branches + m)
  OBVIOUS
<1> DEFINE f == [j \in S |-> L[j - Branches]]
<1>3. ASSUME NEW j \in S PROVE j \in Nat /\ j - Branches \in 1 .. m /\ L[j - Branches][1] + 1 = s + 1
  <2>1. j \in 1 .. Branches + m /\ CallSite(L, j) = s + 1
    BY <1>2 DEF CallsOf
  <2>2. ~ (j <= Branches)
    <3> SUFFICES ASSUME j <= Branches PROVE FALSE
      OBVIOUS
    <3>1. CallSite(L, j) = 1
      BY DEF CallSite
    <3>2. s + 1 # 1
      BY <1>1
    <3> QED BY <2>1, <3>1, <3>2
  <2> QED BY <1>1, <2>1, <2>2 DEF CallSite
<1>4. ASSUME NEW j \in S PROVE L[j - Branches] \in A
  <2>1. PICK k \in 1 .. m : k = j - Branches
    BY <1>3
  <2>2. k \in 1 .. Len(L)
    BY <1>1
  <2>3. PICK i \in Instance : i = L[k]
    BY <2>2, Sequence
  <2>4. i[2] <= ordinal[i[1]] /\ i \notin Open
    BY <2>3
  <2>5. i[1] \in Nat /\ i[1] + 1 = s + 1
    BY <1>3, <2>1, <2>3, Sites DEF Instance
  <2>6. i[1] = s
    BY <1>1, <2>5
  <2> QED BY <1>2, <2>1, <2>3, <2>4, <2>6 DEF AnsweredAt, CalledAt, OpenAt
<1>5. ASSUME NEW i \in S, NEW j \in S, L[i - Branches] = L[j - Branches] PROVE i = j
  <2>1. i - Branches \in 1 .. Len(L) /\ j - Branches \in 1 .. Len(L) /\ i \in Nat /\ j \in Nat
    BY <1>1, <1>3
  <2>2. i - Branches = j - Branches
    BY <1>5, <2>1, Elements
  <2> QED BY <1>1, <2>1, <2>2
<1>6. f \in [S -> A] /\ \A i, j \in S : f[i] = f[j] => i = j
  BY <1>4, <1>5
<1> HIDE DEF f
<1>7. f \in Injection(S, A)
  BY <1>6, Fun_IsInj
<1>8. IsFiniteSet(A)
  BY <1>1, <1>2, CalledAtIsCounted, FS_Difference DEF AnsweredAt
<1>9. Cardinality(S) <= Cardinality(A)
  BY <1>7, <1>8, FS_Injection
<1> QED BY <1>2, <1>9 DEF Count

-----------------------------------------------------------------------------
(* The order is one in which every node was called before it answered *)

\* What has been called and is not open has been logged.
AnsweredLogged == \A i \in Instance : i[1] \in NodeSite /\ i[2] <= ordinal[i[1]] => i \in Open \cup ToSet(log)

\* The gate releases what has been called, and it has been logged before.
ReleasedCalled == \A k \in 1 .. cursor : order[k][2] <= ordinal[order[k][1]]
QueueLogged == ToSet(queue) \subseteq ToSet(log)

Causal(L) == \A j \in 1 .. Len(L) : L[j][2] <= Count(L, L[j][1], Branches + (j - 1))

Caused == AnsweredLogged /\ ReleasedCalled /\ QueueLogged /\ Causal(Canon)
Causing == outcome = "running" => Caused

\* As many branches as have reached a site have calls of it in the order.
LEMMA ReachedIsCaused ==
  ASSUME TypeOK, Running, NoneLost, CallsOK, AnsweredLogged, NEW L, L = Canon,
         NEW s \in NodeSite, NEW C, C \subseteq Branch, \A b \in C : at[b] >= s
  PROVE  Cardinality(C) <= Count(L, s, Total(L))
<1>1. L \in Seq(Instance) /\ Len(L) \in Nat /\ ToSet(L) = ToSet(log) /\ Total(L) = Branches + Len(L)
  BY OrderIsJournaled DEF Total
<1>2. CASE s = 1
  <2>1. Branches \in Nat /\ Branch = 1 .. Branches
    BY ReplayOrderAssumption DEF Branch
  <2>2. IsFiniteSet(1 .. Branches) /\ Cardinality(1 .. Branches) = Branches
    BY <2>1, FS_Interval
  <2>3. Cardinality(C) <= Branches
    BY <2>1, <2>2, FS_Subset
  <2>4. Count(L, 1, Branches + Len(L)) = Branches
    BY <1>1, FirstCalls
  <2> QED BY <1>1, <1>2, <2>3, <2>4
<1>3. CASE s # 1
  <2>1. PICK r \in NodeSite : s = r + 1 /\ r \in Nat
    <3>1. s - 1 \in NodeSite /\ s - 1 \in Nat /\ s = (s - 1) + 1
      BY <1>3, ReplayOrderAssumption DEF NodeSite
    <3> QED BY <3>1
  <2>2. PICK P, A : P = Passed(r) /\ A = AnsweredAt(r)
    OBVIOUS
  <2>3. C \subseteq P
    <3>1. ASSUME NEW b \in C PROVE at[b] > r
      <4>1. PICK n \in Nat : n = at[b]
        BY Types, Sites
      <4>2. n >= r + 1
        BY <2>1, <4>1
      <4>3. n > r
        BY <2>1, <4>2
      <4> QED BY <4>1, <4>3
    <3> QED BY <2>2, <3>1 DEF Passed
  <2>4. IsFiniteSet(P) /\ IsFiniteSet(A) /\ Cardinality(P) = Cardinality(A)
    BY <2>2, PassedAreAnswered
  <2>5. Cardinality(C) <= Cardinality(P)
    BY <2>3, <2>4, FS_Subset
  <2>6. A \subseteq ToSet(L)
    BY <1>1, <2>2 DEF AnsweredLogged, AnsweredAt, CalledAt, OpenAt
  <2>7. Cardinality(A) <= Count(L, s, Total(L))
    BY <1>1, <2>1, <2>2, <2>6, AnswersHaveCalls
  <2>8. Cardinality(C) \in Nat /\ Cardinality(A) \in Nat /\ Count(L, s, Total(L)) \in Nat
    <3>1. IsFiniteSet(C) /\ Total(L) \in Nat
      BY <1>1, <2>3, <2>4, FS_Subset, ReplayOrderAssumption
    <3> QED BY <2>4, <3>1, FS_CardinalityType, CountIsNat
  <2> QED BY <2>4, <2>5, <2>7, <2>8
<1> QED BY <1>2, <1>3

LEMMA CausalByOne ==
  ASSUME NEW L \in Seq(Instance), Causal(L), NEW i \in Instance, i[2] <= Count(L, i[1], Total(L))
  PROVE  Causal(Append(L, i))
<1>1. PICK M : M = Append(L, i)
  OBVIOUS
<1>2. /\ M \in Seq(Instance) /\ Len(M) = Len(L) + 1 /\ \A j \in 1 .. Len(L) : M[j] = L[j]
      /\ M[Len(L) + 1] = i
  BY <1>1, OneMore
<1>3. Len(L) \in Nat /\ Branches \in Nat /\ Total(L) = Branches + Len(L)
  BY ReplayOrderAssumption, Sequence DEF Total
<1>4. \A s : \A k \in 0 .. Total(L) : Count(M, s, k) = Count(L, s, k)
  <2>1. Begins(L, M)
    BY <1>2, <1>3 DEF Begins
  <2> QED BY <1>2, <2>1, CallsOfLonger
<1>5. ASSUME NEW j \in 1 .. Len(M) PROVE M[j][2] <= Count(M, M[j][1], Branches + (j - 1))
  <2>1. j \in 1 .. Len(L) + 1 /\ Branches + (j - 1) \in 0 .. Total(L)
    <3>1. j \in 1 .. Len(L) + 1
      BY <1>2
    <3> QED BY <1>3, <3>1
  <2>2. CASE j \in 1 .. Len(L)
    <3>1. L[j][2] <= Count(L, L[j][1], Branches + (j - 1))
      BY <2>2 DEF Causal
    <3> QED BY <1>2, <1>4, <2>1, <2>2, <3>1
  <2>3. CASE ~ (j \in 1 .. Len(L))
    <3>1. j = Len(L) + 1 /\ Branches + (j - 1) = Total(L)
      BY <1>2, <1>3, <2>3
    <3>2. M[j] = i
      BY <1>2, <3>1
    <3>3. Count(M, i[1], Branches + (j - 1)) = Count(L, i[1], Total(L))
      BY <1>4, <2>1, <3>1
    <3> QED BY <3>2, <3>3
  <2> QED BY <2>2, <2>3
<1> QED BY <1>1, <1>5 DEF Causal

\* A call that is taken: its node is open afterwards or its answer is logged.
LEMMA AnsweredStays ==
  ASSUME TypeOK, AnsweredLogged, NEW b, NEW i, Takes(b, i), Open \subseteq Open',
         ToSet(log) \subseteq ToSet(log'), i \in Open' \cup ToSet(log') \/ i[1] = ReportSite
  PROVE  AnsweredLogged'
<1> SUFFICES ASSUME NEW j \in Instance, j[1] \in NodeSite, j[2] <= ordinal'[j[1]]
             PROVE  j \in Open' \cup ToSet(log')
  BY DEF AnsweredLogged
<1>1. j = <<j[1], j[2]>> /\ j[1] \in Site /\ j[2] \in Nat /\ i = <<i[1], i[2]>> /\ i[2] \in Nat /\ i[1] \in Site
  BY DEF Instance, Takes
<1>2. CASE j[2] <= ordinal[j[1]]
  BY <1>2 DEF AnsweredLogged
<1>3. CASE ~ (j[2] <= ordinal[j[1]])
  <2>1. j[1] = i[1]
    BY <1>1, <1>3 DEF Takes
  <2>2. PICK n \in Nat : n = ordinal[i[1]]
    BY <1>1, Types
  <2>3. i[2] = n + 1 /\ j[2] <= i[2] /\ ~ (j[2] <= n)
    BY <1>3, <2>1, <2>2 DEF Takes
  <2>4. j[2] = i[2]
    BY <1>1, <2>2, <2>3
  <2>5. j = i
    BY <1>1, <2>1, <2>4
  <2> QED BY <2>5, Sites
<1> QED BY <1>2, <1>3

LEMMA ReleasedRemains ==
  ASSUME TypeOK, ReleasedCalled, NEW b, NEW i, Takes(b, i), order' = order
  PROVE  \A k \in 1 .. cursor : order'[k][2] <= ordinal'[order'[k][1]]
<1> SUFFICES ASSUME NEW k \in 1 .. cursor PROVE order[k][2] <= ordinal'[order[k][1]]
  OBVIOUS
<1>1. k \in 1 .. Len(order) /\ order \in Seq(Instance)
  BY Types
<1>2. PICK j \in Instance : j = order[k]
  BY <1>1, Sequence
<1>3. j[2] <= ordinal[j[1]]
  BY <1>2 DEF ReleasedCalled
<1>4. j[1] \in Site /\ j[2] \in Nat
  BY DEF Instance
<1>5. ordinal[j[1]] \in Nat /\ ordinal'[j[1]] \in Nat /\ ordinal[j[1]] <= ordinal'[j[1]]
  BY <1>4, Types DEF Takes
<1> QED BY <1>2, <1>3, <1>4, <1>5

LEMMA OrderIsLogged ==
  ASSUME TypeOK, Running PROVE ToSet(order) \subseteq ToSet(log)
<1> SUFFICES ASSUME NEW i \in ToSet(order) PROVE i \in ToSet(log)
  OBVIOUS
<1>1. PICK L : L = Canon
  OBVIOUS
<1>2. L \in Seq(Instance) /\ Len(L) \in Nat /\ ToSet(L) = ToSet(log)
  BY <1>1, OrderIsJournaled
<1>3. order \in Seq(Instance) /\ Len(order) \in Nat
  BY Types
<1>4. Len(order) <= Len(L) /\ \A k \in 1 .. Len(order) : order[k] = L[k]
  BY <1>1 DEF Running, LogOK, Begins, Canon
<1>5. PICK k \in 1 .. Len(order) : i = order[k]
  BY <1>3, Elements
<1>6. k \in 1 .. Len(L)
  BY <1>2, <1>3, <1>4
<1> QED BY <1>2, <1>4, <1>5, <1>6, Elements

LEMMA HoldIsCaused == ASSUME Base, Moves, Caused, Hold PROVE Caused'
<1>1. TypeOK /\ Running /\ TakeCall /\ Replays /\ Claimable(Called) /\ UNCHANGED <<journal, log, at, replies, order>>
  BY DEF Base, Hold, TakeCall, durable
<1>2. PICK b \in Branch, i \in Instance : Takes(b, i)
  BY <1>1, CallIsTaken DEF Running
<1>3. i = Called /\ i \notin Open
  <2>1. Finished(journal, i) /\ BranchOf(i) = b
    BY <1>1, <1>2, CachedIsFinished
  <2> QED BY <1>1, <1>2, <2>1, OthersWait DEF Running, Takes
<1>4. PICK to : HoldMoves(i, to)
  BY <1>1, <1>3, HoldsInGate DEF Running, LogOK, Open
<1>5. i \in Open' /\ parked \cup ToSet(queue) \subseteq parked' \cup ToSet(queue')
  BY <1>4 DEF HoldMoves, Open
<1>6. AnsweredLogged'
  <2>1. \A j \in Open : j \in Open'
    BY <1>1, <1>2, <1>5, RowStays, OthersStayOpen
  <2> QED BY <1>1, <1>2, <1>5, <2>1, AnsweredStays DEF Caused
<1>7. ReleasedCalled'
  <2> SUFFICES ASSUME NEW k \in 1 .. to PROVE order[k][2] <= ordinal'[order[k][1]]
    BY <1>1, <1>4 DEF ReleasedCalled, HoldMoves
  <2>1. cursor \in Nat /\ Len(order) \in Nat /\ to \in cursor .. Len(order)
    BY <1>1, <1>4, Types DEF HoldMoves
  <2>2. CASE k \in 1 .. cursor
    BY <1>1, <1>2, <2>2, ReleasedRemains DEF Caused
  <2>3. CASE k \in cursor + 1 .. to
    <3>1. PICK j : j = order[k] /\ j \in parked \cup {i}
      BY <1>4, <2>3 DEF HoldMoves
    <3>2. CASE j = i
      <4>1. ordinal'[i[1]] = i[2] /\ i[2] \in Nat
        BY <1>2 DEF Takes, Instance
      <4> QED BY <3>1, <3>2, <4>1
    <3>3. CASE j \in parked
      <4>1. Waits(j)
        BY <1>1, <3>3 DEF Running, WaitingOK, Open
      <4>2. j[1] \in Site /\ j[2] \in Nat /\ j[2] <= ordinal[j[1]]
        BY <4>1 DEF Waits, Journaled, Instance
      <4>3. ordinal[j[1]] \in Nat /\ ordinal'[j[1]] \in Nat /\ ordinal[j[1]] <= ordinal'[j[1]]
        BY <1>1, <1>2, <4>2, Types DEF Takes
      <4> QED BY <3>1, <4>2, <4>3
    <3> QED BY <3>1, <3>2, <3>3
  <2> QED BY <2>1, <2>2, <2>3
<1>8. QueueLogged'
  <2> SUFFICES ASSUME NEW x \in ToSet(queue') PROVE x \in ToSet(log)
    BY <1>1 DEF QueueLogged
  <2>1. /\ cursor \in Nat /\ Len(order) \in Nat /\ Len(queue) \in Nat
        /\ order \in Seq(Instance) /\ queue \in Seq(Instance) /\ queue' \in Seq(Instance)
        /\ to \in cursor .. Len(order) /\ Len(queue') = Len(queue) + (to - cursor)
    BY <1>1, <1>4, Types, Sequence DEF HoldMoves
  <2>2. PICK k \in 1 .. Len(queue') : x = queue'[k]
    BY <2>1, Elements
  <2>3. CASE k \in 1 .. Len(queue)
    <3>1. x = queue[k]
      BY <1>4, <2>2, <2>3 DEF HoldMoves
    <3>2. x \in ToSet(queue)
      BY <2>1, <2>3, <3>1, Elements
    <3> QED BY <3>2 DEF Caused, QueueLogged
  <2>4. CASE ~ (k \in 1 .. Len(queue))
    <3>1. PICK m \in 1 .. to - cursor : k = Len(queue) + m
      <4>1. k - Len(queue) \in 1 .. to - cursor /\ k = Len(queue) + (k - Len(queue))
        BY <2>1, <2>4
      <4> QED BY <4>1
    <3>2. x = order[cursor + m]
      BY <1>4, <2>2, <3>1 DEF HoldMoves
    <3>3. cursor + m \in 1 .. Len(order)
      BY <2>1
    <3>4. x \in ToSet(order)
      BY <2>1, <3>2, <3>3, Elements
    <3> QED BY <1>1, <3>4, OrderIsLogged
  <2> QED BY <2>3, <2>4
<1>9. Causal(Canon')
  BY <1>1 DEF Canon, Caused
<1> QED BY <1>6, <1>7, <1>8, <1>9 DEF Caused

\* A node that goes live or a report that is taken.
LEMMA CallIsCaused ==
  ASSUME TypeOK, Running, Caused, NEW b, NEW i, Takes(b, i), RowsAfterCall(b, i),
         i \in Open' \/ i[1] = ReportSite, UNCHANGED <<log, order, cursor, parked, queue>>
  PROVE  Caused'
<1>1. AnsweredLogged'
  <2>1. \A j \in Open : j \in Open'
    BY OthersStayOpen
  <2> QED BY <2>1, AnsweredStays DEF Caused
<1>2. ReleasedCalled'
  BY ReleasedRemains DEF ReleasedCalled, Caused
<1>3. QueueLogged'
  BY DEF Caused, QueueLogged
<1>4. Causal(Canon')
  <2>1. journal' \in Table /\ Keeps(journal, journal')
    BY DEF RowsAfterCall
  <2>2. PICK L : L = Canon
    OBVIOUS
  <2>3. Canon' = L
    BY <2>1, <2>2, CanonStays
  <2> QED BY <2>2, <2>3 DEF Caused
<1> QED BY <1>1, <1>2, <1>3, <1>4 DEF Caused

\* What is logged again leaves the order.
LEMMA RepeatsLeave ==
  ASSUME TypeOK, Running, journal' \in Table, Keeps(journal, journal'),
         NEW new \in Seq(Instance), ToSet(new) \subseteq ToSet(log), log' = log \o new
  PROVE  Canon' = Canon
<1>1. journal \in Table /\ log \in Seq(Instance) /\ \A j \in ToSet(log) : Finished(journal, j)
  BY Types DEF Running, LogOK
<1>2. \A j \in ToSet(log) : Finished(journal', j)
  BY <1>1, KeptFinished
<1>3. \A j \in ToSet(new) : Finished(journal', j)
  BY <1>2
<1>4. SettleOrder(journal', log \o new) = SettleOrder(journal, log)
  BY <1>1, <1>3, OrderGrows
<1> QED BY <1>4 DEF Canon

\* An answer that is logged is that of a node that had been called.
LEMMA LoggedIsCaused ==
  ASSUME TypeOK, Running, NoneLost, CallsOK, Caused, journal' \in Table, Keeps(journal, journal'),
         NEW i \in Instance, Finished(journal', i), NEW new \in Seq(Instance), new = <<i>>, log' = log \o new,
         NEW C, C \subseteq Branch, \A b \in C : at[b] >= i[1], i[2] <= Cardinality(C)
  PROVE  Causal(Canon')
<1>1. journal \in Table /\ log \in Seq(Instance) /\ \A j \in ToSet(log) : Finished(journal, j)
  BY Types DEF Running, LogOK
<1>2. PICK L : L = Canon
  OBVIOUS
<1>3. L \in Seq(Instance) /\ Causal(L) /\ Len(L) \in Nat
  BY <1>2, OrderIsJournaled DEF Caused
<1>4. CASE i \in ToSet(log)
  <2>1. ToSet(new) = {i}
    BY One
  <2>2. Canon' = L
    BY <1>2, <1>4, <2>1, RepeatsLeave
  <2> QED BY <1>3, <2>2
<1>5. CASE i \notin ToSet(log)
  <2>1. SettleOrder(journal', log \o <<i>>) = Append(SettleOrder(journal, log), i)
    BY <1>1, <1>5, OrderGrowsByOne
  <2>2. i[1] \in NodeSite /\ i[1] \in Site
    BY Sites DEF Finished, Instance
  <2>3. AnsweredLogged
    BY DEF Caused
  <2>4. Cardinality(C) <= Count(L, i[1], Total(L))
    BY <1>2, <2>2, <2>3, ReachedIsCaused
  <2>5. i[2] \in Nat /\ Cardinality(C) \in Nat /\ Count(L, i[1], Total(L)) \in Nat
    <3>1. IsFiniteSet(Branch)
      BY FS_Interval, ReplayOrderAssumption DEF Branch
    <3>2. Total(L) \in Nat
      BY <1>3, ReplayOrderAssumption DEF Total
    <3> QED BY <3>1, <3>2, FS_Subset, FS_CardinalityType, CountIsNat DEF Instance
  <2>6. i[2] <= Count(L, i[1], Total(L))
    BY <2>4, <2>5
  <2>7. Causal(Append(L, i))
    BY <1>3, <2>6, CausalByOne
  <2> QED BY <1>2, <2>1, <2>7 DEF Canon
<1> QED BY <1>4, <1>5

\* The branches whose call of a site has been taken have reached it.
LEMMA GoneHaveReached ==
  ASSUME TypeOK, NEW s \in Site
  PROVE  Gone(s) \subseteq Branch /\ \A b \in Gone(s) : at[b] >= s
<1> SUFFICES ASSUME NEW b \in Gone(s) PROVE b \in Branch /\ at[b] >= s
  OBVIOUS
<1>1. b \in Branch /\ (at[b] > s \/ at[b] = s)
  BY DEF Gone
<1>2. PICK n \in Nat, m \in Nat : n = at[b] /\ m = s
  BY <1>1, Types, Sites
<1>3. n >= m
  BY <1>1, <1>2
<1> QED BY <1>1, <1>2, <1>3

LEMMA PassThroughIsCaused == ASSUME Base, Moves, Caused, PassThrough PROVE Caused'
<1>1. /\ TypeOK /\ Running /\ TakeCall /\ Replays /\ Claimable(Called)
      /\ UNCHANGED <<journal, at, order, cursor, parked, queue>>
      /\ log' = log \o <<Called>>
  BY DEF Base, PassThrough, TakeCall, Settle, gate
<1>2. PICK b \in Branch, i \in Instance : Takes(b, i)
  BY <1>1, CallIsTaken DEF Running
<1>3. i = Called /\ Finished(journal, i) /\ i[1] \in NodeSite /\ i[1] \in Site
  BY <1>1, <1>2, CachedIsFinished, Sites DEF Takes
<1>4. PICK new \in Seq(Instance) : new = <<i>> /\ ToSet(new) = {i}
  BY One
<1>5. RowsAfterCall(b, i)
  BY <1>1, <1>2, RowStays
<1>6. ToSet(log') = ToSet(log) \cup {i}
  <2>1. log \in Seq(Instance) /\ log' = log \o new
    BY <1>1, <1>3, <1>4, Types
  <2>2. ToSet(log \o new) = ToSet(log) \cup ToSet(new)
    BY <2>1, Joined
  <2> QED BY <1>4, <2>1, <2>2
<1>7. AnsweredLogged'
  <2>1. \A j \in Open : j \in Open'
    BY <1>1, <1>2, <1>5, OthersStayOpen
  <2> QED BY <1>1, <1>2, <1>6, <2>1, AnsweredStays DEF Caused
<1>8. ReleasedCalled'
  BY <1>1, <1>2, ReleasedRemains DEF ReleasedCalled, Caused
<1>9. QueueLogged'
  BY <1>1, <1>6 DEF Caused, QueueLogged
<1>10. Causal(Canon')
  <2>1. i[2] = ordinal[i[1]] + 1 /\ i[1] = at[b] /\ b \in ToSet(calls)
    BY <1>2 DEF Takes
  <2>2. PICK G, C : G = Gone(i[1]) /\ C = G \cup {b}
    OBVIOUS
  <2>3. b \notin G
    <3>1. PICK n \in Nat : n = at[b]
      BY <1>1, Types, Sites
    <3>2. ~ (n > n)
      OBVIOUS
    <3> QED BY <2>1, <2>2, <3>1, <3>2 DEF Gone
  <2>4. IsFiniteSet(G) /\ Cardinality(G) = ordinal[i[1]]
    BY <1>3, <2>2, GoneIsFinite DEF Moves, CallsOK
  <2>5. Cardinality(C) = ordinal[i[1]] + 1
    BY <2>2, <2>3, <2>4, FS_AddElement
  <2>6. i[2] <= Cardinality(C)
    BY <2>1, <2>5 DEF Instance
  <2>7. C \subseteq Branch /\ \A a \in C : at[a] >= i[1]
    <3>1. PICK n \in Nat : n = at[b]
      BY <1>1, Types, Sites
    <3>2. n >= n
      OBVIOUS
    <3> QED BY <1>1, <1>3, <2>1, <2>2, <3>1, <3>2, GoneHaveReached
  <2>8. journal' \in Table /\ Keeps(journal, journal') /\ Finished(journal', i)
    BY <1>1, <1>3, <1>5 DEF RowsAfterCall
  <2> QED BY <1>1, <1>3, <1>4, <2>6, <2>7, <2>8, LoggedIsCaused DEF Moves
<1> QED BY <1>7, <1>8, <1>9, <1>10 DEF Caused

LEMMA LiveSettlesIsCaused == ASSUME Base, Moves, Caused, NEW i \in Live, LiveSettles(i) PROVE Caused'
<1>1. TypeOK /\ Running
  BY DEF Base, LiveSettles
<1>2. i \in Instance /\ Journaled(journal, i) /\ i[1] \in Site /\ i[2] <= ordinal[i[1]]
  BY <1>1, LiveRows DEF Running
<1>3. PICK new \in Seq(Instance) : new = <<i>> /\ ToSet(new) = {i}
  BY <1>2, One
<1>4. /\ journal' = Settled(i) /\ log' = log \o new
      /\ UNCHANGED <<ordinal, at, calls, order, cursor, parked, queue>>
  BY <1>3 DEF LiveSettles, Settle, gate
<1>5. /\ journal' \in Table /\ Keeps(journal, journal') /\ Finished(journal', i)
      /\ \A j : Journaled(journal, j) /\ j # i => Row(j)' = Row(j)
  BY <1>1, <1>4, AnswerIsWritten DEF Running
<1>6. ToSet(log') = ToSet(log) \cup {i}
  <2>1. log \in Seq(Instance) /\ log' = log \o new
    BY <1>1, <1>3, <1>4, Types
  <2>2. ToSet(log \o new) = ToSet(log) \cup ToSet(new)
    BY <2>1, Joined
  <2> QED BY <1>3, <2>1, <2>2
<1>7. AnsweredLogged'
  <2>1. ASSUME NEW j \in Live, j # i PROVE j \in Live'
    <3>1. Journaled(journal, j)
      BY <1>1, LiveRows DEF Running
    <3>2. Row(j)' = Row(j)
      BY <1>5, <2>1, <3>1
    <3> QED BY <1>4, <3>2 DEF Live
  <2>2. \A j \in Open : j \in Open' \cup ToSet(log')
    BY <1>4, <1>6, <2>1 DEF Open
  <2> QED BY <1>4, <1>6, <2>2 DEF AnsweredLogged, Caused
<1>8. ReleasedCalled' /\ QueueLogged'
  BY <1>4, <1>6 DEF Caused, ReleasedCalled, QueueLogged
<1>9. Causal(Canon')
  <2>1. PICK C : C = Gone(i[1])
    OBVIOUS
  <2>2. Cardinality(C) = ordinal[i[1]]
    BY <1>2, <2>1 DEF Moves, CallsOK
  <2>3. C \subseteq Branch /\ \A a \in C : at[a] >= i[1]
    BY <1>1, <1>2, <2>1, GoneHaveReached
  <2> QED BY <1>1, <1>2, <1>3, <1>4, <1>5, <2>2, <2>3, LoggedIsCaused DEF Moves
<1> QED BY <1>7, <1>8, <1>9 DEF Caused

LEMMA FlushIsCaused == ASSUME Base, Caused, Flush PROVE Caused'
<1>1. TypeOK /\ Running
  BY DEF Base, Flush
<1>2. /\ log' = log \o queue /\ queue' = <<>>
      /\ UNCHANGED <<journal, ordinal, order, cursor, parked>>
  BY DEF Flush, Settle
<1>3. /\ log \in Seq(Instance) /\ queue \in Seq(Instance) /\ journal \in Table
      /\ \A i \in ToSet(log) : Finished(journal, i)
      /\ \A i \in ToSet(queue) : Finished(journal, i)
  BY <1>1, Types DEF Running, GateOK, LogOK
<1>4. ToSet(log') = ToSet(log) \cup ToSet(queue)
  <2>1. ToSet(log \o queue) = ToSet(log) \cup ToSet(queue)
    BY <1>3, Joined
  <2> QED BY <1>2, <2>1
<1>5. AnsweredLogged'
  <2>1. Live' = Live
    BY <1>2 DEF Live, Row
  <2>2. \A j \in Open : j \in Open' \cup ToSet(log')
    BY <1>2, <1>4, <2>1 DEF Open
  <2> QED BY <1>2, <1>4, <2>2 DEF AnsweredLogged, Caused
<1>6. ReleasedCalled'
  BY <1>2 DEF Caused, ReleasedCalled
<1>7. QueueLogged'
  BY <1>2 DEF QueueLogged, ToSet
<1>8. Causal(Canon')
  <2>1. journal' \in Table /\ Keeps(journal, journal') /\ ToSet(queue) \subseteq ToSet(log)
    BY <1>2, <1>3, SameRows DEF Caused, QueueLogged
  <2>2. Canon' = Canon
    BY <1>1, <1>2, <1>3, <2>1, RepeatsLeave
  <2> QED BY <2>2 DEF Caused
<1> QED BY <1>5, <1>6, <1>7, <1>8 DEF Caused

LEMMA GoLiveIsCaused == ASSUME Base, Moves, Caused, GoLive PROVE Caused'
<1>1. TypeOK /\ Running /\ TakeCall /\ UNCHANGED <<log, at, replies, order, cursor, parked, queue>>
  BY DEF Base, GoLive, TakeCall, gate
<1>2. PICK b \in Branch, i \in Instance : Takes(b, i)
  BY <1>1, CallIsTaken DEF Running
<1>3. RowsAfterCall(b, i) /\ Row(i)'.status = "running"
  BY <1>1, <1>2, GoLiveRows DEF Running
<1>4. i[2] \in Branch
  BY <1>1, <1>2, CallIsCounted DEF Moves
<1>5. i \in Open'
  BY <1>2, <1>3, <1>4, CallGoesLive
<1> QED BY <1>1, <1>2, <1>3, <1>5, CallIsCaused

LEMMA ReportIsCaused == ASSUME Base, Moves, Caused, Report PROVE Caused'
<1>1. TypeOK /\ Running /\ TakeCall /\ UNCHANGED <<log, at, replies, order, cursor, parked, queue>>
  BY DEF Base, Report, TakeCall, gate
<1>2. PICK b \in Branch, i \in Instance : Takes(b, i)
  BY <1>1, CallIsTaken DEF Running
<1>3. RowsAfterCall(b, i) /\ i[1] = ReportSite
  BY <1>1, <1>2, ReportRows DEF Running
<1> QED BY <1>1, <1>2, <1>3, CallIsCaused

LEMMA ContinueIsCaused == ASSUME Base, Caused, Continue PROVE Caused'
<1>1. UNCHANGED <<journal, log, ordinal, order, cursor, parked, queue>>
  BY DEF Continue, durable, gate
<1>2. Open' = Open
  BY <1>1 DEF Open, Live, Row
<1>3. Canon' = Canon
  BY <1>1 DEF Canon
<1> QED BY <1>1, <1>2, <1>3 DEF Caused, AnsweredLogged, ReleasedCalled, QueueLogged

\* A life begins: nothing has been called and nothing released.
LEMMA StartIsCaused ==
  ASSUME ordinal = [s \in Site |-> 0], cursor = 0, queue = <<>>, Causal(Canon)
  PROVE  Caused
<1>1. AnsweredLogged
  <2> SUFFICES ASSUME NEW i \in Instance, i[2] <= ordinal[i[1]] PROVE FALSE
    BY DEF AnsweredLogged
  <2>1. i[1] \in Site /\ i[2] \in Nat \ {0}
    BY DEF Instance
  <2>2. ordinal[i[1]] = 0
    BY <2>1
  <2> QED BY <2>1, <2>2
<1>2. ReleasedCalled
  BY DEF ReleasedCalled
<1>3. QueueLogged
  BY DEF QueueLogged, ToSet
<1> QED BY <1>1, <1>2, <1>3 DEF Caused

LEMMA NothingIsCausal == Causal(<<>>)
<1>1. PICK L : L = <<>> /\ Len(L) = 0
  OBVIOUS
<1>2. \A j \in 1 .. Len(L) : FALSE
  BY <1>1
<1> QED BY <1>1, <1>2 DEF Causal

LEMMA InitIsCaused == ASSUME Init PROVE Caused
<1>1. Canon = <<>>
  BY NothingFound DEF Init, Canon
<1>2. ordinal = [s \in Site |-> 0] /\ cursor = 0 /\ queue = <<>>
  BY DEF Init
<1> QED BY <1>1, <1>2, NothingIsCausal, StartIsCaused

\* StartIsCaused of the life that a resume begins.
Beginning == ordinal = [s \in Site |-> 0] /\ cursor = 0 /\ queue = <<>> /\ Causal(Canon)
StartsCaused == Beginning => Caused

LEMMA BeginningIsCaused == StartsCaused
BY StartIsCaused DEF StartsCaused, Beginning
LEMMA NextBeginningIsCaused == StartsCaused'
BY BeginningIsCaused, PTL

LEMMA ResumeIsCaused ==
  ASSUME Base, Caused, "stop" \notin Endings, NEW ending \in Endings, Resume(ending)
  PROVE  Caused'
<1>1. TypeOK /\ Running
  BY DEF Base, Resume
<1>2. journal' \in Table /\ Keeps(journal, journal') /\ log' = log
  BY <1>1, LeftBehind DEF Resumed
<1>3. PICK L : L = Canon
  OBVIOUS
<1>4. Canon' = L
  BY <1>1, <1>2, <1>3, CanonStays
<1>5. ordinal' = [s \in Site |-> 0] /\ cursor' = 0 /\ queue' = <<>>
  BY DEF Resume
<1>6. Causal(Canon')
  BY <1>3, <1>4 DEF Caused
<1> QED BY <1>5, <1>6, NextBeginningIsCaused DEF StartsCaused, Beginning

LEMMA NextIsCaused ==
  ASSUME Base, Moving, Causing, "stop" \notin Endings, [Next]_vars PROVE Causing'
<1>1. CASE \E ending \in Endings : Resume(ending)
  <2>1. Caused
    BY <1>1 DEF Causing, Resume
  <2> QED BY <1>1, <2>1, ResumeIsCaused DEF Causing
<1>2. CASE UNCHANGED vars
  <2>1. UNCHANGED <<journal, log, outcome, ordinal, order, cursor, parked, queue>>
    BY <1>2 DEF vars, durable, gate
  <2>2. Open' = Open /\ Canon' = Canon
    BY <2>1 DEF Open, Live, Row, Canon
  <2> QED BY <2>1, <2>2 DEF Causing, Caused, AnsweredLogged, ReleasedCalled, QueueLogged
<1>3. CASE Engine \/ Answers \/ Continue \/ Complete
  <2>1. outcome = "running"
    BY <1>3 DEF Engine, Answers, Flush, Mismatch, Hold, PassThrough, GoLive, Report, LiveSettles, Continue,
                Complete, TakeCall
  <2>2. Moves /\ Caused
    BY <2>1 DEF Moving, Causing
  <2>3. ASSUME Mismatch \/ Complete PROVE outcome' # "running"
    BY <2>3 DEF Mismatch, Complete
  <2>4. ASSUME Flush \/ Hold \/ PassThrough \/ GoLive \/ Report \/ Continue PROVE Caused'
    BY <2>2, <2>4, FlushIsCaused, HoldIsCaused, PassThroughIsCaused, GoLiveIsCaused, ReportIsCaused,
       ContinueIsCaused
  <2>5. ASSUME Answers PROVE Caused'
    BY <2>2, <2>5, LiveSettlesIsCaused DEF Answers
  <2> QED BY <1>3, <2>3, <2>4, <2>5 DEF Engine, Causing
<1> QED BY <1>1, <1>2, <1>3 DEF Next

-----------------------------------------------------------------------------
(* The gate never waits in vain *)

\* What has been released is over once nothing is under way.
LEMMA ReleasedIsOver ==
  ASSUME TypeOK, Running, GateStops, queue = <<>>, NEW k \in 1 .. cursor
  PROVE  order[k] \notin Open
<1>1. cursor \in Nat /\ cursor <= Len(order) /\ Len(order) \in Nat /\ order \in Seq(Instance)
  BY Types
<1>2. k \in 1 .. Len(order)
  BY <1>1
<1>3. order[k] \in ToSet(order) /\ \A j \in 1 .. Len(order) : order[j] = order[k] => j = k
  BY <1>1, <1>2, Elements DEF Running, LogOK
<1>4. order[k] \notin Ahead
  <2> SUFFICES ASSUME NEW j \in cursor + 1 .. Len(order), order[j] = order[k] PROVE FALSE
    BY DEF Ahead
  <2>1. j \in 1 .. Len(order) /\ j # k
    BY <1>1
  <2> QED BY <1>3, <2>1
<1>5. order[k] \notin parked
  BY <1>4 DEF GateStops
<1>6. order[k] \notin Live
  BY <1>3, LiveRows DEF Running, LogOK
<1>7. order[k] \notin ToSet(queue)
  BY DEF ToSet
<1> QED BY <1>5, <1>6, <1>7 DEF Open

\* When the script waits for answers only, every call that follows one of those
\* it has been given has been taken.
LEMMA IdleHasCalled ==
  ASSUME TypeOK, Running, Moves, Caused, Idle, NEW s \in NodeSite
  PROVE  Count(order, s, Branches + cursor) <= ordinal[s]
<1>1. /\ queue = <<>> /\ ToSet(calls) = {} /\ ToSet(replies) = {}
      /\ NoneLost /\ CallsOK /\ GateStops /\ ReleasedCalled
  BY DEF Idle, ToSet, Moves, Caused
<1>2. cursor \in 0 .. Len(order) /\ order \in Seq(Instance) /\ IsInjective(order)
  BY DEF TypeOK, Running, LogOK
<1>3. s \in Site
  BY Sites
<1>4. CASE s = 1
  <2>1. Count(order, s, Branches + cursor) = Branches
    BY <1>2, <1>4, FirstCalls
  <2>2. Gone(s) = Branch
    <3>1. ASSUME NEW b \in Branch PROVE at[b] > s \/ at[b] = s
      <4>1. PICK n \in Nat \ {0} : n = at[b]
        BY Types, Sites
      <4>2. n > 1 \/ n = 1
        OBVIOUS
      <4> QED BY <1>4, <4>1, <4>2
    <3> QED BY <1>1, <3>1 DEF Gone
  <2>3. Cardinality(Branch) = Branches /\ Branches \in Nat
    BY FS_Interval, ReplayOrderAssumption DEF Branch
  <2>4. ordinal[s] = Branches
    BY <1>1, <1>3, <2>2, <2>3 DEF CallsOK
  <2> QED BY <2>1, <2>3, <2>4
<1>5. CASE s # 1
  <2>1. PICK r \in NodeSite : s = r + 1 /\ r \in Nat
    <3>1. s - 1 \in NodeSite /\ s - 1 \in Nat /\ s = (s - 1) + 1
      BY <1>5, ReplayOrderAssumption DEF NodeSite
    <3> QED BY <3>1
  <2>2. \A k \in 1 .. cursor : order[k][2] <= ordinal[order[k][1]] /\ order[k] \notin Open
    BY <1>1, ReleasedIsOver DEF ReleasedCalled
  <2>3. PICK c \in 0 .. Len(order) : c = cursor
    BY <1>2
  <2>4. Count(order, s, Branches + cursor) <= Cardinality(AnsweredAt(r))
    BY <1>2, <2>1, <2>2, CallsHaveAnswers
  <2>5. Cardinality(Passed(r)) = Cardinality(AnsweredAt(r))
    BY <1>1, PassedAreAnswered
  <2>6. Passed(r) = Gone(s)
    <3>1. ASSUME NEW b \in Branch PROVE at[b] > r <=> at[b] > s \/ at[b] = s
      <4>1. PICK n \in Nat : n = at[b]
        BY Types, Sites
      <4>2. n > r <=> n > r + 1 \/ n = r + 1
        BY <2>1
      <4> QED BY <2>1, <4>1, <4>2
    <3> QED BY <1>1, <3>1 DEF Passed, Gone
  <2>7. ordinal[s] = Cardinality(Gone(s))
    BY <1>1, <1>3 DEF CallsOK
  <2> QED BY <2>4, <2>5, <2>6, <2>7
<1> QED BY <1>4, <1>5

\* The next entry of the order was called after the answers that have been
\* read, so it waits at the gate, which would have let it pass.
LEMMA IdleHasCaughtUp ==
  ASSUME TypeOK, Running, Moves, Caused, Idle
  PROVE  CaughtUp
<1>1. Len(order) \in Nat /\ cursor \in Nat /\ cursor <= Len(order) /\ Branches \in Nat /\ order \in Seq(Instance)
  BY Types, ReplayOrderAssumption
<1>2. CASE cursor = Len(order)
  BY <1>2 DEF CaughtUp
<1>3. CASE cursor < Len(order)
  <2>1. cursor + 1 \in 1 .. Len(order) /\ (cursor + 1) - 1 = cursor /\ cursor + 1 \in cursor + 1 .. Len(order)
    BY <1>1, <1>3
  <2>2. PICK i \in Instance : i = order[cursor + 1] /\ i \in ToSet(order)
    BY <1>1, <2>1, Sequence, Elements
  <2>3. i[1] \in NodeSite /\ i[1] \in Site
    BY <2>2, Sites DEF Running, LogOK, Finished
  <2>4. PICK L : L = Canon
    OBVIOUS
  <2>5. L \in Seq(Instance) /\ Len(L) \in Nat /\ Begins(order, L) /\ Causal(L)
    BY <2>4, OrderIsJournaled DEF Running, LogOK, Canon, Caused
  <2>6. cursor + 1 \in 1 .. Len(L) /\ L[cursor + 1] = i
    BY <1>1, <2>1, <2>2, <2>5 DEF Begins
  <2>7. i[2] <= Count(L, i[1], Branches + cursor)
    BY <2>1, <2>5, <2>6 DEF Causal
  <2>8. Branches + cursor \in 0 .. Total(order)
    BY <1>1 DEF Total
  <2>9. Count(L, i[1], Branches + cursor) = Count(order, i[1], Branches + cursor)
    BY <1>1, <2>5, <2>8, CallsOfLonger
  <2>10. Count(order, i[1], Branches + cursor) <= ordinal[i[1]]
    BY <2>3, IdleHasCalled
  <2>11. i[2] \in Nat /\ ordinal[i[1]] \in Nat /\ Count(order, i[1], Branches + cursor) \in Nat
    BY <1>1, <2>3, Types, CountIsNat DEF Instance
  <2>12. i[2] <= ordinal[i[1]]
    BY <2>7, <2>9, <2>10, <2>11
  <2>13. i \in Ahead
    BY <2>1, <2>2 DEF Ahead
  <2> QED BY <1>3, <2>2, <2>12, <2>13 DEF Moves, GateStops
<1> QED BY <1>1, <1>2, <1>3

LEMMA IdleIsNotStuck ==
  ASSUME Base, Moving, Causing
  PROVE  NothingHeldInVain
<1> SUFFICES ASSUME Idle, NEW b \in Branch, at[b] # ReportSite PROVE CaughtUp /\ Live # {}
  <2>1. Idle => TypeOK /\ Running /\ Moves /\ Caused
    BY DEF Base, Moving, Causing, Idle
  <2> QED BY <2>1, IdleHasCaughtUp DEF NothingHeldInVain
<1>1. TypeOK /\ Running /\ Moves /\ Caused
  BY DEF Base, Moving, Causing, Idle
<1>2. CaughtUp
  BY <1>1, IdleHasCaughtUp
<1>3. ToSet(calls) = {} /\ ToSet(replies) = {} /\ ToSet(queue) = {}
  BY DEF Idle, ToSet
<1>4. PICK i \in Open : BranchOf(i) = b
  BY <1>1, <1>3 DEF Moves, NoneLost
<1>5. parked = {}
  <2>1. Ahead = {}
    <3>1. cursor \in Nat /\ cursor = Len(order)
      BY <1>1, <1>2, Types DEF CaughtUp
    <3>2. \A j \in cursor + 1 .. Len(order) : FALSE
      BY <3>1
    <3> QED BY <3>2 DEF Ahead
  <2> QED BY <1>1, <2>1 DEF Moves, GateStops
<1> QED BY <1>2, <1>3, <1>4, <1>5 DEF Open

-----------------------------------------------------------------------------
(* The theorems *)

\* The journal, the log, the streams and the gate stay of their types, however
\* the run is interrupted except by a stop.
THEOREM TypeCorrect == ASSUME "stop" \notin Endings PROVE Spec => []TypeOK
<1>1. Init => Base
  BY InitGivesBase
<1>2. Base /\ [Next]_vars => Base'
  BY NextKeepsBase
<1>3. Base => TypeOK
  BY DEF Base
<1> QED BY <1>1, <1>2, <1>3, PTL DEF Spec

\* A resumed life replays the settle order that its predecessor replayed, and
\* at most more of it: what recoverSettleOrder reads from the journal and the
\* log only grows at its end, also when a life ends in the middle of its own
\* replay, by a crash or by one between the two writes of a settlement.
THEOREM ScheduleStays == ASSUME "stop" \notin Endings PROVE Spec => ScheduleIsStable
<1>1. Init => Base
  BY InitGivesBase
<1>2. Base /\ [Next]_vars => Base'
  BY NextKeepsBase
<1>3. Base /\ [Next]_vars => [IsPrefix(order, order')]_order
  BY NextKeepsBase
<1> QED BY <1>1, <1>2, <1>3, PTL DEF Spec, ScheduleIsStable

\* The hash check of the journal (readWorld, ask, publishReport) never fails
\* the run unless a crash has come between the two writes of a settlement, or a
\* live answer has overtaken cached ones, as long as no life is stopped.
THEOREM ReplaysAgree == ASSUME "stop" \notin Endings PROVE Spec => []ReplayAgrees
<1>1. Init => Base /\ Agrees /\ ReplayAgrees
  BY InitGivesBase, InitAgrees DEF Init, ReplayAgrees
<1>2. Base /\ Agrees /\ ReplayAgrees /\ [Next]_vars => (Base /\ Agrees /\ ReplayAgrees)'
  BY NextKeepsBase, NextAgrees
<1> QED BY <1>1, <1>2, PTL DEF Spec

\* The gate never waits for a call that does not come: when no call and no
\* answer is under way, everything that replay-order.ts held back has been
\* released, and a node is executing or all branches have reported.  This needs
\* no agreement of the lives: it holds whatever order live answers come in, and
\* also after a crash between the two writes of a settlement.
THEOREM GateNeverWaitsInVain ==
  ASSUME "stop" \notin Endings PROVE Spec => []NothingHeldInVain
<1> DEFINE All == Base /\ Moving /\ Causing
<1>1. Init => All
  BY InitGivesBase, InitMoves, InitIsCaused DEF Moving, Causing
<1>2. All /\ [Next]_vars => All'
  BY NextKeepsBase, NextMoves, NextIsCaused
<1>3. All => NothingHeldInVain
  BY IdleIsNotStuck
<1> HIDE DEF All
<1> QED BY <1>1, <1>2, <1>3, PTL DEF Spec
=============================================================================
