------------------------- MODULE WorkflowSeats_proofs -------------------------
(* What holds of the bound of a run for any subagents, limits and budgets:   *)
(* scheduler and gate agree, nobody is parked beside an empty seat, and      *)
(* requests go out within the bound.                                         *)
EXTENDS WorkflowSeats, FiniteSetTheorems, SequenceTheorems, WellFoundedInduction, TLAPS

AtWork(ph) == {a \in Actor : ph[a] \in {"step", "model"}}
Stopped(ph) == {a \in Actor : ph[a] = "parked"}
Current(ph) == {a \in Actor : ph[a] # "idle"}

\* The seats of the gate are those that the phases of the asks call for, and
\* nobody is parked beside an empty one.
Seated(w, p, ph, lim) ==
  /\ w \subseteq Actor /\ p \in Seq(Actor) /\ IsInjective(p) /\ ph \in [Actor -> Phase]
  /\ w = AtWork(ph) /\ ToSet(p) = Stopped(ph)
  /\ p # <<>> => Cardinality(w) >= lim

\* While the run lives both parts agree; afterwards only sessions that are
\* still being created are left.
Agreement ==
  IF runLive THEN Seated(working, parked, phase, limit) /\ activeAsks = Cardinality(Current(phase))
  ELSE parked = <<>> /\ \A a \in Actor : phase[a] \in {"idle", "opening"}

IInv == TypeOK /\ Agreement

-----------------------------------------------------------------------------
(* The order of the parked *)

LEMMA FiniteActors == ASSUME NEW S \in SUBSET Actor PROVE IsFiniteSet(S) /\ Cardinality(S) \in Nat
BY ActorAssumption, FS_Subset, FS_CardinalityType

\* A place is the last one or there is one after it.
LEMMA EndOrNot == ASSUME NEW l \in Nat, NEW n \in 0..l PROVE n + 1 <= l \/ n = l
OBVIOUS

\* The first n leave the order.
LEMMA Split ==
  ASSUME NEW p \in Seq(Actor), IsInjective(p), NEW n \in 0..Len(p)
  PROVE  LET first == ToSet(SubSeq(p, 1, n))
             rest == SubSeq(p, n + 1, Len(p))
         IN /\ first \subseteq ToSet(p) /\ Cardinality(first) = n
            /\ rest \in Seq(Actor) /\ IsInjective(rest) /\ ToSet(rest) = ToSet(p) \ first
            /\ Len(rest) = Len(p) - n
<1> DEFINE first == ToSet(SubSeq(p, 1, n))
           rest == SubSeq(p, n + 1, Len(p))
<1>1. Len(p) \in Nat /\ n \in Nat /\ DOMAIN p = 1..Len(p) /\ \A i \in 1..Len(p) : p[i] \in Actor
  OBVIOUS
<1>2. /\ SubSeq(p, 1, n) \in Seq(Actor) /\ DOMAIN SubSeq(p, 1, n) = 1..n
      /\ \A i \in 1..n : SubSeq(p, 1, n)[i] = p[i]
  BY <1>1
<1>3. first = {p[i] : i \in 1..n}
  BY <1>2 DEF ToSet
<1>4. /\ rest \in Seq(Actor) /\ Len(rest) = Len(p) - n /\ DOMAIN rest = 1..(Len(p) - n)
      /\ \A i \in 1..(Len(p) - n) : rest[i] = p[i + n]
  <2>1. (n + 1) \in Int /\ Len(p) \in Int /\ \A i \in (n + 1)..Len(p) : p[i] \in Actor
    BY <1>1
  <2>2. /\ rest \in Seq(Actor)
        /\ Len(rest) = IF n + 1 <= Len(p) THEN Len(p) - (n + 1) + 1 ELSE 0
        /\ \A i \in 1..(Len(p) - (n + 1) + 1) : rest[i] = p[(n + 1) + i - 1]
    BY <2>1, SubSeqProperties
  <2> HIDE DEF rest
  <2>3. Len(rest) = Len(p) - n
    <3>1. CASE n + 1 <= Len(p)
      BY <1>1, <2>2, <3>1
    <3>2. CASE n = Len(p)
      BY <1>1, <2>2, <3>2, SMTT(30)
    <3>3. n + 1 <= Len(p) \/ n = Len(p)
      BY <1>1, EndOrNot
    <3> QED BY <3>1, <3>2, <3>3
  <2>4. ASSUME NEW i \in 1..(Len(p) - n) PROVE rest[i] = p[i + n]
    <3>1. i \in 1..(Len(p) - (n + 1) + 1) /\ (n + 1) + i - 1 = i + n
      BY <1>1
    <3> QED BY <2>2, <3>1
  <2> QED BY <2>2, <2>3, <2>4
<1> HIDE DEF first, rest
<1>5. first \subseteq ToSet(p)
  BY <1>1, <1>3 DEF ToSet
<1>6. Cardinality(first) = n
  <2> DEFINE f == [i \in 1..n |-> p[i]]
  <2>1. f \in Bijection(1..n, first)
    BY <1>1, <1>3 DEF Bijection, Injection, Surjection, IsInjective
  <2>2. ExistsBijection(1..n, first)
    BY <2>1 DEF ExistsBijection
  <2>3. IsFiniteSet(1..n) /\ Cardinality(1..n) = n
    BY FS_Interval
  <2> QED BY <2>2, <2>3, FS_Bijection
<1>7. IsInjective(rest)
  <2> SUFFICES ASSUME NEW i \in 1..(Len(p) - n), NEW j \in 1..(Len(p) - n), rest[i] = rest[j]
               PROVE  i = j
    BY <1>4 DEF IsInjective
  <2>1. (i + n) \in DOMAIN p /\ (j + n) \in DOMAIN p /\ p[i + n] = p[j + n]
    BY <1>1, <1>4
  <2> QED BY <1>1, <2>1 DEF IsInjective
<1>8. ToSet(rest) = ToSet(p) \ first
  <2>1. ASSUME NEW x \in ToSet(rest) PROVE x \in ToSet(p) \ first
    <3>1. PICK i \in 1..(Len(p) - n) : x = p[i + n]
      BY <1>4 DEF ToSet
    <3> QED BY <1>1, <1>3, <3>1 DEF ToSet, IsInjective
  <2>2. ASSUME NEW x \in ToSet(p) \ first PROVE x \in ToSet(rest)
    <3>1. PICK i \in 1..Len(p) : x = p[i]
      BY <1>1 DEF ToSet
    <3>2. i > n
      BY <1>3, <3>1
    <3>3. (i - n) \in 1..(Len(p) - n) /\ rest[i - n] = x
      BY <1>1, <1>4, <3>1, <3>2
    <3> QED BY <1>4, <3>3 DEF ToSet
  <2> QED BY <2>1, <2>2
<1> QED BY <1>4, <1>5, <1>6, <1>7, <1>8 DEF first, rest

LEMMA LengthIsNumber ==
  ASSUME NEW p \in Seq(Actor), IsInjective(p) PROVE Len(p) = Cardinality(ToSet(p))
<1>1. Len(p) \in 0..Len(p) /\ SubSeq(p, 1, Len(p)) = p
  BY SubSeqFull
<1>2. Cardinality(ToSet(SubSeq(p, 1, Len(p)))) = Len(p)
  BY <1>1, Split
<1> QED BY <1>1, <1>2

\* One member leaves the order.
LEMMA OneLess ==
  ASSUME NEW p \in Seq(Actor), IsInjective(p), NEW a \in ToSet(p)
  PROVE  Without(p, a) \in Seq(Actor) /\ IsInjective(Without(p, a)) /\ ToSet(Without(p, a)) = ToSet(p) \ {a}
<1> DEFINE k == CHOOSE k \in DOMAIN p : p[k] = a
           rest == Without(p, a)
<1>1. k \in 1..Len(p) /\ p[k] = a /\ Len(p) \in Nat /\ DOMAIN p = 1..Len(p)
      /\ \A i \in 1..Len(p) : p[i] \in Actor
  BY DEF ToSet
<1>2. rest = SubSeq(p, 1, k - 1) \o SubSeq(p, k + 1, Len(p))
  BY DEF Without, RemoveAt
<1> HIDE DEF k, rest
<1>3. /\ rest \in Seq(Actor) /\ Len(rest) = Len(p) - 1 /\ DOMAIN rest = 1..(Len(p) - 1)
      /\ \A i \in 1..(Len(p) - 1) : rest[i] = IF i < k THEN p[i] ELSE p[i + 1]
  <2> DEFINE u == SubSeq(p, 1, k - 1)
             v == SubSeq(p, k + 1, Len(p))
  <2>1. /\ u \in Seq(Actor) /\ Len(u) = IF 1 <= k - 1 THEN (k - 1) - 1 + 1 ELSE 0
        /\ \A i \in 1..((k - 1) - 1 + 1) : u[i] = p[1 + i - 1]
    BY <1>1, SubSeqProperties
  <2>2. /\ v \in Seq(Actor) /\ Len(v) = IF k + 1 <= Len(p) THEN Len(p) - (k + 1) + 1 ELSE 0
        /\ \A i \in 1..(Len(p) - (k + 1) + 1) : v[i] = p[(k + 1) + i - 1]
    BY <1>1, SubSeqProperties
  <2>3. rest = u \o v
    BY <1>2
  <2> HIDE DEF u, v
  <2>4. Len(u) = k - 1 /\ Len(v) = Len(p) - k
    <3>1. Len(u) = k - 1
      BY <1>1, <2>1
    <3>2. CASE k + 1 <= Len(p)
      BY <1>1, <2>2, <3>1, <3>2
    <3>3. CASE k = Len(p)
      BY <1>1, <2>2, <3>1, <3>3, SMTT(30)
    <3>4. k + 1 <= Len(p) \/ k = Len(p)
      <4>1. k \in 0..Len(p)
        BY <1>1
      <4> QED BY <1>1, <4>1, EndOrNot
    <3> QED BY <3>2, <3>3, <3>4
  <2>5. /\ rest \in Seq(Actor) /\ Len(rest) = Len(u) + Len(v)
        /\ \A i \in 1..(Len(u) + Len(v)) : rest[i] = IF i <= Len(u) THEN u[i] ELSE v[i - Len(u)]
    BY <2>1, <2>2, <2>3, ConcatProperties
  <2>6. ASSUME NEW i \in 1..(Len(p) - 1) PROVE rest[i] = IF i < k THEN p[i] ELSE p[i + 1]
    <3>1. i \in 1..(Len(u) + Len(v)) /\ k \in Nat
      BY <1>1, <2>4
    <3>2. CASE i < k
      <4>1. i \in 1..((k - 1) - 1 + 1) /\ i <= Len(u) /\ 1 + i - 1 = i
        BY <1>1, <2>4, <3>2
      <4> QED BY <2>1, <2>5, <3>1, <3>2, <4>1
    <3>3. CASE ~ (i < k)
      <4>1. /\ (i - (k - 1)) \in 1..(Len(p) - (k + 1) + 1) /\ ~ (i <= Len(u))
            /\ (k + 1) + (i - (k - 1)) - 1 = i + 1 /\ i - Len(u) = i - (k - 1)
        BY <1>1, <2>4, <3>1, <3>3
      <4> QED BY <2>2, <2>5, <3>1, <3>3, <4>1
    <3> QED BY <3>2, <3>3
  <2> QED BY <1>1, <2>4, <2>5, <2>6
<1>4. IsInjective(rest)
  BY <1>1, <1>3, SMTT(30) DEF IsInjective
<1>5. ToSet(rest) = ToSet(p) \ {a}
  <2>1. ASSUME NEW x \in ToSet(rest) PROVE x \in ToSet(p) \ {a}
    <3>1. PICK i \in 1..(Len(p) - 1) : x = rest[i]
      BY <1>3 DEF ToSet
    <3>2. PICK j \in 1..Len(p) : x = p[j] /\ j # k
      BY <1>1, <1>3, <3>1
    <3> QED BY <1>1, <3>2 DEF ToSet, IsInjective
  <2>2. ASSUME NEW x \in ToSet(p) \ {a} PROVE x \in ToSet(rest)
    <3>1. PICK j \in 1..Len(p) : x = p[j]
      BY <1>1 DEF ToSet
    <3>2. CASE j < k
      BY <1>1, <1>3, <3>1, <3>2 DEF ToSet
    <3>3. CASE j > k
      <4>1. (j - 1) \in 1..(Len(p) - 1) /\ rest[j - 1] = x
        BY <1>1, <1>3, <3>1, <3>3
      <4> QED BY <1>3, <4>1 DEF ToSet
    <3> QED BY <1>1, <3>1, <3>2, <3>3
  <2> QED BY <2>1, <2>2
<1> QED BY <1>3, <1>4, <1>5 DEF rest

-----------------------------------------------------------------------------
(* The gate *)

\* The seats u, come from the phases ph, are filled and no more: only asks that
\* were parked go on, and within the bound.
Filled(u, ph, lim) ==
  /\ Seated(u.working, u.parked, u.phase, lim)
  /\ Current(u.phase) = Current(ph)
  /\ \A a \in Actor : /\ u.phase[a] = "opening" <=> ph[a] = "opening"
                      /\ ph[a] # "model" /\ u.phase[a] = "model"
                           => Cardinality(u.working) <= lim

\* Those that are let go on fill the seats and no more.
LEMMA UnparkFills ==
  ASSUME NEW w, NEW p \in Seq(Actor), IsInjective(p), NEW ph \in [Actor -> Phase],
         w = AtWork(ph), ToSet(p) = Stopped(ph), NEW lim \in Nat
  PROVE  Filled(Unpark(w, p, lim, ph), ph, lim)
<1> DEFINE n == Granted(w, p, lim)
           first == ToSet(SubSeq(p, 1, n))
           rest == SubSeq(p, n + 1, Len(p))
           on == [a \in Actor |-> IF a \in first THEN "model" ELSE ph[a]]
<1>1. w \in SUBSET Actor /\ Cardinality(w) \in Nat /\ IsFiniteSet(w)
  BY FiniteActors DEF AtWork
<1>2. n \in 0..Len(p) /\ (n < Len(p) => n = FreeSeats(w, lim)) /\ n <= FreeSeats(w, lim)
  BY <1>1 DEF Granted, Least, FreeSeats
<1>3. /\ first \subseteq Stopped(ph) /\ Cardinality(first) = n
      /\ rest \in Seq(Actor) /\ IsInjective(rest) /\ ToSet(rest) = Stopped(ph) \ first
      /\ Len(rest) = Len(p) - n
  BY <1>2, Split
<1>4. LET u == Unpark(w, p, lim, ph)
      IN u.working = w \cup first /\ u.parked = rest /\ u.phase = on
  BY DEF Unpark
<1> HIDE DEF n, first, rest
<1>5. first \subseteq Actor /\ IsFiniteSet(first)
  BY <1>3, FiniteActors DEF Stopped
<1>6. w \cap first = {}
  BY <1>3 DEF AtWork, Stopped
<1>7. Cardinality(w \cup first) = Cardinality(w) + n
  <2>1. Cardinality(w \cup first) = Cardinality(w) + Cardinality(first) - Cardinality({})
    BY <1>1, <1>5, <1>6, FS_Union
  <2> QED BY <1>1, <1>2, <1>3, <2>1, FS_EmptySet
<1>8. on \in [Actor -> Phase]
  BY DEF Phase
<1>9. w \cup first = AtWork(on) /\ Stopped(ph) \ first = Stopped(on) /\ Current(on) = Current(ph)
  BY <1>3, <1>5 DEF AtWork, Stopped, Current
<1>10. rest # <<>> => Cardinality(w \cup first) >= lim
  <2> SUFFICES ASSUME rest # <<>> PROVE Cardinality(w) + n >= lim
    BY <1>7
  <2>1. Len(rest) # 0
    BY <1>3
  <2>2. n < Len(p)
    BY <1>2, <1>3, <2>1
  <2> QED BY <1>1, <1>2, <2>2 DEF FreeSeats
<1>11. first # {} => Cardinality(w \cup first) <= lim
  <2> SUFFICES ASSUME first # {} PROVE Cardinality(w) + n <= lim
    BY <1>7
  <2>1. n # 0
    BY <1>3, <1>5, FS_EmptySet
  <2> QED BY <1>1, <1>2, <2>1 DEF FreeSeats
<1>12. Seated(w \cup first, rest, on, lim)
  BY <1>1, <1>3, <1>5, <1>8, <1>9, <1>10 DEF Seated
<1>13. \A a \in Actor : /\ on[a] = "opening" <=> ph[a] = "opening"
                        /\ ph[a] # "model" /\ on[a] = "model" => first # {}
  BY <1>3 DEF Stopped
<1> QED BY <1>4, <1>9, <1>11, <1>12, <1>13 DEF Filled

LEMMA SettlementSeats ==
  ASSUME IInv, runLive, NEW a \in Actor, phase[a] # "idle"
  PROVE  LET u == SeatsAfterSettlement(a, [phase EXCEPT ![a] = "idle"])
         IN /\ Seated(u.working, u.parked, u.phase, limit)
            /\ Current(u.phase) = Current(phase) \ {a}
            /\ \A b \in Actor : /\ u.phase[b] = "opening" => phase[b] = "opening"
                                /\ phase[b] # "model" /\ u.phase[b] = "model"
                                     => Cardinality(u.working) <= limit
<1> DEFINE ph == [phase EXCEPT ![a] = "idle"]
           u == SeatsAfterSettlement(a, ph)
<1>1. Seated(working, parked, phase, limit) /\ limit \in Nat
  BY LimitAssumption DEF IInv, Agreement, TypeOK
<1>2. ph \in [Actor -> Phase] /\ Current(ph) = Current(phase) \ {a}
  BY <1>1 DEF Seated, Phase, Current
<1>3. AtWork(ph) = working \ {a} /\ Stopped(ph) = ToSet(parked) \ {a}
  BY <1>1 DEF Seated, AtWork, Stopped
<1>4. \A b \in Actor : ph[b] = phase[b] \/ ph[b] = "idle"
  BY <1>1 DEF Seated
<1>8. ph[a] = "idle"
  BY <1>1 DEF Seated
<1> HIDE DEF ph
<1> SUFFICES /\ Seated(u.working, u.parked, u.phase, limit)
             /\ Current(u.phase) = Current(phase) \ {a}
             /\ \A b \in Actor : /\ u.phase[b] = "opening" => phase[b] = "opening"
                                 /\ phase[b] # "model" /\ u.phase[b] = "model"
                                      => Cardinality(u.working) <= limit
  BY DEF ph
<1>5. CASE a \in ToSet(parked)
  <2>1. u = [working |-> working, parked |-> Without(parked, a), phase |-> ph]
    BY <1>5 DEF SeatsAfterSettlement
  <2>2. a \notin working
    BY <1>1, <1>5 DEF Seated, AtWork, Stopped
  <2>3. parked # <<>>
    BY <1>5 DEF ToSet
  <2>4. Seated(working, Without(parked, a), ph, limit)
    BY <1>1, <1>2, <1>3, <1>5, <2>2, <2>3, OneLess DEF Seated
  <2> QED BY <1>2, <1>4, <1>8, <2>1, <2>4
<1>6. CASE a \notin ToSet(parked) /\ a \in working
  <2>1. u = Unpark(working \ {a}, parked, limit, ph)
    BY <1>6 DEF SeatsAfterSettlement
  <2>2. ToSet(parked) = Stopped(ph)
    BY <1>3, <1>6
  <2>3. /\ Seated(u.working, u.parked, u.phase, limit)
        /\ Current(u.phase) = Current(ph)
        /\ \A b \in Actor : /\ u.phase[b] = "opening" <=> ph[b] = "opening"
                            /\ ph[b] # "model" /\ u.phase[b] = "model"
                                 => Cardinality(u.working) <= limit
    <3>1. parked \in Seq(Actor) /\ IsInjective(parked) /\ working \ {a} = AtWork(ph)
      BY <1>1, <1>3 DEF Seated
    <3>2. Filled(Unpark(working \ {a}, parked, limit, ph), ph, limit)
      BY <1>1, <1>2, <2>2, <3>1, UnparkFills
    <3> QED BY <2>1, <3>2 DEF Filled
  <2> QED BY <1>2, <1>4, <2>3
<1>7. CASE a \notin ToSet(parked) /\ a \notin working
  <2>1. u = [working |-> working, parked |-> parked, phase |-> ph]
    BY <1>7 DEF SeatsAfterSettlement
  <2>2. Seated(working, parked, ph, limit)
    BY <1>1, <1>2, <1>3, <1>7 DEF Seated
  <2> QED BY <1>2, <1>4, <1>8, <2>1, <2>2
<1> QED BY <1>5, <1>6, <1>7 DEF ph

-----------------------------------------------------------------------------
(* The scheduler *)

\* pumpAll, from the phases ph, starts new asks only, below the bound, and
\* counts them.
Counted(ph, active, cap) ==
  /\ phase' \in [Actor -> Phase] /\ queued' \in [Actor -> Nat]
  /\ repairs' \in [Actor -> 0..REPAIR_ATTEMPTS] /\ nudges' \in [Actor -> 0..NUDGE_ATTEMPTS]
  /\ activeAsks' = Cardinality(Current(phase')) /\ activeAsks' \in Nat
  /\ AtWork(phase') = AtWork(ph) /\ Stopped(phase') = Stopped(ph)
  /\ \A a \in Actor : /\ phase'[a] = "model" <=> ph[a] = "model"
                      /\ ph[a] # "opening" /\ phase'[a] = "opening" => active < cap

\* Asks are dispatched to subagents that have none, and are counted.
LEMMA PumpCounts ==
  ASSUME TypeOK, NEW first, NEW ph \in [Actor -> Phase], NEW waiting \in [Actor -> Nat],
         NEW cap \in Nat, NEW active, active = Cardinality(Current(ph)),
         Pump(first, ph, waiting, active, cap)
  PROVE  Counted(ph, active, cap)
<1> DEFINE idle == {a \in Actor : ph[a] = "idle"}
           pumped == PumpedFrom(first, idle, waiting, active, cap)
<1>1. pumped \subseteq idle /\ \A a \in pumped : waiting[a] > 0
  BY DEF PumpedFrom
<1>2. pumped # {} => active < cap
  <2> SUFFICES ASSUME NEW a \in pumped PROVE active < cap
    OBVIOUS
  <2> DEFINE S == {b \in {c \in idle : waiting[c] > 0} \ {a} :
                     b \in first \/ (a \notin first /\ Rank[b] < Rank[a])}
  <2>1. Cardinality(S) < Room(active, cap)
    BY DEF PumpedFrom
  <2>2. Cardinality(S) \in Nat /\ active \in Nat
    BY FiniteActors DEF Current
  <2> QED BY <2>1, <2>2 DEF Room
<1>3. /\ phase' = Dispatched(ph, pumped) /\ queued' = Taken(waiting, pumped)
      /\ activeAsks' = active + Cardinality(pumped)
      /\ repairs' = Fresh(repairs, pumped, REPAIR_ATTEMPTS)
      /\ nudges' = Fresh(nudges, pumped, NUDGE_ATTEMPTS)
  BY DEF Pump
<1> HIDE DEF pumped
<1>4. phase' \in [Actor -> Phase] /\ queued' \in [Actor -> Nat]
  BY <1>1, <1>3 DEF Dispatched, Taken, Phase
<1>5. repairs' \in [Actor -> 0..REPAIR_ATTEMPTS] /\ nudges' \in [Actor -> 0..NUDGE_ATTEMPTS]
  BY <1>3, BoundAssumption DEF Fresh, TypeOK
<1>6. Current(phase') = Current(ph) \cup pumped /\ Current(ph) \cap pumped = {}
  BY <1>1, <1>3 DEF Dispatched, Current
<1>7. activeAsks' = Cardinality(Current(phase')) /\ activeAsks' \in Nat
  <2>1. /\ IsFiniteSet(Current(ph)) /\ Cardinality(Current(ph)) \in Nat
        /\ IsFiniteSet(pumped) /\ Cardinality(pumped) \in Nat
    BY <1>1, FiniteActors DEF Current
  <2> QED BY <1>3, <1>6, <2>1, FS_Union, FS_EmptySet
<1>8. AtWork(phase') = AtWork(ph) /\ Stopped(phase') = Stopped(ph)
  BY <1>1, <1>3 DEF Dispatched, AtWork, Stopped
<1>9. \A a \in Actor : /\ phase'[a] = "model" <=> ph[a] = "model"
                       /\ ph[a] # "opening" /\ phase'[a] = "opening" => pumped # {}
  BY <1>1, <1>3 DEF Dispatched
<1> QED BY <1>2, <1>4, <1>5, <1>7, <1>8, <1>9 DEF Counted

\* Of some subagents one is the eldest.
LEMMA Eldest ==
  ASSUME NEW S \in SUBSET Actor, S # {} PROVE \E a \in S : \A b \in S : ~ (Rank[b] < Rank[a])
<1> DEFINE T == {Rank[a] : a \in S}
<1>1. T \subseteq Nat /\ T # {}
  BY ActorAssumption
<1>2. PICK m \in T : \A k \in T : <<k, m>> \notin OpToRel(<, Nat)
  BY <1>1, WFMin, NatLessThanWellFounded, Zenon
<1>3. \A k \in T : ~ (k < m)
  BY <1>1, <1>2, Zenon DEF OpToRel
<1>4. PICK a \in S : m = Rank[a]
  BY <1>2
<1> QED BY <1>3, <1>4

\* Whoever asks first, the room is filled: if some is left, no ask is.
LEMMA PumpFillsRoom ==
  ASSUME TypeOK, NEW first \in SUBSET Actor, first = {} \/ \E a \in Actor : first = {a},
         NEW ph \in [Actor -> Phase], NEW waiting \in [Actor -> Nat],
         NEW cap \in Nat, NEW active, active = Cardinality(Current(ph)),
         Pump(first, ph, waiting, active, cap), activeAsks' < cap
  PROVE  \A a \in Actor : phase'[a] = "idle" => queued'[a] = 0
<1> DEFINE idle == {a \in Actor : ph[a] = "idle"}
           eligible == {a \in idle : waiting[a] > 0}
           Ahead(a, b) == a \in first \/ (b \notin first /\ Rank[a] < Rank[b])
           Before(a) == {b \in eligible \ {a} : Ahead(b, a)}
           pumped == {a \in eligible : Cardinality(Before(a)) < Room(active, cap)}
<1>1. /\ phase' = Dispatched(ph, pumped) /\ queued' = Taken(waiting, pumped)
      /\ activeAsks' = active + Cardinality(pumped)
  BY DEF Pump, PumpedFrom
<1>2. /\ IsFiniteSet(pumped) /\ Cardinality(pumped) \in Nat /\ active \in Nat
      /\ \A a \in Actor : Cardinality(Before(a)) \in Nat
  BY FiniteActors DEF Current
<1>3. Room(active, cap) = cap - active /\ Cardinality(pumped) < cap - active
  BY <1>1, <1>2 DEF Room
<1>4. eligible = pumped
  <2> SUFFICES ASSUME eligible \ pumped # {} PROVE FALSE
    BY DEF pumped
  <2>1. PICK x \in eligible \ pumped : \A y \in eligible \ pumped : ~ (Rank[y] < Rank[x])
    <3>1. eligible \ pumped \in SUBSET Actor
      OBVIOUS
    <3> HIDE DEF pumped, eligible
    <3> QED BY <3>1, Eldest
  <2>2. ASSUME NEW y \in eligible, y \in first PROVE y \in pumped
    <3>1. first = {y}
      BY <2>2
    <3>2. Before(y) = {}
      BY <3>1
    <3>3. Cardinality(Before(y)) = 0
      BY <3>2, FS_EmptySet
    <3> HIDE DEF Before
    <3> QED BY <1>2, <1>3, <3>3
  <2>3. Before(x) \subseteq pumped
    BY <2>1, <2>2
  <2>4. Cardinality(Before(x)) <= Cardinality(pumped)
    <3> HIDE DEF pumped, Before
    <3> QED BY <1>2, <2>3, FS_Subset
  <2>5. ~ (Cardinality(Before(x)) < Room(active, cap))
    BY <2>1
  <2>6. Cardinality(Before(x)) \in Nat
    BY <1>2, <2>1
  <2> HIDE DEF pumped, Before
  <2> QED BY <1>2, <1>3, <2>4, <2>5, <2>6
<1> HIDE DEF pumped
<1>5. ASSUME NEW a \in Actor, phase'[a] = "idle" PROVE queued'[a] = 0
  <2>1. a \notin pumped /\ ph[a] = "idle"
    BY <1>1, <1>5 DEF Dispatched
  <2>2. ~ (waiting[a] > 0) /\ queued'[a] = waiting[a]
    BY <1>1, <1>4, <2>1 DEF Taken
  <2> QED BY <2>2
<1> QED BY <1>5

-----------------------------------------------------------------------------
(* What every step keeps *)

\* The invariant holds after the step; what the step let out is within the
\* bound, and it dispatched nothing past somebody who is parked.
Kept ==
  /\ IInv' /\ NoIdleRoom'
  /\ \A a \in Actor : phase[a] # "model" /\ phase'[a] = "model" => Cardinality(working') <= limit'
  /\ \A a \in Actor : phase[a] # "opening" /\ phase'[a] = "opening" => parked' = <<>>

\* The tail of a handler: the seats agree with the phases ph, then comes pumpAll.
LEMMA PumpKeeps ==
  ASSUME IInv, runLive', limit' \in Limit,
         asked' \in [Actor -> Nat], \A a \in Actor : asked'[a] <= MaxAsks[a],
         retunes' \in 0..MaxRetunes, aborts' \in 0..MaxAborts,
         runLive' \in BOOLEAN,
         NEW first \in SUBSET Actor, first = {} \/ \E a \in Actor : first = {a},
         NEW ph, Seated(working', parked', ph, limit'),
         NEW waiting \in [Actor -> Nat], NEW active, active = Cardinality(Current(ph)),
         \A a \in Actor : ph[a] = "opening" => phase[a] = "opening",
         \A a \in Actor : phase[a] # "model" /\ ph[a] = "model" => Cardinality(working') <= limit',
         Pump(first, ph, waiting, active, limit')
  PROVE  Kept
<1>1. TypeOK /\ limit' \in Nat /\ ph \in [Actor -> Phase]
  BY LimitAssumption DEF IInv, Seated
<1>2. Counted(ph, active, limit')
  BY <1>1, PumpCounts
<1>3. Seated(working', parked', phase', limit')
  BY <1>2 DEF Seated, Counted
<1>4. TypeOK'
  BY <1>2, <1>3 DEF TypeOK, Seated, Counted
<1>5. IInv'
  BY <1>2, <1>3, <1>4 DEF IInv, Agreement, Counted
<1>6. NoIdleRoom'
  <2>1. activeAsks' < limit' => \A a \in Actor : phase'[a] = "idle" => queued'[a] = 0
    BY <1>1, PumpFillsRoom
  <2> QED BY <2>1 DEF NoIdleRoom
<1>7. active < limit' => parked' = <<>>
  <2>1. working' \subseteq Current(ph) /\ Current(ph) \in SUBSET Actor
    BY DEF Seated, AtWork, Current
  <2>2. /\ Cardinality(working') <= active /\ active \in Nat /\ Cardinality(working') \in Nat
    BY <2>1, FiniteActors, FS_Subset
  <2> QED BY <1>1, <2>2 DEF Seated
<1> QED BY <1>2, <1>5, <1>6, <1>7 DEF Kept, Counted

\* A step without pumpAll, of an ask that stays its subagent's.
LEMMA StepKeeps ==
  ASSUME IInv, NoIdleRoom, runLive, UNCHANGED <<runLive, limit, activeAsks, queued, asked, retunes>>,
         aborts' \in 0..MaxAborts,
         repairs' \in [Actor -> 0..REPAIR_ATTEMPTS], nudges' \in [Actor -> 0..NUDGE_ATTEMPTS],
         NEW a \in Actor, phase[a] # "idle", NEW new \in Phase \ {"idle", "opening"},
         phase' = [phase EXCEPT ![a] = new],
         Seated(working', parked', phase', limit),
         new = "model" /\ phase[a] # "model" => Cardinality(working') <= limit
  PROVE  Kept
<1>1. phase' \in [Actor -> Phase] /\ phase'[a] = new /\ \A b \in Actor \ {a} : phase'[b] = phase[b]
  BY DEF IInv, TypeOK
<1>2. Current(phase') = Current(phase)
  BY <1>1 DEF Current
<1>3. TypeOK' /\ runLive'
  BY <1>1 DEF IInv, TypeOK, Seated
<1>4. Agreement'
  BY <1>2, <1>3 DEF IInv, Agreement
<1>5. NoIdleRoom'
  BY <1>1 DEF NoIdleRoom
<1> QED BY <1>1, <1>3, <1>4, <1>5 DEF Kept, IInv

\* While the run lives everything the gate and the scheduler hold agrees.
LEMMA Live ==
  ASSUME IInv, runLive
  PROVE  /\ TypeOK /\ Seated(working, parked, phase, limit) /\ limit \in Nat
         /\ activeAsks = Cardinality(Current(phase)) /\ phase \in [Actor -> Phase]
BY LimitAssumption DEF IInv, Agreement, TypeOK

\* An ask that is at work, or waits for a seat, belongs to a run that lives.
LEMMA AtWorkIsLive == ASSUME IInv, NEW a \in Actor, phase[a] \notin {"idle", "opening"} PROVE runLive
BY DEF IInv, Agreement

LEMMA AdmitKeeps == ASSUME IInv, NEW a \in Actor, Admit(a) PROVE Kept
<1>1. runLive /\ runLive' /\ limit' = limit /\ working' = working /\ parked' = parked
      /\ retunes' = retunes /\ aborts' = aborts /\ asked' = [asked EXCEPT ![a] = @ + 1]
  BY DEF Admit, seatVars, boundVars
<1>2. /\ asked' \in [Actor -> Nat] /\ \A b \in Actor : asked'[b] <= MaxAsks[b]
  <2>1. asked \in [Actor -> Nat] /\ MaxAsks \in [Actor -> Nat] /\ asked[a] < MaxAsks[a]
        /\ \A b \in Actor : asked[b] <= MaxAsks[b]
    BY BoundAssumption DEF Admit, IInv, TypeOK
  <2>2. asked' \in [Actor -> Nat] /\ asked'[a] = asked[a] + 1 /\ \A b \in Actor \ {a} : asked'[b] = asked[b]
    BY <1>1, <2>1
  <2>3. asked'[a] <= MaxAsks[a]
    <3>1. asked[a] \in Nat /\ MaxAsks[a] \in Nat
      BY <2>1
    <3> QED BY <2>1, <2>2, <3>1
  <2> QED BY <2>1, <2>2, <2>3
<1>3. [queued EXCEPT ![a] = @ + 1] \in [Actor -> Nat]
  BY DEF IInv, TypeOK
<1>4. \A b \in Actor : phase[b] = "opening" => phase[b] = "opening"
  OBVIOUS
<1>5. Pump({a}, phase, [queued EXCEPT ![a] = @ + 1], activeAsks, limit')
  BY <1>1 DEF Admit
<1>6. retunes' \in 0..MaxRetunes /\ aborts' \in 0..MaxAborts /\ runLive' \in BOOLEAN /\ limit' \in Limit
  BY <1>1 DEF IInv, TypeOK
<1>7. Seated(working', parked', phase, limit') /\ activeAsks = Cardinality(Current(phase))
  BY <1>1, Live
<1> QED BY <1>1, <1>2, <1>3, <1>5, <1>6, <1>7, PumpKeeps

LEMMA SettleKeeps == ASSUME IInv, runLive, NEW a \in Actor, phase[a] # "idle", Settle(a) PROVE Kept
<1> DEFINE u == SeatsAfterSettlement(a, [phase EXCEPT ![a] = "idle"])
<1>1. /\ working' = u.working /\ parked' = u.parked
      /\ Pump({}, u.phase, queued, activeAsks - 1, limit)
      /\ UNCHANGED <<runLive, limit, asked, retunes, aborts>>
  BY DEF Settle, ActiveAfterSettlement, boundVars
<1>2. /\ Seated(u.working, u.parked, u.phase, limit)
      /\ Current(u.phase) = Current(phase) \ {a}
      /\ \A b \in Actor : /\ u.phase[b] = "opening" => phase[b] = "opening"
                          /\ phase[b] # "model" /\ u.phase[b] = "model"
                               => Cardinality(u.working) <= limit
  BY SettlementSeats
<1> HIDE DEF u
<1>3. activeAsks - 1 = Cardinality(Current(u.phase))
  <2>1. IsFiniteSet(Current(phase)) /\ a \in Current(phase)
    BY FiniteActors DEF Current
  <2> QED BY <1>2, <2>1, Live, FS_RemoveElement
<1>4. queued \in [Actor -> Nat] /\ asked' \in [Actor -> Nat] /\ (\A b \in Actor : asked'[b] <= MaxAsks[b])
      /\ retunes' \in 0..MaxRetunes /\ aborts' \in 0..MaxAborts /\ runLive' \in BOOLEAN /\ limit' \in Limit
      /\ runLive'
  BY <1>1 DEF IInv, TypeOK
<1>5. Seated(working', parked', u.phase, limit') /\ Pump({}, u.phase, queued, activeAsks - 1, limit')
  BY <1>1, <1>2
<1>6. \A b \in Actor : phase[b] # "model" /\ u.phase[b] = "model" => Cardinality(working') <= limit'
  BY <1>1, <1>2
<1> QED BY <1>2, <1>3, <1>4, <1>5, <1>6, PumpKeeps

LEMMA OneMore ==
  ASSUME NEW p \in Seq(Actor), IsInjective(p), NEW a \in Actor \ ToSet(p)
  PROVE  /\ Append(p, a) \in Seq(Actor) /\ IsInjective(Append(p, a))
         /\ ToSet(Append(p, a)) = ToSet(p) \cup {a}
<1> DEFINE q == Append(p, a)
<1>1. /\ q \in Seq(Actor) /\ Len(q) = Len(p) + 1 /\ Len(p) \in Nat /\ DOMAIN p = 1..Len(p)
      /\ DOMAIN q = 1..(Len(p) + 1) /\ (\A i \in 1..Len(p) : q[i] = p[i]) /\ q[Len(p) + 1] = a
  BY AppendProperties
<1> HIDE DEF q
<1>2. \A i \in 1..Len(p) : p[i] # a
  BY <1>1 DEF ToSet
<1>3. \A i \in 1..(Len(p) + 1) : i \in 1..Len(p) \/ i = Len(p) + 1
  BY <1>1
<1>4. IsInjective(q)
  <2> SUFFICES ASSUME NEW i \in 1..(Len(p) + 1), NEW j \in 1..(Len(p) + 1), q[i] = q[j] PROVE i = j
    BY <1>1 DEF IsInjective
  <2> QED BY <1>1, <1>2, <1>3 DEF IsInjective
<1>5. ToSet(q) = ToSet(p) \cup {a}
  <2>1. ToSet(q) = {q[i] : i \in 1..(Len(p) + 1)} /\ ToSet(p) = {p[i] : i \in 1..Len(p)}
    BY <1>1 DEF ToSet
  <2>2. 1..(Len(p) + 1) = 1..Len(p) \cup {Len(p) + 1}
    BY <1>1
  <2> QED BY <1>1, <2>1, <2>2
<1> QED BY <1>1, <1>4, <1>5 DEF q

LEMMA SessionReadyKeeps == ASSUME IInv, NoIdleRoom, NEW a \in Actor, SessionReady(a) PROVE Kept
<1>1. /\ runLive /\ phase[a] = "opening" /\ phase' = [phase EXCEPT ![a] = "step"] /\ parked' = parked
      /\ UNCHANGED <<runLive, limit, activeAsks, queued, asked, repairs, nudges, retunes, aborts>>
  BY DEF SessionReady, budgetVars, boundVars
<1>2. Seated(working, parked, phase, limit) /\ limit \in Nat
  BY <1>1, Live
<1>3. a \notin ToSet(parked) /\ working' = working \cup {a}
  BY <1>1, <1>2 DEF SessionReady, Seated, Stopped
<1>4. phase' \in [Actor -> Phase] /\ AtWork(phase') = AtWork(phase) \cup {a} /\ Stopped(phase') = Stopped(phase)
  BY <1>1, <1>2 DEF Seated, AtWork, Stopped, Phase
<1>5. Cardinality(working) <= Cardinality(working') /\ Cardinality(working) \in Nat /\ Cardinality(working') \in Nat
  BY <1>2, <1>3, FiniteActors, FS_Subset DEF Seated
<1>6. Seated(working', parked', phase', limit)
  <2>1. parked # <<>> => Cardinality(working') >= limit
    <3>1. parked # <<>> => Cardinality(working) >= limit
      BY <1>2 DEF Seated
    <3> QED BY <1>2, <1>5, <3>1
  <2> QED BY <1>1, <1>2, <1>3, <1>4, <2>1 DEF Seated
<1>7. /\ aborts' \in 0..MaxAborts /\ repairs' \in [Actor -> 0..REPAIR_ATTEMPTS]
      /\ nudges' \in [Actor -> 0..NUDGE_ATTEMPTS]
  BY <1>1 DEF IInv, TypeOK
<1> QED BY <1>1, <1>6, <1>7, StepKeeps DEF Phase

LEMMA RequestKeeps == ASSUME IInv, NoIdleRoom, NEW a \in Actor, Request(a) PROVE Kept
<1>1. /\ phase[a] = "step"
      /\ UNCHANGED <<runLive, limit, activeAsks, queued, asked, repairs, nudges, retunes, aborts>>
  BY DEF Request, budgetVars, boundVars
<1>2. runLive
  BY <1>1, AtWorkIsLive
<1>3. Seated(working, parked, phase, limit) /\ limit \in Nat
  BY <1>2, Live
<1>4. a \in working /\ a \notin ToSet(parked) /\ IsFiniteSet(working) /\ Cardinality(working) \in Nat
  BY <1>1, <1>3, FiniteActors DEF Seated, AtWork, Stopped
<1>5. /\ aborts' \in 0..MaxAborts /\ repairs' \in [Actor -> 0..REPAIR_ATTEMPTS]
      /\ nudges' \in [Actor -> 0..NUDGE_ATTEMPTS]
  BY <1>1 DEF IInv, TypeOK
<1>6. CASE MustPark(a)
  <2>1. phase' = [phase EXCEPT ![a] = "parked"] /\ working' = working \ {a} /\ parked' = Append(parked, a)
    BY <1>6 DEF Request
  <2>2. /\ phase' \in [Actor -> Phase] /\ AtWork(phase') = AtWork(phase) \ {a}
        /\ Stopped(phase') = Stopped(phase) \cup {a}
    BY <1>1, <1>3, <2>1 DEF Seated, AtWork, Stopped, Phase
  <2>3. Cardinality(working') >= limit
    <3>1. Cardinality(working') = Cardinality(working) - 1
      BY <1>4, <2>1, FS_RemoveElement
    <3> QED BY <1>3, <1>4, <1>6, <3>1 DEF MustPark
  <2>4. /\ parked' \in Seq(Actor) /\ IsInjective(parked') /\ ToSet(parked') = ToSet(parked) \cup {a}
    BY <1>3, <1>4, <2>1, OneMore DEF Seated
  <2>5. Seated(working', parked', phase', limit)
    BY <1>3, <2>1, <2>2, <2>3, <2>4 DEF Seated
  <2> QED BY <1>1, <1>2, <1>5, <2>1, <2>5, StepKeeps DEF Phase
<1>7. CASE ~ MustPark(a)
  <2>1. phase' = [phase EXCEPT ![a] = "model"] /\ working' = working /\ parked' = parked
    BY <1>7 DEF Request, seatVars
  <2>2. phase' \in [Actor -> Phase] /\ AtWork(phase') = AtWork(phase) /\ Stopped(phase') = Stopped(phase)
    BY <1>1, <1>3, <2>1 DEF Seated, AtWork, Stopped, Phase
  <2>3. Seated(working', parked', phase', limit)
    BY <1>3, <2>1, <2>2 DEF Seated
  <2>4. Cardinality(working') <= limit
    BY <1>3, <1>4, <1>7, <2>1 DEF MustPark
  <2> QED BY <1>1, <1>2, <1>5, <2>1, <2>3, <2>4, StepKeeps DEF Phase
<1> QED BY <1>6, <1>7

LEMMA AbortParkedKeeps == ASSUME IInv, NoIdleRoom, NEW a \in Actor, AbortParked(a) PROVE Kept
<1>1. /\ phase[a] = "parked" /\ phase' = [phase EXCEPT ![a] = "step"]
      /\ parked' = Without(parked, a) /\ working' = working \cup {a}
      /\ UNCHANGED <<runLive, limit, activeAsks, queued, asked, repairs, nudges, retunes>>
  BY DEF AbortParked, budgetVars, WorkingAfterAbort
<1>2. runLive
  BY <1>1, AtWorkIsLive
<1>3. Seated(working, parked, phase, limit) /\ limit \in Nat
  BY <1>2, Live
<1>4. a \in ToSet(parked) /\ parked # <<>>
  BY <1>1, <1>3 DEF Seated, Stopped, ToSet
<1>5. /\ phase' \in [Actor -> Phase] /\ AtWork(phase') = AtWork(phase) \cup {a}
      /\ Stopped(phase') = Stopped(phase) \ {a}
  BY <1>1, <1>3 DEF Seated, AtWork, Stopped, Phase
<1>6. Cardinality(working) <= Cardinality(working') /\ Cardinality(working) \in Nat /\ Cardinality(working') \in Nat
  BY <1>1, <1>3, FiniteActors, FS_Subset DEF Seated
<1>7. /\ parked' \in Seq(Actor) /\ IsInjective(parked') /\ ToSet(parked') = ToSet(parked) \ {a}
  BY <1>1, <1>3, <1>4, OneLess DEF Seated
<1>8. Seated(working', parked', phase', limit)
  <2>1. Cardinality(working') >= limit
    <3>1. Cardinality(working) >= limit
      BY <1>3, <1>4 DEF Seated
    <3> QED BY <1>3, <1>6, <3>1
  <2> QED BY <1>1, <1>3, <1>5, <1>7, <2>1 DEF Seated
<1>9. /\ aborts' \in 0..MaxAborts /\ repairs' \in [Actor -> 0..REPAIR_ATTEMPTS]
      /\ nudges' \in [Actor -> 0..NUDGE_ATTEMPTS]
  BY <1>1, BoundAssumption DEF AbortParked, IInv, TypeOK
<1> QED BY <1>1, <1>2, <1>8, <1>9, StepKeeps DEF Phase

\* A turn goes on within its subagent, with no change to the seats.
LEMMA TurnKeeps ==
  ASSUME IInv, NoIdleRoom, NEW a \in Actor, phase[a] = "model", phase' = [phase EXCEPT ![a] = "step"],
         UNCHANGED <<runLive, limit, activeAsks, queued, asked, working, parked, retunes, aborts>>,
         repairs' \in [Actor -> 0..REPAIR_ATTEMPTS], nudges' \in [Actor -> 0..NUDGE_ATTEMPTS]
  PROVE  Kept
<1>1. runLive
  BY AtWorkIsLive
<1>2. Seated(working, parked, phase, limit)
  BY <1>1, Live
<1>3. phase' \in [Actor -> Phase] /\ AtWork(phase') = AtWork(phase) /\ Stopped(phase') = Stopped(phase)
  BY <1>2 DEF Seated, AtWork, Stopped, Phase
<1>4. Seated(working', parked', phase', limit)
  BY <1>2, <1>3 DEF Seated
<1>5. aborts' \in 0..MaxAborts
  BY DEF IInv, TypeOK
<1> QED BY <1>1, <1>4, <1>5, StepKeeps DEF Phase

LEMMA NextStepKeeps == ASSUME IInv, NoIdleRoom, NEW a \in Actor, NextStep(a) PROVE Kept
<1>1. repairs' = repairs /\ nudges' = nudges /\ repairs' \in [Actor -> 0..REPAIR_ATTEMPTS]
      /\ nudges' \in [Actor -> 0..NUDGE_ATTEMPTS]
  BY DEF NextStep, budgetVars, IInv, TypeOK
<1> QED BY <1>1, TurnKeeps DEF NextStep, seatVars, boundVars

LEMMA RepairKeeps == ASSUME IInv, NoIdleRoom, NEW a \in Actor, Repair(a) PROVE Kept
<1>1. repairs' \in [Actor -> 0..REPAIR_ATTEMPTS] /\ nudges' \in [Actor -> 0..NUDGE_ATTEMPTS]
  BY BoundAssumption DEF Repair, IInv, TypeOK
<1> QED BY <1>1, TurnKeeps DEF Repair, seatVars, boundVars

LEMMA NudgeKeeps == ASSUME IInv, NoIdleRoom, NEW a \in Actor, Nudge(a) PROVE Kept
<1>1. repairs' \in [Actor -> 0..REPAIR_ATTEMPTS] /\ nudges' \in [Actor -> 0..NUDGE_ATTEMPTS]
  BY BoundAssumption DEF Nudge, NudgesLeft, IInv, TypeOK
<1> QED BY <1>1, TurnKeeps DEF Nudge, seatVars, boundVars

LEMMA RetuneKeeps == ASSUME IInv, NoIdleRoom, NEW new \in Limit, Retune(new) PROVE Kept
<1> DEFINE u == Unpark(working, parked, new, phase)
<1>1. /\ runLive /\ limit' = new /\ working' = u.working /\ parked' = u.parked
      /\ UNCHANGED <<runLive, asked, aborts>>
  BY DEF Retune
<1>2. Seated(working, parked, phase, limit) /\ limit \in Nat /\ activeAsks = Cardinality(Current(phase))
      /\ phase \in [Actor -> Phase] /\ new \in Nat
  BY <1>1, Live, LimitAssumption
<1>3. /\ Seated(u.working, u.parked, u.phase, new)
      /\ Current(u.phase) = Current(phase)
      /\ \A a \in Actor : /\ u.phase[a] = "opening" <=> phase[a] = "opening"
                          /\ phase[a] # "model" /\ u.phase[a] = "model"
                               => Cardinality(u.working) <= new
  <2>1. /\ parked \in Seq(Actor) /\ IsInjective(parked) /\ working = AtWork(phase)
        /\ ToSet(parked) = Stopped(phase)
    BY <1>2 DEF Seated
  <2>2. Filled(u, phase, new)
    BY <1>2, <2>1, UnparkFills
  <2> QED BY <2>2 DEF Filled
<1>4. IF PumpOnRetune(limit, new) THEN Pump({}, u.phase, queued, activeAsks, new)
      ELSE phase' = u.phase /\ UNCHANGED <<queued, activeAsks, budgetVars>>
  BY DEF Retune
<1> HIDE DEF u
<1>5. /\ retunes' \in 0..MaxRetunes /\ aborts' \in 0..MaxAborts /\ runLive' \in BOOLEAN /\ limit' \in Limit
      /\ asked' \in [Actor -> Nat] /\ (\A a \in Actor : asked'[a] <= MaxAsks[a])
      /\ queued \in [Actor -> Nat] /\ runLive'
  BY <1>1, BoundAssumption DEF Retune, IInv, TypeOK
<1>6. Seated(working', parked', u.phase, limit')
  BY <1>1, <1>3
<1>7. CASE PumpOnRetune(limit, new)
  <2>1. Pump({}, u.phase, queued, activeAsks, limit') /\ activeAsks = Cardinality(Current(u.phase))
    BY <1>1, <1>2, <1>3, <1>4, <1>7
  <2>2. \A a \in Actor : phase[a] # "model" /\ u.phase[a] = "model" => Cardinality(working') <= limit'
    BY <1>1, <1>3
  <2> QED BY <1>3, <1>5, <1>6, <2>1, <2>2, PumpKeeps
<1>8. CASE ~ PumpOnRetune(limit, new)
  <2>1. phase' = u.phase /\ UNCHANGED <<queued, activeAsks, repairs, nudges>>
    BY <1>4, <1>8 DEF budgetVars
  <2>2. TypeOK'
    BY <1>5, <1>6, <2>1 DEF IInv, TypeOK, Seated
  <2>3. Agreement'
    BY <1>2, <1>3, <1>5, <1>6, <2>1 DEF Agreement
  <2>4. NoIdleRoom'
    <3>1. activeAsks' < limit' => activeAsks < limit
      <4>1. activeAsks \in Nat /\ ~ (new > limit)
        BY <1>8 DEF IInv, TypeOK, PumpOnRetune
      <4> QED BY <1>1, <1>2, <2>1, <4>1
    <3>2. \A a \in Actor : phase'[a] = "idle" => phase[a] = "idle"
      BY <1>3, <2>1 DEF Current
    <3> QED BY <1>1, <2>1, <3>1, <3>2 DEF NoIdleRoom
  <2> QED BY <1>1, <1>3, <2>1, <2>2, <2>3, <2>4 DEF Kept, IInv
<1> QED BY <1>7, <1>8

LEMMA EndRunKeeps == ASSUME IInv, NEW failed \in BOOLEAN, EndRun(failed) PROVE Kept
<1>1. /\ runLive' = FALSE /\ activeAsks' = 0 /\ parked' = <<>>
      /\ phase' = [a \in Actor |-> IF phase[a] = "opening" THEN "opening" ELSE "idle"]
      /\ UNCHANGED <<limit, queued, asked, repairs, nudges, retunes, aborts>>
  BY DEF EndRun, budgetVars, boundVars
<1>2. /\ phase' \in [Actor -> Phase]
      /\ \A a \in Actor : phase'[a] \in {"idle", "opening"} /\ (phase'[a] = "opening" => phase[a] = "opening")
  BY <1>1 DEF Phase
<1>3. working' \subseteq Actor
  <2>1. ToSet(parked) \subseteq Actor /\ working \subseteq Actor
    BY SMTT(30) DEF IInv, TypeOK, ToSet
  <2> QED BY <2>1 DEF EndRun
<1>4. <<>> \in Seq(Actor) /\ IsInjective(<<>>)
  BY DEF IsInjective
<1>5. TypeOK'
  BY <1>1, <1>2, <1>3, <1>4 DEF IInv, TypeOK
<1> QED BY <1>1, <1>2, <1>5 DEF Kept, IInv, Agreement, NoIdleRoom

LEMMA SessionTooLateKeeps == ASSUME IInv, NEW a \in Actor, SessionTooLate(a) PROVE Kept
<1>1. /\ ~ runLive /\ phase' = [phase EXCEPT ![a] = "idle"]
      /\ UNCHANGED <<runLive, limit, activeAsks, queued, asked, repairs, nudges, working, parked, retunes, aborts>>
  BY DEF SessionTooLate, budgetVars, seatVars, boundVars
<1>2. phase \in [Actor -> Phase] /\ parked = <<>> /\ \A b \in Actor : phase[b] \in {"idle", "opening"}
  BY <1>1 DEF IInv, TypeOK, Agreement
<1>3. /\ phase' \in [Actor -> Phase]
      /\ \A b \in Actor : phase'[b] \in {"idle", "opening"} /\ (phase'[b] = "opening" => phase[b] = "opening")
  BY <1>1, <1>2 DEF Phase
<1>4. TypeOK'
  BY <1>1, <1>3 DEF IInv, TypeOK
<1> QED BY <1>1, <1>2, <1>3, <1>4 DEF Kept, IInv, Agreement, NoIdleRoom

LEMMA SubagentKeeps == ASSUME IInv, NoIdleRoom, NEW a \in Actor, Subagent(a) PROVE Kept
<1>1. CASE SessionReady(a) BY <1>1, SessionReadyKeeps
<1>2. CASE SessionTooLate(a) BY <1>2, SessionTooLateKeeps
<1>3. CASE SessionFails(a) BY <1>3, SettleKeeps DEF SessionFails
<1>4. CASE Request(a) BY <1>4, RequestKeeps
<1>5. CASE AbortParked(a) BY <1>5, AbortParkedKeeps
<1>6. CASE NextStep(a) BY <1>6, NextStepKeeps
<1>7. CASE Repair(a) BY <1>7, RepairKeeps
<1>8. CASE Nudge(a) BY <1>8, NudgeKeeps
<1>9. CASE Answer(a) BY <1>9, SettleKeeps, AtWorkIsLive DEF Answer
<1>10. CASE TurnFails(a) BY <1>10, SettleKeeps, AtWorkIsLive DEF TurnFails
<1> QED BY <1>1, <1>2, <1>3, <1>4, <1>5, <1>6, <1>7, <1>8, <1>9, <1>10 DEF Subagent

LEMMA EveryStepKeeps == IInv /\ NoIdleRoom /\ [Next]_vars => Kept
<1> SUFFICES ASSUME IInv, NoIdleRoom, [Next]_vars PROVE Kept
  OBVIOUS
<1>1. ASSUME NEW a \in Actor, Admit(a) \/ Subagent(a) PROVE Kept
  BY <1>1, AdmitKeeps, SubagentKeeps
<1>2. ASSUME NEW new \in Limit, Retune(new) PROVE Kept
  BY <1>2, RetuneKeeps
<1>3. ASSUME NEW failed \in BOOLEAN, EndRun(failed) PROVE Kept
  BY <1>3, EndRunKeeps
<1>4. CASE UNCHANGED vars
  <2>1. UNCHANGED <<runLive, limit, activeAsks, queued, asked, phase, repairs, nudges, working, parked, retunes, aborts>>
    BY <1>4 DEF vars, askVars, budgetVars, seatVars, boundVars
  <2>2. TypeOK'
    BY <2>1 DEF IInv, TypeOK
  <2>3. Agreement'
    BY <2>1 DEF IInv, Agreement
  <2>4. NoIdleRoom'
    BY <2>1 DEF NoIdleRoom
  <2> QED BY <2>1, <2>2, <2>3, <2>4 DEF Kept, IInv
<1> QED BY <1>1, <1>2, <1>3, <1>4 DEF Next

LEMMA InitAgrees == Init => IInv /\ NoIdleRoom
<1> SUFFICES ASSUME Init PROVE IInv /\ NoIdleRoom
  OBVIOUS
<1>1. /\ runLive = TRUE /\ limit = InitialLimit /\ activeAsks = 0
      /\ queued = [a \in Actor |-> 0] /\ asked = [a \in Actor |-> 0]
      /\ phase = [a \in Actor |-> "idle"] /\ working = {} /\ parked = <<>>
      /\ retunes = 0 /\ aborts = 0
  BY DEF Init
<1>2. repairs \in [Actor -> 0..REPAIR_ATTEMPTS] /\ nudges \in [Actor -> 0..NUDGE_ATTEMPTS]
  BY BoundAssumption DEF Init
<1>3. <<>> \in Seq(Actor) /\ IsInjective(<<>>) /\ ToSet(<<>>) = {}
  BY DEF IsInjective, ToSet
<1>4. \A a \in Actor : asked[a] <= MaxAsks[a]
  BY <1>1, BoundAssumption
<1>5. TypeOK
  BY <1>1, <1>2, <1>3, <1>4, LimitAssumption, BoundAssumption DEF TypeOK, Phase
<1>6. AtWork(phase) = {} /\ Stopped(phase) = {} /\ Current(phase) = {}
  BY <1>1 DEF AtWork, Stopped, Current
<1>7. Seated(working, parked, phase, limit)
  BY <1>1, <1>3, <1>6 DEF Seated, Phase
<1>8. Cardinality(Current(phase)) = 0
  BY <1>6, FS_EmptySet
<1> QED BY <1>1, <1>5, <1>7, <1>8 DEF IInv, Agreement, NoIdleRoom

-----------------------------------------------------------------------------
(* Theorems *)

\* Every reachable state satisfies the invariant, and no queued ask is left
\* lying while the bound has room for it: pumpAll, at the end of every handler
\* that frees room, fills it.
THEOREM RoomIsFilled == Spec => [](IInv /\ NoIdleRoom)
<1>1. IInv /\ NoIdleRoom /\ [Next]_vars => (IInv /\ NoIdleRoom)'
  BY EveryStepKeeps DEF Kept
<1> QED BY <1>1, InitAgrees, PTL DEF Spec

\* The variables of scheduler and gate keep their types; nobody is parked twice.
THEOREM TypeCorrect == Spec => []TypeOK
<1>1. IInv => TypeOK
  BY DEF IInv
<1> QED BY <1>1, RoomIsFilled, PTL

\* The seats of the gate (askStarted, askSettled, acquireSeat, unpark) and the
\* activeAsks of the scheduler add up, though neither part knows the other.
THEOREM SeatsAgree == Spec => []SeatsAddUp
<1>1. IInv => SeatsAddUp
  <2> SUFFICES ASSUME IInv, runLive
               PROVE  /\ activeAsks = Cardinality(working) + Len(parked) + Cardinality(Opening)
                      /\ working = AtWork(phase) /\ ToSet(parked) = Stopped(phase)
    BY DEF SeatsAddUp, AtWork, Stopped
  <2>1. Seated(working, parked, phase, limit) /\ activeAsks = Cardinality(Current(phase))
    BY Live
  <2>2. Len(parked) = Cardinality(Stopped(phase)) /\ working = AtWork(phase)
    BY <2>1, LengthIsNumber DEF Seated
  <2>3. /\ IsFiniteSet(AtWork(phase)) /\ Cardinality(AtWork(phase)) \in Nat
        /\ IsFiniteSet(Stopped(phase)) /\ Cardinality(Stopped(phase)) \in Nat
        /\ IsFiniteSet(Opening) /\ Cardinality(Opening) \in Nat
    BY FiniteActors DEF AtWork, Stopped, Opening
  <2>4. AtWork(phase) \cap Stopped(phase) = {} /\ (AtWork(phase) \cup Stopped(phase)) \cap Opening = {}
    BY DEF AtWork, Stopped, Opening
  <2>5. Current(phase) = (AtWork(phase) \cup Stopped(phase)) \cup Opening
    BY <2>1 DEF Seated, Current, AtWork, Stopped, Opening, Phase
  <2>6. /\ IsFiniteSet(AtWork(phase) \cup Stopped(phase))
        /\ Cardinality(AtWork(phase) \cup Stopped(phase)) = Cardinality(AtWork(phase)) + Cardinality(Stopped(phase))
    <3>1. /\ IsFiniteSet(AtWork(phase) \cup Stopped(phase))
          /\ Cardinality(AtWork(phase) \cup Stopped(phase))
               = Cardinality(AtWork(phase)) + Cardinality(Stopped(phase)) - Cardinality({})
      BY <2>3, <2>4, FS_Union
    <3> QED BY <2>3, <3>1, FS_EmptySet
  <2>7. Cardinality(Current(phase)) = Cardinality(AtWork(phase) \cup Stopped(phase)) + Cardinality(Opening)
    <3>1. Cardinality((AtWork(phase) \cup Stopped(phase)) \cup Opening)
            = Cardinality(AtWork(phase) \cup Stopped(phase)) + Cardinality(Opening) - Cardinality({})
      BY <2>3, <2>4, <2>6, FS_Union
    <3> QED BY <2>3, <2>5, <2>6, <3>1, FS_EmptySet
  <2> QED BY <2>1, <2>2, <2>3, <2>6, <2>7 DEF Seated
<1> QED BY <1>1, RoomIsFilled, PTL

\* Nobody is parked by acquireSeat, or left parked by unpark, beside an empty seat.
THEOREM LastSeatIsTaken == Spec => []ParkedOnlyWhenFull
<1>1. IInv => ParkedOnlyWhenFull
  BY DEF IInv, Agreement, Seated, ParkedOnlyWhenFull
<1> QED BY <1>1, RoomIsFilled, PTL

\* A request of a turn, one that acquireSeat lets through or unpark resumes,
\* goes out within the bound of that moment.
THEOREM BoundIsKept == Spec => RequestsWithinBound
<1>1. IInv /\ NoIdleRoom /\ [Next]_vars =>
        [\A a \in Actor : phase[a] # "model" /\ phase'[a] = "model" => Cardinality(working') <= limit']_vars
  BY EveryStepKeeps DEF Kept
<1> QED BY <1>1, RoomIsFilled, PTL DEF Spec, RequestsWithinBound

\* pumpActor dispatches no ask while a subagent is parked.
THEOREM NobodyIsOvertaken == Spec => NoOvertaking
<1>1. IInv /\ NoIdleRoom /\ [Next]_vars =>
        [(\E a \in Actor : phase[a] # "opening" /\ phase'[a] = "opening") => parked' = <<>>]_vars
  BY EveryStepKeeps DEF Kept
<1> QED BY <1>1, RoomIsFilled, PTL DEF Spec, NoOvertaking
=============================================================================
