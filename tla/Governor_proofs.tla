--------------------------- MODULE Governor_proofs ---------------------------
(* What holds of the governor for every set of runs, default, ceiling and    *)
(* threshold: the cap stays within its limits, the limit is that of the      *)
(* registered runs, one wave of refusals gives one verdict, and unless       *)
(* queued requests are aborted nobody who waits is forgotten.                *)
EXTENDS Governor, FiniteSetTheorems, SequenceTheorems, WellFoundedInduction, TLAPS

Controller ==
  [cap : Nat, limit : Nat, streak : 0..INCREASE_AFTER, good : Nat,
   cooldown : {"none", "running", "over"}, refused : BOOLEAN, idle : BOOLEAN,
   inFlight : Nat, fresh : Nat, stale : Nat]

\* What every signal keeps of the controller.
Sound(c) ==
  /\ c \in Controller
  /\ FLOOR <= c.cap /\ c.cap <= c.limit /\ c.good <= c.cap
  /\ BaseLimit <= c.limit
  /\ c.inFlight = c.fresh + c.stale

IInv ==
  /\ Sound(ctl)
  /\ LimitIsOfTheRuns
  /\ OneVerdictPerWave
  /\ bound \in [Run -> RunBound \cup {0}] /\ used \subseteq Run /\ sent \in BOOLEAN

-----------------------------------------------------------------------------
(* Numbers *)

\* The number of waiters is a natural number.
LEMMA WaitersNat == ASSUME NEW q PROVE Waiters(q) \in Nat
<1> DEFINE W == {w \in Run \X (1..MaxQueued) : w[2] <= q[w[1]]}
<1>1. IsFiniteSet(1..MaxQueued)
  BY FS_Interval, BoundAssumption
<1>2. IsFiniteSet(Run \X (1..MaxQueued))
  BY <1>1, FS_Product, RunAssumption
<1>3. W \in SUBSET (Run \X (1..MaxQueued))
  OBVIOUS
<1>4. IsFiniteSet(W)
  BY <1>2, <1>3, FS_Subset
<1> QED BY <1>4, FS_CardinalityType DEF Waiters

\* So is the largest bound of the runs.
LEMMA LargestBoundNat == ASSUME NEW b, NEW u PROVE LargestBound(b, u) \in Nat
<1> DEFINE K == {k \in 1..CEILING : \E r \in u : k <= b[r]}
<1>1. IsFiniteSet(1..CEILING)
  BY FS_Interval, CeilingAssumption
<1>2. K \in SUBSET (1..CEILING)
  OBVIOUS
<1>3. IsFiniteSet(K)
  BY <1>1, <1>2, FS_Subset
<1> QED BY <1>3, FS_CardinalityType DEF LargestBound

\* A run without a bound does not count.
LEMMA LargestBoundWithout ==
  ASSUME NEW b, NEW u, NEW r, b[r] = 0 PROVE LargestBound(b, u \cup {r}) = LargestBound(b, u)
<1>1. \A k \in 1..CEILING : ~ (k <= 0)
  BY CeilingAssumption
<1>2. \A k \in 1..CEILING : (\E s \in u \cup {r} : k <= b[s]) <=> \E s \in u : k <= b[s]
  BY <1>1
<1>3. {k \in 1..CEILING : \E s \in u \cup {r} : k <= b[s]} = {k \in 1..CEILING : \E s \in u : k <= b[s]}
  BY <1>2
<1> QED BY <1>3 DEF LargestBound

\* The bound of a run that has not used the key does not count either.
LEMMA LargestBoundElsewhere ==
  ASSUME NEW b, NEW u, NEW r, NEW v, r \notin u, u \subseteq DOMAIN b
  PROVE  LargestBound([b EXCEPT ![r] = v], u) = LargestBound(b, u)
<1>1. \A s \in u : [b EXCEPT ![r] = v][s] = b[s]
  OBVIOUS
<1> QED BY <1>1 DEF LargestBound

-----------------------------------------------------------------------------
(* Signals *)

LEMMA IdleResetSound ==
  ASSUME NEW c, Sound(c)
  PROVE  /\ Sound(IdleReset(c))
         /\ IdleReset(c).limit = c.limit /\ IdleReset(c).fresh = c.fresh
<1> DEFINE d == [c EXCEPT !.cap = DEFAULT, !.streak = 0, !.good = 0,
                          !.cooldown = "none", !.refused = FALSE]
<1>1. DEFAULT \in Nat /\ 0 \in 0..INCREASE_AFTER /\ 0 \in Nat
  BY DefaultAssumption
<1>2. d \in Controller
  BY <1>1, Zenon DEF Sound, Controller
<1>3. /\ d.cap = DEFAULT /\ d.limit = c.limit /\ d.good = 0
      /\ d.inFlight = c.inFlight /\ d.fresh = c.fresh /\ d.stale = c.stale
  BY DEF Sound, Controller
<1> HIDE DEF d
<1>4. Sound(d)
  BY <1>2, <1>3, DefaultAssumption DEF Sound, FLOOR, BaseLimit, Controller
<1> QED BY <1>3, <1>4 DEF IdleReset, d

LEMMA AdmittedSound ==
  ASSUME NEW c, Sound(c), NEW n \in Nat
  PROVE  /\ Sound(Admitted(c, n))
         /\ Admitted(c, n).limit = c.limit /\ Admitted(c, n).fresh = c.fresh + n
<1> DEFINE d == Admitted(c, n)
<1>1. c.inFlight + n \in Nat /\ c.fresh + n \in Nat /\ (c.idle /\ n = 0) \in BOOLEAN
  BY DEF Sound, Controller
<1>2. d \in Controller
  BY <1>1, Zenon DEF Sound, Controller, Admitted
<1>3. /\ d.cap = c.cap /\ d.limit = c.limit /\ d.good = c.good /\ d.stale = c.stale
      /\ d.inFlight = c.inFlight + n /\ d.fresh = c.fresh + n
  BY DEF Sound, Controller, Admitted
<1> HIDE DEF d
<1>4. Sound(d)
  BY <1>2, <1>3 DEF Sound, Controller
<1> QED BY <1>3, <1>4 DEF d

LEMMA EpochTurnedSound ==
  ASSUME NEW c, Sound(c)
  PROVE  Sound(EpochTurned(c)) /\ EpochTurned(c).limit = c.limit /\ EpochTurned(c).fresh = 0
<1> DEFINE d == EpochTurned(c)
<1>1. c.stale + c.fresh \in Nat /\ 0 \in Nat
  BY DEF Sound, Controller
<1>2. d \in Controller
  BY <1>1, Zenon DEF Sound, Controller, EpochTurned
<1>3. /\ d.cap = c.cap /\ d.limit = c.limit /\ d.good = c.good /\ d.inFlight = c.inFlight
      /\ d.stale = c.stale + c.fresh /\ d.fresh = 0
  BY DEF Sound, Controller, EpochTurned
<1> HIDE DEF d
<1>4. Sound(d)
  BY <1>2, <1>3 DEF Sound, Controller
<1> QED BY <1>3, <1>4 DEF d

LEMMA TakenSound ==
  ASSUME NEW c, Sound(c), NEW current \in BOOLEAN, IF current THEN c.fresh > 0 ELSE c.stale > 0
  PROVE  /\ Sound(Taken(c, current)) /\ Taken(c, current).limit = c.limit
         /\ Taken(c, current).fresh <= c.fresh
         /\ Taken(c, current).cap = c.cap /\ Taken(c, current).good = c.good
<1> DEFINE d == [c EXCEPT !.inFlight = @ - 1, !.fresh = @ - 1]
           e == [c EXCEPT !.inFlight = @ - 1, !.stale = @ - 1]
<1>1. CASE current
  <2>1. c.inFlight - 1 \in Nat /\ c.fresh - 1 \in Nat
    BY <1>1 DEF Sound, Controller
  <2>2. d \in Controller
    BY <2>1, Zenon DEF Sound, Controller
  <2>3. /\ d.cap = c.cap /\ d.limit = c.limit /\ d.good = c.good /\ d.stale = c.stale
        /\ d.inFlight = c.inFlight - 1 /\ d.fresh = c.fresh - 1
    BY DEF Sound, Controller
  <2> HIDE DEF d
  <2>4. Sound(d) /\ d.fresh <= c.fresh
    BY <2>2, <2>3 DEF Sound, Controller
  <2> QED BY <2>3, <2>4, <1>1 DEF Taken, d
<1>2. CASE ~ current
  <2>1. c.inFlight - 1 \in Nat /\ c.stale - 1 \in Nat
    BY <1>2 DEF Sound, Controller
  <2>2. e \in Controller
    BY <2>1, Zenon DEF Sound, Controller
  <2>3. /\ e.cap = c.cap /\ e.limit = c.limit /\ e.good = c.good /\ e.stale = c.stale - 1
        /\ e.inFlight = c.inFlight - 1 /\ e.fresh = c.fresh
    BY DEF Sound, Controller
  <2> HIDE DEF e
  <2>4. Sound(e) /\ e.fresh <= c.fresh
    BY <2>2, <2>3 DEF Sound, Controller
  <2> QED BY <2>3, <2>4, <1>2 DEF Taken, e
<1> QED BY <1>1, <1>2

LEMMA CutSound ==
  ASSUME NEW c, Sound(c) PROVE Sound(Cut(c)) /\ Cut(c).limit = c.limit
<1> DEFINE d == [c EXCEPT !.cap = c.good]
           low == Larger(FLOOR, (3 * c.cap) \div 4)
           e == [c EXCEPT !.cap = low, !.good = 0]
<1>1. c.cap \in Nat /\ c.cap >= 1 /\ c.good \in Nat /\ c.cap <= c.limit /\ c.limit \in Nat
  BY DEF Sound, Controller, FLOOR
<1>2. low \in Nat /\ 1 <= low /\ low <= c.cap
  BY <1>1 DEF Larger, FLOOR
<1> HIDE DEF low
<1>3. CASE c.good # 0 /\ c.cap > c.good
  <2>1. d \in Controller
    BY <1>1, Zenon DEF Sound, Controller
  <2>2. /\ d.cap = c.good /\ d.limit = c.limit /\ d.good = c.good /\ d.stale = c.stale
        /\ d.inFlight = c.inFlight /\ d.fresh = c.fresh
    BY DEF Sound, Controller
  <2> HIDE DEF d
  <2>3. Sound(d)
    BY <2>1, <2>2, <1>1, <1>3 DEF Sound, FLOOR
  <2> QED BY <2>2, <2>3, <1>3 DEF Cut, d
<1>4. CASE ~ (c.good # 0 /\ c.cap > c.good)
  <2>1. e \in Controller
    BY <1>2, Zenon DEF Sound, Controller
  <2>2. /\ e.cap = low /\ e.limit = c.limit /\ e.good = 0 /\ e.stale = c.stale
        /\ e.inFlight = c.inFlight /\ e.fresh = c.fresh
    BY DEF Sound, Controller
  <2>3. Cut(c) = e
    BY <1>4 DEF Cut, low
  <2> HIDE DEF e
  <2>4. Sound(e)
    BY <2>1, <2>2, <1>1, <1>2 DEF Sound, FLOOR
  <2> QED BY <2>2, <2>3, <2>4
<1> QED BY <1>3, <1>4

LEMMA SucceededSound ==
  ASSUME NEW c, Sound(c), NEW current \in BOOLEAN, NEW w \in Nat,
         IF current THEN c.fresh > 0 ELSE c.stale > 0
  PROVE  /\ Sound(Succeeded(c, current, w)) /\ Succeeded(c, current, w).limit = c.limit
         /\ Succeeded(c, current, w).fresh <= c.fresh
<1> DEFINE t == Taken(c, TRUE)
           n == c.streak + 1
           g == Larger(c.good, c.cap)
           d1 == [t EXCEPT !.streak = n]
           p == [t EXCEPT !.streak = n, !.good = g]
           d2 == [p EXCEPT !.streak = INCREASE_AFTER]
           d3 == [p EXCEPT !.cap = c.cap + 1, !.streak = 0]
<1>1. CASE ~ current
  BY <1>1, TakenSound DEF Succeeded
<1>2. CASE current
  <2>1. Sound(t) /\ t.limit = c.limit /\ t.fresh <= c.fresh /\ t.cap = c.cap
    BY <1>2, TakenSound
  <2>2. c.cap \in Nat /\ c.streak \in 0..INCREASE_AFTER /\ c.limit \in Nat /\ c.good <= c.cap /\ c.good \in Nat
    BY DEF Sound, Controller
  <2>3. g = c.cap
    BY <2>2 DEF Larger
  <2> HIDE DEF t, g
  <2>4. CASE n < INCREASE_AFTER
    <3>1. n \in 0..INCREASE_AFTER
      BY <2>2, <2>4, DefaultAssumption
    <3>2. d1 \in Controller
      BY <2>1, <3>1, Zenon DEF Sound, Controller
    <3>3. Sound(d1) /\ d1.limit = c.limit /\ d1.fresh <= c.fresh
      BY <2>1, <3>2 DEF Sound, Controller
    <3>4. Succeeded(c, current, w) = d1
      BY <1>2, <2>2, <2>4, DefaultAssumption DEF Succeeded, t
    <3> QED BY <3>3, <3>4
  <2>5. CASE n >= INCREASE_AFTER /\ (w = 0 \/ c.cap >= c.limit)
    <3>1. n = INCREASE_AFTER \/ n = INCREASE_AFTER + 1
      BY <2>2, <2>5, DefaultAssumption
    <3>2. INCREASE_AFTER \in 0..INCREASE_AFTER /\ g \in Nat
      BY <2>2, <2>3, DefaultAssumption
    <3>3. d2 = [t EXCEPT !.streak = INCREASE_AFTER, !.good = g]
      BY <2>1 DEF Sound, Controller
    <3> HIDE DEF d2
    <3>4. d2 \in Controller
      BY <2>1, <3>2, <3>3, Zenon DEF Sound, Controller
    <3>5. /\ d2.cap = c.cap /\ d2.good = c.cap /\ d2.limit = c.limit
          /\ d2.inFlight = t.inFlight /\ d2.fresh = t.fresh /\ d2.stale = t.stale
      BY <2>1, <2>3, <3>3 DEF Sound, Controller
    <3>6. Sound(d2) /\ d2.limit = c.limit /\ d2.fresh <= c.fresh
      BY <2>1, <2>2, <3>4, <3>5 DEF Sound
    <3>7. Succeeded(c, current, w) = d2
      BY <1>2, <2>2, <2>5, DefaultAssumption DEF Succeeded, t, g, d2
    <3> QED BY <3>6, <3>7
  <2>6. CASE n >= INCREASE_AFTER /\ ~ (w = 0 \/ c.cap >= c.limit)
    <3>1. c.cap + 1 \in Nat /\ 0 \in 0..INCREASE_AFTER /\ g \in Nat
      BY <2>2, <2>3, DefaultAssumption
    <3>2. d3 = [t EXCEPT !.cap = c.cap + 1, !.streak = 0, !.good = g]
      BY <2>1 DEF Sound, Controller
    <3> HIDE DEF d3
    <3>3. d3 \in Controller
      BY <2>1, <3>1, <3>2, Zenon DEF Sound, Controller
    <3>4. /\ d3.cap = c.cap + 1 /\ d3.good = c.cap /\ d3.limit = c.limit
          /\ d3.inFlight = t.inFlight /\ d3.fresh = t.fresh /\ d3.stale = t.stale
      BY <2>1, <2>3, <3>2 DEF Sound, Controller
    <3>5. Sound(d3) /\ d3.limit = c.limit /\ d3.fresh <= c.fresh
      BY <2>1, <2>2, <2>6, <3>3, <3>4 DEF Sound, FLOOR
    <3>6. Succeeded(c, current, w) = d3
      BY <1>2, <2>2, <2>6, DefaultAssumption DEF Succeeded, t, g, d3
    <3> QED BY <3>5, <3>6
  <2>7. n \in Nat
    BY <2>2, DefaultAssumption
  <2> QED BY <2>4, <2>5, <2>6, <2>7, DefaultAssumption
<1> QED BY <1>1, <1>2

LEMMA ThrottledSound ==
  ASSUME NEW c, Sound(c), NEW current \in BOOLEAN, NEW retryAfter \in BOOLEAN,
         IF current THEN c.fresh > 0 ELSE c.stale > 0
  PROVE  /\ Sound(Throttled(c, current, retryAfter))
         /\ Throttled(c, current, retryAfter).limit = c.limit
         /\ Throttled(c, current, retryAfter).fresh <= c.fresh
         /\ current => Throttled(c, current, retryAfter).fresh = 0
<1> DEFINE t == Taken(c, current)
           e == [t EXCEPT !.streak = 0, !.refused = TRUE,
                          !.cooldown = IF retryAfter THEN "running" ELSE @]
<1>1. Sound(t) /\ t.limit = c.limit /\ t.fresh <= c.fresh
  BY TakenSound
<1> HIDE DEF t
<1>2. /\ 0 \in 0..INCREASE_AFTER
      /\ (IF retryAfter THEN "running" ELSE t.cooldown) \in {"none", "running", "over"}
  BY <1>1, DefaultAssumption DEF Sound, Controller
<1>3. e \in Controller
  BY <1>1, <1>2, Zenon DEF Sound, Controller
<1>4. /\ e.cap = t.cap /\ e.limit = t.limit /\ e.good = t.good
      /\ e.inFlight = t.inFlight /\ e.fresh = t.fresh /\ e.stale = t.stale
  BY <1>1 DEF Sound, Controller
<1>5. Throttled(c, current, retryAfter) = IF current THEN EpochTurned(Cut(e)) ELSE e
  BY DEF Throttled, t
<1> HIDE DEF e
<1>6. Sound(e) /\ e.limit = c.limit /\ e.fresh <= c.fresh
  BY <1>1, <1>3, <1>4 DEF Sound
<1>7. Sound(EpochTurned(Cut(e))) /\ EpochTurned(Cut(e)).limit = c.limit /\ EpochTurned(Cut(e)).fresh = 0
  BY <1>6, CutSound, EpochTurnedSound
<1>8. 0 <= c.fresh
  BY DEF Sound, Controller
<1> QED BY <1>5, <1>6, <1>7, <1>8

LEMMA FailedTransientSound ==
  ASSUME NEW c, Sound(c), NEW current \in BOOLEAN, IF current THEN c.fresh > 0 ELSE c.stale > 0
  PROVE  /\ Sound(FailedTransient(c, current)) /\ FailedTransient(c, current).limit = c.limit
         /\ FailedTransient(c, current).fresh <= c.fresh
<1> DEFINE t == Taken(c, current)
           e == [t EXCEPT !.streak = 0]
<1>1. Sound(t) /\ t.limit = c.limit /\ t.fresh <= c.fresh
  BY TakenSound
<1>2. FailedTransient(c, current) = e
  BY DEF FailedTransient
<1> HIDE DEF t
<1>3. 0 \in 0..INCREASE_AFTER
  BY DefaultAssumption
<1>4. e \in Controller
  BY <1>1, <1>3, Zenon DEF Sound, Controller
<1>5. /\ e.cap = t.cap /\ e.limit = t.limit /\ e.good = t.good
      /\ e.inFlight = t.inFlight /\ e.fresh = t.fresh /\ e.stale = t.stale
  BY <1>1 DEF Sound, Controller
<1> HIDE DEF e
<1> QED BY <1>1, <1>2, <1>4, <1>5 DEF Sound

\* A signal that moves the cap by more than one leaves no ticket of the
\* present epoch.
Unmoved(c, d) == d.fresh # 0 => d.fresh = c.fresh /\ d.cap = c.cap

LEMMA IdleResetUnmoved == ASSUME NEW c, Sound(c) PROVE Unmoved(c, IdleReset(c))
<1>1. CASE c.inFlight = 0
  BY <1>1, IdleResetSound DEF Sound, Controller, Unmoved
<1>2. CASE c.inFlight # 0
  BY <1>2 DEF IdleReset, Unmoved
<1> QED BY <1>1, <1>2

LEMMA SetGrowthLimitSound ==
  ASSUME NEW c, Sound(c), NEW limit \in Nat, BaseLimit <= limit
  PROVE  /\ Sound(SetGrowthLimit(c, limit)) /\ SetGrowthLimit(c, limit).limit = limit
         /\ Unmoved(c, SetGrowthLimit(c, limit))
<1> DEFINE i == IdleReset(c)
           e == [i EXCEPT !.limit = limit]
           f == [e EXCEPT !.cap = limit, !.good = Smaller(@, limit), !.streak = 0]
<1>1. Sound(i) /\ Unmoved(c, i)
  BY IdleResetSound, IdleResetUnmoved
<1>2. limit >= 1 /\ 0 \in 0..INCREASE_AFTER
  BY DefaultAssumption DEF BaseLimit
<1>3. SetGrowthLimit(c, limit) = IF e.cap <= limit THEN e ELSE Lowered(e, limit)
  BY DEF SetGrowthLimit
<1>4. Lowered(e, limit) = EpochTurned(f)
  BY DEF Lowered
<1> HIDE DEF i
<1>5. e \in Controller
  BY <1>1, Zenon DEF Sound, Controller
<1>6. /\ e.limit = limit /\ e.cap = i.cap /\ e.good = i.good
      /\ e.inFlight = i.inFlight /\ e.fresh = i.fresh /\ e.stale = i.stale
  BY <1>1 DEF Sound, Controller
<1> HIDE DEF e
<1>7. CASE e.cap <= limit
  <2>1. Sound(e)
    BY <1>1, <1>5, <1>6, <1>7 DEF Sound
  <2> QED BY <2>1, <1>1, <1>3, <1>6, <1>7 DEF Unmoved
<1>8. CASE ~ (e.cap <= limit)
  <2>1. Smaller(e.good, limit) \in Nat /\ Smaller(e.good, limit) <= limit
    BY <1>5 DEF Smaller, Controller
  <2>2. f \in Controller
    BY <1>2, <1>5, <2>1, Zenon DEF Controller
  <2>3. /\ f.limit = limit /\ f.cap = limit /\ f.good = Smaller(e.good, limit)
        /\ f.inFlight = e.inFlight /\ f.fresh = e.fresh /\ f.stale = e.stale
    BY <1>5, <1>6 DEF Controller
  <2> HIDE DEF f
  <2>4. Sound(f)
    BY <1>1, <1>2, <1>6, <2>1, <2>2, <2>3 DEF Sound, FLOOR
  <2>5. Sound(EpochTurned(f)) /\ EpochTurned(f).limit = limit /\ EpochTurned(f).fresh = 0
    BY <2>3, <2>4, EpochTurnedSound
  <2> QED BY <2>5, <1>3, <1>4, <1>8 DEF Unmoved
<1> QED BY <1>7, <1>8

LEMMA SeedSound ==
  ASSUME NEW c, Sound(c), NEW target \in Nat
  PROVE  /\ Sound(Seed(c, target)) /\ Seed(c, target).limit = c.limit
         /\ Unmoved(c, Seed(c, target))
<1> DEFINE i == IdleReset(c)
           next == Smaller(i.limit, target)
           f == [i EXCEPT !.cap = next, !.good = 0, !.streak = 0]
<1>1. Sound(i) /\ Unmoved(c, i) /\ i.limit = c.limit
  BY IdleResetSound, IdleResetUnmoved
<1>2. Seed(c, target) = IF next <= i.cap \/ i.refused THEN i ELSE EpochTurned(f)
  BY DEF Seed
<1> HIDE DEF i
<1>3. next \in Nat /\ next <= i.limit /\ 0 \in 0..INCREASE_AFTER
  BY <1>1, DefaultAssumption DEF Sound, Controller, Smaller
<1> HIDE DEF next
<1>4. f \in Controller
  BY <1>1, <1>3, Zenon DEF Sound, Controller
<1>5. /\ f.limit = i.limit /\ f.cap = next /\ f.good = 0
      /\ f.inFlight = i.inFlight /\ f.fresh = i.fresh /\ f.stale = i.stale
  BY <1>1 DEF Sound, Controller
<1> HIDE DEF f
<1>6. CASE next <= i.cap \/ i.refused
  BY <1>1, <1>2, <1>6
<1>7. CASE ~ (next <= i.cap \/ i.refused)
  <2>1. i.cap \in Nat /\ i.cap >= 1
    BY <1>1 DEF Sound, Controller, FLOOR
  <2>2. Sound(f)
    BY <1>1, <1>3, <1>4, <1>5, <1>7, <2>1 DEF Sound, FLOOR
  <2>3. Sound(EpochTurned(f)) /\ EpochTurned(f).limit = c.limit /\ EpochTurned(f).fresh = 0
    BY <1>1, <1>5, <2>2, EpochTurnedSound
  <2> QED BY <2>3, <1>2, <1>7 DEF Unmoved
<1> QED BY <1>6, <1>7

LEMMA RefreshedSound ==
  ASSUME NEW c, Sound(c), NEW b, NEW u
  PROVE  /\ Sound(Refreshed(c, b, u))
         /\ Refreshed(c, b, u).limit = Larger(BaseLimit, LargestBound(b, u))
         /\ Unmoved(c, Refreshed(c, b, u))
<1> DEFINE m == LargestBound(b, u)
           limit == Larger(BaseLimit, m)
           moved == IF limit = c.limit THEN c ELSE SetGrowthLimit(c, limit)
<1>1. Refreshed(c, b, u) = IF m > 0 THEN Seed(moved, m) ELSE moved
  BY DEF Refreshed
<1>2. m \in Nat
  BY LargestBoundNat
<1> HIDE DEF m
<1>3. limit \in Nat /\ BaseLimit <= limit
  BY <1>2, DefaultAssumption DEF Larger, BaseLimit
<1> HIDE DEF limit
<1>4. Sound(moved) /\ moved.limit = limit /\ Unmoved(c, moved)
  BY <1>3, SetGrowthLimitSound DEF Unmoved
<1> HIDE DEF moved
<1>5. Sound(Seed(moved, m)) /\ Seed(moved, m).limit = limit /\ Unmoved(moved, Seed(moved, m))
  BY <1>2, <1>4, SeedSound
<1>6. Unmoved(c, Seed(moved, m))
  BY <1>4, <1>5 DEF Unmoved
<1> QED BY <1>1, <1>4, <1>5, <1>6 DEF limit, m

-----------------------------------------------------------------------------
(* The handlers *)

\* What noteRunUsed leaves of the controller.
LEMMA NotedUseSound ==
  ASSUME IInv, NEW r \in Run
  PROVE  /\ Sound(NotedUse(r)) /\ Unmoved(ctl, NotedUse(r))
         /\ NotedUse(r).limit = Larger(BaseLimit, LargestBound(bound, used \cup {r}))
<1>1. CASE r \notin used /\ bound[r] > 0
  BY <1>1, RefreshedSound DEF IInv, NotedUse
<1>2. CASE r \in used
  <2>1. used \cup {r} = used
    BY <1>2
  <2> QED BY <1>2, <2>1 DEF IInv, NotedUse, Unmoved, LimitIsOfTheRuns
<1>3. CASE ~ (bound[r] > 0)
  <2>1. bound[r] \in RunBound \cup {0}
    BY DEF IInv
  <2>2. bound[r] = 0
    <3>1. \A k \in RunBound : k \in Nat /\ k > 0
      BY CeilingAssumption
    <3> QED BY <1>3, <2>1, <3>1
  <2>3. LargestBound(bound, used \cup {r}) = LargestBound(bound, used)
    BY <2>2, LargestBoundWithout
  <2> QED BY <1>3, <2>3 DEF IInv, NotedUse, Unmoved, LimitIsOfTheRuns
<1> QED BY <1>1, <1>2, <1>3

\* If a ticket of the present epoch is left, the cap has not been set.
LEMMA UnmovedKeepsSent ==
  ASSUME IInv, NEW d, Sound(d), Unmoved(ctl, d)
  PROVE  d.fresh > 0 => sent /\ ~ SetAnew(d)
<1> SUFFICES ASSUME d.fresh > 0 PROVE sent /\ ~ SetAnew(d)
  OBVIOUS
<1>1. ctl.fresh = d.fresh /\ d.cap = ctl.cap
  BY DEF Unmoved, Sound, Controller
<1>2. ctl.fresh > 0 /\ ctl.inFlight # 0
  BY <1>1 DEF IInv, Sound, Controller
<1>3. IdleReset(ctl) = ctl
  BY <1>2 DEF IdleReset
<1> QED BY <1>1, <1>2, <1>3 DEF SetAnew, IInv, OneVerdictPerWave

LEMMA DrainSound ==
  ASSUME NEW c, Sound(c), NEW q, NEW ord, NEW verdict \in BOOLEAN, sent \in BOOLEAN,
         c.fresh > 0 => sent /\ ~ verdict,
         Drain(c, q, ord, verdict)
  PROVE  Sound(ctl') /\ ctl'.limit = c.limit /\ OneVerdictPerWave' /\ sent' \in BOOLEAN
<1> DEFINE i == IdleReset(c)
           n == Released(i, q)
<1>1. Sound(i) /\ i.limit = c.limit /\ i.fresh = c.fresh
  BY IdleResetSound
<1>2. ctl' = Admitted(i, n) /\ sent' = (n > 0 \/ (sent /\ ~ verdict))
  BY DEF Drain
<1> HIDE DEF i
<1>3. Waiters(q) \in Nat
  BY WaitersNat
<1>4. n \in Nat
  BY <1>1, <1>3 DEF Released, CanAdmit, Smaller, Sound, Controller
<1> HIDE DEF n
<1>5. Sound(ctl') /\ ctl'.limit = c.limit /\ ctl'.fresh = c.fresh + n
  BY <1>1, <1>2, <1>4, AdmittedSound
<1>6. c.fresh \in Nat
  BY DEF Sound, Controller
<1>7. n = 0 \/ n > 0
  BY <1>4
<1>8. CASE n = 0
  <2>1. ctl'.fresh = c.fresh
    BY <1>5, <1>6, <1>8
  <2>2. ctl'.fresh > 0 => sent'
    BY <2>1, <1>2
  <2> QED BY <1>2, <1>5, <2>2 DEF OneVerdictPerWave
<1>9. CASE n > 0
  BY <1>2, <1>5, <1>9 DEF OneVerdictPerWave
<1> QED BY <1>7, <1>8, <1>9

\* The signal of a ticket, whatever the reply.
LEMMA ReplySound ==
  ASSUME Sound(ctl), NEW reply \in Reply, NEW current \in BOOLEAN,
         IF current THEN ctl.fresh > 0 ELSE ctl.stale > 0
  PROVE  LET c == CASE reply = "completed" -> Succeeded(ctl, current, Waiters(queue))
                    [] reply = "refused" -> Throttled(ctl, current, FALSE)
                    [] reply = "refused for a while" -> Throttled(ctl, current, TRUE)
                    [] reply = "failed" -> FailedTransient(ctl, current)
                    [] reply = "ended" -> Taken(ctl, current)
         IN /\ Sound(c) /\ c.limit = ctl.limit /\ c.fresh <= ctl.fresh
            /\ current /\ reply \in {"refused", "refused for a while"} => c.fresh = 0
<1>1. CASE reply = "completed"
  BY <1>1, WaitersNat, SucceededSound
<1>2. CASE reply = "refused"
  BY <1>2, ThrottledSound
<1>3. CASE reply = "refused for a while"
  BY <1>3, ThrottledSound
<1>4. CASE reply = "failed"
  BY <1>4, FailedTransientSound
<1>5. CASE reply = "ended"
  BY <1>5, TakenSound
<1> QED BY <1>1, <1>2, <1>3, <1>4, <1>5, InstanceAssumption

-----------------------------------------------------------------------------
(* Steps *)

LEMMA PassKeepsIInv == ASSUME IInv, NEW r \in Run, Pass(r) PROVE IInv'
<1> DEFINE i == IdleReset(NotedUse(r))
<1>1. Sound(i) /\ i.limit = Larger(BaseLimit, LargestBound(bound, used \cup {r}))
  BY NotedUseSound, IdleResetSound
<1>2. ctl' = Admitted(i, 1) /\ bound' = bound /\ used' = used \cup {r} /\ sent' = TRUE
  BY DEF Pass
<1> HIDE DEF i
<1>3. Sound(ctl') /\ ctl'.limit = i.limit
  BY <1>1, <1>2, AdmittedSound
<1> QED BY <1>1, <1>2, <1>3 DEF IInv, LimitIsOfTheRuns, OneVerdictPerWave

LEMMA EnqueueKeepsIInv == ASSUME IInv, NEW r \in Run, Enqueue(r) PROVE IInv'
<1> DEFINE c == NotedUse(r)
<1>1. Sound(c) /\ Unmoved(ctl, c) /\ c.limit = Larger(BaseLimit, LargestBound(bound, used \cup {r}))
  BY NotedUseSound
<1>2. /\ Drain(c, [queue EXCEPT ![r] = @ + 1], Enqueued(order, queue, r), SetAnew(c))
      /\ bound' = bound /\ used' = used \cup {r}
  BY DEF Enqueue
<1> HIDE DEF c
<1>3. c.fresh > 0 => sent /\ ~ SetAnew(c)
  BY <1>1, UnmovedKeepsSent
<1>4. SetAnew(c) \in BOOLEAN /\ sent \in BOOLEAN
  BY DEF SetAnew, IInv
<1>5. Sound(ctl') /\ ctl'.limit = c.limit /\ OneVerdictPerWave' /\ sent' \in BOOLEAN
  BY <1>1, <1>2, <1>3, <1>4, DrainSound
<1> QED BY <1>1, <1>2, <1>5 DEF IInv, LimitIsOfTheRuns

LEMMA AbortKeepsIInv == ASSUME IInv, NEW r \in Run, Abort(r) PROVE IInv'
<1>1. Sound(IdleReset(ctl)) /\ IdleReset(ctl).limit = ctl.limit /\ IdleReset(ctl).fresh = ctl.fresh
  BY IdleResetSound DEF IInv
<1>2. ctl' = IdleReset(ctl) /\ UNCHANGED <<bound, used, sent>>
  BY DEF Abort
<1> QED BY <1>1, <1>2 DEF IInv, LimitIsOfTheRuns, OneVerdictPerWave

LEMMA ObserveKeepsIInv == ASSUME IInv, Observe PROVE IInv'
<1>1. Sound(IdleReset(ctl)) /\ IdleReset(ctl).limit = ctl.limit
  BY IdleResetSound DEF IInv
<1>2. Sound(Admitted(IdleReset(ctl), 1)) /\ Admitted(IdleReset(ctl), 1).limit = ctl.limit
  BY <1>1, AdmittedSound
<1>3. ctl' = Admitted(IdleReset(ctl), 1) /\ UNCHANGED <<bound, used>> /\ sent' = TRUE
  BY DEF Observe
<1> QED BY <1>2, <1>3 DEF IInv, LimitIsOfTheRuns, OneVerdictPerWave

LEMMA SettleKeepsIInv ==
  ASSUME IInv, NEW reply \in Reply, NEW current \in BOOLEAN, Settle(reply, current) PROVE IInv'
<1> DEFINE c == CASE reply = "completed" -> Succeeded(ctl, current, Waiters(queue))
                  [] reply = "refused" -> Throttled(ctl, current, FALSE)
                  [] reply = "refused for a while" -> Throttled(ctl, current, TRUE)
                  [] reply = "failed" -> FailedTransient(ctl, current)
                  [] reply = "ended" -> Taken(ctl, current)
           verdict == current /\ reply \in {"refused", "refused for a while"}
<1>1. /\ IF current THEN ctl.fresh > 0 ELSE ctl.stale > 0
      /\ Drain(c, queue, order, verdict) /\ UNCHANGED <<bound, used>>
  BY DEF Settle
<1>2. Sound(c) /\ c.limit = ctl.limit /\ c.fresh <= ctl.fresh /\ (verdict => c.fresh = 0)
  BY <1>1, ReplySound DEF IInv
<1> HIDE DEF c
<1>3. verdict \in BOOLEAN /\ sent \in BOOLEAN
  BY DEF IInv
<1>4. ctl.fresh > 0 => sent
  BY DEF IInv, OneVerdictPerWave
<1> HIDE DEF verdict
<1>5. c.fresh \in Nat /\ ctl.fresh \in Nat
  BY <1>2 DEF IInv, Sound, Controller
<1>6. c.fresh > 0 => sent /\ ~ verdict
  BY <1>2, <1>4, <1>5
<1>7. Sound(ctl') /\ ctl'.limit = c.limit /\ OneVerdictPerWave' /\ sent' \in BOOLEAN
  BY <1>1, <1>2, <1>3, <1>6, DrainSound
<1> QED BY <1>1, <1>2, <1>7 DEF IInv, LimitIsOfTheRuns

LEMMA SetRunBoundKeepsIInv ==
  ASSUME IInv, NEW r \in Run, NEW b \in RunBound, SetRunBound(r, b) PROVE IInv'
<1>1. /\ bound' = [bound EXCEPT ![r] = b] /\ used' = used
      /\ ctl' = (IF r \in used THEN Refreshed(ctl, bound', used) ELSE ctl)
      /\ sent' = (sent /\ ~ SetAnew(ctl'))
  BY DEF SetRunBound
<1>2. bound' \in [Run -> RunBound \cup {0}] /\ used' \subseteq Run
  BY <1>1 DEF IInv
<1>3. /\ Sound(ctl') /\ Unmoved(ctl, ctl')
      /\ ctl'.limit = Larger(BaseLimit, LargestBound(bound', used))
  <2>1. CASE r \in used
    BY <1>1, <2>1, RefreshedSound DEF IInv
  <2>2. CASE r \notin used
    <3>1. used \subseteq DOMAIN bound
      BY DEF IInv
    <3>2. LargestBound([bound EXCEPT ![r] = b], used) = LargestBound(bound, used)
      BY <2>2, <3>1, LargestBoundElsewhere, Zenon
    <3> QED BY <1>1, <2>2, <3>2 DEF IInv, LimitIsOfTheRuns, Unmoved
  <2> QED BY <2>1, <2>2
<1>4. ctl'.fresh > 0 => sent /\ ~ SetAnew(ctl')
  BY <1>3, UnmovedKeepsSent
<1>5. OneVerdictPerWave' /\ sent' \in BOOLEAN
  BY <1>1, <1>4 DEF OneVerdictPerWave, IInv
<1> QED BY <1>1, <1>2, <1>3, <1>5 DEF IInv, LimitIsOfTheRuns

LEMMA ClearRunBoundKeepsIInv == ASSUME IInv, NEW r \in Run, ClearRunBound(r) PROVE IInv'
<1>1. /\ bound' = [bound EXCEPT ![r] = 0] /\ used' = used \ {r}
      /\ ctl' = (IF r \in used THEN Refreshed(ctl, bound', used') ELSE ctl)
      /\ sent' = (sent /\ ~ SetAnew(ctl'))
  BY DEF ClearRunBound, RefreshedAfterClear
<1>2. bound' \in [Run -> RunBound \cup {0}] /\ used' \subseteq Run
  BY <1>1 DEF IInv
<1>3. /\ Sound(ctl') /\ Unmoved(ctl, ctl')
      /\ ctl'.limit = Larger(BaseLimit, LargestBound(bound', used'))
  <2>1. CASE r \in used
    BY <1>1, <2>1, RefreshedSound DEF IInv
  <2>2. CASE r \notin used
    <3>1. used' = used /\ used \subseteq DOMAIN bound
      BY <1>1, <2>2 DEF IInv
    <3>2. LargestBound([bound EXCEPT ![r] = 0], used) = LargestBound(bound, used)
      BY <2>2, <3>1, LargestBoundElsewhere, Zenon
    <3> QED BY <1>1, <2>2, <3>1, <3>2 DEF IInv, LimitIsOfTheRuns, Unmoved
  <2> QED BY <2>1, <2>2
<1>4. ctl'.fresh > 0 => sent /\ ~ SetAnew(ctl')
  BY <1>3, UnmovedKeepsSent
<1>5. OneVerdictPerWave' /\ sent' \in BOOLEAN
  BY <1>1, <1>4 DEF OneVerdictPerWave, IInv
<1> QED BY <1>1, <1>2, <1>3, <1>5 DEF IInv, LimitIsOfTheRuns

LEMMA WakeKeepsIInv == ASSUME IInv, Wake PROVE IInv'
<1>1. Drain(ctl, queue, order, FALSE) /\ UNCHANGED <<bound, used>>
  BY DEF Wake
<1>2. Sound(ctl) /\ sent \in BOOLEAN /\ (ctl.fresh > 0 => sent /\ ~ FALSE)
  BY DEF IInv, OneVerdictPerWave
<1>3. Sound(ctl') /\ ctl'.limit = ctl.limit /\ OneVerdictPerWave' /\ sent' \in BOOLEAN
  BY <1>1, <1>2, DrainSound
<1> QED BY <1>1, <1>3 DEF IInv, LimitIsOfTheRuns

\* Time changes none of the numbers.
LEMMA TimeKeepsIInv ==
  ASSUME IInv, CooldownEnds \/ IdleWindowPasses \/ RefusalIsOld PROVE IInv'
<1> DEFINE gone == IF ctl.cooldown = "running" THEN "over" ELSE ctl.cooldown
<1>1. Sound(ctl) /\ gone \in {"none", "running", "over"}
  BY DEF IInv, Sound, Controller
<1>2. /\ \/ ctl' = [ctl EXCEPT !.cooldown = gone]
         \/ ctl' = [ctl EXCEPT !.idle = TRUE]
         \/ ctl' = [ctl EXCEPT !.refused = FALSE]
      /\ UNCHANGED <<bound, used, sent>>
  BY DEF CooldownEnds, IdleWindowPasses, RefusalIsOld
<1> HIDE DEF gone
<1>3. ctl' \in Controller
  BY <1>1, <1>2, Zenon DEF Sound, Controller
<1>4. /\ ctl'.cap = ctl.cap /\ ctl'.limit = ctl.limit /\ ctl'.good = ctl.good
      /\ ctl'.inFlight = ctl.inFlight /\ ctl'.fresh = ctl.fresh /\ ctl'.stale = ctl.stale
  BY <1>1, <1>2 DEF Sound, Controller
<1> QED BY <1>1, <1>2, <1>3, <1>4 DEF IInv, Sound, LimitIsOfTheRuns, OneVerdictPerWave

LEMMA NextKeepsIInv == ASSUME IInv, [Next]_vars PROVE IInv'
<1>1. ASSUME NEW r \in Run, Pass(r) \/ Enqueue(r) \/ Abort(r) \/ ClearRunBound(r) PROVE IInv'
  BY <1>1, PassKeepsIInv, EnqueueKeepsIInv, AbortKeepsIInv, ClearRunBoundKeepsIInv
<1>2. ASSUME NEW r \in Run, NEW b \in RunBound, SetRunBound(r, b) PROVE IInv'
  BY <1>2, SetRunBoundKeepsIInv
<1>3. CASE Observe
  BY <1>3, ObserveKeepsIInv
<1>4. ASSUME NEW reply \in Reply, NEW current \in BOOLEAN, Settle(reply, current) PROVE IInv'
  BY <1>4, SettleKeepsIInv
<1>5. CASE Settling
  <2>1. PICK reply \in Reply, current \in BOOLEAN : Settle(reply, current)
    BY <1>5 DEF Settling, Settle
  <2> QED BY <2>1, <1>4
<1>6. CASE Wake
  BY <1>6, WakeKeepsIInv
<1>7. CASE CooldownEnds \/ IdleWindowPasses \/ RefusalIsOld
  BY <1>7, TimeKeepsIInv
<1>8. CASE UNCHANGED vars
  BY <1>8 DEF IInv, LimitIsOfTheRuns, OneVerdictPerWave, vars
<1> QED BY <1>1, <1>2, <1>3, <1>5, <1>6, <1>7, <1>8 DEF Next

LEMMA InitGivesIInv == Init => IInv
<1> SUFFICES ASSUME Init PROVE IInv
  OBVIOUS
<1>1. DEFAULT \in Nat /\ DEFAULT >= 1 /\ BaseLimit \in Nat /\ 0 \in 0..INCREASE_AFTER
  BY DefaultAssumption DEF BaseLimit
<1>2. ctl \in Controller
  BY <1>1, Zenon DEF Init, Controller
<1>3. /\ ctl.cap = DEFAULT /\ ctl.limit = BaseLimit /\ ctl.good = 0
      /\ ctl.inFlight = 0 /\ ctl.fresh = 0 /\ ctl.stale = 0
  BY DEF Init
<1>4. Sound(ctl)
  BY <1>1, <1>2, <1>3, DefaultAssumption DEF Sound, FLOOR, BaseLimit
<1>5. LargestBound(bound, {}) = 0
  <2>1. {k \in 1..CEILING : \E r \in {} : k <= bound[r]} = {}
    OBVIOUS
  <2> QED BY <2>1, FS_EmptySet DEF LargestBound
<1>6. LimitIsOfTheRuns
  BY <1>1, <1>3, <1>5 DEF Init, LimitIsOfTheRuns, Larger
<1> QED BY <1>3, <1>4, <1>6 DEF Init, IInv, OneVerdictPerWave

\* The controller's numbers hang together in every state, whatever requests,
\* replies, aborts, retunes and passing time do.
THEOREM Invariance == Spec => []IInv
<1>1. Init => IInv
  BY InitGivesIInv
<1>2. IInv /\ [Next]_vars => IInv'
  BY NextKeepsIInv
<1> QED BY <1>1, <1>2, PTL DEF Spec

\* The cap of a key stays between the floor and the growth limit, and no
\* proven level above the cap survives for a refusal to fall back to.
THEOREM CapStaysWithinLimits == Spec => []CapWithinLimits
<1>1. IInv => CapWithinLimits
  BY DEF IInv, Sound, Controller, CapWithinLimits, FLOOR
<1> QED BY <1>1, Invariance, PTL

\* The growth limit is never that of a run which has settled or been
\* retuned: it is the one of the registered runs which have used the key.
THEOREM LimitFollowsRuns == Spec => []LimitIsOfTheRuns
<1>1. IInv => LimitIsOfTheRuns
  BY DEF IInv
<1> QED BY <1>1, Invariance, PTL

\* The refusals of requests which were in flight together cut the cap once.
THEOREM OneVerdict == Spec => []OneVerdictPerWave
<1>1. IInv => OneVerdictPerWave
  BY DEF IInv
<1> QED BY <1>1, Invariance, PTL
-----------------------------------------------------------------------------
(* Queues and numbers *)

LEMMA Sequence ==
  ASSUME NEW S, NEW s \in Seq(S)
  PROVE  Len(s) \in Nat /\ DOMAIN s = 1..Len(s) /\ \A i \in 1..Len(s) : s[i] \in S
OBVIOUS

\* A place is the last one or there is one after it.
LEMMA EndOrNot == ASSUME NEW l \in Nat, NEW n \in 0..l PROVE n + 1 <= l \/ n = l
OBVIOUS

\* A key is deleted from the map of queues.
LEMMA OneLess ==
  ASSUME NEW p \in Seq(Run), IsInjective(p), NEW a \in ToSet(p)
  PROVE  LET rest == RemoveAt(p, Place(p, a))
         IN  rest \in Seq(Run) /\ IsInjective(rest) /\ ToSet(rest) = ToSet(p) \ {a}
<1> DEFINE k == Place(p, a)
           rest == RemoveAt(p, k)
<1>1. k \in 1..Len(p) /\ p[k] = a /\ Len(p) \in Nat /\ DOMAIN p = 1..Len(p)
      /\ \A i \in 1..Len(p) : p[i] \in Run
  BY DEF ToSet, Place
<1>2. rest = SubSeq(p, 1, k - 1) \o SubSeq(p, k + 1, Len(p))
  BY DEF RemoveAt
<1> HIDE DEF k, rest
<1>3. /\ rest \in Seq(Run) /\ Len(rest) = Len(p) - 1 /\ DOMAIN rest = 1..(Len(p) - 1)
      /\ \A i \in 1..(Len(p) - 1) : rest[i] = IF i < k THEN p[i] ELSE p[i + 1]
  <2> DEFINE u == SubSeq(p, 1, k - 1)
             v == SubSeq(p, k + 1, Len(p))
  <2>1. /\ u \in Seq(Run) /\ Len(u) = IF 1 <= k - 1 THEN (k - 1) - 1 + 1 ELSE 0
        /\ \A i \in 1..((k - 1) - 1 + 1) : u[i] = p[1 + i - 1]
    BY <1>1, SubSeqProperties
  <2>2. /\ v \in Seq(Run) /\ Len(v) = IF k + 1 <= Len(p) THEN Len(p) - (k + 1) + 1 ELSE 0
        /\ \A i \in 1..(Len(p) - (k + 1) + 1) : v[i] = p[(k + 1) + i - 1]
    BY <1>1, SubSeqProperties
  <2>3. rest = u \o v
    BY <1>2
  <2> HIDE DEF u, v
  <2>4. Len(u) = k - 1 /\ Len(v) = Len(p) - k
    <3>1. Len(u) = k - 1
      BY <1>1, <2>1
    <3>2. CASE k + 1 <= Len(p)
      BY <1>1, <2>2, <3>1, <3>2
    <3>3. CASE k = Len(p)
      BY <1>1, <2>2, <3>1, <3>3, SMTT(30)
    <3>4. k + 1 <= Len(p) \/ k = Len(p)
      <4>1. k \in 0..Len(p)
        BY <1>1
      <4> QED BY <1>1, <4>1, EndOrNot
    <3> QED BY <3>2, <3>3, <3>4
  <2>5. /\ rest \in Seq(Run) /\ Len(rest) = Len(u) + Len(v)
        /\ \A i \in 1..(Len(u) + Len(v)) : rest[i] = IF i <= Len(u) THEN u[i] ELSE v[i - Len(u)]
    BY <2>1, <2>2, <2>3, ConcatProperties
  <2>6. ASSUME NEW i \in 1..(Len(p) - 1) PROVE rest[i] = IF i < k THEN p[i] ELSE p[i + 1]
    <3>1. i \in 1..(Len(u) + Len(v)) /\ k \in Nat
      BY <1>1, <2>4
    <3>2. CASE i < k
      <4>1. i \in 1..((k - 1) - 1 + 1) /\ i <= Len(u) /\ 1 + i - 1 = i
        BY <1>1, <2>4, <3>2
      <4> QED BY <2>1, <2>5, <3>1, <3>2, <4>1
    <3>3. CASE ~ (i < k)
      <4>1. /\ (i - (k - 1)) \in 1..(Len(p) - (k + 1) + 1) /\ ~ (i <= Len(u))
            /\ (k + 1) + (i - (k - 1)) - 1 = i + 1 /\ i - Len(u) = i - (k - 1)
        BY <1>1, <2>4, <3>1, <3>3
      <4> QED BY <2>2, <2>5, <3>1, <3>3, <4>1
    <3> QED BY <3>2, <3>3
  <2> QED BY <1>1, <2>4, <2>5, <2>6
<1>4. IsInjective(rest)
  BY <1>1, <1>3, SMTT(30) DEF IsInjective
<1>5. ToSet(rest) = ToSet(p) \ {a}
  <2>1. ASSUME NEW x \in ToSet(rest) PROVE x \in ToSet(p) \ {a}
    <3>1. PICK i \in 1..(Len(p) - 1) : x = rest[i]
      BY <1>3 DEF ToSet
    <3>2. PICK j \in 1..Len(p) : x = p[j] /\ j # k
      BY <1>1, <1>3, <3>1
    <3> QED BY <1>1, <3>2 DEF ToSet, IsInjective
  <2>2. ASSUME NEW x \in ToSet(p) \ {a} PROVE x \in ToSet(rest)
    <3>1. PICK j \in 1..Len(p) : x = p[j]
      BY <1>1 DEF ToSet
    <3>2. CASE j < k
      BY <1>1, <1>3, <3>1, <3>2 DEF ToSet
    <3>3. CASE j > k
      <4>1. (j - 1) \in 1..(Len(p) - 1) /\ rest[j - 1] = x
        BY <1>1, <1>3, <3>1, <3>3
      <4> QED BY <1>3, <4>1 DEF ToSet
    <3> QED BY <1>1, <3>1, <3>2, <3>3
  <2> QED BY <2>1, <2>2
<1> QED BY <1>3, <1>4, <1>5 DEF rest, k

\* A key is added to it.
LEMMA OneMore ==
  ASSUME NEW s \in Seq(Run), IsInjective(s), NEW x \in Run, x \notin ToSet(s)
  PROVE  /\ Append(s, x) \in Seq(Run) /\ IsInjective(Append(s, x))
         /\ ToSet(Append(s, x)) = ToSet(s) \cup {x}
<1> DEFINE more == Append(s, x)
<1>1. Len(s) \in Nat /\ DOMAIN s = 1..Len(s)
  BY Sequence
<1>2. /\ more \in Seq(Run) /\ DOMAIN more = 1..(Len(s) + 1)
      /\ \A i \in 1..Len(s) : more[i] = s[i]
      /\ more[Len(s) + 1] = x
  BY <1>1, AppendProperties, Sequence
<1> HIDE DEF more
<1>3. \A i \in 1..Len(s) : s[i] # x
  BY <1>1 DEF ToSet
<1>4. \A i \in 1..(Len(s) + 1) : i \in 1..Len(s) \/ i = Len(s) + 1
  BY <1>1
<1>5. IsInjective(more)
  BY <1>1, <1>2, <1>3, <1>4 DEF IsInjective
<1>6. ToSet(more) = ToSet(s) \cup {x}
  <2>1. ASSUME NEW y \in ToSet(more) PROVE y \in ToSet(s) \cup {x}
    BY <1>1, <1>2, <1>4, <2>1 DEF ToSet
  <2>2. ASSUME NEW y \in ToSet(s) \cup {x} PROVE y \in ToSet(more)
    <3>1. (Len(s) + 1) \in DOMAIN more /\ \A i \in DOMAIN s : i \in DOMAIN more
      BY <1>1, <1>2
    <3> QED BY <1>1, <1>2, <2>2, <3>1 DEF ToSet
  <2> QED BY <2>1, <2>2
<1> QED BY <1>2, <1>5, <1>6 DEF more

\* Every nonempty set of numbers has a least one.
LEMMA Least == ASSUME NEW T, T \subseteq Nat, T # {} PROVE \E n \in T : \A m \in T : n <= m
<1>1. PICK n \in T : \A m \in T : <<m, n>> \notin OpToRel(<, Nat)
  BY WFMin, NatLessThanWellFounded, Zenon
<1>2. \A m \in T : ~ (m < n)
  BY <1>1, Zenon DEF OpToRel
<1>3. ASSUME NEW m \in T PROVE n <= m
  <2>1. n \in Nat /\ m \in Nat
    OBVIOUS
  <2> QED BY <1>2, <2>1
<1> QED BY <1>3

-----------------------------------------------------------------------------
(* The loop of drain *)

\* The queues belong to the runs that wait.
Queued(q, ord) ==
  /\ q \in [Run -> 0..MaxQueued]
  /\ ord \in Seq(Run) /\ IsInjective(ord) /\ ToSet(ord) = {r \in Run : q[r] > 0}

\* The state of the loop.
Turn(s) ==
  /\ Queued(s.queue, s.order)
  /\ s.last \in Run \cup {NoRun, Observer} /\ s.through \subseteq Run

\* If anybody waits, a run has a queue.
LEMMA SomebodyWaits ==
  ASSUME NEW q, NEW ord, Queued(q, ord) PROVE Waiters(q) > 0 <=> ord # <<>>
<1> DEFINE W == {w \in Run \X (1..MaxQueued) : w[2] <= q[w[1]]}
<1>1. IsFiniteSet(W) /\ Waiters(q) = Cardinality(W)
  <2>0. IsFiniteSet(1..MaxQueued)
    BY FS_Interval, BoundAssumption
  <2>1. IsFiniteSet(Run \X (1..MaxQueued))
    BY <2>0, FS_Product, RunAssumption
  <2>2. W \in SUBSET (Run \X (1..MaxQueued))
    OBVIOUS
  <2> QED BY <2>1, <2>2, FS_Subset DEF Waiters
<1>2. Waiters(q) = 0 <=> W = {}
  BY <1>1, FS_EmptySet
<1>3. W = {} <=> {r \in Run : q[r] > 0} = {}
  <2>1. ASSUME NEW w \in W PROVE q[w[1]] > 0 /\ w[1] \in Run
    BY BoundAssumption DEF Queued
  <2>2. ASSUME NEW r \in Run, q[r] > 0 PROVE <<r, q[r]>> \in W
    BY <2>2, BoundAssumption DEF Queued
  <2> QED BY <2>1, <2>2
<1>4. ToSet(ord) = {} <=> ord = <<>>
  <2>1. Len(ord) \in Nat /\ DOMAIN ord = 1..Len(ord)
    BY Sequence DEF Queued
  <2>2. ord = <<>> <=> Len(ord) = 0
    BY EmptySeq DEF Queued
  <2>3. Len(ord) # 0 => 1 \in DOMAIN ord
    BY <2>1
  <2>4. Len(ord) = 0 => DOMAIN ord = {}
    BY <2>1
  <2> QED BY <2>2, <2>3, <2>4 DEF ToSet
<1> HIDE DEF W
<1>5. Waiters(q) \in Nat
  BY WaitersNat
<1> QED BY <1>2, <1>3, <1>4, <1>5 DEF Queued

\* A run that waits is found.
LEMMA NextRunWaits ==
  ASSUME NEW q, NEW ord, Queued(q, ord), ord # <<>>, NEW previous
  PROVE  NextRun(ord, previous) \in Run /\ q[NextRun(ord, previous)] > 0
<1> DEFINE place == IF previous \in ToSet(ord) THEN Place(ord, previous) ELSE 0
<1>1. Len(ord) \in Nat \ {0} /\ DOMAIN ord = 1..Len(ord)
  BY Sequence, EmptySeq DEF Queued
<1>2. place \in 0..Len(ord)
  BY <1>1 DEF Place, ToSet
<1> HIDE DEF place
<1>3. (place % Len(ord)) + 1 \in 1..Len(ord)
  <2>1. place % Len(ord) \in 0..(Len(ord) - 1)
    BY <1>1, <1>2
  <2> QED BY <1>1, <2>1
<1>4. NextRun(ord, previous) = ord[(place % Len(ord)) + 1]
  BY DEF NextRun, place
<1>5. NextRun(ord, previous) \in ToSet(ord)
  BY <1>1, <1>3, <1>4 DEF ToSet
<1> QED BY <1>5 DEF Queued

\* One waiter of a run less, and its key if it was the last.
LEMMA DequeuedQueued ==
  ASSUME NEW q, NEW ord, Queued(q, ord), NEW r \in Run, q[r] > 0
  PROVE  /\ Queued([q EXCEPT ![r] = @ - 1], Dequeued(ord, q, r))
         /\ Waiters([q EXCEPT ![r] = @ - 1]) = Waiters(q) - 1
<1> DEFINE p == [q EXCEPT ![r] = @ - 1]
           ord2 == Dequeued(ord, q, r)
<1>1. q[r] \in 0..MaxQueued /\ q[r] \in Nat /\ q[r] - 1 \in 0..MaxQueued
  BY BoundAssumption DEF Queued
<1>2. /\ p \in [Run -> 0..MaxQueued] /\ p[r] = q[r] - 1
      /\ \A s \in Run : s # r => p[s] = q[s]
  BY <1>1 DEF Queued
<1> HIDE DEF p
<1>3. ASSUME q[r] = 1 PROVE Queued(p, ord2)
  <2>1. {s \in Run : p[s] > 0} = {s \in Run : q[s] > 0} \ {r}
    <3>1. ~ (p[r] > 0)
      BY <1>2, <1>3
    <3> QED BY <1>2, <3>1
  <2>2. r \in ToSet(ord) /\ ord2 = RemoveAt(ord, Place(ord, r))
    BY <1>3 DEF Queued, Dequeued
  <2>3. ord2 \in Seq(Run) /\ IsInjective(ord2) /\ ToSet(ord2) = ToSet(ord) \ {r}
    BY <2>2, OneLess DEF Queued
  <2> QED BY <1>2, <2>1, <2>3 DEF Queued
<1>4. ASSUME q[r] # 1 PROVE Queued(p, ord2)
  <2>1. p[r] > 0
    BY <1>1, <1>2, <1>4
  <2>2. {s \in Run : p[s] > 0} = {s \in Run : q[s] > 0}
    BY <1>2, <2>1
  <2>3. ord2 = ord
    BY <1>4 DEF Dequeued
  <2> QED BY <1>2, <2>2, <2>3 DEF Queued
<1>5. Waiters(p) = Waiters(q) - 1
  <2> DEFINE W == {w \in Run \X (1..MaxQueued) : w[2] <= q[w[1]]}
             V == {w \in Run \X (1..MaxQueued) : w[2] <= p[w[1]]}
  <2>1. IsFiniteSet(W)
    <3>0. IsFiniteSet(1..MaxQueued)
      BY FS_Interval, BoundAssumption
    <3>1. IsFiniteSet(Run \X (1..MaxQueued))
      BY <3>0, FS_Product, RunAssumption
    <3>2. W \in SUBSET (Run \X (1..MaxQueued))
      OBVIOUS
    <3> QED BY <3>1, <3>2, FS_Subset
  <2>2. <<r, q[r]>> \in W
    BY <1>1
  <2>3. V = W \ {<<r, q[r]>>}
    <3>1. ASSUME NEW s \in Run, NEW n \in 1..MaxQueued
          PROVE  n <= p[s] <=> n <= q[s] /\ <<s, n>> # <<r, q[r]>>
      <4>1. CASE s = r
        <5>1. n <= q[r] - 1 <=> n <= q[r] /\ n # q[r]
          BY <1>1, BoundAssumption
        <5> QED BY <1>2, <4>1, <5>1
      <4>2. CASE s # r
        BY <1>2, <4>2
      <4> QED BY <4>1, <4>2
    <3>2. \A w \in Run \X (1..MaxQueued) : w = <<w[1], w[2]>> /\ w[1] \in Run /\ w[2] \in 1..MaxQueued
      OBVIOUS
    <3> QED BY <3>1, <3>2
  <2> HIDE DEF W, V
  <2>4. Cardinality(V) = Cardinality(W) - 1
    BY <2>1, <2>2, <2>3, FS_RemoveElement
  <2> QED BY <2>4 DEF Waiters, W, V
<1> QED BY <1>3, <1>4, <1>5 DEF p

\* One round of the loop.
LEMMA RoundKeepsTurn ==
  ASSUME NEW s, Turn(s), Waiters(s.queue) > 0
  PROVE  Turn(GrantNext(s)) /\ Waiters(GrantNext(s).queue) = Waiters(s.queue) - 1
<1> DEFINE r == NextRun(s.order, s.last)
<1>1. s.order # <<>>
  BY SomebodyWaits DEF Turn
<1>2. r \in Run /\ s.queue[r] > 0
  BY <1>1, NextRunWaits DEF Turn
<1>3. GrantNext(s) = [queue |-> [s.queue EXCEPT ![r] = @ - 1],
                      order |-> Dequeued(s.order, s.queue, r),
                      last |-> r, through |-> s.through \cup {r}]
  BY DEF GrantNext
<1> HIDE DEF r
<1>4. /\ Queued(GrantNext(s).queue, GrantNext(s).order)
      /\ Waiters(GrantNext(s).queue) = Waiters(s.queue) - 1
  BY <1>2, <1>3, DequeuedQueued DEF Turn
<1> QED BY <1>2, <1>3, <1>4 DEF Turn

\* The loop is defined: n rounds of it, for any n.
LEMMA LoopExists ==
  ASSUME NEW start, NEW n \in Nat
  PROVE  \E s : s = [i \in 0..n |-> IF i = 0 THEN start ELSE GrantNext(s[i - 1])]
<1> DEFINE Runs(m) == \E s : s = [i \in 0..m |-> IF i = 0 THEN start ELSE GrantNext(s[i - 1])]
           Bad == {m \in Nat : ~ Runs(m)}
<1> SUFFICES ASSUME Bad # {} PROVE FALSE
  OBVIOUS
<1>1. PICK m \in Bad : \A k \in Bad : m <= k
  <2>1. Bad \subseteq Nat
    OBVIOUS
  <2> HIDE DEF Bad
  <2> QED BY <2>1, Least
<1>2. m \in Nat /\ ~ Runs(m)
  OBVIOUS
<1>3. CASE m = 0
  <2> DEFINE h == [i \in 0..0 |-> start]
  <2>1. h = [i \in 0..0 |-> IF i = 0 THEN start ELSE GrantNext(h[i - 1])]
    OBVIOUS
  <2> QED BY <1>2, <1>3, <2>1
<1>4. CASE m # 0
  <2>1. Runs(m - 1)
    <3>1. m - 1 \in Nat /\ ~ (m <= m - 1)
      BY <1>2, <1>4
    <3> QED BY <1>1, <3>1
  <2>2. PICK g : g = [i \in 0..(m - 1) |-> IF i = 0 THEN start ELSE GrantNext(g[i - 1])]
    BY <2>1
  <2> DEFINE h == [i \in 0..m |-> IF i = m THEN GrantNext(g[m - 1]) ELSE g[i]]
  <2>3. ASSUME NEW i \in 0..m PROVE h[i] = IF i = 0 THEN start ELSE GrantNext(h[i - 1])
    <3>1. CASE i = m
      <4>1. m - 1 \in 0..m /\ m - 1 # m /\ i # 0
        BY <1>2, <1>4, <3>1
      <4> QED BY <4>1, <3>1
    <3>2. CASE i # m /\ i = 0
      <4>1. i \in 0..(m - 1)
        BY <3>2, <1>2, <1>4
      <4> QED BY <4>1, <3>2, <2>2
    <3>3. CASE i # m /\ i # 0
      <4>1. i \in 0..(m - 1) /\ i - 1 \in 0..m /\ i - 1 # m
        BY <3>3, <1>2, <1>4
      <4>2. h[i - 1] = g[i - 1] /\ h[i] = g[i]
        BY <4>1, <3>3
      <4>3. g[i] = GrantNext(g[i - 1])
        BY <4>1, <3>3, <2>2
      <4> QED BY <4>2, <4>3, <3>3
    <3> QED BY <3>1, <3>2, <3>3
  <2>4. h = [i \in 0..m |-> IF i = 0 THEN start ELSE GrantNext(h[i - 1])]
    BY <2>3
  <2> HIDE DEF h
  <2> QED BY <1>2, <2>4
<1> QED BY <1>3, <1>4

\* As long as it finds a waiter in every round, the loop leaves the queues in
\* order and n waiters less.
LEMMA LoopKeepsTurn ==
  ASSUME NEW start, Turn(start), NEW n \in Nat, n <= Waiters(start.queue)
  PROVE  /\ Turn(Grants(start, n))
         /\ Waiters(Grants(start, n).queue) = Waiters(start.queue) - n
         /\ n = 0 => Grants(start, n) = start
<1> DEFINE s == CHOOSE s : s = [i \in 0..n |-> IF i = 0 THEN start ELSE GrantNext(s[i - 1])]
           w == Waiters(start.queue)
           Good(i) == Turn(s[i]) /\ Waiters(s[i].queue) = w - i
           Bad == {i \in 0..n : ~ Good(i)}
<1>1. s = [i \in 0..n |-> IF i = 0 THEN start ELSE GrantNext(s[i - 1])]
  BY LoopExists
<1>2. Grants(start, n) = s[n]
  BY DEF Grants
<1>3. w \in Nat /\ n <= w
  BY WaitersNat
<1> HIDE DEF s, w
<1>4. s[0] = start /\ \A i \in 1..n : s[i] = GrantNext(s[i - 1])
  BY <1>1
<1>5. ASSUME Bad # {} PROVE FALSE
  <2>1. PICK m \in Bad : \A k \in Bad : m <= k
    <3>1. Bad \subseteq Nat
      OBVIOUS
    <3> HIDE DEF Bad
    <3> QED BY <1>5, <3>1, Least
  <2>2. m \in 0..n /\ ~ Good(m)
    OBVIOUS
  <2>3. m # 0
    BY <1>3, <1>4, <2>2 DEF w
  <2>4. m \in 1..n /\ m - 1 \in 0..n /\ ~ (m <= m - 1) /\ w - (m - 1) > 0 /\ w - (m - 1) - 1 = w - m
    BY <1>3, <2>2, <2>3
  <2>5. Good(m - 1)
    BY <2>1, <2>4
  <2>6. s[m] = GrantNext(s[m - 1])
    BY <1>4, <2>4
  <2>7. Turn(s[m]) /\ Waiters(s[m].queue) = Waiters(s[m - 1].queue) - 1
    BY <2>4, <2>5, <2>6, RoundKeepsTurn
  <2> QED BY <2>2, <2>4, <2>5, <2>7
<1>6. Good(n)
  BY <1>5
<1> QED BY <1>2, <1>4, <1>6 DEF w
\* A waiter more of a run, and its key if it is the first.
LEMMA EnqueuedQueued ==
  ASSUME NEW q, NEW ord, Queued(q, ord), NEW r \in Run, q[r] < MaxQueued
  PROVE  Queued([q EXCEPT ![r] = @ + 1], Enqueued(ord, q, r))
<1> DEFINE p == [q EXCEPT ![r] = @ + 1]
           ord2 == Enqueued(ord, q, r)
<1>1. q[r] \in 0..MaxQueued /\ q[r] + 1 \in 0..MaxQueued
  BY BoundAssumption DEF Queued
<1>2. /\ p \in [Run -> 0..MaxQueued] /\ p[r] = q[r] + 1
      /\ \A s \in Run : s # r => p[s] = q[s]
  BY <1>1 DEF Queued
<1> HIDE DEF p
<1>3. p[r] > 0
  BY <1>1, <1>2
<1>4. {s \in Run : p[s] > 0} = {s \in Run : q[s] > 0} \cup {r}
  BY <1>2, <1>3
<1>5. ASSUME q[r] = 0 PROVE Queued(p, ord2)
  <2>1. r \notin ToSet(ord) /\ ord2 = Append(ord, r)
    BY <1>5 DEF Queued, Enqueued
  <2>2. ord2 \in Seq(Run) /\ IsInjective(ord2) /\ ToSet(ord2) = ToSet(ord) \cup {r}
    BY <2>1, OneMore DEF Queued
  <2> QED BY <1>2, <1>4, <2>2 DEF Queued
<1>6. ASSUME q[r] # 0 PROVE Queued(p, ord2)
  <2>1. q[r] > 0 /\ ord2 = ord
    BY <1>1, <1>6 DEF Enqueued
  <2> QED BY <1>2, <1>4, <2>1 DEF Queued
<1> QED BY <1>5, <1>6 DEF p

-----------------------------------------------------------------------------
(* What every handler keeps of the queues *)

InOrder ==
  /\ Queued(queue, order)
  /\ last \in Run \cup {NoRun, Observer} /\ alarm \in {"off", "ahead", "due"} /\ through \subseteq Run

LEMMA AlarmIsOne == ASSUME NEW c, NEW q PROVE Alarm(c, q) \in {"off", "ahead", "due"}
<1>1. CASE Waiters(q) = 0 \/ c.cooldown = "none"
  BY <1>1 DEF Alarm
<1>2. CASE ~ (Waiters(q) = 0 \/ c.cooldown = "none") /\ c.cooldown = "running" /\ Waiters(q) > 0
  BY <1>2 DEF Alarm
<1>3. CASE ~ (Waiters(q) = 0 \/ c.cooldown = "none") /\ ~ (c.cooldown = "running" /\ Waiters(q) > 0)
  BY <1>3 DEF Alarm
<1> QED BY <1>1, <1>2, <1>3

\* Whoever still waits when a drain is over waits for the end of a request in
\* flight, or the timer is set: either a request went out, or nobody was let
\* through because the cap is reached, or because a cool-down is running.
LEMMA DrainKeepsInOrder ==
  ASSUME NEW c, Sound(c), NEW q, NEW ord, Queued(q, ord), InOrder, NEW verdict,
         Drain(c, q, ord, verdict)
  PROVE  InOrder' /\ NobodyForgotten'
<1> DEFINE i == IdleReset(c)
           n == Released(i, q)
           start == [queue |-> q, order |-> ord, last |-> last, through |-> {}]
           s == Grants(start, n)
<1>1. Sound(i)
  BY IdleResetSound
<1>2. /\ ctl' = Admitted(i, n) /\ queue' = s.queue /\ order' = s.order /\ last' = s.last
      /\ alarm' = Alarm(ctl', s.queue) /\ through' = s.through
  BY DEF Drain
<1> HIDE DEF i
<1>3. Waiters(q) \in Nat /\ i.cap \in Nat /\ i.cap >= 1 /\ i.inFlight \in Nat
      /\ i.cooldown \in {"none", "running", "over"}
  BY <1>1, WaitersNat DEF Sound, Controller, FLOOR
<1>4. n \in Nat /\ n <= Waiters(q)
  BY <1>3 DEF Released, CanAdmit, Smaller
<1>5. ASSUME n = 0, Waiters(q) > 0 PROVE i.inFlight > 0 \/ i.cooldown = "running"
  BY <1>3, <1>5 DEF Released, CanAdmit, Smaller
<1> HIDE DEF n
<1>6. Turn(start) /\ start.queue = q /\ start.order = ord
  BY DEF Turn, InOrder
<1> HIDE DEF start
<1>7. Turn(s) /\ Waiters(s.queue) = Waiters(q) - n /\ (n = 0 => s = start)
  BY <1>4, <1>6, LoopKeepsTurn
<1> HIDE DEF s
<1>8. InOrder'
  BY <1>2, <1>7, AlarmIsOne DEF InOrder, Turn
<1>9. ctl'.inFlight = i.inFlight + n /\ ctl'.cooldown = i.cooldown
  BY <1>1, <1>2 DEF Admitted, Sound, Controller
<1>10. ASSUME n > 0 PROVE NobodyForgotten'
  BY <1>3, <1>4, <1>9, <1>10 DEF NobodyForgotten
<1>11. ASSUME n = 0 PROVE NobodyForgotten'
  <2> SUFFICES ASSUME order' # <<>> PROVE ctl'.inFlight > 0 \/ alarm' # "off"
    BY DEF NobodyForgotten
  <2>1. Waiters(q) > 0 /\ s.queue = q
    BY <1>2, <1>6, <1>7, <1>11, SomebodyWaits
  <2>2. CASE i.inFlight > 0
    BY <1>3, <1>9, <1>11, <2>2
  <2>3. CASE i.cooldown = "running"
    <3>1. Alarm(ctl', q) = "ahead"
      BY <1>9, <2>1, <2>3 DEF Alarm
    <3> QED BY <1>2, <2>1, <3>1
  <2> QED BY <1>5, <1>11, <2>1, <2>2, <2>3
<1> QED BY <1>4, <1>8, <1>10, <1>11

\* A change of bounds lets no request in or out.
LEMMA SignalsKeepInFlight ==
  ASSUME NEW c, Sound(c), NEW b, NEW u
  PROVE  Refreshed(c, b, u).inFlight = c.inFlight
<1>1. ASSUME NEW d, Sound(d) PROVE IdleReset(d).inFlight = d.inFlight /\ EpochTurned(d).inFlight = d.inFlight
  BY <1>1 DEF IdleReset, EpochTurned, Sound, Controller
<1>2. ASSUME NEW d, Sound(d), NEW limit PROVE SetGrowthLimit(d, limit).inFlight = d.inFlight
  <2> DEFINE i == IdleReset(d)
             e == [i EXCEPT !.limit = limit]
             f == [e EXCEPT !.cap = limit, !.good = Smaller(@, limit), !.streak = 0]
  <2>1. Sound(i) /\ i.inFlight = d.inFlight
    BY <1>1, <1>2, IdleResetSound
  <2>2. SetGrowthLimit(d, limit) = IF e.cap <= limit THEN e ELSE EpochTurned(f)
    BY DEF SetGrowthLimit, Lowered
  <2> HIDE DEF i
  <2>3. e.inFlight = d.inFlight /\ f.inFlight = d.inFlight
    BY <2>1 DEF Sound, Controller
  <2>4. EpochTurned(f).inFlight = f.inFlight
    <3>1. DOMAIN f = DOMAIN i /\ "inFlight" \in DOMAIN f
      BY <2>1 DEF Sound, Controller
    <3> QED BY <3>1 DEF EpochTurned
  <2> QED BY <2>2, <2>3, <2>4
<1>3. ASSUME NEW d, Sound(d), NEW target PROVE Seed(d, target).inFlight = d.inFlight
  <2> DEFINE i == IdleReset(d)
             next == Smaller(i.limit, target)
             f == [i EXCEPT !.cap = next, !.good = 0, !.streak = 0]
  <2>1. Sound(i) /\ i.inFlight = d.inFlight
    BY <1>1, <1>3, IdleResetSound
  <2>2. Seed(d, target) = IF next <= i.cap \/ i.refused THEN i ELSE EpochTurned(f)
    BY DEF Seed
  <2> HIDE DEF i, next
  <2>3. f.inFlight = d.inFlight
    BY <2>1 DEF Sound, Controller
  <2>4. EpochTurned(f).inFlight = f.inFlight
    <3>1. DOMAIN f = DOMAIN i /\ "inFlight" \in DOMAIN f
      BY <2>1 DEF Sound, Controller
    <3> QED BY <3>1 DEF EpochTurned
  <2> QED BY <2>1, <2>2, <2>3, <2>4
<1> DEFINE m == LargestBound(b, u)
           limit == Larger(BaseLimit, m)
           moved == IF limit = c.limit THEN c ELSE SetGrowthLimit(c, limit)
<1>4. Refreshed(c, b, u) = IF m > 0 THEN Seed(moved, m) ELSE moved
  BY DEF Refreshed
<1>5. m \in Nat
  BY LargestBoundNat
<1> HIDE DEF m
<1>6. limit \in Nat /\ BaseLimit <= limit
  BY <1>5, DefaultAssumption DEF Larger, BaseLimit
<1> HIDE DEF limit
<1>7. Sound(moved) /\ moved.inFlight = c.inFlight
  BY <1>2, <1>6, SetGrowthLimitSound
<1> HIDE DEF moved
<1> QED BY <1>3, <1>4, <1>7

\* Every step keeps the queues in order; and unless requests are aborted in
\* the queue, those who wait are not forgotten.
LEMMA NextKeepsInOrder ==
  ASSUME IInv, InOrder, [Next]_vars
  PROVE  InOrder' /\ (~ Aborts /\ NobodyForgotten => NobodyForgotten')
<1>1. ASSUME NEW r \in Run, Pass(r) PROVE InOrder' /\ NobodyForgotten'
  <2>1. order' = <<>> /\ queue' = queue /\ alarm' = alarm /\ last' = r /\ through' = {} /\ order' = order
    BY <1>1 DEF Pass
  <2> QED BY <2>1 DEF InOrder, NobodyForgotten
<1>2. ASSUME NEW r \in Run, Enqueue(r) PROVE InOrder' /\ NobodyForgotten'
  <2>1. /\ Drain(NotedUse(r), [queue EXCEPT ![r] = @ + 1], Enqueued(order, queue, r), SetAnew(NotedUse(r)))
        /\ queue[r] < MaxQueued
    BY <1>2 DEF Enqueue
  <2>2. Queued([queue EXCEPT ![r] = @ + 1], Enqueued(order, queue, r))
    BY <2>1, EnqueuedQueued DEF InOrder
  <2>3. Sound(NotedUse(r))
    BY NotedUseSound
  <2> QED BY <2>1, <2>2, <2>3, DrainKeepsInOrder
<1>3. ASSUME NEW r \in Run, Abort(r) PROVE InOrder' /\ Aborts
  <2>1. /\ Aborts /\ queue[r] > 0 /\ last' = last /\ through' = {}
        /\ queue' = [queue EXCEPT ![r] = @ - 1] /\ order' = Dequeued(order, queue, r)
        /\ alarm' = Alarm(ctl', queue')
    BY <1>3 DEF Abort
  <2>2. Queued(queue', order')
    BY <2>1, DequeuedQueued DEF InOrder
  <2>3. alarm' \in {"off", "ahead", "due"}
    BY <2>1, AlarmIsOne
  <2> QED BY <2>1, <2>2, <2>3 DEF InOrder
<1>4. ASSUME ctl'.inFlight = ctl.inFlight, UNCHANGED <<queue, order, last, alarm>>, through' = {}
      PROVE  InOrder' /\ (NobodyForgotten => NobodyForgotten')
  BY <1>4 DEF InOrder, NobodyForgotten
<1>5. ASSUME NEW r \in Run, ClearRunBound(r) PROVE InOrder' /\ (NobodyForgotten => NobodyForgotten')
  <2>1. /\ ctl' = (IF r \in used THEN Refreshed(ctl, bound', used') ELSE ctl)
        /\ UNCHANGED <<queue, order, last, alarm>> /\ through' = {}
    BY <1>5 DEF ClearRunBound, RefreshedAfterClear
  <2>2. ctl'.inFlight = ctl.inFlight
    BY <2>1, SignalsKeepInFlight DEF IInv
  <2> QED BY <2>1, <2>2, <1>4
<1>6. ASSUME NEW r \in Run, NEW b \in RunBound, SetRunBound(r, b)
      PROVE  InOrder' /\ (NobodyForgotten => NobodyForgotten')
  <2>1. /\ ctl' = (IF r \in used THEN Refreshed(ctl, bound', used) ELSE ctl)
        /\ UNCHANGED <<queue, order, last, alarm>> /\ through' = {}
    BY <1>6 DEF SetRunBound
  <2>2. ctl'.inFlight = ctl.inFlight
    BY <2>1, SignalsKeepInFlight DEF IInv
  <2> QED BY <2>1, <2>2, <1>4
<1>7. CASE Observe
  <2>1. /\ ctl' = Admitted(IdleReset(ctl), 1) /\ last' = Observer /\ through' = {}
        /\ UNCHANGED <<queue, order, alarm>>
    BY <1>7 DEF Observe
  <2>2. Sound(IdleReset(ctl))
    BY IdleResetSound DEF IInv
  <2>3. ctl'.inFlight = IdleReset(ctl).inFlight + 1 /\ IdleReset(ctl).inFlight \in Nat
    BY <2>1, <2>2 DEF Admitted, Sound, Controller
  <2> QED BY <2>1, <2>3 DEF InOrder, NobodyForgotten
<1>8. ASSUME NEW reply \in Reply, NEW current \in BOOLEAN, Settle(reply, current)
      PROVE  InOrder' /\ NobodyForgotten'
  <2> DEFINE c == CASE reply = "completed" -> Succeeded(ctl, current, Waiters(queue))
                    [] reply = "refused" -> Throttled(ctl, current, FALSE)
                    [] reply = "refused for a while" -> Throttled(ctl, current, TRUE)
                    [] reply = "failed" -> FailedTransient(ctl, current)
                    [] reply = "ended" -> Taken(ctl, current)
             verdict == current /\ reply \in {"refused", "refused for a while"}
  <2>1. /\ IF current THEN ctl.fresh > 0 ELSE ctl.stale > 0
        /\ Drain(c, queue, order, verdict)
    BY <1>8 DEF Settle
  <2>2. Sound(c)
    BY <2>1, ReplySound DEF IInv
  <2> HIDE DEF c, verdict
  <2>3. Queued(queue, order)
    BY DEF InOrder
  <2> QED BY <2>1, <2>2, <2>3, DrainKeepsInOrder
<1>9. CASE Settling
  <2>1. PICK reply \in Reply, current \in BOOLEAN : Settle(reply, current)
    BY <1>9 DEF Settling, Settle
  <2> QED BY <2>1, <1>8
<1>10. CASE Wake
  <2>1. Drain(ctl, queue, order, FALSE) /\ Sound(ctl) /\ Queued(queue, order)
    BY <1>10 DEF Wake, IInv, InOrder
  <2> QED BY <2>1, DrainKeepsInOrder
<1>11. CASE CooldownEnds
  <2>1. /\ ctl' = [ctl EXCEPT !.cooldown = IF @ = "running" THEN "over" ELSE @]
        /\ alarm' = IF alarm = "ahead" THEN "due" ELSE alarm
        /\ UNCHANGED <<queue, order, last>> /\ through' = {}
    BY <1>11 DEF CooldownEnds
  <2>2. ctl'.inFlight = ctl.inFlight
    BY <2>1 DEF IInv, Sound, Controller
  <2> QED BY <2>1, <2>2 DEF InOrder, NobodyForgotten
<1>12. CASE IdleWindowPasses \/ RefusalIsOld
  <2>1. /\ ctl' = [ctl EXCEPT !.idle = TRUE] \/ ctl' = [ctl EXCEPT !.refused = FALSE]
        /\ UNCHANGED <<queue, order, last, alarm>> /\ through' = {}
    BY <1>12 DEF IdleWindowPasses, RefusalIsOld
  <2>2. ctl'.inFlight = ctl.inFlight
    BY <2>1 DEF IInv, Sound, Controller
  <2> QED BY <2>1, <2>2, <1>4
<1>13. CASE UNCHANGED vars
  BY <1>13 DEF vars, InOrder, Queued, NobodyForgotten
<1> QED BY <1>1, <1>2, <1>3, <1>5, <1>6, <1>7, <1>9, <1>10, <1>11, <1>12, <1>13 DEF Next

LEMMA InitGivesInOrder == Init => InOrder /\ NobodyForgotten
<1> SUFFICES ASSUME Init PROVE InOrder /\ NobodyForgotten
  OBVIOUS
<1>1. queue = [r \in Run |-> 0] /\ order = <<>> /\ last = NoRun /\ alarm = "off" /\ through = {}
  BY DEF Init
<1>2. queue \in [Run -> 0..MaxQueued]
  BY <1>1, BoundAssumption
<1>3. order \in Seq(Run) /\ DOMAIN order = {}
  BY <1>1
<1>4. IsInjective(order) /\ ToSet(order) = {}
  BY <1>3 DEF IsInjective, ToSet
<1>5. {r \in Run : queue[r] > 0} = {}
  BY <1>1
<1> QED BY <1>1, <1>2, <1>3, <1>4, <1>5 DEF InOrder, Queued, NobodyForgotten

\* Every variable keeps its type, and the map of queues has a key, once, for
\* every run that waits and for no other, so that the rotation neither stops
\* at an empty queue nor passes one over.
THEOREM TypeCorrect == Spec => []TypeOK
<1>1. Init => IInv /\ InOrder
  BY InitGivesIInv, InitGivesInOrder
<1>2. IInv /\ InOrder /\ [Next]_vars => (IInv /\ InOrder)'
  BY NextKeepsIInv, NextKeepsInOrder
<1>3. IInv /\ InOrder => TypeOK
  BY DEF IInv, InOrder, Queued, TypeOK, Sound, Controller
<1> QED BY <1>1, <1>2, <1>3, PTL DEF Spec

\* Unless a request is aborted while it is queued, whoever waits will be
\* looked at again: a request is in flight whose end drains the queues, or the
\* timer of the cool-down is set.
THEOREM NobodyIsForgotten == ASSUME ~ Aborts PROVE Spec => []NobodyForgotten
<1> DEFINE Inv == IInv /\ InOrder /\ NobodyForgotten
<1>1. Init => Inv
  BY InitGivesIInv, InitGivesInOrder
<1>2. Inv /\ [Next]_vars => Inv'
  BY NextKeepsIInv, NextKeepsInOrder
<1>3. Inv => NobodyForgotten
  OBVIOUS
<1> HIDE DEF Inv
<1> QED BY <1>1, <1>2, <1>3, PTL DEF Spec

=============================================================================
