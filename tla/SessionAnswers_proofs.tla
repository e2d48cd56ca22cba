------------------------ MODULE SessionAnswers_proofs ------------------------
(* What the answers of the owner of a session are worth, for every number of *)
(* requests and evictions: a call told that it succeeded has the workspace   *)
(* it named, a restart that succeeded has been started afresh, a session     *)
(* whose deletion was answered has no instance, and nobody is stuck.         *)
EXTENDS SessionLifecycle_proofs

\* e is an element of s.
In(s, e) == \E i \in 1..Len(s) : s[i] = e

\* d is among the reactions on the promise of o; d has been told that its
\* promise settled, and how.
Registered(o, d) == In(reactions[o], d)
Told(d, ok) == In(woken, [who |-> d, ok |-> ok])
Entry == [who : Caller, ok : BOOLEAN]

\* Whoever waits is registered or told once, with one promise, and keeps to it.
Distinct(s) == \A i, j \in 1..Len(s) : s[i] = s[j] => i = j
EachOnce(s) == \A i, j \in 1..Len(s) : s[i].who = s[j].who => i = j

QueuesOK ==
  /\ reactions \in [Actor -> Seq(Caller)] /\ \A o \in Actor : Distinct(reactions[o])
  /\ woken \in Seq(Entry) /\ EachOnce(woken)

Once ==
  /\ \A o, p \in Actor, d \in Caller : Registered(o, d) /\ Registered(p, d) => o = p
  /\ \A o \in Actor, d \in Caller, ok \in BOOLEAN : Registered(o, d) => ~ Told(d, ok)

Enlisted(d) == (\E o \in Actor : Registered(o, d)) \/ (\E ok \in BOOLEAN : Told(d, ok))
OnlyWaiting == \A d \in Caller : Enlisted(d) => call[d].pc \in Waiting

\* The session is deleted and has no instance.
Gone == deleted /\ ~ record /\ state # "ready"

Stops(task) == Operation(task) = "stop"
Joined == {"joined", "joinedUnchecked"}
Fresh(c) == call[c].task = "restart" => generation > call[c].found

\* What a call may rely on at each place.
Honest(c) ==
  /\ call[c].task = "prepare" \/ Stops(call[c].task) \/ c = Pool => call[c].workspace = None
  /\ call[c].task = "restart" => call[c].found <= generation
  /\ call[c].task = "delete" => call[c].pc = "execute" \/ deleted
  /\ call[c].pc = "decide" => call[c].workspace = None
  /\ call[c].pc \in {"execute", "softDeleted"} => call[c].task = "delete"
  /\ call[c].pc \in {"joinedUnchecked", "validateJoined"} => call[c].workspace # None
  /\ call[c].pc = "validateJoined" => Fresh(c)
  /\ call[c].pc = "ok" => /\ call[c].workspace # Other /\ Fresh(c)
                          /\ call[c].task = "delete" => Gone
  /\ call[c].pc = "exists" => call[c].task \in LifecycleRequest
  /\ call[c].pc \in {"validate", "activate", "resume", "reactivate"} => ~ Stops(call[c].task)
  /\ call[c].pc \in OwnWork \ {"exists", "validate", "reject"} => call[c].workspace # Other
  /\ call[c].pc \in {"activate", "resume", "resolve"} => Fresh(c)
  /\ call[c].pc = "resolve" /\ Stops(call[c].task) => Down

\* While a restart is reserved no other one runs.
ReservedOK ==
  pending # None => /\ call[pending].pc = "reserved" /\ call[pending].task = "restart"
                    /\ flight # None => call[flight].task # "restart"

\* What d has in common with the owner of the promise it waits for.
Shared(o, d) ==
  /\ o \in {flight, pending} /\ d # o
  /\ call[d].pc = "joined" => call[d].workspace \in {None, call[o].workspace}
  /\ call[d].pc \in Joined /\ call[d].task = "restart" =>
       call[o].task = "restart" /\ call[d].found = call[o].found
  /\ call[d].pc \in Joined /\ call[d].task = "delete" => o = flight /\ Stops(call[o].task)

\* What is true once d has been told that the promise was kept.
Kept(d) ==
  /\ call[d].pc = "joined" => call[d].workspace # Other
  /\ call[d].pc \in Joined => Fresh(d)
  /\ call[d].pc = "joined" /\ call[d].task = "delete" => Gone

AllHonest == \A c \in Actor : Honest(c)
SharedOK == \A o \in Actor, d \in Caller : Registered(o, d) => Shared(o, d)
KeptOK == \A d \in Caller : Told(d, TRUE) => Kept(d)

AInv == QueuesOK /\ Once /\ OnlyWaiting /\ AllHonest /\ ReservedOK /\ SharedOK /\ KeptOK

-----------------------------------------------------------------------------
(* Sequences *)

LEMMA AsSequence ==
  ASSUME NEW S, NEW n \in Nat, NEW f \in [1..n -> S] PROVE f \in Seq(S) /\ Len(f) = n
OBVIOUS

LEMMA InAppend ==
  ASSUME NEW S, NEW s \in Seq(S), NEW x \in S
  PROVE  /\ Append(s, x) \in Seq(S)
         /\ \A e : In(Append(s, x), e) <=> In(s, e) \/ e = x
         /\ Distinct(s) /\ ~ In(s, x) => Distinct(Append(s, x))
<1> DEFINE t == Append(s, x)
<1>1. t \in Seq(S) /\ Len(t) = Len(s) + 1 /\ Len(s) \in Nat
  OBVIOUS
<1>2. \A i \in 1..Len(s) : t[i] = s[i]
  OBVIOUS
<1>3. t[Len(s) + 1] = x
  OBVIOUS
<1> HIDE DEF t
<1>4. \A i \in 1..Len(t) : i \in 1..Len(s) \/ i = Len(s) + 1
  BY <1>1
<1>5. \A i \in 1..Len(s) : i \in 1..Len(t)
  BY <1>1
<1>6. Len(s) + 1 \in 1..Len(t)
  BY <1>1
<1>7. \A e : In(t, e) <=> In(s, e) \/ e = x
  BY <1>2, <1>3, <1>4, <1>5, <1>6 DEF In
<1>8. Distinct(s) /\ ~ In(s, x) => Distinct(t)
  BY <1>2, <1>3, <1>4 DEF In, Distinct
<1> QED BY <1>1, <1>7, <1>8 DEF t

LEMMA InTail ==
  ASSUME NEW s \in Seq(Entry), s # <<>>, EachOnce(s)
  PROVE  /\ Tail(s) \in Seq(Entry) /\ EachOnce(Tail(s)) /\ Head(s) \in Entry
         /\ In(s, Head(s))
         /\ \A e \in Entry : In(Tail(s), e) <=> In(s, e) /\ e.who # Head(s).who
<1> DEFINE t == Tail(s)
<1>1. t \in Seq(Entry) /\ Len(t) = Len(s) - 1 /\ Len(s) \in Nat /\ Len(s) >= 1 /\ Head(s) = s[1]
  OBVIOUS
<1>2. \A i \in 1..Len(t) : t[i] = s[i + 1] /\ i + 1 \in 1..Len(s)
  BY <1>1
<1> HIDE DEF t
<1>3. \A i \in 1..Len(s) : i = 1 \/ (i - 1 \in 1..Len(t) /\ (i - 1) + 1 = i)
  BY <1>1
<1>4. 1 \in 1..Len(s)
  BY <1>1
<1>5. \A i \in 1..Len(s) : s[i] \in Entry
  OBVIOUS
<1>6. EachOnce(t)
  <2> SUFFICES ASSUME NEW i \in 1..Len(t), NEW j \in 1..Len(t), t[i].who = t[j].who PROVE i = j
    BY DEF EachOnce
  <2>1. i + 1 = j + 1
    BY <1>2 DEF EachOnce
  <2> QED BY <1>1, <2>1
<1>7. ASSUME NEW e \in Entry PROVE In(t, e) <=> In(s, e) /\ e.who # Head(s).who
  <2>1. ASSUME In(t, e) PROVE In(s, e) /\ e.who # Head(s).who
    <3>1. PICK i \in 1..Len(t) : t[i] = e
      BY <2>1 DEF In
    <3>2. s[i + 1] = e /\ i + 1 \in 1..Len(s) /\ i + 1 # 1
      BY <1>1, <1>2, <3>1
    <3>3. e.who # s[1].who
      BY <1>4, <3>2 DEF EachOnce
    <3> QED BY <1>1, <3>2, <3>3 DEF In
  <2>2. ASSUME In(s, e), e.who # Head(s).who PROVE In(t, e)
    <3>1. PICK i \in 1..Len(s) : s[i] = e
      BY <2>2 DEF In
    <3>2. i # 1
      BY <1>1, <2>2, <3>1
    <3>3. i - 1 \in 1..Len(t) /\ t[i - 1] = s[i]
      BY <1>2, <1>3, <3>2
    <3> QED BY <3>1, <3>3 DEF In
  <2> QED BY <2>1, <2>2
<1> QED BY <1>1, <1>4, <1>5, <1>6, <1>7 DEF t, In

\* Everybody in r is told ok after those in w.
LEMMA InTold ==
  ASSUME NEW w \in Seq(Entry), EachOnce(w), NEW r \in Seq(Caller), Distinct(r), NEW ok \in BOOLEAN,
         \A e \in Entry : In(w, e) => ~ In(r, e.who)
  PROVE  LET t == w \o [i \in 1..Len(r) |-> [who |-> r[i], ok |-> ok]]
         IN /\ t \in Seq(Entry) /\ EachOnce(t)
            /\ \A e \in Entry : In(t, e) <=> In(w, e) \/ (e.ok = ok /\ In(r, e.who))
<1> DEFINE u == [i \in 1..Len(r) |-> [who |-> r[i], ok |-> ok]]
           t == w \o u
<1>1. Len(r) \in Nat /\ Len(w) \in Nat /\ \A i \in 1..Len(r) : r[i] \in Caller
  OBVIOUS
<1>2. u \in [1..Len(r) -> Entry]
  BY <1>1 DEF Entry
<1>3. u \in Seq(Entry) /\ Len(u) = Len(r)
  <2> HIDE DEF u
  <2> QED BY <1>1, <1>2, AsSequence
<1>4. \A i \in 1..Len(r) : u[i].who = r[i] /\ u[i].ok = ok
  OBVIOUS
<1> HIDE DEF u
<1>5. t \in Seq(Entry) /\ Len(t) = Len(w) + Len(r)
  BY <1>3
<1>6. \A i \in 1..Len(w) : t[i] = w[i] /\ i \in 1..Len(t)
  BY <1>1, <1>3, <1>5
<1>7. \A i \in 1..Len(r) : t[Len(w) + i] = u[i] /\ Len(w) + i \in 1..Len(t)
  BY <1>1, <1>3, <1>5
<1>8. \A i \in 1..Len(t) : i \in 1..Len(w) \/ (i - Len(w) \in 1..Len(r) /\ Len(w) + (i - Len(w)) = i)
  BY <1>1, <1>5
<1> HIDE DEF t
<1>9. \A i \in 1..Len(w) : w[i] \in Entry
  OBVIOUS
<1>10. \A i \in 1..Len(t) : i \in 1..Len(w) \/ \E k \in 1..Len(r) : i = Len(w) + k
  BY <1>8
<1>11. EachOnce(t)
  <2> SUFFICES ASSUME NEW i \in 1..Len(t), NEW j \in 1..Len(t), t[i].who = t[j].who PROVE i = j
    BY DEF EachOnce
  <2>1. ASSUME NEW k \in 1..Len(w), NEW l \in 1..Len(r) PROVE w[k].who # r[l]
    <3>1. In(w, w[k]) /\ In(r, r[l])
      BY DEF In
    <3> QED BY <1>9, <3>1
  <2>2. CASE i \in 1..Len(w) /\ j \in 1..Len(w)
    BY <1>6, <2>2 DEF EachOnce
  <2>3. ASSUME NEW k \in 1..Len(r), NEW l \in 1..Len(r), i = Len(w) + k, j = Len(w) + l PROVE i = j
    <3>1. r[k] = r[l]
      BY <1>4, <1>7, <2>3
    <3> QED BY <2>3, <3>1 DEF Distinct
  <2>4. ASSUME NEW k \in 1..Len(w), NEW l \in 1..Len(r) PROVE t[k].who # t[Len(w) + l].who
    <3>1. t[k] = w[k]
      BY <1>6
    <3>2. t[Len(w) + l] = u[l] /\ u[l].who = r[l]
      BY <1>4, <1>7
    <3> QED BY <2>1, <3>1, <3>2
  <2> QED BY <1>10, <2>2, <2>3, <2>4
<1>12. ASSUME NEW e \in Entry PROVE In(t, e) <=> In(w, e) \/ (e.ok = ok /\ In(r, e.who))
  <2>1. ASSUME In(t, e) PROVE In(w, e) \/ (e.ok = ok /\ In(r, e.who))
    <3>1. PICK i \in 1..Len(t) : t[i] = e
      BY <2>1 DEF In
    <3>2. CASE i \in 1..Len(w)
      BY <1>6, <3>1, <3>2 DEF In
    <3>3. ASSUME NEW k \in 1..Len(r), i = Len(w) + k PROVE e.ok = ok /\ In(r, e.who)
      BY <1>4, <1>7, <3>1, <3>3 DEF In
    <3> QED BY <1>10, <3>2, <3>3
  <2>2. ASSUME In(w, e) PROVE In(t, e)
    BY <1>6, <2>2 DEF In
  <2>3. ASSUME e.ok = ok, In(r, e.who) PROVE In(t, e)
    <3>1. PICK k \in 1..Len(r) : r[k] = e.who
      BY <2>3 DEF In
    <3>2. u[k] \in Entry /\ u[k].who = e.who /\ u[k].ok = e.ok
      BY <1>2, <1>4, <2>3, <3>1
    <3>3. u[k] = e
      BY <3>2 DEF Entry
    <3> QED BY <1>7, <3>3 DEF In
  <2> QED BY <2>1, <2>2, <2>3
<1> QED BY <1>5, <1>11, <1>12 DEF t, u

-----------------------------------------------------------------------------
(* What a step of one call does to the queues *)

\* c is the next reaction, or does not wait at all.
Runs(c) == Reacts(c) \/ call[c].pc \notin Waiting

Lists == QueuesOK /\ Once /\ OnlyWaiting

LEMMA ListedIsCaller ==
  ASSUME QueuesOK, NEW o \in Actor, NEW d, Registered(o, d) PROVE d \in Caller
BY DEF QueuesOK, Registered, In

LEMMA Unlisted ==
  ASSUME Lists, NEW c \in Actor, Runs(c) PROVE \A o \in Actor : ~ Registered(o, c)
<1> SUFFICES ASSUME NEW o \in Actor, Registered(o, c) PROVE FALSE
  OBVIOUS
<1>1. c \in Caller
  BY ListedIsCaller DEF Lists
<1>2. CASE Reacts(c)
  <2>1. woken # <<>> /\ Head(woken).who = c /\ woken \in Seq(Entry) /\ EachOnce(woken)
    BY <1>2 DEF Reacts, Lists, QueuesOK
  <2>2. Head(woken) \in Entry /\ In(woken, Head(woken))
    BY <2>1, InTail
  <2>3. Head(woken) = [who |-> c, ok |-> Head(woken).ok] /\ Head(woken).ok \in BOOLEAN
    BY <2>1, <2>2 DEF Entry
  <2>4. Told(c, Head(woken).ok)
    BY <2>2, <2>3 DEF Told
  <2> QED BY <1>1, <2>3, <2>4 DEF Lists, Once
<1>3. CASE call[c].pc \notin Waiting
  BY <1>1, <1>3 DEF Lists, OnlyWaiting, Enlisted
<1> QED BY <1>2, <1>3 DEF Runs

\* w is what woken is without the entry of c.
Spared(c, w) ==
  /\ w \in Seq(Entry) /\ EachOnce(w)
  /\ \A d \in Caller, ok \in BOOLEAN : In(w, [who |-> d, ok |-> ok]) <=> d # c /\ Told(d, ok)

LEMMA RestSpared ==
  ASSUME Lists, NEW c \in Actor, Runs(c) PROVE Spared(c, WokenRest(c))
<1>1. woken \in Seq(Entry) /\ EachOnce(woken)
  BY DEF Lists, QueuesOK
<1>2. \A d \in Caller, ok \in BOOLEAN :
        [who |-> d, ok |-> ok] \in Entry /\ [who |-> d, ok |-> ok].who = d
  BY DEF Entry
<1>3. CASE Reacts(c)
  <2>1. woken # <<>> /\ Head(woken).who = c /\ WokenRest(c) = Tail(woken)
    BY <1>3 DEF Reacts, WokenRest
  <2>2. /\ Tail(woken) \in Seq(Entry) /\ EachOnce(Tail(woken))
        /\ \A e \in Entry : In(Tail(woken), e) <=> In(woken, e) /\ e.who # c
    BY <1>1, <2>1, InTail
  <2>3. ASSUME NEW d \in Caller, NEW ok \in BOOLEAN
        PROVE  In(Tail(woken), [who |-> d, ok |-> ok]) <=> d # c /\ Told(d, ok)
    BY <1>2, <2>2 DEF Told
  <2> QED BY <2>1, <2>2, <2>3 DEF Spared
<1>4. CASE ~ Reacts(c)
  <2>1. WokenRest(c) = woken /\ call[c].pc \notin Waiting
    BY <1>4 DEF WokenRest, Runs
  <2>2. \A d \in Caller, ok \in BOOLEAN : Told(d, ok) => d # c
    BY <2>1 DEF Lists, OnlyWaiting, Enlisted
  <2> QED BY <1>1, <2>1, <2>2 DEF Spared, Told
<1> QED BY <1>3, <1>4

\* c goes on; c settles; c waits for owner.
ListsKept(c) ==
  /\ QueuesOK'
  /\ \A o \in Actor, d \in Caller : Registered(o, d)' <=> Registered(o, d)
  /\ \A d \in Caller, ok \in BOOLEAN : Told(d, ok)' <=> d # c /\ Told(d, ok)

ListsTold(c, ok) ==
  /\ QueuesOK'
  /\ \A o \in Actor, d \in Caller : Registered(o, d)' <=> o # c /\ Registered(o, d)
  /\ \A d \in Caller, b \in BOOLEAN :
       Told(d, b)' <=> (d # c /\ Told(d, b)) \/ (b = ok /\ Registered(c, d))

ListsJoined(c, owner) ==
  /\ QueuesOK'
  /\ \A o \in Actor, d \in Caller : Registered(o, d)' <=> Registered(o, d) \/ (o = owner /\ d = c)
  /\ \A d \in Caller, ok \in BOOLEAN : Told(d, ok)' <=> d # c /\ Told(d, ok)

LEMMA ListsOfGoto ==
  ASSUME Lists, NEW c \in Actor, Runs(c), woken' = WokenRest(c), reactions' = reactions
  PROVE  ListsKept(c)
<1>1. Spared(c, woken')
  BY RestSpared
<1>2. QueuesOK'
  BY <1>1 DEF Spared, Lists, QueuesOK
<1>3. \A o \in Actor, d \in Caller : Registered(o, d)' <=> Registered(o, d)
  BY DEF Registered, In
<1>4. \A d \in Caller, ok \in BOOLEAN : Told(d, ok)' <=> d # c /\ Told(d, ok)
  BY <1>1 DEF Spared, Told, In
<1> QED BY <1>2, <1>3, <1>4 DEF ListsKept

\* The same for a step that leaves the queues alone.
LEMMA ListsOfOther ==
  ASSUME Lists, NEW c \in Actor, call[c].pc \notin Waiting, UNCHANGED queueVars
  PROVE  ListsKept(c)
<1>1. ~ Reacts(c)
  <2> SUFFICES ASSUME Reacts(c) PROVE FALSE
    OBVIOUS
  <2>1. woken # <<>> /\ Head(woken).who = c /\ woken \in Seq(Entry) /\ EachOnce(woken)
    BY DEF Reacts, Lists, QueuesOK
  <2>2. Head(woken) \in Entry /\ In(woken, Head(woken))
    BY <2>1, InTail
  <2>3. c \in Caller /\ Head(woken) = [who |-> c, ok |-> Head(woken).ok] /\ Head(woken).ok \in BOOLEAN
    BY <2>1, <2>2 DEF Entry
  <2>4. Told(c, Head(woken).ok)
    BY <2>2, <2>3 DEF Told
  <2> QED BY <2>3, <2>4 DEF Lists, OnlyWaiting, Enlisted
<1> QED BY <1>1, ListsOfGoto DEF Runs, WokenRest, queueVars

LEMMA ListsOfSettle ==
  ASSUME Lists, NEW c \in Actor, Runs(c), NEW ok \in BOOLEAN, Settle(c, ok)
  PROVE  ListsTold(c, ok)
<1> DEFINE w == WokenRest(c)
           r == reactions[c]
           t == w \o [i \in 1..Len(r) |-> [who |-> r[i], ok |-> ok]]
<1>1. Spared(c, w)
  BY RestSpared
<1>2. r \in Seq(Caller) /\ Distinct(r) /\ w \in Seq(Entry) /\ EachOnce(w)
  BY <1>1 DEF Lists, QueuesOK, Spared
<1>3. woken' = t /\ reactions' = [reactions EXCEPT ![c] = <<>>]
  BY DEF Settle, Waiters
<1>4. \A d \in Caller, b \in BOOLEAN : [who |-> d, ok |-> b] \in Entry
  BY DEF Entry
<1>5. \A e \in Entry : e = [who |-> e.who, ok |-> e.ok] /\ e.who \in Caller /\ e.ok \in BOOLEAN
  BY DEF Entry
<1>6. \A e \in Entry : In(w, e) => ~ In(r, e.who)
  <2> SUFFICES ASSUME NEW e \in Entry, In(w, e) PROVE ~ In(r, e.who)
    OBVIOUS
  <2>1. Told(e.who, e.ok)
    BY <1>1, <1>5 DEF Spared
  <2> QED BY <1>5, <2>1 DEF Lists, Once, Registered
<1> HIDE DEF w, r
<1>7. t \in Seq(Entry) /\ EachOnce(t)
      /\ \A e \in Entry : In(t, e) <=> In(w, e) \/ (e.ok = ok /\ In(r, e.who))
  BY <1>2, <1>6, InTold
<1> HIDE DEF t
<1>8. QueuesOK'
  <2>1. reactions' \in [Actor -> Seq(Caller)]
    BY <1>3 DEF Lists, QueuesOK
  <2>2. \A o \in Actor : Distinct(reactions'[o])
    <3>1. Distinct(<<>>)
      BY DEF Distinct
    <3> QED BY <1>3, <3>1 DEF Lists, QueuesOK
  <2> QED BY <1>3, <1>7, <2>1, <2>2 DEF QueuesOK, Distinct, EachOnce
<1>9. ASSUME NEW o \in Actor, NEW d \in Caller PROVE Registered(o, d)' <=> o # c /\ Registered(o, d)
  <2>1. reactions'[o] = IF o = c THEN <<>> ELSE reactions[o]
    BY <1>3 DEF Lists, QueuesOK
  <2>2. ~ In(<<>>, d)
    BY DEF In
  <2>3. Registered(o, d)' <=> In(reactions'[o], d)
    BY DEF Registered, In
  <2> QED BY <2>1, <2>2, <2>3 DEF Registered
<1>10. ASSUME NEW d \in Caller, NEW b \in BOOLEAN
       PROVE  Told(d, b)' <=> (d # c /\ Told(d, b)) \/ (b = ok /\ Registered(c, d))
  <2>1. Told(d, b)' <=> In(t, [who |-> d, ok |-> b])
    BY <1>3 DEF Told, In
  <2>2. In(w, [who |-> d, ok |-> b]) <=> d # c /\ Told(d, b)
    BY <1>1 DEF Spared
  <2>3. In(r, d) <=> Registered(c, d)
    BY DEF Registered, r
  <2>4. In(t, [who |-> d, ok |-> b]) <=> In(w, [who |-> d, ok |-> b]) \/ (b = ok /\ In(r, d))
    BY <1>4, <1>7
  <2> QED BY <2>1, <2>2, <2>3, <2>4
<1> QED BY <1>8, <1>9, <1>10 DEF ListsTold

LEMMA ListsOfWait ==
  ASSUME Lists, NEW c \in Caller, Runs(c), NEW owner \in Actor, NEW pc, WaitFor(c, owner, pc)
  PROVE  ListsJoined(c, owner)
<1>1. Spared(c, woken')
  BY RestSpared DEF WaitFor, Actor
<1>2. reactions' = [reactions EXCEPT ![owner] = Append(reactions[owner], c)]
  BY DEF WaitFor
<1>3. reactions[owner] \in Seq(Caller) /\ Distinct(reactions[owner])
  BY DEF Lists, QueuesOK
<1>4. ~ In(reactions[owner], c)
  BY Unlisted DEF Registered, Actor
<1> DEFINE q == Append(reactions[owner], c)
<1>5. q \in Seq(Caller) /\ Distinct(q) /\ \A e : In(q, e) <=> In(reactions[owner], e) \/ e = c
  BY <1>3, <1>4, InAppend
<1> HIDE DEF q
<1>6. \A o \in Actor : reactions'[o] = IF o = owner THEN q ELSE reactions[o]
  BY <1>2 DEF Lists, QueuesOK, q
<1>7. QueuesOK'
  <2>1. reactions' \in [Actor -> Seq(Caller)]
    BY <1>2, <1>5 DEF Lists, QueuesOK, q
  <2>2. \A o \in Actor : Distinct(reactions'[o])
    BY <1>5, <1>6 DEF Lists, QueuesOK
  <2> QED BY <1>1, <2>1, <2>2 DEF QueuesOK, Distinct, EachOnce, Spared
<1>8. ASSUME NEW o \in Actor, NEW d \in Caller
      PROVE  Registered(o, d)' <=> Registered(o, d) \/ (o = owner /\ d = c)
  <2>1. Registered(o, d)' <=> In(reactions'[o], d)
    BY DEF Registered, In
  <2> QED BY <1>5, <1>6, <2>1 DEF Registered
<1>9. \A d \in Caller, ok \in BOOLEAN : Told(d, ok)' <=> d # c /\ Told(d, ok)
  BY <1>1 DEF Spared, Told, In
<1> QED BY <1>7, <1>8, <1>9 DEF ListsJoined

-----------------------------------------------------------------------------
(* What a step of one call leaves as it is for the others *)

\* c keeps what it was asked for.
Same(c) ==
  /\ call'[c].task = call[c].task /\ call'[c].workspace = call[c].workspace
  /\ call'[c].found = call[c].found

\* The step of c undoes nothing that others rely on.
World(c) ==
  /\ generation' \in Nat /\ generation' >= generation
  /\ deleted => deleted'
  /\ Gone => Gone'
  /\ flight \notin {c, None} /\ Down => Down'

\* Who owns the flight or is reserved goes on doing so, c excepted.
TurnsBut(c) ==
  \A o \in Actor \ {c} : (o = flight => o = flight') /\ (o = pending => o \in {flight', pending'})

TurnOf(c) == (c = flight => c = flight') /\ (c = pending => c \in {flight', pending'})

LEMMA OthersHonest ==
  ASSUME IInv, AInv, NEW c \in Actor, Only(c), World(c), NEW d \in Actor, d # c
  PROVE  Honest(d)'
<1>1. call'[d] = call[d] /\ Honest(d) /\ call[d].found \in Nat /\ generation \in Nat
  BY DEF Only, AInv, AllHonest, IInv, CallOK, CallRecord
<1>2. Fresh(d) => Fresh(d)'
  BY <1>1 DEF Fresh, World
<1>3. call[d].found <= generation => call[d].found <= generation'
  BY <1>1 DEF World
<1>4. call[d].pc = "resolve" /\ Down => Down'
  <2>1. call[d].pc = "resolve" => flight = d
    BY DEF IInv, OwnerWorks, OwnWork, Working
  <2> QED BY <2>1, ActorAssumption DEF World
<1>5. (deleted => deleted') /\ (Gone => Gone')
  BY DEF World
<1> QED BY <1>1, <1>2, <1>3, <1>4, <1>5 DEF Honest

LEMMA OthersKept ==
  ASSUME IInv, NEW c \in Actor, Only(c), World(c), NEW d \in Caller, d # c, Kept(d)
  PROVE  Kept(d)'
<1>1. d \in Actor /\ call'[d] = call[d] /\ call[d].found \in Nat /\ generation \in Nat
  BY DEF Only, IInv, CallOK, CallRecord, Actor
<1>2. Fresh(d) => Fresh(d)'
  BY <1>1 DEF Fresh, World
<1> QED BY <1>1, <1>2 DEF Kept, World

\* d shares a promise whose owner has not changed.
LEMMA StillShared ==
  ASSUME IInv, NEW c \in Actor, Only(c), TurnsBut(c), NEW o \in Actor, NEW d \in Caller, d # c,
         Shared(o, d), o = c => TurnOf(c) /\ (Same(c) \/ c \notin {flight, pending})
  PROVE  Shared(o, d)'
<1>1. d \in Actor /\ call'[d] = call[d]
  BY DEF Only, Actor
<1>2. /\ call'[o].task = call[o].task /\ call'[o].workspace = call[o].workspace
      /\ call'[o].found = call[o].found
  <2>1. CASE o # c
    BY <2>1 DEF Only
  <2>2. CASE o = c
    BY <2>2 DEF Same, Shared
  <2> QED BY <2>1, <2>2
<1>3. (o = flight => o = flight') /\ (o = pending => o \in {flight', pending'})
  BY DEF TurnsBut, TurnOf
<1> QED BY <1>1, <1>2, <1>3 DEF Shared

LEMMA GoesOn ==
  ASSUME IInv, AInv, NEW c \in Actor, Runs(c), Only(c), World(c), ListsKept(c),
         TurnsBut(c), TurnOf(c), Same(c) \/ c \notin {flight, pending}, Honest(c)', ReservedOK'
  PROVE  AInv'
<1>0. Lists /\ \A o \in Actor : ~ Registered(o, c)
  BY Unlisted DEF Lists, AInv
<1>1. QueuesOK'
  BY DEF ListsKept
<1>2. Once'
  BY <1>0 DEF Once, ListsKept, Lists
<1>3. OnlyWaiting'
  <2> SUFFICES ASSUME NEW d \in Caller, Enlisted(d)' PROVE call'[d].pc \in Waiting
    BY DEF OnlyWaiting
  <2>1. d # c /\ Enlisted(d)
    BY <1>0 DEF Enlisted, ListsKept
  <2> QED BY <1>0, <2>1 DEF Lists, OnlyWaiting, Only, Actor
<1>4. AllHonest'
  BY OthersHonest DEF AllHonest
<1>5. SharedOK'
  <2> SUFFICES ASSUME NEW o \in Actor, NEW d \in Caller, Registered(o, d)' PROVE Shared(o, d)'
    BY DEF SharedOK
  <2>1. d # c /\ Shared(o, d)
    BY <1>0 DEF ListsKept, AInv, SharedOK
  <2> QED BY <2>1, StillShared
<1>6. KeptOK'
  <2> SUFFICES ASSUME NEW d \in Caller, Told(d, TRUE)' PROVE Kept(d)'
    BY DEF KeptOK
  <2>1. d # c /\ Kept(d)
    BY DEF ListsKept, AInv, KeptOK
  <2> QED BY <2>1, OthersKept
<1> QED BY <1>1, <1>2, <1>3, <1>4, <1>5, <1>6 DEF AInv

LEMMA Settles ==
  ASSUME IInv, AInv, NEW c \in Actor, Runs(c), Only(c), World(c), NEW ok \in BOOLEAN,
         ListsTold(c, ok), TurnsBut(c), Honest(c)', ReservedOK',
         ok => \A d \in Caller : Registered(c, d) => Kept(d)'
  PROVE  AInv'
<1>0. Lists /\ \A o \in Actor : ~ Registered(o, c)
  BY Unlisted DEF Lists, AInv
<1>1. QueuesOK'
  BY DEF ListsTold
<1>2. Once'
  BY <1>0 DEF Once, ListsTold, Lists
<1>3. OnlyWaiting'
  <2> SUFFICES ASSUME NEW d \in Caller, Enlisted(d)' PROVE call'[d].pc \in Waiting
    BY DEF OnlyWaiting
  <2>1. d # c /\ Enlisted(d)
    BY <1>0 DEF Enlisted, ListsTold
  <2> QED BY <1>0, <2>1 DEF Lists, OnlyWaiting, Only, Actor
<1>4. AllHonest'
  BY OthersHonest DEF AllHonest
<1>5. SharedOK'
  <2> SUFFICES ASSUME NEW o \in Actor, NEW d \in Caller, Registered(o, d)' PROVE Shared(o, d)'
    BY DEF SharedOK
  <2>1. d # c /\ o # c /\ Shared(o, d)
    BY <1>0 DEF ListsTold, AInv, SharedOK
  <2> QED BY <2>1, StillShared
<1>6. KeptOK'
  <2> SUFFICES ASSUME NEW d \in Caller, Told(d, TRUE)' PROVE Kept(d)'
    BY DEF KeptOK
  <2>1. (d # c /\ Told(d, TRUE)) \/ (TRUE = ok /\ Registered(c, d))
    BY DEF ListsTold
  <2>2. CASE d # c /\ Told(d, TRUE)
    BY <2>2, OthersKept DEF AInv, KeptOK
  <2> QED BY <2>1, <2>2
<1> QED BY <1>1, <1>2, <1>3, <1>4, <1>5, <1>6 DEF AInv

LEMMA JoinsIn ==
  ASSUME IInv, AInv, NEW c \in Caller, Runs(c), Only(c), World(c), NEW owner \in Actor,
         ListsJoined(c, owner), TurnsBut(c), TurnOf(c), Same(c) \/ c \notin {flight, pending},
         call'[c].pc \in Waiting, Shared(owner, c)', Honest(c)', ReservedOK'
  PROVE  AInv'
<1>0. c \in Actor /\ Lists /\ \A o \in Actor : ~ Registered(o, c)
  BY Unlisted DEF Lists, AInv, Actor
<1>1. QueuesOK'
  BY DEF ListsJoined
<1>2. Once'
  BY <1>0 DEF Once, ListsJoined, Lists
<1>3. OnlyWaiting'
  <2> SUFFICES ASSUME NEW d \in Caller, Enlisted(d)', d # c PROVE call'[d].pc \in Waiting
    BY DEF OnlyWaiting
  <2>1. Enlisted(d)
    BY <1>0 DEF Enlisted, ListsJoined
  <2> QED BY <1>0, <2>1 DEF Lists, OnlyWaiting, Only, Actor
<1>4. AllHonest'
  BY <1>0, OthersHonest DEF AllHonest
<1>5. SharedOK'
  <2> SUFFICES ASSUME NEW o \in Actor, NEW d \in Caller, Registered(o, d)' PROVE Shared(o, d)'
    BY DEF SharedOK
  <2>1. CASE d = c
    BY <1>0, <2>1 DEF ListsJoined
  <2>2. CASE d # c
    <3>1. Shared(o, d)
      BY <2>2 DEF ListsJoined, AInv, SharedOK
    <3> QED BY <1>0, <2>2, <3>1, StillShared
  <2> QED BY <2>1, <2>2
<1>6. KeptOK'
  <2> SUFFICES ASSUME NEW d \in Caller, Told(d, TRUE)' PROVE Kept(d)'
    BY DEF KeptOK
  <2>1. d # c /\ Kept(d)
    BY DEF ListsJoined, AInv, KeptOK
  <2> QED BY <1>0, <2>1, OthersKept
<1> QED BY <1>1, <1>2, <1>3, <1>4, <1>5, <1>6 DEF AInv

-----------------------------------------------------------------------------
(* The work of the owner *)

LEMMA NoneForeign == None # Other /\ Own # Other /\ None \notin Actor
BY ActorAssumption DEF Workspace

LEMMA GotoSame ==
  ASSUME CallOK, NEW c \in Actor, NEW pc \in Place, Goto(c, pc) PROVE Same(c)
BY DEF CallOK, CallRecord, Goto, Same

LEMMA ReleaseRecord ==
  ASSUME CallOK, NEW c \in Actor, NEW mode \in {"close", "delete", "deactivate", "discard"},
         Release(c, mode)
  PROVE  Only(c) /\ Same(c) /\ call'[c].pc \in {"pause", "closeApp", "drain", "released"}
<1> DEFINE next == [call[c] EXCEPT !.mode = mode, !.pc = FirstStage(mode)]
<1>1. FirstStage(mode) \in {"pause", "closeApp", "drain", "released"}
  BY DEF FirstStage
<1>2. FirstStage(mode) \in Place
  BY <1>1 DEF Place, Working
<1>3. next \in CallRecord /\ next.pc = FirstStage(mode) /\ next.task = call[c].task
      /\ next.workspace = call[c].workspace /\ next.found = call[c].found
  BY <1>2 DEF CallOK, CallRecord
<1>4. call' = [call EXCEPT ![c] = next]
  BY DEF CallOK, CallRecord, Release
<1> QED BY <1>1, <1>3, <1>4 DEF CallOK, Only, Same

\* An owner does not wait, nor is it reserved.
LEMMA OwnerRuns ==
  ASSUME IInv, AInv, NEW c \in Actor, call[c].pc \in OwnWork
  PROVE  /\ Runs(c) /\ flight = c /\ pending # c /\ Honest(c)
         /\ Stage(call[c].pc, call[c].failed)
         /\ call[c].pc \notin Waiting /\ call[c].pc # "execute"
<1>1. call[c].pc \notin Waiting /\ call[c].pc # "execute" /\ call[c].pc # "reserved"
  BY DEF OwnWork, Working, Waiting
<1>2. pending # c
  BY <1>1, NoneForeign DEF AInv, ReservedOK
<1> QED BY <1>1, <1>2, Owner DEF Runs, AInv, AllHonest

LEMMA OwnerReserved ==
  ASSUME IInv, AInv, NEW c \in Actor, flight = c, pending # c, UNCHANGED <<flight, pending>>,
         Only(c), Same(c)
  PROVE  ReservedOK' /\ TurnsBut(c) /\ TurnOf(c)
<1>1. pending \in Caller \cup {None}
  BY DEF IInv, CallOK
<1>2. pending # None => pending \in Actor /\ call'[pending] = call[pending]
  BY <1>1 DEF Only, Actor
<1> QED BY <1>2 DEF AInv, ReservedOK, Same, TurnsBut, TurnOf

\* The owner takes a step of its work.
LEMMA OwnerStep ==
  ASSUME IInv, AInv, NEW c \in Actor, call[c].pc \in OwnWork, UNCHANGED <<flight, pending>>,
         Only(c), Same(c), ListsKept(c), generation' \in Nat, generation' >= generation,
         deleted' = deleted, Gone => Gone', Honest(c)'
  PROVE  AInv'
<1>1. Runs(c) /\ flight = c /\ pending # c
  BY OwnerRuns
<1>2. World(c)
  BY <1>1 DEF World
<1>3. ReservedOK' /\ TurnsBut(c) /\ TurnOf(c)
  BY <1>1, OwnerReserved
<1> QED BY <1>1, <1>2, <1>3, GoesOn

LEMMA ReleaseHonest ==
  ASSUME IInv, NEW c \in Actor, Honest(c), call[c].pc # "execute", call[c].workspace # Other,
         NEW mode \in {"close", "delete", "deactivate", "discard"}, Release(c, mode)
  PROVE  /\ Honest(c)' /\ Only(c) /\ Same(c) /\ (Gone => Gone')
         /\ generation' = generation /\ deleted' = deleted /\ generation \in Nat
<1>1. Only(c) /\ Same(c) /\ call'[c].pc \in {"pause", "closeApp", "drain", "released"}
  BY ReleaseRecord DEF IInv
<1>2. /\ generation' = generation /\ deleted' = deleted /\ generation \in Nat
      /\ state' = "stopping" /\ record' = (record /\ mode = "close")
  BY DEF Release, IInv, CallOK
<1>3. Gone => Gone'
  BY <1>2 DEF Gone
<1>4. Honest(c)'
  BY <1>1, <1>2 DEF Honest, Same
<1> QED BY <1>1, <1>2, <1>3, <1>4

LEMMA ActivateHonest ==
  ASSUME IInv, NEW c \in Actor, Honest(c), call[c].pc # "execute", call[c].workspace # Other,
         ~ Stops(call[c].task), Activate(c)
  PROVE  /\ Honest(c)' /\ Only(c) /\ Same(c) /\ (Gone => Gone')
         /\ generation' \in Nat /\ generation' >= generation /\ deleted' = deleted
<1>1. "activate" \in Place
  BY DEF Place, Working
<1>2. Only(c) /\ Same(c) /\ call'[c].pc = "activate"
  BY <1>1, GotoEffect, GotoSame DEF IInv, Activate
<1>3. /\ generation \in Nat /\ generation' = generation + 1 /\ call[c].found \in Nat
      /\ state' = "starting" /\ record' = record /\ deleted' = deleted
  BY DEF Activate, hostVars, IInv, CallOK, CallRecord
<1>4. Gone => Gone'
  BY <1>3 DEF Gone
<1>5. Fresh(c)' /\ (call'[c].task = "restart" => call'[c].found <= generation')
  BY <1>2, <1>3 DEF Fresh, Same, Honest
<1>6. Honest(c)'
  BY <1>2, <1>3, <1>5 DEF Honest, Same
<1> QED BY <1>2, <1>3, <1>4, <1>6

\* What an owner that goes on to another place needs to know there.
Ready(c, pc) ==
  /\ pc \in {"validate", "activate", "resume", "reactivate"} => ~ Stops(call[c].task)
  /\ pc \notin {"exists", "validate", "reject"} => call[c].workspace # Other
  /\ pc \in {"activate", "resume", "resolve"} => Fresh(c)
  /\ pc = "exists" => call[c].task \in LifecycleRequest

LEMMA GotoHonest ==
  ASSUME IInv, NEW c \in Actor, Honest(c), call[c].pc # "execute", NEW pc \in OwnWork, Goto(c, pc),
         generation' = generation, deleted' = deleted, Ready(c, pc),
         pc = "resolve" /\ Stops(call[c].task) => Down'
  PROVE  Honest(c)' /\ Only(c) /\ Same(c)
<1>1. pc \in Place
  BY DEF Place, OwnWork
<1>2. Only(c) /\ Same(c) /\ call'[c].pc = pc
  BY <1>1, GotoEffect, GotoSame DEF IInv
<1>3. pc \notin {"ok", "decide", "execute", "softDeleted", "joinedUnchecked", "validateJoined"}
  BY DEF OwnWork, Working
<1>4. Fresh(c) => Fresh(c)'
  BY <1>2 DEF Fresh, Same
<1> QED BY <1>2, <1>3, <1>4 DEF Honest, Same, Ready

\* The owner goes on, with nothing else changed but state, record and apps.
LEMMA OwnerGoto ==
  ASSUME IInv, AInv, NEW c \in Actor, call[c].pc \in OwnWork, UNCHANGED <<flight, pending>>,
         NEW pc \in OwnWork, Goto(c, pc), generation' = generation, deleted' = deleted, Gone => Gone',
         Ready(c, pc), pc = "resolve" /\ Stops(call[c].task) => Down'
  PROVE  AInv'
<1>1. Runs(c) /\ Honest(c) /\ call[c].pc # "execute"
  BY OwnerRuns
<1>2. Honest(c)' /\ Only(c) /\ Same(c)
  BY <1>1, GotoHonest
<1>3. ListsKept(c)
  BY <1>1, ListsOfGoto DEF AInv, Lists, Goto
<1>4. generation \in Nat
  BY DEF IInv, CallOK
<1> QED BY <1>2, <1>3, <1>4, OwnerStep

LEMMA OwnerRelease ==
  ASSUME IInv, AInv, NEW c \in Actor, call[c].pc \in OwnWork, UNCHANGED <<flight, pending>>,
         NEW mode \in {"close", "delete", "deactivate", "discard"}, Release(c, mode),
         call[c].workspace # Other
  PROVE  AInv'
<1>1. Runs(c) /\ Honest(c) /\ call[c].pc # "execute"
  BY OwnerRuns
<1>2. /\ Honest(c)' /\ Only(c) /\ Same(c) /\ (Gone => Gone')
      /\ generation' = generation /\ deleted' = deleted /\ generation \in Nat
  BY <1>1, ReleaseHonest
<1>3. ListsKept(c)
  BY <1>1, ListsOfGoto DEF AInv, Lists, Release
<1> QED BY <1>2, <1>3, OwnerStep

LEMMA OwnerActivate ==
  ASSUME IInv, AInv, NEW c \in Actor, call[c].pc \in OwnWork, UNCHANGED <<flight, pending>>,
         Activate(c), call[c].workspace # Other, ~ Stops(call[c].task)
  PROVE  AInv'
<1>1. Runs(c) /\ Honest(c) /\ call[c].pc # "execute"
  BY OwnerRuns
<1>2. /\ Honest(c)' /\ Only(c) /\ Same(c) /\ (Gone => Gone')
      /\ generation' \in Nat /\ generation' >= generation /\ deleted' = deleted
  BY <1>1, ActivateHonest
<1>3. ListsKept(c)
  BY <1>1, ListsOfGoto DEF AInv, Lists, Activate, Goto
<1> QED BY <1>2, <1>3, OwnerStep

\* The owner goes on without a look at the queues.
LEMMA OwnerAlone ==
  ASSUME IInv, AInv, NEW c \in Actor, call[c].pc \in OwnWork, UNCHANGED <<sessionVars, queueVars>>,
         Only(c), Same(c), call'[c].pc \in {"closeApp", "released"}, call[c].workspace # Other,
         deleted' = deleted, Gone => Gone'
  PROVE  AInv'
<1>1. Runs(c) /\ Honest(c) /\ call[c].pc # "execute" /\ call[c].pc \notin Waiting
  BY OwnerRuns
<1>2. ListsKept(c)
  BY <1>1, ListsOfOther DEF AInv, Lists
<1>3. generation \in Nat /\ generation' = generation /\ UNCHANGED <<flight, pending>>
  BY DEF IInv, CallOK, sessionVars
<1>4. Honest(c)'
  BY <1>1, <1>3 DEF Honest, Same
<1> QED BY <1>2, <1>3, <1>4, OwnerStep

LEMMA SettleRecord ==
  ASSUME CallOK, NEW c \in Actor, NEW ok \in BOOLEAN, Settle(c, ok)
  PROVE  /\ ok => Same(c) /\ call'[c].pc = IF call[c].task = "prepare" THEN "decide" ELSE "ok"
         /\ ~ ok => /\ call'[c].task = "ensureReady" /\ call'[c].workspace = None
                    /\ call'[c].pc = "failed"
<1> DEFINE good == [call[c] EXCEPT !.mode = "close", !.failed = FALSE,
                                   !.pc = IF call[c].task = "prepare" THEN "decide" ELSE "ok"]
           bad == [NoCall EXCEPT !.pc = "failed"]
<1>1. call' = [call EXCEPT ![c] = IF ok THEN good ELSE bad]
  BY DEF Settle
<1>2. /\ good.task = call[c].task /\ good.workspace = call[c].workspace /\ good.found = call[c].found
      /\ good.pc = IF call[c].task = "prepare" THEN "decide" ELSE "ok"
  BY DEF CallOK, CallRecord
<1>3. bad.task = "ensureReady" /\ bad.workspace = None /\ bad.pc = "failed"
  BY DEF NoCall
<1> HIDE DEF good, bad
<1>4. call'[c] = IF ok THEN good ELSE bad
  BY <1>1 DEF CallOK
<1> QED BY <1>2, <1>3, <1>4 DEF Same

\* A failed call claims nothing.
LEMMA FailureHonest ==
  ASSUME IInv, NEW c \in Actor, Settle(c, FALSE) PROVE Honest(c)'
<1>1. call'[c].task = "ensureReady" /\ call'[c].workspace = None /\ call'[c].pc = "failed"
  BY SettleRecord DEF IInv
<1>2. "failed" \notin OwnWork
  BY DEF OwnWork, Working
<1> QED BY <1>1, <1>2 DEF Honest, Stops, Operation, Starting

LEMMA SuccessHonest ==
  ASSUME IInv, NEW c \in Actor, Honest(c), call[c].pc # "execute", Settle(c, TRUE),
         UNCHANGED <<generation, hostVars, state>>,
         call[c].workspace # Other, Fresh(c), call[c].task = "delete" => Gone
  PROVE  Honest(c)'
<1>1. Same(c) /\ call'[c].pc = IF call[c].task = "prepare" THEN "decide" ELSE "ok"
  BY SettleRecord DEF IInv
<1>2. call'[c].pc \notin OwnWork /\ call'[c].pc \in {"decide", "ok"}
  BY <1>1 DEF OwnWork, Working
<1>3. Fresh(c)' /\ (Gone => Gone') /\ generation' = generation /\ deleted' = deleted
  BY <1>1 DEF Fresh, Same, Gone, hostVars
<1> QED BY <1>1, <1>2, <1>3 DEF Honest, Same

\* What the owner has achieved is achieved for all who share its promise.
LEMMA SharersKept ==
  ASSUME IInv, AInv, NEW c \in Actor, At(c, "resolve"), Only(c),
         UNCHANGED <<state, generation, hostVars>>, NEW d \in Caller, Registered(c, d)
  PROVE  Kept(d)'
<1>1. /\ flight = c /\ pending # c /\ Honest(c) /\ call[c].pc = "resolve"
      /\ "resolve" \in OwnWork \ {"exists", "validate", "reject"}
  BY OwnerRuns DEF At, OwnWork, Working
<1>2. d \in Actor /\ Shared(c, d) /\ d # c /\ Honest(d) /\ call'[d] = call[d]
  BY DEF AInv, AllHonest, SharedOK, Shared, Only, Actor
<1>3. call[c].workspace # Other /\ Fresh(c)
  BY <1>1 DEF Honest
<1>4. call[d].pc = "joined" => call[d].workspace # Other
  BY <1>2, <1>3, NoneForeign DEF Shared
<1>5. call[d].pc \in Joined => Fresh(d)
  BY <1>2, <1>3 DEF Shared, Fresh
<1>6. call[d].pc = "joined" /\ call[d].task = "delete" => Gone
  <2> SUFFICES ASSUME call[d].pc = "joined", call[d].task = "delete" PROVE Gone
    OBVIOUS
  <2>1. Stops(call[c].task) /\ deleted
    BY <1>2 DEF Shared, Joined, Honest
  <2> QED BY <1>1, <2>1 DEF Honest, Down, Gone
<1>7. generation' = generation /\ (Gone => Gone')
  BY DEF Gone, hostVars
<1> QED BY <1>2, <1>4, <1>5, <1>6, <1>7 DEF Kept, Fresh

LEMMA EndFlightAnswers == ASSUME IInv, AInv, NEW c \in Actor, EndFlight(c) PROVE AInv'
<1> DEFINE ok == At(c, "resolve")
<1>0. ok \in BOOLEAN /\ Settle(c, ok) /\ flight' = None
      /\ UNCHANGED <<state, generation, pending, hostVars>>
  BY DEF EndFlight, At
<1>1. call[c].pc \in OwnWork
  BY DEF EndFlight, At, OwnWork, Working
<1>2. Runs(c) /\ flight = c /\ pending # c /\ Honest(c) /\ call[c].pc # "execute"
  BY <1>1, OwnerRuns
<1>3. Only(c)
  BY <1>0, SettleEffect DEF IInv
<1>4. ListsTold(c, ok)
  BY <1>0, <1>2, ListsOfSettle DEF AInv, Lists
<1>5. World(c)
  BY <1>0, <1>2 DEF World, Gone, hostVars, IInv, CallOK
<1>6. pending \in Caller \cup {None} /\ (pending # None => pending \in Actor /\ call'[pending] = call[pending])
  BY <1>2, <1>3 DEF IInv, CallOK, Only, Actor
<1>7. ReservedOK' /\ TurnsBut(c)
  BY <1>0, <1>2, <1>6 DEF AInv, ReservedOK, TurnsBut
<1>8. Honest(c)'
  <2>1. CASE ~ ok
    BY <1>0, <2>1, FailureHonest
  <2>2. CASE ok
    <3>1. call[c].pc = "resolve" /\ "resolve" \in OwnWork \ {"exists", "validate", "reject"}
      BY <2>2 DEF At, OwnWork, Working
    <3>2. call[c].workspace # Other /\ Fresh(c)
      BY <1>2, <3>1 DEF Honest
    <3>3. call[c].task = "delete" => Gone
      BY <1>2, <3>1 DEF Honest, Stops, Operation, Starting, Down, Gone
    <3> QED BY <1>0, <1>2, <2>2, <3>2, <3>3, SuccessHonest
  <2> QED BY <2>1, <2>2
<1>9. ok => \A d \in Caller : Registered(c, d) => Kept(d)'
  BY <1>0, <1>3, SharersKept
<1> QED BY <1>0, <1>2, <1>3, <1>4, <1>5, <1>7, <1>8, <1>9, Settles

LEMMA WorkAnswers == ASSUME IInv, AInv, NEW c \in Actor, Work(c) PROVE AInv'
<1> USE DEF At
<1>0. \A pc \in Working \ {"validateJoined"} : pc \in OwnWork
  BY DEF OwnWork
<1>1. CASE CheckExists(c)
  <2>1. call[c].pc \in OwnWork /\ UNCHANGED <<flight, pending>>
    BY <1>1 DEF CheckExists, OwnWork, Working
  <2>2. Honest(c) /\ call[c].task \in LifecycleRequest
    BY <1>1, <2>1, OwnerRuns DEF CheckExists, Honest
  <2>3. CASE Goto(c, "reject") /\ UNCHANGED <<state, generation, hostVars>>
    <3>1. "reject" \in OwnWork /\ Ready(c, "reject")
      BY DEF OwnWork, Working, Ready
    <3> QED BY <2>1, <2>3, <3>1, OwnerGoto DEF hostVars, Gone
  <2>4. CASE call[c].task = "stop" /\ Release(c, "close")
    <3>1. call[c].workspace = None
      BY <2>2, <2>4 DEF Honest, Stops, Operation, Starting
    <3> QED BY <2>1, <2>4, <3>1, NoneForeign, OwnerRelease
  <2>5. CASE call[c].task # "stop" /\ Goto(c, "validate") /\ UNCHANGED <<state, generation, hostVars>>
    <3>1. "validate" \in OwnWork /\ Ready(c, "validate")
      BY <2>2, <2>5 DEF OwnWork, Working, Ready, Stops, Operation, Starting, LifecycleRequest
    <3> QED BY <2>1, <2>5, <3>1, OwnerGoto DEF hostVars, Gone
  <2> QED BY <1>1, <2>3, <2>4, <2>5 DEF CheckExists
<1>2. CASE Validate(c)
  <2>1. call[c].pc \in OwnWork /\ UNCHANGED <<flight, pending>>
    BY <1>2 DEF Validate, OwnWork, Working
  <2>2. ~ Stops(call[c].task)
    BY <1>2, <2>1, OwnerRuns DEF Validate, Honest
  <2>3. Valid(c) => call[c].workspace # Other
    BY NoneForeign DEF Valid
  <2>4. CASE Goto(c, "reject") /\ UNCHANGED <<state, generation, hostVars>>
    <3>1. "reject" \in OwnWork /\ Ready(c, "reject")
      BY DEF OwnWork, Working, Ready
    <3> QED BY <2>1, <2>4, <3>1, OwnerGoto DEF hostVars, Gone
  <2>5. CASE Valid(c) /\ Release(c, "close")
    BY <2>1, <2>3, <2>5, OwnerRelease
  <2>6. CASE Valid(c) /\ call[c].task # "restart" /\ Goto(c, "resolve")
             /\ UNCHANGED <<state, generation, hostVars>>
    <3>1. "resolve" \in OwnWork /\ Ready(c, "resolve")
      BY <2>3, <2>6 DEF OwnWork, Working, Ready, Fresh
    <3> QED BY <2>1, <2>2, <2>6, <3>1, OwnerGoto DEF hostVars, Gone
  <2>7. CASE Valid(c) /\ Activate(c)
    BY <2>1, <2>2, <2>3, <2>7, OwnerActivate
  <2> QED BY <1>2, <2>4, <2>5, <2>6, <2>7 DEF Validate
<1>3. CASE Materialize(c)
  <2>1. call[c].pc \in OwnWork /\ UNCHANGED <<flight, pending>>
    BY <1>3 DEF Materialize, OwnWork, Working, sessionVars
  <2>2. Honest(c) /\ call[c].pc = "activate"
    BY <1>3, <2>1, OwnerRuns DEF Materialize
  <2>3. "resume" \in OwnWork /\ Ready(c, "resume")
    BY <2>1, <2>2 DEF OwnWork, Working, Ready, Honest
  <2>4. Gone => FALSE
    BY <1>3 DEF Materialize, Activatable, Gone
  <2> QED BY <1>3, <2>1, <2>3, <2>4, OwnerGoto DEF Materialize, sessionVars
<1>4. CASE Resume(c)
  <2>1. call[c].pc \in OwnWork /\ UNCHANGED <<flight, pending>>
    BY <1>4 DEF Resume, OwnWork, Working
  <2>2. Honest(c) /\ call[c].pc = "resume" /\ Stage(call[c].pc, call[c].failed)
    BY <1>4, <2>1, OwnerRuns DEF Resume
  <2>3. "resolve" \in OwnWork /\ Ready(c, "resolve")
    BY <2>1, <2>2 DEF OwnWork, Working, Ready, Honest
  <2>4. Gone => FALSE
    BY <2>2 DEF Stage, Gone
  <2>5. ~ Stops(call[c].task)
    BY <2>2 DEF Honest
  <2> QED BY <1>4, <2>1, <2>3, <2>4, <2>5, OwnerGoto DEF Resume, hostVars
<1>5. CASE ActivationFails(c)
  <2>1. call[c].pc \in OwnWork \ {"exists", "validate", "reject"} /\ UNCHANGED <<flight, pending>>
    BY <1>5 DEF ActivationFails, OwnWork, Working
  <2>2. call[c].workspace # Other
    BY <2>1, OwnerRuns DEF Honest
  <2> QED BY <1>5, <2>1, <2>2, OwnerRelease DEF ActivationFails
<1>6. CASE Pause(c)
  <2>1. call[c].pc \in OwnWork \ {"exists", "validate", "reject"}
    BY <1>6 DEF Pause, OwnWork, Working
  <2>2. call[c].workspace # Other
    BY <2>1, OwnerRuns DEF Honest
  <2>3. PICK broken \in BOOLEAN : call' = [call EXCEPT ![c].pc = "closeApp", ![c].failed = broken]
    BY <1>6 DEF Pause
  <2> DEFINE next == [call[c] EXCEPT !.pc = "closeApp", !.failed = broken]
  <2>4. /\ next \in CallRecord /\ next.pc = "closeApp" /\ next.task = call[c].task
        /\ next.workspace = call[c].workspace /\ next.found = call[c].found
    BY DEF IInv, CallOK, CallRecord, Place, Working
  <2>5. call' = [call EXCEPT ![c] = next]
    BY <2>3 DEF IInv, CallOK, CallRecord
  <2>6. Only(c) /\ Same(c) /\ call'[c].pc = "closeApp"
    BY <2>4, <2>5 DEF IInv, CallOK, Only, Same
  <2>7. (Gone => Gone') /\ deleted' = deleted
    BY <1>6 DEF Pause, Gone, sessionVars
  <2> QED BY <1>6, <2>1, <2>2, <2>6, <2>7, OwnerAlone DEF Pause
<1>7. CASE CloseApp(c)
  <2>1. call[c].pc \in OwnWork \ {"exists", "validate", "reject"} /\ UNCHANGED <<flight, pending>>
    BY <1>7 DEF CloseApp, OwnWork, Working, sessionVars
  <2>2. call[c].workspace # Other
    BY <2>1, OwnerRuns DEF Honest
  <2>3. (Gone => Gone') /\ deleted' = deleted /\ generation' = generation
    BY <1>7 DEF CloseApp, Gone, sessionVars
  <2>4. CASE Goto(c, IF call[c].mode = "close" THEN "drain" ELSE "released")
    <3> DEFINE pc == IF call[c].mode = "close" THEN "drain" ELSE "released"
    <3>1. pc \in OwnWork /\ Ready(c, pc) /\ pc # "resolve"
      BY <2>2 DEF OwnWork, Working, Ready
    <3> QED BY <2>1, <2>3, <2>4, <3>1, OwnerGoto
  <2>5. CASE call' = [call EXCEPT ![c].pc = "released", ![c].failed = TRUE] /\ UNCHANGED queueVars
    <3> DEFINE next == [call[c] EXCEPT !.pc = "released", !.failed = TRUE]
    <3>1. /\ next \in CallRecord /\ next.pc = "released" /\ next.task = call[c].task
          /\ next.workspace = call[c].workspace /\ next.found = call[c].found
      BY DEF IInv, CallOK, CallRecord, Place, Working
    <3>2. call' = [call EXCEPT ![c] = next]
      BY <2>5 DEF IInv, CallOK, CallRecord
    <3>3. Only(c) /\ Same(c) /\ call'[c].pc = "released"
      BY <3>1, <3>2 DEF IInv, CallOK, Only, Same
    <3> QED BY <1>7, <2>1, <2>2, <2>3, <2>5, <3>3, OwnerAlone DEF CloseApp
  <2> QED BY <1>7, <2>4, <2>5 DEF CloseApp
<1>8. CASE Drain(c)
  <2>1. call[c].pc \in OwnWork \ {"exists", "validate", "reject"} /\ UNCHANGED <<flight, pending>>
    BY <1>8 DEF Drain, OwnWork, Working, sessionVars
  <2>2. call[c].workspace # Other
    BY <2>1, OwnerRuns DEF Honest
  <2>3. "released" \in OwnWork /\ Ready(c, "released")
    BY <2>2 DEF OwnWork, Working, Ready
  <2> QED BY <1>8, <2>1, <2>3, OwnerGoto DEF Drain, sessionVars, hostVars, Gone
<1>9. CASE Released(c)
  <2> DEFINE next == IF call[c].failed \/ call[c].mode = "discard" THEN "reject"
                     ELSE IF call[c].task = "restart" THEN "reactivate" ELSE "resolve"
  <2>1. call[c].pc \in OwnWork \ {"exists", "validate", "reject"} /\ UNCHANGED <<flight, pending>>
    BY <1>9 DEF Released, OwnWork, Working
  <2>2. call[c].workspace # Other /\ Stage(call[c].pc, call[c].failed) /\ call[c].pc = "released"
    BY <1>9, <2>1, OwnerRuns DEF Honest, Released
  <2>3. next \in OwnWork /\ Ready(c, next)
    BY <2>2 DEF OwnWork, Working, Ready, Stops, Operation, Starting, Fresh
  <2>4. Goto(c, next) /\ state' = AfterRelease(c) /\ UNCHANGED <<generation, hostVars>>
    BY <1>9 DEF Released
  <2>5. Gone => Gone'
    BY <2>4 DEF Gone, hostVars, AfterRelease
  <2>6. next = "resolve" => Down'
    BY <2>2, <2>4 DEF Down, hostVars, AfterRelease, Stage
  <2> HIDE DEF next
  <2> QED BY <2>1, <2>3, <2>4, <2>5, <2>6, OwnerGoto DEF hostVars
<1>10. CASE Reactivate(c)
  <2>1. call[c].pc \in OwnWork \ {"exists", "validate", "reject"} /\ UNCHANGED <<flight, pending>>
    BY <1>10 DEF Reactivate, OwnWork, Working
  <2>2. call[c].workspace # Other /\ ~ Stops(call[c].task)
    BY <1>10, <2>1, OwnerRuns DEF Honest, Reactivate
  <2> QED BY <1>10, <2>1, <2>2, OwnerActivate DEF Reactivate
<1>11. CASE EndFlight(c)
  BY <1>11, EndFlightAnswers
<1> QED
  BY <1>1, <1>2, <1>3, <1>4, <1>5, <1>6, <1>7, <1>8, <1>9, <1>10, <1>11 DEF Work

-----------------------------------------------------------------------------
(* Admission *)

LEMMA OperationOf ==
  ASSUME NEW t \in Task
  PROVE  /\ Operation(t) = "restart" <=> t = "restart"
         /\ Operation(t) = "ensureReady" <=> t \in Starting
         /\ Stops(t) <=> t \in Dispose \cup {"stop"}
         /\ Operation(t) \in {"ensureReady", "restart", "stop"}
BY DEF Task, Starting, Dispose, Operation, Stops

LEMMA ReadyIsRegistered ==
  ASSUME IInv PROVE state = "ready" => record
<1>1. CASE flight = None
  BY <1>1 DEF IInv, InstanceOK, Down, Up, Quarantined
<1>2. CASE flight # None
  <2>1. flight \in Actor /\ call[flight].pc \in OwnWork /\ Stage(call[flight].pc, call[flight].failed)
    BY <1>2 DEF IInv, CallOK, OwnerWorks, InstanceOK
  <2> QED BY <2>1 DEF Stage, Down, Up, Quarantined, OwnWork, Working
<1> QED BY <1>1, <1>2

\* pending, once c does not hold it any more.
Left(c) == IF pending = c THEN None ELSE pending

LEMMA LeftReserved ==
  ASSUME IInv, AInv, NEW c \in Actor, call[c].pc \notin OwnWork, Only(c), flight' = flight,
         pending' = Left(c)
  PROVE  ReservedOK' /\ TurnsBut(c) /\ flight # c
<1>1. flight # c
  BY NotOwner
<1>2. pending \in Caller \cup {None} /\ flight \in Actor \cup {None}
  BY DEF IInv, CallOK
<1>3. pending' # None => pending' = pending /\ pending \in Actor /\ call'[pending] = call[pending]
  BY <1>2 DEF Only, Actor, Left
<1>4. flight # None => call'[flight] = call[flight]
  BY <1>1, <1>2 DEF Only
<1> QED BY <1>1, <1>3, <1>4 DEF AInv, ReservedOK, TurnsBut, Left

\* A call that is not the owner settles.
LEMMA BystanderSettles ==
  ASSUME IInv, AInv, NEW c \in Actor, Runs(c), call[c].pc \notin OwnWork, NEW ok \in BOOLEAN,
         Settle(c, ok), UNCHANGED <<state, generation, flight, hostVars>>, pending' = Left(c),
         ok => c # pending, Honest(c)'
  PROVE  AInv'
<1>1. Only(c)
  BY SettleEffect DEF IInv
<1>2. ListsTold(c, ok)
  BY ListsOfSettle DEF AInv, Lists
<1>3. World(c)
  BY DEF World, Gone, Down, hostVars, IInv, CallOK
<1>4. ReservedOK' /\ TurnsBut(c) /\ flight # c
  BY <1>1, LeftReserved
<1>5. ok => \A d \in Caller : ~ Registered(c, d)
  BY <1>4 DEF AInv, SharedOK, Shared
<1> QED BY <1>1, <1>2, <1>3, <1>4, <1>5, Settles

\* A call that is not the owner, nor reserved, goes on.
LEMMA BystanderGoes ==
  ASSUME IInv, AInv, NEW c \in Actor, Runs(c), call[c].pc \notin OwnWork, pending # c,
         Only(c), ListsKept(c), UNCHANGED <<state, generation, flight, pending, record, apps>>,
         deleted => deleted', Honest(c)'
  PROVE  AInv'
<1>1. pending' = Left(c)
  BY DEF Left
<1>2. ReservedOK' /\ TurnsBut(c) /\ flight # c
  BY <1>1, LeftReserved
<1>3. TurnOf(c)
  BY <1>2 DEF TurnOf
<1>4. World(c)
  BY DEF World, Gone, Down, IInv, CallOK
<1> QED BY <1>2, <1>3, <1>4, GoesOn

\* What a waiting call goes by is its own, but the start that is to answer it.
LEMMA WaitRecord ==
  ASSUME CallOK, NEW c \in Actor, NEW owner \in Actor, NEW pc \in Waiting, WaitFor(c, owner, pc)
  PROVE  /\ call'[c].pc = pc /\ call'[c].task = call[c].task
         /\ call'[c].workspace = call[c].workspace
         /\ call'[c].found = IF pc \in Joined /\ call[owner].task = "restart"
                             THEN call[owner].found ELSE call[c].found
<1> DEFINE found == IF pc \in {"joined", "joinedUnchecked"} /\ call[owner].task = "restart"
                    THEN call[owner].found ELSE call[c].found
           next == [call[c] EXCEPT !.pc = pc, !.found = found]
<1>1. call' = [call EXCEPT ![c] = next]
  BY DEF CallOK, CallRecord, WaitFor
<1> HIDE DEF found
<1>2. /\ next.pc = pc /\ next.task = call[c].task /\ next.workspace = call[c].workspace
      /\ next.found = found
  BY DEF CallOK, CallRecord
<1>3. call'[c] = next
  BY <1>1 DEF CallOK
<1> QED BY <1>2, <1>3 DEF found, Joined

LEMMA WaitHonest ==
  ASSUME IInv, AInv, NEW c \in Caller, NEW owner \in Actor, NEW pc \in Waiting,
         WaitFor(c, owner, pc), call[c].pc # "execute", UNCHANGED <<generation, deleted>>,
         pc = "joinedUnchecked" => call[c].workspace # None
  PROVE  Honest(c)'
<1>1. c \in Actor /\ Honest(c) /\ Honest(owner)
  BY DEF AInv, AllHonest, Actor
<1>2. /\ call'[c].pc = pc /\ call'[c].task = call[c].task
      /\ call'[c].workspace = call[c].workspace
      /\ call'[c].found = IF pc \in Joined /\ call[owner].task = "restart"
                          THEN call[owner].found ELSE call[c].found
  BY <1>1, WaitRecord DEF IInv
<1>3. call'[c].task = "restart" => call'[c].found <= generation'
  BY <1>1, <1>2 DEF Honest
<1>4. pc \notin OwnWork /\ pc \notin {"ok", "execute", "softDeleted", "decide", "validateJoined"}
  BY DEF Waiting, OwnWork, Working
<1>5. pc \notin {"exists", "validate", "activate", "resume", "reactivate", "resolve"}
  BY DEF Waiting
<1> QED BY <1>1, <1>2, <1>3, <1>4, <1>5 DEF Honest

\* c waits for the promise of owner.
LEMMA WaitAnswers ==
  ASSUME IInv, AInv, NEW c \in Caller, Runs(c), call[c].pc \notin OwnWork, call[c].pc # "execute",
         NEW owner \in Actor, NEW pc \in Waiting, WaitFor(c, owner, pc),
         UNCHANGED <<state, generation, flight, hostVars>>,
         pc = "joinedUnchecked" => call[c].workspace # None,
         ReservedOK', TurnsBut(c), TurnOf(c), pc \in Joined => c # pending, Shared(owner, c)'
  PROVE  AInv'
<1>1. c \in Actor
  BY DEF Actor
<1>2. Only(c)
  BY <1>1, WaitEffect DEF IInv
<1>3. /\ call'[c].pc = pc /\ call'[c].task = call[c].task
      /\ call'[c].workspace = call[c].workspace
      /\ call'[c].found = IF pc \in Joined /\ call[owner].task = "restart"
                          THEN call[owner].found ELSE call[c].found
  BY <1>1, WaitRecord DEF IInv
<1>4. flight # c
  BY <1>1, NotOwner
<1>5. Same(c) \/ c \notin {flight, pending}
  BY <1>3, <1>4 DEF Same
<1>6. ListsJoined(c, owner)
  BY ListsOfWait DEF AInv, Lists
<1>7. World(c)
  BY DEF World, Gone, Down, hostVars, IInv, CallOK
<1>8. Honest(c)'
  BY WaitHonest DEF hostVars
<1> QED BY <1>2, <1>3, <1>5, <1>6, <1>7, <1>8, JoinsIn

\* Nobody is at work: what c starts is the only operation.
LEMMA BeginStep ==
  ASSUME IInv, AInv, NEW c \in Caller, Runs(c), flight = None, flight' = c, pending' = Left(c),
         ~ SharesReserved(c), Only(c), Same(c), ListsKept(c), generation' \in Nat,
         generation' >= generation, deleted' = deleted, Gone => Gone', Honest(c)'
  PROVE  AInv'
<1>1. c \in Actor
  BY DEF Actor
<1>2. World(c)
  BY DEF World
<1>3. TurnsBut(c) /\ TurnOf(c)
  BY <1>1, NoneForeign DEF TurnsBut, TurnOf, Left
<1>4. ReservedOK'
  <2> SUFFICES ASSUME pending' # None
               PROVE  /\ call'[pending'].pc = "reserved" /\ call'[pending'].task = "restart"
                      /\ call'[c].task # "restart"
    BY DEF ReservedOK
  <2>1. pending' = pending /\ pending # c /\ pending # None
    BY DEF Left
  <2>2. pending \in Actor
    BY <2>1 DEF IInv, CallOK, Actor
  <2>3. call'[pending] = call[pending]
    BY <2>1, <2>2 DEF Only
  <2>4. call[c].task # "restart"
    BY <2>1 DEF SharesReserved
  <2> QED BY <2>1, <2>3, <2>4 DEF AInv, ReservedOK, Same
<1> QED BY <1>1, <1>2, <1>3, <1>4, GoesOn

LEMMA BeginAnswers ==
  ASSUME IInv, AInv, NEW c \in Caller, Runs(c), call[c].pc # "execute", flight = None,
         state # "faulted", ~ SharesReserved(c), Begin(c), pending' = Left(c)
  PROVE  AInv'
<1> DEFINE task == call[c].task
<1>1. c \in Actor /\ Honest(c) /\ task \in Task /\ flight' = c /\ generation \in Nat
  BY DEF AInv, AllHonest, Actor, IInv, CallOK, CallRecord, Begin
<1>2. Down \/ Up
  BY DEF IInv, InstanceOK, Quarantined
<1>3. ASSUME NEW pc \in OwnWork, Goto(c, pc), UNCHANGED <<state, generation, hostVars>>, Ready(c, pc),
             pc = "resolve" /\ Stops(task) => Down
      PROVE  AInv'
  <2>1. Down => Down'
    BY <1>3 DEF Down, hostVars
  <2>2. Honest(c)' /\ Only(c) /\ Same(c)
    BY <1>1, <1>3, <2>1, GotoHonest DEF hostVars
  <2>3. ListsKept(c)
    BY <1>1, <1>3, ListsOfGoto DEF AInv, Lists, Goto
  <2>4. (Gone => Gone') /\ deleted' = deleted
    BY <1>3 DEF Gone, hostVars
  <2> QED BY <1>1, <1>3, <2>2, <2>3, <2>4, BeginStep
<1>4. CASE task \in LifecycleRequest /\ Goto(c, "exists") /\ UNCHANGED <<state, generation, hostVars>>
  <2>1. "exists" \in OwnWork /\ Ready(c, "exists")
    BY <1>4 DEF OwnWork, Working, Ready
  <2> QED BY <1>3, <1>4, <2>1
<1>5. CASE task \in {"initialize", "prepare"} /\ call[c].workspace # None /\ Goto(c, "validate")
           /\ UNCHANGED <<state, generation, hostVars>>
  <2>1. "validate" \in OwnWork /\ Ready(c, "validate")
    BY <1>5 DEF OwnWork, Working, Ready, Stops, Operation, Starting
  <2> QED BY <1>3, <1>5, <2>1
<1>6. CASE task \in {"initialize", "prepare"} /\ call[c].workspace = None /\ Goto(c, "resolve")
           /\ UNCHANGED <<state, generation, hostVars>>
  <2>1. "resolve" \in OwnWork /\ Ready(c, "resolve") /\ ~ Stops(task)
    BY <1>6, NoneForeign DEF OwnWork, Working, Ready, Stops, Operation, Starting, Fresh
  <2> QED BY <1>3, <1>6, <2>1
<1>7. CASE task \in {"initialize", "prepare"} /\ call[c].workspace = None /\ Activate(c)
  <2>1. call[c].workspace # Other /\ ~ Stops(task)
    BY <1>7, NoneForeign DEF Stops, Operation, Starting
  <2>2. /\ Honest(c)' /\ Only(c) /\ Same(c) /\ (Gone => Gone')
        /\ generation' \in Nat /\ generation' >= generation /\ deleted' = deleted
    BY <1>1, <1>7, <2>1, ActivateHonest
  <2>3. ListsKept(c)
    BY <1>1, <1>7, ListsOfGoto DEF AInv, Lists, Activate, Goto
  <2> QED BY <1>1, <2>2, <2>3, BeginStep
<1>8. CASE task \in Dispose
  <2>1. Stops(task) /\ task # "restart" /\ task \notin LifecycleRequest /\ task \notin {"initialize", "prepare"}
    BY <1>8 DEF Dispose, Stops, Operation, Starting, LifecycleRequest
  <2>2. call[c].workspace # Other
    BY <1>1, <2>1, NoneForeign DEF Honest
  <2>3. CASE state = "unloaded" /\ Goto(c, "resolve") /\ UNCHANGED <<state, generation, hostVars>>
    <3>1. Down
      BY <1>2, <2>3 DEF Up
    <3>2. "resolve" \in OwnWork /\ Ready(c, "resolve")
      BY <2>1, <2>2 DEF OwnWork, Working, Ready, Fresh
    <3> QED BY <1>3, <2>3, <3>1, <3>2
  <2>4. CASE Release(c, Mode(task))
    <3>1. /\ Honest(c)' /\ Only(c) /\ Same(c) /\ (Gone => Gone')
          /\ generation' = generation /\ deleted' = deleted
      BY <1>1, <2>2, <2>4, ModeType, ReleaseHonest
    <3>2. ListsKept(c)
      BY <1>1, <2>4, ListsOfGoto DEF AInv, Lists, Release
    <3> QED BY <1>1, <3>1, <3>2, BeginStep
  <2> QED BY <1>8, <2>1, <2>3, <2>4 DEF Begin
<1> QED BY <1>4, <1>5, <1>6, <1>7, <1>8 DEF Begin

\* Where a call is when it asks the controller.
Asking == {"lease", "reserved", "afterStop", "softDeleted"}

LEMMA AdmitAnswers ==
  ASSUME IInv, AInv, NEW c \in Caller, Runs(c), call[c].pc \in Asking, Admit(c)
  PROVE  AInv'
<1> DEFINE stays == UNCHANGED <<state, generation, flight, hostVars>>
<1>1. /\ c \in Actor /\ call[c].pc \notin OwnWork /\ call[c].pc # "execute"
      /\ call[c].task \in Task /\ Honest(c)
  BY DEF Asking, OwnWork, Working, Actor, IInv, CallOK, CallRecord, AInv, AllHonest
<1>2. flight # c
  BY <1>1, NotOwner
<1>3. /\ pending \in Caller \cup {None} /\ flight \in Actor \cup {None}
      /\ \A d \in Actor : call[d].task \in Task
  BY DEF IInv, CallOK, CallRecord
<1>4. pending = c => call[c].task = "restart" /\ ~ Running("restart")
  <2> SUFFICES ASSUME pending = c PROVE call[c].task = "restart" /\ ~ Running("restart")
    OBVIOUS
  <2>1. call[c].task = "restart" /\ (flight # None => call[flight].task # "restart")
    BY <1>1, NoneForeign DEF AInv, ReservedOK
  <2> QED BY <1>3, <2>1, OperationOf DEF Running
<1>5. ASSUME Only(c), pending' = Left(c), flight' = flight
      PROVE  ReservedOK' /\ TurnsBut(c) /\ (c # pending => TurnOf(c))
  <2>1. ReservedOK' /\ TurnsBut(c)
    BY <1>1, <1>5, LeftReserved
  <2> QED BY <1>2, <2>1 DEF TurnOf
<1>6. CASE Settle(c, FALSE) /\ pending' = Left(c) /\ stays
  <2>1. Honest(c)'
    BY <1>1, <1>6, FailureHonest
  <2> QED BY <1>1, <1>6, <2>1, BystanderSettles
<1>7. \A o \in Actor : Join(c, o) \in Joined /\ Join(c, o) \in Waiting
                       /\ (Join(c, o) = "joinedUnchecked" => call[c].workspace # None)
                       /\ (Join(c, o) = "joined" => call[c].workspace = None \/ call[o].workspace # None)
  BY DEF Join, Joined, Waiting
<1>8. ASSUME NEW o \in {flight, pending} \ {None, c}, ~ Conflict(c),
             call[c].workspace # None, call[o].workspace # None
      PROVE  call[c].workspace = call[o].workspace
  BY <1>8 DEF Conflict
\* c shares the promise of the operation under way, or of the reserved restart.
<1>9. ASSUME NEW o \in {flight, pending} \ {None, c}, ~ Conflict(c), WaitFor(c, o, Join(c, o)),
             pending' = Left(c), stays, c # pending,
             call[c].task = "restart" => call[o].task = "restart",
             call[c].task = "delete" => o = flight /\ Stops(call[o].task)
      PROVE  AInv'
  <2> DEFINE pc == Join(c, o)
  <2>1. o \in Actor /\ o # c
    BY <1>3 DEF Actor
  <2>2. pc \in Joined /\ pc \in Waiting /\ (pc = "joinedUnchecked" => call[c].workspace # None)
        /\ (pc = "joined" => call[c].workspace = None \/ call[o].workspace # None)
    BY <1>7, <2>1
  <2>3. call[c].workspace # None /\ call[o].workspace # None => call[c].workspace = call[o].workspace
    BY <1>8, <1>9
  <2> HIDE DEF pc
  <2>4. WaitFor(c, o, pc)
    BY <1>9 DEF pc
  <2>5. Only(c)
    BY <1>1, <2>1, <2>2, <2>4, WaitEffect DEF IInv
  <2>6. /\ call'[c].pc = pc /\ call'[c].task = call[c].task
        /\ call'[c].workspace = call[c].workspace
        /\ call'[c].found = IF pc \in Joined /\ call[o].task = "restart"
                            THEN call[o].found ELSE call[c].found
    BY <1>1, <2>1, <2>2, <2>4, WaitRecord DEF IInv
  <2>7. call'[o] = call[o] /\ o \in {flight', pending'} /\ (o = flight => o = flight')
    BY <1>9, <2>1, <2>5 DEF Only, Left
  <2>8. Shared(o, c)'
    BY <1>9, <2>1, <2>2, <2>3, <2>6, <2>7 DEF Shared
  <2>9. ReservedOK' /\ TurnsBut(c) /\ TurnOf(c)
    BY <1>5, <1>9, <2>5
  <2> QED BY <1>1, <1>9, <2>1, <2>2, <2>4, <2>8, <2>9, WaitAnswers
<1>10. CASE ~ Refused(c) /\ SharesReserved(c) /\ WaitFor(c, pending, Join(c, pending))
            /\ pending' = Left(c) /\ stays
  <2>1. pending \in {flight, pending} \ {None, c} /\ ~ Conflict(c) /\ c # pending
        /\ call[c].task # "delete" /\ call[pending].task = "restart"
    BY <1>10 DEF SharesReserved, Refused, AInv, ReservedOK
  <2> QED BY <1>9, <1>10, <2>1
<1>11. CASE ~ Refused(c) /\ Shares(c) /\ ~ SharesReserved(c) /\ WaitFor(c, flight, Join(c, flight))
            /\ pending' = Left(c) /\ stays
  <2>1. flight # None /\ flight \in Actor /\ call[flight].task \in Task
    BY <1>3, <1>11 DEF Shares, Running
  <2>2. c # pending
    BY <1>1, <1>4, <1>11, OperationOf DEF Shares, Wanted
  <2>3. call[c].task = "restart" => call[flight].task = "restart"
    <3> SUFFICES ASSUME call[c].task = "restart" PROVE call[flight].task = "restart"
      OBVIOUS
    <3>1. Operation(call[flight].task) = "restart"
      BY <1>1, <1>11, OperationOf DEF Shares, Wanted, Running
    <3> QED BY <2>1, <3>1, OperationOf
  <2>4. call[c].task = "delete" => Stops(call[flight].task)
    <3> SUFFICES ASSUME call[c].task = "delete" PROVE Stops(call[flight].task)
      OBVIOUS
    <3>1. Operation("delete") = "stop"
      BY DEF Operation, Starting
    <3> QED BY <1>11, <3>1 DEF Shares, Wanted, Running, Stops
  <2>5. flight \in {flight, pending} \ {None, c} /\ ~ Conflict(c)
    BY <1>2, <1>11, <2>1 DEF Refused
  <2> QED BY <1>9, <1>11, <2>2, <2>3, <2>4, <2>5
\* c waits for the end of the operation under way only.
<1>12. ASSUME NEW pc \in {"afterStop", "reserved"}, flight # None, WaitFor(c, flight, pc), stays,
              ReservedOK', TurnOf(c), TurnsBut(c)
       PROVE  AInv'
  <2>1. flight \in Actor /\ pc \in Waiting /\ pc \notin Joined
    BY <1>3, <1>12 DEF Waiting, Joined
  <2>2. call'[c].pc = pc
    BY <1>1, <1>12, <2>1, WaitEffect DEF IInv
  <2>3. Shared(flight, c)'
    BY <1>2, <1>12, <2>1, <2>2 DEF Shared
  <2> QED BY <1>1, <1>12, <2>1, <2>3, WaitAnswers DEF Joined
<1>13. CASE AfterStop(c) /\ WaitFor(c, flight, "afterStop") /\ pending' = Left(c) /\ stays
  <2>1. flight # None /\ "afterStop" \in Waiting
    BY <1>13 DEF AfterStop, Running, Waiting
  <2>2. c # pending
    BY <1>1, <1>4, <1>13, OperationOf DEF AfterStop, Wanted
  <2>3. Only(c)
    BY <1>1, <1>3, <1>13, <2>1, WaitEffect DEF IInv
  <2> QED BY <1>5, <1>12, <1>13, <2>1, <2>2, <2>3
<1>14. CASE ~ SharesReserved(c) /\ Reserves(c) /\ WaitFor(c, flight, "reserved") /\ pending' = c /\ stays
  <2>1. flight # None /\ "reserved" \in Waiting /\ flight \in Actor
    BY <1>3, <1>14 DEF Reserves, Running, Waiting
  <2>2. call[c].task = "restart" /\ call[flight].task # "restart"
    BY <1>1, <1>3, <1>14, <2>1, OperationOf DEF Reserves, Wanted, Running
  <2>3. pending \in {None, c}
    BY <1>14, <2>2 DEF SharesReserved
  <2>4. Only(c) /\ call'[c].pc = "reserved"
    BY <1>1, <1>14, <2>1, WaitEffect DEF IInv
  <2>5. call'[c].task = call[c].task
    BY <1>1, <1>14, <2>1, WaitRecord DEF IInv
  <2>6. call'[flight] = call[flight]
    BY <1>2, <2>1, <2>4 DEF Only
  <2>7. ReservedOK'
    BY <1>14, <2>2, <2>4, <2>5, <2>6 DEF ReservedOK
  <2>8. TurnsBut(c) /\ TurnOf(c)
    BY <1>2, <1>14, <2>3, NoneForeign DEF TurnsBut, TurnOf
  <2> QED BY <1>12, <1>14, <2>1, <2>7, <2>8
<1>15. CASE ~ Refused(c) /\ ~ Waits(c) /\ Begin(c) /\ pending' = Left(c)
  <2>1. flight = None /\ state # "faulted" /\ ~ SharesReserved(c)
    BY <1>15 DEF Refused, Waits
  <2> QED BY <1>1, <1>15, <2>1, BeginAnswers
<1> QED BY <1>6, <1>10, <1>11, <1>13, <1>14, <1>15 DEF Admit, Left

-----------------------------------------------------------------------------
(* The requests *)

LEMMA ReactAnswers == ASSUME IInv, AInv, NEW c \in Caller, React(c) PROVE AInv'
<1> DEFINE ok == Head(woken).ok
           stays == UNCHANGED <<sessionVars, hostVars>>
<1>0. c \in Actor /\ Reacts(c) /\ Runs(c) /\ Honest(c)
  BY DEF React, Runs, AInv, AllHonest, Actor
<1>1. ok \in BOOLEAN /\ Told(c, ok)
  <2>1. woken # <<>> /\ Head(woken).who = c /\ woken \in Seq(Entry) /\ EachOnce(woken)
    BY <1>0 DEF Reacts, AInv, QueuesOK
  <2>2. Head(woken) \in Entry /\ In(woken, Head(woken))
    BY <2>1, InTail
  <2>3. Head(woken) = [who |-> c, ok |-> ok] /\ ok \in BOOLEAN
    BY <2>1, <2>2 DEF Entry
  <2> HIDE DEF ok
  <2> QED BY <2>2, <2>3 DEF Told
<1>2. ok => Kept(c)
  BY <1>1 DEF AInv, KeptOK
<1> HIDE DEF ok
<1>3. call[c].pc \in Waiting
  BY <1>1 DEF AInv, OnlyWaiting, Enlisted
<1>4. call[c].pc \notin OwnWork /\ call[c].pc # "execute"
  BY <1>3 DEF Waiting, OwnWork, Working
<1>5. pending = c => At(c, "reserved")
  BY <1>0, NoneForeign DEF AInv, ReservedOK, At
<1>6. CASE call[c].pc \in {"reserved", "afterStop"} /\ Admit(c)
  BY <1>0, <1>6, AdmitAnswers DEF Asking
<1>7. CASE ~ At(c, "reserved") /\ Settle(c, FALSE) /\ stays
  <2>1. Honest(c)' /\ pending' = Left(c)
    BY <1>0, <1>5, <1>7, FailureHonest DEF sessionVars, Left
  <2> QED BY <1>0, <1>4, <1>7, <2>1, BystanderSettles DEF sessionVars
<1>8. CASE At(c, "joinedUnchecked") /\ ok /\ Goto(c, "validateJoined") /\ stays
  <2>1. "validateJoined" \in Place /\ "validateJoined" \notin OwnWork
    BY DEF Place, Working, OwnWork
  <2>2. Only(c) /\ Same(c) /\ call'[c].pc = "validateJoined"
    BY <1>0, <1>8, <2>1, GotoEffect, GotoSame DEF IInv
  <2>3. ListsKept(c)
    BY <1>0, <1>8, ListsOfGoto DEF AInv, Lists, Goto
  <2>4. Fresh(c) /\ call[c].workspace # None /\ call[c].pc = "joinedUnchecked"
    BY <1>0, <1>2, <1>8 DEF Kept, Joined, Honest, At
  <2>5. generation' = generation /\ deleted' = deleted
    BY <1>8 DEF sessionVars, hostVars
  <2>6. Fresh(c)'
    BY <2>2, <2>4, <2>5 DEF Fresh, Same
  <2>7. Honest(c)'
    BY <1>0, <2>1, <2>2, <2>4, <2>5, <2>6 DEF Honest, Same
  <2>8. pending # c
    BY <1>5, <1>8 DEF At
  <2> QED BY <1>0, <1>4, <1>8, <2>2, <2>3, <2>7, <2>8, BystanderGoes DEF sessionVars, hostVars
<1>9. CASE At(c, "joined") /\ Settle(c, ok) /\ stays
  <2>1. CASE ~ ok
    BY <1>1, <1>7, <1>9, <2>1 DEF At
  <2>2. CASE ok
    <3>1. call[c].workspace # Other /\ Fresh(c) /\ (call[c].task = "delete" => Gone)
      BY <1>2, <1>9, <2>2 DEF Kept, Joined, At
    <3>2. Settle(c, TRUE) /\ UNCHANGED <<generation, hostVars, state>>
      BY <1>1, <1>9, <2>2 DEF sessionVars
    <3>3. Honest(c)'
      BY <1>0, <1>4, <3>1, <3>2, SuccessHonest
    <3>4. pending # c /\ pending' = Left(c)
      BY <1>5, <1>9 DEF At, sessionVars, Left
    <3> QED BY <1>0, <1>4, <1>9, <3>2, <3>3, <3>4, BystanderSettles DEF sessionVars
  <2> QED BY <2>1, <2>2
<1> QED BY <1>6, <1>7, <1>8, <1>9 DEF React, At, ok

\* A call that is neither waiting nor the owner nor reserved.
LEMMA Standing ==
  ASSUME IInv, AInv, NEW c \in Caller, call[c].pc \in {"idle", "validateJoined"} \cup Around
  PROVE  /\ c \in Actor /\ Runs(c) /\ Honest(c) /\ pending # c /\ pending = Left(c) /\ flight # c
         /\ call[c].pc \notin OwnWork /\ call[c].pc \notin Waiting
<1>1. call[c].pc \notin OwnWork /\ call[c].pc \notin Waiting /\ call[c].pc # "reserved"
  BY DEF Around, OwnWork, Working, Waiting
<1>2. c \in Actor /\ c # None
  BY NoneForeign DEF Actor
<1>3. pending # c
  BY <1>1, <1>2 DEF AInv, ReservedOK
<1> QED BY <1>1, <1>2, <1>3, NotOwner DEF Runs, AInv, AllHonest, Left

LEMMA StandingFails ==
  ASSUME IInv, AInv, NEW c \in Caller, call[c].pc \in {"idle", "validateJoined"} \cup Around,
         Settle(c, FALSE), UNCHANGED <<sessionVars, hostVars>>
  PROVE  AInv'
<1>1. /\ c \in Actor /\ Runs(c) /\ pending = Left(c) /\ call[c].pc \notin OwnWork
  BY Standing
<1>2. Honest(c)'
  BY <1>1, FailureHonest
<1> QED BY <1>1, <1>2, BystanderSettles DEF sessionVars

LEMMA StandingSucceeds ==
  ASSUME IInv, AInv, NEW c \in Caller, call[c].pc \in {"validateJoined", "softDeleted"},
         Settle(c, TRUE), UNCHANGED <<sessionVars, hostVars>>,
         call[c].workspace # Other, Fresh(c), call[c].task = "delete" => Gone
  PROVE  AInv'
<1>1. call[c].pc \in {"idle", "validateJoined"} \cup Around /\ call[c].pc # "execute"
  BY DEF Around
<1>2. /\ c \in Actor /\ Runs(c) /\ Honest(c) /\ pending # c /\ pending = Left(c)
      /\ call[c].pc \notin OwnWork
  BY <1>1, Standing
<1>3. Honest(c)'
  BY <1>1, <1>2, SuccessHonest DEF sessionVars
<1> QED BY <1>2, <1>3, BystanderSettles DEF sessionVars

LEMMA ValidateJoinedAnswers == ASSUME IInv, AInv, NEW c \in Caller, ValidateJoined(c) PROVE AInv'
<1>1. call[c].pc = "validateJoined" /\ Settle(c, Valid(c)) /\ UNCHANGED <<sessionVars, hostVars>>
  BY DEF ValidateJoined, At
<1>2. Honest(c)
  BY <1>1, Standing
<1>3. CASE Valid(c) = FALSE
  <2>1. Settle(c, FALSE)
    BY <1>1, <1>3
  <2> QED BY <1>1, <2>1, StandingFails
<1>4. CASE Valid(c) = TRUE
  <2>1. Settle(c, TRUE)
    BY <1>1, <1>4
  <2>2. call[c].workspace # None /\ Fresh(c)
    BY <1>1, <1>2 DEF Honest
  <2>3. call[c].workspace # Other
    BY <1>4, <2>2, NoneForeign DEF Valid
  <2>4. call[c].task # "delete"
    BY <1>2, <2>2 DEF Honest, Stops, Operation, Starting
  <2> QED BY <1>1, <2>1, <2>2, <2>3, <2>4, StandingSucceeds
<1>5. Valid(c) \in BOOLEAN
  BY DEF Valid
<1> QED BY <1>3, <1>4, <1>5

LEMMA RequestAnswers == ASSUME IInv, AInv, NEW c \in Caller, Request(c) PROVE AInv'
<1>1. call[c].pc = "idle" /\ UNCHANGED <<sessionVars, hostVars, queueVars>>
  BY DEF Request, At
<1>2. /\ c \in Actor /\ Runs(c) /\ pending # c /\ flight # c
      /\ call[c].pc \notin OwnWork /\ call[c].pc \notin Waiting
  BY <1>1, Standing
<1>3. PICK r \in Requests :
        call' = [call EXCEPT ![c] =
          [NoCall EXCEPT !.task = r.task, !.workspace = r.workspace, !.pc = "lease",
                         !.found = IF r.task = "restart" THEN generation ELSE 0]]
  BY DEF Request
<1> DEFINE next == [NoCall EXCEPT !.task = r.task, !.workspace = r.workspace, !.pc = "lease",
                                  !.found = IF r.task = "restart" THEN generation ELSE 0]
<1>4. /\ r.task \in Task /\ r.workspace \in Workspace \cup {None}
      /\ r.task = "prepare" \/ Stops(r.task) => r.workspace = None
      /\ r.task # "delete"
  BY DEF Requests, Task, Starting, Dispose, Stops, Operation
<1>5. "lease" \in Place /\ "lease" \notin OwnWork
  BY DEF Place, Around, OwnWork, Working
<1>6. generation \in Nat
  BY DEF IInv, CallOK
<1>7. next \in CallRecord /\ next.pc = "lease" /\ next.task = r.task /\ next.workspace = r.workspace
      /\ (r.task = "restart" => next.found = generation)
  BY <1>4, <1>5, <1>6 DEF CallRecord, NoCall
<1> HIDE DEF next
<1>8. Only(c) /\ call'[c] = next
  BY <1>2, <1>3, <1>7 DEF IInv, CallOK, Only, next
<1>9. ListsKept(c)
  BY <1>1, <1>2, ListsOfOther DEF AInv, Lists
<1>10. c # Pool
  BY ActorAssumption
<1>11. generation' = generation /\ generation <= generation
  BY <1>1, <1>6 DEF sessionVars
<1>12. Honest(c)'
  BY <1>4, <1>5, <1>7, <1>8, <1>10, <1>11 DEF Honest
<1> QED BY <1>1, <1>2, <1>8, <1>9, <1>12, BystanderGoes DEF sessionVars, hostVars

\* A standing call goes on.
LEMMA StandingGoes ==
  ASSUME IInv, AInv, NEW c \in Caller, call[c].pc \in Around, NEW pc \in {"decide", "softDeleted"},
         Goto(c, pc), UNCHANGED <<sessionVars, record, apps>>, deleted => deleted',
         pc = "decide" => call[c].task = "prepare",
         pc = "softDeleted" => call[c].task = "delete" /\ deleted'
  PROVE  AInv'
<1>1. /\ c \in Actor /\ Runs(c) /\ Honest(c) /\ pending # c /\ call[c].pc \notin OwnWork
  BY Standing
<1>2. pc \in Place /\ pc \notin OwnWork
  BY DEF Place, Around, OwnWork, Working
<1>3. Only(c) /\ Same(c) /\ call'[c].pc = pc
  BY <1>1, <1>2, GotoEffect, GotoSame DEF IInv
<1>4. ListsKept(c)
  BY <1>1, ListsOfGoto DEF AInv, Lists, Goto
<1>5. generation' = generation
  BY DEF sessionVars
<1>6. Honest(c)'
  BY <1>1, <1>2, <1>3, <1>5 DEF Honest, Same
<1> QED BY <1>1, <1>3, <1>4, <1>6, BystanderGoes DEF sessionVars

LEMMA DecideAnswers == ASSUME IInv, AInv, NEW c \in Caller, Decide(c) PROVE AInv'
<1>1. call[c].pc = "decide" /\ call[c].pc \in Around
  BY DEF Decide, At, Around
<1>2. CASE Refuse(c)
  BY <1>1, <1>2, StandingFails DEF Refuse
<1>3. CASE /\ call' = [call EXCEPT ![c].pc = "execute", ![c].task = "delete"]
           /\ UNCHANGED <<sessionVars, hostVars, queueVars>>
  <2>1. /\ c \in Actor /\ Runs(c) /\ Honest(c) /\ pending # c
        /\ call[c].pc \notin OwnWork /\ call[c].pc \notin Waiting
    BY <1>1, Standing
  <2> DEFINE next == [call[c] EXCEPT !.pc = "execute", !.task = "delete"]
  <2>2. "execute" \in Place /\ "execute" \notin OwnWork /\ "delete" \in Task
    BY DEF Place, Around, OwnWork, Working, Task, Dispose
  <2>3. /\ next \in CallRecord /\ next.pc = "execute" /\ next.task = "delete"
        /\ next.workspace = call[c].workspace
    BY <2>1, <2>2 DEF IInv, CallOK, CallRecord
  <2>4. call' = [call EXCEPT ![c] = next]
    BY <1>3, <2>1 DEF IInv, CallOK, CallRecord
  <2> HIDE DEF next
  <2>5. Only(c) /\ call'[c] = next
    BY <2>1, <2>3, <2>4 DEF IInv, CallOK, Only
  <2>6. ListsKept(c)
    BY <1>3, <2>1, ListsOfOther DEF AInv, Lists
  <2>7. Honest(c)'
    BY <1>1, <2>1, <2>2, <2>3, <2>5 DEF Honest
  <2> QED BY <1>3, <2>1, <2>5, <2>6, <2>7, BystanderGoes DEF sessionVars, hostVars
<1> QED BY <1>2, <1>3 DEF Decide

LEMMA AroundAnswers ==
  ASSUME IInv, AInv, NEW c \in Caller,
         Enter(c) \/ EnterClose(c) \/ EnterDelete(c) \/ SoftDelete(c) \/ DisposeDeleted(c)
  PROVE  AInv'
<1>1. call[c].pc \in {"lease", "execute", "softDeleted"}
  BY DEF Enter, EnterClose, EnterDelete, SoftDelete, DisposeDeleted, Leased, At
<1>2. call[c].pc \in Around /\ Runs(c) /\ Honest(c)
  BY <1>1, Standing DEF Around
<1>3. CASE call[c].pc \in {"lease", "softDeleted"} /\ Admit(c)
  BY <1>2, <1>3, AdmitAnswers DEF Asking
<1>4. CASE Refuse(c)
  BY <1>2, <1>4, StandingFails DEF Refuse
<1>5. CASE Enter(c)
  BY <1>3, <1>5 DEF Enter, Leased, At
<1>6. CASE EnterClose(c)
  BY <1>3, <1>4, <1>6 DEF EnterClose, Leased, At
<1>7. CASE EnterDelete(c)
  <2>1. CASE Goto(c, "decide") /\ UNCHANGED <<sessionVars, hostVars>>
    <3>1. call[c].task = "prepare"
      BY <1>7 DEF EnterDelete
    <3> QED BY <1>2, <2>1, <3>1, StandingGoes DEF hostVars
  <2> QED BY <1>3, <1>4, <1>7, <2>1 DEF EnterDelete, Leased, At
<1>8. CASE SoftDelete(c)
  <2>1. CASE deleted' = TRUE /\ Goto(c, "softDeleted") /\ UNCHANGED <<sessionVars, record, apps>>
    <3>1. call[c].task = "delete"
      BY <1>2, <1>8 DEF SoftDelete, At, Honest
    <3> QED BY <1>2, <2>1, <3>1, StandingGoes
  <2> QED BY <1>4, <1>8, <2>1 DEF SoftDelete
<1>9. CASE DisposeDeleted(c)
  <2>1. CASE ~ record /\ Settle(c, TRUE) /\ UNCHANGED <<sessionVars, hostVars>>
    <3>1. call[c].pc = "softDeleted"
      BY <1>9 DEF DisposeDeleted, At
    <3>2. call[c].task = "delete" /\ deleted /\ call[c].workspace = None
      BY <1>2, <3>1 DEF Honest, Stops, Operation, Starting
    <3>3. Gone /\ Fresh(c)
      BY <2>1, <3>2, ReadyIsRegistered DEF Gone, Fresh
    <3> QED BY <2>1, <3>1, <3>2, <3>3, NoneForeign, StandingSucceeds
  <2> QED BY <1>3, <1>9, <2>1 DEF DisposeDeleted, At
<1> QED BY <1>5, <1>6, <1>7, <1>8, <1>9

LEMMA EvictAnswers == ASSUME IInv, AInv, Evict PROVE AInv'
<1>1. Pool \in Actor
  BY DEF Actor
<1>2. \A d \in Actor : call[d].pc \notin Waiting /\ call[d].pc \notin OwnWork /\ call[d].pc # "reserved"
  BY DEF Evict, AtRest, Rest, OwnWork, Working, Waiting
<1>3. flight = None /\ pending = None
  <2>1. flight = None
    BY <1>2, NotOwner DEF IInv, CallOK
  <2>2. pending # None => pending \in Actor /\ call[pending].pc = "reserved"
    BY DEF IInv, CallOK, Actor, AInv, ReservedOK
  <2> QED BY <1>2, <2>1, <2>2
<1> DEFINE next == [call[Pool] EXCEPT !.task = "deactivate", !.mode = "deactivate",
                                      !.pc = "closeApp", !.failed = FALSE]
<1>4. "closeApp" \in Place /\ "deactivate" \in Task
  BY DEF Place, Working, Task, Dispose
<1>5. /\ next \in CallRecord /\ next.pc = "closeApp" /\ next.task = "deactivate"
      /\ next.workspace = call[Pool].workspace
  BY <1>1, <1>4 DEF IInv, CallOK, CallRecord
<1>6. call' = [call EXCEPT ![Pool] = next]
  BY DEF Evict
<1> HIDE DEF next
<1>7. Only(Pool) /\ call'[Pool] = next
  BY <1>1, <1>5, <1>6 DEF IInv, CallOK, Only
<1>8. ListsKept(Pool)
  BY <1>1, <1>2, ListsOfOther DEF AInv, Lists, Evict
<1>9. /\ flight' = Pool /\ pending' = pending /\ generation' = generation /\ generation \in Nat
      /\ deleted' = deleted /\ state' = "stopping" /\ record' = FALSE
  BY DEF Evict, IInv, CallOK
<1>10. World(Pool)
  BY <1>3, <1>9 DEF World, Gone
<1>11. Runs(Pool) /\ Honest(Pool)
  BY <1>1, <1>2 DEF Runs, AInv, AllHonest
<1>12. Honest(Pool)'
  BY <1>5, <1>7, <1>9, <1>11, NoneForeign DEF Honest
<1>13. TurnsBut(Pool) /\ TurnOf(Pool) /\ Pool \notin {flight, pending} /\ ReservedOK'
  BY <1>1, <1>3, <1>9, NoneForeign DEF TurnsBut, TurnOf, ReservedOK
<1> QED BY <1>1, <1>7, <1>8, <1>10, <1>11, <1>12, <1>13, GoesOn

-----------------------------------------------------------------------------
(* The types that IInv leaves open *)

Plain ==
  /\ state \in {"unloaded", "starting", "ready", "stopping", "faulted"}
  /\ record \in BOOLEAN /\ deleted \in BOOLEAN /\ evictions \in 0..MaxEvictions

LEMMA AdmitPlain ==
  ASSUME Plain, NEW c \in Caller, Admit(c), evictions' = evictions PROVE Plain'
<1>1. CASE UNCHANGED <<state, generation, flight, hostVars>>
  BY <1>1 DEF Plain, hostVars
<1>2. CASE Begin(c)
  BY <1>2 DEF Plain, hostVars, Begin, Activate, Release
<1> QED BY <1>1, <1>2 DEF Admit

LEMMA WorkPlain == ASSUME Plain, NEW c \in Actor, Work(c) PROVE Plain'
<1>1. ASSUME evictions' = evictions,
             \/ UNCHANGED <<state, generation, hostVars>> \/ Activate(c)
             \/ \E mode \in {"close", "discard"} : Release(c, mode)
      PROVE  Plain'
  BY <1>1 DEF Plain, hostVars, Activate, Release
<1>2. CASE CheckExists(c) \/ Validate(c) \/ ActivationFails(c) \/ Reactivate(c) \/ EndFlight(c)
           \/ Drain(c)
  BY <1>1, <1>2 DEF CheckExists, Validate, ActivationFails, Reactivate, EndFlight, Drain,
                    sessionVars
<1>3. CASE Materialize(c) \/ Resume(c) \/ Pause(c) \/ CloseApp(c)
  BY <1>3 DEF Plain, Materialize, Resume, Pause, CloseApp, sessionVars, hostVars
<1>4. CASE Released(c)
  BY <1>4 DEF Plain, Released, AfterRelease, hostVars
<1> QED BY <1>2, <1>3, <1>4 DEF Work

LEMMA NextPlain == Plain /\ [Next]_vars => Plain'
<1> SUFFICES ASSUME Plain, [Next]_vars PROVE Plain'
  OBVIOUS
<1>1. CASE \E c \in Actor : Work(c)
  BY <1>1, WorkPlain
<1>2. ASSUME NEW c \in Caller, UNCHANGED <<sessionVars, record, apps>>, deleted' \in BOOLEAN,
             evictions' = evictions
      PROVE  Plain'
  BY <1>2 DEF Plain, sessionVars
<1>3. CASE \E c \in Caller : React(c) \/ ValidateJoined(c)
  BY <1>2, <1>3, AdmitPlain DEF React, ValidateJoined, hostVars, Plain
<1>4. CASE \E c \in Caller : Request(c) \/ Enter(c) \/ EnterClose(c) \/ EnterDelete(c)
  BY <1>2, <1>4, AdmitPlain DEF Request, Enter, EnterClose, EnterDelete, Refuse, hostVars, Plain
<1>5. CASE \E c \in Caller : Decide(c) \/ SoftDelete(c) \/ DisposeDeleted(c)
  BY <1>2, <1>5, AdmitPlain DEF Decide, SoftDelete, DisposeDeleted, Refuse, hostVars, Plain
<1>6. CASE Evict
  <2>1. MaxEvictions \in Nat /\ evictions < MaxEvictions /\ evictions \in 0..MaxEvictions
    BY <1>6, BoundAssumption DEF Evict, Plain
  <2>2. evictions + 1 \in 0..MaxEvictions
    BY <2>1
  <2> QED BY <1>6, <2>2 DEF Evict, Plain
<1>7. CASE UNCHANGED vars
  BY <1>7 DEF vars, sessionVars, hostVars, Plain
<1> QED BY <1>1, <1>3, <1>4, <1>5, <1>6, <1>7 DEF Next

-----------------------------------------------------------------------------
(* Where a call may be held up *)

\* Whoever waits for a promise is on its list.
WaitersListed == \A d \in Caller : call[d].pc \in Waiting => Enlisted(d)

\* The pool does nothing but evict.
PoolOK == call[Pool].pc \in Rest \cup OwnWork /\ call[Pool].task \in {"ensureReady", "deactivate"}

\* Only these releases wait for the commands in flight to settle.
Ending == {"close", "stop", "restart"}
MayDrain(pc, mode) == pc \in {"pause", "drain"} \/ (pc = "closeApp" /\ mode = "close")
DrainOK == \A c \in Actor : MayDrain(call[c].pc, call[c].mode) => call[c].task \in Ending

\* No deletion overlaps one of them.
Apart == \A c, d \in Caller : ~ AtRest(c) /\ ~ AtRest(d) => ~ Overlaps(call[c].task, call[d].task)

\* Only a deletion is decided on.
DecideOK == \A c \in Actor : At(c, "decide") => call[c].task = "prepare"

Orderly == PoolOK /\ DrainOK /\ DecideOK /\ Apart
LInv == WaitersListed /\ Orderly

LEMMA StillListed ==
  ASSUME WaitersListed, NEW c \in Actor, Only(c),
         \/ /\ ListsKept(c) \/ \E ok \in BOOLEAN : ListsTold(c, ok)
            /\ call'[c].pc \notin Waiting
         \/ \E o \in Actor : ListsJoined(c, o)
  PROVE  WaitersListed'
<1> SUFFICES ASSUME NEW d \in Caller, call'[d].pc \in Waiting PROVE Enlisted(d)'
  BY DEF WaitersListed
<1>1. CASE d = c
  <2>1. PICK o \in Actor : ListsJoined(c, o)
    BY <1>1
  <2>2. Registered(o, c)'
    BY <1>1, <2>1 DEF ListsJoined
  <2> QED BY <1>1, <2>2 DEF Enlisted
<1>2. CASE d # c
  <2>1. call'[d] = call[d]
    BY <1>2 DEF Only, Actor
  <2>2. Enlisted(d)
    BY <2>1 DEF WaitersListed
  <2>3. CASE ListsKept(c)
    BY <1>2, <2>2, <2>3 DEF Enlisted, ListsKept
  <2>4. CASE \E ok \in BOOLEAN : ListsTold(c, ok)
    BY <1>2, <2>2, <2>4 DEF Enlisted, ListsTold
  <2>5. CASE \E o \in Actor : ListsJoined(c, o)
    BY <1>2, <2>2, <2>5 DEF Enlisted, ListsJoined
  <2> QED BY <2>3, <2>4, <2>5
<1> QED BY <1>1, <1>2

\* c is answered with a failure, or is still about what it was asked for.
Inherits(c) ==
  \/ call'[c].task = "ensureReady" /\ call'[c].pc \in Rest
  \/ /\ ~ AtRest(c)
     /\ \/ call'[c].task = call[c].task
        \/ call[c].task = "prepare" /\ call'[c].task = "delete"

LEMMA StillOrderly ==
  ASSUME Orderly, NEW c \in Actor, Only(c), Inherits(c),
         MayDrain(call'[c].pc, call'[c].mode) => call'[c].task \in Ending,
         call'[c].pc = "decide" => call'[c].task = "prepare",
         c = Pool => call'[c].pc \in Rest \cup OwnWork
  PROVE  Orderly'
<1>1. \A d \in Actor : d # c => call'[d] = call[d]
  BY DEF Only
<1>2. PoolOK'
  <2>1. CASE c = Pool
    BY <2>1 DEF Orderly, PoolOK, Inherits
  <2>2. CASE c # Pool
    BY <1>1, <2>2 DEF Orderly, PoolOK, Actor
  <2> QED BY <2>1, <2>2
<1>3. DrainOK' /\ DecideOK'
  BY <1>1 DEF Orderly, DrainOK, DecideOK, At
<1>4. Apart'
  <2> SUFFICES ASSUME NEW d \in Caller, NEW e \in Caller, ~ AtRest(d)', ~ AtRest(e)'
               PROVE  ~ Overlaps(call'[d].task, call'[e].task)
    BY DEF Apart
  <2>1. d \in Actor /\ e \in Actor
    BY DEF Actor
  <2>2. ASSUME NEW x \in Caller, ~ AtRest(x)'
        PROVE  /\ ~ AtRest(x)
               /\ \/ call'[x].task = call[x].task
                  \/ call[x].task = "prepare" /\ call'[x].task = "delete"
    <3>1. CASE x = c
      BY <2>2, <3>1 DEF Inherits, AtRest
    <3>2. CASE x # c
      BY <1>1, <2>2, <3>2 DEF AtRest, Actor
    <3> QED BY <3>1, <3>2
  <2>3. ~ Overlaps(call[d].task, call[e].task)
    BY <2>2 DEF Orderly, Apart
  <2> QED BY <2>2, <2>3 DEF Overlaps
<1> QED BY <1>2, <1>3, <1>4 DEF Orderly

-----------------------------------------------------------------------------
(* The steps *)

LEMMA GotoMode ==
  ASSUME CallOK, NEW c \in Actor, NEW pc \in Place, Goto(c, pc) PROVE call'[c].mode = call[c].mode
BY DEF CallOK, CallRecord, Goto

LEMMA GotoLive ==
  ASSUME IInv, AInv, LInv, NEW c \in Actor, Runs(c), ~ AtRest(c), NEW pc \in Place, Goto(c, pc),
         pc \notin Waiting, c = Pool => pc \in OwnWork, pc = "decide" => call[c].task = "prepare",
         MayDrain(pc, call[c].mode) => call[c].task \in Ending
  PROVE  LInv'
<1>1. Only(c) /\ call'[c].pc = pc /\ Same(c) /\ call'[c].mode = call[c].mode
  BY GotoEffect, GotoSame, GotoMode DEF IInv
<1>2. ListsKept(c)
  BY ListsOfGoto DEF AInv, Lists, Goto
<1>3. WaitersListed'
  BY <1>1, <1>2, StillListed DEF LInv
<1>4. Inherits(c)
  BY <1>1 DEF Inherits, Same
<1>5. Orderly'
  BY <1>1, <1>4, StillOrderly DEF LInv, Same
<1> QED BY <1>3, <1>5 DEF LInv

LEMMA SettleLive ==
  ASSUME IInv, AInv, LInv, NEW c \in Actor, Runs(c), ~ AtRest(c), NEW ok \in BOOLEAN, Settle(c, ok)
  PROVE  LInv'
<1>1. Only(c)
  BY SettleEffect DEF IInv
<1>2. ListsTold(c, ok)
  BY ListsOfSettle DEF AInv, Lists
<1>3. /\ ok => Same(c) /\ call'[c].pc = IF call[c].task = "prepare" THEN "decide" ELSE "ok"
      /\ ~ ok => call'[c].task = "ensureReady" /\ call'[c].pc = "failed"
  BY SettleRecord DEF IInv
<1>4. call'[c].pc \in {"decide", "ok", "failed"} /\ (call'[c].pc = "decide" => call[c].task = "prepare")
  BY <1>3
<1>5. WaitersListed'
  BY <1>1, <1>2, <1>4, StillListed DEF LInv, Waiting
<1>6. Inherits(c)
  BY <1>3 DEF Inherits, Same, Rest
<1>7. ~ MayDrain(call'[c].pc, call'[c].mode)
  BY <1>4 DEF MayDrain
<1>8. c = Pool => call'[c].pc \in Rest
  BY <1>4 DEF LInv, Orderly, PoolOK, Rest
<1>9. call'[c].pc = "decide" => call'[c].task = "prepare"
  BY <1>3, <1>4 DEF Same
<1>10. Orderly'
  BY <1>1, <1>6, <1>7, <1>8, <1>9, StillOrderly DEF LInv
<1> QED BY <1>5, <1>10 DEF LInv

LEMMA WaitLive ==
  ASSUME IInv, AInv, LInv, NEW c \in Caller, Runs(c), ~ AtRest(c),
         NEW owner \in Actor, NEW pc \in Waiting, WaitFor(c, owner, pc)
  PROVE  LInv'
<1>1. c \in Actor /\ c # Pool
  BY ActorAssumption DEF Actor
<1>2. Only(c) /\ call'[c].pc = pc
  BY <1>1, WaitEffect DEF IInv
<1>3. call'[c].task = call[c].task
  BY <1>1, WaitRecord DEF IInv
<1>4. ListsJoined(c, owner)
  BY ListsOfWait DEF AInv, Lists
<1>5. WaitersListed'
  BY <1>1, <1>2, <1>4, StillListed DEF LInv
<1>6. Inherits(c)
  BY <1>3 DEF Inherits
<1>7. ~ MayDrain(call'[c].pc, call'[c].mode) /\ call'[c].pc # "decide"
  BY <1>2 DEF MayDrain, Waiting
<1>8. Orderly'
  BY <1>1, <1>2, <1>6, <1>7, StillOrderly DEF LInv
<1> QED BY <1>5, <1>8 DEF LInv

LEMMA ReleaseMode ==
  ASSUME CallOK, NEW c \in Actor, NEW mode \in {"close", "delete", "deactivate", "discard"},
         Release(c, mode)
  PROVE  call'[c].mode = mode /\ call'[c].pc = FirstStage(mode)
<1> DEFINE next == [call[c] EXCEPT !.mode = mode, !.pc = FirstStage(mode)]
<1>1. next.mode = mode /\ next.pc = FirstStage(mode)
  BY DEF CallOK, CallRecord
<1>2. call' = [call EXCEPT ![c] = next]
  BY DEF CallOK, CallRecord, Release
<1> QED BY <1>1, <1>2 DEF CallOK

LEMMA ReleaseLive ==
  ASSUME IInv, AInv, LInv, NEW c \in Actor, Runs(c), ~ AtRest(c),
         NEW mode \in {"close", "delete", "deactivate", "discard"}, Release(c, mode),
         mode = "close" => call[c].task \in Ending
  PROVE  LInv'
<1>1. Only(c) /\ Same(c) /\ call'[c].pc \in {"pause", "closeApp", "drain", "released"}
  BY ReleaseRecord DEF IInv
<1>2. call'[c].mode = mode /\ call'[c].pc = FirstStage(mode)
  BY ReleaseMode DEF IInv
<1>3. ListsKept(c)
  BY ListsOfGoto DEF AInv, Lists, Release
<1>4. call'[c].pc \notin Waiting /\ call'[c].pc \in OwnWork /\ call'[c].pc # "decide"
  BY <1>1 DEF Waiting, OwnWork, Working
<1>5. WaitersListed'
  BY <1>1, <1>3, <1>4, StillListed DEF LInv
<1>6. Inherits(c)
  BY <1>1 DEF Inherits, Same
<1>7. MayDrain(call'[c].pc, call'[c].mode) => mode = "close"
  BY <1>2 DEF MayDrain, FirstStage
<1>8. Orderly'
  BY <1>1, <1>4, <1>6, <1>7, StillOrderly DEF LInv, Same
<1> QED BY <1>5, <1>8 DEF LInv

LEMMA ActivateLive ==
  ASSUME IInv, AInv, LInv, NEW c \in Actor, Runs(c), ~ AtRest(c), Activate(c) PROVE LInv'
<1>1. "activate" \in Place /\ "activate" \in OwnWork /\ "activate" \notin Waiting
  BY DEF Place, OwnWork, Working, Waiting
<1>2. ~ MayDrain("activate", call[c].mode)
  BY DEF MayDrain
<1> QED BY <1>1, <1>2, GotoLive DEF Activate

\* The entry of c is overwritten and the queues stay.
LEMMA AloneLive ==
  ASSUME IInv, AInv, LInv, NEW c \in Actor, call[c].pc \notin Waiting, Only(c), Inherits(c),
         UNCHANGED queueVars, call'[c].pc \notin Waiting \cup {"decide"},
         c = Pool => call'[c].pc \in OwnWork,
         MayDrain(call'[c].pc, call'[c].mode) => call'[c].task \in Ending
  PROVE  LInv'
<1>1. ListsKept(c)
  BY ListsOfOther DEF AInv, Lists
<1>2. WaitersListed'
  BY <1>1, StillListed DEF LInv
<1>3. Orderly'
  BY StillOrderly DEF LInv
<1> QED BY <1>2, <1>3 DEF LInv

LEMMA BusyIsNotAtRest ==
  ASSUME NEW c \in Actor, call[c].pc \in Around \cup Waiting \cup Working PROVE ~ AtRest(c)
BY DEF AtRest, Rest, Around, Waiting, Working

LEMMA WorkLive == ASSUME IInv, AInv, LInv, NEW c \in Actor, Work(c) PROVE LInv'
<1> USE DEF At
<1>1. call[c].pc \in OwnWork
  BY DEF Work, CheckExists, Validate, Materialize, Resume, ActivationFails, Pause, CloseApp, Drain,
         Released, Reactivate, EndFlight, OwnWork, Working
<1>2. ~ AtRest(c) /\ Runs(c) /\ Honest(c) /\ call[c].pc \notin Waiting
  BY <1>1, BusyIsNotAtRest, OwnerRuns DEF OwnWork
<1>3. \A pc \in OwnWork : pc \in Place /\ pc \notin Waiting /\ pc # "decide"
  BY DEF Place, Waiting, OwnWork, Working
<1>4. MayDrain(call[c].pc, call[c].mode) => call[c].task \in Ending
  BY DEF LInv, Orderly, DrainOK
\* c goes on with its work: a place where it may be held up follows another.
<1>5. ASSUME NEW pc \in OwnWork, Goto(c, pc),
             MayDrain(pc, call[c].mode) => MayDrain(call[c].pc, call[c].mode)
      PROVE  LInv'
  BY <1>2, <1>3, <1>4, <1>5, GotoLive
<1>6. \A pc, mode : pc \in {"exists", "validate", "resume", "released", "reactivate", "resolve", "reject"}
                    => pc \in OwnWork /\ ~ MayDrain(pc, mode)
  BY DEF OwnWork, Working, MayDrain
<1>7. ASSUME NEW pc \in {"validate", "resume", "released", "reactivate", "resolve", "reject"}, Goto(c, pc)
      PROVE  LInv'
  BY <1>5, <1>6, <1>7
<1>8. CASE CheckExists(c)
  <2>1. CASE call[c].task = "stop" /\ Release(c, "close")
    BY <1>2, <2>1, ReleaseLive DEF Ending
  <2> QED BY <1>7, <1>8, <2>1 DEF CheckExists
<1>9. CASE Validate(c)
  <2>1. CASE call[c].task = "restart" /\ Release(c, "close")
    BY <1>2, <2>1, ReleaseLive DEF Ending
  <2>2. CASE Activate(c)
    BY <1>2, <2>2, ActivateLive
  <2> QED BY <1>7, <1>9, <2>1, <2>2 DEF Validate
<1>10. CASE Materialize(c) \/ Resume(c) \/ Drain(c) \/ Released(c)
  BY <1>7, <1>10 DEF Materialize, Resume, Drain, Released
<1>11. CASE ActivationFails(c)
  BY <1>2, <1>11, ReleaseLive DEF ActivationFails
<1>12. CASE Reactivate(c)
  BY <1>2, <1>12, ActivateLive DEF Reactivate
<1>13. CASE Pause(c)
  <2>1. PICK broken \in BOOLEAN :
          call' = [call EXCEPT ![c].pc = "closeApp", ![c].failed = broken]
    BY <1>13 DEF Pause
  <2> DEFINE next == [call[c] EXCEPT !.pc = "closeApp", !.failed = broken]
  <2>2. "closeApp" \in Place /\ "closeApp" \in OwnWork
    BY DEF Place, OwnWork, Working
  <2>3. next \in CallRecord /\ next.pc = "closeApp" /\ next.task = call[c].task
    BY <2>2 DEF IInv, CallOK, CallRecord
  <2>4. call' = [call EXCEPT ![c] = next]
    BY <2>1 DEF IInv, CallOK, CallRecord
  <2> HIDE DEF next
  <2>5. Only(c) /\ call'[c] = next
    BY <2>3, <2>4 DEF IInv, CallOK, Only
  <2>6. Inherits(c)
    BY <1>2, <2>3, <2>5 DEF Inherits
  <2>7. call[c].task \in Ending
    BY <1>4, <1>13 DEF Pause, MayDrain
  <2>8. UNCHANGED queueVars
    BY <1>13 DEF Pause
  <2> QED BY <1>2, <1>3, <2>2, <2>3, <2>5, <2>6, <2>7, <2>8, AloneLive
<1>14. CASE CloseApp(c)
  <2>1. CASE Goto(c, IF call[c].mode = "close" THEN "drain" ELSE "released")
    <3>1. CASE call[c].mode = "close"
      <4>1. Goto(c, "drain") /\ "drain" \in OwnWork
        BY <2>1, <3>1 DEF OwnWork, Working
      <4>2. MayDrain(call[c].pc, call[c].mode)
        BY <1>14, <3>1 DEF CloseApp, MayDrain
      <4> QED BY <1>5, <4>1, <4>2
    <3>2. CASE call[c].mode # "close"
      BY <1>7, <2>1, <3>2
    <3> QED BY <3>1, <3>2
  <2>2. CASE call' = [call EXCEPT ![c].pc = "released", ![c].failed = TRUE] /\ UNCHANGED queueVars
    <3> DEFINE next == [call[c] EXCEPT !.pc = "released", !.failed = TRUE]
    <3>1. "released" \in Place /\ "released" \in OwnWork
      BY DEF Place, OwnWork, Working
    <3>2. next \in CallRecord /\ next.pc = "released" /\ next.task = call[c].task
      BY <3>1 DEF IInv, CallOK, CallRecord
    <3>3. call' = [call EXCEPT ![c] = next]
      BY <2>2 DEF IInv, CallOK, CallRecord
    <3> HIDE DEF next
    <3>4. Only(c) /\ call'[c] = next
      BY <3>2, <3>3 DEF IInv, CallOK, Only
    <3>5. Inherits(c)
      BY <1>2, <3>2, <3>4 DEF Inherits
    <3>6. ~ MayDrain(call'[c].pc, call'[c].mode)
      BY <3>2, <3>4 DEF MayDrain
    <3> QED BY <1>2, <1>3, <2>2, <3>1, <3>2, <3>4, <3>5, <3>6, AloneLive
  <2> QED BY <1>14, <2>1, <2>2 DEF CloseApp
<1>15. CASE EndFlight(c)
  <2>1. PICK ok \in BOOLEAN : Settle(c, ok)
    BY <1>15 DEF EndFlight
  <2> QED BY <1>2, <2>1, SettleLive
<1> QED BY <1>8, <1>9, <1>10, <1>11, <1>12, <1>13, <1>14, <1>15 DEF Work

LEMMA BeginLive ==
  ASSUME IInv, AInv, LInv, NEW c \in Actor, Runs(c), ~ AtRest(c), Begin(c) PROVE LInv'
<1>1. CASE \E pc \in {"exists", "validate", "resolve"} : Goto(c, pc)
  <2>1. PICK pc \in {"exists", "validate", "resolve"} : Goto(c, pc)
    BY <1>1
  <2>2. pc \in Place /\ pc \in OwnWork /\ pc \notin Waiting /\ ~ MayDrain(pc, call[c].mode)
    BY DEF Place, OwnWork, Working, Waiting, MayDrain
  <2> QED BY <2>1, <2>2, GotoLive
<1>2. CASE Activate(c)
  BY <1>2, ActivateLive
<1>3. CASE call[c].task \in Dispose /\ Release(c, Mode(call[c].task))
  <2>1. Mode(call[c].task) = "close" => call[c].task \in Ending
    BY <1>3 DEF Mode, Dispose, Ending
  <2> QED BY <1>3, <2>1, ModeType, ReleaseLive
<1> QED BY <1>1, <1>2, <1>3 DEF Begin

LEMMA AdmitLive ==
  ASSUME IInv, AInv, LInv, NEW c \in Caller, Runs(c), ~ AtRest(c), Admit(c) PROVE LInv'
<1>1. c \in Actor /\ pending \in Caller \cup {None} /\ flight \in Actor \cup {None}
  BY DEF IInv, CallOK, Actor
<1>2. ASSUME NEW o \in {flight, pending} \ {None}, NEW pc \in Waiting, WaitFor(c, o, pc) PROVE LInv'
  <2>1. o \in Actor
    BY <1>1 DEF Actor
  <2> QED BY <1>2, <2>1, WaitLive
<1>3. \A d : Join(c, d) \in Waiting
  BY DEF Join, Waiting
<1>4. CASE Settle(c, FALSE)
  BY <1>1, <1>4, SettleLive
<1>5. CASE SharesReserved(c) /\ WaitFor(c, pending, Join(c, pending))
  BY <1>2, <1>3, <1>5 DEF SharesReserved
<1>6. CASE AfterStop(c) /\ WaitFor(c, flight, "afterStop")
  BY <1>2, <1>6 DEF AfterStop, Running, Waiting
<1>7. CASE Reserves(c) /\ WaitFor(c, flight, "reserved")
  BY <1>2, <1>7 DEF Reserves, Running, Waiting
<1>8. CASE Shares(c) /\ WaitFor(c, flight, Join(c, flight))
  BY <1>2, <1>3, <1>8 DEF Shares, Running
<1>9. CASE Begin(c)
  BY <1>1, <1>9, BeginLive
<1> QED BY <1>4, <1>5, <1>6, <1>7, <1>8, <1>9 DEF Admit

LEMMA ReactLive == ASSUME IInv, AInv, LInv, NEW c \in Caller, React(c) PROVE LInv'
<1>1. c \in Actor /\ Runs(c) /\ c # Pool
  BY ActorAssumption DEF React, Runs, Actor
<1>2. ~ AtRest(c)
  BY DEF React, At, AtRest, Rest
<1>3. ASSUME NEW ok, Settle(c, ok), ok = FALSE \/ ok = TRUE PROVE LInv'
  BY <1>1, <1>2, <1>3, SettleLive
<1>4. Head(woken).ok \in BOOLEAN
  <2>1. woken # <<>> /\ woken \in Seq(Entry) /\ EachOnce(woken)
    BY DEF React, Reacts, AInv, QueuesOK
  <2>2. Head(woken) \in Entry
    BY <2>1, InTail
  <2> QED BY <2>2 DEF Entry
<1>5. CASE Goto(c, "validateJoined")
  <2>1. "validateJoined" \in Place /\ "validateJoined" \notin Waiting
    BY DEF Place, Working, Waiting
  <2>2. ~ MayDrain("validateJoined", call[c].mode)
    BY DEF MayDrain
  <2> QED BY <1>1, <1>2, <1>5, <2>1, <2>2, GotoLive
<1>6. CASE Admit(c)
  BY <1>1, <1>2, <1>6, AdmitLive
<1> QED BY <1>3, <1>4, <1>5, <1>6 DEF React

\* A request comes in only where it overlaps no deletion that it should not.
LEMMA RequestLive == ASSUME ~ DeleteInClose, IInv, AInv, LInv, NEW c \in Caller, Request(c) PROVE LInv'
<1>1. call[c].pc = "idle" /\ UNCHANGED queueVars /\ call[c].pc \notin Waiting
  BY DEF Request, At, Waiting
<1>2. c \in Actor /\ c # Pool
  BY ActorAssumption DEF Actor
<1>3. PICK r \in Requests :
        /\ \A d \in Caller : ~ AtRest(d) =>
             ~ Overlaps(r.task, call[d].task) /\ ~ Overlaps(call[d].task, r.task)
        /\ call' = [call EXCEPT ![c] =
             [NoCall EXCEPT !.task = r.task, !.workspace = r.workspace, !.pc = "lease",
                            !.found = IF r.task = "restart" THEN generation ELSE 0]]
  BY DEF Request
<1> DEFINE next == [NoCall EXCEPT !.task = r.task, !.workspace = r.workspace, !.pc = "lease",
                                  !.found = IF r.task = "restart" THEN generation ELSE 0]
<1>4. r.task \in Task /\ r.workspace \in Workspace \cup {None}
  BY DEF Requests, Task, Starting, Dispose
<1>5. "lease" \in Place /\ "lease" \notin Waiting
  BY DEF Place, Around, Waiting
<1>6. generation \in Nat
  BY DEF IInv, CallOK
<1>7. next \in CallRecord /\ next.pc = "lease" /\ next.task = r.task
  BY <1>4, <1>5, <1>6 DEF CallRecord, NoCall
<1> HIDE DEF next
<1>8. Only(c) /\ call'[c] = next
  BY <1>2, <1>3, <1>7 DEF IInv, CallOK, Only, next
<1>9. ListsKept(c)
  BY <1>1, <1>2, ListsOfOther DEF AInv, Lists
<1>10. WaitersListed'
  BY <1>2, <1>5, <1>7, <1>8, <1>9, StillListed DEF LInv
<1>11. \A d \in Actor : d # c => call'[d] = call[d]
  BY <1>8 DEF Only
<1>12. PoolOK'
  BY <1>2, <1>11 DEF LInv, Orderly, PoolOK, Actor
<1>13. DrainOK' /\ DecideOK'
  <2>1. ~ MayDrain(call'[c].pc, call'[c].mode) /\ call'[c].pc # "decide"
    BY <1>7, <1>8 DEF MayDrain
  <2> QED BY <1>11, <2>1 DEF LInv, Orderly, DrainOK, DecideOK, At
<1>14. Apart'
  <2> SUFFICES ASSUME NEW d \in Caller, NEW e \in Caller, ~ AtRest(d)', ~ AtRest(e)'
               PROVE  ~ Overlaps(call'[d].task, call'[e].task)
    BY DEF Apart
  <2>1. ASSUME NEW x \in Caller, x # c, ~ AtRest(x)' PROVE call'[x] = call[x] /\ ~ AtRest(x)
    BY <1>11, <2>1 DEF AtRest, Actor
  <2>2. CASE d # c /\ e # c
    BY <2>1, <2>2 DEF LInv, Orderly, Apart
  <2>3. CASE d = c /\ e # c
    BY <1>3, <1>7, <1>8, <2>1, <2>3
  <2>4. CASE d # c /\ e = c
    BY <1>3, <1>7, <1>8, <2>1, <2>4
  <2>5. CASE d = c /\ e = c
    BY <2>5 DEF Overlaps
  <2> QED BY <2>2, <2>3, <2>4, <2>5
<1> QED BY <1>10, <1>12, <1>13, <1>14 DEF LInv, Orderly

LEMMA AroundLive ==
  ASSUME IInv, AInv, LInv, NEW c \in Caller,
         \/ ValidateJoined(c) \/ Enter(c) \/ EnterClose(c) \/ EnterDelete(c)
         \/ Decide(c) \/ SoftDelete(c) \/ DisposeDeleted(c)
  PROVE  LInv'
<1> USE DEF At
<1>1. c \in Actor /\ c # Pool /\ call[c].pc \notin Waiting /\ ~ AtRest(c) /\ Runs(c)
  <2>1. call[c].pc \in Around \cup {"validateJoined"}
    BY DEF ValidateJoined, Enter, EnterClose, EnterDelete, Decide, SoftDelete, DisposeDeleted,
           Leased, Around
  <2>2. call[c].pc \notin Waiting /\ c \in Actor /\ ~ AtRest(c)
    BY <2>1 DEF Around, Waiting, Actor, AtRest, Rest
  <2> QED BY <2>2, ActorAssumption DEF Runs
<1>2. CASE Admit(c)
  BY <1>1, <1>2, AdmitLive
<1>3. CASE \E ok \in BOOLEAN : Settle(c, ok)
  BY <1>1, <1>3, SettleLive
<1>4. CASE (call[c].task = "prepare" /\ Goto(c, "decide")) \/ Goto(c, "softDeleted")
  <2>1. \A pc \in {"decide", "softDeleted"} :
          pc \in Place /\ pc \notin Waiting /\ ~ MayDrain(pc, call[c].mode)
    BY DEF Place, Around, Waiting, MayDrain
  <2> QED BY <1>1, <1>4, <2>1, GotoLive
<1>5. CASE /\ call[c].task = "prepare" /\ UNCHANGED queueVars
           /\ call' = [call EXCEPT ![c].pc = "execute", ![c].task = "delete"]
  <2> DEFINE next == [call[c] EXCEPT !.pc = "execute", !.task = "delete"]
  <2>1. "execute" \in Place /\ "execute" \notin Waiting /\ "delete" \in Task
    BY DEF Place, Around, Waiting, Task, Dispose
  <2>2. next \in CallRecord /\ next.pc = "execute" /\ next.task = "delete"
    BY <1>1, <2>1 DEF IInv, CallOK, CallRecord
  <2>3. call' = [call EXCEPT ![c] = next]
    BY <1>1, <1>5 DEF IInv, CallOK, CallRecord
  <2> HIDE DEF next
  <2>4. Only(c) /\ call'[c] = next
    BY <1>1, <2>2, <2>3 DEF IInv, CallOK, Only
  <2>5. Inherits(c)
    BY <1>1, <1>5, <2>2, <2>4 DEF Inherits
  <2>6. ~ MayDrain(call'[c].pc, call'[c].mode)
    BY <2>2, <2>4 DEF MayDrain
  <2> QED BY <1>1, <1>5, <2>1, <2>2, <2>4, <2>5, <2>6, AloneLive
<1>6. CASE ValidateJoined(c)
  <2>1. Valid(c) \in BOOLEAN
    BY DEF Valid
  <2> QED BY <1>3, <1>6, <2>1 DEF ValidateJoined
<1>7. CASE Enter(c) \/ EnterClose(c) \/ EnterDelete(c)
  BY <1>2, <1>3, <1>4, <1>7 DEF Enter, EnterClose, EnterDelete, Refuse
<1>8. CASE Decide(c)
  <2>1. call[c].task = "prepare"
    BY <1>1, <1>8 DEF Decide, LInv, Orderly, DecideOK
  <2> QED BY <1>3, <1>5, <1>8, <2>1 DEF Decide, Refuse
<1>9. CASE SoftDelete(c) \/ DisposeDeleted(c)
  BY <1>2, <1>3, <1>4, <1>9 DEF SoftDelete, DisposeDeleted, Refuse
<1> QED BY <1>6, <1>7, <1>8, <1>9

\* The pool evicts only when nobody is under way.
LEMMA EvictLive == ASSUME IInv, AInv, LInv, Evict PROVE LInv'
<1>1. Pool \in Actor /\ Pool \notin Caller
  BY ActorAssumption DEF Actor
<1>2. \A d \in Actor : AtRest(d) /\ call[d].pc \notin Waiting
  BY DEF Evict, AtRest, Rest, Waiting
<1> DEFINE next == [call[Pool] EXCEPT !.task = "deactivate", !.mode = "deactivate",
                                      !.pc = "closeApp", !.failed = FALSE]
<1>3. "closeApp" \in Place /\ "closeApp" \in OwnWork /\ "closeApp" \notin Waiting /\ "deactivate" \in Task
  BY DEF Place, OwnWork, Working, Waiting, Task, Dispose
<1>4. /\ next \in CallRecord /\ next.pc = "closeApp" /\ next.task = "deactivate"
      /\ next.mode = "deactivate"
  BY <1>1, <1>3 DEF IInv, CallOK, CallRecord
<1>5. call' = [call EXCEPT ![Pool] = next]
  BY DEF Evict
<1> HIDE DEF next
<1>6. Only(Pool) /\ call'[Pool] = next
  BY <1>1, <1>4, <1>5 DEF IInv, CallOK, Only
<1>7. ListsKept(Pool)
  BY <1>1, <1>2, ListsOfOther DEF AInv, Lists, Evict
<1>8. WaitersListed'
  BY <1>1, <1>3, <1>4, <1>6, <1>7, StillListed DEF LInv
<1>9. \A d \in Actor : d # Pool => call'[d] = call[d]
  BY <1>6 DEF Only
<1>10. PoolOK'
  BY <1>3, <1>4, <1>6 DEF PoolOK
<1>11. DrainOK' /\ DecideOK'
  <2>1. ~ MayDrain(call'[Pool].pc, call'[Pool].mode) /\ call'[Pool].pc # "decide"
    BY <1>4, <1>6 DEF MayDrain
  <2> QED BY <1>9, <2>1 DEF LInv, Orderly, DrainOK, DecideOK, At
<1>12. Apart'
  <2>1. \A d \in Caller : AtRest(d)'
    BY <1>1, <1>2, <1>9 DEF AtRest, Actor
  <2> QED BY <2>1 DEF Apart
<1> QED BY <1>8, <1>10, <1>11, <1>12 DEF LInv, Orderly

LEMMA InitLive == Init => LInv
<1> SUFFICES ASSUME Init PROVE LInv
  OBVIOUS
<1>1. \A c \in Actor : call[c].pc = "idle" /\ call[c].task = "ensureReady"
  BY DEF Init, NoCall
<1>2. WaitersListed
  BY <1>1 DEF WaitersListed, Actor, Waiting
<1>3. PoolOK
  BY <1>1 DEF PoolOK, Actor, Rest
<1>4. DrainOK /\ DecideOK
  BY <1>1 DEF DrainOK, DecideOK, MayDrain, At
<1>5. Apart
  BY <1>1 DEF Apart, AtRest, Rest, Actor
<1> QED BY <1>2, <1>3, <1>4, <1>5 DEF LInv, Orderly

LEMMA NextLive == ASSUME ~ DeleteInClose PROVE IInv /\ AInv /\ LInv /\ [Next]_vars => LInv'
<1> SUFFICES ASSUME IInv, AInv, LInv, [Next]_vars PROVE LInv'
  OBVIOUS
<1>1. CASE \E c \in Actor : Work(c)
  BY <1>1, WorkLive
<1>2. CASE \E c \in Caller : React(c) \/ Request(c)
  BY <1>2, ReactLive, RequestLive
<1>3. CASE \E c \in Caller : \/ ValidateJoined(c) \/ Enter(c) \/ EnterClose(c) \/ EnterDelete(c)
                             \/ Decide(c) \/ SoftDelete(c) \/ DisposeDeleted(c)
  BY <1>3, AroundLive
<1>4. CASE Evict
  BY <1>4, EvictLive
<1>5. CASE UNCHANGED vars
  <2>1. call' = call /\ reactions' = reactions /\ woken' = woken
    BY <1>5 DEF vars, queueVars
  <2>2. WaitersListed'
    BY <2>1 DEF LInv, WaitersListed, Enlisted, Registered, Told, In
  <2>3. Orderly'
    BY <2>1 DEF LInv, Orderly, PoolOK, DrainOK, DecideOK, Apart, At, AtRest
  <2> QED BY <2>2, <2>3 DEF LInv
<1> QED BY <1>1, <1>2, <1>3, <1>4, <1>5 DEF Next

-----------------------------------------------------------------------------
(* Somebody may go on *)

\* The owner of the flight is held up by nobody.
LEMMA OwnerMayGoOn ==
  ASSUME IInv, LInv, woken = <<>>, flight # None PROVE \E c \in Actor : MayGoOn(c)
<1> DEFINE o == flight
<1>1. o \in Actor /\ call[o].pc \in OwnWork
  BY DEF IInv, CallOK, OwnerWorks
<1>2. CASE call[o].pc \in {"resolve", "reject"}
  BY <1>1, <1>2 DEF MayGoOn
<1>3. CASE call[o].pc \notin {"resolve", "reject"}
  <2>1. Quiet
    <3> SUFFICES ASSUME NEW d \in Actor, call[d].pc \in {"resolve", "reject"} PROVE FALSE
      BY DEF Quiet
    <3>1. call[d].pc \in OwnWork
      BY DEF OwnWork, Working
    <3>2. d = o
      BY <3>1 DEF IInv, OwnerWorks
    <3> QED BY <1>3, <3>2
  <2>2. CASE call[o].pc # "drain"
    BY <1>1, <1>3, <2>1, <2>2 DEF MayGoOn, OwnWork, Working, Around
  <2>3. CASE call[o].pc = "drain"
    <3>1. call[o].task \in Ending
      BY <1>1, <2>3 DEF LInv, Orderly, DrainOK, MayDrain
    <3>2. o \in Caller /\ ~ AtRest(o)
      BY <1>1, <2>3, <3>1 DEF LInv, Orderly, PoolOK, Ending, Actor, AtRest, Rest
    <3>3. ASSUME NEW d \in Caller, InFlight(d) PROVE FALSE
      <4>1. call[d].task = "delete" /\ ~ AtRest(d)
        BY <3>3 DEF InFlight
      <4>2. ~ Overlaps(call[d].task, call[o].task)
        BY <3>2, <4>1 DEF LInv, Orderly, Apart
      <4> QED BY <3>1, <4>1, <4>2 DEF Overlaps, Ending
    <3> QED BY <1>1, <2>1, <2>3, <3>3 DEF MayGoOn, Drained, At
  <2> QED BY <2>2, <2>3
<1> QED BY <1>2, <1>3

\* Who waits without having been told waits for the owner, or for a reserved
\* restart, which itself waits for the owner.
LEMMA WaitsForOwner ==
  ASSUME IInv, AInv, LInv, woken = <<>>, NEW d \in Caller, call[d].pc \in Waiting
  PROVE  flight # None
<1>1. ASSUME NEW e \in Caller, call[e].pc \in Waiting
      PROVE  \E o \in Actor : o \in {flight, pending} /\ o # e
  <2>1. \A b \in BOOLEAN : ~ Told(e, b)
    BY DEF Told, In
  <2>2. PICK o \in Actor : Registered(o, e)
    BY <1>1, <2>1 DEF LInv, WaitersListed, Enlisted
  <2> QED BY <1>1, <2>2 DEF AInv, SharedOK, Shared
<1> SUFFICES ASSUME flight = None PROVE FALSE
  OBVIOUS
<1>2. None \notin Actor
  BY NoneForeign
<1>3. pending \in Actor
  BY <1>1, <1>2
<1>4. pending \in Caller /\ call[pending].pc = "reserved"
  BY <1>2, <1>3 DEF IInv, CallOK, AInv, ReservedOK
<1>5. \E o \in Actor : o \in {flight, pending} /\ o # pending
  BY <1>1, <1>4 DEF Waiting
<1> QED BY <1>2, <1>5

LEMMA SomebodyMayGoOn == ASSUME IInv, AInv, LInv PROVE NobodyStuck
<1> SUFFICES ASSUME NEW a \in Actor, ~ AtRest(a) PROVE \E c \in Actor : MayGoOn(c)
  BY DEF NobodyStuck
<1>1. CASE woken # <<>>
  <2>1. Head(woken) \in Entry
    BY <1>1, InTail DEF AInv, QueuesOK
  <2>2. Head(woken).who \in Actor
    BY <2>1 DEF Entry, Actor
  <2> QED BY <1>1, <2>2 DEF MayGoOn, Reacts
<1>2. CASE woken = <<>> /\ flight # None
  BY <1>2, OwnerMayGoOn
<1>3. CASE woken = <<>> /\ flight = None
  <2>1. \A d \in Actor : call[d].pc \notin OwnWork
    BY <1>3, NoneForeign DEF IInv, OwnerWorks
  <2>2. Quiet
    BY <1>3, <2>1 DEF Quiet, OwnWork, Working
  <2>3. AtRest(Pool)
    BY <2>1 DEF LInv, Orderly, PoolOK, AtRest, Actor
  <2>4. \A d \in Caller : call[d].pc \notin Waiting
    BY <1>3, WaitsForOwner
  <2>5. ASSUME NEW d \in Caller, ~ AtRest(d), ~ At(d, "lease") PROVE MayGoOn(d)
    <3>1. call[d].pc \in Place /\ call[d].pc \notin Rest /\ call[d].pc # "lease"
          /\ call[d].pc \notin Waiting /\ call[d].pc \notin OwnWork
      BY <2>1, <2>4, <2>5 DEF IInv, CallOK, CallRecord, Actor, AtRest, At
    <3>2. call[d].pc \in {"validateJoined", "decide", "execute", "softDeleted"}
      BY <3>1 DEF Place, OwnWork, Working, Around
    <3> QED BY <2>2, <3>2 DEF MayGoOn, Around, Working
  <2>6. a \in Caller
    BY <2>3 DEF Actor
  <2>7. CASE ~ At(a, "lease")
    BY <2>5, <2>6, <2>7
  <2>8. CASE At(a, "lease") /\ OnlyDelete(a)
    BY <2>2, <2>3, <2>8 DEF MayGoOn, Leased
  <2>9. CASE ~ OnlyDelete(a)
    <3>1. PICK d \in Caller : ~ AtRest(d) /\ ~ At(d, "lease")
      BY <2>9 DEF OnlyDelete
    <3> QED BY <2>5, <3>1 DEF Actor
  <2> QED BY <2>7, <2>8, <2>9
<1> QED BY <1>1, <1>2, <1>3

-----------------------------------------------------------------------------
(* The theorems *)

LEMMA InitAnswers == Init => AInv /\ Plain
<1> SUFFICES ASSUME Init PROVE AInv /\ Plain
  OBVIOUS
<1>1. \A c \in Actor : call[c] = NoCall /\ reactions[c] = <<>>
  BY DEF Init
<1>2. \A e : ~ In(<<>>, e)
  BY DEF In
<1>3. woken = <<>> /\ pending = None /\ reactions = [c \in Actor |-> <<>>]
  BY DEF Init
<1>4. QueuesOK
  BY <1>3 DEF QueuesOK, Distinct, EachOnce
<1>5. (\A o \in Actor : \A d : ~ Registered(o, d)) /\ \A d, ok : ~ Told(d, ok)
  BY <1>1, <1>2, <1>3 DEF Registered, Told
<1>6. Once /\ OnlyWaiting /\ SharedOK /\ KeptOK /\ ReservedOK
  BY <1>3, <1>5 DEF Once, OnlyWaiting, Enlisted, SharedOK, KeptOK, ReservedOK
<1>7. AllHonest
  <2>1. "idle" \notin OwnWork
    BY DEF OwnWork, Working
  <2>2. ~ Stops("ensureReady")
    BY DEF Stops, Operation, Starting
  <2> QED BY <1>1, <2>1, <2>2 DEF AllHonest, Honest, NoCall
<1>8. Plain
  <2>1. MaxEvictions \in Nat
    BY BoundAssumption
  <2>2. evictions \in 0..MaxEvictions
    BY <2>1 DEF Init
  <2> QED BY <2>2 DEF Init, Plain
<1> QED BY <1>4, <1>6, <1>7, <1>8 DEF AInv

LEMMA Unchanged == ASSUME AInv, UNCHANGED vars PROVE AInv'
<1>1. /\ call' = call /\ reactions' = reactions /\ woken' = woken /\ flight' = flight
      /\ pending' = pending /\ generation' = generation /\ deleted' = deleted
      /\ state' = state /\ record' = record /\ apps' = apps
  BY DEF vars, sessionVars, hostVars, queueVars
<1>2. (QueuesOK /\ Once /\ OnlyWaiting)'
  BY <1>1 DEF AInv, QueuesOK, Once, OnlyWaiting, Enlisted, Registered, Told, Distinct, EachOnce, In
<1>3. (AllHonest /\ ReservedOK)'
  BY <1>1 DEF AInv, AllHonest, ReservedOK, Honest, Fresh, Gone, Down
<1>4. (SharedOK /\ KeptOK)'
  BY <1>1 DEF AInv, SharedOK, KeptOK, Shared, Kept, Registered, Told, In, Fresh, Gone
<1> QED BY <1>2, <1>3, <1>4 DEF AInv

LEMMA NextAnswers == IInv /\ AInv /\ [Next]_vars => AInv'
<1> SUFFICES ASSUME IInv, AInv, [Next]_vars PROVE AInv'
  OBVIOUS
<1>1. CASE \E c \in Actor : Work(c)
  BY <1>1, WorkAnswers
<1>2. CASE \E c \in Caller : React(c) \/ ValidateJoined(c) \/ Request(c) \/ Decide(c)
  BY <1>2, ReactAnswers, ValidateJoinedAnswers, RequestAnswers, DecideAnswers
<1>3. CASE \E c \in Caller : Enter(c) \/ EnterClose(c) \/ EnterDelete(c)
                             \/ SoftDelete(c) \/ DisposeDeleted(c)
  BY <1>3, AroundAnswers
<1>4. CASE Evict
  BY <1>4, EvictAnswers
<1>5. CASE UNCHANGED vars
  BY <1>5, Unchanged
<1> QED BY <1>1, <1>2, <1>3, <1>4, <1>5 DEF Next

\* Whoever waits for a promise of controller.ts is registered with it once,
\* and what the owner of that promise has checked, started afresh or taken
\* down by the time it keeps it is what those who share it need: the inductive
\* invariant behind the three theorems below, with IInv.
THEOREM AnswersHold == Spec => [](IInv /\ AInv)
<1>1. Init => IInv /\ AInv
  BY InitSafe, InitAnswers
<1>2. (IInv /\ AInv) /\ [Next]_vars => (IInv /\ AInv)'
  BY NextSafe, NextAnswers
<1> QED BY <1>1, <1>2, PTL DEF Spec

\* Every variable keeps its type, whatever is admitted, shared, evicted or
\* deleted.
THEOREM TypeCorrect == Spec => []TypeOK
<1>1. Spec => []Plain
  BY InitAnswers, NextPlain, PTL DEF Spec
<1>2. Plain /\ IInv /\ AInv => TypeOK
  <2> SUFFICES ASSUME Plain, IInv, AInv PROVE TypeOK
    OBVIOUS
  <2>1. apps \in Nat
    <3>1. CASE flight = None
      BY <3>1 DEF IInv, InstanceOK, Down, Up, Quarantined
    <3>2. CASE flight # None
      <4>1. flight \in Actor /\ call[flight].pc \in OwnWork
            /\ Stage(call[flight].pc, call[flight].failed)
        BY <3>2 DEF IInv, CallOK, OwnerWorks, InstanceOK
      <4> QED BY <4>1 DEF Stage, Down, Up, Quarantined, OwnWork, Working
    <3> QED BY <3>1, <3>2
  <2> QED BY <2>1 DEF Plain, IInv, CallOK, CallRecord, Place, AInv, QueuesOK, Entry, TypeOK
<1> QED BY <1>1, <1>2, AnswersHold, PTL

\* A call that names a workspace the session does not belong to is never told
\* that it succeeded: neither by its own validation nor by the promise it
\* shares (validateSessionActivationWorkspace and the shared operations of
\* controller.ts).
THEOREM NoForeignSuccessHolds == Spec => []NoForeignSuccess
<1>1. IInv /\ AInv => NoForeignSuccess
  BY DEF AInv, AllHonest, Honest, NoForeignSuccess, At, Actor
<1> QED BY <1>1, AnswersHold, PTL

\* A restart that succeeded was answered by an activation that began after it
\* was asked for, or after the restart whose promise it shares was: never by a
\* start that was under way, however long it stayed reserved behind others.
THEOREM RestartReplacesHolds == Spec => []RestartReplaces
<1>1. IInv /\ AInv => RestartReplaces
  BY DEF AInv, AllHonest, Honest, Fresh, RestartReplaces, At, Actor
<1> QED BY <1>1, AnswersHold, PTL

\* Once a deletion is answered the session has no instance, and nobody builds
\* one: not the start it overlapped, not a call that waited behind its closing.
THEOREM DeletedStaysDownHolds == Spec => []DeletedStaysDown
<1>1. IInv /\ AInv => DeletedStaysDown
  BY DEF AInv, AllHonest, Honest, Gone, DeletedStaysDown, At, Actor
<1> QED BY <1>1, AnswersHold, PTL

\* As long as no deletion overlaps a stop, a restart or a closing, somebody may
\* go on while anybody is under way: whoever waits has been told or waits for
\* the owner of the flight, directly or behind a reserved restart, and the
\* owner is held up by nothing, the drain of resetReleasedSession included.
\* Where a deletion does overlap them this is false (lifecycle_delete).
THEOREM NobodyIsStuck == ASSUME ~ DeleteInClose PROVE Spec => []NobodyStuck
<1>1. Init => IInv /\ AInv /\ LInv
  BY InitSafe, InitAnswers, InitLive
<1>2. (IInv /\ AInv /\ LInv) /\ [Next]_vars => (IInv /\ AInv /\ LInv)'
  BY NextSafe, NextAnswers, NextLive
<1>3. IInv /\ AInv /\ LInv => NobodyStuck
  BY SomebodyMayGoOn
<1> QED BY <1>1, <1>2, <1>3, PTL DEF Spec

=============================================================================
