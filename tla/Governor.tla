------------------------------ MODULE Governor ------------------------------
(***************************************************************************)
(* The concurrency governor of the process for one provider key:           *)
(* bootstrap/src/app/workflow-concurrency-governor.ts, a queue of requests *)
(* for each workflow run, around the ConcurrencyController of              *)
(* dynamic-workflow/src/engine/concurrency.ts, which says how many         *)
(* requests may be in flight.  Successes raise its cap by one, a refusal   *)
(* of the provider cuts it, and the bound of a run moves how far it may    *)
(* grow.  The main agent's requests ("observer") never queue but count.    *)
(*                                                                         *)
(* Time is abstract: whether the idle window has passed since the last     *)
(* admission, whether a refusal lies within it, and whether a Retry-After  *)
(* is running or over.  An epoch only tells the tickets of the present     *)
(* epoch from the older ones, so it is the split of the tickets into two.  *)
(***************************************************************************)
EXTENDS Integers, FiniteSets, Sequences, SequencesExt

CONSTANTS Run, NoRun, Observer,
          DEFAULT,        \* defaultConcurrency: where the cap starts, and restarts
          INCREASE_AFTER, \* CONCURRENCY_INCREASE_AFTER_SUCCESSES
          CEILING,        \* the largest bound the host lets a run have
          RunBound,       \* the bounds runs register in this instance
          Reply,          \* how the requests of this instance may end
          Aborts,         \* whether queued requests are aborted in this instance
          MainAgent,      \* whether the main agent sends requests in this instance
          MaxQueued,      \* bound: queued requests of a run
          MaxInFlight     \* bound: requests in flight when another is sent

ASSUME RunAssumption == IsFiniteSet(Run) /\ NoRun \notin Run /\ Observer \notin Run \cup {NoRun}
ASSUME DefaultAssumption == DEFAULT \in Nat \ {0} /\ INCREASE_AFTER \in Nat \ {0}
ASSUME CeilingAssumption == CEILING \in Nat /\ RunBound \subseteq 1..CEILING
ASSUME InstanceAssumption ==
    /\ Reply \subseteq {"completed", "refused", "refused for a while", "failed", "ended"}
    /\ Aborts \in BOOLEAN /\ MainAgent \in BOOLEAN
ASSUME BoundAssumption == MaxQueued \in Nat /\ MaxInFlight \in Nat

VARIABLES
  ctl,      \* the controller, and the tickets it counts as in flight
  queue,    \* waiters of each run
  order,    \* keys of the map of queues: runs with waiters, as they were inserted
  last,     \* lastGrantedRun
  alarm,    \* the timer that ends a cool-down: "off", "ahead", or "due"
  bound,    \* runBounds, 0 where there is none
  used,     \* bucket.runs
  sent,     \* history: a request went out since the cap was last set (not raised by one)
  through   \* history: the runs whose waiters the latest step let through

vars == <<ctl, queue, order, last, alarm, bound, used, sent, through>>

Larger(m, n) == IF m > n THEN m ELSE n
Smaller(m, n) == IF m < n THEN m ELSE n
FLOOR == 1
BaseLimit == 2 * DEFAULT

Init ==
  /\ ctl = [cap |-> DEFAULT, limit |-> BaseLimit, streak |-> 0, good |-> 0,
            cooldown |-> "none", refused |-> FALSE, idle |-> FALSE,
            inFlight |-> 0, fresh |-> 0, stale |-> 0]
  /\ queue = [r \in Run |-> 0] /\ order = <<>> /\ last = NoRun /\ alarm = "off"
  /\ bound = [r \in Run |-> 0] /\ used = {} /\ sent = TRUE /\ through = {}

-----------------------------------------------------------------------------
(* The controller: signals take its state to the next one. *)

\* idleReset, which every signal begins with.
IdleReset(c) ==
  IF c.idle /\ c.inFlight = 0
  THEN [c EXCEPT !.cap = DEFAULT, !.streak = 0, !.good = 0,
                 !.cooldown = "none", !.refused = FALSE]
  ELSE c

CanAdmit(c) == c.inFlight < c.cap /\ c.cooldown # "running"

Admitted(c, n) ==
  [c EXCEPT !.inFlight = @ + n, !.fresh = @ + n, !.idle = @ /\ n = 0]

\* Mutant: the tickets of the old epoch count as ones of the new.
EpochTurnedNot(c) == c

EpochTurned(c) == [c EXCEPT !.fresh = 0, !.stale = c.stale + c.fresh]

\* A ticket settles, once.  It is in flight itself, so nothing is idle.
Taken(c, current) ==
  IF current THEN [c EXCEPT !.inFlight = @ - 1, !.fresh = @ - 1]
  ELSE [c EXCEPT !.inFlight = @ - 1, !.stale = @ - 1]

Succeeded(c, current, waiters) ==
  LET streak == c.streak + 1
      proven == [Taken(c, TRUE) EXCEPT !.streak = streak, !.good = Larger(c.good, c.cap)]
  IN CASE ~ current -> Taken(c, FALSE)
       [] current /\ streak < INCREASE_AFTER -> [Taken(c, TRUE) EXCEPT !.streak = streak]
       [] current /\ streak >= INCREASE_AFTER /\ (waiters = 0 \/ c.cap >= c.limit) ->
            \* The streak goes on; its length beyond the threshold tells nothing.
            [proven EXCEPT !.streak = INCREASE_AFTER]
       [] OTHER -> [proven EXCEPT !.cap = c.cap + 1, !.streak = 0]

\* Above a proven level back to it, at or below it by a quarter.
Cut(c) ==
  IF c.good # 0 /\ c.cap > c.good THEN [c EXCEPT !.cap = c.good]
  ELSE [c EXCEPT !.cap = Larger(FLOOR, (3 * c.cap) \div 4), !.good = 0]

Throttled(c, current, retryAfter) ==
  LET refused == [Taken(c, current) EXCEPT
                    !.streak = 0, !.refused = TRUE,
                    !.cooldown = IF retryAfter THEN "running" ELSE @]
  IN IF current THEN EpochTurned(Cut(refused)) ELSE refused

FailedTransient(c, current) == [Taken(c, current) EXCEPT !.streak = 0]

\* Mutant: the proven level stays above the lowered cap.
LoweredKeepsGood(c, limit) == EpochTurned([c EXCEPT !.cap = limit, !.streak = 0])

Lowered(c, limit) ==
  EpochTurned([c EXCEPT !.cap = limit, !.good = Smaller(@, limit), !.streak = 0])

SetGrowthLimit(c0, limit) ==
  LET c == [IdleReset(c0) EXCEPT !.limit = limit]
  IN IF c.cap <= limit THEN c ELSE Lowered(c, limit)

Seed(c0, target) ==
  LET c == IdleReset(c0)
      next == Smaller(c.limit, target)
  IN IF next <= c.cap \/ c.refused THEN c
     ELSE EpochTurned([c EXCEPT !.cap = next, !.good = 0, !.streak = 0])

-----------------------------------------------------------------------------
(* The governor *)

\* waiterCount
Waiters(q) == Cardinality({w \in Run \X (1..MaxQueued) : w[2] <= q[w[1]]})

\* Mutant: the rotation starts over with every grant.
NextRunFirst(ord, previous) == ord[1]

Place(ord, r) == CHOOSE i \in DOMAIN ord : ord[i] = r

\* nextRunWithWaiters: after the run granted last, if that one still waits.
NextRun(ord, previous) ==
  LET place == IF previous \in ToSet(ord) THEN Place(ord, previous) ELSE 0
  IN ord[(place % Len(ord)) + 1]

\* Mutant: the emptied queue stays in the map.
DequeuedKept(ord, q, r) == ord

\* One waiter less; a queue that is empty is deleted from the map.
Dequeued(ord, q, r) == IF q[r] = 1 THEN RemoveAt(ord, Place(ord, r)) ELSE ord
Enqueued(ord, q, r) == IF q[r] = 0 THEN Append(ord, r) ELSE ord

GrantNext(s) ==
  LET r == NextRun(s.order, s.last)
  IN [queue |-> [s.queue EXCEPT ![r] = @ - 1], order |-> Dequeued(s.order, s.queue, r),
      last |-> r, through |-> s.through \cup {r}]

\* The loop of drain, n times round.
Grants(start, n) ==
  LET s[i \in 0..n] == IF i = 0 THEN start ELSE GrantNext(s[i - 1]) IN s[n]

\* Mutant: the timer is not set for those who wait out a cool-down.
AlarmNone(c, q) == "off"

\* armCooldownWake: for a deadline that is past the delay is zero.
Alarm(c, q) ==
  CASE Waiters(q) = 0 \/ c.cooldown = "none" -> "off"
    [] Waiters(q) > 0 /\ c.cooldown = "running" -> "ahead"
    [] OTHER -> "due"

\* How many waiters drain lets through.
Released(c, q) ==
  IF CanAdmit(c) THEN Smaller(c.cap - c.inFlight, Waiters(q)) ELSE 0

\* The tail of every handler that ends in drain, from the state c of the
\* controller and the queues q; verdict says whether the cap has been set.
Drain(c, q, ord, verdict) ==
  LET n == Released(IdleReset(c), q)
      s == Grants([queue |-> q, order |-> ord, last |-> last, through |-> {}], n)
  IN /\ ctl' = Admitted(IdleReset(c), n)
     /\ queue' = s.queue /\ order' = s.order /\ last' = s.last
     /\ alarm' = Alarm(ctl', s.queue)
     /\ sent' = (n > 0 \/ (sent /\ ~ verdict))
     /\ through' = s.through

\* refreshGrowthLimit: the largest bound of the runs u, or 0, which is how
\* many of 1..CEILING are reached by some bound of them.
LargestBound(b, u) == Cardinality({k \in 1..CEILING : \E r \in u : k <= b[r]})

Refreshed(c, b, u) ==
  LET largest == LargestBound(b, u)
      limit == Larger(BaseLimit, largest)
      moved == IF limit = c.limit THEN c ELSE SetGrowthLimit(c, limit)
  IN IF largest > 0 THEN Seed(moved, largest) ELSE moved

\* noteRunUsed
NotedUse(r) == IF r \notin used /\ bound[r] > 0 THEN Refreshed(ctl, bound, used \cup {r}) ELSE ctl

\* Whether a change of bounds has set the cap anew, and not idleReset.
SetAnew(c) == c.cap # IdleReset(ctl).cap

-----------------------------------------------------------------------------
(* Operations *)

\* tryAdmit, the fast path: nobody is queued, and there is room.
Pass(r) ==
  LET c == IdleReset(NotedUse(r))
  IN /\ ctl.inFlight < MaxInFlight
     /\ order = <<>> /\ CanAdmit(c)
     /\ ctl' = Admitted(c, 1)
     /\ last' = r /\ sent' = TRUE /\ through' = {}
     /\ used' = used \cup {r}
     /\ UNCHANGED <<queue, order, alarm, bound>>

\* admit: the request joins the queue of its run.
Enqueue(r) ==
  /\ queue[r] < MaxQueued
  /\ used' = used \cup {r}
  /\ Drain(NotedUse(r), [queue EXCEPT ![r] = @ + 1], Enqueued(order, queue, r), SetAnew(NotedUse(r)))
  /\ UNCHANGED bound

\* The signal of a queued request is aborted.
Abort(r) ==
  /\ Aborts /\ queue[r] > 0
  /\ queue' = [queue EXCEPT ![r] = @ - 1] /\ order' = Dequeued(order, queue, r)
  /\ ctl' = IdleReset(ctl)
  /\ alarm' = Alarm(ctl', queue') /\ through' = {}
  /\ UNCHANGED <<last, bound, used, sent>>

\* A request of the main agent: admitted at once, whatever the cap.
Observe ==
  /\ MainAgent /\ ctl.inFlight < MaxInFlight
  /\ ctl' = Admitted(IdleReset(ctl), 1)
  /\ last' = Observer /\ sent' = TRUE /\ through' = {}
  /\ UNCHANGED <<queue, order, alarm, bound, used>>

\* A ticket settles: what the event of the attempt tells the controller.
Settle(reply, current) ==
  /\ reply \in Reply /\ (IF current THEN ctl.fresh > 0 ELSE ctl.stale > 0)
  /\ LET c == CASE reply = "completed" -> Succeeded(ctl, current, Waiters(queue))
                [] reply = "refused" -> Throttled(ctl, current, FALSE)
                [] reply = "refused for a while" -> Throttled(ctl, current, TRUE)
                [] reply = "failed" -> FailedTransient(ctl, current)
                [] reply = "ended" -> Taken(ctl, current)
     IN Drain(c, queue, order, current /\ reply \in {"refused", "refused for a while"})
  /\ UNCHANGED <<bound, used>>

\* A run that is launched or retuned.
SetRunBound(r, b) ==
  /\ bound[r] # b /\ bound' = [bound EXCEPT ![r] = b]
  /\ ctl' = IF r \in used THEN Refreshed(ctl, bound', used) ELSE ctl
  /\ sent' = (sent /\ ~ SetAnew(ctl')) /\ through' = {}
  /\ UNCHANGED <<queue, order, last, alarm, used>>

\* Mutant: the limit stays where the run has lifted it.
RefreshedAfterClearNot(b, u) == ctl

RefreshedAfterClear(b, u) == Refreshed(ctl, b, u)

\* The launch of a run has settled.
ClearRunBound(r) ==
  /\ bound[r] > 0
  /\ bound' = [bound EXCEPT ![r] = 0] /\ used' = used \ {r}
  /\ ctl' = IF r \in used THEN RefreshedAfterClear(bound', used') ELSE ctl
  /\ sent' = (sent /\ ~ SetAnew(ctl')) /\ through' = {}
  /\ UNCHANGED <<queue, order, last, alarm>>

\* The timer fires.
Wake ==
  /\ alarm = "due"
  /\ Drain(ctl, queue, order, FALSE)
  /\ UNCHANGED <<bound, used>>

\* Time passes: the deadline of a cool-down, and the idle windows after the
\* last admission and the last refusal.
CooldownEnds ==
  /\ ctl.cooldown = "running" \/ alarm = "ahead"
  /\ ctl' = [ctl EXCEPT !.cooldown = IF @ = "running" THEN "over" ELSE @]
  /\ alarm' = IF alarm = "ahead" THEN "due" ELSE alarm
  /\ through' = {}
  /\ UNCHANGED <<queue, order, last, bound, used, sent>>

IdleWindowPasses ==
  /\ ~ ctl.idle /\ ctl' = [ctl EXCEPT !.idle = TRUE] /\ through' = {}
  /\ UNCHANGED <<queue, order, last, alarm, bound, used, sent>>

RefusalIsOld ==
  /\ ctl.refused /\ ctl' = [ctl EXCEPT !.refused = FALSE] /\ through' = {}
  /\ UNCHANGED <<queue, order, last, alarm, bound, used, sent>>

Settling == \E reply \in Reply, current \in BOOLEAN : Settle(reply, current)

Next ==
  \/ \E r \in Run : Pass(r) \/ Enqueue(r) \/ Abort(r) \/ ClearRunBound(r)
  \/ \E r \in Run, b \in RunBound : SetRunBound(r, b)
  \/ Observe \/ Settling \/ Wake
  \/ CooldownEnds \/ IdleWindowPasses \/ RefusalIsOld

Spec == Init /\ [][Next]_vars

\* A request ends at last, whether its ticket is of the present epoch or not,
\* a Retry-After runs out, and timers fire.
FairSpec ==
  Spec /\ WF_vars(Settling) /\ WF_vars(CooldownEnds) /\ WF_vars(Wake)

-----------------------------------------------------------------------------
(* Properties *)

\* Every variable keeps its type; a run has a queue exactly while it waits.
TypeOK ==
  /\ ctl \in [cap : Nat, limit : Nat, streak : 0..INCREASE_AFTER, good : Nat,
              cooldown : {"none", "running", "over"}, refused : BOOLEAN, idle : BOOLEAN,
              inFlight : Nat, fresh : Nat, stale : Nat]
  /\ queue \in [Run -> 0..MaxQueued]
  /\ order \in Seq(Run) /\ IsInjective(order) /\ ToSet(order) = {r \in Run : queue[r] > 0}
  /\ last \in Run \cup {NoRun, Observer} /\ alarm \in {"off", "ahead", "due"}
  /\ bound \in [Run -> RunBound \cup {0}] /\ used \subseteq Run /\ sent \in BOOLEAN
  /\ through \subseteq Run

\* Whatever is cut, seeded, lowered or reset, the cap stays between the floor
\* and the limit, and no proven level above it survives to fall back to.
CapWithinLimits == ctl.cap \in FLOOR..ctl.limit /\ ctl.good <= ctl.cap

\* The limit is that of the registered runs which have used the key, in
\* whatever order they register, request, are retuned and settle.
LimitIsOfTheRuns == ctl.limit = Larger(BaseLimit, LargestBound(bound, used))

\* One verdict for one wave: a refusal cuts the cap only if a request has
\* gone out since the cap was last cut, seeded or lowered.
OneVerdictPerWave == ctl.fresh > 0 => sent

\* Whoever waits will be looked at again: by the end of a request in flight,
\* or by the timer.
NobodyForgotten == order # <<>> => ctl.inFlight > 0 \/ alarm # "off"

\* No run waits for ever, however many requests the others make.
RunIsServed == \A r \in Run : queue[r] > 0 ~> queue[r] = 0 \/ r \in through
=============================================================================
