---------------------------- MODULE WorkflowSeats ----------------------------
(***************************************************************************)
(* The concurrency bound of one workflow run.  It is enforced twice, by    *)
(* two parts that share no state and never call each other: the scheduler  *)
(* of the engine (dynamic-workflow/src/engine/scheduler.ts) dispatches an  *)
(* ask only below the bound, and the seat gate (bootstrap/src/app/         *)
(* workflow-seat-gate.ts) stops a subagent that is already at work before  *)
(* its next model request when the bound has been lowered under it.  The   *)
(* driver (workflow-driver.ts) tells the gate when an ask starts and       *)
(* settles, and workflow-run-control.ts changes the bound in both.         *)
(*                                                                         *)
(* The code is single-threaded.  An action is what runs between two        *)
(* awaits: a settlement frees the seat, lets parked subagents go on and    *)
(* dispatches queued asks before anything else runs.                       *)
(***************************************************************************)
EXTENDS Integers, FiniteSets, Sequences, SequencesExt

CONSTANTS Actor,          \* the subagents of the run
          Rank,           \* actorOrder: the place of each in the order of creation
          MaxAsks,        \* bound: asks of each subagent
          Limit,          \* the bounds a run may be given
          InitialLimit,   \* caps.maxConcurrency at launch
          REPAIR_ATTEMPTS, NUDGE_ATTEMPTS,
          MaxRetunes,     \* bound: changes of the limit
          MaxAborts       \* bound: requests aborted while they wait for a seat

ASSUME ActorAssumption == IsFiniteSet(Actor) /\ Rank \in [Actor -> Nat] /\ IsInjective(Rank)
ASSUME LimitAssumption == Limit \subseteq Nat \ {0} /\ InitialLimit \in Limit
ASSUME BoundAssumption ==
    /\ MaxAsks \in [Actor -> Nat] /\ REPAIR_ATTEMPTS \in Nat /\ NUDGE_ATTEMPTS \in Nat
    /\ MaxRetunes \in Nat /\ MaxAborts \in Nat

\* Where a subagent's ask is: none taken from its queue, its session being
\* created, its turn between two requests, waiting for a seat, in a request.
Phase == {"idle", "opening", "step", "parked", "model"}
Running == {"step", "parked", "model"}

VARIABLES
  runLive,      \* ~ runSettled
  limit,        \* caps of the engine and limit of the gate
  activeAsks,   \* the scheduler's counter
  queued,       \* liveQueue: its length, the asks are taken in order
  asked,        \* asks admitted so far
  phase,        \* Phase of actor.current
  repairs, nudges,  \* attempts left to the current ask
  working,      \* the gate: subagents at work
  parked,       \* the gate: subagents waiting for a seat, first come first
  retunes, aborts

askVars == <<queued, asked, phase>>
seatVars == <<working, parked>>
budgetVars == <<repairs, nudges>>
boundVars == <<retunes, aborts>>
vars == <<runLive, limit, activeAsks, askVars, budgetVars, seatVars, boundVars>>

Init ==
  /\ runLive = TRUE /\ limit = InitialLimit /\ activeAsks = 0
  /\ queued = [a \in Actor |-> 0] /\ asked = [a \in Actor |-> 0]
  /\ phase = [a \in Actor |-> "idle"]
  /\ repairs = [a \in Actor |-> REPAIR_ATTEMPTS] /\ nudges = [a \in Actor |-> NUDGE_ATTEMPTS]
  /\ working = {} /\ parked = <<>>
  /\ retunes = 0 /\ aborts = 0

-----------------------------------------------------------------------------
(* The scheduler *)

Least(m, n) == IF m < n THEN m ELSE n

\* Mutant: the bound of the launch is the one that counts.
RoomOfLaunch(active, cap) == IF active < InitialLimit THEN InitialLimit - active ELSE 0

\* pumpActor dispatches while activeAsks is below the bound, which it reads anew.
Room(active, cap) == IF active < cap THEN cap - active ELSE 0

\* pumpAll, from a state in which the subagents of idle have no current ask:
\* those that pumpActor dispatches, in the order of creation, the ones of
\* first ahead of all others.
PumpedFrom(first, idle, waiting, active, cap) ==
  LET eligible == {a \in idle : waiting[a] > 0}
      Ahead(a, b) == a \in first \/ (b \notin first /\ Rank[a] < Rank[b])
  IN {a \in eligible :
        Cardinality({b \in eligible \ {a} : Ahead(b, a)}) < Room(active, cap)}

\* The current asks of the pumped subagents wait for their sessions.
Dispatched(ph, pumped) == [a \in Actor |-> IF a \in pumped THEN "opening" ELSE ph[a]]
Taken(waiting, pumped) == [a \in Actor |-> IF a \in pumped THEN waiting[a] - 1 ELSE waiting[a]]
Fresh(budget, pumped, full) == [a \in Actor |-> IF a \in pumped THEN full ELSE budget[a]]

\* The tail of every handler that ends in pumpAll.
Pump(first, ph, waiting, active, cap) ==
  LET idle == {a \in Actor : ph[a] = "idle"}
      pumped == PumpedFrom(first, idle, waiting, active, cap)
  IN /\ phase' = Dispatched(ph, pumped)
     /\ queued' = Taken(waiting, pumped)
     /\ activeAsks' = active + Cardinality(pumped)
     /\ repairs' = Fresh(repairs, pumped, REPAIR_ATTEMPTS)
     /\ nudges' = Fresh(nudges, pumped, NUDGE_ATTEMPTS)

-----------------------------------------------------------------------------
(* The seat gate *)

FreeSeats(w, lim) == IF Cardinality(w) < lim THEN lim - Cardinality(w) ELSE 0

\* unpark: how many parked subagents are let go on.
Granted(w, p, lim) == Least(FreeSeats(w, lim), Len(p))

\* The seats after unpark; the turns of the subagents go on in ph.
Unpark(w, p, lim, ph) ==
  LET n == Granted(w, p, lim)
      resumed == ToSet(SubSeq(p, 1, n))
  IN [working |-> w \cup resumed, parked |-> SubSeq(p, n + 1, Len(p)),
      phase |-> [a \in Actor |-> IF a \in resumed THEN "model" ELSE ph[a]]]

\* The order without one of its members.
Without(p, a) == RemoveAt(p, CHOOSE k \in DOMAIN p : p[k] = a)

\* Mutant: the seat of a settled ask goes to nobody.
SeatsAfterSettlementKept(a, ph) ==
  [working |-> working \ {a}, parked |-> parked, phase |-> ph]

\* askSettled: an ask the gate does not know of, one that is parked, which
\* holds no seat, and one that is at work.
SeatsAfterSettlement(a, ph) ==
  IF a \in ToSet(parked)
  THEN [working |-> working, parked |-> Without(parked, a), phase |-> ph]
  ELSE IF a \in working THEN Unpark(working \ {a}, parked, limit, ph)
  ELSE [working |-> working, parked |-> parked, phase |-> ph]

\* needsSeat and acquireSeat.  A request of a tool never parks, and passes
\* without a trace in the gate.
MustPark(a) == a \in working /\ Cardinality(working) > limit

-----------------------------------------------------------------------------
(* Operations *)

\* admitAsk: the script asks; drainAdmission pumps this subagent first.
Admit(a) ==
  /\ runLive /\ asked[a] < MaxAsks[a]
  /\ asked' = [asked EXCEPT ![a] = @ + 1]
  /\ Pump({a}, phase, [queued EXCEPT ![a] = @ + 1], activeAsks, limit)
  /\ UNCHANGED <<runLive, limit, seatVars, boundVars>>

\* dispatch, after the session of the subagent is there: startAsk.
SessionReady(a) ==
  /\ runLive /\ phase[a] = "opening"
  /\ phase' = [phase EXCEPT ![a] = "step"]
  /\ working' = IF a \in ToSet(parked) THEN working ELSE working \cup {a}
  /\ UNCHANGED <<runLive, limit, activeAsks, queued, asked, budgetVars, parked, boundVars>>

\* ... or after the run has settled under it.
SessionTooLate(a) ==
  /\ ~ runLive /\ phase[a] = "opening"
  /\ phase' = [phase EXCEPT ![a] = "idle"]
  /\ UNCHANGED <<runLive, limit, activeAsks, queued, asked, budgetVars, seatVars, boundVars>>

\* Mutant: an ask that fails before it is dispatched is not counted out.
ActiveAfterSettlementLeaked(a) == IF phase[a] = "opening" THEN activeAsks ELSE activeAsks - 1

ActiveAfterSettlement(a) == activeAsks - 1

\* settleOk and settleFailed: node-settled reaches the gate, then
\* finishLiveNode clears actor.current and pumps.
Settle(a) ==
  LET seats == SeatsAfterSettlement(a, [phase EXCEPT ![a] = "idle"])
  IN /\ working' = seats.working /\ parked' = seats.parked
     /\ Pump({}, seats.phase, queued, ActiveAfterSettlement(a), limit)
     /\ UNCHANGED <<runLive, limit, asked, boundVars>>

\* Mutant: a session that fails after the run has settled is counted out too.
SessionFailsLate(a) == phase[a] = "opening" /\ Settle(a)

SessionFails(a) == runLive /\ phase[a] = "opening" /\ Settle(a)

\* The turn comes to its next model request.
Request(a) ==
  /\ phase[a] = "step"
  /\ IF MustPark(a)
     THEN /\ phase' = [phase EXCEPT ![a] = "parked"]
          /\ working' = working \ {a} /\ parked' = Append(parked, a)
     ELSE phase' = [phase EXCEPT ![a] = "model"] /\ UNCHANGED seatVars
  /\ UNCHANGED <<runLive, limit, activeAsks, queued, asked, budgetVars, boundVars>>

\* Mutant: a request that is aborted leaves the subagent outside both sets.
WorkingAfterAbortLost(a) == working

WorkingAfterAbort(a) == working \cup {a}

\* onAbort: the request is given up but the ask goes on; another attempt follows.
AbortParked(a) ==
  /\ phase[a] = "parked" /\ aborts < MaxAborts
  /\ aborts' = aborts + 1
  /\ phase' = [phase EXCEPT ![a] = "step"]
  /\ parked' = Without(parked, a) /\ working' = WorkingAfterAbort(a)
  /\ UNCHANGED <<runLive, limit, activeAsks, queued, asked, budgetVars, retunes>>

\* The request is answered, or failed and is to be tried again: tools run,
\* a turn is driven again, and the turn goes on.
NextStep(a) ==
  /\ phase[a] = "model"
  /\ phase' = [phase EXCEPT ![a] = "step"]
  /\ UNCHANGED <<runLive, limit, activeAsks, queued, asked, budgetVars, seatVars, boundVars>>

\* A submit that fails validation is rejected within the turn.
Repair(a) ==
  /\ phase[a] = "model" /\ repairs[a] > 0
  /\ repairs' = [repairs EXCEPT ![a] = @ - 1]
  /\ phase' = [phase EXCEPT ![a] = "step"]
  /\ UNCHANGED <<runLive, limit, activeAsks, queued, asked, nudges, seatVars, boundVars>>

\* Mutant: a nudge does not count.
NudgesLeftAll(n) == n

NudgesLeft(n) == n - 1

\* A typed turn that ends without a submit is followed by another one.
Nudge(a) ==
  /\ phase[a] = "model" /\ nudges[a] > 0
  /\ nudges' = [nudges EXCEPT ![a] = NudgesLeft(@)]
  /\ phase' = [phase EXCEPT ![a] = "step"]
  /\ UNCHANGED <<runLive, limit, activeAsks, queued, asked, repairs, seatVars, boundVars>>

\* The ask is answered; or its attempts are used up and it is cancelled.
Answer(a) == phase[a] = "model" /\ Settle(a)

\* The turn is rejected with what is neither a cancellation nor transient.
TurnFails(a) == phase[a] \in {"step", "model"} /\ Settle(a)

\* Mutant: a raised bound does not look at the queues.
PumpOnRetuneNever(old, new) == FALSE

PumpOnRetune(old, new) == new > old

\* setMaxConcurrency: the engine first, which pumps if the bound is raised,
\* then the gate.
Retune(new) ==
  /\ runLive /\ new # limit /\ retunes < MaxRetunes
  /\ retunes' = retunes + 1
  /\ limit' = new
  /\ LET seats == Unpark(working, parked, new, phase)
     IN /\ working' = seats.working /\ parked' = seats.parked
        /\ IF PumpOnRetune(limit, new)
           THEN Pump({}, seats.phase, queued, activeAsks, new)
           ELSE phase' = seats.phase /\ UNCHANGED <<queued, activeAsks, budgetVars>>
  /\ UNCHANGED <<runLive, asked, aborts>>

\* complete, stop and failRun: abortInFlight cancels what has been dispatched;
\* a run that fails does not report the asks as settled to the gate.
EndRun(failed) ==
  /\ runLive /\ runLive' = FALSE
  /\ activeAsks' = 0
  /\ parked' = <<>>
  /\ working' = IF failed THEN working \cup ToSet(parked) ELSE {}
  /\ phase' = [a \in Actor |-> IF phase[a] = "opening" THEN "opening" ELSE "idle"]
  /\ UNCHANGED <<limit, queued, asked, budgetVars, boundVars>>

Subagent(a) ==
  \/ SessionReady(a) \/ SessionTooLate(a) \/ SessionFails(a)
  \/ Request(a) \/ AbortParked(a) \/ NextStep(a) \/ Repair(a) \/ Nudge(a)
  \/ Answer(a) \/ TurnFails(a)

Next ==
  \/ \E a \in Actor : Admit(a) \/ Subagent(a)
  \/ \E new \in Limit : Retune(new)
  \/ \E failed \in BOOLEAN : EndRun(failed)

Spec == Init /\ [][Next]_vars

\* Sessions are created or fail, a turn comes to its next request, and a
\* model that is asked again and again submits or ends its turn at last.
FairSpec ==
  /\ Spec
  /\ \A a \in Actor :
       /\ WF_vars(SessionReady(a) \/ SessionTooLate(a) \/ SessionFails(a))
       /\ WF_vars(Request(a))
       /\ SF_vars(Repair(a) \/ Nudge(a) \/ Answer(a) \/ TurnFails(a))

-----------------------------------------------------------------------------
(* Properties *)

Opening == {a \in Actor : phase[a] = "opening"}

\* Every variable keeps its type; nobody is parked twice.
TypeOK ==
  /\ runLive \in BOOLEAN /\ limit \in Limit /\ activeAsks \in Nat
  /\ queued \in [Actor -> Nat] /\ asked \in [Actor -> Nat] /\ (\A a \in Actor : asked[a] <= MaxAsks[a])
  /\ phase \in [Actor -> Phase]
  /\ repairs \in [Actor -> 0..REPAIR_ATTEMPTS] /\ nudges \in [Actor -> 0..NUDGE_ATTEMPTS]
  /\ working \subseteq Actor /\ parked \in Seq(Actor) /\ IsInjective(parked)
  /\ retunes \in 0..MaxRetunes /\ aborts \in 0..MaxAborts

\* The gate and the scheduler, which never talk to each other, agree: every
\* active ask is at work, parked or waiting for its session (the gate's header
\* leaves the last ones out), and the gate holds nobody else.
SeatsAddUp ==
  runLive =>
    /\ activeAsks = Cardinality(working) + Len(parked) + Cardinality(Opening)
    /\ working = {a \in Actor : phase[a] \in {"step", "model"}}
    /\ ToSet(parked) = {a \in Actor : phase[a] = "parked"}

\* Somebody is parked only while all seats are taken: the last seat is never
\* empty with a subagent waiting, so the run cannot stand still.
ParkedOnlyWhenFull == parked # <<>> => Cardinality(working) >= limit

\* No queued ask is left lying while the bound has room for it, whatever
\* frees the room: a settlement, a session that fails, a raised bound.
NoIdleRoom ==
  runLive /\ activeAsks < limit => \A a \in Actor : phase[a] = "idle" => queued[a] = 0

\* The scheduler never dispatches an ask past a subagent that is parked.
NoOvertaking ==
  [][(\E a \in Actor : phase[a] # "opening" /\ phase'[a] = "opening") => parked' = <<>>]_vars

\* A request of a turn goes out only within the bound of that moment, however
\* often the bound is changed and parked requests are aborted.
RequestsWithinBound ==
  [][\A a \in Actor : phase[a] # "model" /\ phase'[a] = "model"
        => Cardinality(working') <= limit']_vars

Busy(a) == queued[a] > 0 \/ phase[a] # "idle"

\* Every ask settles, unless the run ends: repairs and nudges run out, seats
\* and room come free, nobody stays parked or queued.  The script asks finitely
\* often, so that a time comes when nothing is left.
EveryAskSettles == (\E a \in Actor : Busy(a)) ~> (~ runLive \/ \A a \in Actor : ~ Busy(a))
=============================================================================
