----------------------------- MODULE ReplayOrder -----------------------------
(***************************************************************************)
(* How a workflow run that was interrupted is replayed                     *)
(* (dynamic-workflow/src/engine/replay-order.ts with engine-world.ts,      *)
(* engine-report.ts and engine-resume.ts).                                 *)
(*                                                                         *)
(* The script fans out: every branch asks one node after another, awaiting *)
(* each answer, and ends with a report.  The branches share their call     *)
(* sites, and a call is known by its site and its ordinal, the number of   *)
(* calls that reached the site before it in this life of the run.  So who  *)
(* gets which ordinal depends on the order the answers came in.  A node's  *)
(* row is journaled when it starts and when it settles, and each settlement*)
(* is an event of a log; journal and log outlive a crash, which may come   *)
(* between the two writes of a settlement (a torn one).  A resumed life    *)
(* runs the script from its beginning, answers what is journaled from the  *)
(* journal, and executes again what was still running.  A row whose input  *)
(* is not that of the call is a hash mismatch: the run fails for good.     *)
(*                                                                         *)
(* The script is a child process: calls and answers are two FIFO streams.  *)
(* The nodes of the first site are asks of subagents, the others world     *)
(* nodes.                                                                  *)
(***************************************************************************)
EXTENDS Naturals, Sequences, SequencesExt

CONSTANTS Branches,  \* how many branches the script fans out to
          Steps,     \* how many nodes a branch asks one after another
          Endings,   \* how a life of the run may be cut short
          MaxLives   \* bound on the lives of the run

ASSUME ReplayOrderAssumption ==
  /\ {Branches, Steps, MaxLives} \subseteq Nat \ {0}
  /\ Endings \subseteq {"crash", "stop", "torn"}

Branch == 1 .. Branches
NodeSite == 1 .. Steps
ReportSite == Steps + 1
Site == 1 .. ReportSite

VARIABLES
  journal,   \* the rows of each site, by ordinal
  log,       \* the settlement events, by instance
  torn,      \* has a crash come between the row and the event of a settlement? (history)
  overtaken, \* has a live answer come while settlements of the lives before
             \* were still to be released?  (history)
  lives,     \* how often the run was started
  outcome,
  \* the present life
  ordinal,   \* how many calls have reached each site
  at,        \* the site a branch has called last
  calls,     \* from the script to the engine
  replies,   \* from the engine to the script
  order,     \* the gate: the settle order of the lives before
  cursor,    \* how many entries of it have been released
  parked,    \* cached settlements that wait for their turn
  queue      \* those whose turn has come, until the next microtask

durable == <<journal, log, torn, overtaken>>
script == <<at, calls, replies>>
gate == <<order, cursor, parked, queue>>
vars == <<durable, lives, outcome, ordinal, script, gate>>

Instance == Site \X (Nat \ {0})
SiteOf(i) == i[1]
Row(i) == journal[i[1]][i[2]]
BranchOf(i) == Row(i).input
BranchesOf(instances) == [k \in DOMAIN instances |-> BranchOf(instances[k])]

TypeOK ==
  /\ journal \in [Site -> Seq([input : Branch, status : {"running", "completed"}])]
  /\ {log, order, queue} \subseteq Seq(Instance)
  /\ {torn, overtaken} \subseteq BOOLEAN /\ lives \in Nat \ {0}
  /\ outcome \in {"running", "completed", "errored"}
  /\ ordinal \in [Site -> Nat]
  /\ at \in [Branch -> Site]
  /\ calls \in Seq(Branch) /\ replies \in Seq(Branch)
  /\ cursor \in 0 .. Len(order)
  /\ parked \subseteq Instance

-----------------------------------------------------------------------------
(***************************************************************************)
(* recoverSettleOrder: the first settlement of every instance whose replay *)
(* resolves a promise.  A report never settles one, a running row is       *)
(* executed again.                                                         *)
(***************************************************************************)
ClaimableIn(rows, i) == SiteOf(i) # ReportSite /\ rows[i[1]][i[2]].status = "completed"
Claimable(i) == ClaimableIn(journal, i)

\* Mutant: the last settlement of an instance counts.
LastSettlements(rows, events) ==
  FoldLeft(LAMBDA found, i : IF ~ClaimableIn(rows, i) THEN found
                             ELSE Append(SelectSeq(found, LAMBDA j : j # i), i),
           <<>>, events)

\* An event counts if it is the first of a claimable instance.
Counted(rows, found, i) ==
  IF ClaimableIn(rows, i) /\ i \notin ToSet(found) THEN Append(found, i) ELSE found

SettleOrder(rows, events) ==
  LET found[k \in 0 .. Len(events)] ==
        IF k = 0 THEN <<>> ELSE Counted(rows, found[k - 1], events[k])
  IN found[Len(events)]

\* The script starts: the branches call the first site one after the other.
Fresh == [b \in Branch |-> b]

Init ==
  /\ journal = [s \in Site |-> <<>>]
  /\ log = <<>> /\ torn = FALSE /\ overtaken = FALSE /\ lives = 1 /\ outcome = "running"
  /\ ordinal = [s \in Site |-> 0]
  /\ at = [b \in Branch |-> 1] /\ calls = Fresh /\ replies = <<>>
  /\ order = <<>> /\ cursor = 0 /\ parked = {} /\ queue = <<>>

\* The asks that run in this life, in the order they were admitted.
AsksInFlight ==
  SelectSeq([o \in 1 .. ordinal[1] |-> <<1, o>>], LAMBDA i : Row(i).status = "running")

CaughtUp == cursor = Len(order)

\* The nodes executing in this life, and when one of them may answer: no
\* microtask is pending then.
Live == {i \in NodeSite \X Branch : i[2] <= ordinal[i[1]] /\ Row(i).status = "running"}
MayAnswer == queue = <<>>

\* What a life leaves behind: the process died; it died between the row and
\* the event of a settlement; or the run was stopped.  abortInFlight writes a
\* cancelled settlement for every ask in flight and leaves its row running.
\* (A stop also opens the gate: the events this adds repeat others.)
Settled(i) == [journal EXCEPT ![i[1]][i[2]].status = "completed"]
Left(ending) ==
  CASE ending = "crash" -> {[rows |-> journal, events |-> log]}
    [] ending = "torn" -> {[rows |-> Settled(i), events |-> log] : i \in {j \in Live : MayAnswer}}
    [] ending = "stop" -> {[rows |-> journal, events |-> log \o AsksInFlight]}

\* The run is resumed: the script starts again.
Resume(ending) ==
  /\ outcome = "running" /\ lives < MaxLives
  /\ lives' = lives + 1
  /\ \E left \in Left(ending) :
       /\ journal' = left.rows /\ log' = left.events
       /\ order' = SettleOrder(left.rows, left.events)
  /\ torn' = (torn \/ ending = "torn")
  /\ ordinal' = [s \in Site |-> 0]
  /\ at' = [b \in Branch |-> 1] /\ calls' = Fresh /\ replies' = <<>>
  /\ cursor' = 0 /\ parked' = {} /\ queue' = <<>>
  /\ UNCHANGED <<outcome, overtaken>>

-----------------------------------------------------------------------------
(***************************************************************************)
(* The gate.                                                               *)
(***************************************************************************)

\* Mutant: no settlement is ever held.
HeldNever(i) == FALSE

\* hold: an instance the order does not know, or has passed, is not held.
Held(i) == \E k \in DOMAIN order : k > cursor /\ order[k] = i

\* Mutant: an arrival releases one settlement only.
PumpedOne(arrived) ==
  IF cursor < Len(order) /\ order[cursor + 1] \in arrived THEN cursor + 1 ELSE cursor

\* pump: as far as the entries at the head have arrived.
PumpedTo(arrived) ==
  CHOOSE k \in cursor .. Len(order) :
    /\ \A j \in cursor + 1 .. k : order[j] \in arrived
    /\ k < Len(order) => order[k + 1] \notin arrived

\* A settlement reaches the script: the event, then the answer.
Settle(instances) ==
  /\ log' = log \o instances
  /\ replies' = replies \o BranchesOf(instances)

\* The settlements whose turn has come go out in a microtask of their own,
\* when the await of the call that released them is in place.
Flush ==
  /\ outcome = "running" /\ queue # <<>>
  /\ Settle(queue)
  /\ queue' = <<>>
  /\ UNCHANGED <<journal, torn, overtaken, lives, outcome, ordinal, at, calls, order, cursor, parked>>

-----------------------------------------------------------------------------
(***************************************************************************)
(* The engine takes the next call of the script (readWorld, ask, report).  *)
(***************************************************************************)
Caller == Head(calls)
Called == <<at[Caller], ordinal[at[Caller]] + 1>>
Recorded == Called[2] <= Len(journal[Called[1]])

TakeCall ==
  /\ outcome = "running" /\ calls # <<>>
  /\ calls' = Tail(calls)
  /\ ordinal' = [ordinal EXCEPT ![Called[1]] = @ + 1]

Mismatch ==
  /\ TakeCall /\ Recorded /\ BranchOf(Called) # Caller
  /\ outcome' = "errored"
  /\ UNCHANGED <<durable, lives, at, replies, gate>>

Replays == Recorded /\ BranchOf(Called) = Caller

\* A cached settlement waits for its turn at the gate.
Hold ==
  /\ TakeCall /\ Replays /\ Claimable(Called) /\ Held(Called)
  /\ LET arrived == parked \cup {Called}
         to == PumpedTo(arrived)
     IN /\ cursor' = to
        /\ queue' = queue \o SubSeq(order, cursor + 1, to)
        /\ parked' = arrived \ {order[k] : k \in cursor + 1 .. to}
  /\ UNCHANGED <<durable, lives, outcome, at, replies, order>>

\* Not in the order: released at once.
PassThrough ==
  /\ TakeCall /\ Replays /\ Claimable(Called) /\ ~Held(Called)
  /\ Settle(<<Called>>)
  /\ UNCHANGED <<journal, torn, overtaken, lives, outcome, at, gate>>

\* A new row, or one that was running when the last life ended, is executed.
GoLive ==
  /\ TakeCall /\ Called[1] # ReportSite
  /\ \/ Replays /\ Row(Called).status = "running" /\ UNCHANGED journal
     \/ ~Recorded /\ journal' = [journal EXCEPT ![Called[1]] =
                       Append(@, [input |-> Caller, status |-> "running"])]
  /\ UNCHANGED <<log, torn, overtaken, lives, outcome, at, replies, gate>>

\* publishReport: a journaled report is skipped; the script gets no answer.
Report ==
  /\ TakeCall /\ Called[1] = ReportSite
  /\ \/ Replays /\ UNCHANGED journal
     \/ ~Recorded /\ journal' = [journal EXCEPT ![ReportSite] =
                       Append(@, [input |-> Caller, status |-> "completed"])]
  /\ UNCHANGED <<log, torn, overtaken, lives, outcome, at, replies, gate>>

\* A live node answers: its row, then its event.
LiveSettles(i) ==
  /\ outcome = "running" /\ MayAnswer
  /\ journal' = Settled(i)
  /\ Settle(<<i>>)
  /\ overtaken' = (overtaken \/ ~CaughtUp)
  /\ UNCHANGED <<torn, lives, outcome, ordinal, at, calls, gate>>

-----------------------------------------------------------------------------
(***************************************************************************)
(* The script.                                                             *)
(***************************************************************************)

\* The answer resumes the branch, which makes its next call.
Continue ==
  /\ outcome = "running" /\ replies # <<>>
  /\ replies' = Tail(replies)
  /\ at' = [at EXCEPT ![Head(replies)] = @ + 1]
  /\ calls' = Append(calls, Head(replies))
  /\ UNCHANGED <<durable, lives, outcome, ordinal, gate>>

\* All branches have reported: the script returns.
Complete ==
  /\ outcome = "running" /\ calls = <<>>
  /\ \A b \in Branch : at[b] = ReportSite
  /\ outcome' = "completed"
  /\ UNCHANGED <<durable, lives, ordinal, script, gate>>

Engine == Flush \/ Mismatch \/ Hold \/ PassThrough \/ GoLive \/ Report
Answers == \E i \in Live : LiveSettles(i)

Next ==
  Engine \/ Answers \/ Continue \/ Complete \/ \E ending \in Endings : Resume(ending)

Spec == Init /\ [][Next]_vars

\* Messages are read, microtasks run, and a node that is executed ends.
FairSpec == Spec /\ WF_vars(Engine) /\ WF_vars(Answers) /\ WF_vars(Continue)
                 /\ WF_vars(Complete)

-----------------------------------------------------------------------------
\* A script that calls the same for the same answers never runs into the hash
\* check, however often and wherever the run was interrupted: every branch
\* reaches each site at the ordinal under which it is journaled (replay-order.ts
\* 4-13).  There are two exceptions, neither of which the text on replaying the
\* settle order (docs/execution-engine.md 492-498) makes: a crash between the
\* two writes of a settlement, and a live answer that overtakes settlements of
\* the lives before, such as that of a world node executed again: it changes the
\* order of the calls, and its event comes after those it has overtaken.
ReplayAgrees == outcome = "errored" => torn \/ overtaken

\* A later life replays the order of the life before it, and at most more of
\* it, also when that life ended in the middle of its own replay
\* (replay-order.ts 167-168).
ScheduleIsStable == [][IsPrefix(order, order')]_order

\* Neither a call nor an answer is under way.
Idle == outcome = "running" /\ calls = <<>> /\ replies = <<>> /\ queue = <<>>

\* The gate never waits for a call that does not come: whenever the run is idle
\* the whole order has been released, and either a node is executing or all
\* branches have reported (replay-order.ts 11-13, 73-74, 170-171).
NothingHeldInVain == Idle => CaughtUp /\ (Live # {} \/ \A b \in Branch : at[b] = ReportSite)

\* Once the run is no longer interrupted it ends.
RunEnds == <>(outcome # "running")
=============================================================================
