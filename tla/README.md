# A TLA+ model of OpenZWork

OpenZWork is a desktop application, a server and a set of web and mobile clients
around an agent runtime (`apps/zcode-cli`). A client drives the runtime with
commands; the runtime runs turns of a language model, keeps sessions, and runs
*dynamic workflows* in which a script drives many subagents. Nearly all of it is
TypeScript in single-threaded processes: nothing is preempted, and everything
that goes wrong goes wrong between two `await`s, between two messages, or
between two runs of a process.

This directory holds models of the parts where that matters most, the TLC
configurations that check them, and proofs for TLAPS. It is meant to be kept
beside the code: a change to one of the files in the table below should come
with a look at the module that models it. `PROJECT.json` maps every definition
to the lines it stands for.

Run from this directory:

    tlc -workers 2 -config MCAckRelay_oneway.cfg MCAckRelay.tla
    tlapm Governor_proofs.tla

## 1. Inventory

| Component | Where | State it keeps | Hard behaviours | Status |
|---|---|---|---|---|
| Acknowledged raw relay | `packages/client/src/webRemoteControlAcknowledgedRelay*.ts`, `packages/shared/src/web-remote-control-rpc-transport.ts` | replay queue, cursors, byte count, pending ack, assembler | loss, replay, acks in flight, back-pressure, re-entrance | modelled, proved: `AckRelay` |
| Command inbox and command index | `bootstrap/src/zcode-protocol-v4/` | key and session gates, in-flight finals, pins, LRU, cached durable facts | repeated calls, eviction, crash, restart | modelled in part, its safety proved: `CommandInbox` |
| Session input ledger | `adapters/src/storage/session-store/repositories/session-inputs.ts` | one row per input and its status | written by gateway, runtime and sweeps | in `CommandInbox` |
| Concurrency governor | `bootstrap/src/app/workflow-concurrency-governor.ts`, `dynamic-workflow/src/engine/concurrency.ts` | cap, epoch, streak, cool-down; queues per run | waves of refusals, fairness, timers, abort | modelled, proved: `Governor` |
| Workflow scheduler and seat gate | `dynamic-workflow/src/engine/scheduler*.ts`, `bootstrap/src/app/workflow-seat-gate.ts`, `workflow-driver*.ts` | queues of asks, `activeAsks`, seats | two enforcers without shared state, retuning, abort | modelled in part, its safety proved: `WorkflowSeats` |
| Dynamic workflow engine | `dynamic-workflow/src/engine` | journal, settle order, import caches | crash and stop, replay order, holds | modelled in part, its safety proved: `ReplayOrder` |
| Session lifecycle, residency, pool | `bootstrap/src/session-lifecycle`, `bootstrap/src/zcode-protocol` | flight, reserved restart, record, instance, leases | shared promises, release against restart, deletion, eviction | modelled in part, its safety proved: `SessionLifecycle` |
| Runtime command queue, steering | `core/src/runtime` | queued user, steer and notification commands | end of turn against arrival | planned |
| Interactions and permissions | `bootstrap/src/zcode-protocol-v4/interaction-registry.ts` | pending questions | one answer across timeouts, cancellation | planned |
| Atomic directories | `adapters/src/plugins/atomic-directory.ts` with `marketplace.ts` | target, backup and marker on disk, the authority | crash between renames, failing rollback, readers of other processes | modelled in part, its safety proved: `AtomicDirectory` |
| MCP pool | `adapters/src/mcp/pool.ts` | leases, idle timers | idle eviction, reconnection | planned |
| RPC layer; remote control manager | `packages/rpc`, `packages/desktop/src/main` | request tables; bridge generations | late answers, reconnection | planned |

Paths that begin with a package name of the runtime (`bootstrap`, `core`,
`adapters`, `dynamic-workflow`) are under `apps/zcode-cli/packages/`.

Not modelled, and not planned: contracts and schemas (no state), the CLI and
terminal interface, the web, Android and UI clients (view state), the model
providers (request mapping), the desktop shell and the services (platform I/O),
reports and static pages. Model prompts, tools and hooks are data to us: what a
turn says is never modelled, only that it asks, ends, fails or is cancelled.

How the parts meet: a client reaches the runtime over the RPC layer, over a
socket or, from a phone, over the relay. What arrives is a command, which passes
the inbox and becomes an input of a session or a control action. A turn of a
session may launch a workflow; its scheduler dispatches asks to subagents, whose
model requests pass the seat gate of the run and then the governor of the
process. The modelled parts meet by calls with narrow interfaces and share no
state, so they are separate modules, each with the rest as its environment:
`AckRelay` promises `FifoDelivery`, on which the RPC layer relies;
`WorkflowSeats` treats a request that waits in the governor as one in flight;
`Governor` treats the runs above it as an environment that may send anything.
`ReplayOrder` is about what `WorkflowSeats` leaves out, the lives of a run that
is interrupted, and treats the scheduling of live asks as any order of answers.
`SessionLifecycle` is the owner of the session whose commands `CommandInbox`
takes in; each has the other as a few phases (a release drains the commands in
flight). `AtomicDirectory` stands alone: files are all that its processes share.

## 2. Modules

| Module | What it is |
|---|---|
| `FifoDelivery` | abstract specification: each end gets, in order, a prefix of what the other handed in |
| `AckRelay` | both ends of the relay protocol and the wire between them |
| `AckRelay_proofs` | its inductive invariant, its invariants and its refinement of `FifoDelivery`, proved |
| `CommandInbox` | the inbox for one session, its store, the runtime behind it, its residency |
| `CommandInbox_proofs` | its invariants, proved: one execution of a command at a time, one entry in the transcript |
| `WorkflowSeats` | scheduler and seat gate of one workflow run |
| `WorkflowSeats_proofs` | all its invariants and action properties, proved |
| `Governor` | the bucket of one provider key: controller, queues, rotation, timer |
| `Governor_proofs` | its invariants, proved |
| `ReplayOrder` | the lives of one workflow run: journal, settlement log, order gate, script |
| `ReplayOrder_proofs` | its invariant and its action property, proved |
| `SessionLifecycle` | the owner of one session's instance, its callers, deletion and eviction |
| `SessionLifecycle_proofs` | that there is one owner and one instance, proved |
| `SessionAnswers_proofs` | what its answers are worth, proved on top of that |
| `AtomicDirectory` | one installed directory, the processes that replace, read and recover it |
| `AtomicDirectory_proofs` | its invariants, for processes that are never at work at one time, proved |
| `MC*` | instances for TLC, with one `.cfg` per run |

In each module one action is one run to completion of the code: an entry point
with everything it calls, up to the next `await`. Operators whose comment begins
with "Mutant" are wrong versions of the definition beside them. No specification
uses them; put in the place of that definition they break a property, which
shows that the property says something about it.

### AckRelay

Variables are the fields of `AcknowledgedRelayProtocol`, its batch queue and its
assembler, one per end. The queue's storage is laid out frame by frame, so that
frame *i* has physical sequence number *i*: `head` is the first retained frame
and `cursor` the first unsent one. Actions are the entry points: `Reserve` and
`ReserveRefused` (`reserveMessage`), `FlushPending`, `ReplayUnacknowledged` and
`ReplayCutShort`, the outcomes of `acceptPayload` (`ReceiveAck`,
`ReceiveDuplicate`, `ReceiveLast`, ...), the deadlines, `MarkDegraded` and
`Dispose`. The environment may drop a payload (`Lose`).

- A flush ends where `sendFrame` refuses, so `Flush` hands over any prefix.
- A payload that comes in while `sendFrame` is on the stack is queued and handled
  between two frames. This is a flush that stops there, followed by the arrival.
  Likewise a listener that sends while it handles a message is a `Reserve` next
  to a `ReceiveLast`.
- The bytes, CRC and identities of a frame are its `checksum` and its addressee;
  a frame counts as one byte of the replay buffer. The compaction of the queue's
  array and the exhaustion of safe integers are left out.

### CommandInbox

Requests (`Caller`) walk through the awaits of `handle` and `query`: the key
gate, the lookup in memory and in the index, the session gate, the second
lookup, the decision, then admission and execution by the gateway. Beside them
run the runtime (promotion of an input, removal from the queue, a turn that ends
unrecorded, and the event on its way to the gateway) and the residency of the
session (activation, eviction, restart in three steps, crash). Only `ledger` and
`entered` survive a crash.

- A load of the index is one action because the code caches the promise.
- Eviction is one action because the pool evicts only with no protocol operation
  under way.
- Left out: the bucket of `createSession`, the facts of children and of the
  timeline, parse errors, revisions and epochs (a refusal stands for them), the
  order of the queue, and re-pinning on `TurnSteerQueued`.

### WorkflowSeats

`activeAsks`, `queued` and `phase` belong to the scheduler, `working` and
`parked` to the gate, which knows only what the driver tells it (`startAsk`,
`node-settled`) and what its own wrapper sees (`Request`, `AbortParked`).
`Settle` is the one place where both move: the gate hears of the settlement
first, then `pumpAll` runs. `Retune` changes the bound in the engine, then in the
gate; `EndRun` is completion, stop and failure, of which the last does not tell
the gate.

- The queue of a subagent is a counter since asks leave it in order.
- A request of a tool does not touch the gate and is left out, as are replayed
  and imported asks, escalations, and late events of a settled ask, which the
  code ignores.
- Whether an ask is typed is not recorded: `Answer`, `Repair` and `Nudge` are
  open to every ask while its budgets last, as for a typed ask. An untyped one
  has `Answer` only, which is a subset.
- The gate's header says `activeAsks = working + parked`. An ask whose session
  is being created is counted by the scheduler but not yet by the gate;
  `SeatsAddUp` has the third term.

### Governor

`ctl` is the state of `ConcurrencyController`; the signals are operators from one
such record to the next, and each action applies one and ends in `Drain` where
the code does. `queue`, `order` and `last` are the queues in the insertion order
of their map and the cursor of the rotation. The loop of `drain` is a recursive
function on the number of grants, so that it can be reasoned about.

- Time is three facts: `idle` (the idle window has passed since the last
  admission), `refused` (a refusal lies within it) and `cooldown`. Each is
  changed by a step of its own, at any moment.
- Epochs only ever tell the tickets of the present epoch from older ones, so
  tickets are two numbers, `fresh` and `stale`.
- `sent` and `through` are history variables.
- The pool of a session's subagents does not register as a run, which is a run
  that has no bound. Change events to listeners and `lastBad`, which only they
  carry, are left out.

### ReplayOrder

`journal` (rows by site and ordinal), `log` (settlement events) and the history
variables `torn` and `overtaken` outlive a life of the run; the rest is one life: how often each
site was called, the two FIFO streams between engine and script, and the gate of
`replay-order.ts` (`order`, `cursor`, `parked`, `queue`). The engine's actions are
what happens to the next call: `Hold`, `PassThrough`, `GoLive`, `Report` or
`Mismatch`; `Flush` is the microtask, `LiveSettles` an answer. `Resume` ends a
life and starts the next one: after a crash, after a crash between the row and
the event of one settlement (`"torn"`), or after a stop.

- The script is the hardest for the gate that is still deterministic: a fan-out
  whose branches share their call sites, so that ordinals depend on the order of
  answers alone. A script that is not deterministic is out of scope, as in the
  code.
- A live answer may come at any moment at which no microtask is pending
  (`MayAnswer`), also while cached settlements are still held: nothing in the
  engine makes a node that is executed again wait for the gate. The history
  variable `overtaken` remembers that one did. It changes the order of the calls
  of its life, and its event comes after those it has overtaken, so a later life
  tells the two the other way round.
- So `ReplayAgrees` has two exceptions, `torn` and `overtaken`.
  `docs/execution-engine.md` 492-498 makes the claim without either (section 4).
- Left out: failed nodes (they replay as completed ones do), artifacts, import
  caches of an amended run, the holds of cached asks behind live ones.

### SessionLifecycle

`state`, `generation`, `flight` and `pending` are the controller's snapshot, the
operation under way and the reserved restart; `record` and `apps` are the host's
registry and the instances that exist. `call` is where each request is between
two awaits. `Admit` is the code of `ensureReady`, `initialize`, `restart` and
`dispose` up to the first await, with its order of checks (`Refused`,
`SharesReserved`, `AfterStop`, `Reserves`, `Shares`, or else `Begin`); `Work` are
the steps of the owner. `reactions` (a list for each promise) and `woken` keep
the order in which continuations run, since it decides who is admitted next.

- `Requests` are `session/lifecycle` requests, resumes and cold openings, closes
  and `deleteSession` commands, with the workspace they name, right or wrong.
- Every activation, pause and closing may fail, a closing with or without the
  instance being gone.
- The pool is its precondition (nothing under way in the process) and its
  eviction; which session it prefers is left out, since there is one.
- Left out: creation and fork, openings of a history without an instance,
  shutdown of the process, the projections that follow the snapshot.

### AtomicDirectory

`disk` has the three places of a directory, `authority` the generation recorded
as installed. Each file operation is an action; a recursive removal passes a
`Torn` state. A synchronous recovery is a list of operations (`RecoveryPlan`)
done one by one, and a finalize or rollback another (`FinalizePlan`,
`RollbackPlan`), so that a crash or a failure hits any boundary.

- All processes are alike: each may install and read. No lock spans them
  (`plugin-storage-lock.ts` 1-5 is about one process), so any operation of one
  may fall between any two of another, those of a synchronous recovery and the
  creation and the writing of a marker (`OpenMarker`, `FillMarker`) included.
- The creation of the marker and its writing may fail (`MarkerFails`), the latter
  with the empty marker left behind.
- The history variable `overlapped` remembers that two processes were at work on
  the directory at one time (`AtWork`: inside a recovery, or from the claim of the
  target to the last file operation) or inside two activations. There the code
  loses directories (section 4), and the two properties make that exception.
- `given` is the path the last read of a process has returned, until a file
  operation or a commit comes after it; the use of a path after that is out of
  the code's hands.
- What a recovery does is chosen (`RecoveryPlan`) by looks that are one step with
  its beginning. A process that changes files among those looks, or inside the
  recovery, is at work with it.
- Left out: the standalone mode without authority, Windows, closures of several
  plugins, process ids that are reused, uninstalling.

## 3. Runs

All bounds are constants with a comment in the module. States are distinct ones.

| Run | Instance | States | Checks |
|---|---|---|---|
| `relay_oneway` | one sender, 2 messages, 1-2 frames, buffer of 3, one failure, fair | 170 k | `TypeOK`, `AdmissionIsExact`, `BackPressureIsLive`, `OnlyHonestFaults`, `ReleasedWasDelivered`, `ImplementsFifo`, `EveryMessageAcknowledged` |
| `inbox_once` | 2 inputs, a control command, 2 callers, 5 calls, LRU of 1, crash, eviction | 740 k | `TypeOK`, `AtMostOnceInTranscript`, `NoDoubleAdmission`, `NoRequestStuck`, `IndexKnowsTranscript` |
| `inbox_live` | 3 callers of one input, a restart, fair | 96 k | `EveryCallAnswered`, `RestartCompletes` |
| `seats` | 3 subagents, 4 asks, bound 3 or 1, 2 retunes, a repair, a nudge, an abort, fair | 69 k | `TypeOK`, `SeatsAddUp`, `ParkedOnlyWhenFull`, `NoIdleRoom`, `NoOvertaking`, `RequestsWithinBound`, `EveryAskSettles` |
| `gov_safe` | 2 runs, main agent, bounds, all replies, aborts | 449 k | `TypeOK`, `CapWithinLimits`, `LimitIsOfTheRuns`, `OneVerdictPerWave` |
| `gov_live` | 2 runs, completions, refusals, cool-downs, fair | 3 k | `NobodyForgotten`, `RunIsServed` |
| `replay` | 3 branches of 2 nodes and a report, 3 lives, crashes, torn or not, live answers at any moment, fair | 1059 k | `ReplayAgrees`, `NothingHeldInVain`, `ScheduleIsStable`, `RunEnds` |
| `lifecycle` | 3 requests of any kind, 2 evictions, failures | 157 k | `TypeOK`, `OneInstance`, `NoForeignSuccess`, `RestartReplaces`, `DeletedStaysDown`, `NobodyStuck`, `NoCaseLeftOut` |
| `atomic` | 2 processes that install and read, 2 activations, 2 crashes, 2 failures | 1723 k | `NothingLost`, `ReadsCommitted` |
| `inbox_restart`, `replay_stop`, `lifecycle_delete` | violations | | section 4 |

Why these bounds are enough to mean something. A message of two frames is the
smallest that can be cut in the middle; a buffer of three is full with the two
messages half the time and crosses both marks; one failure makes a gap or cuts a
replay short. Two ends that both send are covered by the proofs, which know no
bounds. An LRU of one with two inputs and a
control command is the smallest in which a settled command is forgotten before
it is repeated. Three subagents and a bound that goes from three to one and back
give a bound below, at and above the number at work, with two parked at once, and
the one that is asked twice has an ask to be dispatched by the settlement of
another. For the governor a
default of one gives a base limit of two, below the run bound of three, so that
registering a run lifts the limit, seeds the cap, and clearing it lowers both;
two successes per increase keep "streak begun" and "streak complete" apart.
Three branches are the fewest in which two settled ones can be told in the wrong
order while a third is at work, two nodes give an ordinal that depends on that
order, and in the third life the order is read from a log of two. Three requests
are an owner, one that shares or waits, and one that comes while the second is
let go on; four (2.4 million states) show nothing else. Two processes are the
fewest whose file operations mix. Two activations replace a generation that was
itself installed, or one that failed half-way; two crashes hit a transaction and
the recovery of it; two failures hit a placement and its rollback. Four
activations, three crashes and three failures, cut off where two processes are
at work at one time (858 k states), show nothing else.

`CHECK_DEADLOCK FALSE` is said everywhere since every instance stops when its
bounds are used up; the liveness properties show that nobody is left waiting.

### Fairness

- `AckRelay`: weak fairness of receiving; strong fairness of a complete replay.
  On both ends every `onSendReady` of the transport ends in
  `replayUnacknowledged`, and the transport fires it for every matched heartbeat
  (`webRemoteControlTransport.ts` on both ends), so a link that comes back
  replays again and again. Strong, because in the model the bound on the wire
  can disable it for a while.
- `CommandInbox`: every await of a request ends, and a runtime being closed ends
  its turns. Nothing is assumed of turns otherwise: they may last for ever.
- `WorkflowSeats`: sessions are created or fail, a turn comes to its next
  request, and a model which is asked again and again submits or ends its turn
  at last (strong fairness over all four ways). Nothing is assumed of answers
  themselves, of retunes or aborts.
- `ReplayOrder`: microtasks run, calls and answers are read, and a node that is
  executed ends; lives are finite in number by the bound.
- `SessionLifecycle` has none. `NobodyStuck` says that it is always somebody's turn
  (`MayGoOn`), which needs no fairness; `NoCaseLeftOut` checks with ENABLED that
  whoever's turn it is has a step, and nobody else has. `NoRequestStuck` says the
  same of `CommandInbox`, where `EveryCallAnswered` adds the fairness.
- `Governor`: tickets are settled (`release` is in a `finally`), cool-downs end,
  timers fire. No fairness of requests.

## 4. Findings

Three runs of expect `violation` each check one property that a comment or a
document states, and TLC shows how the code breaks it.

| Run | Property | What happens |
|---|---|---|
| `inbox_restart` | `AtMostOnceInTranscript` | A restart unsubscribes from the runtime first (`session-residency.ts:172`). A promotion committed then reaches neither pins nor index, and a retry enters the transcript a second time. |
| `replay_stop` | `ReplayAgrees` | A stop logs `cancelled` as the settlement of every ask in flight (`scheduler.ts:346`) but leaves its row running. The next life executes it again; the life after that takes the first settlement for its place in the order, and a pure script dies of `InputHashMismatch`. |
| `lifecycle_delete` | `NobodyStuck` | A deletion is a command in flight; if a stop or a close begins while the soft deletion is written, the deletion joins that release (`v4-bridge.ts:1122`), and the release waits for the commands in flight (`command-inbox.ts:278`). Neither ends. |

The passing runs of the same modules exclude just that situation, by their
constants: `inbox_once` has no restart and `inbox_live` does not ask about the
transcript; `replay` has crashes but no stops; in `lifecycle` no deletion
overlaps a stop, a restart or a closing (`DeleteInClose`), while
`OneInstanceHolds` is proved with and without.

Observations without a run of their own, each to be seen by changing one
constant or by reading the lines:

- *Torn settlement.* `settleOk` and `settleWorldRead` write the row and then the
  event, two autocommitted statements, though `replay-order.ts` (comment of
  `recoverSettleOrder`) says that both are one write. After a crash in between
  the row is complete and not in the order, so it passes the gate at once and
  may take a later ordinal from another branch. `ReplayAgrees` makes the
  exception (`torn`), and in run `replay` this is how `PassThrough` and
  `Mismatch` come about.
- *Impatient answers.* Without `overtaken` in `ReplayAgrees` TLC finds the run
  failing for good in its second life already, with crashes alone: a node that is
  executed again answers while a settlement of the first life is still held, and
  its branch is the first at a site where the other one was
  (`engine-world.ts` 99-165, `scheduler.ts` 496-524; `replay-order.ts` 102-115
  orders no more than microtasks). `docs/execution-engine.md` 492-498 says that
  replaying the settle order rules this out.
- *Cancelled input.* `cancelDurableInput` (`v4-gateway.ts:2582`) writes `cancelled`
  but leaves the cached index as it is. Once the LRU has forgotten the command,
  its retry is executed (`persistent-command-facts.ts:45-47`).
- *Leaked pin.* A turn that ends before it records its input (`turn.ts:446`)
  leaves the pin, and with it the session in memory.
- *Aborted waiter* (`Aborts = TRUE` in `gov_live`). The abort
  (`workflow-concurrency-governor.ts:396`) can reset an idle controller with its
  cool-down, take the timer away and drain nobody.
- *Main agent and rotation* (`MainAgent = TRUE`). A request of the main agent
  overwrites the cursor of the rotation (line 321), which starts over at the
  first run; with one between any two releases the second run is passed over. So
  `gov_live` has no main agent, and `RunIsServed` says nothing of that hazard.
- *Retuned bound.* `setRunBound` may seed the cap far above the requests in flight
  but does not drain; waiters stay until the next release.
- *Timer of zero.* `armCooldownWake` takes a cool-down that has passed for one
  that has not: `cooldownUntil` stays set until an idle reset, so after every
  drain that leaves waiters a timer of delay zero is armed, which drains, and so
  on until a request ends. In `Governor` this is `Alarm` giving "due" for a
  cool-down that is "over", and `Wake` going round.
- *Failed session of a subagent.* `ensureSession` (`scheduler.ts:464`) keeps the
  rejected promise, so every later ask of the subagent fails with it.
- *Interleaved recovery.* A process reads a directory and sees no marker, or one
  that is created but empty; meanwhile an activation in another process creates
  the marker, or moves the target aside. The recovery, which takes what it has
  seen for what a dead process left (`atomic-directory.ts` 120-129), deletes the
  marker and may delete the backup, and a rollback then has nothing to restore.
  TLC shows it when `~overlapped` is taken out of `NothingLost`, where two
  processes at work are enough, and likewise of `ReadsCommitted`. Both halves of
  `Overlap` are needed: with `AtWork` alone, a second activation that looked
  before the first one had begun claims the target on the strength of that look.
- *Two failures and a reader.* `ReadsCommitted` needs `failures <= 1`: when the
  removals of the backup and of the marker both fail after a commit, the next
  activation of the same process may serve the old, half removed backup for a
  moment. `NothingLost` holds with any number of failures.
- *Deletion and its neighbours.* A deletion that joins a close never announces
  `session.removed`; one that meets a start that finds the session ready already
  fails with a conflict after the soft deletion was written; and
  `executeDeactivation` counts an asynchronous refusal as an eviction.

## 5. Proofs

`AckRelay_proofs` proves, for any payloads, fragment limit, buffer, marks,
numbers of messages, wire capacity and number of failures, under the
assumptions on the constants in `AckRelay`:

- `TypeCorrect`, `HonestFaults`, `ReleaseIsSafe`, `AdmissionCorrect`,
  `BackPressureCorrect`: the safety properties of the relay runs;
- `Refinement`: `Spec => ImplementsFifo`.

None of these is inductive. That no end is ever faulted needs to know what is on
the wire, which needs to know what an end has ever sent. `IInv` says so in parts:
`TypeOK`; `QueueOK` (the log of frames is what the batches encode to, `head` is at the
start of a batch, the byte count is the retained length); `SenderOK` (what has
been sent in full, what is acknowledged); `ReceiverOK` (the assembly is a
contiguous piece of the peer's log, and what was delivered is a prefix of its
messages); `WireOK` (every frame on the wire is one of the log and every gap
between frames stays visible; every ack is for what was delivered);
`OnlyHonestFaults`. The core of the argument is `HonestVerdict`: for a frame of
the peer's log the assembler's verdict is "duplicate", "incomplete", "complete"
or "physicalGap". The lemmas in front are the facts about queues, flushes and wires.

`Governor_proofs` proves, for any finite set of runs, default, threshold,
ceiling and bounds: `CapStaysWithinLimits`, `LimitFollowsRuns` and `OneVerdict`.
The invariant `IInv` adds that the tickets add up, that the limit is at least
the base limit, and the types. Each signal of the controller has a lemma that it
keeps `Sound`; the lemmas on `setGrowthLimit`, `seed` and `idleReset` also say
`Unmoved`: if a ticket of the present epoch survives, the cap was not touched.
This is what makes the verdict unique: whoever sets the cap turns the page.
`DrainSound` needs nothing of the queues but that the number of waiters is a
natural number, so these three hold whatever the rotation does.

The other two are about the queues. `InOrder` says that the map has a key, once,
for each run that waits and for no other. `TypeCorrect` follows from it, and
with it the loop of `drain` ends for one of two reasons: nobody waits or there is
no room. The loop is an induction over the grants (`Least`: a set of
numbers that is not empty has a least one). `NobodyIsForgotten` is then a case
split over what remains: where there is no room somebody is in flight, or the
cool-down runs and its timer is set. Its hypothesis `~ Aborts` is needed: the abort of
a waiter may take timer and controller away (section 4).

`CommandInbox_proofs` has two invariants, for any finite sets of callers, inputs
and control commands, any LRU and any numbers of calls, crashes, evictions and
restarts:

- `IInv`, inductive without a hypothesis. Each gate holds exactly the requests
  that asked for it and have not given it up, once, and whoever has passed it is
  at its head (`KeyGatesOK`, `SessionGateOK`); what a request has found in its two
  lookups is still true when it acts (`LookedUp`); what the runtime works on is
  pinned (`PinnedOK`). `NoDoubleAdmissionHolds` follows, and `NoRequestIsStuck`:
  whoever waits for a key waits for the head of its gate, which waits at most
  for the session or for a final; the head of the session's gate and whoever
  executes wait for nobody (`KeyGateGoesOn`, `PastKeyGate`, `SessionGoesOn`).
- `TInv`, under `MaxRestarts = 0`: ledger, transcript, runtime and the two lookups
  agree, and the cached index knows what is in the transcript and no longer
  pinned. `AtMostOnceHolds` and `IndexKnowsTranscriptHolds` follow. With a restart
  both are false of the code: run `inbox_restart` is the finding.

`SessionLifecycle_proofs` proves, for any set of callers, any number of evictions
and with deletions wherever they come, `OwnerHasTheSession` and from it
`OneInstanceHolds`. `OneInstance` speaks of the controller's state and the host's
instances only; what keeps it true is where the owner is. So `IInv` says that a
call is at a step of the owner exactly if the flight is its own (`OwnerWorks`),
what state, record and instances are at each such step (`Stage`), and what they
are between two flights (`InstanceOK`: down, up, or quarantined after a failed
release). The effect of a step on the calls (`GotoEffect`, `WaitEffect`,
`SettleEffect`) is separated from the effect on the invariant (`OwnerGoesOn`,
`FlightEnds`, `Bystander`), so that an action needs only the two that fit. For
this part nothing is needed of the queues of reactions: whoever is told, and in
whatever order, is not the owner until it is admitted.

`SessionAnswers_proofs` builds on it and proves `TypeOK`, `NoForeignSuccess`,
`RestartReplaces` and `DeletedStaysDown`, under the same weak assumptions. Here
the lists of reactions are the matter, since an answer is given to whoever is
registered. `AInv` says that a waiting call is on one list, once (`QueuesOK`,
`Once`, `OnlyWaiting`); what each owner has established at each of its steps
(`Honest`: the workspace has been validated, the instance is newer than the one
found, the record is gone); what whoever shares its promise may therefore be
told (`Shared`), the joiners of a reserved restart included (`ReservedOK`); and
that what has been told stays true until the call returns (`Kept`).

`NobodyIsStuck` needs a second, smaller invariant, `LInv`: whoever waits for a
flight is registered with the promise of that flight, and whoever waits behind a
reserved restart with that of the restart, while there is one (`WaitersListed`); and an eviction, a deletion
and a drain are only where the steps before them lead (`Orderly`). Then a call that is
woken has its reaction next; a waiter waits for the owner of the flight, or for a restart
that waits for that owner; and the owner is held up by nobody, since a drain waits for
deletions only and none is in flight there (`OwnerMayGoOn`, `WaitsForOwner`). The
last step is where the hypothesis `~ DeleteInClose` is used; without it the
statement is false (run `lifecycle_delete`).

`WorkflowSeats_proofs` proves every invariant and action property of the module,
for any finite set of subagents, any order of creation, any positive limits and
any budgets. The properties compare counters of two parts that do not know each
other; what relates them is the phase of every ask. So `IInv` says (`Agreement`)
that while the run lives the gate's two sets are those the phases call for, that
nobody is parked beside an empty seat (`Seated`), and that the scheduler counts
the asks that are not idle; and that after the run only sessions being created
are left. Three lemmas carry the weight: `Filled` of `unpark` (`UnparkFills`: it
grants the free seats and no more), `Counted` of `pumpAll` (`PumpCounts`: it
starts new asks only, below the bound), and `PumpFillsRoom` (if room is left over
nobody is queued: otherwise take the eldest of those passed over; all that go
before it have been dispatched, and they already fill the room). `PumpKeeps` and
`StepKeeps` turn them into what a handler keeps (`Kept`): the invariant, no idle
room, requests within the bound, and nobody overtaken. `OneLess`, `OneMore` and
`Split` are about an order that loses, gains or divides.

`ReplayOrder_proofs` proves, for any number of branches, steps and lives and
without stops, `TypeCorrect`, `ScheduleStays`, `GateNeverWaitsInVain` and
`ReplaysAgree`. The settle order is read by a
recursive function over the log, and the first lemmas say by induction what an event more does to it: one that
is known leaves it, one that is new is its last entry (`OrderGrows`,
`OrderGrowsByOne`). The invariants build on each other:

- `Base`: a branch is in one place only, in one of the streams or waiting for one
  open node, which is the one it has called (`StreamsOK`, `WaitingOK`); only settled
  nodes are logged, parked or queued (`GateOK`, `LogOK`); and the order of this life is
  how the order of the next begins. `ScheduleStays` is this last part.
- `Agrees`: as long as the run is `Faithful`, with no crash torn and no settlement
  overtaken, there are three numbers that say where the
  life stands in the order `L` of journal and log (`Follows`): the engine has
  taken the first `t` calls, the script has read the first `c` answers, and the
  first `h` have gone out. The key is that the calls are a function of the order
  (`CallSite`, `CallBranch`): the branch that reads the *k*-th answer makes the
  call number `Branches + k`, and its ordinal is how many calls before it were of the same
  site (`Count`). So every row is that of its call in `L` (`RowsAgree`),
  `NoMismatch` and `NoPassThrough` follow, and a live answer, which comes when all
  of `L` has gone out, is the next entry of `L` for this life and for the next.
- `Moves`: every branch has reported, is in a stream or waits for an open node
  (`NoneLost`); the ordinal of a site counts the branches that are past it or wait
  there (`CallsOK`); and what is parked is ahead of the cursor but never its next
  entry, while every entry ahead that has been called is parked (`GateStops`).
- `Caused`: in the settle order the *j*-th entry is the node of one of the first
  `Branches + j - 1` calls (`Causal`), because the calls of a life grow by one with
  each answer read (`AnsweredLogged`, `ReleasedCalled`, `QueueLogged`). So in an
  idle life that has not caught up the next entry has been called: otherwise as
  many branches would have passed a site as nodes were answered there, and one
  more. It is then parked by `GateStops`, which also says that it is not. This is
  a matter of counting only, so it holds of overtaken and of torn settlements too.

The only hypothesis is that no life is ended by a stop. With stops `ReplayAgrees`
is false (run `replay_stop`), and without either of its two exceptions it is
false with crashes alone (section 4). `GateNeverWaitsInVain` needs neither exception:
whatever the order, the gate never holds an answer for an entry that nobody will
claim.

`AtomicDirectory_proofs` proves, for any set of processes, all of which may install
and read, and any number of activations, crashes and failing operations,
`TypeCorrect`, `InvariantHolds`, `NothingLostHolds` and `ReadsCommittedHolds`,
without a hypothesis. `IInv` says that `Overlap` is remembered, and that as long as
it has not happened all is `Sound`: at every boundary between two file operations
where the recorded generation is (`DiskOK`); of what is left of a plan that each
rest of it is safe to carry out and safe to be cut off (`Safe`, for the eight
plans there are); that a recovery is of a dead transaction (`RecoveryOK`); that a
marker belongs to a process at work or to a dead one (`MarkerOK`); and of each
activation, phase by phase, what is in the three places (`WritersOK`). The proof
of a step looks at the process that takes it: if the step makes an overlap there
is nothing left to show, and if not the other processes are at rest, so what they
rely on is `DiskOK` and no more. `OldBackup` names the one state in which a reader
may be told something old, a backup that outlived its commit; it takes two
failing operations (`LeftoverOK`), and `ReadsCommitted` makes that exception. TLC
agrees that `IInv` holds in the instance of run `atomic`. The theorems say nothing
of processes that overlap, where both properties are false (section 4).

Only model-checked: all liveness (`RunIsServed`, `EveryAskSettles`, `RunEnds`, ...)
and `NoCaseLeftOut`, since TLAPS has neither fairness nor ENABLED here. Every
other invariant and action property of the passing runs is stated by a theorem.

## 6. What is not modelled, and the plan

`PROJECT.json` lists the hazards with the properties that cover them. Those
without one have a note; they are among the observations above. The parts that are
not modelled have theirs, such as the MCP pool, whose idle close deletes the entry
before the adapter is closed and whose `disconnectServer` releases after an await.

What is left, in order:

1. `McpPool`: leases against the idle timer and reconnection.
2. `CommandQueue`: user, steer and notification commands against the end of a
   turn; `Interactions`: one answer per question.
3. The rest of the engine: import caches of an amended run, holds of cached asks
   behind live ones, artifacts. `SessionLifecycle` with several sessions, where
   the order of evictions matters, and `CommandInbox` over it.
4. The compaction of the relay's batch queue as a refinement of the queue in
   `AckRelay`, the generations of relay bridges, the request table of the RPC
   layer over `FifoDelivery`.
5. Proofs: the exact condition under which an abort of a queued request does no
   harm in `Governor`; `ReplaysAgree` with stops, once a stop no longer logs
   settlements; `AtomicDirectory`
   with a lock that spans the processes, under which `Overlap` cannot happen.
