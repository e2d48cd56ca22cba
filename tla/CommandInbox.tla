---------------------------- MODULE CommandInbox ----------------------------
(***************************************************************************)
(* The command inbox of the agent runtime for one session (bootstrap/src/  *)
(* zcode-protocol-v4: command-inbox.ts, persistent-command-index.ts,       *)
(* persistent-command-facts.ts), with the gateway that executes what it    *)
(* admits (v4-gateway.ts), the session_input ledger and the residency of   *)
(* the session.  A client that missed an answer sends the same command     *)
(* again or queries it; the inbox must recognise it from what is in        *)
(* flight, what is live in the runtime, an LRU of what has settled and,    *)
(* last, an index of the durable facts that is loaded once and cached.     *)
(*                                                                         *)
(* The code is single-threaded.  One action is what runs between two       *)
(* awaits.  A load of the index is one action: the promise itself is       *)
(* cached, so an invalidation that meets a load under way drops it.        *)
(***************************************************************************)
EXTENDS Integers, FiniteSets, Sequences, SequencesExt

CONSTANTS Input,             \* commands that become an input of the session
          Control,           \* commands that leave no durable fact
          NoCommand,         \* the key of a request that is not under way
          Caller,            \* requests under way at the same time
          SettledMax,        \* idempotencyTablePerSession
          MaxCalls,          \* bound: requests
          MaxCrashes,        \* bound: crashes of the process
          MaxRestarts,       \* bound: restarts of the session's runtime
          MaxDeactivations   \* bound: evictions from the resident pool

Command == Input \cup Control

ASSUME CommandAssumption == Input \cap Control = {} /\ NoCommand \notin Command
ASSUME BoundAssumption ==
    /\ SettledMax \in Nat \ {0} /\ MaxCalls \in Nat /\ MaxCrashes \in Nat
    /\ MaxRestarts \in Nat /\ MaxDeactivations \in Nat

\* Where a request is: which await it is suspended in.
Waiting == {"keyGate", "final", "lookup", "sessionGate", "lookupAgain",
            "prepare", "decide"}
Executing == {"admit", "execute", "cancel", "settle"}
\* The session: not in memory, running, its release begun, its record gone.
Residency == {"unloaded", "ready", "stopping", "released"}
\* status of a row of session_input.
Status == {"absent", "admitted", "promoted", "cancelled", "discarded", "failed"}
\* An input in the runtime: its turn or its place in the queue, and the event
\* on its way to the gateway once the ledger has been written.
InCore == {"none", "pending", "promotedEvent", "removedEvent"}

VARIABLES
  pc, command, queryOnly,  \* per request: its await, its key, handle or query
  keyGate,                 \* keyGates: requests on each key, the head holds it
  sessionGate,             \* sessionGates: requests, the head holds it
  live,                    \* liveInputs: the pinned keys
  settled,                 \* settled: keys, the least recently used first
  indexLoaded, index,      \* PersistentCommandIndex: loaded, keys it knows
  session,                 \* Residency
  core,                    \* per input, InCore
  ledger,                  \* per input, Status: durable
  entered,                 \* history: times an input entered the transcript
  calls, crashes, restarts, deactivations

requestVars == <<pc, command, queryOnly, keyGate, sessionGate>>
memoryVars == <<live, settled>>
indexVars == <<indexLoaded, index>>
boundVars == <<calls, crashes, restarts, deactivations>>
vars == <<requestVars, memoryVars, indexVars, session, core, ledger, entered, boundVars>>

Init ==
  /\ pc = [c \in Caller |-> "idle"]
  /\ command = [c \in Caller |-> NoCommand]
  /\ queryOnly = [c \in Caller |-> FALSE]
  /\ keyGate = [k \in Command |-> <<>>]
  /\ sessionGate = <<>>
  /\ live = {} /\ settled = <<>>
  /\ indexLoaded = FALSE /\ index = {}
  /\ session = "unloaded"
  /\ core = [k \in Input |-> "none"]
  /\ ledger = [k \in Input |-> "absent"]
  /\ entered = [k \in Input |-> 0]
  /\ calls = 0 /\ crashes = 0 /\ restarts = 0 /\ deactivations = 0

-----------------------------------------------------------------------------
(* The stores *)

\* inFlight has an entry for k from the decision to the settlement.
InFlight(k) == \E c \in Caller : pc[c] \in Executing /\ command[c] = k

\* Mutant: a live input is looked for among the settled only.
RememberedUnpinned(k) == k \in ToSet(settled)

\* lookupExact, the part that reads memory.
Remembered(k) == k \in live \/ k \in ToSet(settled)

\* Mutant: the table is never trimmed.
LatestAll(keys) == keys

\* The LRU keeps the SettledMax latest.
Latest(keys) ==
  SubSeq(keys, IF Len(keys) > SettledMax THEN Len(keys) - SettledMax + 1 ELSE 1, Len(keys))

\* The table without k.
Without(keys, k) ==
  IF k \in ToSet(keys) THEN RemoveAt(keys, CHOOSE i \in DOMAIN keys : keys[i] = k) ELSE keys

\* rememberSettled and touchSettled: k becomes the most recently used.
Touched(keys, k) == Latest(Append(Without(keys, k), k))

\* Mutant: the facts are read from the discarded and cancelled rows only.
FactsOfLedger(rows) == {k \in Input : rows[k] \in {"cancelled", "discarded"}}

\* loadPersistentCommandFacts: the anchors of the transcript and the cancelled
\* and discarded rows; a failed row is not among them.
Facts(rows) == {k \in Input : rows[k] \in {"promoted", "cancelled", "discarded"}}

\* settleSessionInput: only an admitted row is settled.
Settled(rows, keys, status) ==
  [k \in Input |-> IF k \in keys /\ rows[k] = "admitted" THEN status ELSE rows[k]]

\* discardAdmittedOnLoad: no record of the session is in memory.
SweepsOnLoad == session \in {"unloaded", "released"}

-----------------------------------------------------------------------------
(* A request: handle and query of the inbox *)

At(c, await) == pc[c] = await
Goto(c, await) == pc' = [pc EXCEPT ![c] = await]
HoldsSession(c) == sessionGate # <<>> /\ Head(sessionGate) = c

\* Mutant: the session gate is left to the request that has been answered.
SessionGateAfterAnswerKept(c) == sessionGate

SessionGateAfterAnswer(c) == IF HoldsSession(c) THEN Tail(sessionGate) ELSE sessionGate

\* The request ends with an answer, and gives up the gates it holds.
Answer(c) ==
  /\ Goto(c, "idle")
  /\ keyGate' = [keyGate EXCEPT ![command[c]] = IF pc[c] \in Executing THEN @ ELSE Tail(@)]
  /\ sessionGate' = SessionGateAfterAnswer(c)
  /\ command' = [command EXCEPT ![c] = NoCommand]
  /\ queryOnly' = [queryOnly EXCEPT ![c] = FALSE]

KeepGates == UNCHANGED <<command, queryOnly, keyGate, sessionGate>>

Call(c, k, query) ==
  /\ At(c, "idle") /\ calls < MaxCalls
  /\ calls' = calls + 1
  /\ Goto(c, "keyGate")
  /\ command' = [command EXCEPT ![c] = k]
  /\ queryOnly' = [queryOnly EXCEPT ![c] = query]
  /\ keyGate' = [keyGate EXCEPT ![k] = Append(@, c)]
  /\ UNCHANGED <<sessionGate, memoryVars, indexVars, session, core, ledger, entered,
                 crashes, restarts, deactivations>>

KeyGranted(c) == At(c, "keyGate") /\ Head(keyGate[command[c]]) = c

\* A duplicate of what is in flight shares its final.
AwaitFinal(c) ==
  /\ KeyGranted(c) /\ InFlight(command[c])
  /\ Goto(c, "final") /\ KeepGates
  /\ UNCHANGED <<memoryVars, indexVars, session, core, ledger, entered, boundVars>>

FinalArrives(c) ==
  /\ At(c, "final") /\ ~ InFlight(command[c])
  /\ Answer(c)
  /\ UNCHANGED <<memoryVars, indexVars, session, core, ledger, entered, boundVars>>

\* lookupExact finds the key in memory, or goes on to the durable facts.
LookupMemory(c, next) ==
  /\ IF Remembered(command[c])
     THEN /\ Answer(c)
          /\ settled' = IF command[c] \in live THEN settled ELSE Touched(settled, command[c])
     ELSE Goto(c, next) /\ KeepGates /\ UNCHANGED settled
  /\ UNCHANGED <<live, indexVars, session, core, ledger, entered, boundVars>>

FirstLookup(c) ==
  /\ KeyGranted(c) /\ ~ InFlight(command[c])
  /\ LookupMemory(c, "lookup")

\* The same once the session gate is granted.  Nothing can be in flight for
\* the key: whatever is was pinned by a holder of the key gate.
SecondLookup(c) ==
  /\ At(c, "sessionGate") /\ HoldsSession(c)
  /\ LookupMemory(c, "lookupAgain")

\* The four lookups through the index, which is loaded if it is not cached.
LookupFacts(c) ==
  LET rows == IF ~ indexLoaded /\ SweepsOnLoad
              THEN Settled(ledger, Input, "discarded") ELSE ledger
      facts == IF indexLoaded THEN index ELSE Facts(rows)
      again == At(c, "lookupAgain")
  IN /\ At(c, "lookup") \/ again
     /\ ledger' = rows /\ indexLoaded' = TRUE /\ index' = facts
     /\ IF command[c] \in facts \/ queryOnly[c] THEN Answer(c)
        ELSE /\ Goto(c, IF again THEN "prepare" ELSE "sessionGate")
             /\ sessionGate' = IF again THEN sessionGate ELSE Append(sessionGate, c)
             /\ UNCHANGED <<command, queryOnly, keyGate>>
     /\ UNCHANGED <<memoryVars, session, core, entered, boundVars>>

\* The store fails: the request is answered queryUnavailable, nothing is
\* cached, and a sweep may have got part of the way.
LookupFails(c) ==
  /\ At(c, "lookup") \/ At(c, "lookupAgain")
  /\ ~ indexLoaded
  /\ \E swept \in SUBSET Input :
        ledger' = IF SweepsOnLoad THEN Settled(ledger, swept, "discarded") ELSE ledger
  /\ Answer(c)
  /\ UNCHANGED <<memoryVars, indexVars, session, core, entered, boundVars>>

\* prepareDecision: refused while the session is being released.
Prepare(c) ==
  /\ At(c, "prepare")
  /\ IF session \in {"stopping", "released"} THEN Answer(c)
     ELSE Goto(c, "decide") /\ KeepGates
  /\ UNCHANGED <<memoryVars, indexVars, session, core, ledger, entered, boundVars>>

\* decide: the session is not there, the revision is stale, a guard rejects.
Refuse(c) ==
  /\ At(c, "decide")
  /\ Answer(c)
  /\ UNCHANGED <<memoryVars, indexVars, session, core, ledger, entered, boundVars>>

\* decide: a guard finds nothing to do, which is remembered.
Noop(c) ==
  /\ At(c, "decide") /\ session = "ready"
  /\ settled' = Touched(settled, command[c])
  /\ Answer(c)
  /\ UNCHANGED <<live, indexVars, session, core, ledger, entered, boundVars>>

\* decide: the command is pinned in flight and its key gate released; the
\* session gate stays held until the command has settled.
Allow(c) ==
  /\ At(c, "decide") /\ session = "ready"
  /\ Goto(c, IF command[c] \in Input THEN "admit" ELSE "execute")
  /\ keyGate' = [keyGate EXCEPT ![command[c]] = Tail(@)]
  /\ UNCHANGED <<command, queryOnly, sessionGate, memoryVars, indexVars, session, core,
                 ledger, entered, boundVars>>

-----------------------------------------------------------------------------
(* Execution: handleCommand of the gateway *)

\* admitCommandInput: the row is written (a row of the same id keeps its
\* status), then the input is pinned.
Admit(c) ==
  LET k == command[c]
  IN /\ At(c, "admit")
     /\ ledger' = [ledger EXCEPT ![k] = IF @ = "absent" THEN "admitted" ELSE @]
     /\ live' = live \cup {k}
     /\ settled' = Without(settled, k)
     /\ Goto(c, "execute") /\ KeepGates
     /\ UNCHANGED <<indexVars, session, core, entered, boundVars>>

\* It throws: before the row, after it, or having settled it as failed.
AdmitFails(c) ==
  LET k == command[c]
      written == [ledger EXCEPT ![k] = IF @ = "absent" THEN "admitted" ELSE @]
  IN /\ At(c, "admit")
     /\ ledger' \in {ledger, written, Settled(written, {k}, "failed")}
     /\ Goto(c, "settle") /\ KeepGates
     /\ UNCHANGED <<memoryVars, indexVars, session, core, entered, boundVars>>

\* executeCommand: the runtime starts or queues the input and runs it in the
\* background, or carries the control command out.
Execute(c) ==
  /\ At(c, "execute") /\ session \in {"ready", "stopping"}
  /\ core' = IF command[c] \in Input THEN [core EXCEPT ![command[c]] = "pending"] ELSE core
  /\ Goto(c, "settle") /\ KeepGates
  /\ UNCHANGED <<memoryVars, indexVars, session, ledger, entered, boundVars>>

\* executeCommand throws, before the runtime has taken the input.
ExecuteFails(c) ==
  /\ At(c, "execute")
  /\ Goto(c, IF command[c] \in Input THEN "cancel" ELSE "settle") /\ KeepGates
  /\ UNCHANGED <<memoryVars, indexVars, session, core, ledger, entered, boundVars>>

\* cancelDurableInput, whose failure is only reported; then the pin is
\* released and the command settled.
Cancel(c) ==
  /\ At(c, "cancel")
  /\ ledger' \in {ledger, Settled(ledger, {command[c]}, "cancelled")}
  /\ live' = live \ {command[c]}
  /\ settled' = Touched(settled, command[c])
  /\ Answer(c)
  /\ UNCHANGED <<indexVars, session, core, entered, boundVars>>

\* settle: the final goes to the pin or to the LRU.
Settle(c) ==
  /\ At(c, "settle")
  /\ settled' = IF command[c] \in live THEN settled ELSE Touched(settled, command[c])
  /\ Answer(c)
  /\ UNCHANGED <<live, indexVars, session, core, ledger, entered, boundVars>>

Request(c) ==
  \/ AwaitFinal(c) \/ FinalArrives(c) \/ FirstLookup(c) \/ SecondLookup(c)
  \/ LookupFacts(c) \/ LookupFails(c)
  \/ Prepare(c) \/ Refuse(c) \/ Noop(c) \/ Allow(c)
  \/ Admit(c) \/ AdmitFails(c) \/ Execute(c) \/ ExecuteFails(c)
  \/ Cancel(c) \/ Settle(c)

-----------------------------------------------------------------------------
(* The runtime *)

\* promoteSessionInput: the user message and the status, in one transaction
\* that does not look at the status it replaces.
Promote(k) ==
  /\ core[k] = "pending"
  /\ core' = [core EXCEPT ![k] = "promotedEvent"]
  /\ ledger' = [ledger EXCEPT ![k] = "promoted"]
  /\ entered' = [entered EXCEPT ![k] = @ + 1]
  /\ UNCHANGED <<requestVars, memoryVars, indexVars, session, boundVars>>

\* The user removes a queued input: the row is settled first (clearing the
\* whole queue tolerates that this fails).
RemoveQueued(k) ==
  /\ core[k] = "pending" /\ session \in {"ready", "stopping"}
  /\ core' = [core EXCEPT ![k] = "removedEvent"]
  /\ ledger' \in {ledger, Settled(ledger, {k}, "cancelled")}
  /\ UNCHANGED <<requestVars, memoryVars, indexVars, session, entered, boundVars>>

\* The turn ends before it has recorded its input: a hook blocks it, an
\* attachment cannot be read, the runtime shuts down.
EndUnrecorded(k) ==
  /\ core[k] = "pending"
  /\ core' = [core EXCEPT ![k] = "none"]
  /\ UNCHANGED <<requestVars, memoryVars, indexVars, session, ledger, entered, boundVars>>

\* Mutant: the pin is released without dropping the index.
IndexLoadedAfterEventKept == indexLoaded

IndexLoadedAfterEvent == FALSE

\* The gateway gets the event: the index is dropped, then the pin released.
EventArrives(k) ==
  /\ core[k] \in {"promotedEvent", "removedEvent"} /\ session \in {"ready", "stopping"}
  /\ core' = [core EXCEPT ![k] = "none"]
  /\ indexLoaded' = IndexLoadedAfterEvent
  /\ live' = live \ {k}
  /\ settled' = IF k \in live THEN Touched(settled, k) ELSE settled
  /\ UNCHANGED <<requestVars, index, session, ledger, entered, boundVars>>

\* ... or has unsubscribed from the runtime by then.
EventDropped(k) ==
  /\ core[k] \in {"promotedEvent", "removedEvent"} /\ session = "released"
  /\ core' = [core EXCEPT ![k] = "none"]
  /\ UNCHANGED <<requestVars, memoryVars, indexVars, session, ledger, entered, boundVars>>

Runtime(k) ==
  Promote(k) \/ RemoveQueued(k) \/ EndUnrecorded(k) \/ EventArrives(k) \/ EventDropped(k)

-----------------------------------------------------------------------------
(* Residency *)

\* The runtime is built; what the last one left admitted is swept, as far as
\* the store lets it.
Activate ==
  /\ session = "unloaded"
  /\ session' = "ready"
  /\ \E swept \in SUBSET Input : ledger' = Settled(ledger, swept, "discarded")
  /\ UNCHANGED <<requestVars, memoryVars, indexVars, core, entered, boundVars>>

\* The resident pool evicts a session that nothing uses: no request is under
\* way in the process and nothing is pinned.  clearSession forgets the LRU.
Deactivate ==
  /\ session = "ready" /\ deactivations < MaxDeactivations
  /\ \A c \in Caller : At(c, "idle")
  /\ live = {} /\ \A k \in Input : core[k] = "none"
  /\ deactivations' = deactivations + 1
  /\ session' = "unloaded"
  /\ settled' = <<>>
  /\ UNCHANGED <<requestVars, live, indexVars, core, ledger, entered,
                 calls, crashes, restarts>>

Restart ==
  /\ session = "ready" /\ restarts < MaxRestarts
  /\ restarts' = restarts + 1
  /\ session' = "stopping"
  /\ UNCHANGED <<requestVars, memoryVars, indexVars, core, ledger, entered,
                 calls, crashes, deactivations>>

\* releaseSessionRecord: unsubscribed, out of the registry; the runtime closes.
Release ==
  /\ session = "stopping"
  /\ session' = "released"
  /\ UNCHANGED <<requestVars, memoryVars, indexVars, core, ledger, entered, boundVars>>

\* Mutant: the release waits until no input is pinned any more.
DrainedOfPins == live = {} /\ \A k \in Command : ~ InFlight(k)

\* The runtime is closed and every command has settled.
Drained == (\A k \in Input : core[k] = "none") /\ \A k \in Command : ~ InFlight(k)

\* resetReleasedSession: what is pinned or remembered then is forgotten.
FinishRelease ==
  /\ session = "released"
  /\ Drained
  /\ session' = "unloaded"
  /\ live' = {} /\ settled' = <<>>
  /\ UNCHANGED <<requestVars, indexVars, core, ledger, entered, boundVars>>

\* Only the ledger and the transcript survive a crash.
Crash ==
  /\ crashes < MaxCrashes
  /\ crashes' = crashes + 1
  /\ pc' = [c \in Caller |-> "idle"]
  /\ command' = [c \in Caller |-> NoCommand] /\ queryOnly' = [c \in Caller |-> FALSE]
  /\ keyGate' = [k \in Command |-> <<>>] /\ sessionGate' = <<>>
  /\ live' = {} /\ settled' = <<>> /\ indexLoaded' = FALSE /\ index' = {}
  /\ session' = "unloaded"
  /\ core' = [k \in Input |-> "none"]
  /\ UNCHANGED <<ledger, entered, calls, restarts, deactivations>>

Next ==
  \/ \E c \in Caller : Request(c) \/ \E k \in Command, q \in BOOLEAN : Call(c, k, q)
  \/ \E k \in Input : Runtime(k)
  \/ Activate \/ Deactivate \/ Restart \/ Release \/ FinishRelease \/ Crash

Spec == Init /\ [][Next]_vars

\* Every await ends: the store, the executor and the runtime answer or throw,
\* a runtime that closes ends its turns and delivers or drops its events.
FairSpec ==
  /\ Spec
  /\ \A c \in Caller : WF_vars(Request(c))
  /\ WF_vars(Release) /\ WF_vars(FinishRelease)
  /\ \A k \in Input : WF_vars(session = "released" /\ Runtime(k))

-----------------------------------------------------------------------------
(* Properties *)

\* Every variable keeps its type; the table of settled commands stays within
\* its limit and holds a key once.
TypeOK ==
  /\ pc \in [Caller -> {"idle"} \cup Waiting \cup Executing]
  /\ command \in [Caller -> Command \cup {NoCommand}] /\ queryOnly \in [Caller -> BOOLEAN]
  /\ keyGate \in [Command -> Seq(Caller)] /\ sessionGate \in Seq(Caller)
  /\ live \subseteq Input
  /\ settled \in Seq(Command) /\ Len(settled) <= SettledMax /\ IsInjective(settled)
  /\ indexLoaded \in BOOLEAN /\ index \subseteq Input
  /\ session \in Residency
  /\ core \in [Input -> InCore] /\ ledger \in [Input -> Status]
  /\ entered \in [Input -> Nat]

\* However often a command is sent, evicted from the LRU or asked about, and
\* wherever the process crashes, its input enters the transcript at most once.
AtMostOnceInTranscript == \A k \in Input : entered[k] <= 1

\* A command is admitted only if no earlier admission of it is still at work:
\* not in another request, not in the runtime, not pinned; and of the whole
\* session only one command executes at a time.
NoDoubleAdmission ==
  /\ \A c \in Caller : pc[c] \in {"prepare", "decide", "admit"} =>
        /\ ~ \E d \in Caller \ {c} : pc[d] \in Executing /\ command[d] = command[c]
        /\ command[c] \in Input => core[command[c]] = "none" /\ command[c] \notin live
  /\ Cardinality({c \in Caller : pc[c] \in Executing}) <= 1

\* An input that is no longer pinned is known to a cached index once it is in
\* the transcript: this is why the LRU may forget it.
IndexKnowsTranscript ==
  \A k \in Input : ledger[k] = "promoted" /\ k \notin live /\ indexLoaded /\ core[k] = "none"
                     => k \in index

\* It is the turn of c: no other request keeps it from its next step.
HasTurn(c) ==
  \/ KeyGranted(c)
  \/ At(c, "final") /\ ~ InFlight(command[c])
  \/ At(c, "sessionGate") /\ HoldsSession(c)
  \/ pc[c] \in (Waiting \cup Executing) \ {"keyGate", "final", "sessionGate"}

\* The two gates and the shared final never have all the requests under way
\* wait for each other, whatever requests, evictions, failing stores, restarts
\* and crashes meet: it is always the turn of one of them.
NoRequestStuck == (\A c \in Caller : At(c, "idle")) \/ \E c \in Caller : HasTurn(c)

\* Every request is answered: the two gates and the shared final never leave
\* requests waiting for each other.
EveryCallAnswered == \A c \in Caller : pc[c] # "idle" ~> pc[c] = "idle"

\* A restart of the runtime is not held up for ever by the commands it waits for.
RestartCompletes == session = "stopping" ~> session = "unloaded"
=============================================================================
