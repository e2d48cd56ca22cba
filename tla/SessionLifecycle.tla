-------------------------- MODULE SessionLifecycle --------------------------
(***************************************************************************)
(* The owner of the running instance of one persisted session (bootstrap/  *)
(* src/session-lifecycle/controller.ts) with the host that builds and      *)
(* releases it (zcode-protocol/session-residency.ts, server-operations.ts),*)
(* the requests that ask for it (server.ts), the deletion of the session   *)
(* (v4-bridge.ts) and the resident pool that evicts it (session-resident-  *)
(* pool.ts).                                                               *)
(*                                                                         *)
(* The code is single-threaded.  One action is what runs between two       *)
(* awaits.  One operation at a time owns the session: its flight.  Other   *)
(* calls share its promise, wait behind it or are refused; the reactions   *)
(* on a promise run in the order in which they were registered.            *)
(***************************************************************************)
EXTENDS Integers, Sequences, FiniteSets

CONSTANTS Caller,          \* bound: the requests, each made once
          Pool,            \* the resident pool, which evicts
          None,            \* no caller, no workspace
          Own, Other,      \* the session's workspace and another one
          DeleteInClose,   \* may a deletion overlap a stop, a restart or a closing?
          MaxEvictions     \* bound

Actor == Caller \cup {Pool}
Workspace == {Own, Other}

ASSUME ActorAssumption == Pool \notin Caller /\ None \notin Actor \cup Workspace /\ Own # Other
ASSUME BoundAssumption == DeleteInClose \in BOOLEAN /\ MaxEvictions \in Nat

\* What a call has the controller do.  "initialize" is a resume or a cold
\* opening; "prepare" and "delete" are the two halves of the deleteSession
\* command; "close" and "deactivate" are, like "delete", a dispose.
Starting == {"ensureReady", "initialize", "prepare"}
Dispose == {"close", "delete", "deactivate"}
Task == Starting \cup Dispose \cup {"stop", "restart"}
Operation(t) == IF t \in Starting THEN "ensureReady" ELSE IF t = "restart" THEN t ELSE "stop"

\* The mode of releaseSessionRecord for each task but the cleanup of a failed
\* activation, which is "discard".
Mode(t) == IF t \in {"delete", "deactivate"} THEN t ELSE "close"

\* Where a call is: at rest, in the request around the lifecycle, waiting for
\* another one's promise, or at work as the owner of the flight.
Rest == {"idle", "ok", "failed"}
Around == {"lease", "decide", "execute", "softDeleted"}
Waiting == {"joined", "joinedUnchecked", "afterStop", "reserved"}
Working == {"validateJoined", "exists", "validate", "activate", "resume", "pause", "closeApp", "drain",
            "released", "reactivate", "resolve", "reject"}

\* The session/lifecycle requests, and what may be asked with a workspace.
LifecycleRequest == {"ensureReady", "stop", "restart"}
Requests == [task : {"ensureReady", "initialize", "restart"}, workspace : Workspace \cup {None}]
            \cup [task : {"prepare", "close", "stop"}, workspace : {None}]

VARIABLES
  state,       \* snapshot.state
  generation,  \* snapshot.generation
  flight,      \* entry.flight: the call that owns it
  pending,     \* entry.restartAfterStartup: the call that reserved it
  record,      \* the session is in the registry of the process
  apps,        \* instances built and not known to be closed
  deleted,     \* the persisted session is softly deleted
  call,        \* per actor: task, workspace, pc, ...
  reactions,   \* per actor: calls that wait for its promise, as they came
  woken,       \* reactions of settled promises, still to run
  evictions

sessionVars == <<state, generation, flight, pending>>
hostVars == <<record, apps, deleted>>
queueVars == <<reactions, woken>>
vars == <<sessionVars, hostVars, call, queueVars, evictions>>

NoCall == [task |-> "ensureReady", workspace |-> None, pc |-> "idle",
           mode |-> "close", failed |-> FALSE, found |-> 0]

Init ==
  /\ state = "unloaded" /\ generation = 0
  /\ flight = None /\ pending = None
  /\ record = FALSE /\ apps = 0 /\ deleted = FALSE
  /\ call = [c \in Actor |-> NoCall]
  /\ reactions = [c \in Actor |-> <<>>] /\ woken = <<>> /\ evictions = 0

-----------------------------------------------------------------------------
(* Calls and promises *)

At(c, pc) == call[c].pc = pc
AtRest(c) == call[c].pc \in Rest

IsReady == state = "ready" /\ pending = None
SessionExists == record /\ IsReady

\* A command is in flight in the inbox from its decision to its settlement.
InFlight(c) == call[c].task = "delete" /\ ~ AtRest(c)

\* Mutant: only the first of those who wait for c is told.
WaitersFirst(c) == IF reactions[c] = <<>> THEN <<>> ELSE <<Head(reactions[c])>>

\* Those who wait for the promise of c.
Waiters(c) == reactions[c]

\* c is the next reaction to run.  Nothing else runs before the reactions have,
\* nor between the end of a flight's work and its settlement.
Reacts(c) == woken # <<>> /\ Head(woken).who = c
Quiet == woken = <<>> /\ \A c \in Actor : ~ call[c].pc \in {"resolve", "reject"}

WokenRest(c) == IF Reacts(c) THEN Tail(woken) ELSE woken

\* The promise of c settles.  A deleteSession command goes on from there.
Settle(c, ok) ==
  /\ call' = [call EXCEPT ![c] =
        IF ok THEN [@ EXCEPT !.mode = "close", !.failed = FALSE,
                             !.pc = IF call[c].task = "prepare" THEN "decide" ELSE "ok"]
        ELSE [NoCall EXCEPT !.pc = "failed"]]
  /\ woken' = WokenRest(c) \o [i \in 1..Len(Waiters(c)) |-> [who |-> Waiters(c)[i], ok |-> ok]]
  /\ reactions' = [reactions EXCEPT ![c] = <<>>]

\* c goes on by itself.
Goto(c, pc) ==
  /\ call' = [call EXCEPT ![c].pc = pc]
  /\ woken' = WokenRest(c)
  /\ UNCHANGED reactions

\* c waits for the promise of owner.  A restart that shares another restart is
\* as fresh as that one.
WaitFor(c, owner, pc) ==
  /\ call' = [call EXCEPT ![c].pc = pc,
        ![c].found = IF pc \in {"joined", "joinedUnchecked"} /\ call[owner].task = "restart"
                     THEN call[owner].found ELSE @]
  /\ woken' = WokenRest(c)
  /\ reactions' = [reactions EXCEPT ![owner] = Append(@, c)]

-----------------------------------------------------------------------------
(* The work of the owner of the flight *)

\* host.activate or the given initialization is about to run.
Activate(c) ==
  /\ generation' = generation + 1 /\ state' = "starting"
  /\ Goto(c, "activate")
  /\ UNCHANGED hostVars

\* Mutant: the release of a session without an instance goes all the way.
FirstStageAlways(mode) == IF mode = "close" THEN "pause" ELSE "closeApp"

\* Where a release goes first; without a record there is nothing to close.
FirstStage(mode) ==
  IF record THEN IF mode = "close" THEN "pause" ELSE "closeApp"
  ELSE IF mode = "close" THEN "drain" ELSE "released"

\* releaseSessionRecord up to its first await.  All modes but "close" take the
\* record out of the registry in this step.
Release(c, mode) ==
  /\ state' = "stopping"
  /\ record' = (record /\ mode = "close")
  /\ call' = [call EXCEPT ![c].mode = mode, ![c].pc = FirstStage(mode)]
  /\ woken' = WokenRest(c)
  /\ UNCHANGED <<generation, apps, deleted, reactions>>

\* c registers its flight and starts its work.
Begin(c) ==
  LET task == call[c].task
      stays(pc) == Goto(c, pc) /\ UNCHANGED <<state, generation, hostVars>>
  IN /\ flight' = c
     /\ \/ task \in LifecycleRequest /\ stays("exists")
        \/ /\ task \in {"initialize", "prepare"}
           /\ IF call[c].workspace # None THEN stays("validate")
              ELSE IF state = "ready" THEN stays("resolve") ELSE Activate(c)
        \/ /\ task \in Dispose
           /\ IF state = "unloaded" THEN stays("resolve") ELSE Release(c, Mode(task))

CheckExists(c) ==
  /\ Quiet /\ At(c, "exists")
  /\ IF deleted THEN Goto(c, "reject") /\ UNCHANGED <<state, generation, hostVars>>
     ELSE IF call[c].task = "stop" THEN Release(c, "close")
     ELSE Goto(c, "validate") /\ UNCHANGED <<state, generation, hostVars>>
  /\ UNCHANGED <<flight, pending, evictions>>

\* validateSessionActivationWorkspace: the live record says whose the session
\* is, or else the persisted session unless it is deleted.
Valid(c) == call[c].workspace = None \/ (call[c].workspace = Own /\ (record \/ ~ deleted))

Validate(c) ==
  /\ Quiet /\ At(c, "validate")
  /\ IF ~ Valid(c) THEN Goto(c, "reject") /\ UNCHANGED <<state, generation, hostVars>>
     ELSE IF call[c].task = "restart" THEN Release(c, "close")
     ELSE IF state = "ready" THEN Goto(c, "resolve") /\ UNCHANGED <<state, generation, hostVars>>
     ELSE Activate(c)
  /\ UNCHANGED <<flight, pending, evictions>>

\* Mutant: the activation does not look at whether the session is deleted.
ActivatableAlways == TRUE

Activatable == ~ deleted

\* activateSessionRuntime, up to the registration of the new record.
Materialize(c) ==
  /\ Quiet /\ At(c, "activate") /\ Activatable
  /\ record' = TRUE /\ apps' = apps + 1
  /\ Goto(c, "resume")
  /\ UNCHANGED <<sessionVars, deleted, evictions>>

Resume(c) ==
  /\ Quiet /\ At(c, "resume")
  /\ state' = "ready"
  /\ Goto(c, "resolve")
  /\ UNCHANGED <<generation, flight, pending, hostVars, evictions>>

\* The session is deleted, or a step of its activation fails.
ActivationFails(c) ==
  /\ Quiet /\ (At(c, "activate") \/ At(c, "resume"))
  /\ Release(c, "discard")
  /\ UNCHANGED <<flight, pending, evictions>>

\* The running work is paused (which may fail); then the record leaves the
\* registry, before the instance is closed.
Pause(c) ==
  /\ Quiet /\ At(c, "pause")
  /\ record' = FALSE
  /\ \E broken \in BOOLEAN :
       call' = [call EXCEPT ![c].pc = "closeApp", ![c].failed = broken]
  /\ UNCHANGED <<sessionVars, apps, deleted, queueVars, evictions>>

\* app.close; when it fails the instance may be left running.
CloseApp(c) ==
  /\ Quiet /\ At(c, "closeApp")
  /\ \/ /\ apps' = apps - 1
        /\ Goto(c, IF call[c].mode = "close" THEN "drain" ELSE "released")
     \/ /\ apps' \in {apps, apps - 1}
        /\ call' = [call EXCEPT ![c].pc = "released", ![c].failed = TRUE]
        /\ UNCHANGED queueVars
  /\ UNCHANGED <<sessionVars, record, deleted, evictions>>

\* resetReleasedSession: the commands in flight have to settle first.
Drained == \A d \in Caller : ~ InFlight(d)

Drain(c) ==
  /\ Quiet /\ At(c, "drain") /\ Drained
  /\ Goto(c, "released")
  /\ UNCHANGED <<sessionVars, hostVars, evictions>>

\* Mutant: an instance whose release failed counts as gone.
AfterReleaseGone(c) == "unloaded"

\* A failed release quarantines the session.
AfterRelease(c) == IF call[c].failed THEN "faulted" ELSE "unloaded"

Released(c) ==
  /\ Quiet /\ At(c, "released")
  /\ state' = AfterRelease(c)
  /\ Goto(c, IF call[c].failed \/ call[c].mode = "discard" THEN "reject"
             ELSE IF call[c].task = "restart" THEN "reactivate" ELSE "resolve")
  /\ UNCHANGED <<generation, flight, pending, hostVars, evictions>>

Reactivate(c) ==
  /\ Quiet /\ At(c, "reactivate")
  /\ Activate(c)
  /\ UNCHANGED <<flight, pending, evictions>>

EndFlight(c) ==
  /\ woken = <<>> /\ (At(c, "resolve") \/ At(c, "reject"))
  /\ flight' = None
  /\ Settle(c, At(c, "resolve"))
  /\ UNCHANGED <<state, generation, pending, hostVars, evictions>>

-----------------------------------------------------------------------------
(* Admission: one operation at a time owns the session *)

Wanted(c) == Operation(call[c].task)
Running(operation) == flight # None /\ Operation(call[flight].task) = operation

\* The workspace asked for is not that of the operation under way, or of the
\* restart that waits behind it.
Conflict(c) ==
  \E d \in {flight, pending} \ {None, c} :
    /\ call[c].workspace # None /\ call[d].workspace # None
    /\ call[c].workspace # call[d].workspace

\* Mutant: a restart is content with a start that is under way.
SharesAny(c) == Running(Wanted(c)) \/ Running("restart") \/ (Running("ensureReady") /\ Wanted(c) = "restart")

\* The operation under way does what c asks for.
Shares(c) == Running(Wanted(c)) \/ (Wanted(c) = "ensureReady" /\ Running("restart"))

\* c shares the reserved restart; c starts once the stop has ended; c is
\* reserved behind the start.  Only the session/lifecycle requests look at a
\* reserved restart.
SharesReserved(c) == pending \notin {None, c} /\ call[c].task \in {"ensureReady", "restart"}
AfterStop(c) == Wanted(c) = "ensureReady" /\ Running("stop")
Reserves(c) == Wanted(c) = "restart" /\ ~ Shares(c) /\ Running("ensureReady")
Waits(c) == SharesReserved(c) \/ AfterStop(c) \/ Reserves(c) \/ Shares(c)

Refused(c) ==
  \/ Conflict(c)
  \/ Wanted(c) = "stop" /\ pending # None
  \/ ~ Waits(c) /\ (flight # None \/ state = "faulted")

\* Mutant: who shares a promise is never checked.
JoinTrusting(c, owner) == "joined"

\* Who names a workspace and shares an operation that names none is checked
\* when that operation is over.
Join(c, owner) ==
  IF call[c].workspace # None /\ call[owner].workspace = None THEN "joinedUnchecked" ELSE "joined"

\* ensureReady, initialize, restart and dispose, up to their first await.  A
\* reserved restart gives its place up and asks again.
Admit(c) ==
  LET left == IF pending = c THEN None ELSE pending
      stays == UNCHANGED <<state, generation, flight, hostVars>>
  IN \/ Refused(c) /\ Settle(c, FALSE) /\ pending' = left /\ stays
     \/ /\ ~ Refused(c) /\ SharesReserved(c)
        /\ WaitFor(c, pending, Join(c, pending)) /\ pending' = left /\ stays
     \/ /\ ~ Refused(c) /\ ~ SharesReserved(c) /\ AfterStop(c)
        /\ WaitFor(c, flight, "afterStop") /\ pending' = left /\ stays
     \/ /\ ~ Refused(c) /\ ~ SharesReserved(c) /\ Reserves(c)
        /\ WaitFor(c, flight, "reserved") /\ pending' = c /\ stays
     \/ /\ ~ Refused(c) /\ ~ SharesReserved(c) /\ Shares(c)
        /\ WaitFor(c, flight, Join(c, flight)) /\ pending' = left /\ stays
     \/ ~ Refused(c) /\ ~ Waits(c) /\ Begin(c) /\ pending' = left

\* The promise c waits for has settled.
React(c) ==
  /\ Reacts(c)
  /\ LET ok == Head(woken).ok
         stays == UNCHANGED <<sessionVars, hostVars>>
     IN \/ At(c, "reserved") /\ Admit(c)
        \/ At(c, "afterStop") /\ ok /\ Admit(c)
        \/ At(c, "afterStop") /\ ~ ok /\ Settle(c, FALSE) /\ stays
        \/ At(c, "joinedUnchecked") /\ ok /\ Goto(c, "validateJoined") /\ stays
        \/ At(c, "joinedUnchecked") /\ ~ ok /\ Settle(c, FALSE) /\ stays
        \/ At(c, "joined") /\ Settle(c, ok) /\ stays
  /\ UNCHANGED evictions

ValidateJoined(c) ==
  /\ Quiet /\ At(c, "validateJoined")
  /\ Settle(c, Valid(c))
  /\ UNCHANGED <<sessionVars, hostVars, evictions>>

-----------------------------------------------------------------------------
(* The requests *)

Overlaps(task, other) ==
  task \in {"prepare", "delete"} /\ other \in {"close", "stop", "restart"}

\* A request comes in and takes its process-wide lease.
Request(c) ==
  /\ Quiet /\ At(c, "idle")
  /\ \E r \in Requests :
       /\ DeleteInClose \/ \A d \in Caller : ~ AtRest(d) =>
            ~ Overlaps(r.task, call[d].task) /\ ~ Overlaps(call[d].task, r.task)
       /\ call' = [call EXCEPT ![c] =
            [NoCall EXCEPT !.task = r.task, !.workspace = r.workspace, !.pc = "lease",
                           !.found = IF r.task = "restart" THEN generation ELSE 0]]
  /\ UNCHANGED <<sessionVars, hostVars, queueVars, evictions>>

\* The lease waits for an eviction of the session, but not that of a
\* session/lifecycle request.
Leased(c) == Quiet /\ At(c, "lease") /\ (AtRest(Pool) \/ call[c].task \in LifecycleRequest)

Refuse(c) == Settle(c, FALSE) /\ UNCHANGED <<sessionVars, hostVars>>

Enter(c) ==
  /\ Leased(c) /\ call[c].task \in LifecycleRequest \cup {"initialize"}
  /\ Admit(c)
  /\ UNCHANGED evictions

\* Mutant: the closing of a session that has no instance is not answered.
EnterCloseLive(c) ==
  Leased(c) /\ call[c].task = "close" /\ SessionExists /\ Admit(c) /\ UNCHANGED evictions

EnterClose(c) ==
  /\ Leased(c) /\ call[c].task = "close"
  /\ IF SessionExists THEN Admit(c) ELSE Refuse(c)
  /\ UNCHANGED evictions

\* prepareDecision of a deleteSession command, one per session at a time: a
\* stopping session refuses it, a cold one is started for it.
OnlyDelete(c) ==
  \A d \in Caller \ {c} : call[d].task \in {"prepare", "delete"} => AtRest(d) \/ At(d, "lease")

EnterDelete(c) ==
  /\ Leased(c) /\ call[c].task = "prepare" /\ OnlyDelete(c)
  /\ \/ state = "stopping" /\ Refuse(c)
     \/ state # "stopping" /\ ~ SessionExists /\ Admit(c)
     \/ SessionExists /\ Goto(c, "decide") /\ UNCHANGED <<sessionVars, hostVars>>
  /\ UNCHANGED evictions

\* The inbox takes the command in; a session that only has its history open
\* may do for it.
Decide(c) ==
  /\ Quiet /\ At(c, "decide")
  /\ \/ ~ SessionExists /\ Refuse(c)
     \/ /\ record
        /\ call' = [call EXCEPT ![c].pc = "execute", ![c].task = "delete"]
        /\ UNCHANGED <<sessionVars, hostVars, queueVars>>
  /\ UNCHANGED evictions

\* deleteSession of the bridge writes the soft deletion ...
SoftDelete(c) ==
  /\ Quiet /\ At(c, "execute")
  /\ \/ ~ record /\ Refuse(c)
     \/ /\ record
        /\ deleted' = TRUE
        /\ Goto(c, "softDeleted")
        /\ UNCHANGED <<sessionVars, record, apps>>
  /\ UNCHANGED evictions

\* ... and then releases the instance, if there is one left.
DisposeDeleted(c) ==
  /\ Quiet /\ At(c, "softDeleted")
  /\ \/ ~ record /\ Settle(c, TRUE) /\ UNCHANGED <<sessionVars, hostVars>>
     \/ record /\ Admit(c)
  /\ UNCHANGED evictions

\* The resident pool evicts an idle session: no request is under way anywhere
\* in the process.
Evict ==
  /\ Quiet /\ \A c \in Actor : AtRest(c)
  /\ SessionExists /\ evictions < MaxEvictions
  /\ flight' = Pool
  /\ state' = "stopping" /\ record' = FALSE
  /\ call' = [call EXCEPT ![Pool] = [@ EXCEPT !.task = "deactivate", !.mode = "deactivate",
                                              !.pc = "closeApp", !.failed = FALSE]]
  /\ evictions' = evictions + 1
  /\ UNCHANGED <<generation, pending, apps, deleted, queueVars>>

-----------------------------------------------------------------------------

Work(c) ==
  \/ CheckExists(c) \/ Validate(c) \/ Materialize(c) \/ Resume(c) \/ ActivationFails(c)
  \/ Pause(c) \/ CloseApp(c) \/ Drain(c) \/ Released(c) \/ Reactivate(c) \/ EndFlight(c)

Step(c) ==
  \/ Work(c) \/ React(c) \/ ValidateJoined(c) \/ Enter(c) \/ EnterClose(c) \/ EnterDelete(c)
  \/ Decide(c) \/ SoftDelete(c) \/ DisposeDeleted(c)

Next ==
  \/ \E c \in Actor : Work(c)
  \/ \E c \in Caller : React(c) \/ ValidateJoined(c)
  \/ \E c \in Caller : Request(c) \/ Enter(c) \/ EnterClose(c) \/ EnterDelete(c)
  \/ \E c \in Caller : Decide(c) \/ SoftDelete(c) \/ DisposeDeleted(c)
  \/ Evict

Spec == Init /\ [][Next]_vars

-----------------------------------------------------------------------------
(* Properties *)

TypeOK ==
  /\ state \in {"unloaded", "starting", "ready", "stopping", "faulted"}
  /\ generation \in Nat /\ apps \in Nat /\ evictions \in 0..MaxEvictions
  /\ flight \in Actor \cup {None} /\ pending \in Caller \cup {None}
  /\ record \in BOOLEAN /\ deleted \in BOOLEAN
  /\ call \in [Actor -> [task : Task, workspace : Workspace \cup {None},
                         pc : Rest \cup Around \cup Waiting \cup Working,
                         mode : {"close", "delete", "deactivate", "discard"},
                         failed : BOOLEAN, found : Nat]]
  /\ reactions \in [Actor -> Seq(Caller)]
  /\ woken \in Seq([who : Caller, ok : BOOLEAN])

\* There is never more than one instance of the session in the process, a
\* failed closing included; a ready session has one that is registered, and an
\* unloaded one has none, registered or not.
OneInstance ==
  /\ apps <= 1
  /\ state = "ready" => record /\ apps = 1
  /\ state = "unloaded" => ~ record /\ apps = 0

\* A call that names a workspace the session does not belong to is never told
\* that it succeeded, whichever operation of others it shared or waited for.
NoForeignSuccess == \A c \in Caller : At(c, "ok") => call[c].workspace # Other

\* A restart that succeeded was answered by an activation that began after it
\* was asked for (or after the restart whose promise it shares was), never by
\* a start that was already under way.
RestartReplaces ==
  \A c \in Caller : At(c, "ok") /\ call[c].task = "restart" => generation > call[c].found

\* Once a deletion is answered, the session has no instance and gets none back,
\* whoever was starting it or asks for it afterwards.
DeletedStaysDown ==
  (\E c \in Caller : At(c, "ok") /\ call[c].task = "delete") =>
    deleted /\ ~ record /\ state # "ready"

\* It is the turn of c, and nothing holds it up.
MayGoOn(c) ==
  \/ Reacts(c)
  \/ woken = <<>> /\ call[c].pc \in {"resolve", "reject"}
  \/ Quiet /\ call[c].pc \in (Around \cup Working) \ {"lease", "drain", "resolve", "reject"}
  \/ Quiet /\ At(c, "drain") /\ Drained
  \/ Leased(c) /\ (call[c].task = "prepare" => OnlyDelete(c))

\* While a call or an eviction is under way it is the turn of somebody who is
\* not held up: no two of them wait for each other (the drain of a release for
\* a deletion that shares the release), and nobody waits for a promise that
\* nobody settles.
NobodyStuck == (\A c \in Actor : AtRest(c)) \/ \E c \in Actor : MayGoOn(c)

\* Whose turn it is has a way to go on: the admission, the reactions on a
\* settled promise and the requests around them leave no case out in which a
\* call would never be answered.
NoCaseLeftOut == \A c \in Actor : MayGoOn(c) <=> ENABLED Step(c)

=============================================================================
