----------------------- MODULE SessionLifecycle_proofs -----------------------
(* What holds of the owner of a session for every number of requests and    *)
(* evictions, deletions included: there is never more than one instance.     *)
EXTENDS SessionLifecycle, TLAPS

\* The steps that only the owner of the flight takes.
OwnWork == Working \ {"validateJoined"}

Place == Rest \cup Around \cup Waiting \cup Working

CallRecord ==
  [task : Task, workspace : Workspace \cup {None}, pc : Place,
   mode : {"close", "delete", "deactivate", "discard"},
   failed : BOOLEAN, found : Nat]

CallOK ==
  /\ call \in [Actor -> CallRecord]
  /\ generation \in Nat
  /\ flight \in Actor \cup {None} /\ pending \in Caller \cup {None}

\* The flight is that of the call which is at work, and there is only one.
OwnerWorks == \A c \in Actor : call[c].pc \in OwnWork <=> flight = c

\* No instance; one that is registered; one that may be left behind.
Down == state = "unloaded" /\ ~ record /\ apps = 0
Up == state = "ready" /\ record /\ apps = 1
Quarantined == state = "faulted" /\ ~ record /\ apps \in {0, 1}

\* What the owner finds at each of its steps.
Stage(pc, failed) ==
  /\ pc \in {"exists", "validate", "resolve"} => Down \/ Up
  /\ pc = "reject" => Down \/ Up \/ Quarantined
  /\ pc = "activate" => state = "starting" /\ ~ record /\ apps = 0
  /\ pc = "resume" => state = "starting" /\ record /\ apps = 1
  /\ pc = "pause" => state = "stopping" /\ record /\ apps = 1
  /\ pc = "closeApp" => state = "stopping" /\ ~ record /\ apps = 1
  /\ pc = "drain" => state = "stopping" /\ ~ record /\ apps = 0
  /\ pc = "released" => state = "stopping" /\ ~ record /\ apps \in {0, 1} /\ (~ failed => apps = 0)
  /\ pc = "reactivate" => Down

InstanceOK ==
  /\ flight = None => Down \/ Up \/ Quarantined
  /\ \A c \in Actor : flight = c => Stage(call[c].pc, call[c].failed)

IInv == CallOK /\ OwnerWorks /\ InstanceOK

-----------------------------------------------------------------------------
(* What one call does to its own entry *)

\* Only the entry of c changes, and it keeps its type.
Only(c) == call' \in [Actor -> CallRecord] /\ \A d \in Actor \ {c} : call'[d] = call[d]

LEMMA GotoEffect ==
  ASSUME CallOK, NEW c \in Actor, NEW pc \in Place, Goto(c, pc)
  PROVE  Only(c) /\ call'[c].pc = pc /\ call'[c].failed = call[c].failed
BY DEF CallOK, CallRecord, Goto, Only

LEMMA WaitEffect ==
  ASSUME CallOK, NEW c \in Actor, NEW owner \in Actor, NEW pc \in Waiting, WaitFor(c, owner, pc)
  PROVE  Only(c) /\ call'[c].pc = pc
<1>1. pc \in Place
  BY DEF Place
<1> DEFINE found == IF pc \in {"joined", "joinedUnchecked"} /\ call[owner].task = "restart"
                    THEN call[owner].found ELSE call[c].found
           next == [call[c] EXCEPT !.pc = pc, !.found = found]
<1>2. found \in Nat
  BY DEF CallOK, CallRecord
<1> HIDE DEF found
<1>3. next \in CallRecord /\ next.pc = pc
  BY <1>1, <1>2 DEF CallOK, CallRecord
<1>4. call' = [call EXCEPT ![c] = next]
  BY DEF CallOK, CallRecord, WaitFor, found
<1> QED BY <1>3, <1>4 DEF CallOK, Only

LEMMA SettleEffect ==
  ASSUME CallOK, NEW c \in Actor, NEW ok, Settle(c, ok)
  PROVE  Only(c) /\ call'[c].pc \notin OwnWork
<1> DEFINE done == IF call[c].task = "prepare" THEN "decide" ELSE "ok"
           good == [call[c] EXCEPT !.mode = "close", !.failed = FALSE, !.pc = done]
           bad == [NoCall EXCEPT !.pc = "failed"]
<1>1. done \in Place /\ done \notin OwnWork /\ "failed" \in Place /\ "failed" \notin OwnWork
  BY DEF Place, Rest, Around, OwnWork, Working
<1>2. good \in CallRecord /\ good.pc = done
  BY <1>1 DEF CallOK, CallRecord
<1>3. bad \in CallRecord /\ bad.pc = "failed"
  BY <1>1 DEF NoCall, CallRecord, Task, Starting
<1>4. call' = [call EXCEPT ![c] = IF ok THEN good ELSE bad]
  BY DEF Settle
<1> QED BY <1>1, <1>2, <1>3, <1>4 DEF CallOK, Only

-----------------------------------------------------------------------------
(* What that means for the invariant *)

\* The owner goes on, or a call becomes the owner.
LEMMA OwnerGoesOn ==
  ASSUME IInv, NEW c \in Actor, flight \in {c, None}, flight' = c,
         generation' \in Nat, pending' \in Caller \cup {None}, Only(c),
         call'[c].pc \in OwnWork, Stage(call[c].pc, call[c].failed)'
  PROVE  IInv'
<1>1. None \notin Actor
  BY ActorAssumption
<1>2. CallOK'
  BY DEF CallOK, Only
<1>3. OwnerWorks'
  BY <1>1 DEF IInv, OwnerWorks, Only
<1>4. InstanceOK'
  BY <1>1 DEF InstanceOK
<1> QED BY <1>2, <1>3, <1>4 DEF IInv

LEMMA FlightEnds ==
  ASSUME IInv, NEW c \in Actor, flight = c, flight' = None,
         generation' \in Nat, pending' \in Caller \cup {None}, Only(c),
         call'[c].pc \notin OwnWork, (Down \/ Up \/ Quarantined)'
  PROVE  IInv'
<1>1. None \notin Actor
  BY ActorAssumption
<1>2. CallOK'
  BY DEF CallOK, Only
<1>3. OwnerWorks'
  BY <1>1 DEF IInv, OwnerWorks, Only
<1>4. InstanceOK'
  BY <1>1 DEF InstanceOK
<1> QED BY <1>2, <1>3, <1>4 DEF IInv

\* A call that is not the owner moves.
LEMMA Bystander ==
  ASSUME IInv, NEW c \in Actor, flight # c, UNCHANGED <<state, generation, flight, record, apps>>,
         pending' \in Caller \cup {None}, Only(c), call'[c].pc \notin OwnWork
  PROVE  IInv'
<1>1. CallOK'
  BY DEF IInv, CallOK, Only
<1>2. OwnerWorks'
  BY DEF IInv, OwnerWorks, Only
<1>3. InstanceOK'
  <2>1. \A d \in Actor : flight = d => call'[d] = call[d]
    BY DEF Only
  <2> QED BY <2>1 DEF IInv, InstanceOK, Stage, Down, Up, Quarantined
<1> QED BY <1>1, <1>2, <1>3 DEF IInv

\* Nothing the invariant speaks of changes.
LEMMA Unmoved ==
  ASSUME IInv, UNCHANGED <<state, generation, flight, pending, record, apps, call>> PROVE IInv'
BY DEF IInv, CallOK, OwnerWorks, InstanceOK, Stage, Down, Up, Quarantined

\* What the owner knows.
LEMMA Owner ==
  ASSUME IInv, NEW c \in Actor, call[c].pc \in OwnWork
  PROVE  flight = c /\ Stage(call[c].pc, call[c].failed)
BY DEF IInv, OwnerWorks, InstanceOK

LEMMA NotOwner ==
  ASSUME IInv, NEW c \in Actor, call[c].pc \notin OwnWork PROVE flight # c
BY DEF IInv, OwnerWorks

-----------------------------------------------------------------------------
(* The work of the owner *)

\* A release may begin wherever the registered instance is the only one.
LEMMA ReleaseSafe ==
  ASSUME IInv, NEW c \in Actor, flight \in {c, None}, flight' = c,
         pending' \in Caller \cup {None},
         NEW mode \in {"close", "delete", "deactivate", "discard"}, Release(c, mode),
         \/ record /\ apps = 1
         \/ ~ record /\ apps = 0
  PROVE  IInv'
<1>1. FirstStage(mode) \in {"pause", "closeApp", "drain", "released"}
  BY DEF FirstStage
<1>2. FirstStage(mode) \in Place /\ FirstStage(mode) \in OwnWork
  BY <1>1 DEF Place, OwnWork, Working
<1>3. Only(c) /\ call'[c].pc = FirstStage(mode)
  <2> DEFINE next == [call[c] EXCEPT !.mode = mode, !.pc = FirstStage(mode)]
  <2>1. next \in CallRecord /\ next.pc = FirstStage(mode)
    BY <1>2 DEF IInv, CallOK, CallRecord
  <2>2. call' = [call EXCEPT ![c] = next]
    BY DEF IInv, CallOK, CallRecord, Release
  <2> QED BY <2>1, <2>2 DEF IInv, CallOK, Only
<1>4. generation' \in Nat
  BY DEF IInv, CallOK, Release
<1>5. state' = "stopping" /\ apps' = apps
  BY DEF Release
<1>6. Stage(call[c].pc, call[c].failed)'
  <2>1. CASE record /\ mode = "close"
    <3>1. call'[c].pc = "pause" /\ record' /\ apps = 1
      BY <1>3, <2>1 DEF FirstStage, Release
    <3> QED BY <1>5, <3>1 DEF Stage
  <2>2. CASE record /\ mode # "close"
    <3>1. call'[c].pc = "closeApp" /\ ~ record' /\ apps = 1
      BY <1>3, <2>2 DEF FirstStage, Release
    <3> QED BY <1>5, <3>1 DEF Stage
  <2>3. CASE ~ record
    <3>1. call'[c].pc \in {"drain", "released"} /\ ~ record' /\ apps = 0
      BY <1>3, <2>3 DEF FirstStage, Release
    <3> QED BY <1>5, <3>1 DEF Stage
  <2> QED BY <2>1, <2>2, <2>3
<1> QED BY <1>2, <1>3, <1>4, <1>6, OwnerGoesOn

LEMMA ActivateSafe ==
  ASSUME IInv, NEW c \in Actor, flight \in {c, None}, flight' = c,
         pending' \in Caller \cup {None}, Activate(c), ~ record /\ apps = 0
  PROVE  IInv'
<1>1. "activate" \in Place /\ "activate" \in OwnWork
  BY DEF Place, OwnWork, Working
<1>2. Only(c) /\ call'[c].pc = "activate"
  BY <1>1, GotoEffect DEF IInv, Activate
<1>3. generation' \in Nat
  BY DEF IInv, CallOK, Activate
<1>4. Stage(call[c].pc, call[c].failed)'
  BY <1>2 DEF Stage, Activate, hostVars
<1> QED BY <1>1, <1>2, <1>3, <1>4, OwnerGoesOn

\* The owner goes on without touching the session.
LEMMA GotoSafe ==
  ASSUME IInv, NEW c \in Actor, flight \in {c, None}, flight' = c,
         pending' \in Caller \cup {None}, NEW pc \in {"exists", "validate", "resolve", "reject"},
         Goto(c, pc), UNCHANGED <<state, generation, hostVars>>, Down \/ Up
  PROVE  IInv'
<1>1. pc \in Place /\ pc \in OwnWork
  BY DEF Place, OwnWork, Working
<1>2. Only(c) /\ call'[c].pc = pc
  BY <1>1, GotoEffect DEF IInv
<1>3. generation' \in Nat
  BY DEF IInv, CallOK
<1>4. Stage(call[c].pc, call[c].failed)'
  BY <1>2 DEF Stage, hostVars, Down, Up
<1> QED BY <1>1, <1>2, <1>3, <1>4, OwnerGoesOn

LEMMA ModeType == \A t : Mode(t) \in {"close", "delete", "deactivate", "discard"}
BY DEF Mode

LEMMA WorkSafe == ASSUME IInv, NEW c \in Actor, Work(c) PROVE IInv'
<1> USE DEF At
<1>0. pending \in Caller \cup {None} /\ generation \in Nat
  BY DEF IInv, CallOK
<1>1. CASE CheckExists(c)
  <2>1. call[c].pc \in OwnWork
    BY <1>1 DEF CheckExists, OwnWork, Working
  <2>2. flight = c /\ (Down \/ Up)
    BY <1>1, <2>1, Owner DEF CheckExists, Stage
  <2>3. CASE Release(c, "close")
    BY <1>0, <1>1, <2>2, <2>3, ReleaseSafe DEF CheckExists, Down, Up
  <2>4. CASE ~ Release(c, "close")
    BY <1>0, <1>1, <2>2, <2>4, GotoSafe DEF CheckExists
  <2> QED BY <2>3, <2>4
<1>2. CASE Validate(c)
  <2>1. call[c].pc \in OwnWork
    BY <1>2 DEF Validate, OwnWork, Working
  <2>2. flight = c /\ (Down \/ Up) /\ flight' = flight /\ pending' = pending
    BY <1>2, <2>1, Owner DEF Validate, Stage
  <2>3. CASE Release(c, "close")
    BY <1>0, <2>2, <2>3, ReleaseSafe DEF Down, Up
  <2>4. CASE Activate(c) /\ state # "ready"
    BY <1>0, <2>2, <2>4, ActivateSafe DEF Down, Up
  <2>5. CASE (Goto(c, "reject") \/ Goto(c, "resolve")) /\ UNCHANGED <<state, generation, hostVars>>
    BY <1>0, <2>2, <2>5, GotoSafe
  <2> QED BY <1>2, <2>3, <2>4, <2>5 DEF Validate
<1>3. CASE Materialize(c)
  <2>1. call[c].pc \in OwnWork /\ "resume" \in OwnWork /\ "resume" \in Place
    BY <1>3 DEF Materialize, OwnWork, Working, Place
  <2>2. flight = c /\ state = "starting" /\ apps = 0
    BY <1>3, <2>1, Owner DEF Materialize, Stage
  <2>3. Only(c) /\ call'[c].pc = "resume"
    BY <1>3, <2>1, GotoEffect DEF IInv, Materialize
  <2>4. Stage(call[c].pc, call[c].failed)'
    BY <1>3, <2>2, <2>3 DEF Stage, Materialize, sessionVars
  <2> QED BY <1>0, <1>3, <2>1, <2>2, <2>3, <2>4, OwnerGoesOn DEF Materialize, sessionVars
<1>4. CASE Resume(c)
  <2>1. call[c].pc \in OwnWork /\ "resolve" \in OwnWork /\ "resolve" \in Place
    BY <1>4 DEF Resume, OwnWork, Working, Place
  <2>2. flight = c /\ record /\ apps = 1
    BY <1>4, <2>1, Owner DEF Resume, Stage
  <2>3. Only(c) /\ call'[c].pc = "resolve"
    BY <1>4, <2>1, GotoEffect DEF IInv, Resume
  <2>4. Stage(call[c].pc, call[c].failed)'
    BY <1>4, <2>2, <2>3 DEF Stage, Resume, hostVars, Up
  <2> QED BY <1>0, <1>4, <2>1, <2>2, <2>3, <2>4, OwnerGoesOn DEF Resume
<1>5. CASE ActivationFails(c)
  <2>1. call[c].pc \in OwnWork
    BY <1>5 DEF ActivationFails, OwnWork, Working
  <2>2. flight = c /\ ((record /\ apps = 1) \/ (~ record /\ apps = 0))
    BY <1>5, <2>1, Owner DEF ActivationFails, Stage
  <2> QED BY <1>0, <1>5, <2>2, ReleaseSafe DEF ActivationFails
<1>6. CASE Pause(c)
  <2>1. call[c].pc \in OwnWork /\ "closeApp" \in OwnWork /\ "closeApp" \in Place
    BY <1>6 DEF Pause, OwnWork, Working, Place
  <2>2. flight = c /\ state = "stopping" /\ apps = 1
    BY <1>6, <2>1, Owner DEF Pause, Stage
  <2>3. Only(c) /\ call'[c].pc = "closeApp"
    <3>1. PICK broken \in BOOLEAN :
            call' = [call EXCEPT ![c].pc = "closeApp", ![c].failed = broken]
      BY <1>6 DEF Pause
    <3> DEFINE next == [call[c] EXCEPT !.pc = "closeApp", !.failed = broken]
    <3>2. next \in CallRecord /\ next.pc = "closeApp"
      BY <2>1 DEF IInv, CallOK, CallRecord
    <3>3. call' = [call EXCEPT ![c] = next]
      BY <3>1 DEF IInv, CallOK, CallRecord
    <3> QED BY <3>2, <3>3 DEF IInv, CallOK, Only
  <2>4. Stage(call[c].pc, call[c].failed)'
    BY <1>6, <2>2, <2>3 DEF Stage, Pause, sessionVars
  <2> QED BY <1>0, <1>6, <2>1, <2>2, <2>3, <2>4, OwnerGoesOn DEF Pause, sessionVars
<1>7. CASE CloseApp(c)
  <2>1. /\ call[c].pc \in OwnWork
        /\ {"drain", "released"} \subseteq OwnWork /\ {"drain", "released"} \subseteq Place
    BY <1>7 DEF CloseApp, OwnWork, Working, Place
  <2>2. /\ flight = c /\ state = "stopping" /\ ~ record /\ apps = 1
        /\ UNCHANGED <<state, generation, flight, pending, record>>
    BY <1>7, <2>1, Owner DEF CloseApp, Stage, sessionVars
  <2>3. /\ Only(c) /\ call'[c].pc \in {"drain", "released"}
        /\ apps' \in {0, 1} /\ (~ call'[c].failed \/ call'[c].pc = "drain" => apps' = 0)
    <3>1. CASE /\ apps' = apps - 1
               /\ Goto(c, IF call[c].mode = "close" THEN "drain" ELSE "released")
      BY <2>1, <2>2, <3>1, GotoEffect DEF IInv
    <3>2. CASE /\ apps' \in {apps, apps - 1}
               /\ call' = [call EXCEPT ![c].pc = "released", ![c].failed = TRUE]
      <4>1. call'[c].pc = "released" /\ call'[c].failed = TRUE /\ Only(c)
        BY <2>1, <3>2, ZenonT(40) DEF IInv, CallOK, CallRecord, Only
      <4> QED BY <2>2, <3>2, <4>1
    <3> QED BY <1>7, <3>1, <3>2 DEF CloseApp
  <2>4. Stage(call[c].pc, call[c].failed)'
    BY <2>2, <2>3 DEF Stage
  <2> QED BY <1>0, <2>1, <2>2, <2>3, <2>4, OwnerGoesOn
<1>8. CASE Drain(c)
  <2>1. call[c].pc \in OwnWork /\ "released" \in OwnWork /\ "released" \in Place
    BY <1>8 DEF Drain, OwnWork, Working, Place
  <2>2. flight = c /\ state = "stopping" /\ ~ record /\ apps = 0
    BY <1>8, <2>1, Owner DEF Drain, Stage
  <2>3. Only(c) /\ call'[c].pc = "released"
    BY <1>8, <2>1, GotoEffect DEF IInv, Drain
  <2>4. Stage(call[c].pc, call[c].failed)'
    BY <1>8, <2>2, <2>3 DEF Stage, Drain, sessionVars, hostVars
  <2> QED BY <1>0, <1>8, <2>1, <2>2, <2>3, <2>4, OwnerGoesOn DEF Drain, sessionVars
<1>9. CASE Released(c)
  <2> DEFINE next == IF call[c].failed \/ call[c].mode = "discard" THEN "reject"
                     ELSE IF call[c].task = "restart" THEN "reactivate" ELSE "resolve"
  <2>1. call[c].pc \in OwnWork /\ next \in OwnWork /\ next \in Place
    BY <1>9 DEF Released, OwnWork, Working, Place
  <2>2. flight = c /\ ~ record /\ apps \in {0, 1} /\ (~ call[c].failed => apps = 0)
    BY <1>9, <2>1, Owner DEF Released, Stage
  <2>3. Only(c) /\ call'[c].pc = next
    BY <1>9, <2>1, GotoEffect DEF IInv, Released
  <2>4. Stage(call[c].pc, call[c].failed)'
    BY <1>9, <2>2, <2>3 DEF Stage, Released, AfterRelease, hostVars, Down, Quarantined
  <2> QED BY <1>0, <1>9, <2>1, <2>2, <2>3, <2>4, OwnerGoesOn DEF Released
<1>10. CASE Reactivate(c)
  <2>1. call[c].pc \in OwnWork
    BY <1>10 DEF Reactivate, OwnWork, Working
  <2>2. flight = c /\ Down
    BY <1>10, <2>1, Owner DEF Reactivate, Stage
  <2> QED BY <1>0, <1>10, <2>2, ActivateSafe DEF Reactivate, Down
<1>11. CASE EndFlight(c)
  <2>1. call[c].pc \in OwnWork
    BY <1>11 DEF EndFlight, OwnWork, Working
  <2>2. flight = c /\ (Down \/ Up \/ Quarantined)
    BY <1>11, <2>1, Owner DEF EndFlight, Stage
  <2>3. Only(c) /\ call'[c].pc \notin OwnWork
    BY <1>11, SettleEffect DEF IInv, EndFlight
  <2>4. (Down \/ Up \/ Quarantined)'
    BY <1>11, <2>2 DEF EndFlight, hostVars, Down, Up, Quarantined
  <2> QED BY <1>0, <1>11, <2>2, <2>3, <2>4, FlightEnds DEF EndFlight
<1> QED
  BY <1>1, <1>2, <1>3, <1>4, <1>5, <1>6, <1>7, <1>8, <1>9, <1>10, <1>11 DEF Work

-----------------------------------------------------------------------------
(* Admission and the requests *)

\* Nobody reserves, shares or waits: the controller is free and usable, and
\* what c starts is the only operation.
LEMMA BeginSafe ==
  ASSUME IInv, NEW c \in Actor, flight = None, state # "faulted",
         pending' \in Caller \cup {None}, Begin(c)
  PROVE  IInv'
<1>1. Down \/ Up
  BY DEF IInv, InstanceOK, Quarantined
<1>2. flight' = c /\ flight \in {c, None}
  BY DEF Begin
<1>3. CASE \E pc \in {"exists", "validate", "resolve"} :
             Goto(c, pc) /\ UNCHANGED <<state, generation, hostVars>>
  BY <1>1, <1>2, <1>3, GotoSafe
<1>4. CASE Activate(c) /\ state # "ready"
  BY <1>1, <1>2, <1>4, ActivateSafe DEF Down, Up
<1>5. CASE Release(c, Mode(call[c].task))
  BY <1>1, <1>2, <1>5, ModeType, ReleaseSafe DEF Down, Up
<1> QED BY <1>3, <1>4, <1>5 DEF Begin

LEMMA AdmitSafe ==
  ASSUME IInv, NEW c \in Caller, call[c].pc \notin OwnWork, Admit(c)
  PROVE  IInv'
<1> DEFINE left == IF pending = c THEN None ELSE pending
           stays == UNCHANGED <<state, generation, flight, hostVars>>
<1>1. c \in Actor /\ flight # c /\ pending \in Caller \cup {None} /\ left \in Caller \cup {None}
  BY NotOwner DEF IInv, CallOK, Actor
<1>2. \A pc \in Waiting : pc \notin OwnWork
  BY DEF Waiting, OwnWork, Working
<1>3. \A d : Join(c, d) \in Waiting
  BY DEF Join, Waiting
<1>4. \A operation : Running(operation) => flight \in Actor
  BY DEF IInv, CallOK, Running
<1>5. CASE Settle(c, FALSE) /\ pending' = left /\ stays
  BY <1>1, <1>5, SettleEffect, Bystander DEF IInv, hostVars
<1>6. CASE \E d \in Actor, pc \in Waiting :
             WaitFor(c, d, pc) /\ pending' \in Caller \cup {None} /\ stays
  <2>1. PICK d \in Actor, pc \in Waiting :
          WaitFor(c, d, pc) /\ pending' \in Caller \cup {None} /\ stays
    BY <1>6
  <2>2. Only(c) /\ call'[c].pc \notin OwnWork
    BY <1>1, <1>2, <2>1, WaitEffect DEF IInv
  <2> QED BY <1>1, <2>1, <2>2, Bystander DEF hostVars
<1>7. CASE ~ Refused(c) /\ SharesReserved(c) /\ WaitFor(c, pending, Join(c, pending))
           /\ pending' = left /\ stays
  <2>1. pending \in Actor
    BY <1>1, <1>7 DEF SharesReserved, Actor
  <2> QED BY <1>1, <1>3, <1>6, <1>7, <2>1
<1>8. CASE AfterStop(c) /\ WaitFor(c, flight, "afterStop") /\ pending' = left /\ stays
  <2>1. flight \in Actor /\ "afterStop" \in Waiting
    BY <1>4, <1>8 DEF AfterStop, Waiting
  <2> QED BY <1>1, <1>6, <1>8, <2>1
<1>9. CASE Reserves(c) /\ WaitFor(c, flight, "reserved") /\ pending' = c /\ stays
  <2>1. flight \in Actor /\ "reserved" \in Waiting
    BY <1>4, <1>9 DEF Reserves, Waiting
  <2> QED BY <1>1, <1>6, <1>9, <2>1
<1>10. CASE Shares(c) /\ WaitFor(c, flight, Join(c, flight)) /\ pending' = left /\ stays
  <2>1. flight \in Actor
    BY <1>4, <1>10 DEF Shares
  <2> QED BY <1>1, <1>3, <1>6, <1>10, <2>1
<1>11. CASE ~ Refused(c) /\ ~ Waits(c) /\ Begin(c) /\ pending' = left
  <2>1. flight = None /\ state # "faulted"
    BY <1>11 DEF Refused
  <2> QED BY <1>1, <1>11, <2>1, BeginSafe
<1> QED BY <1>5, <1>7, <1>8, <1>9, <1>10, <1>11 DEF Admit

\* A call that is not the owner settles, goes on, or is refused.
LEMMA SettleSafe ==
  ASSUME IInv, NEW c \in Actor, call[c].pc \notin OwnWork, NEW ok, Settle(c, ok),
         UNCHANGED <<sessionVars, hostVars>>
  PROVE  IInv'
<1>1. Only(c) /\ call'[c].pc \notin OwnWork /\ flight # c /\ pending \in Caller \cup {None}
  BY SettleEffect, NotOwner DEF IInv, CallOK
<1> QED BY <1>1, Bystander DEF sessionVars, hostVars

LEMMA StepAside ==
  ASSUME IInv, NEW c \in Actor, call[c].pc \notin OwnWork, NEW pc \in Place \ OwnWork, Goto(c, pc),
         UNCHANGED <<state, generation, flight, pending, record, apps>>
  PROVE  IInv'
<1>1. Only(c) /\ call'[c].pc \notin OwnWork /\ flight # c /\ pending \in Caller \cup {None}
  BY GotoEffect, NotOwner DEF IInv, CallOK
<1> QED BY <1>1, Bystander

LEMMA ReactSafe == ASSUME IInv, NEW c \in Caller, React(c) PROVE IInv'
<1>1. c \in Actor
  BY DEF Actor
<1>2. call[c].pc \notin OwnWork
  BY DEF React, At, OwnWork, Working
<1>3. "validateJoined" \in Place \ OwnWork
  BY DEF Place, OwnWork, Working
<1>4. CASE Admit(c)
  BY <1>2, <1>4, AdmitSafe
<1>5. CASE Settle(c, FALSE) /\ UNCHANGED <<sessionVars, hostVars>>
  BY <1>1, <1>2, <1>5, SettleSafe
<1>6. CASE Settle(c, Head(woken).ok) /\ UNCHANGED <<sessionVars, hostVars>>
  BY <1>1, <1>2, <1>6, SettleSafe
<1>7. CASE Goto(c, "validateJoined") /\ UNCHANGED <<sessionVars, hostVars>>
  BY <1>1, <1>2, <1>3, <1>7, StepAside DEF sessionVars, hostVars
<1> QED BY <1>4, <1>5, <1>6, <1>7 DEF React

LEMMA RequestSafe == ASSUME IInv, NEW c \in Caller, Request(c) PROVE IInv'
<1>1. c \in Actor /\ call[c].pc \notin OwnWork
  BY DEF Request, At, Actor, OwnWork, Working
<1>2. PICK r \in Requests :
        call' = [call EXCEPT ![c] =
          [NoCall EXCEPT !.task = r.task, !.workspace = r.workspace, !.pc = "lease",
                         !.found = IF r.task = "restart" THEN generation ELSE 0]]
  BY DEF Request
<1> DEFINE next == [NoCall EXCEPT !.task = r.task, !.workspace = r.workspace, !.pc = "lease",
                                  !.found = IF r.task = "restart" THEN generation ELSE 0]
<1>3. r.task \in Task /\ r.workspace \in Workspace \cup {None}
  BY DEF Requests, Task, Starting, Dispose
<1>4. "lease" \in Place /\ "lease" \notin OwnWork
  BY DEF Place, Around, OwnWork, Working
<1>5. next \in CallRecord /\ next.pc = "lease"
  BY <1>3, <1>4 DEF IInv, CallOK, CallRecord, NoCall
<1>6. Only(c) /\ call'[c].pc \notin OwnWork
  BY <1>1, <1>2, <1>4, <1>5 DEF IInv, CallOK, Only
<1>7. flight # c /\ pending \in Caller \cup {None}
  BY <1>1, NotOwner DEF IInv, CallOK
<1> QED BY <1>1, <1>6, <1>7, Bystander DEF Request, sessionVars, hostVars

LEMMA DecideSafe == ASSUME IInv, NEW c \in Caller, Decide(c) PROVE IInv'
<1>1. c \in Actor /\ call[c].pc \notin OwnWork /\ flight # c /\ pending \in Caller \cup {None}
  BY NotOwner DEF IInv, CallOK, Decide, At, Actor, OwnWork, Working
<1>2. CASE Refuse(c)
  BY <1>1, <1>2, SettleSafe DEF Refuse
<1>3. CASE /\ call' = [call EXCEPT ![c].pc = "execute", ![c].task = "delete"]
           /\ UNCHANGED <<sessionVars, hostVars, queueVars>>
  <2> DEFINE next == [call[c] EXCEPT !.pc = "execute", !.task = "delete"]
  <2>1. "execute" \in Place /\ "execute" \notin OwnWork /\ "delete" \in Task
    BY DEF Place, Around, OwnWork, Working, Task, Dispose
  <2>2. next \in CallRecord /\ next.pc = "execute"
    BY <1>1, <2>1 DEF IInv, CallOK, CallRecord
  <2>3. call' = [call EXCEPT ![c] = next]
    BY <1>1, <1>3 DEF IInv, CallOK, CallRecord
  <2>4. Only(c) /\ call'[c].pc \notin OwnWork
    BY <1>1, <2>1, <2>2, <2>3 DEF IInv, CallOK, Only
  <2> QED BY <1>1, <1>3, <2>4, Bystander DEF sessionVars, hostVars
<1> QED BY <1>2, <1>3 DEF Decide

\* What a call does around the lifecycle.
LEMMA AroundSafe ==
  ASSUME IInv, NEW c \in Caller,
         \/ ValidateJoined(c) \/ Enter(c) \/ EnterClose(c) \/ EnterDelete(c)
         \/ SoftDelete(c) \/ DisposeDeleted(c)
  PROVE  IInv'
<1>1. c \in Actor /\ call[c].pc \notin OwnWork
  BY DEF ValidateJoined, Enter, EnterClose, EnterDelete, SoftDelete, DisposeDeleted, Leased,
         At, Actor, OwnWork, Working
<1>2. "decide" \in Place \ OwnWork /\ "softDeleted" \in Place \ OwnWork
  BY DEF Place, Around, OwnWork, Working
<1>3. CASE Admit(c)
  BY <1>1, <1>3, AdmitSafe
<1>4. CASE \E ok \in BOOLEAN : Settle(c, ok) /\ UNCHANGED <<sessionVars, hostVars>>
  BY <1>1, <1>4, SettleSafe
<1>5. CASE ValidateJoined(c)
  BY <1>1, <1>5, SettleSafe DEF ValidateJoined
<1>6. CASE Enter(c)
  BY <1>3, <1>6 DEF Enter
<1>7. CASE EnterClose(c)
  BY <1>3, <1>4, <1>7 DEF EnterClose, Refuse
<1>8. CASE EnterDelete(c)
  <2>1. CASE Goto(c, "decide") /\ UNCHANGED <<sessionVars, hostVars>>
    BY <1>1, <1>2, <2>1, StepAside DEF sessionVars, hostVars
  <2> QED BY <1>3, <1>4, <1>8, <2>1 DEF EnterDelete, Refuse
<1>9. CASE SoftDelete(c)
  <2>1. CASE Goto(c, "softDeleted") /\ UNCHANGED <<sessionVars, record, apps>>
    BY <1>1, <1>2, <2>1, StepAside DEF sessionVars
  <2> QED BY <1>4, <1>9, <2>1 DEF SoftDelete, Refuse
<1>10. CASE DisposeDeleted(c)
  BY <1>3, <1>4, <1>10 DEF DisposeDeleted
<1> QED BY <1>5, <1>6, <1>7, <1>8, <1>9, <1>10

\* An eviction only begins while nothing is under way.
LEMMA EvictSafe == ASSUME IInv, Evict PROVE IInv'
<1>1. Pool \in Actor
  BY DEF Actor
<1>2. flight = None
  <2>1. \A c \in Actor : call[c].pc \notin OwnWork
    BY DEF Evict, AtRest, Rest, OwnWork, Working
  <2> QED BY <2>1, NotOwner DEF IInv, CallOK
<1>3. Up
  BY <1>2 DEF IInv, InstanceOK, Evict, SessionExists, IsReady, Down, Quarantined
<1> DEFINE next == [call[Pool] EXCEPT !.task = "deactivate", !.mode = "deactivate",
                                      !.pc = "closeApp", !.failed = FALSE]
<1>4. "closeApp" \in Place /\ "closeApp" \in OwnWork /\ "deactivate" \in Task
  BY DEF Place, OwnWork, Working, Task, Dispose
<1>5. next \in CallRecord /\ next.pc = "closeApp"
  BY <1>1, <1>4 DEF IInv, CallOK, CallRecord
<1>6. Only(Pool) /\ call'[Pool].pc = "closeApp"
  BY <1>1, <1>5 DEF IInv, CallOK, Only, Evict
<1>7. Stage(call[Pool].pc, call[Pool].failed)'
  BY <1>3, <1>6 DEF Stage, Up, Evict
<1> QED BY <1>1, <1>2, <1>4, <1>6, <1>7, OwnerGoesOn DEF IInv, CallOK, Evict

-----------------------------------------------------------------------------
(* The theorems *)

LEMMA InitSafe == Init => IInv
<1> SUFFICES ASSUME Init PROVE IInv
  OBVIOUS
<1>1. NoCall \in CallRecord /\ NoCall.pc \notin OwnWork
  BY DEF NoCall, CallRecord, Task, Starting, Place, Rest, OwnWork, Working
<1>2. \A c \in Actor : call[c] = NoCall
  BY DEF Init
<1>3. CallOK
  BY <1>1 DEF Init, CallOK
<1>4. OwnerWorks /\ InstanceOK
  BY <1>1, <1>2, ActorAssumption DEF Init, OwnerWorks, InstanceOK, Down
<1> QED BY <1>3, <1>4 DEF IInv

LEMMA NextSafe == IInv /\ [Next]_vars => IInv'
<1> SUFFICES ASSUME IInv, [Next]_vars PROVE IInv'
  OBVIOUS
<1>1. CASE \E c \in Actor : Work(c)
  BY <1>1, WorkSafe
<1>2. CASE \E c \in Caller : React(c) \/ Request(c) \/ Decide(c)
  BY <1>2, ReactSafe, RequestSafe, DecideSafe
<1>3. CASE \E c \in Caller : \/ ValidateJoined(c) \/ Enter(c) \/ EnterClose(c) \/ EnterDelete(c)
                             \/ SoftDelete(c) \/ DisposeDeleted(c)
  BY <1>3, AroundSafe
<1>4. CASE Evict
  BY <1>4, EvictSafe
<1>5. CASE UNCHANGED vars
  BY <1>5, Unmoved DEF vars, sessionVars, hostVars
<1> QED BY <1>1, <1>2, <1>3, <1>4, <1>5 DEF Next

\* One operation at a time owns the session, and each of its steps finds the
\* instance as the steps before it left it: the flight of controller.ts,
\* releaseSessionRecord and activateSessionRuntime, for every number of
\* requests and evictions and whatever deletions overlap.
THEOREM OwnerHasTheSession == Spec => []IInv
BY InitSafe, NextSafe, PTL DEF Spec

\* There is never more than one instance of the session in the process, a
\* ready session has its registered one, and an unloaded one has none: no
\* request, reaction, eviction or failed release builds a second instance.
THEOREM OneInstanceHolds == Spec => []OneInstance
<1>1. IInv => OneInstance
  <2> SUFFICES ASSUME IInv PROVE OneInstance
    OBVIOUS
  <2>1. CASE flight = None
    BY <2>1 DEF IInv, InstanceOK, OneInstance, Down, Up, Quarantined
  <2>2. CASE flight # None
    <3>1. flight \in Actor /\ call[flight].pc \in OwnWork /\ Stage(call[flight].pc, call[flight].failed)
      BY <2>2 DEF IInv, CallOK, OwnerWorks, InstanceOK
    <3> QED BY <3>1 DEF OneInstance, Stage, Down, Up, Quarantined, OwnWork, Working
  <2> QED BY <2>1, <2>2
<1> QED BY <1>1, OwnerHasTheSession, PTL

=============================================================================
