--------------------------- MODULE AtomicDirectory ---------------------------
(***************************************************************************)
(* The replacement of an installed plugin or marketplace directory         *)
(* (adapters/src/plugins/atomic-directory.ts) under the operations that    *)
(* drive it (marketplace.ts).  A directory has three places on disk: the   *)
(* target, a backup beside it, and a marker that names the transaction     *)
(* between the two.  Another file, the authority, says which generation of *)
(* the directory is the committed one.  Any process may replace the target *)
(* or read it, and whoever comes first recovers what a dead one left       *)
(* behind.  No lock spans the processes (bootstrap/src/lib/                *)
(* plugin-storage-lock.ts 1-5): every file operation of one may fall       *)
(* between any two of another, those of a synchronous recovery included.   *)
(*                                                                         *)
(* Only coordinated activations on a POSIX file system are described: the  *)
(* authority is then replaced by one rename.                               *)
(***************************************************************************)
EXTENDS Naturals, Sequences

CONSTANTS Process,      \* the processes that use the storage root (CLI, desktop)
          None,         \* nothing at a path, or nothing in the authority
          Torn,         \* a directory whose removal was interrupted
          NoMarker,     \* no transaction file
          Idle,         \* no recovery in progress
          MaxInstalls,  \* bound on the activations
          MaxCrashes,   \* bound on the crashes
          MaxFailures   \* bound on the file operations that fail

ASSUME AtomicDirectoryAssumption ==
  {MaxInstalls, MaxCrashes, MaxFailures} \subseteq Nat

\* The directory there is at the start, then one per activation.
Old == 0
Generation == Old .. MaxInstalls

VARIABLES disk,       \* the target, the backup and the marker
          authority,  \* the generation whose transaction id the authority holds
          life,       \* the incarnation of each process
          recovery,   \* the file operations left to a synchronous recovery
          phase,      \* where each process is in its activation
          txn,        \* the transaction of that activation
          closing,    \* the file operations left to its finalize or rollback
          given,      \* the path the last read of each process returned, if no file
                      \* operation or write of the authority came after it (history)
          overlapped, \* were two processes at work at one time? (history)
          installs, crashes, failures

vars == <<disk, authority, life, recovery, phase, txn, closing, given,
          overlapped, installs, crashes, failures>>

Phase == {"idle", "staging", "claimed", "opened", "marked", "moved", "placed",
          "committed", "closing"}
Content == Generation \cup {None, Torn}
Path == {"target", "backup"}
Marker == [owner : Process, life : Nat, gen : Generation, hadTarget : BOOLEAN,
           written : BOOLEAN]
Operation == {"tear target", "drop target", "tear backup", "drop backup",
              "restore", "drop marker"}
Transaction == [gen : Generation, hadTarget : BOOLEAN, moved : BOOLEAN,
                prior : Generation \cup {None}]
NoTransaction == [gen |-> Old, hadTarget |-> FALSE, moved |-> FALSE, prior |-> None]
Recovery == [operations : Seq(Operation), purpose : {"read", "install"}]

ASSUME ValueAssumption ==
  /\ None \notin Generation /\ None \notin Path /\ Torn \notin Generation \cup {None}
  /\ NoMarker \notin Marker /\ Idle \notin Recovery

TypeOK ==
  /\ disk \in [target : Content, backup : Content, marker : Marker \cup {NoMarker}]
  /\ authority \in Generation \cup {None}
  /\ life \in [Process -> Nat]
  /\ recovery \in [Process -> Recovery \cup {Idle}]
  /\ phase \in [Process -> Phase]
  /\ txn \in [Process -> Transaction]
  /\ closing \in [Process -> Seq(Operation)]
  /\ given \in [Process -> Path \cup {None}]
  /\ overlapped \in BOOLEAN
  /\ installs \in 0..MaxInstalls /\ {crashes, failures} \subseteq Nat

Exists(path) == disk[path] # None
Nobody == [p \in Process |-> None]

Init ==
  /\ \E target \in {None, Old} :
       /\ disk = [target |-> target, backup |-> None, marker |-> NoMarker]
       /\ authority \in {None, target}
  /\ life = [p \in Process |-> 0]
  /\ recovery = [p \in Process |-> Idle]
  /\ phase = [p \in Process |-> "idle"]
  /\ txn = [p \in Process |-> NoTransaction]
  /\ closing = [p \in Process |-> <<>>]
  /\ given = Nobody /\ overlapped = FALSE
  /\ installs = 0 /\ crashes = 0 /\ failures = 0

-----------------------------------------------------------------------------
(***************************************************************************)
(* Single file operations.  A recursive removal goes through a torn state; *)
(* a rename of a directory needs its source and refuses a target that is   *)
(* there.                                                                  *)
(***************************************************************************)
CanDo(op) == op = "restore" => Exists("backup") /\ ~Exists("target")

After(op) ==
  CASE op = "tear target" -> [disk EXCEPT !.target = IF @ = None THEN None ELSE Torn]
    [] op = "drop target" -> [disk EXCEPT !.target = None]
    [] op = "tear backup" -> [disk EXCEPT !.backup = IF @ = None THEN None ELSE Torn]
    [] op = "drop backup" -> [disk EXCEPT !.backup = None]
    [] op = "restore"     -> [disk EXCEPT !.target = disk.backup, !.backup = None]
    [] op = "drop marker" -> [disk EXCEPT !.marker = NoMarker]

DropTarget == <<"tear target", "drop target">>
DropBackup == <<"tear backup", "drop backup">>

\* A process runs one step at a time: while a synchronous recovery of its own
\* is under way nothing else of it does.
CanRun(p) == recovery[p] = Idle

-----------------------------------------------------------------------------
(***************************************************************************)
(* recoverAtomicTargetSync.                                                *)
(***************************************************************************)

\* activeAtomicTargets.has(target) in the memory of p.
Active(p) == phase[p] \notin {"idle", "staging"}

Readable == disk.marker # NoMarker /\ disk.marker.written
OwnerAlive == Readable /\ disk.marker.life = life[disk.marker.owner]

\* The transaction p must leave alone: its own, or that of a living process.
Live(p) == Active(p) \/ OwnerAlive
LiveTransaction(p) == IF Active(p) THEN txn[p] ELSE disk.marker

\* Mutant: a live target is read where it usually is.
TargetFirst(p) == IF Exists("target") THEN "target" ELSE "backup"

\* resolveLiveAtomicReadPath: the committed generation of a live transaction.
LivePath(p) ==
  LET t == LiveTransaction(p)
  IN IF authority = t.gen THEN "target"
     ELSE IF Exists("backup") THEN "backup"
     ELSE IF t.hadTarget /\ Exists("target") THEN "target"
     ELSE "backup"

\* Mutant: every recovery tidies as if there had been no marker.
UncoordinatedPlan ==
  (IF ~Exists("backup") THEN <<>>
   ELSE IF Exists("target") THEN DropBackup ELSE <<"restore">>) \o <<"drop marker">>

\* What the recovery of a dead transaction does to the three files.  The looks
\* it is chosen by come first: a process that changes the files among them is
\* at work together with the recovery (Overlap).
RecoveryPlan ==
  LET tidy ==
        IF Readable /\ authority = disk.marker.gen THEN
             IF ~Exists("backup") THEN <<>>
             ELSE IF Exists("target") THEN DropBackup ELSE <<"restore">>
        ELSE IF Readable /\ Exists("backup") THEN DropTarget \o <<"restore">>
        ELSE IF Readable THEN (IF disk.marker.hadTarget THEN <<>> ELSE DropTarget)
        ELSE IF ~Exists("backup") THEN <<>>
        ELSE IF Exists("target") THEN DropBackup ELSE <<"restore">>
  IN tidy \o <<"drop marker">>

Returns(p, path) == given' = [given EXCEPT ![p] = path]

\* A read beside a live transaction changes nothing on disk.  Its few looks are
\* one step: one that another process moves something under returns a path that
\* is not among the given ones either way.
ReadLive(p) ==
  /\ CanRun(p) /\ Live(p)
  /\ Returns(p, LivePath(p))
  /\ UNCHANGED <<disk, authority, life, recovery, phase, txn, closing, installs,
                 crashes, failures>>

Recover(p, purpose) ==
  /\ CanRun(p) /\ ~Live(p)
  /\ recovery' = [recovery EXCEPT ![p] = [operations |-> RecoveryPlan,
                                          purpose |-> purpose]]
  /\ UNCHANGED <<disk, authority, life, phase, txn, closing, given, installs, crashes,
                 failures>>

Read(p) == ReadLive(p) \/ Recover(p, "read")

RecoveryStep(p) ==
  /\ recovery[p] # Idle /\ recovery[p].operations # <<>>
  /\ CanDo(Head(recovery[p].operations))
  /\ disk' = After(Head(recovery[p].operations))
  /\ recovery' = [recovery EXCEPT ![p].operations = Tail(@)]
  /\ given' = Nobody
  /\ UNCHANGED <<authority, life, phase, txn, closing, installs, crashes, failures>>

\* The operation throws: the rest of the recovery is not done, and the read or
\* the activation it was for ends with the error.
RecoveryThrows(p) ==
  /\ recovery[p] # Idle /\ recovery[p].operations # <<>>
  /\ \/ ~CanDo(Head(recovery[p].operations)) /\ UNCHANGED failures
     \/ failures < MaxFailures /\ failures' = failures + 1
  /\ recovery' = [recovery EXCEPT ![p] = Idle]
  /\ UNCHANGED <<disk, authority, life, phase, txn, closing, given, installs, crashes>>

RecoveryDone(p) ==
  /\ recovery[p] # Idle /\ recovery[p].operations = <<>>
  /\ recovery' = [recovery EXCEPT ![p] = Idle]
  /\ IF recovery[p].purpose = "read"
     THEN Returns(p, "target") /\ UNCHANGED phase
     ELSE phase' = [phase EXCEPT ![p] = "staging"] /\ UNCHANGED given
  /\ UNCHANGED <<disk, authority, life, txn, closing, installs, crashes, failures>>

-----------------------------------------------------------------------------
(***************************************************************************)
(* activateDirectoryAtomically, up to the directory being in place.        *)
(***************************************************************************)
Goto(p, place) == phase' = [phase EXCEPT ![p] = place]

\* Close the transaction with these operations; the memory forgets it after
\* the last one.
CloseWith(p, operations) ==
  Goto(p, "closing") /\ closing' = [closing EXCEPT ![p] = operations]

Begin(p) ==
  /\ phase[p] = "idle" /\ installs < MaxInstalls
  /\ \/ Recover(p, "install")
     \/ /\ CanRun(p) /\ Live(p)
        /\ Goto(p, "staging")
        /\ UNCHANGED <<disk, authority, life, recovery, txn, closing, given, installs,
                       crashes, failures>>

\* The copy fails or the operation is aborted: the staging directory goes.
StagingFails(p) ==
  /\ CanRun(p) /\ phase[p] = "staging"
  /\ Goto(p, "idle")
  /\ UNCHANGED <<disk, authority, life, recovery, txn, closing, given, installs, crashes,
                 failures>>

\* The staging directory is complete: look at the target, claim it in memory.
Claim(p) ==
  /\ CanRun(p) /\ phase[p] = "staging" /\ installs < MaxInstalls
  /\ installs' = installs + 1
  /\ txn' = [txn EXCEPT ![p] = [NoTransaction EXCEPT !.gen = installs + 1,
                                                     !.hadTarget = Exists("target")]]
  /\ Goto(p, "claimed")
  /\ UNCHANGED <<disk, authority, life, recovery, closing, given, crashes, failures>>

\* writeAtomicTransaction: exclusive creation, then the text.
OpenMarker(p) ==
  /\ CanRun(p) /\ phase[p] = "claimed" /\ disk.marker = NoMarker
  /\ disk' = [disk EXCEPT !.marker = [owner |-> p, life |-> life[p], gen |-> txn[p].gen,
                                     hadTarget |-> txn[p].hadTarget, written |-> FALSE]]
  /\ Goto(p, "opened") /\ given' = Nobody
  /\ UNCHANGED <<authority, life, recovery, txn, closing, installs, crashes, failures>>

\* A marker that was unlinked meanwhile is written where nobody finds it.
FillMarker(p) ==
  /\ CanRun(p) /\ phase[p] = "opened"
  /\ disk' = IF disk.marker # NoMarker /\ disk.marker.gen = txn[p].gen
             THEN [disk EXCEPT !.marker.written = TRUE] ELSE disk
  /\ Goto(p, "marked") /\ given' = Nobody
  /\ UNCHANGED <<authority, life, recovery, txn, closing, installs, crashes, failures>>

\* There is a marker already, or it cannot be created, or it cannot be written:
\* the activation ends, and what it has created stays.
MarkerFails(p) ==
  /\ CanRun(p) /\ phase[p] \in {"claimed", "opened"}
  /\ \/ phase[p] = "claimed" /\ disk.marker # NoMarker /\ UNCHANGED failures
     \/ failures < MaxFailures /\ failures' = failures + 1
  /\ Goto(p, "idle")
  /\ UNCHANGED <<disk, authority, life, recovery, txn, closing, given, installs, crashes>>

CanMoveAside == Exists("target") /\ ~Exists("backup")

MoveAside(p) ==
  /\ CanRun(p) /\ phase[p] = "marked"
  /\ txn[p].hadTarget => CanMoveAside
  /\ IF txn[p].hadTarget
     THEN disk' = [disk EXCEPT !.target = None, !.backup = disk.target]
     ELSE UNCHANGED disk
  /\ txn' = [txn EXCEPT ![p].moved = txn[p].hadTarget]
  /\ Goto(p, "moved")
  /\ given' = Nobody
  /\ UNCHANGED <<authority, life, recovery, closing, installs, crashes, failures>>

MoveAsideFails(p) ==
  /\ CanRun(p) /\ phase[p] = "marked" /\ txn[p].hadTarget
  /\ \/ ~CanMoveAside /\ UNCHANGED failures
     \/ failures < MaxFailures /\ failures' = failures + 1
  /\ CloseWith(p, <<"drop marker">>)
  /\ UNCHANGED <<disk, authority, life, recovery, txn, given, installs, crashes>>

Place(p) ==
  /\ CanRun(p) /\ phase[p] = "moved" /\ ~Exists("target")
  /\ disk' = [disk EXCEPT !.target = txn[p].gen]
  /\ Goto(p, "placed")
  /\ given' = Nobody
  /\ UNCHANGED <<authority, life, recovery, txn, closing, installs, crashes, failures>>

\* The backup goes back to where it was, if the place is still free.
PlaceFails(p) ==
  /\ CanRun(p) /\ phase[p] = "moved"
  /\ \/ Exists("target") /\ UNCHANGED failures
     \/ failures < MaxFailures /\ failures' = failures + 1
  /\ CloseWith(p, IF txn[p].moved /\ ~Exists("target")
                  THEN <<"restore", "drop marker">> ELSE <<"drop marker">>)
  /\ UNCHANGED <<disk, authority, life, recovery, txn, given, installs, crashes>>

-----------------------------------------------------------------------------
(***************************************************************************)
(* marketplace.ts: the authority, then finalize or rollback.               *)
(***************************************************************************)
FinalizePlan(p) == (IF txn[p].moved THEN DropBackup ELSE <<>>) \o <<"drop marker">>
RollbackPlan(p) ==
  DropTarget \o (IF txn[p].moved THEN <<"restore">> ELSE <<>>) \o <<"drop marker">>

\* saveInstalledPlugins, upsertKnownMarketplace.
Commit(p) ==
  /\ CanRun(p) /\ phase[p] = "placed"
  /\ authority' = txn[p].gen
  /\ txn' = [txn EXCEPT ![p].prior = authority]
  /\ Goto(p, "committed")
  /\ given' = Nobody
  /\ UNCHANGED <<disk, life, recovery, closing, installs, crashes, failures>>

\* The write fails, or the operation is aborted before it.
Abort(p) ==
  /\ CanRun(p) /\ phase[p] = "placed"
  /\ CloseWith(p, RollbackPlan(p))
  /\ UNCHANGED <<disk, authority, life, recovery, txn, given, installs, crashes, failures>>

Finalize(p) ==
  /\ CanRun(p) /\ phase[p] = "committed"
  /\ CloseWith(p, FinalizePlan(p))
  /\ UNCHANGED <<disk, authority, life, recovery, txn, given, installs, crashes, failures>>

\* The deadline of a marketplace passed while the authority was being written:
\* take the authority back first, then the directory.  When the authority
\* cannot be taken back the new directory stays (Finalize above).
RevokeAuthority(p) ==
  /\ CanRun(p) /\ phase[p] = "committed" /\ authority = txn[p].gen
  /\ authority' = txn[p].prior
  /\ CloseWith(p, RollbackPlan(p))
  /\ given' = Nobody
  /\ UNCHANGED <<disk, life, recovery, txn, installs, crashes, failures>>

\* The operations of a finalize and the removal of a marker are best effort.
CloseStep(p) ==
  /\ CanRun(p) /\ phase[p] = "closing" /\ closing[p] # <<>>
  /\ CanDo(Head(closing[p]))
  /\ disk' = After(Head(closing[p]))
  /\ closing' = [closing EXCEPT ![p] = Tail(@)]
  /\ given' = Nobody
  /\ UNCHANGED <<authority, life, recovery, phase, txn, installs, crashes, failures>>

BestEffort(op) == op \in {"tear backup", "drop backup", "drop marker"}

CloseFails(p) ==
  /\ CanRun(p) /\ phase[p] = "closing" /\ closing[p] # <<>>
  /\ \/ ~CanDo(Head(closing[p])) /\ UNCHANGED failures
     \/ failures < MaxFailures /\ failures' = failures + 1
  /\ closing' = [closing EXCEPT ![p] =
                   IF BestEffort(Head(@)) THEN Tail(@) ELSE <<>>]
  /\ UNCHANGED <<disk, authority, life, recovery, phase, txn, given, installs, crashes>>

\* activeAtomicTargets.delete
Close(p) ==
  /\ CanRun(p) /\ phase[p] = "closing" /\ closing[p] = <<>>
  /\ Goto(p, "idle")
  /\ txn' = [txn EXCEPT ![p] = NoTransaction]
  /\ UNCHANGED <<disk, authority, life, recovery, closing, given, installs, crashes, failures>>

\* The process dies wherever it is, and is started again.
Crash(p) ==
  /\ crashes < MaxCrashes
  /\ crashes' = crashes + 1
  /\ life' = [life EXCEPT ![p] = @ + 1]
  /\ recovery' = [recovery EXCEPT ![p] = Idle]
  /\ phase' = [phase EXCEPT ![p] = "idle"]
  /\ txn' = [txn EXCEPT ![p] = NoTransaction]
  /\ closing' = [closing EXCEPT ![p] = <<>>]
  /\ given' = [given EXCEPT ![p] = None]
  /\ UNCHANGED <<disk, authority, installs, failures>>

Install(p) ==
  \/ Begin(p) \/ StagingFails(p) \/ Claim(p) \/ OpenMarker(p) \/ FillMarker(p)
  \/ MarkerFails(p)
  \/ MoveAside(p) \/ MoveAsideFails(p) \/ Place(p) \/ PlaceFails(p)
  \/ Commit(p) \/ Abort(p) \/ Finalize(p) \/ RevokeAuthority(p)
  \/ CloseStep(p) \/ CloseFails(p) \/ Close(p)

\* A process is at work on the directory while it recovers it, and from the
\* claim of the target to the last file operation of its activation.
AtWork(p) ==
  \/ recovery[p] # Idle
  \/ Active(p) /\ ~(phase[p] = "closing" /\ closing[p] = <<>>)

\* Two processes at work, or in an activation, at one time.  Only the look at
\* the marker keeps them apart, and the look and what follows it are not one
\* step: a process that finds no marker, or one that is not written yet,
\* recovers under the feet of the activation that has just begun.
Overlap ==
  \E p, q \in Process :
    /\ p # q
    /\ \/ AtWork(p) /\ AtWork(q)
       \/ phase[p] # "idle" /\ phase[q] # "idle"

Next ==
  /\ \E p \in Process :
       \/ Read(p) \/ RecoveryStep(p) \/ RecoveryThrows(p) \/ RecoveryDone(p)
       \/ Install(p) \/ Crash(p)
  /\ overlapped' = (overlapped \/ Overlap')

Spec == Init /\ [][Next]_vars

-----------------------------------------------------------------------------
\* Whatever died, failed or was cancelled, the committed generation of the
\* directory is still on disk, whole, at the target or in the backup: at the
\* boundary between two renames, inside a recovery, in a rollback whose own
\* operations fail (atomic-directory.ts 62-131, 289-347).  The exception is the
\* one the code makes: two processes at work on the directory at one time may
\* lose it, and no lock keeps them apart (plugin-storage-lock.ts 1-5).
NothingLost ==
  ~overlapped => (authority # None => authority \in {disk.target, disk.backup})

\* A read of a directory that the authority records returns the path of the
\* committed generation, beside a living installation of another process too:
\* never a newer one that may still be rolled back, an older one, or one half
\* removed (atomic-directory.ts 93-101, 133-151).  Three exceptions: two
\* processes have been at work at one time; a file operation or a commit comes
\* between the read and the use of its path; two file operations have failed.
\* (When the removals of the backup and of the marker both do, the next
\* activation of the process claims the target beside the old marker and serves
\* the half removed backup for a moment.)
ReadsCommitted ==
  ~overlapped /\ failures <= 1 /\ authority # None =>
    \A p \in Process : given[p] \in Path => disk[given[p]] = authority
=============================================================================
