----------------------- MODULE AtomicDirectory_proofs -----------------------
(* What a replacement of a directory never loses and what a reader of it is  *)
(* given, for every number of processes, activations, crashes and failing    *)
(* file operations, as long as no two processes are at work at one time.     *)
EXTENDS AtomicDirectory, SequenceTheorems, TLAPS

\* Without a marker the committed generation is where a recovery looks for it.
Tidy ==
  authority # None =>
    IF ~Exists("target") /\ Exists("backup") THEN disk.backup = authority
    ELSE disk.target = authority

InBackup == Exists("backup") /\ (authority # None => disk.backup = authority)

\* The three places as a crash may leave them at any moment.
DiskOK ==
  /\ ~Readable => Tidy
  /\ Readable /\ Exists("backup") => disk.marker.hadTarget
  /\ Readable /\ authority = disk.marker.gen => disk.target = authority
  /\ Readable /\ authority \notin {None, disk.marker.gen} =>
       IF Exists("backup") THEN disk.backup = authority
       ELSE disk.target = authority /\ disk.marker.hadTarget

\* The file operations a recovery or the end of an activation has left.
PlanTidy == <<"drop marker">>
PlanDrop == <<"tear backup", "drop backup", "drop marker">>
PlanDropTorn == <<"drop backup", "drop marker">>
PlanBack == <<"restore", "drop marker">>
PlanUndo == <<"tear target", "drop target", "restore", "drop marker">>
PlanUndoTorn == <<"drop target", "restore", "drop marker">>
PlanClear == <<"tear target", "drop target", "drop marker">>
PlanClearTorn == <<"drop target", "drop marker">>

\* They may be done, or not, from here.
Safe(ops) ==
  \/ ops = <<>>
  \/ ops = PlanTidy /\ Tidy
  \/ /\ ops \in {PlanDrop, PlanDropTorn} /\ Exists("target") /\ Tidy
     /\ Readable => authority = disk.marker.gen
  \/ ops = PlanBack /\ InBackup /\ ~Exists("target")
  \/ ops \in {PlanUndo, PlanUndoTorn} /\ InBackup /\ Readable /\ authority # disk.marker.gen
  \/ ops \in {PlanClear, PlanClearTorn} /\ authority = None /\ ~Exists("backup") /\ Readable

\* A recovery is of a dead transaction, and what it has left is safe.
RecoveryOK ==
  \A p \in Process : recovery[p] # Idle =>
    /\ ~OwnerAlive /\ phase[p] \in {"idle", "staging"}
    /\ recovery[p].purpose = "install" => phase[p] = "idle"
    /\ Safe(recovery[p].operations)
    /\ recovery[p].operations \in {<<>>, PlanTidy} => ~Exists("backup")
    /\ recovery[p].operations = <<>> => disk.marker = NoMarker

MarkerOK ==
  /\ disk.marker # NoMarker => disk.marker.life <= life[disk.marker.owner]
  /\ authority # None => authority <= installs

MarkerOf(p, written) ==
  [owner |-> p, life |-> life[p], gen |-> txn[p].gen, hadTarget |-> txn[p].hadTarget,
   written |-> written]

\* The target as the activation has found it.
Untouched(p) ==
  /\ authority # txn[p].gen /\ ~Exists("backup") /\ ~txn[p].moved
  /\ txn[p].hadTarget <=> Exists("target")

\* What was there before is in the backup, committed as c; or nothing was there.
Aside(p, c) ==
  /\ txn[p].moved = txn[p].hadTarget
  /\ IF txn[p].moved THEN Exists("backup") /\ (c # None => disk.backup = c)
     ELSE ~Exists("backup") /\ c = None

\* The backup of a committed activation, to be removed.
OldBackup == Readable /\ authority = disk.marker.gen /\ Exists("backup")

WriterOK(p) ==
  /\ phase[p] \in {"claimed", "opened", "marked", "moved", "placed"} => txn[p].gen <= installs
  /\ phase[p] \in {"staging", "claimed"} =>
       (~Readable => ~Exists("backup")) /\ (OldBackup => failures >= 2)
  /\ phase[p] = "claimed" =>
       /\ authority # txn[p].gen /\ ~txn[p].moved
       /\ txn[p].hadTarget <=> Exists("target")
  /\ phase[p] = "opened" => disk.marker = MarkerOf(p, FALSE) /\ Untouched(p)
  /\ phase[p] = "marked" => disk.marker = MarkerOf(p, TRUE) /\ Untouched(p)
  /\ phase[p] = "moved" =>
       /\ disk.marker = MarkerOf(p, TRUE) /\ ~Exists("target")
       /\ authority # txn[p].gen /\ Aside(p, authority)
  /\ phase[p] = "placed" =>
       /\ disk.marker = MarkerOf(p, TRUE) /\ disk.target = txn[p].gen
       /\ authority # txn[p].gen /\ Aside(p, authority)
  /\ phase[p] = "committed" =>
       /\ disk.marker = MarkerOf(p, TRUE) /\ disk.target = txn[p].gen
       /\ authority = txn[p].gen /\ txn[p].prior # txn[p].gen /\ Aside(p, txn[p].prior)
       /\ txn[p].prior # None => txn[p].prior <= installs
  /\ phase[p] = "closing" =>
       /\ \/ disk.marker = MarkerOf(p, TRUE)
          \/ disk.marker = NoMarker /\ closing[p] = <<>>
       /\ Safe(closing[p])
       /\ closing[p] = PlanTidy =>
            /\ authority # txn[p].gen => ~Exists("backup")
            /\ OldBackup => failures >= 1
       /\ disk.marker = NoMarker /\ authority # None =>
            /\ disk.target = authority
            /\ authority # txn[p].gen => txn[p].hadTarget /\ ~Exists("backup")

WritersOK == \A p \in Process : WriterOK(p)

\* The last activation has ended, or the next has not got to its marker.
AtRest ==
  \A p \in Process : \/ phase[p] \in {"idle", "staging", "claimed"}
                     \/ phase[p] = "closing" /\ closing[p] = <<>>

LeftoverOK == AtRest /\ OwnerAlive /\ OldBackup => failures >= 2

ReadsRight ==
  failures <= 1 /\ authority # None =>
    \A p \in Process : given[p] \in Path => disk[given[p]] = authority

\* Everything is in order as long as no two processes are at work at one time.
Sound == TypeOK /\ DiskOK /\ MarkerOK /\ RecoveryOK /\ WritersOK /\ LeftoverOK /\ ReadsRight

IInv == TypeOK /\ (Overlap => overlapped) /\ (~overlapped => Sound)

-----------------------------------------------------------------------------
(* Short sequences of file operations *)

\* t is s without its first element; u is s with one more element.
IsRest(s, t) == Len(s) = Len(t) + 1 /\ \A i \in 1..Len(t) : t[i] = s[i + 1]
IsLonger(s, c, u) ==
  Len(u) = Len(s) + 1 /\ u[Len(s) + 1] = c /\ \A i \in 1..Len(s) : u[i] = s[i]

LEMMA TailIs ==
  ASSUME NEW s \in Seq(Operation), NEW t \in Seq(Operation), IsRest(s, t)
  PROVE  Head(s) = s[1] /\ Tail(s) = t
<1>1. s # <<>> /\ Head(s) = s[1] /\ Len(t) \in Nat /\ Len(s) = Len(t) + 1
  BY DEF IsRest
<1>2. Tail(s) \in Seq(Operation) /\ Len(Tail(s)) = Len(t)
  BY <1>1
<1>3. \A i \in 1..Len(t) : Tail(s)[i] = s[i + 1]
  BY <1>1
<1>4. \A i \in 1..Len(Tail(s)) : Tail(s)[i] = t[i]
  BY <1>2, <1>3 DEF IsRest
<1>5. Tail(s) = t
  BY <1>2, <1>4, SeqEqual
<1> QED BY <1>1, <1>5

LEMMA ConcatIs ==
  ASSUME NEW s \in Seq(Operation), NEW c \in Operation, NEW u \in Seq(Operation),
         IsLonger(s, c, u)
  PROVE  s \o <<c>> = u
<1> DEFINE t == <<c>>
<1>1. t \in Seq(Operation) /\ Len(t) = 1 /\ t[1] = c
  OBVIOUS
<1> HIDE DEF t
<1>2. s \o t \in Seq(Operation) /\ Len(s \o t) = Len(s) + Len(t)
      /\ \A i \in 1 .. Len(s) + Len(t) :
            (s \o t)[i] = IF i <= Len(s) THEN s[i] ELSE t[i - Len(s)]
  BY <1>1, ConcatProperties
<1>3. Len(s) \in Nat /\ Len(u) = Len(s) + 1
  BY DEF IsLonger
<1>4. \A i \in 1..Len(s) : (s \o t)[i] = u[i]
  <2>1. \A i \in 1..Len(s) : i \in 1 .. Len(s) + Len(t) /\ i <= Len(s)
    BY <1>1, <1>3
  <2> QED BY <1>2, <2>1 DEF IsLonger
<1>5. (s \o t)[Len(s) + 1] = u[Len(s) + 1]
  <2>1. Len(s) + 1 \in 1 .. Len(s) + Len(t) /\ ~ (Len(s) + 1 <= Len(s))
        /\ (Len(s) + 1) - Len(s) = 1
    BY <1>1, <1>3
  <2> QED BY <1>1, <1>2, <2>1 DEF IsLonger
<1>6. \A i \in 1..Len(s) + 1 : i \in 1..Len(s) \/ i = Len(s) + 1
  BY <1>3
<1>7. Len(s \o t) = Len(u)
  BY <1>1, <1>2, <1>3
<1>8. \A i \in 1..Len(s \o t) : (s \o t)[i] = u[i]
  BY <1>1, <1>2, <1>4, <1>5, <1>6
<1>9. s \o t = u
  BY <1>2, <1>7, <1>8, SeqEqual
<1> QED BY <1>9 DEF t

LEMMA TailOfPair ==
  ASSUME NEW a \in Operation, NEW b \in Operation
  PROVE  Head(<<a, b>>) = a /\ Tail(<<a, b>>) = <<b>>
<1> DEFINE s == <<a, b>>
           t == <<b>>
<1>1. s \in Seq(Operation) /\ Len(s) = 2 /\ s[1] = a /\ s[2] = b
  OBVIOUS
<1>2. t \in Seq(Operation) /\ Len(t) = 1 /\ t[1] = b
  OBVIOUS
<1> HIDE DEF s, t
<1>3. \A i \in 1..Len(t) : i = 1
  BY <1>2
<1>4. IsRest(s, t)
  BY <1>1, <1>2, <1>3 DEF IsRest
<1>5. Head(s) = s[1] /\ Tail(s) = t
  BY <1>1, <1>2, <1>4, TailIs
<1>6. Head(s) = a /\ Tail(s) = t
  BY <1>1, <1>5
<1> QED BY <1>6 DEF s, t

LEMMA TailOfTriple ==
  ASSUME NEW a \in Operation, NEW b \in Operation, NEW c \in Operation
  PROVE  Head(<<a, b, c>>) = a /\ Tail(<<a, b, c>>) = <<b, c>>
<1> DEFINE s == <<a, b, c>>
           t == <<b, c>>
<1>1. s \in Seq(Operation) /\ Len(s) = 3 /\ s[1] = a /\ s[2] = b /\ s[3] = c
  OBVIOUS
<1>2. t \in Seq(Operation) /\ Len(t) = 2 /\ t[1] = b /\ t[2] = c
  OBVIOUS
<1> HIDE DEF s, t
<1>3. \A i \in 1..Len(t) : i = 1 \/ i = 2
  BY <1>2
<1>4. IsRest(s, t)
  BY <1>1, <1>2, <1>3 DEF IsRest
<1>5. Head(s) = s[1] /\ Tail(s) = t
  BY <1>1, <1>2, <1>4, TailIs
<1>6. Head(s) = a /\ Tail(s) = t
  BY <1>1, <1>5
<1> QED BY <1>6 DEF s, t

LEMMA TailOfFour ==
  ASSUME NEW a \in Operation, NEW b \in Operation, NEW c \in Operation, NEW d \in Operation
  PROVE  Head(<<a, b, c, d>>) = a /\ Tail(<<a, b, c, d>>) = <<b, c, d>>
<1> DEFINE s == <<a, b, c, d>>
           t == <<b, c, d>>
<1>1. s \in Seq(Operation) /\ Len(s) = 4 /\ s[1] = a /\ s[2] = b /\ s[3] = c /\ s[4] = d
  OBVIOUS
<1>2. t \in Seq(Operation) /\ Len(t) = 3 /\ t[1] = b /\ t[2] = c /\ t[3] = d
  OBVIOUS
<1> HIDE DEF s, t
<1>3. \A i \in 1..Len(t) : i = 1 \/ i = 2 \/ i = 3
  BY <1>2
<1>4. IsRest(s, t)
  BY <1>1, <1>2, <1>3 DEF IsRest
<1>5. Head(s) = s[1] /\ Tail(s) = t
  BY <1>1, <1>2, <1>4, TailIs
<1>6. Head(s) = a /\ Tail(s) = t
  BY <1>1, <1>5
<1> QED BY <1>6 DEF s, t

LEMMA OneAndOne ==
  ASSUME NEW a \in Operation, NEW b \in Operation
  PROVE  <<a>> \o <<b>> = <<a, b>>
<1> DEFINE s == <<a>>
           u == <<a, b>>
<1>1. s \in Seq(Operation) /\ Len(s) = 1 /\ s[1] = a
  OBVIOUS
<1>2. u \in Seq(Operation) /\ Len(u) = 2 /\ u[1] = a /\ u[2] = b
  OBVIOUS
<1> HIDE DEF s, u
<1>3. \A i \in 1..Len(s) : i = 1
  BY <1>1
<1>4. IsLonger(s, b, u)
  BY <1>1, <1>2, <1>3 DEF IsLonger
<1>5. s \o <<b>> = u
  BY <1>1, <1>2, <1>4, ConcatIs
<1> QED BY <1>5 DEF s, u

LEMMA TwoAndOne ==
  ASSUME NEW a \in Operation, NEW b \in Operation, NEW c \in Operation
  PROVE  <<a, b>> \o <<c>> = <<a, b, c>>
<1> DEFINE s == <<a, b>>
           u == <<a, b, c>>
<1>1. s \in Seq(Operation) /\ Len(s) = 2 /\ s[1] = a /\ s[2] = b
  OBVIOUS
<1>2. u \in Seq(Operation) /\ Len(u) = 3 /\ u[1] = a /\ u[2] = b /\ u[3] = c
  OBVIOUS
<1> HIDE DEF s, u
<1>3. \A i \in 1..Len(s) : i = 1 \/ i = 2
  BY <1>1
<1>4. IsLonger(s, c, u)
  BY <1>1, <1>2, <1>3 DEF IsLonger
<1>5. s \o <<c>> = u
  BY <1>1, <1>2, <1>4, ConcatIs
<1> QED BY <1>5 DEF s, u

LEMMA ThreeAndOne ==
  ASSUME NEW a \in Operation, NEW b \in Operation, NEW c \in Operation, NEW d \in Operation
  PROVE  <<a, b, c>> \o <<d>> = <<a, b, c, d>>
<1> DEFINE s == <<a, b, c>>
           u == <<a, b, c, d>>
<1>1. s \in Seq(Operation) /\ Len(s) = 3 /\ s[1] = a /\ s[2] = b /\ s[3] = c
  OBVIOUS
<1>2. u \in Seq(Operation) /\ Len(u) = 4 /\ u[1] = a /\ u[2] = b /\ u[3] = c /\ u[4] = d
  OBVIOUS
<1> HIDE DEF s, u
<1>3. \A i \in 1..Len(s) : i = 1 \/ i = 2 \/ i = 3
  BY <1>1
<1>4. IsLonger(s, d, u)
  BY <1>1, <1>2, <1>3 DEF IsLonger
<1>5. s \o <<d>> = u
  BY <1>1, <1>2, <1>4, ConcatIs
<1> QED BY <1>5 DEF s, u

-----------------------------------------------------------------------------
(* The plans *)

Plan == {<<>>, PlanTidy, PlanDrop, PlanDropTorn, PlanBack, PlanUndo, PlanUndoTorn,
         PlanClear, PlanClearTorn}

LEMMA Operations ==
  /\ "drop marker" \in Operation /\ "tear backup" \in Operation /\ "drop backup" \in Operation
  /\ "restore" \in Operation /\ "tear target" \in Operation /\ "drop target" \in Operation
BY DEF Operation

LEMMA PlanSteps ==
  /\ Head(PlanTidy) = "drop marker" /\ Tail(PlanTidy) = <<>>
  /\ Head(PlanDrop) = "tear backup" /\ Tail(PlanDrop) = PlanDropTorn
  /\ Head(PlanDropTorn) = "drop backup" /\ Tail(PlanDropTorn) = PlanTidy
  /\ Head(PlanBack) = "restore" /\ Tail(PlanBack) = PlanTidy
  /\ Head(PlanUndo) = "tear target" /\ Tail(PlanUndo) = PlanUndoTorn
  /\ Head(PlanUndoTorn) = "drop target" /\ Tail(PlanUndoTorn) = PlanBack
  /\ Head(PlanClear) = "tear target" /\ Tail(PlanClear) = PlanClearTorn
  /\ Head(PlanClearTorn) = "drop target" /\ Tail(PlanClearTorn) = PlanTidy
<1>2. Head(PlanTidy) = "drop marker" /\ Tail(PlanTidy) = <<>>
  BY DEF PlanTidy
<1>3. Head(PlanDrop) = "tear backup" /\ Tail(PlanDrop) = PlanDropTorn
  <2> DEFINE a == "tear backup"
             b == "drop backup"
             c == "drop marker"
  <2>1. a \in Operation /\ b \in Operation /\ c \in Operation
    BY Operations
  <2> HIDE DEF a, b, c
  <2>2. Head(<<a, b, c>>) = a /\ Tail(<<a, b, c>>) = <<b, c>>
    BY <2>1, TailOfTriple
  <2> QED BY <2>2 DEF PlanDrop, PlanDropTorn, a, b, c
<1>4. Head(PlanDropTorn) = "drop backup" /\ Tail(PlanDropTorn) = PlanTidy
  BY Operations, TailOfPair DEF PlanDropTorn, PlanTidy
<1>5. Head(PlanBack) = "restore" /\ Tail(PlanBack) = PlanTidy
  BY Operations, TailOfPair DEF PlanBack, PlanTidy
<1>6. Head(PlanUndo) = "tear target" /\ Tail(PlanUndo) = PlanUndoTorn
  <2> DEFINE a == "tear target"
             b == "drop target"
             c == "restore"
             d == "drop marker"
  <2>1. a \in Operation /\ b \in Operation /\ c \in Operation /\ d \in Operation
    BY Operations
  <2> HIDE DEF a, b, c, d
  <2>2. Head(<<a, b, c, d>>) = a /\ Tail(<<a, b, c, d>>) = <<b, c, d>>
    BY <2>1, TailOfFour
  <2> QED BY <2>2 DEF PlanUndo, PlanUndoTorn, a, b, c, d
<1>7. Head(PlanUndoTorn) = "drop target" /\ Tail(PlanUndoTorn) = PlanBack
  <2> DEFINE a == "drop target"
             b == "restore"
             c == "drop marker"
  <2>1. a \in Operation /\ b \in Operation /\ c \in Operation
    BY Operations
  <2> HIDE DEF a, b, c
  <2>2. Head(<<a, b, c>>) = a /\ Tail(<<a, b, c>>) = <<b, c>>
    BY <2>1, TailOfTriple
  <2> QED BY <2>2 DEF PlanUndoTorn, PlanBack, a, b, c
<1>8. Head(PlanClear) = "tear target" /\ Tail(PlanClear) = PlanClearTorn
  <2> DEFINE a == "tear target"
             b == "drop target"
             c == "drop marker"
  <2>1. a \in Operation /\ b \in Operation /\ c \in Operation
    BY Operations
  <2> HIDE DEF a, b, c
  <2>2. Head(<<a, b, c>>) = a /\ Tail(<<a, b, c>>) = <<b, c>>
    BY <2>1, TailOfTriple
  <2> QED BY <2>2 DEF PlanClear, PlanClearTorn, a, b, c
<1>9. Head(PlanClearTorn) = "drop target" /\ Tail(PlanClearTorn) = PlanTidy
  BY Operations, TailOfPair DEF PlanClearTorn, PlanTidy
<1> QED BY <1>2, <1>3, <1>4, <1>5, <1>6, <1>7, <1>8, <1>9

LEMMA PlanTypes == Plan \subseteq Seq(Operation) /\ Plan \ {<<>>} = {s \in Plan : s # <<>>}
BY DEF Plan, Operation, PlanTidy, PlanDrop, PlanDropTorn, PlanBack, PlanUndo, PlanUndoTorn,
       PlanClear, PlanClearTorn

\* The plans are told from one another by their lengths and first operations.
LEMMA PlansDiffer ==
  /\ PlanTidy # <<>> /\ PlanTidy \notin {PlanDrop, PlanDropTorn, PlanBack, PlanUndo, PlanUndoTorn,
                                       PlanClear, PlanClearTorn}
  /\ {PlanDrop, PlanDropTorn, PlanBack, PlanUndo, PlanUndoTorn, PlanClear, PlanClearTorn}
       \cap {<<>>} = {}
<1>1. Len(<<>>) = 0 /\ Len(PlanTidy) = 1 /\ Len(PlanDrop) = 3 /\ Len(PlanDropTorn) = 2
      /\ Len(PlanBack) = 2 /\ Len(PlanUndo) = 4 /\ Len(PlanUndoTorn) = 3 /\ Len(PlanClear) = 3
      /\ Len(PlanClearTorn) = 2
  BY DEF PlanTidy, PlanDrop, PlanDropTorn, PlanBack, PlanUndo, PlanUndoTorn,
       PlanClear, PlanClearTorn
<1> QED BY <1>1, SMTT(30)

LEMMA PlanParts ==
  /\ <<>> \o <<"drop marker">> = PlanTidy
  /\ DropBackup \o <<"drop marker">> = PlanDrop
  /\ <<"restore">> \o <<"drop marker">> = PlanBack
  /\ (DropTarget \o <<"restore">>) \o <<"drop marker">> = PlanUndo
  /\ DropTarget \o <<"drop marker">> = PlanClear
  /\ (DropTarget \o <<>>) \o <<"drop marker">> = PlanClear
<1> DEFINE a == "tear target"
           b == "drop target"
           c == "restore"
           d == "drop marker"
<1>1. a \in Operation /\ b \in Operation /\ c \in Operation /\ d \in Operation
  BY Operations
<1> HIDE DEF a, b, c, d
<1>2. <<a, b>> \o <<c>> = <<a, b, c>> /\ <<a, b, c>> \o <<d>> = <<a, b, c, d>>
  BY <1>1, TwoAndOne, ThreeAndOne
<1>3. <<a, b>> \o <<>> = <<a, b>>
  <2>1. <<a, b>> \in Seq(Operation)
    BY <1>1
  <2> QED BY <2>1
<1>4. <<a, b>> \o <<d>> = <<a, b, d>>
  BY <1>1, TwoAndOne
<1>5. <<>> \o <<d>> = <<d>>
  <2>1. <<d>> \in Seq(Operation)
    BY <1>1
  <2> QED BY <2>1
<1>6. <<c>> \o <<d>> = <<c, d>>
  BY <1>1, OneAndOne
<1>7. DropBackup \o <<"drop marker">> = PlanDrop
  BY Operations, TwoAndOne DEF DropBackup, PlanDrop
<1>8. (<<a, b>> \o <<c>>) \o <<d>> = <<a, b, c, d>> /\ (<<a, b>> \o <<>>) \o <<d>> = <<a, b, d>>
  BY <1>2, <1>3, <1>4
<1> QED BY <1>4, <1>5, <1>6, <1>7, <1>8
        DEF DropTarget, PlanTidy, PlanBack, PlanUndo, PlanClear, a, b, c, d

-----------------------------------------------------------------------------
(* What the file operations do *)

Disk == [target : Content, backup : Content, marker : Marker \cup {NoMarker}]

LEMMA DiskFields ==
  ASSUME TypeOK
  PROVE  /\ disk \in Disk /\ disk.target \in Content /\ disk.backup \in Content
         /\ disk.marker \in Marker \cup {NoMarker}
         /\ disk["target"] = disk.target /\ disk["backup"] = disk.backup
BY DEF TypeOK, Disk

LEMMA Values ==
  /\ None \notin Generation /\ Torn \notin Generation /\ Torn # None /\ NoMarker \notin Marker
  /\ Generation \subseteq Content /\ None \in Content /\ Torn \in Content
BY ValueAssumption DEF Content

LEMMA RecoveryPlanSafe ==
  ASSUME TypeOK, DiskOK
  PROVE  /\ RecoveryPlan \in Plan /\ RecoveryPlan # <<>> /\ Safe(RecoveryPlan)
         /\ RecoveryPlan = PlanTidy => ~Exists("backup")
<1> USE DEF Exists
<1>1. Readable => disk.marker \in Marker /\ disk.marker.gen \in Generation
  BY DiskFields DEF Readable, Marker
<1>2. CASE Readable /\ authority = disk.marker.gen
  <2>1. Exists("target") /\ Tidy
    BY <1>1, <1>2, Values, DiskFields DEF DiskOK, Tidy
  <2>2. CASE ~Exists("backup")
    <3>1. RecoveryPlan = PlanTidy
      BY <1>2, <2>2, PlanParts DEF RecoveryPlan
    <3> QED BY <2>1, <2>2, <3>1, PlansDiffer DEF Safe, Plan
  <2>3. CASE Exists("backup")
    <3>1. RecoveryPlan = PlanDrop
      BY <1>2, <2>1, <2>3, PlanParts DEF RecoveryPlan
    <3> QED BY <1>2, <2>1, <2>3, <3>1, PlansDiffer DEF Safe, Plan
  <2> QED BY <2>2, <2>3
<1>3. CASE Readable /\ authority # disk.marker.gen /\ Exists("backup")
  <2>1. RecoveryPlan = PlanUndo
    BY <1>3, PlanParts DEF RecoveryPlan
  <2>2. InBackup
    BY <1>3 DEF DiskOK, InBackup
  <2> QED BY <1>3, <2>1, <2>2, PlansDiffer DEF Safe, Plan
<1>4. CASE Readable /\ authority # disk.marker.gen /\ ~Exists("backup")
  <2>1. CASE disk.marker.hadTarget
    <3>1. RecoveryPlan = PlanTidy
      BY <1>4, <2>1, PlanParts DEF RecoveryPlan
    <3>2. Tidy
      BY <1>4, DiskFields DEF DiskOK, Tidy
    <3> QED BY <1>4, <3>1, <3>2, PlansDiffer DEF Safe, Plan
  <2>2. CASE ~disk.marker.hadTarget
    <3>1. RecoveryPlan = PlanClear
      BY <1>4, <2>2, PlanParts DEF RecoveryPlan
    <3>2. authority = None
      BY <1>4, <2>2 DEF DiskOK
    <3> QED BY <1>4, <3>1, <3>2, PlansDiffer DEF Safe, Plan
  <2> QED BY <2>1, <2>2
<1>5. CASE ~Readable
  <2>1. Tidy
    BY <1>5 DEF DiskOK
  <2>2. CASE ~Exists("backup")
    <3>1. RecoveryPlan = PlanTidy
      BY <1>5, <2>2, PlanParts DEF RecoveryPlan
    <3> QED BY <2>1, <2>2, <3>1, PlansDiffer DEF Safe, Plan
  <2>3. CASE Exists("backup") /\ Exists("target")
    <3>1. RecoveryPlan = PlanDrop
      BY <1>5, <2>3, PlanParts DEF RecoveryPlan
    <3> QED BY <1>5, <2>1, <2>3, <3>1, PlansDiffer DEF Safe, Plan
  <2>4. CASE Exists("backup") /\ ~Exists("target")
    <3>1. RecoveryPlan = PlanBack
      BY <1>5, <2>4, PlanParts DEF RecoveryPlan
    <3>2. InBackup
      BY <2>1, <2>4 DEF Tidy, InBackup
    <3> QED BY <2>4, <3>1, <3>2, PlansDiffer DEF Safe, Plan
  <2> QED BY <2>2, <2>3, <2>4
<1> QED BY <1>2, <1>3, <1>4, <1>5

\* What is there after the first operation of a safe plan.
Stepped(ops) ==
  /\ disk' \in Disk /\ DiskOK' /\ Safe(Tail(ops))'
  /\ Tail(ops) \in Plan
  /\ IF ops = PlanTidy
     THEN /\ disk'.marker = NoMarker /\ disk'.target = disk.target /\ disk'.backup = disk.backup
          /\ Tail(ops) = <<>>
     ELSE disk'.marker = disk.marker /\ Tail(ops) # <<>>
  /\ Tail(ops) = PlanTidy => disk'.backup = None
  /\ ~Readable /\ disk.target # None => disk'.target = disk.target
  /\ ~Readable /\ disk.backup = None => disk'.target = disk.target /\ disk'.backup = None

LEMMA SafeStep ==
  ASSUME TypeOK, DiskOK, NEW ops, Safe(ops), ops # <<>>, CanDo(Head(ops)),
         disk' = After(Head(ops)), authority' = authority
  PROVE  Stepped(ops)
<1> USE DiskFields, Values DEF Exists
<1>1. CASE ops = PlanTidy /\ Tidy
  <2>1. Head(ops) = "drop marker" /\ Tail(ops) = <<>>
    BY <1>1, PlanSteps
  <2>2. disk' = [disk EXCEPT !.marker = NoMarker]
    BY <2>1 DEF After
  <2>3. disk' \in Disk /\ disk'.marker = NoMarker /\ disk'.target = disk.target /\ disk'.backup = disk.backup
    BY <2>2 DEF Disk
  <2>4. ~Readable' /\ Tidy'
    BY <1>1, <2>3 DEF Readable, Tidy
  <2> QED BY <1>1, <2>1, <2>3, <2>4, PlansDiffer DEF Stepped, DiskOK, Safe, Plan
<1>2. CASE ops = PlanDrop /\ Exists("target") /\ Tidy /\ (Readable => authority = disk.marker.gen)
  <2>1. Head(ops) = "tear backup" /\ Tail(ops) = PlanDropTorn
    BY <1>2, PlanSteps
  <2>2. disk' = [disk EXCEPT !.backup = IF @ = None THEN None ELSE Torn]
    BY <2>1 DEF After
  <2>3. disk' \in Disk /\ disk'.marker = disk.marker /\ disk'.target = disk.target
        /\ (disk'.backup = None <=> disk.backup = None)
    BY <2>2 DEF Disk
  <2>4. Tidy' /\ Exists("target")' /\ (authority # None => disk'.target = authority)
    BY <1>2, <2>3 DEF Tidy, Disk
  <2>5. DiskOK' /\ (Readable' => authority = disk'.marker.gen)
    BY <1>2, <2>3, <2>4 DEF DiskOK, Readable, Disk
  <2> QED BY <1>2, <2>1, <2>3, <2>4, <2>5, PlansDiffer DEF Stepped, Safe, Plan
<1>3. CASE ops = PlanDropTorn /\ Exists("target") /\ Tidy
         /\ (Readable => authority = disk.marker.gen)
  <2>1. Head(ops) = "drop backup" /\ Tail(ops) = PlanTidy
    BY <1>3, PlanSteps
  <2>2. disk' = [disk EXCEPT !.backup = None]
    BY <2>1 DEF After
  <2>3. disk' \in Disk /\ disk'.marker = disk.marker /\ disk'.target = disk.target
        /\ disk'.backup = None
    BY <2>2 DEF Disk
  <2>4. Tidy' /\ (authority # None => disk'.target = authority)
    BY <1>3, <2>3 DEF Tidy, Disk
  <2>5. DiskOK'
    BY <1>3, <2>3, <2>4 DEF DiskOK, Readable, Disk
  <2> QED BY <1>3, <2>1, <2>3, <2>4, <2>5, PlansDiffer DEF Stepped, Safe, Plan
<1>4. CASE ops = PlanBack /\ InBackup /\ ~Exists("target")
  <2>1. Head(ops) = "restore" /\ Tail(ops) = PlanTidy
    BY <1>4, PlanSteps
  <2>2. disk' = [disk EXCEPT !.target = disk.backup, !.backup = None]
    BY <2>1 DEF After
  <2>3. disk' \in Disk /\ disk'.marker = disk.marker /\ disk'.target = disk.backup
        /\ disk'.backup = None
    BY <2>2 DEF Disk
  <2>4. Tidy'
    BY <1>4, <2>3 DEF Tidy, InBackup, Disk
  <2>5. Readable => authority # disk.marker.gen /\ disk.marker.hadTarget
    <3>1. Readable => disk.marker.gen # None
      BY DEF Readable, Marker
    <3> QED BY <1>4, <3>1 DEF DiskOK, InBackup
  <2>6. DiskOK'
    BY <1>4, <2>3, <2>4, <2>5 DEF DiskOK, Readable, InBackup
  <2> QED BY <1>4, <2>1, <2>3, <2>4, <2>6, PlansDiffer DEF Stepped, Safe, Plan
<1>5. CASE ops = PlanUndo /\ InBackup /\ Readable /\ authority # disk.marker.gen
  <2>1. Head(ops) = "tear target" /\ Tail(ops) = PlanUndoTorn
    BY <1>5, PlanSteps
  <2>2. disk' = [disk EXCEPT !.target = IF @ = None THEN None ELSE Torn]
    BY <2>1 DEF After
  <2>3. disk' \in Disk /\ disk'.marker = disk.marker /\ disk'.backup = disk.backup
    BY <2>2 DEF Disk
  <2>4. InBackup' /\ Readable' /\ authority' # disk'.marker.gen
    BY <1>5, <2>3 DEF InBackup, Readable, Disk
  <2>5. DiskOK'
    BY <1>5, <2>3, <2>4 DEF DiskOK, InBackup, Disk
  <2> QED BY <1>5, <2>1, <2>3, <2>4, <2>5, PlansDiffer DEF Stepped, Safe, Plan
<1>6. CASE ops = PlanUndoTorn /\ InBackup /\ Readable /\ authority # disk.marker.gen
  <2>1. Head(ops) = "drop target" /\ Tail(ops) = PlanBack
    BY <1>6, PlanSteps
  <2>2. disk' = [disk EXCEPT !.target = None]
    BY <2>1 DEF After
  <2>3. disk' \in Disk /\ disk'.marker = disk.marker /\ disk'.backup = disk.backup
        /\ disk'.target = None
    BY <2>2 DEF Disk
  <2>4. InBackup' /\ Readable' /\ authority' # disk'.marker.gen /\ ~Exists("target")'
    BY <1>6, <2>3 DEF InBackup, Readable, Disk
  <2>5. DiskOK'
    BY <1>6, <2>3, <2>4 DEF DiskOK, InBackup, Disk
  <2> QED BY <1>6, <2>1, <2>3, <2>4, <2>5, PlansDiffer DEF Stepped, Safe, Plan
<1>7. CASE ops = PlanClear /\ authority = None /\ ~Exists("backup") /\ Readable
  <2>1. Head(ops) = "tear target" /\ Tail(ops) = PlanClearTorn
    BY <1>7, PlanSteps
  <2>2. disk' = [disk EXCEPT !.target = IF @ = None THEN None ELSE Torn]
    BY <2>1 DEF After
  <2>3. disk' \in Disk /\ disk'.marker = disk.marker /\ disk'.backup = disk.backup
    BY <2>2 DEF Disk
  <2>4. Readable' /\ ~Exists("backup")'
    BY <1>7, <2>3 DEF Readable, Disk
  <2>5. disk'.marker.gen # None
    BY <1>7, <2>3 DEF Readable, Marker
  <2>6. DiskOK'
    BY <1>7, <2>3, <2>4, <2>5 DEF DiskOK, Disk
  <2> QED BY <1>7, <2>1, <2>3, <2>4, <2>6, PlansDiffer DEF Stepped, Safe, Plan
<1>8. CASE ops = PlanClearTorn /\ authority = None /\ ~Exists("backup") /\ Readable
  <2>1. Head(ops) = "drop target" /\ Tail(ops) = PlanTidy
    BY <1>8, PlanSteps
  <2>2. disk' = [disk EXCEPT !.target = None]
    BY <2>1 DEF After
  <2>3. disk' \in Disk /\ disk'.marker = disk.marker /\ disk'.backup = disk.backup
    BY <2>2 DEF Disk
  <2>4. Readable' /\ ~Exists("backup")' /\ Tidy'
    BY <1>8, <2>3 DEF Readable, Disk, Tidy
  <2>5. disk'.marker.gen # None
    BY <1>8, <2>3 DEF Readable, Marker
  <2>6. DiskOK'
    BY <1>8, <2>3, <2>4, <2>5 DEF DiskOK, Disk
  <2> QED BY <1>8, <2>1, <2>3, <2>4, <2>6, PlansDiffer DEF Stepped, Safe, Plan
<1> QED BY <1>1, <1>2, <1>3, <1>4, <1>5, <1>6, <1>7, <1>8 DEF Safe


-----------------------------------------------------------------------------
(* Types *)

LEMMA AfterTyped ==
  ASSUME TypeOK, NEW op \in Operation PROVE After(op) \in Disk
<1>1. \/ After(op) = [disk EXCEPT !.target = IF @ = None THEN None ELSE Torn]
      \/ After(op) = [disk EXCEPT !.target = None]
      \/ After(op) = [disk EXCEPT !.backup = IF @ = None THEN None ELSE Torn]
      \/ After(op) = [disk EXCEPT !.backup = None]
      \/ After(op) = [disk EXCEPT !.target = disk.backup, !.backup = None]
      \/ After(op) = [disk EXCEPT !.marker = NoMarker]
  BY DEF After, Operation
<1> QED BY <1>1, DiskFields, Values DEF Disk

LEMMA PlansTyped ==
  ASSUME NEW p \in Process
  PROVE  /\ RecoveryPlan \in Seq(Operation)
         /\ FinalizePlan(p) \in Seq(Operation) /\ RollbackPlan(p) \in Seq(Operation)
<1>1. RecoveryPlan \in {PlanTidy, PlanDrop, PlanBack, PlanUndo, PlanClear}
  BY PlanParts DEF RecoveryPlan
<1>2. FinalizePlan(p) \in {PlanTidy, PlanDrop} /\ RollbackPlan(p) \in {PlanUndo, PlanClear}
  BY PlanParts DEF FinalizePlan, RollbackPlan
<1> QED BY <1>1, <1>2, PlanTypes DEF Plan

LEMMA ValuesTyped ==
  ASSUME TypeOK, NEW p \in Process
  PROVE  /\ NoTransaction \in Transaction /\ txn[p] \in Transaction
         /\ Nobody \in [Process -> Path \cup {None}]
         /\ installs \in Nat /\ failures \in Nat /\ crashes \in Nat
         /\ failures + 1 \in Nat /\ life[p] + 1 \in Nat
         /\ recovery[p] # Idle => /\ recovery[p] \in Recovery
                                  /\ recovery[p].operations \in Seq(Operation)
         /\ closing[p] \in Seq(Operation)
BY AtomicDirectoryAssumption
   DEF NoTransaction, Transaction, Generation, Old, Nobody, TypeOK, Recovery

LEMMA RestTyped ==
  ASSUME NEW ops \in Seq(Operation), ops # <<>>
  PROVE  Head(ops) \in Operation /\ Tail(ops) \in Seq(Operation)
OBVIOUS

LEMMA ReadTyped ==
  ASSUME TypeOK, NEW p \in Process, overlapped' \in BOOLEAN,
         \/ Read(p) \/ Recover(p, "install") \/ RecoveryStep(p) \/ RecoveryThrows(p)
         \/ RecoveryDone(p) \/ Crash(p)
  PROVE  TypeOK'
<1>1. CASE ReadLive(p)
  <2>1. LivePath(p) \in Path
    BY DEF LivePath, Path
  <2>2. given' \in [Process -> Path \cup {None}]
    BY <1>1, <2>1 DEF ReadLive, Returns, TypeOK
  <2> QED BY <1>1, <2>2 DEF ReadLive, TypeOK
<1>2. ASSUME NEW purpose \in {"read", "install"}, Recover(p, purpose) PROVE TypeOK'
  <2>1. [operations |-> RecoveryPlan, purpose |-> purpose] \in Recovery
    BY PlansTyped DEF Recovery
  <2>2. recovery' \in [Process -> Recovery \cup {Idle}]
    BY <1>2, <2>1 DEF Recover, TypeOK
  <2> QED BY <1>2, <2>2 DEF Recover, TypeOK
<1>3. CASE RecoveryStep(p)
  <2> DEFINE ops == recovery[p].operations
             next == [recovery[p] EXCEPT !.operations = Tail(ops)]
  <2>1. Head(ops) \in Operation /\ Tail(ops) \in Seq(Operation) /\ recovery[p] \in Recovery
    BY <1>3, ValuesTyped, RestTyped DEF RecoveryStep
  <2>2. next \in Recovery
    BY <2>1 DEF Recovery
  <2>3. disk' \in Disk
    BY <1>3, <2>1, AfterTyped DEF RecoveryStep
  <2>4. recovery' = [recovery EXCEPT ![p] = next]
    BY <1>3 DEF RecoveryStep
  <2> HIDE DEF next
  <2> QED BY <1>3, <2>2, <2>3, <2>4, ValuesTyped DEF RecoveryStep, TypeOK, Disk
<1>4. CASE RecoveryThrows(p)
  <2>1. failures' \in Nat
    BY <1>4, ValuesTyped DEF RecoveryThrows
  <2> QED BY <1>4, <2>1 DEF RecoveryThrows, TypeOK
<1>5. CASE RecoveryDone(p)
  <2>1. given' \in [Process -> Path \cup {None}] /\ phase' \in [Process -> Phase]
    BY <1>5 DEF RecoveryDone, Returns, TypeOK, Path, Phase
  <2> QED BY <1>5, <2>1 DEF RecoveryDone, TypeOK
<1>6. CASE Crash(p)
  <2>1. given' \in [Process -> Path \cup {None}] /\ phase' \in [Process -> Phase]
        /\ <<>> \in Seq(Operation)
    BY <1>6 DEF Crash, TypeOK, Phase
  <2> QED BY <1>6, <2>1, ValuesTyped DEF Crash, TypeOK
<1> QED BY <1>1, <1>2, <1>3, <1>4, <1>5, <1>6 DEF Read

LEMMA StartTyped ==
  ASSUME TypeOK, NEW p \in Process, overlapped' \in BOOLEAN,
         \/ Begin(p) \/ StagingFails(p) \/ Claim(p) \/ OpenMarker(p) \/ FillMarker(p)
         \/ MarkerFails(p)
  PROVE  TypeOK'
<1>1. CASE Begin(p)
  <2>1. CASE Recover(p, "install")
    BY <2>1, ReadTyped
  <2>2. CASE ~Recover(p, "install")
    BY <1>1, <2>2 DEF Begin, Goto, TypeOK, Phase
  <2> QED BY <2>1, <2>2
<1>2. CASE StagingFails(p)
  BY <1>2 DEF StagingFails, Goto, TypeOK, Phase
<1>3. CASE Claim(p)
  <2> DEFINE next == [NoTransaction EXCEPT !.gen = installs + 1, !.hadTarget = Exists("target")]
  <2>1. installs + 1 \in 0..MaxInstalls /\ installs + 1 \in Generation
    BY <1>3, AtomicDirectoryAssumption DEF Claim, TypeOK, Generation, Old
  <2>2. next \in Transaction
    BY <2>1, AtomicDirectoryAssumption DEF NoTransaction, Transaction, Generation, Old, Exists
  <2>3. txn' = [txn EXCEPT ![p] = next]
    BY <1>3 DEF Claim
  <2> HIDE DEF next
  <2> QED BY <1>3, <2>1, <2>2, <2>3 DEF Claim, Goto, TypeOK, Phase
<1>4. CASE OpenMarker(p)
  <2> DEFINE m == [owner |-> p, life |-> life[p], gen |-> txn[p].gen,
                   hadTarget |-> txn[p].hadTarget, written |-> FALSE]
  <2>1. m \in Marker
    BY ValuesTyped DEF Marker, Transaction, TypeOK
  <2>2. disk' = [disk EXCEPT !.marker = m]
    BY <1>4 DEF OpenMarker
  <2> HIDE DEF m
  <2>3. disk' \in Disk
    BY <2>1, <2>2 DEF TypeOK, Disk
  <2> QED BY <1>4, <2>3, ValuesTyped DEF OpenMarker, Goto, TypeOK, Phase, Disk
<1>5. CASE FillMarker(p)
  <2>1. disk' \in Disk
    <3>1. CASE disk.marker # NoMarker /\ disk.marker.gen = txn[p].gen
      <4> DEFINE m == [disk.marker EXCEPT !.written = TRUE]
      <4>1. disk.marker \in Marker
        BY <3>1, DiskFields
      <4>2. m \in Marker
        BY <4>1 DEF Marker
      <4>3. disk' = [disk EXCEPT !.marker = m]
        BY <1>5, <3>1 DEF FillMarker
      <4> HIDE DEF m
      <4> QED BY <4>2, <4>3 DEF TypeOK, Disk
    <3>2. CASE ~(disk.marker # NoMarker /\ disk.marker.gen = txn[p].gen)
      BY <1>5, <3>2, DiskFields DEF FillMarker
    <3> QED BY <3>1, <3>2
  <2> QED BY <1>5, <2>1, ValuesTyped DEF FillMarker, Goto, TypeOK, Phase, Disk
<1>6. CASE MarkerFails(p)
  <2>1. failures' \in Nat
    BY <1>6, ValuesTyped DEF MarkerFails
  <2> QED BY <1>6, <2>1 DEF MarkerFails, Goto, TypeOK, Phase
<1> QED BY <1>1, <1>2, <1>3, <1>4, <1>5, <1>6

LEMMA PlaceTyped ==
  ASSUME TypeOK, NEW p \in Process, overlapped' \in BOOLEAN,
         MoveAside(p) \/ MoveAsideFails(p) \/ Place(p) \/ PlaceFails(p)
  PROVE  TypeOK'
<1>1. CASE MoveAside(p)
  <2> DEFINE next == [txn[p] EXCEPT !.moved = txn[p].hadTarget]
  <2>1. next \in Transaction
    BY ValuesTyped DEF Transaction
  <2>2. txn' = [txn EXCEPT ![p] = next]
    BY <1>1 DEF MoveAside
  <2> HIDE DEF next
  <2>3. disk' \in Disk
    BY <1>1, DiskFields, Values DEF MoveAside, Disk
  <2>4. txn' \in [Process -> Transaction]
    BY <2>1, <2>2 DEF TypeOK
  <2>0. phase' \in [Process -> Phase]
    BY <1>1 DEF MoveAside, Goto, TypeOK, Phase
  <2>5. given' = Nobody
        /\ UNCHANGED <<authority, life, recovery, closing, installs, crashes, failures>>
    BY <1>1 DEF MoveAside
  <2> QED BY <2>0, <2>3, <2>4, <2>5, ValuesTyped DEF TypeOK, Disk
<1>2. ASSUME NEW ops \in Seq(Operation), CloseWith(p, ops)
      PROVE  closing' \in [Process -> Seq(Operation)] /\ phase' \in [Process -> Phase]
  BY <1>2 DEF CloseWith, Goto, TypeOK, Phase
<1>3. PlanTidy \in Seq(Operation) /\ PlanBack \in Seq(Operation)
  BY PlanTypes DEF Plan
<1>4. CASE MoveAsideFails(p)
  <2>1. failures' \in Nat
    BY <1>4, ValuesTyped DEF MoveAsideFails
  <2>2. CloseWith(p, PlanTidy)
    BY <1>4 DEF MoveAsideFails, PlanTidy
  <2>3. closing' \in [Process -> Seq(Operation)] /\ phase' \in [Process -> Phase]
    BY <1>2, <1>3, <2>2
  <2> QED BY <1>4, <2>1, <2>3 DEF MoveAsideFails, TypeOK
<1>5. CASE Place(p)
  <2>1. txn[p].gen \in Content
    BY ValuesTyped, Values DEF Transaction
  <2>2. disk' \in Disk
    BY <1>5, <2>1, DiskFields DEF Place, Disk
  <2> QED BY <1>5, <2>2, ValuesTyped DEF Place, Goto, TypeOK, Phase, Disk
<1>6. CASE PlaceFails(p)
  <2>1. failures' \in Nat
    BY <1>6, ValuesTyped DEF PlaceFails
  <2>2. CloseWith(p, PlanTidy) \/ CloseWith(p, PlanBack)
    BY <1>6 DEF PlaceFails, PlanTidy, PlanBack
  <2>3. closing' \in [Process -> Seq(Operation)] /\ phase' \in [Process -> Phase]
    BY <1>2, <1>3, <2>2
  <2> QED BY <1>6, <2>1, <2>3 DEF PlaceFails, TypeOK
<1> QED BY <1>1, <1>4, <1>5, <1>6

LEMMA CloseTyped ==
  ASSUME TypeOK, NEW p \in Process, overlapped' \in BOOLEAN,
         \/ Commit(p) \/ Abort(p) \/ Finalize(p) \/ RevokeAuthority(p)
         \/ CloseStep(p) \/ CloseFails(p) \/ Close(p)
  PROVE  TypeOK'
<1>1. CASE Commit(p)
  <2> DEFINE next == [txn[p] EXCEPT !.prior = authority]
  <2>1. next \in Transaction /\ txn[p].gen \in Generation
    BY ValuesTyped DEF Transaction, TypeOK
  <2>2. txn' = [txn EXCEPT ![p] = next]
    BY <1>1 DEF Commit
  <2> HIDE DEF next
  <2>3. txn' \in [Process -> Transaction]
    BY <2>1, <2>2 DEF TypeOK
  <2>0. phase' \in [Process -> Phase]
    BY <1>1 DEF Commit, Goto, TypeOK, Phase
  <2>4. given' = Nobody /\ authority' = txn[p].gen
        /\ UNCHANGED <<disk, life, recovery, closing, installs, crashes, failures>>
    BY <1>1 DEF Commit
  <2> QED BY <2>0, <2>1, <2>3, <2>4, ValuesTyped DEF TypeOK
<1>2. ASSUME NEW ops \in Seq(Operation), CloseWith(p, ops)
      PROVE  closing' \in [Process -> Seq(Operation)] /\ phase' \in [Process -> Phase]
  BY <1>2 DEF CloseWith, Goto, TypeOK, Phase
<1>3. CASE Abort(p) \/ Finalize(p)
  <2>1. closing' \in [Process -> Seq(Operation)] /\ phase' \in [Process -> Phase]
    BY <1>2, <1>3, PlansTyped DEF Abort, Finalize
  <2>2. UNCHANGED <<disk, authority, life, recovery, txn, given, installs, crashes, failures>>
    BY <1>3 DEF Abort, Finalize
  <2> QED BY <2>1, <2>2 DEF TypeOK
<1>4. CASE RevokeAuthority(p)
  <2>1. closing' \in [Process -> Seq(Operation)] /\ phase' \in [Process -> Phase]
    BY <1>2, <1>4, PlansTyped DEF RevokeAuthority
  <2>2. authority' \in Generation \cup {None}
    BY <1>4, ValuesTyped DEF RevokeAuthority, Transaction
  <2> QED BY <1>4, <2>1, <2>2, ValuesTyped DEF RevokeAuthority, TypeOK
<1>5. CASE CloseStep(p)
  <2>1. Head(closing[p]) \in Operation /\ Tail(closing[p]) \in Seq(Operation)
    BY <1>5, ValuesTyped, RestTyped DEF CloseStep
  <2>2. disk' \in Disk
    BY <1>5, <2>1, AfterTyped DEF CloseStep
  <2>3. closing' \in [Process -> Seq(Operation)]
    BY <1>5, <2>1 DEF CloseStep, TypeOK
  <2> QED BY <1>5, <2>2, <2>3, ValuesTyped DEF CloseStep, TypeOK, Disk
<1>6. CASE CloseFails(p)
  <2>1. Tail(closing[p]) \in Seq(Operation) /\ <<>> \in Seq(Operation)
    BY <1>6, ValuesTyped, RestTyped DEF CloseFails
  <2>2. closing' \in [Process -> Seq(Operation)]
    BY <1>6, <2>1 DEF CloseFails, TypeOK
  <2>3. failures' \in Nat
    BY <1>6, ValuesTyped DEF CloseFails
  <2> QED BY <1>6, <2>2, <2>3 DEF CloseFails, TypeOK
<1>7. CASE Close(p)
  BY <1>7, ValuesTyped DEF Close, Goto, TypeOK, Phase
<1> QED BY <1>1, <1>3, <1>4, <1>5, <1>6, <1>7

LEMMA TypeKeeps == ASSUME TypeOK, [Next]_vars PROVE TypeOK'
<1>1. CASE UNCHANGED vars
  BY <1>1 DEF vars, TypeOK
<1>2. CASE Next
  <2>1. overlapped' \in BOOLEAN
    <3>1. overlapped' = (overlapped \/ Overlap')
      BY <1>2 DEF Next
    <3> QED BY <3>1 DEF TypeOK
  <2>2. PICK p \in Process :
          \/ Read(p) \/ RecoveryStep(p) \/ RecoveryThrows(p) \/ RecoveryDone(p)
          \/ Install(p) \/ Crash(p)
    BY <1>2 DEF Next
  <2>3. CASE ~Install(p)
    BY <2>1, <2>2, <2>3, ReadTyped
  <2>4. CASE Install(p)
    BY <2>1, <2>4, StartTyped, PlaceTyped, CloseTyped DEF Install
  <2> QED BY <2>3, <2>4
<1> QED BY <1>1, <1>2
-----------------------------------------------------------------------------
(* An activation *)

\* No two processes are at work at one time, before the step and after it.
Apart == ~Overlap /\ ~Overlap' /\ TypeOK'

LEMMA Writing ==
  ASSUME Sound, NEW p \in Process PROVE WriterOK(p)
BY DEF Sound, WritersOK

\* The step is one of p's activation, and what it moves is given to nobody.
OnlyOf(p) ==
  /\ recovery' = recovery /\ failures' >= failures
  /\ given' = Nobody \/ (given' = given /\ disk' = disk /\ authority' = authority)
  /\ \A q \in Process \ {p} : phase'[q] = phase[q]

LEMMA ReadsKeep ==
  ASSUME Sound, TypeOK', failures' >= failures,
         given' = Nobody \/ (given' = given /\ disk' = disk /\ authority' = authority)
  PROVE  ReadsRight'
<1>1. failures' <= 1 => failures <= 1
  BY DEF Sound, TypeOK
<1>2. CASE given' = Nobody
  <2>1. \A q \in Process : given'[q] \notin Path
    BY <1>2, ValueAssumption DEF Nobody
  <2> QED BY <2>1 DEF ReadsRight
<1>3. CASE given' = given /\ disk' = disk /\ authority' = authority
  BY <1>1, <1>3 DEF Sound, ReadsRight
<1> QED BY <1>2, <1>3

\* While p is at work nobody recovers.
LEMMA NoRecovery ==
  ASSUME Apart, NEW p \in Process, CanRun(p), recovery' = recovery, AtWork(p) \/ AtWork(p)'
  PROVE  RecoveryOK'
<1>1. \A q \in Process : recovery'[q] = Idle
  BY DEF Apart, Overlap, AtWork, CanRun
<1> QED BY <1>1 DEF RecoveryOK

\* A step of the activation of p keeps what it has to keep.
LEMMA ByWriter ==
  ASSUME Sound, Apart, NEW p \in Process, OnlyOf(p), phase[p] # "idle" \/ phase'[p] # "idle",
         DiskOK', MarkerOK', RecoveryOK', LeftoverOK', WriterOK(p)'
  PROVE  Sound'
<1>1. WritersOK'
  <2> SUFFICES ASSUME NEW q \in Process, q # p PROVE WriterOK(q)'
    BY DEF WritersOK
  <2>1. phase'[q] = "idle"
    BY DEF Apart, Overlap, OnlyOf
  <2> QED BY <2>1 DEF WriterOK
<1>2. ReadsRight'
  BY ReadsKeep DEF Apart, OnlyOf
<1> QED BY <1>1, <1>2 DEF Sound, Apart

\* So does one between the claim of the target and the last file operation.
LEMMA ByWorker ==
  ASSUME Sound, Apart, NEW p \in Process, OnlyOf(p), CanRun(p), phase[p] # "idle",
         phase'[p] \notin {"idle", "staging", "claimed"},
         phase'[p] = "closing" => closing'[p] # <<>>,
         DiskOK', MarkerOK', WriterOK(p)'
  PROVE  Sound'
<1>1. AtWork(p)'
  BY DEF AtWork, Active
<1>2. RecoveryOK'
  BY <1>1, NoRecovery DEF OnlyOf
<1>3. LeftoverOK'
  BY DEF LeftoverOK, AtRest
<1> QED BY <1>2, <1>3, ByWriter

\* The step leaves alone what is on disk and what is committed.
SameDisk == disk' = disk /\ authority' = authority /\ life' = life

LEMMA SameDiskKeeps ==
  ASSUME Sound, SameDisk, installs' >= installs, installs' \in Nat
  PROVE  /\ DiskOK' /\ MarkerOK'
         /\ OwnerAlive' <=> OwnerAlive
         /\ OldBackup' <=> OldBackup
         /\ Exists("target")' <=> Exists("target")
         /\ Exists("backup")' <=> Exists("backup")
<1>1. DiskOK'
  BY DEF Sound, SameDisk, DiskOK, Readable, Tidy, Exists
<1>2. authority # None => authority' <= installs'
  <2>1. authority # None => authority \in Nat
    BY DEF Sound, TypeOK, Generation, Old
  <2>2. installs \in Nat
    BY DEF Sound, TypeOK
  <2> QED BY <2>1, <2>2 DEF Sound, MarkerOK, SameDisk
<1>3. MarkerOK'
  BY <1>2 DEF Sound, MarkerOK, SameDisk
<1> QED BY <1>1, <1>3 DEF SameDisk, OwnerAlive, Readable, OldBackup, Exists

\* A step that leaves the disk and the processes alone.
LEMMA StillKeeps ==
  ASSUME Sound, SameDisk, failures' >= failures, failures' \in Nat, phase' = phase, txn' = txn,
         closing' = closing, installs' = installs
  PROVE  DiskOK' /\ MarkerOK' /\ WritersOK' /\ LeftoverOK'
<1>1. /\ DiskOK' /\ MarkerOK' /\ (OwnerAlive' <=> OwnerAlive) /\ (OldBackup' <=> OldBackup)
      /\ (Exists("target")' <=> Exists("target")) /\ (Exists("backup")' <=> Exists("backup"))
  BY SameDiskKeeps DEF Sound, TypeOK
<1>2. (failures >= 1 => failures' >= 1) /\ (failures >= 2 => failures' >= 2)
  BY DEF Sound, TypeOK
<1>3. WritersOK'
  <2> SUFFICES ASSUME NEW q \in Process PROVE WriterOK(q)'
    BY DEF WritersOK
  <2>1. WriterOK(q)
    BY Writing
  <2>2. Safe(closing[q]) => Safe(closing[q])'
    BY DEF SameDisk, Safe, Tidy, InBackup, Exists, Readable
  <2>3. /\ MarkerOf(q, TRUE)' = MarkerOf(q, TRUE) /\ MarkerOf(q, FALSE)' = MarkerOf(q, FALSE)
        /\ Untouched(q)' <=> Untouched(q)
        /\ Aside(q, authority)' <=> Aside(q, authority)
        /\ Aside(q, txn[q].prior)' <=> Aside(q, txn[q].prior)
        /\ Readable' <=> Readable
    BY DEF SameDisk, MarkerOf, Untouched, Aside, Exists, Readable
  <2>4. disk' = disk /\ authority' = authority /\ phase[q] \in Phase
    BY DEF SameDisk, Sound, TypeOK
  <2>5. CASE phase[q] \in {"idle", "staging", "claimed"}
    BY <1>1, <1>2, <2>1, <2>3, <2>4, <2>5 DEF WriterOK
  <2>6. CASE phase[q] \in {"opened", "marked"}
    BY <2>1, <2>3, <2>4, <2>6 DEF WriterOK
  <2>7. CASE phase[q] \in {"moved", "placed"}
    BY <1>1, <2>1, <2>3, <2>4, <2>7 DEF WriterOK
  <2>8. CASE phase[q] = "committed"
    BY <2>1, <2>3, <2>4, <2>8 DEF WriterOK
  <2>9. CASE phase[q] = "closing"
    BY <1>1, <1>2, <2>1, <2>2, <2>3, <2>4, <2>9 DEF WriterOK
  <2> QED BY <2>4, <2>5, <2>6, <2>7, <2>8, <2>9 DEF Phase
<1>4. LeftoverOK'
  BY <1>1, <1>2 DEF Sound, LeftoverOK, AtRest
<1> QED BY <1>1, <1>3, <1>4

LEMMA Types ==
  ASSUME Sound, NEW p \in Process
  PROVE  /\ installs \in Nat /\ failures \in Nat /\ crashes \in Nat /\ MaxInstalls \in Nat
         /\ installs \in 0..MaxInstalls
         /\ txn[p] \in Transaction /\ closing[p] \in Seq(Operation)
         /\ recovery[p] \in Recovery \cup {Idle} /\ life[p] \in Nat
         /\ authority \in Generation \cup {None}
BY AtomicDirectoryAssumption DEF Sound, TypeOK

LEMMA StagingFailsKeeps ==
  ASSUME Sound, Apart, NEW p \in Process, StagingFails(p) PROVE Sound'
<1>1. WriterOK(p) /\ CanRun(p) /\ phase[p] = "staging"
  BY Writing DEF StagingFails
<1>2. SameDisk /\ installs' = installs /\ failures' = failures /\ phase' = [phase EXCEPT ![p] = "idle"]
  BY DEF StagingFails, SameDisk, Goto
<1>3. phase'[p] = "idle"
  BY <1>2 DEF Sound, TypeOK
<1>5. DiskOK' /\ MarkerOK' /\ (OwnerAlive' <=> OwnerAlive) /\ (OldBackup' <=> OldBackup)
  BY <1>2, SameDiskKeeps, Types
<1>6. WriterOK(p)'
  BY <1>1, <1>2, <1>3, <1>5 DEF WriterOK
<1>7. OnlyOf(p)
  BY <1>2, Types DEF OnlyOf, StagingFails, Sound, TypeOK, SameDisk
<1>8. RecoveryOK'
  <2>1. \A q \in Process : recovery'[q] = recovery[q] /\ (recovery[q] # Idle => phase'[q] = phase[q])
    BY <1>1, <1>2 DEF StagingFails, CanRun, Sound, TypeOK
  <2> QED BY <1>2, <1>5, <2>1 DEF Sound, RecoveryOK, SameDisk, Safe, Tidy, InBackup, Exists, Readable
<1>9. LeftoverOK'
  BY <1>1, <1>2, <1>5 DEF WriterOK, LeftoverOK
<1> QED BY <1>1, <1>5, <1>6, <1>7, <1>8, <1>9, ByWriter

LEMMA ClaimKeeps ==
  ASSUME Sound, Apart, NEW p \in Process, Claim(p) PROVE Sound'
<1>1. WriterOK(p) /\ CanRun(p) /\ phase[p] = "staging"
  BY Writing DEF Claim
<1>2. SameDisk /\ installs' = installs + 1 /\ failures' = failures
      /\ phase' = [phase EXCEPT ![p] = "claimed"]
  BY DEF Claim, SameDisk, Goto
<1> DEFINE next == [NoTransaction EXCEPT !.gen = installs + 1, !.hadTarget = Exists("target")]
<1>3. phase'[p] = "claimed" /\ txn' = [txn EXCEPT ![p] = next]
  BY <1>2 DEF Claim, Sound, TypeOK
<1>4. installs + 1 \in 0..MaxInstalls /\ installs + 1 \in Generation /\ installs + 1 \in Nat
  BY Types DEF Claim, Generation, Old
<1>5. next \in Transaction /\ next.gen = installs + 1 /\ ~next.moved
      /\ (next.hadTarget <=> Exists("target"))
  BY <1>4, AtomicDirectoryAssumption DEF NoTransaction, Transaction, Generation, Old, Exists
<1> HIDE DEF next
<1>7. DiskOK' /\ MarkerOK' /\ (OwnerAlive' <=> OwnerAlive) /\ (OldBackup' <=> OldBackup)
      /\ (Exists("target")' <=> Exists("target")) /\ (Exists("backup")' <=> Exists("backup"))
      /\ (Readable' <=> Readable)
  BY <1>2, <1>4, SameDiskKeeps, Types DEF SameDisk, Readable
<1>8. txn'[p] = next
  BY <1>3 DEF Sound, TypeOK
<1>9. authority' # installs + 1
  <2>1. authority # None => authority \in Nat
    BY DEF Sound, TypeOK, Generation, Old
  <2>2. installs + 1 # None
    BY <1>4, Values
  <2> QED BY <1>2, <2>1, <2>2, Types DEF Sound, MarkerOK, SameDisk
<1>10. WriterOK(p)'
  <2>1. txn'[p].gen <= installs'
    BY <1>2, <1>4, <1>5, <1>8
  <2> QED BY <1>1, <1>2, <1>3, <1>5, <1>7, <1>8, <1>9, <2>1 DEF WriterOK, SameDisk
<1>11. OnlyOf(p)
  BY <1>2, Types DEF OnlyOf, Claim, Sound, TypeOK, SameDisk
<1>12. RecoveryOK'
  <2>1. AtWork(p)'
    BY <1>3 DEF AtWork, Active
  <2> QED BY <1>1, <1>11, <2>1, NoRecovery DEF OnlyOf
<1>13. LeftoverOK'
  BY <1>1, <1>2, <1>7 DEF WriterOK, LeftoverOK
<1> QED BY <1>1, <1>7, <1>10, <1>11, <1>12, <1>13, ByWriter

LEMMA MarkerTyped ==
  ASSUME Sound, NEW p \in Process, NEW written \in BOOLEAN
  PROVE  /\ MarkerOf(p, written) \in Marker /\ MarkerOf(p, written) # NoMarker
         /\ MarkerOf(p, written).owner = p /\ MarkerOf(p, written).life = life[p]
         /\ MarkerOf(p, written).gen = txn[p].gen
         /\ MarkerOf(p, written).hadTarget = txn[p].hadTarget
         /\ MarkerOf(p, written).written = written
<1>1. MarkerOf(p, written) \in Marker
  BY Types DEF MarkerOf, Marker, Transaction
<1> QED BY <1>1, Values DEF MarkerOf

\* The end of an activation begins.
LEMMA ClosesWith ==
  ASSUME Sound, Apart, NEW p \in Process, CanRun(p), phase[p] # "idle",
         NEW ops \in Plan, ops # <<>>, CloseWith(p, ops),
         disk' = disk, life' = life, recovery' = recovery, txn' = txn,
         given' = Nobody \/ (given' = given /\ authority' = authority),
         installs' = installs, crashes' = crashes,
         failures' \in Nat, failures' >= failures, authority' \in Generation \cup {None},
         disk.marker = MarkerOf(p, TRUE), DiskOK', MarkerOK', Safe(ops)',
         ops = PlanTidy => ~Exists("backup")
  PROVE  Sound'
<1>1. phase' = [phase EXCEPT ![p] = "closing"] /\ closing' = [closing EXCEPT ![p] = ops]
  BY DEF CloseWith, Goto
<1>2. phase'[p] = "closing" /\ closing'[p] = ops
  BY <1>1 DEF Sound, TypeOK
<1>5. disk'.marker = MarkerOf(p, TRUE)' /\ disk'.marker # NoMarker
  BY MarkerTyped DEF MarkerOf
<1>6. Exists("backup")' <=> Exists("backup")
  BY DEF Exists
<1>7. WriterOK(p)'
  BY <1>2, <1>5, <1>6 DEF WriterOK, OldBackup
<1>8. OnlyOf(p)
  BY <1>1 DEF OnlyOf, Sound, TypeOK
<1> QED BY <1>2, <1>7, <1>8, ByWorker

LEMMA OpenMarkerKeeps ==
  ASSUME Sound, Apart, NEW p \in Process, OpenMarker(p) PROVE Sound'
<1>1. WriterOK(p) /\ CanRun(p) /\ phase[p] = "claimed" /\ disk.marker = NoMarker
  BY Writing DEF OpenMarker
<1>2. /\ disk' = [disk EXCEPT !.marker = MarkerOf(p, FALSE)]
      /\ phase' = [phase EXCEPT ![p] = "opened"]
      /\ authority' = authority /\ life' = life /\ recovery' = recovery /\ txn' = txn
      /\ closing' = closing /\ given' = Nobody /\ installs' = installs /\ crashes' = crashes
      /\ failures' = failures
  BY DEF OpenMarker, Goto, MarkerOf
<1>3. /\ disk' \in Disk /\ disk'.marker = MarkerOf(p, FALSE) /\ disk'.target = disk.target
      /\ disk'.backup = disk.backup
  BY <1>2, DiskFields, MarkerTyped DEF Disk, Sound
<1>4. phase'[p] = "opened"
  BY <1>2 DEF Sound, TypeOK
<1>5. ~Readable /\ ~Readable' /\ ~Exists("backup")
  BY <1>1, <1>3, MarkerTyped DEF Readable, WriterOK
<1>6. (Exists("target")' <=> Exists("target")) /\ (Exists("backup")' <=> Exists("backup"))
  BY <1>3, DiskFields DEF Exists, Sound, Disk
<1>7. Tidy'
  BY <1>2, <1>3, <1>5, <1>6 DEF Sound, DiskOK, Tidy
<1>8. DiskOK'
  BY <1>5, <1>7 DEF DiskOK
<1>9. MarkerOK'
  <2>1. life[p] <= life[p]
    BY Types
  <2> QED BY <1>1, <1>2, <1>3, <2>1, MarkerTyped, ZenonT(40) DEF MarkerOK, Sound
<1>10. Untouched(p)'
  BY <1>1, <1>2, <1>5, <1>6 DEF Untouched, WriterOK
<1>11. WriterOK(p)'
  BY <1>1, <1>2, <1>3, <1>4, <1>10 DEF WriterOK, MarkerOf
<1>12. OnlyOf(p)
  BY <1>2, Types DEF OnlyOf, Sound, TypeOK
<1> QED BY <1>1, <1>4, <1>8, <1>9, <1>11, <1>12, ByWorker

\* A marker that is not written stays behind without harm.
LEMMA MarkerFailsKeeps ==
  ASSUME Sound, Apart, NEW p \in Process, MarkerFails(p) PROVE Sound'
<1>1. WriterOK(p) /\ CanRun(p) /\ phase[p] \in {"claimed", "opened"}
  BY Writing DEF MarkerFails
<1>2. SameDisk /\ installs' = installs /\ recovery' = recovery /\ given' = given
      /\ phase' = [phase EXCEPT ![p] = "idle"]
  BY DEF MarkerFails, SameDisk, Goto
<1>3. failures' \in Nat /\ failures' >= failures
  <2>1. failures' = failures \/ failures' = failures + 1
    BY DEF MarkerFails
  <2> QED BY <2>1, Types
<1>4. phase'[p] = "idle"
  BY <1>2 DEF Sound, TypeOK
<1>5. DiskOK' /\ MarkerOK' /\ (OwnerAlive' <=> OwnerAlive) /\ (OldBackup' <=> OldBackup)
  BY <1>2, SameDiskKeeps, Types
<1>6. WriterOK(p)'
  BY <1>4 DEF WriterOK
<1>7. OnlyOf(p)
  BY <1>2, <1>3 DEF OnlyOf, SameDisk, Sound, TypeOK
<1>8. RecoveryOK'
  <2>1. AtWork(p)
    BY <1>1 DEF AtWork, Active
  <2> QED BY <1>1, <1>2, <2>1, NoRecovery
<1>9. LeftoverOK'
  <2>1. OwnerAlive /\ OldBackup => failures >= 2
    <3>1. CASE phase[p] = "claimed"
      BY <1>1, <3>1 DEF WriterOK
    <3>2. CASE phase[p] = "opened"
      BY <1>1, <3>2, MarkerTyped DEF WriterOK, OwnerAlive, Readable
    <3> QED BY <1>1, <3>1, <3>2
  <2>2. failures >= 2 => failures' >= 2
    BY <1>3, Types
  <2> QED BY <1>5, <2>1, <2>2 DEF LeftoverOK
<1> QED BY <1>1, <1>5, <1>6, <1>7, <1>8, <1>9, ByWriter

LEMMA FillMarkerKeeps ==
  ASSUME Sound, Apart, NEW p \in Process, FillMarker(p) PROVE Sound'
<1>1. /\ WriterOK(p) /\ CanRun(p) /\ phase[p] = "opened"
      /\ disk.marker = MarkerOf(p, FALSE) /\ Untouched(p)
  BY Writing DEF FillMarker, WriterOK
<1>2. disk.marker # NoMarker /\ disk.marker.gen = txn[p].gen /\ disk.marker \in Marker /\ ~Readable
  BY <1>1, MarkerTyped DEF Readable
<1>3. /\ disk' = [disk EXCEPT !.marker.written = TRUE]
      /\ phase' = [phase EXCEPT ![p] = "marked"]
      /\ authority' = authority /\ life' = life /\ recovery' = recovery /\ txn' = txn
      /\ closing' = closing /\ given' = Nobody /\ installs' = installs /\ crashes' = crashes
      /\ failures' = failures
  BY <1>2 DEF FillMarker, Goto
<1>4. /\ disk'.marker = [disk.marker EXCEPT !.written = TRUE] /\ disk'.target = disk.target
      /\ disk'.backup = disk.backup
      /\ disk' = [disk EXCEPT !.marker = [disk.marker EXCEPT !.written = TRUE]]
  BY <1>3, DiskFields DEF Disk, Sound
<1>5. [disk.marker EXCEPT !.written = TRUE] = MarkerOf(p, TRUE)
  <2> DEFINE m == [disk.marker EXCEPT !.written = TRUE]
  <2>1. /\ m \in Marker /\ m.owner = disk.marker.owner /\ m.life = disk.marker.life
        /\ m.gen = disk.marker.gen /\ m.hadTarget = disk.marker.hadTarget /\ m.written = TRUE
    BY <1>2 DEF Marker
  <2> HIDE DEF m
  <2> DEFINE n == MarkerOf(p, TRUE)
  <2>2. m.owner = p /\ m.life = life[p] /\ m.gen = txn[p].gen /\ m.hadTarget = txn[p].hadTarget
    <3>1. /\ disk.marker.owner = p /\ disk.marker.life = life[p] /\ disk.marker.gen = txn[p].gen
          /\ disk.marker.hadTarget = txn[p].hadTarget
      BY <1>1 DEF MarkerOf
    <3> QED BY <2>1, <3>1
  <2>3. /\ n \in Marker /\ n.owner = p /\ n.life = life[p] /\ n.gen = txn[p].gen
        /\ n.hadTarget = txn[p].hadTarget /\ n.written = TRUE
    BY MarkerTyped
  <2> HIDE DEF n
  <2>4. m = n
    BY <2>1, <2>2, <2>3 DEF Marker
  <2> QED BY <2>4 DEF m, n
<1>6. disk' \in Disk /\ disk'.marker = MarkerOf(p, TRUE)
  <2> DEFINE m == [disk.marker EXCEPT !.written = TRUE]
  <2>1. m \in Marker
    BY <1>5, MarkerTyped
  <2> HIDE DEF m
  <2>2. disk' = [disk EXCEPT !.marker = m]
    BY <1>4 DEF m
  <2>3. disk' \in Disk
    BY <2>1, <2>2, DiskFields DEF Disk, Sound
  <2> QED BY <1>4, <1>5, <2>3
<1>7. phase'[p] = "marked"
  BY <1>3 DEF Sound, TypeOK
<1>8. TypeOK'
  BY DEF Apart
<1>9. (Exists("target")' <=> Exists("target")) /\ (Exists("backup")' <=> Exists("backup"))
  BY <1>4, <1>8, DiskFields DEF Exists, Sound, Disk
<1>10. Tidy /\ ~Exists("backup")
  BY <1>1, <1>2 DEF Sound, DiskOK, Untouched
<1>11. authority # None => disk'.target = authority /\ txn[p].hadTarget
  BY <1>1, <1>4, <1>10, DiskFields DEF Tidy, Exists, Untouched, Sound
<1>12. DiskOK'
  <2>1. Readable' /\ authority' # disk'.marker.gen /\ disk'.marker.hadTarget = txn[p].hadTarget
    BY <1>1, <1>3, <1>6, MarkerTyped, ZenonT(40) DEF Readable, Untouched
  <2> QED BY <1>3, <1>9, <1>10, <1>11, <2>1 DEF DiskOK
<1>13. MarkerOK'
  <2>1. life[p] <= life[p]
    BY Types
  <2> QED BY <1>1, <1>3, <1>6, <2>1, MarkerTyped, ZenonT(40) DEF MarkerOK, Sound
<1>14. Untouched(p)'
  BY <1>1, <1>3, <1>9 DEF Untouched
<1>15. WriterOK(p)'
  BY <1>1, <1>3, <1>6, <1>7, <1>14 DEF WriterOK, MarkerOf
<1>16. OnlyOf(p)
  BY <1>3, Types DEF OnlyOf, Sound, TypeOK
<1> QED BY <1>1, <1>7, <1>12, <1>13, <1>15, <1>16, ByWorker

LEMMA MoveAsideKeeps ==
  ASSUME Sound, Apart, NEW p \in Process, MoveAside(p) PROVE Sound'
<1>1. /\ WriterOK(p) /\ CanRun(p) /\ phase[p] = "marked"
      /\ disk.marker = MarkerOf(p, TRUE) /\ Untouched(p)
  BY Writing DEF MoveAside, WriterOK
<1>2. /\ disk.marker # NoMarker /\ disk.marker.gen = txn[p].gen /\ Readable
      /\ disk.marker.hadTarget = txn[p].hadTarget
  BY <1>1, MarkerTyped DEF Readable
<1> DEFINE next == [txn[p] EXCEPT !.moved = txn[p].hadTarget]
<1>3. /\ phase' = [phase EXCEPT ![p] = "moved"]
      /\ txn' = [txn EXCEPT ![p] = next]
      /\ authority' = authority /\ life' = life /\ recovery' = recovery
      /\ closing' = closing /\ given' = Nobody /\ installs' = installs /\ crashes' = crashes
      /\ failures' = failures
  BY DEF MoveAside, Goto
<1>4. /\ next \in Transaction /\ next.gen = txn[p].gen /\ next.hadTarget = txn[p].hadTarget
      /\ next.moved = txn[p].hadTarget /\ next.prior = txn[p].prior
  BY Types DEF Transaction
<1> HIDE DEF next
<1>5. phase'[p] = "moved" /\ txn'[p] = next
  BY <1>3 DEF Sound, TypeOK
<1>6. authority # None => disk.target = authority
  BY <1>1, <1>2 DEF Sound, DiskOK, Untouched
<1>7. /\ disk' \in Disk /\ disk'.marker = disk.marker /\ disk'.target = None
      /\ IF txn[p].hadTarget THEN disk'.backup = disk.target ELSE disk'.backup = None
  <2>1. CASE txn[p].hadTarget
    <3>1. disk' = [disk EXCEPT !.target = None, !.backup = disk.target]
      BY <2>1 DEF MoveAside
    <3> QED BY <2>1, <3>1, DiskFields, Values DEF Disk, Sound
  <2>2. CASE ~txn[p].hadTarget
    <3>1. disk' = disk
      BY <2>2 DEF MoveAside
    <3> QED BY <1>1, <2>2, <3>1, DiskFields DEF Sound, Untouched, Exists
  <2> QED BY <2>1, <2>2
<1>8. TypeOK'
  BY DEF Apart
<1>9. /\ ~Exists("target")'
      /\ IF txn[p].hadTarget THEN Exists("backup")' /\ (authority # None => disk'.backup = authority)
         ELSE ~Exists("backup")' /\ authority = None
  BY <1>1, <1>6, <1>7, <1>8, DiskFields DEF Exists, Sound, Disk, Untouched
<1>10. DiskOK'
  <2>1. Readable' /\ authority' # disk'.marker.gen /\ disk'.marker.hadTarget = txn[p].hadTarget
    BY <1>1, <1>2, <1>3, <1>7 DEF Readable, Untouched
  <2> QED BY <1>3, <1>9, <2>1 DEF DiskOK
<1>11. MarkerOK'
  BY <1>3, <1>7 DEF MarkerOK, Sound
<1>12. Aside(p, authority)'
  BY <1>3, <1>4, <1>5, <1>9 DEF Aside
<1>13. disk'.marker = MarkerOf(p, TRUE)'
  BY <1>1, <1>3, <1>4, <1>5, <1>7 DEF MarkerOf
<1>14. WriterOK(p)'
  BY <1>1, <1>3, <1>4, <1>5, <1>9, <1>12, <1>13 DEF WriterOK, Untouched
<1>15. OnlyOf(p)
  BY <1>3, Types DEF OnlyOf, Sound, TypeOK
<1> QED BY <1>1, <1>5, <1>10, <1>11, <1>14, <1>15, ByWorker

LEMMA PlaceKeeps ==
  ASSUME Sound, Apart, NEW p \in Process, Place(p) PROVE Sound'
<1>1. /\ WriterOK(p) /\ CanRun(p) /\ phase[p] = "moved"
      /\ disk.marker = MarkerOf(p, TRUE) /\ authority # txn[p].gen /\ Aside(p, authority)
  BY Writing DEF Place, WriterOK
<1>2. /\ disk.marker # NoMarker /\ disk.marker.gen = txn[p].gen /\ Readable
      /\ disk.marker.hadTarget = txn[p].hadTarget
  BY <1>1, MarkerTyped, ZenonT(40) DEF Readable
<1>3. /\ phase' = [phase EXCEPT ![p] = "placed"] /\ disk' = [disk EXCEPT !.target = txn[p].gen]
      /\ authority' = authority /\ life' = life /\ recovery' = recovery /\ txn' = txn
      /\ closing' = closing /\ given' = Nobody /\ installs' = installs /\ crashes' = crashes
      /\ failures' = failures
  BY DEF Place, Goto
<1>4. phase'[p] = "placed"
  BY <1>3 DEF Sound, TypeOK
<1>5. txn[p].gen \in Content
  BY Types, Values DEF Transaction
<1>6. /\ disk' \in Disk /\ disk'.marker = disk.marker /\ disk'.target = txn[p].gen
      /\ disk'.backup = disk.backup
  BY <1>3, <1>5, DiskFields DEF Disk, Sound
<1>7. TypeOK'
  BY DEF Apart
<1>8. Exists("backup")' <=> Exists("backup")
  BY <1>6, <1>7, DiskFields DEF Exists, Sound, Disk
<1>9. DiskOK'
  <2>1. Readable' /\ authority' # disk'.marker.gen /\ disk'.marker.hadTarget = txn[p].hadTarget
    BY <1>1, <1>2, <1>3, <1>6 DEF Readable
  <2> QED BY <1>1, <1>3, <1>6, <1>8, <2>1 DEF DiskOK, Aside
<1>10. MarkerOK'
  BY <1>3, <1>6 DEF MarkerOK, Sound
<1>11. Aside(p, authority)'
  BY <1>1, <1>3, <1>6, <1>8 DEF Aside
<1>12. WriterOK(p)'
  BY <1>1, <1>3, <1>4, <1>6, <1>11 DEF WriterOK, MarkerOf
<1>13. OnlyOf(p)
  BY <1>3, Types DEF OnlyOf, Sound, TypeOK
<1> QED BY <1>1, <1>4, <1>9, <1>10, <1>12, <1>13, ByWorker

LEMMA CommitKeeps ==
  ASSUME Sound, Apart, NEW p \in Process, Commit(p) PROVE Sound'
<1>1. /\ WriterOK(p) /\ CanRun(p) /\ phase[p] = "placed"
      /\ disk.marker = MarkerOf(p, TRUE) /\ disk.target = txn[p].gen
      /\ authority # txn[p].gen /\ Aside(p, authority)
  BY Writing DEF Commit, WriterOK
<1>2. /\ disk.marker # NoMarker /\ disk.marker.gen = txn[p].gen /\ Readable
      /\ disk.marker.hadTarget = txn[p].hadTarget
  BY <1>1, MarkerTyped, ZenonT(40) DEF Readable
<1> DEFINE next == [txn[p] EXCEPT !.prior = authority]
<1>3. /\ phase' = [phase EXCEPT ![p] = "committed"] /\ txn' = [txn EXCEPT ![p] = next]
      /\ authority' = txn[p].gen /\ disk' = disk /\ life' = life /\ recovery' = recovery
      /\ closing' = closing /\ given' = Nobody /\ installs' = installs /\ crashes' = crashes
      /\ failures' = failures
  BY DEF Commit, Goto
<1>4. /\ next \in Transaction /\ next.gen = txn[p].gen /\ next.hadTarget = txn[p].hadTarget
      /\ next.moved = txn[p].moved /\ next.prior = authority
  BY Types DEF Transaction
<1> HIDE DEF next
<1>5. phase'[p] = "committed" /\ txn'[p] = next
  BY <1>3 DEF Sound, TypeOK
<1>8. Exists("backup")' <=> Exists("backup")
  BY <1>3 DEF Exists
<1>9. DiskOK'
  <2>1. Readable' /\ authority' = disk'.marker.gen /\ disk'.marker.hadTarget = txn[p].hadTarget
    BY <1>2, <1>3 DEF Readable
  <2>2. Exists("backup") => txn[p].hadTarget
    BY <1>1 DEF Aside
  <2> QED BY <1>1, <1>3, <1>8, <2>1, <2>2 DEF DiskOK
<1>10. txn[p].gen <= installs
  BY <1>1 DEF Sound, WriterOK
<1>11. MarkerOK'
  BY <1>3, <1>10 DEF MarkerOK, Sound
<1>12. Aside(p, txn[p].prior)'
  BY <1>1, <1>3, <1>4, <1>5, <1>8 DEF Aside
<1>13. disk'.marker = MarkerOf(p, TRUE)'
  BY <1>1, <1>3, <1>4, <1>5 DEF MarkerOf
<1>14. authority # None => authority <= installs
  BY DEF Sound, MarkerOK
<1>15. WriterOK(p)'
  BY <1>1, <1>3, <1>4, <1>5, <1>12, <1>13, <1>14 DEF WriterOK
<1>16. OnlyOf(p)
  BY <1>3, Types DEF OnlyOf, Sound, TypeOK
<1> QED BY <1>1, <1>5, <1>9, <1>11, <1>15, <1>16, ByWorker

LEMMA MoveAsideFailsKeeps ==
  ASSUME Sound, Apart, NEW p \in Process, MoveAsideFails(p) PROVE Sound'
<1>1. /\ WriterOK(p) /\ CanRun(p) /\ phase[p] = "marked"
      /\ disk.marker = MarkerOf(p, TRUE) /\ Untouched(p) /\ txn[p].hadTarget
  BY Writing DEF MoveAsideFails, WriterOK
<1>2. /\ disk.marker # NoMarker /\ disk.marker.gen = txn[p].gen /\ Readable
  BY <1>1, MarkerTyped, ZenonT(40) DEF Readable
<1>3. /\ disk' = disk /\ life' = life /\ recovery' = recovery /\ txn' = txn /\ given' = given
      /\ installs' = installs /\ crashes' = crashes /\ authority' = authority
      /\ CloseWith(p, PlanTidy)
  BY DEF MoveAsideFails, PlanTidy
<1>4. failures' \in Nat /\ failures' >= failures
  <2>1. failures' = failures \/ failures' = failures + 1
    BY DEF MoveAsideFails
  <2> QED BY <2>1, Types
<1>5. DiskOK' /\ MarkerOK'
  BY <1>3, SameDiskKeeps, Types DEF SameDisk
<1>6. Tidy
  BY <1>1, <1>2 DEF Sound, DiskOK, Untouched, Tidy
<1>7. Safe(PlanTidy)'
  BY <1>3, <1>6 DEF Safe, Tidy, Exists
<1>8. PlanTidy \in Plan /\ PlanTidy # <<>> /\ ~Exists("backup")
  BY <1>1, PlansDiffer DEF Plan, Untouched
<1> QED BY <1>1, <1>3, <1>4, <1>5, <1>7, <1>8, Types, ClosesWith

LEMMA PlaceFailsKeeps ==
  ASSUME Sound, Apart, NEW p \in Process, PlaceFails(p) PROVE Sound'
<1>1. /\ WriterOK(p) /\ CanRun(p) /\ phase[p] = "moved" /\ ~Exists("target")
      /\ disk.marker = MarkerOf(p, TRUE) /\ authority # txn[p].gen /\ Aside(p, authority)
  BY Writing DEF PlaceFails, WriterOK
<1>2. /\ disk' = disk /\ life' = life /\ recovery' = recovery /\ txn' = txn /\ given' = given
      /\ installs' = installs /\ crashes' = crashes /\ authority' = authority
  BY DEF PlaceFails
<1>3. failures' \in Nat /\ failures' >= failures
  <2>1. failures' = failures \/ failures' = failures + 1
    BY DEF PlaceFails
  <2> QED BY <2>1, Types
<1>4. DiskOK' /\ MarkerOK'
  BY <1>2, SameDiskKeeps, Types DEF SameDisk
<1>5. CASE txn[p].moved
  <2>1. CloseWith(p, PlanBack)
    BY <1>1, <1>5 DEF PlaceFails, PlanBack
  <2>2. InBackup
    BY <1>1, <1>5 DEF Aside, InBackup
  <2>3. Safe(PlanBack)'
    BY <1>1, <1>2, <2>2 DEF Safe, InBackup, Exists
  <2>4. PlanBack \in Plan /\ PlanBack # <<>> /\ PlanBack # PlanTidy
    BY PlansDiffer DEF Plan
  <2> QED BY <1>1, <1>2, <1>3, <1>4, <2>1, <2>3, <2>4, Types, ClosesWith
<1>6. CASE ~txn[p].moved
  <2>1. CloseWith(p, PlanTidy)
    BY <1>1, <1>6 DEF PlaceFails, PlanTidy
  <2>2. Tidy /\ ~Exists("backup")
    BY <1>1, <1>6 DEF Aside, Tidy
  <2>3. Safe(PlanTidy)'
    BY <1>2, <2>2 DEF Safe, Tidy, Exists
  <2>4. PlanTidy \in Plan /\ PlanTidy # <<>>
    BY PlansDiffer DEF Plan
  <2> QED BY <1>1, <1>2, <1>3, <1>4, <2>1, <2>2, <2>3, <2>4, Types, ClosesWith
<1> QED BY <1>5, <1>6

\* The rollback of an activation that is not, or no longer, committed.
LEMMA RollbackSafe ==
  ASSUME Sound, NEW p \in Process, disk.marker = MarkerOf(p, TRUE),
         NEW c, c # txn[p].gen, Aside(p, c), disk' = disk, authority' = c
  PROVE  \E ops \in {PlanUndo, PlanClear} : RollbackPlan(p) = ops /\ Safe(ops)'
<1>1. Readable' /\ disk'.marker.gen = txn[p].gen
  BY MarkerTyped DEF Readable
<1>2. CASE txn[p].moved
  <2>1. RollbackPlan(p) = PlanUndo
    BY <1>2, PlanParts DEF RollbackPlan
  <2>2. InBackup'
    BY <1>2 DEF Aside, InBackup, Exists
  <2>3. Safe(PlanUndo)'
    BY <1>1, <2>2 DEF Safe
  <2> QED BY <2>1, <2>3
<1>3. CASE ~txn[p].moved
  <2>1. RollbackPlan(p) = PlanClear
    BY <1>3, PlanParts DEF RollbackPlan
  <2>2. ~Exists("backup")' /\ authority' = None
    BY <1>3 DEF Aside, Exists
  <2>3. Safe(PlanClear)'
    BY <1>1, <2>2 DEF Safe
  <2> QED BY <2>1, <2>3
<1> QED BY <1>2, <1>3

LEMMA AbortKeeps ==
  ASSUME Sound, Apart, NEW p \in Process, Abort(p) PROVE Sound'
<1>1. /\ WriterOK(p) /\ CanRun(p) /\ phase[p] = "placed"
      /\ disk.marker = MarkerOf(p, TRUE) /\ authority # txn[p].gen /\ Aside(p, authority)
  BY Writing DEF Abort, WriterOK
<1>2. /\ disk' = disk /\ life' = life /\ recovery' = recovery /\ txn' = txn /\ given' = given
      /\ installs' = installs /\ crashes' = crashes /\ authority' = authority
      /\ failures' = failures /\ CloseWith(p, RollbackPlan(p))
  BY DEF Abort
<1>3. failures' \in Nat /\ failures' >= failures
  BY <1>2, Types
<1>4. DiskOK' /\ MarkerOK'
  BY <1>2, SameDiskKeeps, Types DEF SameDisk
<1>5. PICK ops \in {PlanUndo, PlanClear} : RollbackPlan(p) = ops /\ Safe(ops)'
  BY <1>1, <1>2, RollbackSafe
<1>6. ops \in Plan /\ ops # <<>> /\ ops # PlanTidy
  BY PlansDiffer DEF Plan
<1> QED BY <1>1, <1>2, <1>3, <1>4, <1>5, <1>6, Types, ClosesWith

LEMMA FinalizeKeeps ==
  ASSUME Sound, Apart, NEW p \in Process, Finalize(p) PROVE Sound'
<1>1. /\ WriterOK(p) /\ CanRun(p) /\ phase[p] = "committed"
      /\ disk.marker = MarkerOf(p, TRUE) /\ disk.target = txn[p].gen
      /\ authority = txn[p].gen /\ Aside(p, txn[p].prior)
  BY Writing DEF Finalize, WriterOK
<1>2. /\ disk' = disk /\ life' = life /\ recovery' = recovery /\ txn' = txn /\ given' = given
      /\ installs' = installs /\ crashes' = crashes /\ authority' = authority
      /\ failures' = failures /\ CloseWith(p, FinalizePlan(p))
  BY DEF Finalize
<1>3. failures' \in Nat /\ failures' >= failures
  BY <1>2, Types
<1>4. DiskOK' /\ MarkerOK'
  BY <1>2, SameDiskKeeps, Types DEF SameDisk
<1>5. Exists("target") /\ Tidy /\ disk.marker.gen = authority
  <2>1. txn[p].gen # None /\ disk["target"] = disk.target
    BY Types, Values, DiskFields DEF Transaction, Sound
  <2> QED BY <1>1, <2>1, MarkerTyped DEF Tidy, Exists
<1>6. Exists("target")' /\ Tidy' /\ disk'.marker.gen = authority'
  BY <1>2, <1>5 DEF Exists, Tidy
<1>7. CASE txn[p].moved
  <2>1. FinalizePlan(p) = PlanDrop
    BY <1>7, PlanParts DEF FinalizePlan
  <2>2. Safe(PlanDrop)' /\ PlanDrop \in Plan /\ PlanDrop # <<>> /\ PlanDrop # PlanTidy
    BY <1>6, PlansDiffer DEF Safe, Plan
  <2> QED BY <1>1, <1>2, <1>3, <1>4, <2>1, <2>2, Types, ClosesWith
<1>8. CASE ~txn[p].moved
  <2>1. FinalizePlan(p) = PlanTidy
    BY <1>8, PlanParts DEF FinalizePlan
  <2>2. Safe(PlanTidy)' /\ PlanTidy \in Plan /\ PlanTidy # <<>> /\ ~Exists("backup")
    BY <1>1, <1>6, <1>8, PlansDiffer DEF Safe, Plan, Aside
  <2> QED BY <1>1, <1>2, <1>3, <1>4, <2>1, <2>2, Types, ClosesWith
<1> QED BY <1>7, <1>8

LEMMA RevokeAuthorityKeeps ==
  ASSUME Sound, Apart, NEW p \in Process, RevokeAuthority(p) PROVE Sound'
<1>1. /\ WriterOK(p) /\ CanRun(p) /\ phase[p] = "committed"
      /\ disk.marker = MarkerOf(p, TRUE) /\ txn[p].prior # txn[p].gen
      /\ Aside(p, txn[p].prior) /\ (txn[p].prior # None => txn[p].prior <= installs)
  BY Writing DEF RevokeAuthority, WriterOK
<1>2. /\ disk' = disk /\ life' = life /\ recovery' = recovery /\ txn' = txn /\ given' = Nobody
      /\ installs' = installs /\ crashes' = crashes /\ authority' = txn[p].prior
      /\ failures' = failures /\ CloseWith(p, RollbackPlan(p))
  BY DEF RevokeAuthority
<1>3. failures' \in Nat /\ failures' >= failures /\ authority' \in Generation \cup {None}
  BY <1>2, Types DEF Transaction
<1>4. /\ disk.marker # NoMarker /\ disk.marker.gen = txn[p].gen /\ Readable
      /\ disk.marker.hadTarget = txn[p].hadTarget
  BY <1>1, MarkerTyped, ZenonT(40) DEF Readable
<1>5. DiskOK'
  <2>1. Readable' /\ authority' # disk'.marker.gen /\ disk'.marker.hadTarget = txn[p].hadTarget
        /\ (Exists("backup")' <=> Exists("backup"))
    BY <1>1, <1>2, <1>4 DEF Readable, Exists
  <2> QED BY <1>1, <1>2, <2>1 DEF DiskOK, Aside
<1>6. MarkerOK'
  BY <1>1, <1>2 DEF MarkerOK, Sound
<1>7. PICK ops \in {PlanUndo, PlanClear} : RollbackPlan(p) = ops /\ Safe(ops)'
  BY <1>1, <1>2, RollbackSafe
<1>8. ops \in Plan /\ ops # <<>> /\ ops # PlanTidy
  BY PlansDiffer DEF Plan
<1> QED BY <1>1, <1>2, <1>3, <1>5, <1>6, <1>7, <1>8, ClosesWith

\* After the removal of the marker nothing is left to do; before it p is at work.
LEMMA CloseStepKeeps ==
  ASSUME Sound, Apart, NEW p \in Process, CloseStep(p) PROVE Sound'
<1>1. /\ WriterOK(p) /\ CanRun(p) /\ phase[p] = "closing" /\ closing[p] # <<>>
      /\ Safe(closing[p]) /\ disk.marker = MarkerOf(p, TRUE)
  BY Writing DEF CloseStep, WriterOK
<1>2. /\ CanDo(Head(closing[p])) /\ disk' = After(Head(closing[p]))
      /\ closing' = [closing EXCEPT ![p] = Tail(closing[p])]
      /\ authority' = authority /\ life' = life /\ recovery' = recovery /\ phase' = phase
      /\ txn' = txn /\ given' = Nobody /\ installs' = installs /\ crashes' = crashes
      /\ failures' = failures
  BY DEF CloseStep
<1>0. PICK ops \in Plan : ops = closing[p]
  BY <1>1 DEF Safe, Plan
<1>3. Stepped(ops)
  BY <1>0, <1>1, <1>2, SafeStep DEF Sound
<1> DEFINE rest == Tail(ops)
<1>4. /\ disk' \in Disk /\ DiskOK' /\ rest \in Plan /\ rest \in Seq(Operation)
      /\ rest = PlanTidy => disk'.backup = None
      /\ IF ops = PlanTidy
         THEN /\ disk'.marker = NoMarker /\ disk'.target = disk.target /\ disk'.backup = disk.backup
              /\ rest = <<>>
         ELSE disk'.marker = disk.marker /\ rest # <<>>
  BY <1>3, PlanTypes DEF Stepped
<1>5. closing'[p] = rest /\ phase'[p] = "closing"
  BY <1>0, <1>1, <1>2 DEF Sound, TypeOK
<1>7. Safe(closing[p])'
  <2>1. Safe(rest)'
    BY <1>3 DEF Stepped
  <2> HIDE DEF rest
  <2> QED BY <1>5, <2>1 DEF Safe
<1> HIDE DEF rest
<1>8. MarkerOK'
  BY <1>2, <1>4 DEF MarkerOK, Sound
<1>9. /\ disk'["target"] = disk'.target /\ disk'["backup"] = disk'.backup
      /\ disk["target"] = disk.target /\ disk["backup"] = disk.backup
  BY <1>4, DiskFields DEF Sound, Disk
<1>10. MarkerOf(p, TRUE)' = MarkerOf(p, TRUE) /\ MarkerOf(p, TRUE) # NoMarker
  BY <1>2, MarkerTyped DEF MarkerOf
<1>11. WriterOK(p)'
  <2>1. CASE ops = PlanTidy
    <3>1. disk'.marker = NoMarker /\ rest = <<>> /\ rest # PlanTidy
      BY <1>4, <2>1, PlansDiffer
    <3>2. authority # txn[p].gen => ~Exists("backup")
      BY <1>0, <1>1, <2>1 DEF WriterOK
    <3>3. /\ disk.marker.gen = txn[p].gen /\ Readable
          /\ disk.marker.hadTarget = txn[p].hadTarget
      BY <1>1, MarkerTyped DEF Readable
    <3>4. authority # None => /\ disk.target = authority
                              /\ authority # txn[p].gen => txn[p].hadTarget /\ ~Exists("backup")
      BY <3>2, <3>3 DEF Sound, DiskOK
    <3>5. Exists("backup")' <=> Exists("backup")
      BY <1>4, <1>9, <2>1 DEF Exists
    <3> QED BY <1>2, <1>4, <1>5, <1>7, <2>1, <3>1, <3>4, <3>5 DEF WriterOK
  <2>2. CASE ops # PlanTidy
    <3>1. disk'.marker = MarkerOf(p, TRUE)' /\ rest # <<>>
      BY <1>1, <1>4, <1>10, <2>2
    <3>2. rest = PlanTidy => ~Exists("backup")'
      BY <1>4, <1>9 DEF Exists
    <3>3. disk'.marker # NoMarker
      BY <3>1, <1>10
    <3> QED BY <1>5, <1>7, <3>1, <3>2, <3>3 DEF WriterOK, OldBackup
  <2> QED BY <2>1, <2>2
<1>12. OnlyOf(p)
  BY <1>2, Types DEF OnlyOf, Sound, TypeOK
<1>13. CASE ops = PlanTidy
  <2>1. RecoveryOK'
    <3>1. AtWork(p)
      BY <1>1 DEF AtWork, Active
    <3> QED BY <1>1, <1>2, <3>1, NoRecovery
  <2>2. LeftoverOK'
    BY <1>4, <1>13 DEF LeftoverOK, OwnerAlive, Readable
  <2> QED BY <1>1, <1>4, <1>8, <1>11, <1>12, <2>1, <2>2, ByWriter
<1>14. CASE ops # PlanTidy
  <2>1. rest # <<>>
    BY <1>4, <1>14
  <2> QED BY <1>1, <1>4, <1>5, <1>8, <1>11, <1>12, <2>1, ByWorker
<1> QED BY <1>13, <1>14

LEMMA CloseFailsKeeps ==
  ASSUME Sound, Apart, NEW p \in Process, CloseFails(p) PROVE Sound'
<1>1. /\ WriterOK(p) /\ CanRun(p) /\ phase[p] = "closing" /\ closing[p] # <<>>
      /\ Safe(closing[p]) /\ disk.marker = MarkerOf(p, TRUE)
  BY Writing DEF CloseFails, WriterOK
<1>0. PICK ops \in Plan : ops = closing[p]
  BY <1>1 DEF Safe, Plan
<1> DEFINE rest == IF BestEffort(Head(ops)) THEN Tail(ops) ELSE <<>>
<1>2. /\ closing' = [closing EXCEPT ![p] = rest]
      /\ disk' = disk /\ authority' = authority /\ life' = life /\ recovery' = recovery
      /\ phase' = phase /\ txn' = txn /\ given' = given /\ installs' = installs /\ crashes' = crashes
  BY <1>0 DEF CloseFails
<1>3. failures' \in Nat /\ failures' >= failures
  <2>1. failures' = failures \/ failures' = failures + 1
    BY DEF CloseFails
  <2> QED BY <2>1, Types
<1>4. /\ DiskOK' /\ MarkerOK' /\ (OldBackup' <=> OldBackup) /\ (OwnerAlive' <=> OwnerAlive)
      /\ (Exists("backup")' <=> Exists("backup"))
  BY <1>2, SameDiskKeeps, Types DEF SameDisk
<1>5. BestEffort(Head(ops)) => failures' = failures + 1
  BY <1>0 DEF CloseFails, BestEffort, CanDo
<1> DEFINE Left ==
      /\ rest \in Plan /\ Safe(rest)
      /\ rest = PlanTidy => authority = txn[p].gen /\ failures' = failures + 1
      /\ rest = <<>> => (ops = PlanTidy /\ failures' = failures + 1) \/ ~OldBackup
<1>15. disk.marker.gen = txn[p].gen /\ Readable
  BY <1>1, MarkerTyped DEF Readable
\* Only the removal of a backup or of the marker is given up for the next operation.
<1>6. Left
  <2>1. CASE ops = PlanTidy
    <3>1. rest = <<>> /\ failures' = failures + 1
      BY <1>5, <2>1, PlanSteps DEF BestEffort
    <3> QED BY <2>1, <3>1, PlansDiffer DEF Plan, Safe
  <2>2. CASE ops = PlanDrop /\ Exists("target") /\ Tidy /\ (Readable => authority = disk.marker.gen)
    <3>1. rest = PlanDropTorn
      BY <2>2, PlanSteps DEF BestEffort
    <3> QED BY <2>2, <3>1, PlansDiffer DEF Plan, Safe
  <2>3. CASE ops = PlanDropTorn /\ Exists("target") /\ Tidy
             /\ (Readable => authority = disk.marker.gen)
    <3>1. rest = PlanTidy /\ failures' = failures + 1
      BY <1>5, <2>3, PlanSteps DEF BestEffort
    <3>2. authority = txn[p].gen
      BY <1>1, <2>3, MarkerTyped DEF Readable
    <3> QED BY <2>3, <3>1, <3>2, PlansDiffer DEF Plan, Safe
  <2>4. CASE ops = PlanBack /\ InBackup /\ ~Exists("target")
    <3>1. rest = <<>>
      BY <2>4, PlanSteps DEF BestEffort
    <3>2. ~OldBackup
      <4> SUFFICES ASSUME OldBackup PROVE FALSE
        OBVIOUS
      <4>1. disk.target = authority /\ authority # None /\ disk["target"] = disk.target
        BY <1>15, Types, Values, DiskFields DEF OldBackup, Sound, DiskOK, Transaction
      <4> QED BY <2>4, <4>1 DEF Exists
    <3> QED BY <3>1, <3>2, PlansDiffer DEF Plan, Safe
  <2>5. CASE ops \in {PlanUndo, PlanUndoTorn} /\ authority # disk.marker.gen
    <3>1. rest = <<>>
      BY <2>5, PlanSteps DEF BestEffort
    <3> QED BY <2>5, <3>1, PlansDiffer DEF Plan, Safe, OldBackup
  <2>6. CASE ops \in {PlanClear, PlanClearTorn} /\ ~Exists("backup")
    <3>1. rest = <<>>
      BY <2>6, PlanSteps DEF BestEffort
    <3> QED BY <2>6, <3>1, PlansDiffer DEF Plan, Safe, OldBackup
  <2> QED BY <1>0, <1>1, <2>1, <2>2, <2>3, <2>4, <2>5, <2>6 DEF Safe
<1>8. rest = PlanTidy => (OldBackup => failures' >= 1)
  BY <1>6, Types
<1>9. rest = <<>> => (OldBackup => failures' >= 2)
  <2>1. ops = PlanTidy => (OldBackup => failures >= 1)
    BY <1>0, <1>1 DEF WriterOK
  <2> QED BY <1>6, <2>1, Types
<1> HIDE DEF rest
<1>10. Safe(closing[p])' /\ closing'[p] = rest /\ phase'[p] = "closing"
  <2>1. closing'[p] = rest /\ phase'[p] = "closing"
    BY <1>1, <1>2 DEF Sound, TypeOK
  <2>2. Safe(rest)'
    BY <1>2, <1>6 DEF Safe, Tidy, InBackup, Exists, Readable
  <2> QED BY <2>1, <2>2 DEF Safe
<1>12. disk'.marker = MarkerOf(p, TRUE)' /\ disk'.marker # NoMarker
  BY <1>1, <1>2, MarkerTyped DEF MarkerOf
<1>13. WriterOK(p)'
  BY <1>2, <1>4, <1>6, <1>8, <1>10, <1>12 DEF WriterOK
<1>14. OnlyOf(p)
  BY <1>2, <1>3 DEF OnlyOf
<1>16. RecoveryOK'
  <2>1. AtWork(p)
    BY <1>1 DEF AtWork, Active
  <2> QED BY <1>1, <1>2, <2>1, NoRecovery
<1>17. LeftoverOK'
  <2>1. CASE rest = <<>>
    BY <1>4, <1>9, <2>1 DEF LeftoverOK
  <2>2. CASE rest # <<>>
    BY <1>10, <2>2 DEF LeftoverOK, AtRest
  <2> QED BY <2>1, <2>2
<1> QED BY <1>1, <1>4, <1>13, <1>14, <1>16, <1>17, ByWriter

LEMMA CloseKeeps ==
  ASSUME Sound, Apart, NEW p \in Process, Close(p) PROVE Sound'
<1>1. WriterOK(p) /\ CanRun(p) /\ phase[p] = "closing" /\ closing[p] = <<>>
  BY Writing DEF Close
<1>2. SameDisk /\ installs' = installs /\ failures' = failures /\ phase' = [phase EXCEPT ![p] = "idle"]
      /\ txn' = [txn EXCEPT ![p] = NoTransaction]
  BY DEF Close, SameDisk, Goto
<1>3. phase'[p] = "idle"
  BY <1>2 DEF Sound, TypeOK
<1>6. DiskOK' /\ MarkerOK' /\ (OwnerAlive' <=> OwnerAlive) /\ (OldBackup' <=> OldBackup)
  BY <1>2, SameDiskKeeps, Types
<1>7. AtRest
  BY <1>1 DEF AtRest, Apart, Overlap
<1>8. LeftoverOK'
  BY <1>2, <1>6, <1>7 DEF Sound, LeftoverOK
<1>9. WriterOK(p)'
  BY <1>3 DEF WriterOK
<1>10. OnlyOf(p)
  BY <1>2, Types DEF OnlyOf, Close, Sound, TypeOK, SameDisk
<1>11. RecoveryOK'
  <2>1. \A q \in Process : recovery'[q] = recovery[q] /\ (recovery[q] # Idle => phase'[q] = phase[q])
    BY <1>1, <1>2 DEF Close, CanRun, Sound, TypeOK
  <2> QED BY <1>2, <1>6, <2>1 DEF Sound, RecoveryOK, SameDisk, Safe, Tidy, InBackup, Exists, Readable
<1> QED BY <1>1, <1>6, <1>8, <1>9, <1>10, <1>11, ByWriter

-----------------------------------------------------------------------------
(* Readers, recoveries and crashes *)

\* Whoever reads beside a live transaction is led to the committed generation.
LEMMA Served ==
  ASSUME Sound, NEW p \in Process, Live(p), failures <= 1, authority # None
  PROVE  disk[LivePath(p)] = authority
<1> DEFINE t == LiveTransaction(p)
<1>1. SUFFICES IF authority = t.gen THEN disk.target = authority
               ELSE IF Exists("backup") THEN disk.backup = authority
               ELSE t.hadTarget /\ disk.target = authority
  BY DiskFields DEF LivePath, Sound, Exists
<1>2. disk["target"] = disk.target /\ disk["backup"] = disk.backup
  BY DiskFields DEF Sound
<1>3. CASE ~Active(p)
  <2>1. Readable /\ t = disk.marker
    BY <1>3 DEF Live, OwnerAlive, LiveTransaction
  <2> QED BY <2>1 DEF Sound, DiskOK
<1>4. CASE Active(p)
  <2>1. WriterOK(p) /\ t = txn[p] /\ phase[p] \in Phase
        /\ phase[p] \notin {"idle", "staging"}
    BY <1>4, Writing DEF Active, LiveTransaction, Sound, TypeOK
  <2>2. CASE disk.marker = MarkerOf(p, TRUE)
    <3>1. Readable /\ disk.marker.gen = t.gen /\ disk.marker.hadTarget = t.hadTarget
      BY <2>1, <2>2, MarkerTyped, ZenonT(40) DEF Readable
    <3> QED BY <3>1 DEF Sound, DiskOK
  <2>3. CASE phase[p] = "claimed"
    <3>1. /\ authority # t.gen /\ (t.hadTarget <=> Exists("target"))
          /\ ~Readable => ~Exists("backup")
      BY <2>1, <2>3 DEF WriterOK
    <3>2. CASE ~Readable
      <4>1. disk.target = authority
        BY <3>1, <3>2 DEF Sound, DiskOK, Tidy
      <4> QED BY <1>2, <3>1, <3>2, <4>1 DEF Exists
    <3>3. CASE Readable
      <4>1. ~OldBackup
        <5>1. OldBackup => failures >= 2
          BY <2>1, <2>3 DEF WriterOK
        <5> QED BY <5>1, Types
      <4>2. ~Exists("backup") => disk.target = authority
        BY <3>3 DEF Sound, DiskOK
      <4>3. Exists("backup") => disk.backup = authority
        BY <3>3, <4>1 DEF Sound, DiskOK, OldBackup
      <4> QED BY <1>2, <3>1, <4>2, <4>3 DEF Exists
    <3> QED BY <3>2, <3>3
  <2>4. CASE phase[p] = "opened"
    <3>1. Untouched(p) /\ ~Readable
      BY <2>1, <2>4, MarkerTyped DEF WriterOK, Readable
    <3>2. disk.target = authority
      BY <3>1 DEF Sound, DiskOK, Tidy, Untouched
    <3> QED BY <1>2, <2>1, <3>1, <3>2 DEF Untouched, Exists
  <2>5. CASE phase[p] = "closing" /\ disk.marker = NoMarker
    BY <2>1, <2>5 DEF WriterOK
  <2> QED BY <2>1, <2>2, <2>3, <2>4, <2>5 DEF WriterOK, Phase
<1> QED BY <1>3, <1>4

\* The step changes only what p has been given, and that is right.
LEMMA GivenKeeps ==
  ASSUME Sound, NEW p \in Process, NEW path \in Path, Returns(p, path), SameDisk,
         failures' = failures, failures <= 1 /\ authority # None => disk[path] = authority
  PROVE  ReadsRight'
<1> SUFFICES ASSUME failures <= 1, authority # None, NEW q \in Process, given'[q] \in Path
             PROVE  disk[given'[q]] = authority
  BY DEF ReadsRight, SameDisk
<1>1. CASE q = p
  <2>1. given'[q] = path
    BY <1>1 DEF Returns, Sound, TypeOK
  <2> QED BY <2>1
<1>2. CASE q # p
  <2>1. given'[q] = given[q]
    BY <1>2 DEF Returns, Sound, TypeOK
  <2> QED BY <2>1 DEF Sound, ReadsRight
<1> QED BY <1>1, <1>2

LEMMA ReadLiveKeeps ==
  ASSUME Sound, Apart, NEW p \in Process, ReadLive(p) PROVE Sound'
<1>1. /\ SameDisk /\ recovery' = recovery /\ phase' = phase /\ txn' = txn /\ closing' = closing
      /\ installs' = installs /\ failures' = failures /\ Live(p) /\ Returns(p, LivePath(p))
  BY DEF ReadLive, SameDisk
<1>2. LivePath(p) \in Path
  BY DEF LivePath, Path
<1>3. failures' >= failures /\ failures' \in Nat
  BY <1>1, Types
<1>4. DiskOK' /\ MarkerOK' /\ WritersOK' /\ LeftoverOK'
  BY <1>1, <1>3, StillKeeps
<1>5. RecoveryOK'
  BY <1>1 DEF Sound, RecoveryOK, SameDisk, OwnerAlive, Readable, Safe, Tidy, InBackup, Exists
<1>6. ReadsRight'
  BY <1>1, <1>2, Served, GivenKeeps
<1> QED BY <1>4, <1>5, <1>6 DEF Sound, Apart

\* Only p recovers, and what it has left is safe.
LEMMA OneRecovery ==
  ASSUME Apart, NEW p \in Process, recovery'[p] # Idle,
         ~OwnerAlive', phase'[p] \in {"idle", "staging"},
         recovery'[p].purpose = "install" => phase'[p] = "idle",
         NEW ops, recovery'[p].operations = ops, Safe(ops)',
         ops \in {<<>>, PlanTidy} => ~Exists("backup")',
         ops = <<>> => disk'.marker = NoMarker
  PROVE  RecoveryOK'
<1>1. \A q \in Process : recovery'[q] # Idle => q = p
  BY DEF Apart, Overlap, AtWork
<1>2. Safe(recovery[p].operations)'
  BY DEF Safe
<1> QED BY <1>1, <1>2 DEF RecoveryOK

LEMMA RecoverKeeps ==
  ASSUME Sound, Apart, NEW p \in Process, NEW purpose \in {"read", "install"},
         Recover(p, purpose), purpose = "install" => phase[p] = "idle"
  PROVE  Sound'
<1> DEFINE next == [operations |-> RecoveryPlan, purpose |-> purpose]
<1>1. /\ SameDisk /\ phase' = phase /\ txn' = txn /\ closing' = closing /\ given' = given
      /\ installs' = installs /\ failures' = failures
      /\ recovery' = [recovery EXCEPT ![p] = next]
  BY DEF Recover, SameDisk
<1>2. PICK plan \in Plan : plan = RecoveryPlan
  BY RecoveryPlanSafe DEF Sound
<1>3. plan # <<>> /\ Safe(plan) /\ (plan = PlanTidy => ~Exists("backup")) /\ plan \in Seq(Operation)
  BY <1>2, RecoveryPlanSafe, PlanTypes DEF Sound
<1>4. next \in Recovery /\ next.operations = plan /\ next.purpose = purpose
  BY <1>2, <1>3 DEF Recovery
<1> HIDE DEF next
<1>5. failures' >= failures /\ failures' \in Nat
  BY <1>1, Types
<1>6. DiskOK' /\ MarkerOK' /\ WritersOK' /\ LeftoverOK'
  BY <1>1, <1>5, StillKeeps
<1>7. ~OwnerAlive /\ phase[p] \in {"idle", "staging"}
  BY DEF Recover, Live, Active
<1>8. recovery'[p] = next /\ recovery'[p] # Idle
  BY <1>1, <1>4, ValueAssumption DEF Sound, TypeOK
<1>9. Safe(plan)' /\ (Exists("backup")' <=> Exists("backup")) /\ (OwnerAlive' <=> OwnerAlive)
  BY <1>1, <1>3 DEF SameDisk, Safe, Tidy, InBackup, Exists, Readable, OwnerAlive
<1>10. recovery'[p].operations = plan /\ recovery'[p].purpose = purpose
  BY <1>4, <1>8
<1>11. RecoveryOK'
  BY <1>1, <1>3, <1>7, <1>8, <1>9, <1>10, OneRecovery
<1>12. ReadsRight'
  BY <1>1, <1>5, ReadsKeep DEF Apart, SameDisk
<1> QED BY <1>6, <1>11, <1>12 DEF Sound, Apart

\* An activation that begins beside a living marker finds the last one at rest.
LEMMA BeginKeeps ==
  ASSUME Sound, Apart, NEW p \in Process, Begin(p) PROVE Sound'
<1>1. CASE Recover(p, "install")
  BY <1>1, RecoverKeeps DEF Begin
<1>2. CASE CanRun(p) /\ Live(p) /\ Goto(p, "staging")
           /\ UNCHANGED <<disk, authority, life, recovery, txn, closing, given, installs, crashes,
                          failures>>
  <2>1. phase[p] = "idle" /\ OwnerAlive
    BY <1>2 DEF Begin, Live, Active
  <2>2. SameDisk /\ installs' = installs /\ failures' = failures
        /\ phase' = [phase EXCEPT ![p] = "staging"]
    BY <1>2 DEF SameDisk, Goto
  <2>3. phase'[p] = "staging" /\ \A q \in Process \ {p} : phase'[q] = phase[q]
    BY <2>2 DEF Sound, TypeOK
  <2>4. DiskOK' /\ MarkerOK' /\ (OwnerAlive' <=> OwnerAlive) /\ (OldBackup' <=> OldBackup)
    BY <2>2, SameDiskKeeps, Types
  <2>5. AtRest
    <3>1. \A q \in Process \ {p} : phase[q] = "idle"
      BY <2>3 DEF Apart, Overlap
    <3> QED BY <2>1, <3>1 DEF AtRest
  <2>6. OldBackup => failures >= 2
    BY <2>1, <2>5 DEF Sound, LeftoverOK
  <2>7. LeftoverOK'
    BY <2>2, <2>4, <2>6 DEF LeftoverOK
  <2>8. WriterOK(p)'
    <3>1. Readable'
      BY <2>1, <2>4 DEF OwnerAlive
    <3> QED BY <2>2, <2>3, <2>4, <2>6, <3>1 DEF WriterOK
  <2>9. OnlyOf(p)
    BY <1>2, <2>2, <2>3, Types DEF OnlyOf
  <2>10. RecoveryOK'
    BY <1>2, <2>1 DEF Sound, RecoveryOK
  <2> QED BY <1>2, <2>3, <2>4, <2>7, <2>8, <2>9, <2>10, ByWriter
<1> QED BY <1>1, <1>2 DEF Begin

LEMMA NoNewBackup ==
  ASSUME TypeOK, NEW op \in Operation, disk.backup = None, disk' = After(op)
  PROVE  disk'.backup = None
<1>1. \/ disk' = [disk EXCEPT !.target = IF @ = None THEN None ELSE Torn]
      \/ disk' = [disk EXCEPT !.target = None]
      \/ disk' = [disk EXCEPT !.backup = IF @ = None THEN None ELSE Torn]
      \/ disk' = [disk EXCEPT !.backup = None]
      \/ disk' = [disk EXCEPT !.target = disk.backup, !.backup = None]
      \/ disk' = [disk EXCEPT !.marker = NoMarker]
  BY DEF After, Operation
<1> QED BY <1>1, DiskFields DEF Disk

\* The marker of a process that lives and has got to it is the one there is.
LEMMA NotItsMarker ==
  ASSUME Sound, NEW q \in Process, ~OwnerAlive PROVE disk.marker # MarkerOf(q, TRUE)
<1> SUFFICES ASSUME disk.marker = MarkerOf(q, TRUE) PROVE FALSE
  OBVIOUS
<1>1. /\ disk.marker # NoMarker /\ disk.marker.written /\ disk.marker.owner = q
      /\ disk.marker.life = life[q]
  BY MarkerTyped, ZenonT(40)
<1> QED BY <1>1 DEF OwnerAlive, Readable

LEMMA RecoveryStepKeeps ==
  ASSUME Sound, Apart, NEW p \in Process, RecoveryStep(p) PROVE Sound'
<1>1. /\ recovery[p] # Idle /\ recovery[p] \in Recovery
      /\ ~OwnerAlive /\ phase[p] \in {"idle", "staging"}
      /\ recovery[p].purpose = "install" => phase[p] = "idle"
      /\ Safe(recovery[p].operations)
      /\ recovery[p].operations \in {<<>>, PlanTidy} => ~Exists("backup")
  BY Types DEF RecoveryStep, Sound, RecoveryOK
<1>2. PICK ops \in Plan : ops = recovery[p].operations
  BY <1>1 DEF Safe, Plan
<1> DEFINE next == [recovery[p] EXCEPT !.operations = Tail(ops)]
<1>3. /\ disk' = After(Head(ops)) /\ CanDo(Head(ops)) /\ ops # <<>>
      /\ recovery' = [recovery EXCEPT ![p] = next]
      /\ authority' = authority /\ life' = life /\ phase' = phase /\ txn' = txn
      /\ closing' = closing /\ given' = Nobody /\ installs' = installs /\ failures' = failures
  BY <1>2 DEF RecoveryStep
<1>4. Stepped(ops)
  BY <1>1, <1>2, <1>3, SafeStep DEF Sound
<1>16. disk.backup = None => disk'.backup = None
  <2>1. Head(ops) \in Operation
    BY <1>3, PlanTypes, RestTyped
  <2> QED BY <1>3, <2>1, NoNewBackup DEF Sound
<1> DEFINE rest == Tail(ops)
<1>5. /\ disk' \in Disk /\ DiskOK' /\ rest \in Plan /\ rest \in Seq(Operation) /\ Safe(rest)'
      /\ rest = PlanTidy => disk'.backup = None
      /\ IF ops = PlanTidy
         THEN /\ disk'.marker = NoMarker /\ disk'.target = disk.target /\ disk'.backup = disk.backup
              /\ rest = <<>>
         ELSE disk'.marker = disk.marker /\ rest # <<>>
      /\ ~Readable /\ disk.target # None => disk'.target = disk.target
      /\ ~Readable /\ disk.backup = None => disk'.target = disk.target /\ disk'.backup = None
  BY <1>4, PlanTypes DEF Stepped
<1>6. next \in Recovery /\ next.operations = rest /\ next.purpose = recovery[p].purpose
  BY <1>1, <1>5 DEF Recovery
<1> HIDE DEF next, rest
<1>8. /\ disk'["target"] = disk'.target /\ disk'["backup"] = disk'.backup
      /\ disk["target"] = disk.target /\ disk["backup"] = disk.backup
  BY <1>5, DiskFields DEF Sound, Disk
<1>9. MarkerOK'
  BY <1>3, <1>5 DEF MarkerOK, Sound
<1>10. ~OwnerAlive'
  BY <1>1, <1>3, <1>5 DEF OwnerAlive, Readable
<1>11. recovery'[p] = next /\ recovery'[p] # Idle
  BY <1>1, <1>3, <1>6, ValueAssumption DEF Sound, TypeOK
<1>12. rest \in {<<>>, PlanTidy} => ~Exists("backup")'
  <2>1. CASE ops = PlanTidy
    BY <1>1, <1>2, <1>5, <1>8, <2>1 DEF Exists
  <2>2. CASE ops # PlanTidy
    BY <1>5, <1>8, <2>2 DEF Exists
  <2> QED BY <2>1, <2>2
<1>13. rest = <<>> => disk'.marker = NoMarker
  BY <1>5
<1>14. RecoveryOK'
  <2>1. recovery'[p].operations = rest /\ recovery'[p].purpose = recovery[p].purpose
    BY <1>6, <1>11
  <2>2. Safe(rest)'
    BY <1>5
  <2> QED BY <1>1, <1>3, <1>10, <1>11, <1>12, <1>13, <2>1, <2>2, OneRecovery
<1>15. WritersOK'
  <2> SUFFICES ASSUME NEW q \in Process PROVE WriterOK(q)'
    BY DEF WritersOK
  <2>1. WriterOK(q)
    BY Writing
  <2>2. \/ phase[q] \in {"idle", "staging"}
        \/ phase[q] = "closing" /\ closing[q] = <<>>
    BY <1>1 DEF Apart, Overlap, AtWork, Active
  <2>3. CASE phase[q] = "idle"
    BY <1>3, <2>3 DEF WriterOK
  <2>4. CASE phase[q] = "staging"
    <3>1. (~Readable => ~Exists("backup")) /\ (OldBackup => failures >= 2)
      BY <2>1, <2>4 DEF WriterOK
    <3>2. ~Readable' => ~Exists("backup")'
      <4>1. CASE ops = PlanTidy
        BY <1>1, <1>2, <1>5, <1>8, <4>1 DEF Exists
      <4>2. CASE ops # PlanTidy
        BY <1>5, <1>8, <3>1, <4>2 DEF Exists, Readable
      <4> QED BY <4>1, <4>2
    <3>3. OldBackup' => OldBackup
      BY <1>3, <1>5, <1>8, <1>16 DEF OldBackup, Exists, Readable
    <3> QED BY <1>3, <2>4, <3>1, <3>2, <3>3 DEF WriterOK
  <2>5. CASE phase[q] = "closing" /\ closing[q] = <<>>
    <3>1. disk.marker # MarkerOf(q, TRUE)
      BY <1>1, NotItsMarker
    <3>2. /\ disk.marker = NoMarker /\ ~Readable
          /\ authority # None =>
               /\ disk.target = authority
               /\ authority # txn[q].gen => txn[q].hadTarget /\ ~Exists("backup")
      BY <2>1, <2>5, <3>1 DEF WriterOK, Readable
    <3>3. disk'.marker = NoMarker
      BY <1>5, <3>2
    <3>4. authority # None =>
            /\ disk'.target = authority
            /\ authority # txn[q].gen => txn[q].hadTarget /\ ~Exists("backup")'
      BY <1>5, <1>8, <3>2, Values DEF Exists, Sound, TypeOK
    <3>5. Safe(closing[q])' /\ closing[q] # PlanTidy
      BY <1>3, <2>5, PlansDiffer DEF Safe
    <3> QED BY <1>3, <2>5, <3>3, <3>4, <3>5 DEF WriterOK
  <2> QED BY <2>2, <2>3, <2>4, <2>5
<1>17. LeftoverOK'
  BY <1>10 DEF LeftoverOK
<1>18. ReadsRight'
  BY <1>3, ReadsKeep, Types DEF Apart
<1> QED BY <1>5, <1>9, <1>14, <1>15, <1>17, <1>18 DEF Sound, Apart

\* While p recovers no other process does.
LEMMA RecoversAlone ==
  ASSUME Sound, Apart, NEW p \in Process, recovery[p] # Idle,
         recovery' = [recovery EXCEPT ![p] = Idle]
  PROVE  RecoveryOK'
<1>1. \A q \in Process \ {p} : recovery[q] = Idle
  BY DEF Apart, Overlap, AtWork
<1>2. \A q \in Process : recovery'[q] = Idle
  BY <1>1 DEF Sound, TypeOK
<1> QED BY <1>2 DEF RecoveryOK

LEMMA RecoveryThrowsKeeps ==
  ASSUME Sound, Apart, NEW p \in Process, RecoveryThrows(p) PROVE Sound'
<1>1. /\ SameDisk /\ phase' = phase /\ txn' = txn /\ closing' = closing /\ given' = given
      /\ installs' = installs /\ recovery' = [recovery EXCEPT ![p] = Idle] /\ recovery[p] # Idle
  BY DEF RecoveryThrows, SameDisk
<1>2. failures' \in Nat /\ failures' >= failures
  <2>1. failures' = failures \/ failures' = failures + 1
    BY DEF RecoveryThrows
  <2> QED BY <2>1, Types
<1>3. DiskOK' /\ MarkerOK' /\ WritersOK' /\ LeftoverOK'
  BY <1>1, <1>2, StillKeeps
<1>4. RecoveryOK'
  BY <1>1, RecoversAlone
<1>5. ReadsRight'
  BY <1>1, <1>2, ReadsKeep DEF Apart, SameDisk
<1> QED BY <1>3, <1>4, <1>5 DEF Sound, Apart

LEMMA RecoveryDoneKeeps ==
  ASSUME Sound, Apart, NEW p \in Process, RecoveryDone(p) PROVE Sound'
<1>1. /\ recovery[p] # Idle /\ recovery[p] \in Recovery
      /\ recovery[p].purpose = "install" => phase[p] = "idle"
      /\ ~Exists("backup") /\ disk.marker = NoMarker
  BY Types DEF RecoveryDone, Sound, RecoveryOK
<1>2. /\ SameDisk /\ txn' = txn /\ closing' = closing /\ failures' = failures
      /\ installs' = installs /\ recovery' = [recovery EXCEPT ![p] = Idle]
  BY DEF RecoveryDone, SameDisk
<1>3. RecoveryOK'
  BY <1>1, <1>2, RecoversAlone
<1>4. failures' >= failures /\ failures' \in Nat
  BY <1>2, Types
<1>5. CASE recovery[p].purpose = "read"
  <2>1. phase' = phase /\ Returns(p, "target")
    BY <1>5 DEF RecoveryDone
  <2>2. DiskOK' /\ MarkerOK' /\ WritersOK' /\ LeftoverOK'
    BY <1>2, <1>4, <2>1, StillKeeps
  <2>3. authority # None => disk["target"] = authority
    BY <1>1, DiskFields DEF Sound, DiskOK, Readable, Tidy
  <2>4. ReadsRight'
    BY <1>2, <2>1, <2>3, GivenKeeps DEF Path
  <2> QED BY <1>3, <2>2, <2>4 DEF Sound, Apart
<1>6. CASE recovery[p].purpose = "install"
  <2>1. phase' = [phase EXCEPT ![p] = "staging"] /\ given' = given
    BY <1>6 DEF RecoveryDone
  <2>2. phase'[p] = "staging" /\ \A q \in Process \ {p} : phase'[q] = phase[q]
    BY <2>1 DEF Sound, TypeOK
  <2>3. /\ DiskOK' /\ MarkerOK'
        /\ (Exists("backup")' <=> Exists("backup")) /\ disk'.marker = NoMarker
    BY <1>1, <1>2, SameDiskKeeps, Types DEF SameDisk
  <2>4. LeftoverOK'
    BY <2>3 DEF LeftoverOK, OwnerAlive, Readable
  <2>5. WritersOK'
    <3> SUFFICES ASSUME NEW q \in Process PROVE WriterOK(q)'
      BY DEF WritersOK
    <3>1. CASE q = p
      BY <1>1, <2>2, <2>3, <3>1 DEF WriterOK, OldBackup
    <3>2. CASE q # p
      <4>1. phase'[q] = "idle"
        BY <2>2, <3>2 DEF Apart, Overlap
      <4> QED BY <4>1 DEF WriterOK
    <3> QED BY <3>1, <3>2
  <2>6. ReadsRight'
    BY <1>2, <1>4, <2>1, ReadsKeep DEF Apart, SameDisk
  <2> QED BY <1>3, <2>3, <2>4, <2>5, <2>6 DEF Sound, Apart
<1> QED BY <1>1, <1>5, <1>6 DEF Recovery

\* The marker of a process that is at work on an activation is its own.
LEMMA OwnMarker ==
  ASSUME Sound, NEW p \in Process,
         phase[p] \notin {"idle", "staging", "claimed"},
         ~(phase[p] = "closing" /\ closing[p] = <<>>)
  PROVE  disk.marker # NoMarker /\ disk.marker.owner = p
<1>1. WriterOK(p) /\ phase[p] \in Phase
  BY Writing DEF Sound, TypeOK
<1>2. \E written \in BOOLEAN : disk.marker = MarkerOf(p, written)
  BY <1>1 DEF WriterOK, Phase
<1> QED BY <1>2, MarkerTyped

LEMMA CrashKeeps ==
  ASSUME Sound, Apart, NEW p \in Process, Crash(p) PROVE Sound'
<1>1. /\ life' = [life EXCEPT ![p] = life[p] + 1]
      /\ recovery' = [recovery EXCEPT ![p] = Idle]
      /\ phase' = [phase EXCEPT ![p] = "idle"]
      /\ txn' = [txn EXCEPT ![p] = NoTransaction]
      /\ closing' = [closing EXCEPT ![p] = <<>>]
      /\ given' = [given EXCEPT ![p] = None]
      /\ disk' = disk /\ authority' = authority /\ installs' = installs /\ failures' = failures
  BY DEF Crash
<1>2. DiskOK'
  BY <1>1 DEF Sound, DiskOK, Readable, Tidy, Exists
<1>3. \A q \in Process : life[q] \in Nat
  BY Types
<1>4. \A q \in Process : life'[q] = IF q = p THEN life[p] + 1 ELSE life[q]
  BY <1>1 DEF Sound, TypeOK
<1>5. disk.marker # NoMarker => /\ disk.marker \in Marker /\ disk.marker.owner \in Process
                                /\ disk.marker.life \in Nat
                                /\ disk.marker.life <= life[disk.marker.owner]
  BY DiskFields DEF Sound, MarkerOK, Marker
<1>6. OwnerAlive' => OwnerAlive /\ disk.marker.owner # p
  <2> SUFFICES ASSUME OwnerAlive' PROVE OwnerAlive /\ disk.marker.owner # p
    OBVIOUS
  <2>1. Readable /\ disk.marker.life = life'[disk.marker.owner]
    BY <1>1 DEF OwnerAlive, Readable
  <2>2. disk.marker.owner # p
    BY <1>3, <1>4, <1>5, <2>1 DEF Readable
  <2> QED BY <1>4, <1>5, <2>1, <2>2 DEF OwnerAlive, Readable
<1>7. MarkerOK'
  <2>1. disk.marker # NoMarker => disk.marker.life <= life'[disk.marker.owner]
    BY <1>3, <1>4, <1>5
  <2> QED BY <1>1, <2>1 DEF Sound, MarkerOK
<1>8. \A q \in Process \ {p} : /\ recovery'[q] = recovery[q] /\ phase'[q] = phase[q]
                              /\ txn'[q] = txn[q] /\ closing'[q] = closing[q]
                              /\ life'[q] = life[q] /\ given'[q] = given[q]
  BY <1>1 DEF Sound, TypeOK
<1>9. recovery'[p] = Idle /\ phase'[p] = "idle" /\ given'[p] = None
  BY <1>1 DEF Sound, TypeOK
<1>10. RecoveryOK'
  <2> SUFFICES ASSUME NEW q \in Process, recovery'[q] # Idle
               PROVE  (/\ ~OwnerAlive /\ phase[q] \in {"idle", "staging"}
                       /\ recovery[q].purpose = "install" => phase[q] = "idle"
                       /\ Safe(recovery[q].operations)
                       /\ recovery[q].operations \in {<<>>, PlanTidy} => ~Exists("backup")
                       /\ recovery[q].operations = <<>> => disk.marker = NoMarker)'
    BY DEF RecoveryOK
  <2>1. q # p /\ recovery'[q] = recovery[q] /\ recovery[q] # Idle /\ phase'[q] = phase[q]
    BY <1>8, <1>9
  <2>2. Safe(recovery[q].operations)'
    BY <1>1, <2>1 DEF Sound, RecoveryOK, Safe, Tidy, InBackup, Exists, Readable
  <2>3. /\ ~OwnerAlive /\ phase[q] \in {"idle", "staging"}
        /\ recovery[q].purpose = "install" => phase[q] = "idle"
        /\ recovery[q].operations \in {<<>>, PlanTidy} => ~Exists("backup")
        /\ recovery[q].operations = <<>> => disk.marker = NoMarker
    BY <2>1 DEF Sound, RecoveryOK
  <2>4. Exists("backup")' <=> Exists("backup")
    BY <1>1 DEF Exists
  <2> QED BY <1>1, <1>6, <2>1, <2>2, <2>3, <2>4
<1>11. (OldBackup' <=> OldBackup) /\ (Readable' <=> Readable)
  BY <1>1 DEF OldBackup, Exists, Readable
<1>12. WritersOK'
  <2> SUFFICES ASSUME NEW q \in Process PROVE WriterOK(q)'
    BY DEF WritersOK
  <2>1. WriterOK(q)
    BY Writing
  <2>2. CASE q = p
    BY <1>9, <2>2 DEF WriterOK
  <2>3. CASE q # p
    <3>1. /\ phase'[q] = phase[q] /\ txn'[q] = txn[q] /\ closing'[q] = closing[q]
          /\ life'[q] = life[q] /\ phase[q] \in Phase
          /\ disk' = disk /\ authority' = authority /\ installs' = installs /\ failures' = failures
      BY <1>1, <1>8, <2>3 DEF Sound, TypeOK
    <3>3. Safe(closing[q]) => Safe(closing[q])'
      BY <3>1 DEF Safe, Tidy, InBackup, Exists, Readable
    <3>4. /\ MarkerOf(q, TRUE)' = MarkerOf(q, TRUE) /\ MarkerOf(q, FALSE)' = MarkerOf(q, FALSE)
          /\ Untouched(q)' <=> Untouched(q)
          /\ Aside(q, authority)' <=> Aside(q, authority)
          /\ Aside(q, txn[q].prior)' <=> Aside(q, txn[q].prior)
      BY <3>1 DEF MarkerOf, Untouched, Aside, Exists
    <3>5. (Exists("target")' <=> Exists("target")) /\ (Exists("backup")' <=> Exists("backup"))
      BY <3>1 DEF Exists
    <3>6. CASE phase[q] \in {"idle", "staging", "claimed"}
      BY <1>11, <2>1, <3>1, <3>5, <3>6 DEF WriterOK
    <3>7. CASE phase[q] \in {"opened", "marked"}
      BY <2>1, <3>1, <3>4, <3>7 DEF WriterOK
    <3>8. CASE phase[q] \in {"moved", "placed"}
      BY <2>1, <3>1, <3>4, <3>5, <3>8 DEF WriterOK
    <3>9. CASE phase[q] = "committed"
      BY <2>1, <3>1, <3>4, <3>9 DEF WriterOK
    <3>10. CASE phase[q] = "closing"
      BY <1>11, <2>1, <3>1, <3>3, <3>4, <3>5, <3>10 DEF WriterOK
    <3> QED BY <3>1, <3>6, <3>7, <3>8, <3>9, <3>10 DEF Phase
  <2> QED BY <2>2, <2>3
\* If p was not at rest, the marker is its own, and the owner is dead now.
<1>13. LeftoverOK'
  <2> SUFFICES ASSUME AtRest', OwnerAlive', OldBackup PROVE failures >= 2
    BY <1>1, <1>11 DEF LeftoverOK
  <2>1. OwnerAlive /\ disk.marker.owner # p
    BY <1>6
  <2>2. AtRest
    <3> SUFFICES ASSUME NEW q \in Process, phase[q] \notin {"idle", "staging", "claimed"},
                        ~(phase[q] = "closing" /\ closing[q] = <<>>)
                 PROVE  FALSE
      BY DEF AtRest
    <3>1. disk.marker.owner = q
      BY OwnMarker
    <3>2. q # p /\ phase'[q] = phase[q] /\ closing'[q] = closing[q]
      BY <1>8, <2>1, <3>1
    <3> QED BY <3>2 DEF AtRest
  <2> QED BY <2>1, <2>2 DEF Sound, LeftoverOK
<1>14. ReadsRight'
  <2> SUFFICES ASSUME failures <= 1, authority # None, NEW q \in Process, given'[q] \in Path
               PROVE  disk[given'[q]] = authority
    BY <1>1 DEF ReadsRight
  <2>1. given'[q] = given[q]
    BY <1>8, <1>9, ValueAssumption
  <2> QED BY <2>1 DEF Sound, ReadsRight
<1> QED BY <1>2, <1>7, <1>10, <1>12, <1>13, <1>14 DEF Sound, Apart

-----------------------------------------------------------------------------
(* The theorems *)

LEMMA InitKeeps == ASSUME Init PROVE IInv
<1>1. PICK target \in {None, Old} :
        /\ disk = [target |-> target, backup |-> None, marker |-> NoMarker]
        /\ authority \in {None, target}
  BY DEF Init
<1>2. /\ life = [p \in Process |-> 0] /\ recovery = [p \in Process |-> Idle]
      /\ phase = [p \in Process |-> "idle"] /\ txn = [p \in Process |-> NoTransaction]
      /\ closing = [p \in Process |-> <<>>] /\ given = Nobody /\ overlapped = FALSE
      /\ installs = 0 /\ crashes = 0 /\ failures = 0
  BY DEF Init
<1>3. MaxInstalls \in Nat /\ Old \in Generation /\ 0 \in 0..MaxInstalls
  BY AtomicDirectoryAssumption DEF Generation, Old
<1>4. NoTransaction \in Transaction /\ Nobody \in [Process -> Path \cup {None}]
  BY <1>3 DEF NoTransaction, Transaction, Nobody
<1>5. /\ disk.target = target /\ disk.backup = None /\ disk.marker = NoMarker
      /\ disk["backup"] = None /\ disk["target"] = target
  BY <1>1
<1>6. TypeOK
  <2>1. /\ disk \in [target : Content, backup : Content, marker : Marker \cup {NoMarker}]
        /\ authority \in Generation \cup {None}
    BY <1>1, <1>3, Values
  <2>2. /\ life \in [Process -> Nat] /\ recovery \in [Process -> Recovery \cup {Idle}]
        /\ phase \in [Process -> Phase]
    BY <1>2 DEF Phase
  <2>3. closing \in [Process -> Seq(Operation)] /\ txn \in [Process -> Transaction]
    <3>1. <<>> \in Seq(Operation)
      OBVIOUS
    <3> QED BY <1>2, <1>4, <3>1
  <2>4. installs \in 0..MaxInstalls /\ {crashes, failures} \subseteq Nat
    BY <1>2, <1>3
  <2> QED BY <1>2, <1>4, <2>1, <2>2, <2>3, <2>4 DEF TypeOK
<1>7. ~Readable /\ ~OwnerAlive /\ ~Exists("backup")
  BY <1>5 DEF Readable, OwnerAlive, Exists
<1>8. DiskOK
  BY <1>1, <1>5, <1>7 DEF DiskOK, Tidy
<1>9. authority # None => authority <= installs
  BY <1>1, <1>2 DEF Old
<1>10. MarkerOK
  BY <1>5, <1>9 DEF MarkerOK
<1>11. RecoveryOK
  BY <1>2 DEF RecoveryOK
<1>12. WritersOK
  BY <1>2, <1>7 DEF WritersOK, WriterOK
<1>13. LeftoverOK
  BY <1>7 DEF LeftoverOK
<1>14. ReadsRight
  <2>1. \A q \in Process : given[q] = None
    BY <1>2 DEF Nobody
  <2> QED BY <2>1, ValueAssumption DEF ReadsRight
<1>15. ~Overlap
  BY <1>2 DEF Overlap, AtWork, Active
<1> QED BY <1>6, <1>8, <1>10, <1>11, <1>12, <1>13, <1>14, <1>15 DEF IInv, Sound

LEMMA ProcessKeeps ==
  ASSUME Sound, Apart, NEW p \in Process,
         \/ Read(p) \/ RecoveryStep(p) \/ RecoveryThrows(p) \/ RecoveryDone(p)
         \/ Install(p) \/ Crash(p)
  PROVE  Sound'
<1>1. CASE Read(p)
  <2>1. CASE Recover(p, "read")
    BY <2>1, RecoverKeeps
  <2> QED BY <1>1, <2>1, ReadLiveKeeps DEF Read
<1>2. CASE RecoveryStep(p) \/ RecoveryThrows(p) \/ RecoveryDone(p)
  BY <1>2, RecoveryStepKeeps, RecoveryThrowsKeeps, RecoveryDoneKeeps
<1>3. CASE Install(p)
  BY <1>3, BeginKeeps, StagingFailsKeeps, ClaimKeeps, OpenMarkerKeeps, FillMarkerKeeps,
     MarkerFailsKeeps, MoveAsideKeeps, MoveAsideFailsKeeps, PlaceKeeps, PlaceFailsKeeps,
     CommitKeeps, AbortKeeps, FinalizeKeeps, RevokeAuthorityKeeps, CloseStepKeeps,
     CloseFailsKeeps, CloseKeeps DEF Install
<1>4. CASE Crash(p)
  BY <1>4, CrashKeeps
<1> QED BY <1>1, <1>2, <1>3, <1>4

LEMMA StutterKeeps == ASSUME IInv, UNCHANGED vars PROVE IInv'
<1>1. /\ disk' = disk /\ authority' = authority /\ life' = life /\ recovery' = recovery
      /\ phase' = phase /\ txn' = txn /\ closing' = closing /\ given' = given
      /\ overlapped' = overlapped /\ installs' = installs /\ crashes' = crashes
      /\ failures' = failures
  BY DEF vars
<1>2. TypeOK' /\ (Overlap' <=> Overlap)
  BY <1>1 DEF IInv, TypeOK, Overlap, AtWork, Active
<1>3. CASE overlapped
  BY <1>1, <1>2, <1>3 DEF IInv
<1>4. CASE ~overlapped
  <2>1. Sound /\ SameDisk /\ failures' >= failures /\ failures' \in Nat
    <3>1. Sound /\ TypeOK
      BY <1>4 DEF IInv
    <3> QED BY <1>1, <3>1 DEF TypeOK, SameDisk
  <2>2. DiskOK' /\ MarkerOK' /\ WritersOK' /\ LeftoverOK'
    BY <1>1, <2>1, StillKeeps
  <2>3. RecoveryOK'
    BY <1>1, <2>1 DEF Sound, RecoveryOK, OwnerAlive, Readable, Safe, Tidy, InBackup, Exists
  <2>4. ReadsRight'
    BY <1>1, <1>2, <2>1, ReadsKeep
  <2> QED BY <1>1, <1>2, <1>4, <2>1, <2>2, <2>3, <2>4 DEF IInv, Sound
<1> QED BY <1>3, <1>4

LEMMA NextKeeps == ASSUME IInv, [Next]_vars PROVE IInv'
<1>1. CASE UNCHANGED vars
  BY <1>1, StutterKeeps
<1>2. CASE Next
  <2>1. TypeOK'
    BY TypeKeeps DEF IInv
  <2>2. overlapped' = (overlapped \/ Overlap')
    BY <1>2 DEF Next
  <2>3. ASSUME ~overlapped' PROVE Sound'
    <3>1. Sound /\ Apart
      BY <2>1, <2>2, <2>3 DEF IInv, Apart
    <3>2. PICK p \in Process :
            \/ Read(p) \/ RecoveryStep(p) \/ RecoveryThrows(p) \/ RecoveryDone(p)
            \/ Install(p) \/ Crash(p)
      BY <1>2 DEF Next
    <3> QED BY <3>1, <3>2, ProcessKeeps
  <2> QED BY <2>1, <2>2, <2>3 DEF IInv
<1> QED BY <1>1, <1>2

\* As long as no two processes have been at work at one time, the three places,
\* the marker and the memories of the processes stay in step: what is left of a
\* recovery, a finalize or a rollback may stop at any file operation, or fail
\* there (recoverAtomicTargetSync, activateDirectoryAtomically,
\* finalizeAtomicDirectory and rollbackAtomicDirectory).
THEOREM InvariantHolds == Spec => []IInv
<1>1. Init => IInv
  BY InitKeeps
<1>2. IInv /\ [Next]_vars => IInv'
  BY NextKeeps
<1> QED BY <1>1, <1>2, PTL DEF Spec

\* Every variable keeps its type, whoever is at work.
THEOREM TypeCorrect == Spec => []TypeOK
<1>1. IInv => TypeOK
  BY DEF IInv
<1> QED BY <1>1, InvariantHolds, PTL

\* The committed generation is never lost: whatever died, failed or was
\* cancelled, it is at the target or in the backup, unless two processes have
\* been at work on the directory at one time (atomic-directory.ts 62-131).
THEOREM NothingLostHolds == Spec => []NothingLost
<1>1. IInv => NothingLost
  <2> SUFFICES ASSUME IInv, ~overlapped, authority # None
               PROVE  authority \in {disk.target, disk.backup}
    BY DEF NothingLost
  <2>1. DiskOK
    BY DEF IInv, Sound
  <2> QED BY <2>1 DEF DiskOK, Tidy
<1> QED BY <1>1, InvariantHolds, PTL

\* A read of a directory that the authority records returns the path of the
\* committed generation, with the three exceptions that ReadsCommitted names
\* (recoverAtomicTargetSync, resolveLiveAtomicReadPath).
THEOREM ReadsCommittedHolds == Spec => []ReadsCommitted
<1>1. IInv => ReadsCommitted
  BY DEF IInv, Sound, ReadsRight, ReadsCommitted
<1> QED BY <1>1, InvariantHolds, PTL
=============================================================================
