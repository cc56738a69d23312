---------------------------- MODULE ServiceProofs ----------------------------
(***************************************************************************)
(* Theorems about the services beside the change engine: the restore of a  *)
(* backup, the git sync, the client of the peers, the lease of the two     *)
(* daemons and the replication between them, the websocket hub, packet     *)
(* capture, the notification of findings and the held alerts. They share   *)
(* no state, and every theorem is about one of them; declarations of the   *)
(* same name in two components serve both. Each part starts with the       *)
(* invariant that is inductive for its component.                          *)
(***************************************************************************)
EXTENDS Naturals, Sequences, FiniteSets, SequenceTheorems, FiniteSetTheorems, WellFoundedInduction, TLAPS

\* A set of numbers has a smallest one.
LEMMA SmallestExists ==
    ASSUME NEW S \in SUBSET Nat, S # {}
    PROVE  \E x \in S : \A y \in S : x <= y
<1> DEFINE R == {p \in Nat \X Nat : p[1] < p[2]}
<1>1. IsWellFoundedOn(R, Nat)
  BY NatLessThanWellFounded DEF OpToRel
<1>2. \A x, y \in Nat : ~(<<y, x>> \in R) => x <= y
  OBVIOUS
<1> HIDE DEF R
<1>3. \E x \in S : \A y \in S : ~(<<y, x>> \in R)
  BY <1>1, WFMin
<1> QED
  BY <1>2, <1>3

-----------------------------------------------------------------------------
(* StoreRestore: where the store of a node is while a backup is restored. *)

CONSTANTS None, MaxRuns, Crashes, UndoFails, Race, Extras

VARIABLES db, wal, extra, run, runs, before, ended, daemon, mixed

Restore == INSTANCE StoreRestore

-----------------------------------------------------------------------------
(* StoreRestore: a restore that fails or dies anywhere. *)

Own == Restore!Aside(run.stamp)
Live == Restore!Live

BeforeSwap == {"stage", "db", "wal", "install", "undo"}

\* What moveAsideStore can have moved, in its order.
MovedSeqs == {<<>>, <<"db">>, <<"wal">>, <<"db", "wal">>}

RunAt == BeforeSwap \cup {"idle", "chmod", "extra", "write"}
RunRecords == [at : RunAt, stamp : {None} \cup Restore!Stamps,
               moved : MovedSeqs \cup {<<S>> : S \in SUBSET Extras}, todo : SUBSET Extras]

\* One restore at a time, named by its number.
RunShape ==
  /\ runs \in 0 .. MaxRuns
  /\ run \in RunRecords
  /\ run.at = "idle" => run = Restore!Idle
  /\ run.at # "idle" => run.stamp = runs /\ runs \in Restore!Stamps
  /\ run.at \in {"stage", "db"} => run.moved = <<>>
  /\ run.at = "wal" => run.moved \in {<<>>, <<"db">>}
  /\ run.at \in {"install", "undo"} => run.moved \in MovedSeqs
  /\ run.at = "write" => run.moved \in {<<S>> : S \in SUBSET Extras}

\* The names that no restore has used yet are free.
AsidesFree ==
  /\ \A i \in Restore!Stamps : i > runs => db[Restore!Aside(i)] = None
  /\ run.at \in {"stage", "db"} => db[Own] = None

Holds(moved, part) == moved = <<part>> \/ moved = <<"db", "wal">>
Moved(part) == Holds(run.moved, part)

\* Between the move of the store and the install nothing of the node's is at
\* the live path; a daemon that starts there makes an empty store.
LiveIsSpare ==
  run.at \in {"wal", "install"} \/ (run.at = "undo" /\ Moved("db")) => db[Live] \in {None, Restore!Fresh}

PathsShape == DOMAIN db = Restore!Places /\ DOMAIN wal = Restore!Places

KeptInv == PathsShape /\ AsidesFree /\ LiveIsSpare /\ Restore!PreviousKept

\* Facts about the names of places and stores.
LEMMA PlacesDiffer ==
    ASSUME NEW i \in Restore!Stamps
    PROVE  /\ Live \in Restore!Places /\ Restore!Staging \in Restore!Places
           /\ Restore!Aside(i) \in Restore!Places
           /\ Restore!Aside(i) # Live /\ Restore!Aside(i) # Restore!Staging
           /\ Live # Restore!Staging
           /\ \A j \in Restore!Stamps : Restore!Aside(j) = Restore!Aside(i) => j = i
           /\ Restore!Node # Restore!Fresh /\ \A j : Restore!Node # <<"archive", j>>
BY DEF Live, Restore!Live, Restore!Staging, Restore!Aside, Restore!Places, Restore!Node, Restore!Fresh

RestoreSetting == Restore!RestoreAssumption /\ None \notin Restore!Stores

\* What moveAsideStore appends and undoMoveAside takes off again.
LEMMA MovedOnce ==
    /\ Append(<<>>, "db") = <<"db">>
    /\ Append(<<>>, "wal") = <<"wal">>
    /\ Append(<<"db">>, "wal") = <<"db", "wal">>
    /\ \A m \in MovedSeqs : m # <<>> =>
           /\ m[Len(m)] \in {"db", "wal"}
           /\ SubSeq(m, 1, Len(m) - 1) = IF m = <<"db", "wal">> THEN <<"db">> ELSE <<>>
           /\ m[Len(m)] = IF m = <<"db">> THEN "db" ELSE "wal"
<1> DEFINE Part == {"db", "wal"}
<1>0. <<>> \in Seq(Part) /\ <<"db">> \in Seq(Part) /\ <<"wal">> \in Seq(Part) /\ <<"db", "wal">> \in Seq(Part)
  OBVIOUS
<1>1. /\ Append(<<>>, "db") = <<"db">>
      /\ Append(<<>>, "wal") = <<"wal">>
      /\ Append(<<"db">>, "wal") = <<"db", "wal">>
  <2>1. Append(<<>>, "db") = <<"db">>
    BY <1>0, AppendProperties, SeqEqual
  <2>2. Append(<<>>, "wal") = <<"wal">>
    BY <1>0, AppendProperties, SeqEqual
  <2>3. Append(<<"db">>, "wal") = <<"db", "wal">>
    <3> DEFINE s == Append(<<"db">>, "wal")
    <3>1. s \in Seq(Part) /\ Len(s) = 2 /\ s[1] = "db" /\ s[2] = "wal"
      BY <1>0, AppendProperties
    <3> HIDE DEF s
    <3>2. \A i \in 1 .. Len(s) : s[i] = <<"db", "wal">>[i]
      BY <3>1
    <3>3. s = <<"db", "wal">>
      BY <1>0, <3>1, <3>2, SeqEqual
    <3> QED
      BY <3>3 DEF s
  <2> QED
    BY <2>1, <2>2, <2>3
<1>2. SubSeq(<<"db">>, 1, 0) = <<>> /\ SubSeq(<<"wal">>, 1, 0) = <<>> /\ SubSeq(<<"db", "wal">>, 1, 1) = <<"db">>
  <2>1. SubSeq(<<"db">>, 1, 0) = <<>> /\ SubSeq(<<"wal">>, 1, 0) = <<>>
    BY <1>0, SubSeqEmpty
  <2>2. SubSeq(<<"db", "wal">>, 1, 1) = <<"db">>
    <3> DEFINE s == SubSeq(<<"db", "wal">>, 1, 1)
    <3>1. \A i \in 1 .. 1 : <<"db", "wal">>[i] \in Part
      OBVIOUS
    <3>2. s \in Seq(Part) /\ Len(s) = 1 /\ s[1] = "db"
      BY <3>1, SubSeqProperties
    <3> HIDE DEF s
    <3>3. s = <<"db">>
      BY <1>0, <3>2, SeqEqual
    <3> QED
      BY <3>3 DEF s
  <2> QED
    BY <2>1, <2>2
<1>3. Len(<<"db">>) = 1 /\ Len(<<"wal">>) = 1 /\ Len(<<"db", "wal">>) = 2
  OBVIOUS
<1>4. <<"db">> # <<"db", "wal">> /\ <<"wal">> # <<"db", "wal">> /\ <<"wal">> # <<"db">>
  OBVIOUS
<1> QED
  BY <1>1, <1>2, <1>3, <1>4 DEF MovedSeqs

\* The record of the restore under way is always one of the above.
LEMMA RunInduction ==
    ASSUME RestoreSetting
    PROVE  Restore!Spec => []RunShape
<1> USE DEF RestoreSetting, Restore!RestoreAssumption
<1>0. Restore!Idle \in RunRecords
  BY DEF Restore!Idle, RunRecords, RunAt, MovedSeqs
<1>1. Restore!Init => RunShape
  BY <1>0 DEF Restore!Init, RunShape, Restore!Idle
<1>2. RunShape /\ [Restore!Next]_(Restore!vars) => RunShape'
  <2> SUFFICES ASSUME RunShape, [Restore!Next]_(Restore!vars) PROVE RunShape'
    OBVIOUS
  <2> USE DEF RunShape, RunRecords, RunAt, BeforeSwap
  <2>1. CASE Restore!Begin
    <3>1. runs \in Nat /\ runs + 1 \in Restore!Stamps /\ runs + 1 \in 0 .. MaxRuns
      BY <2>1 DEF Restore!Begin, Restore!Stamps
    <3> QED
      BY <2>1, <3>1, <1>0 DEF Restore!Begin, Restore!Idle
  <2>2. CASE run' = Restore!Idle /\ UNCHANGED runs
    BY <1>0, <2>2 DEF Restore!Idle
  <2>3. CASE UNCHANGED <<run, runs>>
    BY <2>3
  <2>4. CASE Restore!Stage
    BY <2>2, <2>4 DEF Restore!Stage, Restore!Return
  <2>5. CASE Restore!MoveAside("db", "wal")
    <3>1. Append(run.moved, "db") = <<"db">> /\ run.moved = <<>>
      BY <2>5, MovedOnce DEF Restore!MoveAside
    <3> QED
      BY <2>5, <3>1 DEF Restore!MoveAside, MovedSeqs
  <2>6. CASE Restore!MoveAside("wal", "install")
    <3>1. run.moved \in MovedSeqs /\ Append(run.moved, "wal") \in MovedSeqs
      BY <2>6, MovedOnce DEF Restore!MoveAside, MovedSeqs
    <3> QED
      BY <2>6, <3>1 DEF Restore!MoveAside
  <2>7. CASE Restore!Install
    BY <2>7 DEF Restore!Install
  <2>8. CASE Restore!Undo
    <3>1. CASE run.moved = <<>>
      BY <2>2, <2>8, <3>1 DEF Restore!Undo, Restore!Return
    <3>2. CASE run.moved # <<>>
      <4>1. SubSeq(run.moved, 1, Len(run.moved) - 1) \in MovedSeqs
        BY <2>8, <3>2, MovedOnce DEF Restore!Undo, MovedSeqs
      <4> QED
        BY <2>8, <3>2, <4>1 DEF Restore!Undo
    <3> QED
      BY <3>1, <3>2
  <2>9. CASE Restore!Chmod
    BY <2>2, <2>9 DEF Restore!Chmod, Restore!Return
  <2>10. CASE Restore!ExtraAside
    <3>1. \A e : <<run.todo \ {e}>> \in {<<S>> : S \in SUBSET Extras}
      OBVIOUS
    <3>2. ASSUME NEW e \in run.todo, UNCHANGED runs,
                 run' = [run EXCEPT !.at = "write", !.todo = {e}, !.moved = <<run.todo \ {e}>>],
                 run.at = "extra"
          PROVE  RunShape'
      BY <3>1, <3>2
    <3> QED
      BY <2>2, <2>10, <3>2 DEF Restore!ExtraAside, Restore!Return
  <2>11. CASE Restore!ExtraWrite
    <3>1. run.moved[1] \in SUBSET Extras /\ <<>> \in MovedSeqs
      <4>1. PICK S \in SUBSET Extras : run.moved = <<S>>
        BY <2>11 DEF Restore!ExtraWrite
      <4> QED
        BY <4>1 DEF MovedSeqs
    <3> QED
      BY <2>2, <2>11, <3>1 DEF Restore!ExtraWrite, Restore!Return
  <2>12. CASE Restore!Crash
    BY <2>2, <2>12 DEF Restore!Crash
  <2> QED
    BY <2>1, <2>3, <2>4, <2>5, <2>6, <2>7, <2>8, <2>9, <2>10, <2>11, <2>12
    DEF Restore!Next, Restore!RestoreStep, Restore!DaemonLocks, Restore!DaemonOpens, Restore!DaemonEnds, Restore!vars
<1> QED
  BY <1>1, <1>2, PTL DEF Restore!Spec

\* Where a restore puts things aside.
LEMMA OwnAside ==
    ASSUME RestoreSetting, RunShape, run.at # "idle"
    PROVE  /\ Own \in Restore!Places /\ Own # Live /\ Own # Restore!Staging
           /\ \A i \in Restore!Stamps : i > runs => Restore!Aside(i) # Own
<1>1. run.stamp \in Restore!Stamps /\ run.stamp = runs /\ runs \in Nat /\ \A i \in Restore!Stamps : i \in Nat
  BY DEF RunShape, RestoreSetting, Restore!RestoreAssumption, Restore!Stamps
<1> QED
  BY <1>1, PlacesDiffer DEF Own

\* No step of a restore, of its death or of a daemon loses the node's store.
LEMMA KeptInduction ==
    ASSUME RestoreSetting
    PROVE  Restore!Spec => []KeptInv
<1> USE DEF RestoreSetting, Restore!RestoreAssumption
<1>1. Restore!Init => KeptInv
  <2> SUFFICES ASSUME Restore!Init PROVE KeptInv
    OBVIOUS
  <2>1. Live \in Restore!Places \ {Restore!Staging} /\ \A i : Restore!Aside(i) # Live
    BY DEF Live, Restore!Live, Restore!Staging, Restore!Aside, Restore!Places
  <2>2. \A i \in Restore!Stamps : Restore!Aside(i) \in Restore!Places
    BY DEF Restore!Places
  <2> QED
    BY <2>1, <2>2 DEF Restore!Init, KeptInv, PathsShape, AsidesFree, LiveIsSpare, Restore!PreviousKept, Restore!Idle, Live
<1>2. RunShape /\ RunShape' /\ KeptInv /\ [Restore!Next]_(Restore!vars) => KeptInv'
  <2> SUFFICES ASSUME RunShape, RunShape', KeptInv, [Restore!Next]_(Restore!vars) PROVE KeptInv'
    OBVIOUS
  <2>0. Live \in Restore!Places /\ Restore!Staging \in Restore!Places /\ Live # Restore!Staging
        /\ \A i \in Restore!Stamps :
             Restore!Aside(i) \in Restore!Places \ {Restore!Staging, Live} /\ i \in Nat
    BY DEF Live, Restore!Live, Restore!Staging, Restore!Places, Restore!Aside, Restore!Stamps
  <2>1. CASE Restore!Begin
    <3>1. runs + 1 \in Restore!Stamps /\ runs \in Nat
      BY <2>1 DEF Restore!Begin, Restore!Stamps, RunShape
    <3>2. AsidesFree'
      <4>1. run' = run \/ run'.stamp = runs + 1
        BY <2>1 DEF Restore!Begin, Restore!Idle
      <4>2. run.at = "idle" /\ runs' = runs + 1 /\ db' = db
        BY <2>1 DEF Restore!Begin
      <4>3. db[Restore!Aside(runs + 1)] = None
        BY <3>1 DEF AsidesFree, KeptInv
      <4>4. run'.at \in {"stage", "db"} => db'[Own'] = None
        BY <4>1, <4>2, <4>3 DEF Own
      <4> QED
        BY <2>0, <3>1, <4>2, <4>4 DEF AsidesFree, KeptInv
    <3>3. LiveIsSpare'
      BY <2>1 DEF Restore!Begin, LiveIsSpare, KeptInv, Restore!Idle
    <3> QED
      BY <2>1, <3>2, <3>3 DEF Restore!Begin, KeptInv, PathsShape, Restore!PreviousKept
  \* A step that changes no path but the staging directory, and does not begin
  \* to move files.
  <2>2. ASSUME UNCHANGED runs, DOMAIN db' = DOMAIN db, DOMAIN wal' = DOMAIN wal,
               \A p \in Restore!Places \ {Restore!Staging} : db'[p] = db[p],
               \/ run'.at \in {"idle", "chmod", "extra", "write"}
               \/ run' = run
               \/ run.at = "stage" /\ run'.at = "db" /\ run'.stamp = run.stamp
        PROVE  KeptInv'
    <3>1. AsidesFree'
      BY <2>0, <2>2, OwnAside DEF AsidesFree, KeptInv, Own
    <3>2. LiveIsSpare' /\ Restore!PreviousKept'
      BY <2>0, <2>2 DEF LiveIsSpare, Moved, Holds, KeptInv, Restore!PreviousKept
    <3> QED
      BY <2>2, <3>1, <3>2 DEF KeptInv, PathsShape
  <2>3. ASSUME NEW how, Restore!Return(how), UNCHANGED wal
        PROVE  KeptInv'
    BY <2>0, <2>2, <2>3 DEF Restore!Return, Restore!Idle, KeptInv, PathsShape
  <2>4. CASE Restore!Stage
    <3>1. CASE \E how : Restore!Return(how)
      BY <2>3, <2>4, <3>1 DEF Restore!Stage
    <3>2. CASE ~\E how : Restore!Return(how)
      BY <2>0, <2>2, <2>4, <3>2 DEF Restore!Stage, KeptInv, PathsShape, RunShape, RunRecords
    <3> QED
      BY <3>1, <3>2
  <2>5. CASE Restore!MoveAside("db", "wal")
    <3>1. run.at = "db" /\ run'.stamp = run.stamp /\ UNCHANGED runs /\ run'.at \in {"wal", "undo"}
          /\ run.moved = <<>> /\ (run'.at = "undo" => run'.moved = <<>> /\ db' = db)
          /\ (run'.at = "wal" => db'[Live] = None
                /\ (db' = db \/ db' = [db EXCEPT ![Own] = db[Live], ![Live] = None]))
          /\ DOMAIN wal' = DOMAIN wal
      BY <2>0, <2>5 DEF Restore!MoveAside, Live, Own, RunShape, RunRecords, KeptInv, PathsShape
    <3>2. /\ Own \in Restore!Places /\ Own # Live /\ Own # Restore!Staging
          /\ \A i \in Restore!Stamps : i > runs => Restore!Aside(i) # Own
      BY <3>1, OwnAside
    <3>3. AsidesFree'
      BY <2>0, <3>1, <3>2 DEF AsidesFree, KeptInv, PathsShape
    <3>4. LiveIsSpare'
      <4>1. run'.at = "undo" => ~Moved("db")'
        BY <3>1 DEF Moved, Holds
      <4> QED
        BY <3>1, <4>1 DEF LiveIsSpare
    <3>5. Restore!PreviousKept'
      <4>1. db[Own] = None /\ None # Restore!Node
        BY <3>1 DEF AsidesFree, KeptInv, Restore!Stores
      <4> QED
        BY <2>0, <3>1, <3>2, <4>1 DEF Restore!PreviousKept, KeptInv, PathsShape
    <3> QED
      BY <3>1, <3>3, <3>4, <3>5 DEF KeptInv, PathsShape
  <2>6. CASE Restore!MoveAside("wal", "install")
    <3>1. run.at = "wal" /\ UNCHANGED <<runs, db>> /\ DOMAIN wal' = DOMAIN wal /\ run'.at \in {"install", "undo"}
      BY <2>6 DEF Restore!MoveAside, RunShape, RunRecords
    <3> QED
      BY <3>1 DEF KeptInv, PathsShape, AsidesFree, LiveIsSpare, Restore!PreviousKept
  <2>7. CASE Restore!Install
    <3>1. run.at = "install" /\ UNCHANGED <<runs, wal>> /\ run'.at \in {"chmod", "undo"} /\ run'.moved = run.moved
          /\ (run'.at = "undo" => db' = db)
          /\ (run'.at = "chmod" => db' = [db EXCEPT ![Live] = db[Restore!Staging], ![Restore!Staging] = None])
      BY <2>7 DEF Restore!Install, RunShape, RunRecords, Live
    <3>2. AsidesFree'
      BY <2>0, <3>1 DEF AsidesFree, KeptInv, PathsShape
    <3>3. LiveIsSpare'
      BY <3>1 DEF LiveIsSpare, KeptInv
    <3>4. Restore!PreviousKept'
      <4>1. db[Live] # Restore!Node
        BY <3>1 DEF LiveIsSpare, KeptInv, Restore!Stores, Restore!Node, Restore!Fresh
      <4> QED
        BY <2>0, <3>1, <4>1 DEF Restore!PreviousKept, KeptInv, PathsShape
    <3> QED
      BY <3>1, <3>2, <3>3, <3>4 DEF KeptInv, PathsShape
  <2>8. CASE Restore!Undo
    <3>1. CASE run.moved = <<>>
      BY <2>3, <2>8, <3>1 DEF Restore!Undo
    <3>2. CASE run.moved # <<>>
      <4>1. run.at = "undo" /\ UNCHANGED runs /\ run'.at = "undo" /\ run.moved \in MovedSeqs
            /\ run'.moved = SubSeq(run.moved, 1, Len(run.moved) - 1)
        BY <2>8, <3>2 DEF Restore!Undo, RunShape, RunRecords
      <4>2. /\ Own \in Restore!Places /\ Own # Live /\ Own # Restore!Staging
            /\ \A i \in Restore!Stamps : i > runs => Restore!Aside(i) # Own
        BY <4>1, OwnAside
      <4>3. DOMAIN wal' = DOMAIN wal /\ DOMAIN db' = DOMAIN db
        BY <2>8, <3>2 DEF Restore!Undo
      <4>4. CASE run.moved = <<"db">>
        <5>1. db' = db \/ db' = [db EXCEPT ![Live] = db[Own], ![Own] = None]
          BY <2>8, <4>1, <4>4, MovedOnce DEF Restore!Undo, Live, Own
        <5>2. run'.moved = <<>> /\ db[Live] # Restore!Node
          <6>1. run'.moved = <<>>
            BY <4>1, <4>4, MovedOnce
          <6>2. db[Live] \in {None, Restore!Fresh}
            <7>1. Moved("db")
              BY <4>4 DEF Moved, Holds
            <7> QED
              BY <4>1, <7>1 DEF LiveIsSpare, KeptInv
          <6> QED
            <7>1. Restore!Node # Restore!Fresh
              BY DEF Restore!Node, Restore!Fresh
            <7>2. None # Restore!Node
              BY DEF Restore!Stores
            <7> QED
              BY <6>1, <6>2, <7>1, <7>2
        <5>3. AsidesFree'
          BY <2>0, <4>1, <4>2, <5>1 DEF AsidesFree, KeptInv, PathsShape
        <5>4. LiveIsSpare'
          <6>1. ~Moved("db")'
            BY <5>2 DEF Moved, Holds
          <6> QED
            BY <4>1, <6>1 DEF LiveIsSpare
        <5>5. Restore!PreviousKept'
          BY <2>0, <4>2, <5>1, <5>2 DEF Restore!PreviousKept, KeptInv, PathsShape
        <5> QED
          BY <4>3, <5>3, <5>4, <5>5 DEF KeptInv, PathsShape
      <4>5. CASE run.moved # <<"db">>
        <5>1. db' = db
          BY <2>8, <3>2, <4>1, <4>5, MovedOnce DEF Restore!Undo
        <5>2. Moved("db")' => Moved("db")
          <6>1. run.moved = <<"wal">> \/ run.moved = <<"db", "wal">>
            BY <3>2, <4>1, <4>5 DEF MovedSeqs
          <6>2. run.moved = <<"wal">> => run'.moved = <<>>
            <7>1. <<"wal">> # <<"db", "wal">>
              OBVIOUS
            <7> QED
              BY <3>2, <4>1, <7>1, MovedOnce
          <6>3. run'.moved = <<>> => ~Moved("db")'
            BY DEF Moved, Holds
          <6>4. run.moved = <<"db", "wal">> => Moved("db")
            BY DEF Moved, Holds
          <6> QED
            BY <6>1, <6>2, <6>3, <6>4
        <5> QED
          BY <4>1, <4>3, <5>1, <5>2 DEF KeptInv, PathsShape, AsidesFree, LiveIsSpare, Restore!PreviousKept
      <4> QED
        BY <4>4, <4>5
    <3> QED
      BY <3>1, <3>2
  <2>9. CASE Restore!Chmod
    BY <2>2, <2>3, <2>9 DEF Restore!Chmod, RunShape, RunRecords
  <2>10. CASE Restore!ExtraAside
    BY <2>2, <2>3, <2>10 DEF Restore!ExtraAside, RunShape, RunRecords
  <2>11. CASE Restore!ExtraWrite
    BY <2>2, <2>3, <2>11 DEF Restore!ExtraWrite, RunShape, RunRecords
  <2>12. CASE Restore!Crash
    BY <2>2, <2>12 DEF Restore!Crash, Restore!Idle
  <2>13. CASE Restore!DaemonOpens
    <3>1. UNCHANGED <<run, runs>> /\ DOMAIN wal' = DOMAIN wal
          /\ db' = [db EXCEPT ![Live] = IF db[Live] = None THEN Restore!Fresh ELSE db[Live]]
      BY <2>13 DEF Restore!DaemonOpens, Live
    <3>2. AsidesFree' /\ LiveIsSpare'
      BY <2>0, <3>1, OwnAside DEF AsidesFree, LiveIsSpare, KeptInv, PathsShape, Own, Moved, Holds
    <3>3. Restore!PreviousKept'
      <4>1. None # Restore!Node
        BY DEF Restore!Stores
      <4> QED
        BY <2>0, <3>1, <4>1 DEF Restore!PreviousKept, KeptInv, PathsShape
    <3> QED
      BY <3>1, <3>2, <3>3 DEF KeptInv, PathsShape
  <2>14. CASE Restore!DaemonLocks \/ Restore!DaemonEnds \/ UNCHANGED Restore!vars
    <3>1. UNCHANGED <<run, runs, db>> /\ DOMAIN wal' = DOMAIN wal
      BY <2>14 DEF Restore!DaemonLocks, Restore!DaemonEnds, Restore!vars
    <3> QED
      BY <2>2, <3>1
  <2> QED
    BY <2>1, <2>4, <2>5, <2>6, <2>7, <2>8, <2>9, <2>10, <2>11, <2>12, <2>13, <2>14 DEF Restore!Next, Restore!RestoreStep
<1> QED
  BY <1>1, <1>2, RunInduction, PTL DEF Restore!Spec

\* The node's own store is never lost: it is at the live path or under a name
\* it was moved aside to, wherever restores failed or died, also when putting
\* a file back failed and when a daemon started in the middle of a restore.
THEOREM OwnStoreKept ==
    ASSUME RestoreSetting
    PROVE  Restore!Spec => []Restore!PreviousKept
<1>1. KeptInv => Restore!PreviousKept
  BY DEF KeptInv
<1> QED
  BY <1>1, KeptInduction, PTL

-----------------------------------------------------------------------------
(* A restore beside no daemon (Race = FALSE). *)

\* The store and the log that were at the live path when the restore began,
\* wherever they are now.
StoreOf == IF Moved("db") THEN db[Own] ELSE db[Live]
LogOf   == IF Moved("wal") THEN wal[Own] ELSE wal[Live]

Swapping == run.at \in BeforeSwap

\* A log lies beside no store or beside its own, also once both are aside.
LogBelongs ==
  /\ Swapping => (StoreOf # None => LogOf \in {None, StoreOf})
  /\ ~Swapping => (db[Live] # None => wal[Live] \in {None, db[Live]})

\* The live path is empty between the move of a file and the install.
PathEmpty ==
  /\ run.at \in {"wal", "install"} \/ (run.at = "undo" /\ run.moved # <<>>) => db[Live] = None
  /\ run.at = "install" \/ (run.at = "undo" /\ Moved("wal")) => wal[Live] = None

RestoresAlone == run.at # "idle" => daemon.at = "down"

\* As long as files can be put back.
AsFound ==
  UndoFails = FALSE /\ Swapping => before = [db |-> StoreOf, wal |-> LogOf]

LogInv == LogBelongs /\ PathEmpty /\ RestoresAlone /\ AsFound /\ Restore!NeverMixed

\* The two files a restore moves, by what it has moved.
LEMMA MovedCases ==
    ASSUME NEW m
    PROVE  /\ m = <<>> => ~Holds(m, "db") /\ ~Holds(m, "wal")
           /\ m = <<"db">> => Holds(m, "db") /\ ~Holds(m, "wal") /\ m # <<>>
           /\ m = <<"wal">> => ~Holds(m, "db") /\ Holds(m, "wal") /\ m # <<>>
           /\ m = <<"db", "wal">> => Holds(m, "db") /\ Holds(m, "wal") /\ m # <<>>
<1>1. /\ <<"db">> # <<"wal">> /\ <<"db">> # <<"db", "wal">> /\ <<"wal">> # <<"db", "wal">>
      /\ <<>> # <<"db">> /\ <<>> # <<"wal">> /\ <<>> # <<"db", "wal">>
  OBVIOUS
<1> QED
  BY <1>1 DEF Holds

\* What a rename aside does to the record of the restore.
LEMMA MoveFacts ==
    ASSUME RunShape, RunShape', NEW part \in {"db", "wal"}, NEW next \in {"wal", "install"},
           Restore!MoveAside(part, next),
           part = "db" => next = "wal" /\ run.moved = <<>>,
           part = "wal" => next = "install" /\ run.moved \in {<<>>, <<"db">>}
    PROVE  LET there == IF part = "db" THEN db[Live] ELSE wal[Live] IN
           /\ run.at = part /\ run'.stamp = run.stamp /\ UNCHANGED <<before, daemon, mixed, runs>>
           /\ \/ /\ there = None /\ run'.at = next /\ run'.moved = run.moved /\ UNCHANGED <<db, wal>>
              \/ /\ run'.at = next
                 /\ run'.moved = IF part = "db" THEN <<"db">>
                                 ELSE IF run.moved = <<>> THEN <<"wal">> ELSE <<"db", "wal">>
                 /\ part = "db" => db' = [db EXCEPT ![Own] = there, ![Live] = None] /\ wal' = wal
                 /\ part = "wal" => wal' = [wal EXCEPT ![Own] = there, ![Live] = None] /\ db' = db
              \/ run'.at = "undo" /\ run'.moved = run.moved /\ UNCHANGED <<db, wal>>
<1>1. Append(run.moved, part) = IF part = "db" THEN <<"db">>
                                ELSE IF run.moved = <<>> THEN <<"wal">> ELSE <<"db", "wal">>
  BY MovedOnce
<1> QED
  BY <1>1 DEF Restore!MoveAside, Live, Own, RunShape, RunRecords

\* The pair of store and log survives every step of a restore and of a daemon.
LEMMA LogInduction ==
    ASSUME RestoreSetting, Race = FALSE
    PROVE  Restore!Spec => []LogInv
<1> USE DEF RestoreSetting, Restore!RestoreAssumption
<1>1. Restore!Init => LogInv
  <2> SUFFICES ASSUME Restore!Init PROVE LogInv
    OBVIOUS
  <2>1. Live \in Restore!Places /\ db[Live] = Restore!Node /\ wal[Live] \in {Restore!Node, None}
    BY DEF Restore!Init, Live, Restore!Places
  <2> QED
    BY <2>1 DEF Restore!Init, Restore!Idle, LogInv, LogBelongs, PathEmpty, RestoresAlone, AsFound, Swapping, BeforeSwap,
                Restore!NeverMixed
<1>2. RunShape /\ RunShape' /\ KeptInv /\ LogInv /\ [Restore!Next]_(Restore!vars) => LogInv'
  <2> SUFFICES ASSUME RunShape, RunShape', KeptInv, LogInv, [Restore!Next]_(Restore!vars) PROVE LogInv'
    OBVIOUS
  <2> USE DEF BeforeSwap
  <2>0. /\ Live \in Restore!Places /\ Restore!Staging \in Restore!Places /\ Live # Restore!Staging
        /\ DOMAIN db = Restore!Places /\ DOMAIN wal = Restore!Places
    BY DEF Live, Restore!Live, Restore!Staging, Restore!Places, KeptInv, PathsShape
  <2>a. run.at # "idle" => Own \in Restore!Places /\ Own # Live /\ Own # Restore!Staging
    BY OwnAside
  \* A step after which no restore is swapping, and the live path is the same.
  <2>b. ASSUME run'.at \in {"idle", "chmod", "extra", "write"}, db'[Live] = db[Live], wal' = wal,
               run'.at # "idle" => daemon'.at = "down", UNCHANGED mixed
        PROVE  LogInv'
    <3>1. db[Live] # None => wal[Live] \in {None, db[Live]}
      <4>1. CASE ~Swapping
        BY <4>1 DEF LogInv, LogBelongs
      <4>2. CASE Swapping /\ run.moved = <<>>
        BY <4>2, MovedCases DEF LogInv, LogBelongs, StoreOf, LogOf, Moved
      <4>3. CASE Swapping /\ run.moved # <<>>
        <5>1. db[Live] = None
          BY <4>3 DEF Swapping, RunShape, LogInv, PathEmpty
        <5> QED
          BY <5>1
      <4> QED
        BY <4>1, <4>2, <4>3
    <3>2. LogBelongs'
      BY <2>b, <3>1 DEF LogBelongs, Swapping
    <3> QED
      BY <2>b, <3>2 DEF LogInv, PathEmpty, RestoresAlone, AsFound, Swapping, Restore!NeverMixed
  <2>c. ASSUME NEW how, Restore!Return(how), UNCHANGED <<wal, mixed>>
        PROVE  LogInv'
    BY <2>0, <2>b, <2>c DEF Restore!Return, Restore!Idle
  <2>1. CASE Restore!Begin
    <3>1. run.at = "idle" /\ UNCHANGED <<db, wal, mixed, daemon>>
      BY <2>1 DEF Restore!Begin
    <3>2. CASE Restore!DaemonSeen
      BY <2>1, <2>b, <3>1, <3>2 DEF Restore!Begin, RunShape
    <3>3. CASE ~Restore!DaemonSeen
      <4>1. run'.at = "stage" /\ run'.moved = <<>> /\ before' = [db |-> db[Live], wal |-> wal[Live]] /\ daemon.at = "down"
        BY <2>1, <3>3 DEF Restore!Begin, Restore!Idle, Restore!DaemonSeen, Live
      <4>2. StoreOf' = db[Live] /\ LogOf' = wal[Live]
        <5>1. ~Moved("db")' /\ ~Moved("wal")'
          BY <4>1, MovedCases DEF Moved
        <5> QED
          BY <3>1, <5>1 DEF StoreOf, LogOf, Live
      <4>3. db[Live] # None => wal[Live] \in {None, db[Live]}
        BY <3>1 DEF LogInv, LogBelongs, Swapping
      <4> QED
        BY <3>1, <4>1, <4>2, <4>3 DEF LogInv, LogBelongs, PathEmpty, RestoresAlone, AsFound, Swapping, Restore!NeverMixed
    <3> QED
      BY <3>2, <3>3
  <2>2. CASE Restore!Stage
    <3>1. CASE \E how : Restore!Return(how)
      BY <2>2, <2>c, <3>1 DEF Restore!Stage
    <3>2. CASE ~\E how : Restore!Return(how)
      <4>1. /\ run.at = "stage" /\ run'.at = "db" /\ run'.moved = <<>> /\ run.moved = <<>>
            /\ db'[Live] = db[Live] /\ UNCHANGED <<wal, mixed, daemon, before>>
        BY <2>0, <2>2, <3>2 DEF Restore!Stage, RunShape, RunRecords
      <4>2. StoreOf' = StoreOf /\ LogOf' = LogOf
        <5>1. ~Moved("db")' /\ ~Moved("wal")' /\ ~Moved("db") /\ ~Moved("wal")
          BY <4>1, MovedCases DEF Moved
        <5> QED
          BY <4>1, <5>1 DEF StoreOf, LogOf, Live
      <4> QED
        BY <4>1, <4>2 DEF LogInv, LogBelongs, PathEmpty, RestoresAlone, AsFound, Swapping, Restore!NeverMixed
    <3> QED
      BY <3>1, <3>2
  \* A step of a restore that moves a file but leaves the pair what it is.
  <2>d. ASSUME run.at \in BeforeSwap, run'.at \in BeforeSwap,
               \/ StoreOf' = StoreOf /\ LogOf' = LogOf
               \/ UndoFails # FALSE /\ (StoreOf' = None \/ (StoreOf' = StoreOf /\ LogOf' = None)),
               PathEmpty', UNCHANGED <<before, daemon, mixed>>
        PROVE  LogInv'
    BY <2>d DEF LogInv, LogBelongs, RestoresAlone, AsFound, Swapping, Restore!NeverMixed
  <2>3. CASE Restore!MoveAside("db", "wal")
    <3>0. run.at = "db" /\ run.moved = <<>>
      BY <2>3 DEF Restore!MoveAside, RunShape
    <3>1. /\ run'.stamp = run.stamp /\ UNCHANGED <<before, daemon, mixed, runs>>
          /\ \/ /\ db[Live] = None /\ run'.at = "wal" /\ run'.moved = run.moved /\ UNCHANGED <<db, wal>>
             \/ /\ run'.at = "wal" /\ run'.moved = <<"db">>
                /\ db' = [db EXCEPT ![Own] = db[Live], ![Live] = None] /\ wal' = wal
             \/ run'.at = "undo" /\ run'.moved = run.moved /\ UNCHANGED <<db, wal>>
      BY <2>3, <3>0, MoveFacts
    <3>2. Own' = Own /\ ~Moved("db") /\ ~Moved("wal") /\ ~Moved("wal")' /\ (run'.moved = <<"db">> => Moved("db")')
          /\ (run'.moved = <<>> => ~Moved("db")')
      BY <3>0, <3>1, MovedCases DEF Own, Moved
    <3>3. StoreOf' = StoreOf /\ LogOf' = LogOf
      BY <2>0, <2>a, <3>0, <3>1, <3>2 DEF StoreOf, LogOf, Live
    <3>4. PathEmpty'
      BY <2>0, <2>a, <3>0, <3>1, <3>2 DEF PathEmpty
    <3> QED
      BY <2>d, <3>0, <3>1, <3>3, <3>4
  <2>4. CASE Restore!MoveAside("wal", "install")
    <3>0. run.at = "wal" /\ run.moved \in {<<>>, <<"db">>} /\ db[Live] = None
      BY <2>4 DEF Restore!MoveAside, RunShape, LogInv, PathEmpty
    <3>1. /\ run'.stamp = run.stamp /\ UNCHANGED <<before, daemon, mixed, runs, db>>
          /\ \/ /\ wal[Live] = None /\ run'.at = "install" /\ run'.moved = run.moved /\ UNCHANGED wal
             \/ /\ run'.at = "install" /\ run'.moved = IF run.moved = <<>> THEN <<"wal">> ELSE <<"db", "wal">>
                /\ wal' = [wal EXCEPT ![Own] = wal[Live], ![Live] = None]
             \/ run'.at = "undo" /\ run'.moved = run.moved /\ UNCHANGED wal
      BY <2>4, <3>0, MoveFacts
    <3>2. Own' = Own /\ (Moved("db")' <=> Moved("db")) /\ ~Moved("wal") /\ (run'.moved # run.moved => Moved("wal")')
          /\ (run'.moved = run.moved => ~Moved("wal")')
      BY <3>0, <3>1, MovedCases DEF Own, Moved
    <3>3. StoreOf' = StoreOf /\ LogOf' = LogOf
      <4>1. run'.moved # run.moved => wal' = [wal EXCEPT ![Own] = wal[Live], ![Live] = None]
        BY <3>1
      <4>2. run'.moved = run.moved => wal' = wal
        <5>1. <<"wal">> # <<>> /\ <<"db", "wal">> # <<"db">>
          OBVIOUS
        <5> QED
          BY <3>0, <3>1, <5>1
      <4>3. StoreOf' = StoreOf
        BY <3>1, <3>2 DEF StoreOf, Live
      <4> QED
        BY <2>0, <2>a, <3>0, <3>1, <3>2, <4>1, <4>2, <4>3 DEF LogOf, Live
    <3>4. PathEmpty'
      BY <2>0, <2>a, <3>0, <3>1, <3>2 DEF PathEmpty
    <3> QED
      BY <2>d, <3>0, <3>1, <3>3, <3>4
  <2>5. CASE Restore!Install
    <3>1. run.at = "install" /\ UNCHANGED <<wal, before, daemon, mixed>> /\ run'.moved = run.moved /\ run'.stamp = run.stamp
          /\ \/ run'.at = "undo" /\ db' = db
             \/ run'.at = "chmod" /\ db' = [db EXCEPT ![Live] = db[Restore!Staging], ![Restore!Staging] = None]
      BY <2>5 DEF Restore!Install, RunShape, RunRecords, Live
    <3>2. db[Live] = None /\ wal[Live] = None /\ daemon.at = "down"
      BY <3>1 DEF LogInv, PathEmpty, RestoresAlone
    <3>3. CASE run'.at = "undo"
      <4>1. StoreOf' = StoreOf /\ LogOf' = LogOf
        BY <3>1, <3>3 DEF StoreOf, LogOf, Moved, Own, Live
      <4>2. PathEmpty'
        BY <3>1, <3>2, <3>3 DEF PathEmpty
      <4> QED
        BY <2>d, <3>1, <3>3, <4>1, <4>2
    <3>4. CASE run'.at = "chmod"
      BY <3>1, <3>2, <3>4 DEF LogInv, LogBelongs, PathEmpty, RestoresAlone, AsFound, Swapping, Restore!NeverMixed
    <3> QED
      BY <3>1, <3>3, <3>4
  <2>6. CASE Restore!Undo
    <3>1. CASE run.moved = <<>>
      BY <2>6, <2>c, <3>1 DEF Restore!Undo
    <3>2. CASE run.moved # <<>>
      <4>1. run.at = "undo" /\ run'.at = "undo" /\ run.moved \in MovedSeqs /\ run'.stamp = run.stamp
            /\ UNCHANGED <<before, daemon, mixed>> /\ Own' = Own /\ db[Live] = None
        BY <2>6, <3>2 DEF Restore!Undo, RunShape, RunRecords, Own, LogInv, PathEmpty
      <4>2. CASE run.moved = <<"db">>
        <5>1. /\ run'.moved = <<>>
              /\ \/ db' = [db EXCEPT ![Live] = db[Own], ![Own] = None] /\ wal' = wal
                 \/ UndoFails /\ UNCHANGED <<db, wal>>
          BY <2>6, <4>1, <4>2, MovedOnce DEF Restore!Undo, Live, Own, RunShape, RunRecords
        <5>2. Moved("db") /\ ~Moved("wal") /\ ~Moved("db")' /\ ~Moved("wal")'
          BY <4>2, <5>1, MovedCases DEF Moved
        <5>3. StoreOf' = db'[Live] /\ LogOf' = wal'[Live] /\ StoreOf = db[Own] /\ LogOf = wal[Live]
          BY <5>2 DEF StoreOf, LogOf, Live
        <5>4. PathEmpty'
          BY <4>1, <5>1, <5>2 DEF PathEmpty
        <5> QED
          BY <2>0, <2>a, <2>d, <4>1, <5>1, <5>3, <5>4
      <4>3. CASE run.moved = <<"wal">> \/ run.moved = <<"db", "wal">>
        <5>1. /\ run'.moved = IF run.moved = <<"wal">> THEN <<>> ELSE <<"db">>
              /\ \/ wal' = [wal EXCEPT ![Live] = wal[Own], ![Own] = None] /\ db' = db
                 \/ UndoFails /\ UNCHANGED <<db, wal>>
          <6>1. run.moved[Len(run.moved)] = "wal"
                /\ SubSeq(run.moved, 1, Len(run.moved) - 1) = IF run.moved = <<"wal">> THEN <<>> ELSE <<"db">>
            <7>1. <<"wal">> # <<"db", "wal">> /\ <<"db">> # <<"wal">> /\ <<"db">> # <<"db", "wal">>
              OBVIOUS
            <7> QED
              BY <3>2, <4>1, <4>3, <7>1, MovedOnce
          <6> QED
            BY <2>6, <3>2, <6>1 DEF Restore!Undo, Live, Own, RunShape, RunRecords
        <5>2. Moved("wal") /\ (Moved("db")' <=> Moved("db")) /\ ~Moved("wal")'
          BY <4>3, <5>1, MovedCases DEF Moved
        <5>3. LogOf' = wal'[Live] /\ LogOf = wal[Own] /\ wal[Live] = None
          BY <4>1, <5>2 DEF LogOf, Live, LogInv, PathEmpty
        <5>4. StoreOf' = StoreOf
          BY <4>1, <5>1, <5>2 DEF StoreOf, Live
        <5>5. PathEmpty'
          BY <4>1, <5>1, <5>2 DEF PathEmpty, Live
        <5> QED
          BY <2>0, <2>a, <2>d, <4>1, <5>1, <5>3, <5>4, <5>5
      <4> QED
        BY <3>2, <4>1, <4>2, <4>3 DEF MovedSeqs
    <3> QED
      BY <3>1, <3>2
  <2>7. CASE Restore!Chmod
    BY <2>7, <2>b, <2>c DEF Restore!Chmod, RunShape, RunRecords, LogInv, RestoresAlone
  <2>8. CASE Restore!ExtraAside
    BY <2>8, <2>b, <2>c DEF Restore!ExtraAside, RunShape, RunRecords, LogInv, RestoresAlone
  <2>9. CASE Restore!ExtraWrite
    BY <2>9, <2>b, <2>c DEF Restore!ExtraWrite, RunShape, RunRecords, LogInv, RestoresAlone
  <2>10. CASE Restore!Crash
    BY <2>10, <2>b DEF Restore!Crash, Restore!Idle
  <2>11. CASE Restore!DaemonLocks
    BY <2>11, <2>b DEF Restore!DaemonLocks
  <2>12. CASE Restore!DaemonOpens
    <3>1. run.at = "idle" /\ run' = run
      BY <2>12 DEF Restore!DaemonOpens, LogInv, RestoresAlone
    <3>2. db[Live] # None => wal[Live] \in {None, db[Live]}
      BY <3>1 DEF LogInv, LogBelongs, Swapping
    <3>3. ~mixed' /\ wal'[Live] = db'[Live]
      BY <2>0, <2>12, <3>2 DEF Restore!DaemonOpens, LogInv, Restore!NeverMixed, Live
    <3> QED
      BY <3>1, <3>3 DEF LogInv, LogBelongs, PathEmpty, RestoresAlone, AsFound, Swapping, Restore!NeverMixed
  <2>13. CASE Restore!DaemonEnds
    <3>1. run.at = "idle" /\ run' = run /\ UNCHANGED <<db, mixed>> /\ (wal' = wal \/ wal'[Live] = None)
      BY <2>0, <2>13 DEF Restore!DaemonEnds, LogInv, RestoresAlone, Live
    <3>2. db[Live] # None => wal[Live] \in {None, db[Live]}
      BY <3>1 DEF LogInv, LogBelongs, Swapping
    <3> QED
      BY <3>1, <3>2 DEF LogInv, LogBelongs, PathEmpty, RestoresAlone, AsFound, Swapping, Restore!NeverMixed, Live
  <2>14. CASE UNCHANGED Restore!vars
    BY <2>14 DEF Restore!vars, LogInv, LogBelongs, PathEmpty, RestoresAlone, AsFound, Swapping, Restore!NeverMixed,
                 StoreOf, LogOf, Moved, Own, Live
  <2> QED
    BY <2>1, <2>2, <2>3, <2>4, <2>5, <2>6, <2>7, <2>8, <2>9, <2>10, <2>11, <2>12, <2>13, <2>14
    DEF Restore!Next, Restore!RestoreStep
<1> QED
  BY <1>1, <1>2, RunInduction, KeptInduction, PTL DEF Restore!Spec

\* No log is replayed over a store it does not belong to: wherever restores
\* failed or died, and also when files could not be put back, the live path
\* never holds a store beside the log of another.
THEOREM LogsMatchStores ==
    ASSUME RestoreSetting, Race = FALSE
    PROVE  Restore!Spec => []Restore!NeverMixed
<1>1. LogInv => Restore!NeverMixed
  BY DEF LogInv
<1> QED
  BY <1>1, LogInduction, PTL

\* A restore that gives up before the install leaves the live store and its
\* log as it found them (undoMoveAside), as long as files can be put back.
THEOREM FailureUndone ==
    ASSUME RestoreSetting, Race = FALSE, UndoFails = FALSE
    PROVE  Restore!Spec => [][Restore!FailedLeavesStore]_(Restore!vars)
<1>1. RunShape /\ KeptInv /\ LogInv /\ Restore!Next => Restore!FailedLeavesStore
  <2> SUFFICES ASSUME RunShape, KeptInv, LogInv, Restore!Next,
                      ended' = "failed", run.at # "idle", run'.at = "idle"
               PROVE  before = [db |-> db'[Live], wal |-> wal'[Live]]
    BY DEF Restore!FailedLeavesStore, Live
  <2>1. Live \in Restore!Places /\ Restore!Staging # Live /\ DOMAIN db = Restore!Places
    BY DEF Live, Restore!Live, Restore!Staging, Restore!Places, KeptInv, PathsShape
  <2>2. CASE Restore!Stage \/ Restore!Undo
    <3>1. run.at \in {"stage", "undo"} /\ run.moved = <<>> /\ UNCHANGED wal /\ db'[Live] = db[Live]
      BY <2>1, <2>2 DEF Restore!Stage, Restore!Undo, Restore!Return, RunShape, RunRecords
    <3>2. StoreOf = db[Live] /\ LogOf = wal[Live]
      BY <3>1, MovedCases DEF StoreOf, LogOf, Moved
    <3> QED
      BY <3>1, <3>2 DEF LogInv, AsFound, Swapping, BeforeSwap
  <2>3. CASE Restore!MoveAside("db", "wal") \/ Restore!MoveAside("wal", "install") \/ Restore!Install
    BY <2>3 DEF Restore!MoveAside, Restore!Install, RunShape, RunRecords
  <2>4. CASE Restore!Chmod \/ Restore!ExtraAside \/ Restore!ExtraWrite \/ Restore!Crash
    BY <2>4 DEF Restore!Chmod, Restore!ExtraAside, Restore!ExtraWrite, Restore!Crash, Restore!Return, RunShape, RunRecords
  <2> QED
    BY <2>2, <2>3, <2>4 DEF Restore!Next, Restore!RestoreStep, Restore!Begin, Restore!DaemonLocks, Restore!DaemonOpens,
                            Restore!DaemonEnds
<1> QED
  BY <1>1, RunInduction, KeptInduction, LogInduction, PTL DEF Restore!Spec

\* StoreIsOneStore: the node's own store survives every restore, and no log is
\* replayed over a store it does not belong to unless a daemon starts in between.
THEOREM StoresStayApart ==
    ASSUME RestoreSetting
    PROVE  Restore!Spec => []Restore!StoreIsOneStore
<1>1. CASE Race = FALSE
  <2>1. Restore!PreviousKept /\ Restore!NeverMixed => Restore!StoreIsOneStore
    BY DEF Restore!StoreIsOneStore
  <2>2. Restore!Spec => []Restore!NeverMixed
    BY <1>1, LogsMatchStores
  <2>3. Restore!Spec => []Restore!PreviousKept
    BY OwnStoreKept
  <2> QED
    BY <2>1, <2>2, <2>3, PTL
<1>2. CASE Race = TRUE
  <2>1. Restore!PreviousKept => Restore!StoreIsOneStore
    BY <1>2 DEF Restore!StoreIsOneStore
  <2>2. Restore!Spec => []Restore!PreviousKept
    BY OwnStoreKept
  <2> QED
    BY <2>1, <2>2, PTL
<1> QED
  BY <1>1, <1>2 DEF RestoreSetting, Restore!RestoreAssumption

RestoreTyped ==
  /\ Restore!TypeOK
  /\ daemon \in [at : {"down", "locked", "up"}, store : Restore!Stores \cup {None}]

\* StoreRestore's TypeOK: every name in the directory holds a store or nothing,
\* and every extra file is the node's, the archive's or absent.
THEOREM RestoreTypes ==
    ASSUME RestoreSetting
    PROVE  Restore!Spec => []Restore!TypeOK
<1>1. Restore!Init => RestoreTyped
  <2> SUFFICES ASSUME Restore!Init PROVE RestoreTyped
    OBVIOUS
  <2> DEFINE S == Restore!Stores \cup {None}
  <2>1. Restore!Node \in S /\ None \in S
    BY DEF Restore!Stores
  <2> HIDE DEF S
  <2>2. db \in [Restore!Places -> S] /\ wal \in [Restore!Places -> S]
    BY <2>1 DEF Restore!Init
  <2>3. extra \in [Extras -> [here : {"node", "archive", None}, aside : {"node", "archive", None}]]
    BY DEF Restore!Init
  <2>4. /\ run.at = "idle" /\ runs = 0 /\ ended = "none" /\ daemon = [at |-> "down", store |-> None] /\ mixed = FALSE
        /\ 0 \in 0 .. MaxRuns
    BY DEF Restore!Init, Restore!Idle, RestoreSetting, Restore!RestoreAssumption
  <2>5. daemon \in [at : {"down", "locked", "up"}, store : S]
    BY <2>1, <2>4
  <2> QED
    BY <2>2, <2>3, <2>4, <2>5 DEF RestoreTyped, Restore!TypeOK, S
<1>2. RunShape /\ RunShape' /\ RestoreTyped /\ [Restore!Next]_(Restore!vars) => RestoreTyped'
  <2> SUFFICES ASSUME RunShape, RunShape', RestoreTyped, [Restore!Next]_(Restore!vars) PROVE RestoreTyped'
    OBVIOUS
  <2> DEFINE S == Restore!Stores \cup {None}
             F == [here : {"node", "archive", None}, aside : {"node", "archive", None}]
             D == [at : {"down", "locked", "up"}, store : S]
             E == {"none", "refused", "failed", "late", "died", "done"}
  <2>0. /\ db \in [Restore!Places -> S] /\ wal \in [Restore!Places -> S] /\ extra \in [Extras -> F]
        /\ ended \in E /\ daemon \in D /\ mixed \in BOOLEAN
    BY DEF RestoreTyped, Restore!TypeOK
  <2>1. None \in S /\ Restore!Fresh \in S /\ \A i \in Restore!Stamps : <<"archive", i>> \in S
    BY DEF Restore!Stores
  <2>2. /\ run.at # "idle" => run.stamp \in Restore!Stamps
        /\ run.at \in RunAt /\ run'.at \in RunAt /\ runs' \in 0 .. MaxRuns
    BY DEF RunShape, RunRecords
  <2>3. Restore!Live \in Restore!Places /\ Restore!Staging \in Restore!Places
    BY DEF Restore!Places
  <2>a. ASSUME db' \in [Restore!Places -> S], wal' \in [Restore!Places -> S], extra' \in [Extras -> F],
               ended' \in E, daemon' \in D, mixed' \in BOOLEAN
        PROVE  RestoreTyped'
    <3>1. daemon'.at \in {"down", "locked", "up"}
      BY <2>a
    <3>2. run'.at \in {"idle", "stage", "db", "wal", "install", "chmod", "undo", "extra", "write"}
      BY <2>2 DEF RunAt, BeforeSwap
    <3> QED
      BY <2>2, <2>a, <3>1, <3>2 DEF RestoreTyped, Restore!TypeOK
  <2> HIDE DEF S, F, D, E
  <2>b. ASSUME NEW p, NEW x \in S PROVE [db EXCEPT ![p] = x] \in [Restore!Places -> S] /\ [wal EXCEPT ![p] = x] \in [Restore!Places -> S]
    BY <2>0, <2>b
  <2>c. ASSUME NEW p, NEW q, NEW x \in S, NEW y \in S
        PROVE  /\ [db EXCEPT ![p] = x, ![q] = y] \in [Restore!Places -> S]
               /\ [wal EXCEPT ![p] = x, ![q] = y] \in [Restore!Places -> S]
    BY <2>0, <2>c
  <2>d. \A p \in Restore!Places : db[p] \in S /\ wal[p] \in S
    BY <2>0
  <2>e. {"refused", "failed", "late", "died", "done"} \subseteq E
    BY DEF E
  <2>f. ASSUME NEW how \in {"failed", "late", "done"}, Restore!Return(how)
        PROVE  db' \in [Restore!Places -> S] /\ ended' \in E /\ daemon' \in D
    BY <2>0, <2>1, <2>b, <2>e, <2>f DEF Restore!Return
  <2>4. CASE Restore!Begin
    BY <2>0, <2>4, <2>a, <2>e DEF Restore!Begin
  <2>5. CASE Restore!Stage
    <3>1. CASE db' = [db EXCEPT ![Restore!Staging] = <<"archive", run.stamp>>] /\ UNCHANGED <<ended, daemon>>
      <4>1. <<"archive", run.stamp>> \in S
        BY <2>1, <2>2, <2>5 DEF Restore!Stage
      <4> QED
        BY <2>0, <2>5, <2>a, <2>b, <3>1, <4>1 DEF Restore!Stage
    <3>2. CASE Restore!Return("failed")
      BY <2>0, <2>5, <2>a, <2>f, <3>2 DEF Restore!Stage
    <3> QED
      BY <2>5, <3>1, <3>2 DEF Restore!Stage
  <2>6. ASSUME NEW part \in {"db", "wal"}, NEW step, Restore!MoveAside(part, step) PROVE RestoreTyped'
    <3>1. UNCHANGED <<extra, mixed, ended, daemon>>
      BY <2>6 DEF Restore!MoveAside
    <3>2. \/ db' = db /\ wal' = wal
          \/ db' = [db EXCEPT ![Restore!Aside(run.stamp)] = db[Restore!Live], ![Restore!Live] = None] /\ wal' = wal
          \/ wal' = [wal EXCEPT ![Restore!Aside(run.stamp)] = wal[Restore!Live], ![Restore!Live] = None] /\ db' = db
      BY <2>6 DEF Restore!MoveAside
    <3>3. db' \in [Restore!Places -> S] /\ wal' \in [Restore!Places -> S]
      BY <2>0, <2>1, <2>3, <2>c, <2>d, <3>2
    <3> QED
      BY <2>0, <2>a, <3>1, <3>3
  <2>7. CASE Restore!Install
    <3>1. UNCHANGED <<wal, extra, mixed, ended, daemon>>
      BY <2>7 DEF Restore!Install
    <3>2. db' = db \/ db' = [db EXCEPT ![Restore!Live] = db[Restore!Staging], ![Restore!Staging] = None]
      BY <2>7 DEF Restore!Install
    <3>3. db' \in [Restore!Places -> S]
      BY <2>0, <2>1, <2>3, <2>c, <2>d, <3>2
    <3> QED
      BY <2>0, <2>a, <3>1, <3>3
  <2>8. CASE Restore!Undo
    <3>0. UNCHANGED <<extra, mixed>>
      BY <2>8 DEF Restore!Undo
    <3>1. CASE Restore!Return("failed") /\ wal' = wal
      BY <2>0, <2>a, <2>f, <3>0, <3>1
    <3>2. CASE UNCHANGED <<ended, daemon>> /\ run.at = "undo" /\ run.moved # <<>>
      <4>0. Restore!Aside(run.stamp) \in Restore!Places
        BY <2>2, <3>2, PlacesDiffer
      <4>1. \/ db' = db /\ wal' = wal
            \/ db' = [db EXCEPT ![Restore!Live] = db[Restore!Aside(run.stamp)], ![Restore!Aside(run.stamp)] = None] /\ wal' = wal
            \/ wal' = [wal EXCEPT ![Restore!Live] = wal[Restore!Aside(run.stamp)], ![Restore!Aside(run.stamp)] = None] /\ db' = db
        BY <2>8, <3>2 DEF Restore!Undo
      <4>2. db' \in [Restore!Places -> S] /\ wal' \in [Restore!Places -> S]
        BY <2>0, <2>1, <2>c, <2>d, <4>0, <4>1
      <4> QED
        BY <2>0, <2>a, <3>0, <3>2, <4>2
    <3> QED
      BY <2>8, <3>1, <3>2 DEF Restore!Undo
  <2>9. CASE Restore!Chmod
    BY <2>0, <2>9, <2>a, <2>f DEF Restore!Chmod
  <2>10. CASE Restore!ExtraAside
    <3>1. extra' \in [Extras -> F]
      <4>1. CASE extra' = extra
        BY <2>0, <4>1
      <4>2. ASSUME NEW e \in run.todo,
                   extra' = [extra EXCEPT ![e] = IF @.here = None THEN @ ELSE [here |-> None, aside |-> @.here]]
            PROVE  extra' \in [Extras -> F]
        <5>1. e \in Extras
          BY <4>2 DEF RunShape, RunRecords
        <5>2. extra[e] \in F
          BY <2>0, <5>1
        <5>3. PICK x \in F : x = IF extra[e].here = None THEN extra[e] ELSE [here |-> None, aside |-> extra[e].here]
          BY <5>2 DEF F
        <5>4. extra' = [extra EXCEPT ![e] = x]
          BY <2>0, <4>2, <5>1, <5>3
        <5> QED
          BY <2>0, <5>4
      <4> QED
        BY <2>10, <4>1, <4>2 DEF Restore!ExtraAside
    <3>2. /\ db' = db /\ UNCHANGED <<ended, daemon>>
          \/ \E how \in {"failed", "late", "done"} : Restore!Return(how)
      BY <2>10 DEF Restore!ExtraAside
    <3> QED
      BY <2>0, <2>10, <2>a, <2>f, <3>1, <3>2 DEF Restore!ExtraAside
  <2>11. CASE Restore!ExtraWrite
    <3>1. extra' \in [Extras -> F]
      <4>1. \A e \in Extras : extra[e] \in F /\ [extra[e] EXCEPT !.here = "archive"] \in F
        BY <2>0 DEF F
      <4> QED
        BY <2>0, <2>11, <4>1 DEF Restore!ExtraWrite
    <3> QED
      BY <2>0, <2>11, <2>a, <2>f, <3>1 DEF Restore!ExtraWrite
  <2>12. CASE Restore!Crash
    BY <2>0, <2>12, <2>a, <2>e DEF Restore!Crash
  <2>13. CASE Restore!DaemonLocks
    <3>1. daemon' \in D
      BY <2>0, <2>13 DEF Restore!DaemonLocks, D
    <3> QED
      BY <2>0, <2>13, <2>a, <3>1 DEF Restore!DaemonLocks
  <2>14. CASE Restore!DaemonOpens
    <3>1. PICK s \in S : /\ db' = [db EXCEPT ![Restore!Live] = s] /\ wal' = [wal EXCEPT ![Restore!Live] = s]
                         /\ daemon' = [at |-> "up", store |-> s]
      BY <2>1, <2>3, <2>14, <2>d DEF Restore!DaemonOpens
    <3>2. daemon' \in D
      BY <3>1 DEF D
    <3>3. mixed' \in BOOLEAN
      BY <2>0, <2>14 DEF Restore!DaemonOpens
    <3> QED
      BY <2>0, <2>14, <2>a, <2>b, <3>1, <3>2, <3>3 DEF Restore!DaemonOpens
  <2>15. CASE Restore!DaemonEnds
    <3>1. daemon' \in D
      BY <2>1, <2>15 DEF Restore!DaemonEnds, D
    <3>2. wal' \in [Restore!Places -> S]
      BY <2>0, <2>1, <2>15, <2>b DEF Restore!DaemonEnds
    <3> QED
      BY <2>0, <2>15, <2>a, <3>1, <3>2 DEF Restore!DaemonEnds
  <2>16. CASE UNCHANGED Restore!vars
    BY <2>0, <2>16, <2>a DEF Restore!vars
  <2> QED
    BY <2>4, <2>5, <2>6, <2>7, <2>8, <2>9, <2>10, <2>11, <2>12, <2>13, <2>14, <2>15, <2>16 DEF Restore!Next, Restore!RestoreStep
<1>3. RestoreTyped => Restore!TypeOK
  BY DEF RestoreTyped
<1> QED
  BY <1>1, <1>2, <1>3, RunInduction, PTL DEF Restore!Spec

-----------------------------------------------------------------------------
(* GitSync: the one draft of the poll loop. *)

CONSTANTS Keys, Vals, Unparsed, Human, RequireSigned, FetchFails,
          MaxRevs, MaxDrafts, MaxHuman, MaxRestarts

VARIABLES revs, live, drafts, poll, lastRev, lastPlan, issue, staged, actions, restarts

Git == INSTANCE GitSync

Ops == SUBSET (Keys \X Vals)
DraftRows == [st : {"draft", "applied", "discarded"}, ops : Ops, edited : BOOLEAN]
Polls == [at : {"idle", "fetched", "planned", "listed"}, rev : Nat, ops : Ops, open : Nat]

GitShape ==
  /\ revs \in Seq(Git!Docs) /\ Len(revs) > 0
  /\ drafts \in Seq(DraftRows)
  /\ poll \in Polls
  /\ poll.at # "idle" => poll.rev \in 1 .. Len(revs)

\* What a cycle listed may be closed since, but nothing is opened behind it.
ListedIsCurrent ==
  poll.at = "listed" =>
    /\ poll.open = 0 => \A d \in DOMAIN drafts : drafts[d].st # "draft"
    /\ poll.open # 0 => poll.open \in DOMAIN drafts

\* The op is in revision r, which was signed as required and parses.
FromGood(op, r) == Git!Good(r) /\ revs[r].doc[op[1]] = op[2]

PlanFromGood ==
  poll.at \in {"planned", "listed"} => \A op \in poll.ops : FromGood(op, poll.rev)

DraftInv == GitShape /\ ListedIsCurrent /\ PlanFromGood /\ Git!OneOpenDraft /\ Git!StagedFromGood

GitSetting == Git!GitSyncAssumption

\* A push adds a revision and leaves the earlier ones.
LEMMA PushKeeps ==
    ASSUME GitShape, NEW doc \in Git!Specs \cup {Unparsed}, NEW signed \in BOOLEAN, Git!Push(doc, signed)
    PROVE  /\ revs' \in Seq(Git!Docs) /\ Len(revs') = Len(revs) + 1
           /\ \A r \in 1 .. Len(revs) : r \in 1 .. Len(revs') /\ revs'[r] = revs[r]
BY DEF GitShape, Polls, Git!Push, Git!Docs, Git!Specs

\* Every step of the sync, of the humans and of the repository keeps it.
LEMMA DraftInduction ==
    ASSUME GitSetting
    PROVE  Git!Spec => []DraftInv
<1> USE DEF GitSetting, Git!GitSyncAssumption
<1>1. Git!Init => DraftInv
  <2> SUFFICES ASSUME Git!Init PROVE DraftInv
    OBVIOUS
  <2>1. revs \in Seq(Git!Docs)
    BY DEF Git!Init, Git!Docs
  <2>2. drafts = <<>> /\ DOMAIN drafts = {}
    BY DEF Git!Init
  <2>3. GitShape
    BY <2>1, <2>2 DEF Git!Init, Git!Idle, GitShape, Polls, Ops
  <2> QED
    BY <2>2, <2>3 DEF Git!Init, Git!Idle, DraftInv, ListedIsCurrent, PlanFromGood, Git!OneOpenDraft, Git!StagedFromGood
<1>2. DraftInv /\ [Git!Next]_(Git!vars) => DraftInv'
  <2> SUFFICES ASSUME DraftInv, [Git!Next]_(Git!vars) PROVE DraftInv'
    OBVIOUS
  <2>0. Len(revs) \in Nat /\ Len(drafts) \in Nat /\ DOMAIN drafts = 1 .. Len(drafts) /\ DOMAIN revs = 1 .. Len(revs)
    BY DEF DraftInv, GitShape, Polls
  <2>d. \A d \in DOMAIN drafts : drafts[d] \in DraftRows
    BY <2>0 DEF DraftInv, GitShape
  \* A step of the poll loop that writes no draft.
  <2>a. ASSUME UNCHANGED <<revs, drafts>>, GitShape', ListedIsCurrent', PlanFromGood'
        PROVE  DraftInv'
    BY <2>a DEF DraftInv, Git!OneOpenDraft, Git!StagedFromGood, Git!head, Git!Good, Git!Verified, Git!Parses
  <2>b. ASSUME UNCHANGED <<revs, drafts>>, poll' = Git!Idle
        PROVE  DraftInv'
    <3>1. GitShape' /\ ListedIsCurrent' /\ PlanFromGood'
      BY <2>b DEF DraftInv, GitShape, Polls, ListedIsCurrent, PlanFromGood, Git!Idle, Ops
    <3> QED
      BY <2>a, <2>b, <3>1
  <2>1. ASSUME NEW doc \in Git!Specs \cup {Unparsed}, NEW signed \in BOOLEAN, Git!Push(doc, signed)
        PROVE  DraftInv'
    <3>1. /\ revs' \in Seq(Git!Docs) /\ Len(revs') = Len(revs) + 1 /\ UNCHANGED <<drafts, poll>>
          /\ \A r \in 1 .. Len(revs) : r \in 1 .. Len(revs') /\ revs'[r] = revs[r]
      BY <2>1, PushKeeps DEF Git!Push, DraftInv
    <3>2. GitShape' /\ ListedIsCurrent'
      BY <2>0, <3>1 DEF DraftInv, GitShape, Polls, ListedIsCurrent
    <3>3. \A op : \A r \in 1 .. Len(revs) : FromGood(op, r) => FromGood(op, r)'
      BY <3>1 DEF FromGood, Git!Good, Git!Verified, Git!Parses
    <3>4. PlanFromGood'
      BY <3>1, <3>3 DEF DraftInv, PlanFromGood, GitShape, Polls
    <3>5. Git!StagedFromGood'
      BY <3>1, <3>3 DEF DraftInv, Git!StagedFromGood, FromGood, Git!head
    <3> QED
      BY <3>1, <3>2, <3>4, <3>5 DEF DraftInv, Git!OneOpenDraft
  \* A step that closes or edits one draft, or none.
  <2>c. ASSUME UNCHANGED <<revs, poll>>, NEW d \in DOMAIN drafts, NEW row \in DraftRows,
               drafts' = [drafts EXCEPT ![d] = row], drafts[d].st = "draft",
               row.edited \/ (row.ops = drafts[d].ops /\ row.edited = drafts[d].edited)
        PROVE  DraftInv'
    <3>1. /\ drafts' \in Seq(DraftRows)
          /\ Len(drafts') = Len(drafts) /\ DOMAIN drafts' = DOMAIN drafts
          /\ drafts'[d] = row /\ \A e \in DOMAIN drafts : e # d => drafts'[e] = drafts[e]
      BY <2>0, <2>c DEF DraftInv, GitShape, Polls
    <3>2. GitShape' /\ PlanFromGood'
      BY <2>c, <3>1 DEF DraftInv, GitShape, Polls, PlanFromGood, FromGood, Git!Good, Git!Verified, Git!Parses
    <3>3. ListedIsCurrent'
      BY <2>c, <3>1 DEF DraftInv, ListedIsCurrent
    <3>4. Git!OneOpenDraft'
      BY <2>c, <3>1 DEF DraftInv, Git!OneOpenDraft
    <3>5. Git!StagedFromGood'
      BY <2>c, <3>1 DEF DraftInv, Git!StagedFromGood, Git!head, Git!Good, Git!Verified, Git!Parses
    <3> QED
      BY <3>2, <3>3, <3>4, <3>5 DEF DraftInv
  <2>2. ASSUME NEW d \in DOMAIN drafts, NEW k \in Keys, NEW v \in Vals, Git!Edit(d, {<<k, v>>})
        PROVE  DraftInv'
    <3>1. {<<k, v>>} \in Ops
      BY DEF Ops
    <3> DEFINE row == [drafts[d] EXCEPT !.ops = {<<k, v>>}, !.edited = TRUE]
    <3>2. row \in DraftRows /\ row.edited = TRUE
      BY <2>d, <3>1 DEF DraftRows
    <3>3. drafts' = [drafts EXCEPT ![d] = row] /\ drafts[d].st = "draft" /\ UNCHANGED <<revs, poll>>
      BY <2>2 DEF Git!Edit, Git!Open
    <3> HIDE DEF row
    <3> QED
      BY <2>c, <3>2, <3>3
  <2>3. ASSUME NEW d \in DOMAIN drafts, Git!Apply(d) \/ Git!Discard(d)
        PROVE  DraftInv'
    <3>1. PICK s \in {"applied", "discarded"} : drafts' = [drafts EXCEPT ![d] = [drafts[d] EXCEPT !.st = s]]
      BY <2>3 DEF Git!Apply, Git!Discard
    <3> DEFINE row == [drafts[d] EXCEPT !.st = s]
    <3>2. row \in DraftRows /\ row.ops = drafts[d].ops /\ row.edited = drafts[d].edited
      BY <2>d DEF DraftRows
    <3>3. drafts' = [drafts EXCEPT ![d] = row] /\ drafts[d].st = "draft" /\ UNCHANGED <<revs, poll>>
      BY <2>3, <3>1 DEF Git!Apply, Git!Discard, Git!Open
    <3> HIDE DEF row
    <3> QED
      BY <2>c, <3>2, <3>3
  <2>4. CASE UNCHANGED <<revs, drafts, poll>>
    BY <2>4, <2>a DEF DraftInv, GitShape, Polls, ListedIsCurrent, PlanFromGood, FromGood, Git!Good, Git!Verified, Git!Parses
  <2>5. CASE Git!Fetch
    <3>1. poll'.at = "fetched" /\ poll'.rev = Len(revs) /\ poll'.ops = {} /\ poll'.open = 0 /\ UNCHANGED <<revs, drafts>>
          /\ poll' \in Polls
      BY <2>0, <2>5 DEF Git!Fetch, Git!Idle, Git!head, Ops, Polls
    <3>2. Len(revs) > 0
      BY DEF DraftInv, GitShape, Polls
    <3> QED
      BY <2>0, <2>a, <3>1, <3>2 DEF DraftInv, GitShape, Polls, ListedIsCurrent, PlanFromGood
  <2>6. CASE Git!Plan
    <3>1. /\ UNCHANGED <<revs, drafts>> /\ poll.at = "fetched" /\ poll'.at = "planned"
          /\ poll'.rev = poll.rev /\ poll'.open = poll.open /\ poll'.ops = Git!Import(revs[poll.rev].doc, live)
          /\ poll' = [poll EXCEPT !.at = "planned", !.ops = Git!Import(revs[poll.rev].doc, live)]
          /\ Git!Good(poll.rev)
      BY <2>6 DEF Git!Plan, DraftInv, GitShape, Polls, Git!Refused, Git!Good
    <3>2. poll.rev \in 1 .. Len(revs) /\ revs[poll.rev].doc \in Git!Specs
      <4>1. poll.rev \in 1 .. Len(revs) /\ revs[poll.rev] \in Git!Docs
        BY <3>1 DEF DraftInv, GitShape, Polls
      <4> QED
        BY <3>1, <4>1 DEF Git!Good, Git!Parses, Git!Docs
    <3>3. Git!Import(revs[poll.rev].doc, live) \in Ops
          /\ \A op \in Git!Import(revs[poll.rev].doc, live) : revs[poll.rev].doc[op[1]] = op[2]
      BY <3>2 DEF Git!Import, Ops, Git!Specs
    <3>4. GitShape'
      BY <3>1, <3>2, <3>3 DEF DraftInv, GitShape, Polls
    <3>5. PlanFromGood'
      BY <3>1, <3>3 DEF PlanFromGood, FromGood, Git!Good, Git!Verified, Git!Parses
    <3> QED
      BY <2>a, <3>1, <3>4, <3>5 DEF ListedIsCurrent
  <2>7. CASE Git!List
    <3>1. /\ UNCHANGED <<revs, drafts>> /\ poll.at = "planned" /\ poll'.at = "listed"
          /\ poll'.rev = poll.rev /\ poll'.open = Git!OpenDraft /\ poll'.ops = poll.ops
          /\ poll' = [poll EXCEPT !.at = "listed", !.open = Git!OpenDraft]
      BY <2>7 DEF Git!List, DraftInv, GitShape, Polls
    <3>0. PlanFromGood'
      BY <3>1 DEF DraftInv, PlanFromGood, FromGood, Git!Good, Git!Verified, Git!Parses
    <3>2. CASE \E d \in DOMAIN drafts : Git!Open(d)
      <4>1. PICK d \in DOMAIN drafts : Git!Open(d)
        BY <3>2
      <4>2. \A e \in DOMAIN drafts : Git!Open(e) => e <= d
        BY <2>0, <4>1 DEF DraftInv, Git!OneOpenDraft, Git!Open
      <4>3. Git!OpenDraft \in DOMAIN drafts
        BY <3>2, <4>1, <4>2 DEF Git!OpenDraft
      <4>4. GitShape' /\ ListedIsCurrent'
        <5>1. Git!OpenDraft \in Nat /\ poll \in Polls /\ poll.rev \in 1 .. Len(revs)
          BY <2>0, <3>1, <4>3 DEF DraftInv, GitShape
        <5>2. poll' \in Polls
          BY <3>1, <5>1 DEF Polls
        <5> QED
          BY <3>1, <4>3, <5>1, <5>2 DEF DraftInv, GitShape, ListedIsCurrent
      <4> QED
        BY <2>a, <3>0, <3>1, <4>4
    <3>3. CASE ~ \E d \in DOMAIN drafts : Git!Open(d)
      <4>1. Git!OpenDraft = 0
        BY <3>3 DEF Git!OpenDraft
      <4>2. GitShape'
        <5>1. Git!OpenDraft \in Nat /\ poll \in Polls /\ poll.rev \in 1 .. Len(revs)
          BY <3>1, <4>1 DEF DraftInv, GitShape
        <5>2. poll' \in Polls
          BY <3>1, <5>1 DEF Polls
        <5> QED
          BY <3>1, <5>1, <5>2 DEF DraftInv, GitShape
      <4>3. ListedIsCurrent'
        BY <3>1, <3>3, <4>1 DEF ListedIsCurrent, Git!Open
      <4> QED
        BY <2>a, <3>0, <3>1, <4>2, <4>3
    <3> QED
      BY <3>2, <3>3
  <2>8. CASE Git!Create
    <3> DEFINE row == [st |-> "draft", ops |-> poll.ops, edited |-> FALSE]
    <3>1. /\ poll.at = "listed" /\ poll.open = 0 /\ UNCHANGED revs /\ poll' = Git!Idle
          /\ drafts' = Append(drafts, row)
      BY <2>8 DEF Git!Create
    <3>2. row \in DraftRows /\ row.ops = poll.ops /\ row.st = "draft"
      BY DEF DraftRows, DraftInv, GitShape, Polls
    <3> HIDE DEF row
    <3>3. /\ drafts' \in Seq(DraftRows) /\ DOMAIN drafts' = 1 .. Len(drafts) + 1
          /\ drafts'[Len(drafts) + 1] = row /\ \A e \in DOMAIN drafts : drafts'[e] = drafts[e]
      BY <2>0, <3>1, <3>2 DEF DraftInv, GitShape
    <3>4. \A d \in DOMAIN drafts : drafts[d].st # "draft"
      BY <3>1 DEF DraftInv, ListedIsCurrent
    <3>5. GitShape' /\ ListedIsCurrent' /\ PlanFromGood'
      BY <3>1, <3>3 DEF DraftInv, GitShape, ListedIsCurrent, PlanFromGood, Git!Idle, Ops, Polls
    <3>6. Git!OneOpenDraft'
      <4>1. \A d \in DOMAIN drafts' : drafts'[d].st = "draft" => d = Len(drafts) + 1
        BY <2>0, <3>3, <3>4
      <4> QED
        BY <4>1 DEF Git!OneOpenDraft
    <3>7. \A op \in poll.ops : \E r \in 1 .. Git!head : Git!Good(r) /\ revs[r].doc[op[1]] = op[2]
      BY <3>1 DEF DraftInv, PlanFromGood, FromGood, GitShape, Git!head
    <3>8. Git!StagedFromGood'
      <4>1. \A d \in DOMAIN drafts' : \A op : ~drafts'[d].edited /\ op \in drafts'[d].ops =>
                \E r \in 1 .. Git!head : Git!Good(r) /\ revs[r].doc[op[1]] = op[2]
        BY <2>0, <3>2, <3>3, <3>7 DEF DraftInv, Git!StagedFromGood
      <4> QED
        BY <3>1, <4>1 DEF Git!StagedFromGood, Git!head, Git!Good, Git!Verified, Git!Parses
    <3> QED
      BY <3>5, <3>6, <3>8 DEF DraftInv
  <2>9. CASE Git!Update
    <3>1. CASE ~Git!Open(poll.open)
      BY <2>9, <2>b, <3>1 DEF Git!Update
    <3>2. CASE Git!Open(poll.open)
      <4> DEFINE d == poll.open
                 row == [drafts[d] EXCEPT !.ops = poll.ops, !.edited = FALSE]
      <4>1. /\ poll.at = "listed" /\ UNCHANGED revs /\ poll' = Git!Idle
            /\ drafts' = [drafts EXCEPT ![d] = row]
        BY <2>9, <3>2 DEF Git!Update, Git!Rewritten
      <4>2. d \in DOMAIN drafts
        BY <2>9 DEF Git!Update, DraftInv, ListedIsCurrent
      <4>3. row \in DraftRows /\ row.ops = poll.ops /\ row.st = drafts[d].st
        <5>1. poll.ops \in Ops
          BY DEF DraftInv, GitShape, Polls
        <5> QED
          BY <2>d, <4>2, <5>1 DEF DraftRows
      <4> HIDE DEF row
      <4>4. /\ drafts' \in Seq(DraftRows) /\ DOMAIN drafts' = DOMAIN drafts
            /\ drafts'[d] = row /\ \A e \in DOMAIN drafts : e # d => drafts'[e] = drafts[e]
        BY <2>0, <4>1, <4>2, <4>3 DEF DraftInv, GitShape
      <4>5. GitShape' /\ ListedIsCurrent' /\ PlanFromGood'
        BY <4>1, <4>4 DEF DraftInv, GitShape, ListedIsCurrent, PlanFromGood, Git!Idle, Ops, Polls
      <4>6. Git!OneOpenDraft'
        BY <4>3, <4>4 DEF DraftInv, Git!OneOpenDraft
      <4>7. \A op \in poll.ops : \E r \in 1 .. Git!head : Git!Good(r) /\ revs[r].doc[op[1]] = op[2]
        BY <4>1 DEF DraftInv, PlanFromGood, FromGood, GitShape, Git!head
      <4>8. Git!StagedFromGood'
        <5>1. \A e \in DOMAIN drafts' : \A op : ~drafts'[e].edited /\ op \in drafts'[e].ops =>
                  \E r \in 1 .. Git!head : Git!Good(r) /\ revs[r].doc[op[1]] = op[2]
          BY <4>3, <4>4, <4>7 DEF DraftInv, Git!StagedFromGood
        <5> QED
          BY <4>1, <5>1 DEF Git!StagedFromGood, Git!head, Git!Good, Git!Verified, Git!Parses
      <4> QED
        BY <4>5, <4>6, <4>8 DEF DraftInv
    <3> QED
      BY <3>1, <3>2
  <2>10. CASE Git!FetchFailed \/ Git!Skip \/ Git!Converged \/ Git!Keep \/ Git!Restart
    BY <2>10, <2>b DEF Git!FetchFailed, Git!Skip, Git!Converged, Git!Keep, Git!Restart
  <2>11. ASSUME NEW k, NEW v, Git!Drift(k, v)
         PROVE  DraftInv'
    BY <2>4, <2>11 DEF Git!Drift
  <2> QED
    BY <2>1, <2>2, <2>3, <2>4, <2>5, <2>6, <2>7, <2>8, <2>9, <2>10, <2>11
    DEF Git!Next, Git!HumanStep, Git!Cycle, Git!Reconcile, Git!vars
<1> QED
  BY <1>1, <1>2, PTL DEF Git!Spec

\* The sync never has two drafts open, whatever humans do between its list of
\* the drafts and its write (openSyncChangeset, reconcile), over restarts that
\* make it forget the revision it reconciled.
THEOREM OneDraft ==
    ASSUME GitSetting
    PROVE  Git!Spec => []Git!OneOpenDraft
<1>1. DraftInv => Git!OneOpenDraft
  BY DEF DraftInv
<1> QED
  BY <1>1, DraftInduction, PTL

\* Every op of a draft that no human edited is in a revision that was signed
\* as required and that parses, also when several cycles wrote the draft and
\* the ref has moved on since.
THEOREM DraftsFromGood ==
    ASSUME GitSetting
    PROVE  Git!Spec => []Git!StagedFromGood
<1>1. DraftInv => Git!StagedFromGood
  BY DEF DraftInv
<1> QED
  BY <1>1, DraftInduction, PTL

\* DraftFollowsRef: the two together, whatever people do to the draft and
\* whenever the daemon restarts.
THEOREM DraftsFollow ==
    ASSUME GitSetting
    PROVE  Git!Spec => []Git!DraftFollowsRef
<1>1. DraftInv => Git!DraftFollowsRef
  BY DEF DraftInv, Git!DraftFollowsRef
<1> QED
  BY <1>1, DraftInduction, PTL

\* The draft that is open carries the plan the sync remembers, as long as no
\* human edits drafts: what Keep leaves unwritten is already there.
RememberedIsStaged ==
  lastPlan \notin {Git!NoPlan, {}} =>
    \A d \in DOMAIN drafts : drafts[d].st = "draft" => drafts[d].ops = lastPlan

\* The fingerprint at the start is that of no plan.
LEMMA NoPlanIsNone == ASSUME NEW p \in Ops PROVE p # Git!NoPlan
<1>1. SUFFICES ASSUME p = Git!NoPlan PROVE FALSE
  OBVIOUS
<1>2. <<>> \in Keys \X Vals
  BY <1>1 DEF Git!NoPlan, Ops
<1>3. PICK k \in Keys, v \in Vals : <<>> = <<k, v>>
  BY <1>2
<1>4. Len(<<k, v>>) = 2 /\ Len(<<>>) = 0
  OBVIOUS
<1> QED
  BY <1>3, <1>4

\* A cycle that goes through with a revision leaves its plan, and nothing else, in
\* the draft it found or opened (reconcile, service.go), also when the plan is the
\* remembered one and nothing is written; for drafts that humans apply and discard
\* but do not edit.
THEOREM PlansAreStaged ==
    ASSUME GitSetting, "edit" \notin Human
    PROVE  Git!Spec => [][Git!PlanIsStaged]_(Git!vars)
<1>1. Git!Init => RememberedIsStaged
  BY DEF Git!Init, RememberedIsStaged
<1>2. DraftInv /\ RememberedIsStaged /\ [Git!Next]_(Git!vars) => RememberedIsStaged'
  <2> SUFFICES ASSUME DraftInv, RememberedIsStaged, [Git!Next]_(Git!vars) PROVE RememberedIsStaged'
    OBVIOUS
  <2>0. /\ Len(drafts) \in Nat /\ DOMAIN drafts = 1 .. Len(drafts) /\ drafts \in Seq(DraftRows) /\ poll \in Polls
        /\ \A d \in DOMAIN drafts : drafts[d] \in DraftRows
    BY DEF DraftInv, GitShape
  <2>a. ASSUME UNCHANGED <<drafts, lastPlan>> PROVE RememberedIsStaged'
    BY <2>a DEF RememberedIsStaged
  <2>1. ASSUME NEW d \in DOMAIN drafts, Git!Apply(d) \/ Git!Discard(d) PROVE RememberedIsStaged'
    <3>1. PICK s \in {"applied", "discarded"} : drafts' = [drafts EXCEPT ![d] = [drafts[d] EXCEPT !.st = s]]
      BY <2>1 DEF Git!Apply, Git!Discard
    <3> DEFINE row == [drafts[d] EXCEPT !.st = s]
    <3>2. row.st = s
      BY <2>0 DEF DraftRows
    <3>3. drafts' = [drafts EXCEPT ![d] = row] /\ UNCHANGED lastPlan
      BY <2>1, <3>1 DEF Git!Apply, Git!Discard, Git!memory
    <3> HIDE DEF row
    <3>4. DOMAIN drafts' = DOMAIN drafts /\ drafts'[d] = row /\ \A e \in DOMAIN drafts : e # d => drafts'[e] = drafts[e]
      BY <2>0, <3>3
    <3>5. \A e \in DOMAIN drafts : drafts'[e].st = "draft" => drafts'[e] = drafts[e]
      BY <3>2, <3>4
    <3> QED
      BY <3>3, <3>4, <3>5 DEF RememberedIsStaged
  <2>2. ASSUME NEW d, NEW ops, Git!Edit(d, ops) PROVE FALSE
    BY <2>2 DEF Git!Edit, Git!Act
  <2>3. CASE Git!Create
    <3> DEFINE row == [st |-> "draft", ops |-> poll.ops, edited |-> FALSE]
    <3>1. drafts' = Append(drafts, row) /\ lastPlan' = poll.ops /\ poll.at = "listed" /\ poll.open = 0
      BY <2>3 DEF Git!Create, Git!Remember
    <3>2. row \in DraftRows /\ row.ops = poll.ops
      BY <2>0 DEF DraftRows, Polls
    <3> HIDE DEF row
    <3>3. /\ DOMAIN drafts' = 1 .. Len(drafts) + 1 /\ drafts'[Len(drafts) + 1] = row
          /\ \A e \in DOMAIN drafts : drafts'[e] = drafts[e]
      BY <2>0, <3>1, <3>2
    <3>4. \A e \in DOMAIN drafts : drafts[e].st # "draft"
      BY <3>1 DEF DraftInv, ListedIsCurrent
    <3>5. \A e \in DOMAIN drafts' : drafts'[e].st = "draft" => e = Len(drafts) + 1
      BY <2>0, <3>3, <3>4
    <3> QED
      BY <3>1, <3>2, <3>3, <3>5 DEF RememberedIsStaged
  <2>4. CASE Git!Update
    <3>1. CASE ~Git!Open(poll.open)
      BY <2>4, <2>a, <3>1 DEF Git!Update, Git!Remember
    <3>2. CASE Git!Open(poll.open)
      <4> DEFINE d == poll.open
                 row == [drafts[d] EXCEPT !.ops = poll.ops, !.edited = FALSE]
      <4>1. drafts' = [drafts EXCEPT ![d] = row] /\ lastPlan' = poll.ops
        BY <2>4, <3>2 DEF Git!Update, Git!Rewritten, Git!Remember
      <4>2. d \in DOMAIN drafts /\ drafts[d].st = "draft"
        BY <2>4, <3>2 DEF Git!Update, Git!Open, DraftInv, ListedIsCurrent
      <4>3. row.ops = poll.ops
        BY <2>0, <4>2 DEF DraftRows
      <4> HIDE DEF row
      <4>4. DOMAIN drafts' = DOMAIN drafts /\ drafts'[d] = row /\ \A e \in DOMAIN drafts : e # d => drafts'[e] = drafts[e]
        BY <2>0, <4>1, <4>2
      <4>5. \A e \in DOMAIN drafts : e # d => drafts[e].st # "draft"
        BY <4>2 DEF DraftInv, Git!OneOpenDraft
      <4> QED
        BY <4>1, <4>3, <4>4, <4>5 DEF RememberedIsStaged
    <3> QED
      BY <3>1, <3>2
  <2>5. CASE Git!Converged
    BY <2>5 DEF Git!Converged, Git!Remember, RememberedIsStaged
  <2>6. CASE Git!Keep
    BY <2>6, <2>a DEF Git!Keep, Git!Remember
  <2>7. CASE Git!Restart
    BY <2>7 DEF Git!Restart, RememberedIsStaged
  <2>8. CASE Git!Fetch \/ Git!FetchFailed \/ Git!Skip \/ Git!Plan \/ Git!List
    BY <2>8, <2>a DEF Git!Fetch, Git!FetchFailed, Git!Skip, Git!Plan, Git!List, Git!memory
  <2>9. ASSUME NEW doc, NEW signed, Git!Push(doc, signed) PROVE RememberedIsStaged'
    BY <2>9, <2>a DEF Git!Push, Git!memory
  <2>10. ASSUME NEW k, NEW v, Git!Drift(k, v) PROVE RememberedIsStaged'
    BY <2>10, <2>a DEF Git!Drift, Git!memory
  <2>11. CASE UNCHANGED Git!vars
    BY <2>11, <2>a DEF Git!vars
  <2> QED
    BY <2>1, <2>2, <2>3, <2>4, <2>5, <2>6, <2>7, <2>8, <2>9, <2>10, <2>11
    DEF Git!Next, Git!HumanStep, Git!Cycle, Git!Reconcile
<1>3. DraftInv /\ RememberedIsStaged /\ [Git!Next]_(Git!vars) => [Git!PlanIsStaged]_(Git!vars)
  <2> SUFFICES ASSUME DraftInv, RememberedIsStaged, Git!Reconcile, poll.ops # {},
                      NEW d, d = IF poll.open = 0 THEN Len(drafts') ELSE poll.open, drafts'[d].st = "draft"
               PROVE  drafts'[d].ops = poll.ops
    BY DEF Git!PlanIsStaged
  <2>0. /\ Len(drafts) \in Nat /\ DOMAIN drafts = 1 .. Len(drafts) /\ drafts \in Seq(DraftRows) /\ poll \in Polls
        /\ \A e \in DOMAIN drafts : drafts[e] \in DraftRows
    BY DEF DraftInv, GitShape
  <2>1. CASE Git!Converged
    BY <2>1 DEF Git!Converged
  <2>2. CASE Git!Create
    <3> DEFINE row == [st |-> "draft", ops |-> poll.ops, edited |-> FALSE]
    <3>1. drafts' = Append(drafts, row) /\ poll.open = 0
      BY <2>2 DEF Git!Create
    <3>2. row \in DraftRows /\ row.ops = poll.ops
      BY <2>0 DEF DraftRows, Polls
    <3> HIDE DEF row
    <3> QED
      BY <2>0, <3>1, <3>2
  <2>3. CASE Git!Keep
    <3>1. drafts' = drafts /\ poll.ops = lastPlan /\ d = poll.open /\ d \in DOMAIN drafts
      BY <2>3 DEF Git!Keep, DraftInv, ListedIsCurrent
    <3>2. lastPlan # Git!NoPlan
      BY <2>0, <3>1, NoPlanIsNone DEF Polls
    <3> QED
      BY <3>1, <3>2 DEF RememberedIsStaged
  <2>4. CASE Git!Update
    <3>1. d = poll.open /\ d \in DOMAIN drafts
      BY <2>4 DEF Git!Update, DraftInv, ListedIsCurrent
    <3>2. CASE ~Git!Open(poll.open)
      BY <2>4, <3>1, <3>2 DEF Git!Update, Git!Open
    <3>3. CASE Git!Open(poll.open)
      <4> DEFINE row == [drafts[d] EXCEPT !.ops = poll.ops, !.edited = FALSE]
      <4>1. drafts' = [drafts EXCEPT ![d] = row]
        BY <2>4, <3>1, <3>3 DEF Git!Update, Git!Rewritten
      <4>2. row.ops = poll.ops
        BY <2>0, <3>1 DEF DraftRows
      <4> HIDE DEF row
      <4> QED
        BY <2>0, <3>1, <4>1, <4>2
    <3> QED
      BY <3>2, <3>3
  <2> QED
    BY <2>1, <2>2, <2>3, <2>4 DEF Git!Reconcile
<1> QED
  BY <1>1, <1>2, <1>3, DraftInduction, PTL DEF Git!Spec

\* A plan names an entity once, whatever state it starts from.
LEMMA ImportIsPlan ==
    ASSUME NEW s \in Git!Specs, NEW state
    PROVE  Git!Import(s, state) \in Git!Plans
<1>1. Git!Import(s, state) \in SUBSET (Keys \X Vals)
  BY DEF Git!Import, Git!Specs
<1>2. \A o1, o2 \in Git!Import(s, state) : o1[1] = o2[1] => o1 = o2
  BY DEF Git!Import
<1> QED
  BY <1>1, <1>2 DEF Git!Plans

\* The one op of an edit, and no op, are plans.
LEMMA SmallPlans ==
    /\ {} \in Git!Plans
    /\ \A k \in Keys, v \in Vals : {<<k, v>>} \in Git!Plans
BY DEF Git!Plans

PlanRows == [st : {"draft", "applied", "discarded"}, ops : Git!Plans, edited : BOOLEAN]
PlanPolls == [at : {"idle", "fetched", "planned", "listed"}, rev : 0 .. MaxRevs, ops : Git!Plans, open : 0 .. MaxDrafts]

\* GitSync's TypeOK: every plan in a draft, in a cycle or remembered names an
\* entity once, and the sync never names a draft or a revision that does not exist.
THEOREM GitTypes ==
    ASSUME GitSetting
    PROVE  Git!Spec => []Git!TypeOK
<1>0. MaxRevs \in Nat /\ MaxDrafts \in Nat /\ MaxHuman \in Nat /\ MaxRestarts \in Nat /\ MaxRevs > 0
  BY DEF GitSetting, Git!GitSyncAssumption
<1>1. Git!Init => Git!TypeOK
  <2> SUFFICES ASSUME Git!Init PROVE Git!TypeOK
    OBVIOUS
  <2>1. PICK s \in Git!Specs : live = s /\ revs = <<[doc |-> s, signed |-> TRUE]>>
    BY DEF Git!Init
  <2>2. [doc |-> s, signed |-> TRUE] \in Git!Docs
    BY DEF Git!Docs
  <2>3. revs \in Seq(Git!Docs) /\ Len(revs) = 1
    BY <2>1, <2>2
  <2>4. poll \in PlanPolls
    BY <1>0, SmallPlans DEF Git!Init, Git!Idle, PlanPolls
  <2>5. drafts \in Seq(PlanRows) /\ Len(drafts) = 0
    BY DEF Git!Init
  <2>6. lastRev = 0 /\ lastPlan = {<<>>} /\ issue = 0 /\ staged = {} /\ actions = 0 /\ restarts = 0
    BY DEF Git!Init, Git!NoPlan
  <2> QED
    BY <1>0, <2>1, <2>3, <2>4, <2>5, <2>6 DEF Git!TypeOK, Git!head, PlanPolls, PlanRows
<1>2. DraftInv /\ Git!TypeOK /\ [Git!Next]_(Git!vars) => Git!TypeOK'
  <2> SUFFICES ASSUME DraftInv, Git!TypeOK, [Git!Next]_(Git!vars) PROVE Git!TypeOK'
    OBVIOUS
  <2>0. /\ revs \in Seq(Git!Docs) /\ Len(revs) \in Nat /\ Len(revs) <= MaxRevs /\ Len(revs) > 0 /\ live \in Git!Specs
        /\ drafts \in Seq(PlanRows) /\ Len(drafts) \in Nat /\ Len(drafts) <= MaxDrafts /\ DOMAIN drafts = 1 .. Len(drafts)
        /\ poll \in PlanPolls
        /\ lastRev \in 0 .. MaxRevs /\ lastPlan \in Git!Plans \cup {{<<>>}}
        /\ issue \in 0 .. MaxDrafts /\ staged \subseteq 1 .. MaxRevs
        /\ actions \in 0 .. MaxHuman /\ restarts \in 0 .. MaxRestarts
        /\ \A d \in DOMAIN drafts : drafts[d] \in PlanRows
    <3>1. /\ revs \in Seq(Git!Docs) /\ Len(revs) <= MaxRevs /\ live \in Git!Specs
          /\ drafts \in Seq(PlanRows) /\ Len(drafts) <= MaxDrafts
          /\ lastRev \in 0 .. MaxRevs /\ lastPlan \in Git!Plans \cup {{<<>>}}
          /\ issue \in 0 .. MaxDrafts /\ staged \subseteq 1 .. MaxRevs
          /\ actions \in 0 .. MaxHuman /\ restarts \in 0 .. MaxRestarts
      BY DEF Git!TypeOK, Git!head, PlanRows
    <3>2. poll \in PlanPolls
      BY DEF Git!TypeOK, PlanPolls
    <3>3. Len(revs) > 0
      BY DEF DraftInv, GitShape
    <3> HIDE DEF PlanRows, PlanPolls
    <3>4. Len(revs) \in Nat /\ Len(drafts) \in Nat /\ DOMAIN drafts = 1 .. Len(drafts)
          /\ \A d \in DOMAIN drafts : drafts[d] \in PlanRows
      BY <3>1
    <3> QED
      BY <3>1, <3>2, <3>3, <3>4
  <2>1. poll.at # "idle" => poll.rev \in 1 .. MaxRevs
    BY <1>0, <2>0 DEF DraftInv, GitShape
  <2>a. ASSUME revs' \in Seq(Git!Docs), Len(revs') <= MaxRevs, live' \in Git!Specs, drafts' \in Seq(PlanRows),
               Len(drafts') <= MaxDrafts, poll' \in PlanPolls, lastRev' \in 0 .. MaxRevs,
               lastPlan' \in Git!Plans \cup {{<<>>}}, issue' \in 0 .. MaxDrafts, staged' \subseteq 1 .. MaxRevs,
               actions' \in 0 .. MaxHuman, restarts' \in 0 .. MaxRestarts
        PROVE  Git!TypeOK'
    BY <2>a DEF Git!TypeOK, Git!head, PlanRows, PlanPolls
  <2>b. Git!Idle \in PlanPolls
    BY <1>0, SmallPlans DEF Git!Idle, PlanPolls
  <2>2. ASSUME NEW doc \in Git!Specs \cup {Unparsed}, NEW signed \in BOOLEAN, Git!Push(doc, signed)
        PROVE  Git!TypeOK'
    <3>1. /\ revs' \in Seq(Git!Docs) /\ Len(revs') = Len(revs) + 1
      BY <2>2, PushKeeps DEF DraftInv
    <3>2. Len(revs') <= MaxRevs
      BY <1>0, <2>0, <2>2, <3>1 DEF Git!Push, Git!head
    <3> QED
      BY <2>0, <2>2, <2>a, <3>1, <3>2 DEF Git!Push, Git!memory
  <2>c. ASSUME NEW kind, Git!Act(kind) PROVE actions' \in 0 .. MaxHuman
    BY <1>0, <2>0, <2>c DEF Git!Act
  <2>d. ASSUME NEW d \in DOMAIN drafts, NEW row \in PlanRows, drafts' = [drafts EXCEPT ![d] = row]
        PROVE  drafts' \in Seq(PlanRows) /\ Len(drafts') = Len(drafts)
    BY <2>0, <2>d
  <2>3. ASSUME NEW d \in DOMAIN drafts, NEW k \in Keys, NEW v \in Vals, Git!Edit(d, {<<k, v>>})
        PROVE  Git!TypeOK'
    <3> DEFINE row == [drafts[d] EXCEPT !.ops = {<<k, v>>}, !.edited = TRUE]
    <3>1. row \in PlanRows
      BY <2>0, SmallPlans DEF PlanRows
    <3>2. drafts' = [drafts EXCEPT ![d] = row] /\ actions' \in 0 .. MaxHuman
      BY <2>3, <2>c DEF Git!Edit
    <3> HIDE DEF row
    <3>3. drafts' \in Seq(PlanRows) /\ Len(drafts') = Len(drafts)
      BY <2>d, <3>1, <3>2
    <3> QED
      BY <2>0, <2>3, <2>a, <3>2, <3>3 DEF Git!Edit, Git!memory
  <2>4. ASSUME NEW d \in DOMAIN drafts, Git!Apply(d) \/ Git!Discard(d)
        PROVE  Git!TypeOK'
    <3>1. PICK s \in {"applied", "discarded"} : drafts' = [drafts EXCEPT ![d] = [drafts[d] EXCEPT !.st = s]]
      BY <2>4 DEF Git!Apply, Git!Discard
    <3> DEFINE row == [drafts[d] EXCEPT !.st = s]
    <3>2. row \in PlanRows
      BY <2>0 DEF PlanRows
    <3>3. drafts' = [drafts EXCEPT ![d] = row] /\ actions' \in 0 .. MaxHuman
      BY <2>4, <2>c, <3>1 DEF Git!Apply, Git!Discard
    <3> HIDE DEF row
    <3>4. drafts' \in Seq(PlanRows) /\ Len(drafts') = Len(drafts)
      BY <2>d, <3>2, <3>3
    <3>5. live' \in Git!Specs
      <4>1. \A k \in Keys : (IF \E v \in Vals : <<k, v>> \in drafts[d].ops
                             THEN CHOOSE v \in Vals : <<k, v>> \in drafts[d].ops ELSE live[k]) \in Vals
        BY <2>0 DEF Git!Specs
      <4>2. Git!Overlay(live, drafts[d].ops) \in Git!Specs
        BY <4>1 DEF Git!Overlay, Git!Specs
      <4> QED
        BY <2>0, <2>4, <4>2 DEF Git!Apply, Git!Discard
    <3> QED
      BY <2>0, <2>4, <2>a, <3>3, <3>4, <3>5 DEF Git!Apply, Git!Discard, Git!memory
  <2>5. ASSUME NEW k \in Keys, NEW v \in Vals, Git!Drift(k, v) PROVE Git!TypeOK'
    <3>1. live' \in Git!Specs /\ actions' \in 0 .. MaxHuman
      <4>1. live' = [live EXCEPT ![k] = v] /\ Git!Act("drift")
        BY <2>5 DEF Git!Drift
      <4> QED
        BY <2>0, <2>c, <4>1 DEF Git!Specs
    <3> QED
      BY <2>0, <2>5, <2>a, <3>1 DEF Git!Drift, Git!memory
  <2>6. ASSUME UNCHANGED <<revs, live, drafts, lastRev, lastPlan, issue, staged, actions, restarts>>, poll' \in PlanPolls
        PROVE  Git!TypeOK'
    BY <2>0, <2>6, <2>a
  <2>7. CASE Git!Fetch
    <3>1. poll' \in PlanPolls
      <4>1. PICK none \in Git!Plans : none = {}
        BY SmallPlans
      <4>2. poll' = [at |-> "fetched", rev |-> Len(revs), ops |-> none, open |-> 0]
        BY <2>7, <4>1 DEF Git!Fetch, Git!Idle, Git!head
      <4> QED
        BY <1>0, <2>0, <4>2 DEF PlanPolls
    <3> QED
      BY <2>6, <2>7, <3>1 DEF Git!Fetch, Git!memory
  <2>8. CASE Git!FetchFailed \/ Git!Skip
    BY <2>6, <2>8, <2>b DEF Git!FetchFailed, Git!Skip, Git!memory
  <2>9. CASE Git!Plan
    <3>1. revs[poll.rev] \in Git!Docs /\ revs[poll.rev].doc # Unparsed
      BY <2>0, <2>9 DEF Git!Plan, Git!Refused, Git!Parses, DraftInv, GitShape
    <3>2. revs[poll.rev].doc \in Git!Specs
      BY <3>1 DEF Git!Docs
    <3>3. PICK p \in Git!Plans : p = Git!Import(revs[poll.rev].doc, live)
      BY <3>2, ImportIsPlan
    <3>4. poll' \in PlanPolls
      BY <2>0, <2>9, <3>3 DEF Git!Plan, PlanPolls
    <3> QED
      BY <2>6, <2>9, <3>4 DEF Git!Plan, Git!memory
  <2>10. CASE Git!List
    <3>1. Git!OpenDraft \in 0 .. MaxDrafts
      <4>1. CASE \E d \in DOMAIN drafts : Git!Open(d)
        <5>1. PICK d \in DOMAIN drafts : Git!Open(d)
          BY <4>1
        <5>2. \A e \in DOMAIN drafts : Git!Open(e) => e <= d
          BY <2>0, <5>1 DEF DraftInv, Git!OneOpenDraft, Git!Open
        <5>3. Git!OpenDraft \in DOMAIN drafts
          BY <4>1, <5>1, <5>2 DEF Git!OpenDraft
        <5> QED
          BY <1>0, <2>0, <5>3
      <4>2. CASE ~ \E d \in DOMAIN drafts : Git!Open(d)
        BY <1>0, <4>2 DEF Git!OpenDraft
      <4> QED
        BY <4>1, <4>2
    <3>2. PICK o \in 0 .. MaxDrafts : o = Git!OpenDraft
      BY <3>1
    <3>3. poll' \in PlanPolls
      BY <2>0, <2>10, <3>2 DEF Git!List, PlanPolls
    <3> QED
      BY <2>6, <2>10, <3>3 DEF Git!List, Git!memory
  <2>e. poll.rev \in 0 .. MaxRevs /\ poll.ops \in Git!Plans /\ poll.open \in 0 .. MaxDrafts
    BY <2>0 DEF PlanPolls
  \* What every end of a cycle leaves behind.
  <2>f. ASSUME poll.at = "listed", poll' = Git!Idle, UNCHANGED <<revs, live, actions, restarts>>,
               NEW done \in BOOLEAN, Git!Remember(done), Git!Staged(done), issue' \in 0 .. MaxDrafts,
               drafts' \in Seq(PlanRows), Len(drafts') <= MaxDrafts
        PROVE  Git!TypeOK'
    <3>1. lastRev' \in 0 .. MaxRevs /\ lastPlan' \in Git!Plans \cup {{<<>>}}
      BY <2>0, <2>e, <2>f DEF Git!Remember
    <3>2. staged' \subseteq 1 .. MaxRevs
      <4>1. poll.rev \in 1 .. MaxRevs
        BY <2>1, <2>f
      <4>2. staged' = staged \cup {poll.rev} \/ staged' = staged
        BY <2>f DEF Git!Staged
      <4> QED
        BY <2>0, <4>1, <4>2
    <3> QED
      BY <2>0, <2>a, <2>b, <2>f, <3>1, <3>2
  <2>11. CASE Git!Converged \/ Git!Keep
    <3>1. issue' \in 0 .. MaxDrafts
      <4>1. Git!Note(poll.open)
        BY <2>11 DEF Git!Converged, Git!Keep
      <4> QED
        BY <1>0, <2>e, <4>1 DEF Git!Note
    <3> QED
      BY <2>0, <2>11, <2>f, <3>1 DEF Git!Converged, Git!Keep
  <2>12. CASE Git!Create
    <3> DEFINE row == [st |-> "draft", ops |-> poll.ops, edited |-> FALSE]
    <3>1. drafts' = Append(drafts, row) /\ Len(drafts) < MaxDrafts
      BY <2>12 DEF Git!Create
    <3>2. row \in PlanRows
      BY <2>e DEF PlanRows
    <3> HIDE DEF row
    <3>3. drafts' \in Seq(PlanRows) /\ Len(drafts') = Len(drafts) + 1
      BY <2>0, <3>1, <3>2
    <3>4. Len(drafts') <= MaxDrafts /\ Len(drafts) + 1 \in 0 .. MaxDrafts
      BY <1>0, <2>0, <3>1, <3>3
    <3>5. issue' \in 0 .. MaxDrafts
      BY <1>0, <2>12, <3>4 DEF Git!Create, Git!Note
    <3> QED
      BY <2>12, <2>f, <3>3, <3>4, <3>5 DEF Git!Create
  <2>13. CASE Git!Update
    <3>0. poll.open \in DOMAIN drafts
      BY <2>13 DEF Git!Update, DraftInv, ListedIsCurrent
    <3>1. Git!Open(poll.open) \in BOOLEAN
      BY DEF Git!Open
    <3>2. drafts' \in Seq(PlanRows) /\ Len(drafts') <= MaxDrafts
      <4>1. CASE ~Git!Open(poll.open)
        BY <2>0, <2>13, <4>1 DEF Git!Update
      <4>2. CASE Git!Open(poll.open)
        <5> DEFINE row == [drafts[poll.open] EXCEPT !.ops = poll.ops, !.edited = FALSE]
        <5>1. drafts' = [drafts EXCEPT ![poll.open] = row]
          BY <2>13, <4>2 DEF Git!Update, Git!Rewritten
        <5>2. row \in PlanRows
          BY <2>0, <2>e, <3>0 DEF PlanRows
        <5> HIDE DEF row
        <5> QED
          BY <2>0, <2>d, <3>0, <5>1, <5>2
      <4> QED
        BY <4>1, <4>2
    <3>3. issue' \in 0 .. MaxDrafts
      BY <1>0, <2>0, <2>13, <2>e DEF Git!Update, Git!Note
    <3> QED
      BY <2>13, <2>f, <3>1, <3>2, <3>3 DEF Git!Update
  <2>14. CASE Git!Restart
    <3>1. restarts' \in 0 .. MaxRestarts /\ lastRev' \in 0 .. MaxRevs /\ lastPlan' = {<<>>} /\ issue' \in 0 .. MaxDrafts
      BY <1>0, <2>0, <2>14 DEF Git!Restart, Git!NoPlan
    <3> QED
      BY <2>0, <2>14, <2>a, <2>b, <3>1 DEF Git!Restart
  <2>15. CASE UNCHANGED Git!vars
    BY <2>0, <2>15, <2>6 DEF Git!vars
  <2> QED
    BY <2>2, <2>3, <2>4, <2>5, <2>7, <2>8, <2>9, <2>10, <2>11, <2>12, <2>13, <2>14, <2>15
    DEF Git!Next, Git!HumanStep, Git!Cycle, Git!Reconcile
<1> QED
  BY <1>1, <1>2, DraftInduction, PTL DEF Git!Spec

-----------------------------------------------------------------------------
(* PeerClient: coalesced reads and the breaker. *)

CONSTANTS Callers, Readers, Outcomes, Cancels, LocalFaults, Threshold, Reset, Timeout, TTL,
          MaxCalls, MaxTime

VARIABLES now, brk, trust, cache, call, cancelled, begun, unanswered

Client == INSTANCE PeerClient

CallRecords == [at : Client!Working \cup {"idle", "wait", "done"}, began : Nat, probe : BOOLEAN,
                res : Client!Fails \cup {"none", "ok"}, age : Int, via : {"none", "own", "hit", "wait"}]

ClientShape ==
  /\ now \in Nat
  /\ brk \in [state : {"closed", "open", "halfopen"}, openedAt : Nat, fails : Nat]
  /\ cache \in [at : {"none", "flight", "ready"}, start : Nat, res : Client!Fails \cup {"none", "ok"}, expires : Nat]
  /\ call \in [Callers -> CallRecords]
  /\ trust \in {"none", "ok", "unreachable", "untrusted"}

Busy(c) == call[c].at \in Client!Working

\* The entry in flight belongs to the one reader that is at the peer.
OwnerInFlight ==
  /\ \A c \in Readers : Busy(c) => cache.at = "flight" /\ call[c].via = "own"
  /\ \A c, d \in Readers : Busy(c) /\ Busy(d) => c = d

\* A reader's request was issued when its entry was made, and no more than the
\* timeout ago; before it is sent and after its body is read no time passes.
OwnerOnTime ==
  \A c \in Readers : Busy(c) =>
    /\ call[c].at \in {"allow", "refused"} => cache.start = now
    /\ call[c].at \in {"sent", "status", "decode"} => cache.start = call[c].began
    /\ now - cache.start <= Timeout

\* What the cache holds and hands out.
EntryInv ==
  /\ cache.start <= now
  /\ cache.at = "ready" /\ cache.res # "ok" => cache.expires <= cache.start
  /\ cache.at = "ready" => cache.expires <= cache.start + TTL

ViaWait == \A c \in Readers : call[c].at = "wait" => call[c].via = "wait"

ReadInv ==
  /\ ClientShape /\ OwnerInFlight /\ OwnerOnTime /\ EntryInv /\ ViaWait
  /\ Client!FailureOnlyToWaiters
  /\ Timeout <= TTL => Client!AnswerIsFresh

ClientSetting == Client!PeerClientAssumption

\* A request goes on: its entry, its origin and the clock stay.
RequestMove(c) ==
  \E r \in CallRecords :
    /\ UNCHANGED <<now, cache>>
    /\ call' = [call EXCEPT ![c] = r]
    /\ Busy(c) /\ r.at \in Client!Working /\ r.via = call[c].via
    /\ r.at \in {"allow", "refused"} => call[c].at = "allow"
    /\ r.at \in {"sent", "status", "decode"} =>
         \/ call[c].at = "allow" /\ r.began = now
         \/ call[c].at \in {"sent", "status", "decode"} /\ r.began = call[c].began

Requests(c) ==
  \/ Client!Allow(c) \/ Client!Refuse(c) \/ Client!Report(c)
  \/ Client!Answered(c) \/ Client!Unanswered(c) \/ Client!Abandoned(c)
  \/ Client!RecordStatus(c) \/ Client!Decode(c)

\* Every step of Client.do is such a move.
LEMMA RequestMoves ==
    ASSUME ClientSetting, ClientShape, NEW c \in Callers, Requests(c)
    PROVE  RequestMove(c) /\ trust' \in {"none", "ok", "unreachable", "untrusted"}
           /\ brk' \in [state : {"closed", "open", "halfopen"}, openedAt : Nat, fails : Nat]
<1> USE DEF RequestMove, Busy, Client!Working
<1>0. call[c] \in CallRecords /\ call \in [Callers -> CallRecords]
  BY DEF ClientShape
<1>1. CASE Client!Allow(c)
  <2>1. CASE call' = [call EXCEPT ![c] = [@ EXCEPT !.at = "sent", !.began = now, !.probe = brk.state # "closed"]]
    <3> DEFINE r == [call[c] EXCEPT !.at = "sent", !.began = now, !.probe = brk.state # "closed"]
    <3>1. r \in CallRecords /\ r.at = "sent" /\ r.began = now /\ r.via = call[c].via
      BY <1>0 DEF CallRecords, ClientShape
    <3>2. call' = [call EXCEPT ![c] = r]
      BY <2>1
    <3> HIDE DEF r
    <3>3. RequestMove(c)
      BY <1>1, <3>1, <3>2 DEF Client!Allow
    <3> QED
      BY <1>1, <3>3 DEF Client!Allow, ClientShape
  <2>2. CASE call' = [call EXCEPT ![c] = [@ EXCEPT !.at = "finish", !.res = "local"]]
    <3> DEFINE r == [call[c] EXCEPT !.at = "finish", !.res = "local"]
    <3>1. r \in CallRecords /\ r.at = "finish" /\ r.via = call[c].via
      BY <1>0 DEF CallRecords, Client!Fails
    <3>2. call' = [call EXCEPT ![c] = r]
      BY <2>2
    <3> HIDE DEF r
    <3>3. RequestMove(c)
      BY <1>1, <3>1, <3>2 DEF Client!Allow
    <3> QED
      BY <1>1, <3>3 DEF Client!Allow, ClientShape
  <2> QED
    BY <1>1, <2>1, <2>2 DEF Client!Allow
\* The others keep began and move on.
<1>2. ASSUME NEW at \in {"refused", "status", "decode", "finish"}, NEW res \in Client!Fails \cup {"none", "ok"},
             call' = [call EXCEPT ![c] = [@ EXCEPT !.at = at, !.res = res]], UNCHANGED <<now, cache>>,
             call[c].at \in {"allow", "refused", "sent", "status", "decode"},
             at = "refused" => call[c].at = "allow",
             at \in {"status", "decode"} => call[c].at \in {"sent", "status"}
      PROVE  RequestMove(c)
  <2> DEFINE r == [call[c] EXCEPT !.at = at, !.res = res]
  <2>1. r \in CallRecords /\ r.at = at /\ r.via = call[c].via /\ r.began = call[c].began
    BY <1>0 DEF CallRecords
  <2>2. call' = [call EXCEPT ![c] = r]
    BY <1>2
  <2> HIDE DEF r
  <2> QED
    BY <1>2, <2>1, <2>2
<1>3. call[c].res \in Client!Fails \cup {"none", "ok"} /\ [call[c] EXCEPT !.res = call[c].res] = call[c]
  BY <1>0 DEF CallRecords
<1>4. CASE Client!Refuse(c)
  <2>1. call' = [call EXCEPT ![c] = [@ EXCEPT !.at = "refused", !.res = call[c].res]]
    BY <1>0, <1>4 DEF Client!Refuse, CallRecords
  <2> QED
    BY <1>2, <1>3, <1>4, <2>1 DEF Client!Refuse, ClientShape
<1>5. CASE Client!Report(c)
  BY <1>2, <1>5 DEF Client!Report, ClientShape, Client!Fails
<1>6. CASE Client!Answered(c)
  BY <1>2, <1>6 DEF Client!Answered, Client!RecordSuccess, ClientShape, Client!Fails
<1>7. brk' \in [state : {"closed", "open", "halfopen"}, openedAt : Nat, fails : Nat] \/ ~Client!RecordFailure
  BY DEF Client!RecordFailure, ClientShape
<1>8. CASE Client!Unanswered(c)
  <2>1. PICK res \in {"untrusted", "unreachable"} : call' = [call EXCEPT ![c] = [@ EXCEPT !.at = "status", !.res = res]]
    BY <1>8 DEF Client!Unanswered
  <2> QED
    BY <1>2, <1>7, <1>8, <2>1 DEF Client!Unanswered, ClientShape, Client!Fails
<1>9. CASE Client!Abandoned(c)
  BY <1>2, <1>7, <1>9 DEF Client!Abandoned, ClientShape, Client!Fails
<1>10. CASE Client!RecordStatus(c)
  <2>1. PICK at \in {"decode", "finish"} : call' = [call EXCEPT ![c] = [@ EXCEPT !.at = at, !.res = call[c].res]]
    BY <1>0, <1>10 DEF Client!RecordStatus, CallRecords
  <2>2. trust' \in {"ok", "unreachable", "untrusted"}
    BY <1>10 DEF Client!RecordStatus, Client!Verdict
  <2> QED
    BY <1>2, <1>3, <1>10, <2>1, <2>2 DEF Client!RecordStatus, ClientShape
<1>11. CASE Client!Decode(c)
  <2>1. PICK res \in {call[c].res, "error"} : call' = [call EXCEPT ![c] = [@ EXCEPT !.at = "finish", !.res = res]]
    BY <1>0, <1>11 DEF Client!Decode, CallRecords
  <2> QED
    BY <1>2, <1>3, <1>11, <2>1 DEF Client!Decode, ClientShape, Client!Fails
<1> QED
  BY <1>1, <1>4, <1>5, <1>6, <1>8, <1>9, <1>10, <1>11 DEF Requests

EntryAge == now - cache.start

Handed(x, via, res, age) == [x EXCEPT !.at = "done", !.via = via, !.res = res, !.age = age]

IsHanded(r, via, res, age) == r \in CallRecords /\ r.at = "done" /\ r.via = via /\ r.res = res /\ r.age = age

\* What a call hands back is a call record.
LEMMA HandedRecord ==
    \A x \in CallRecords, via \in {"none", "own", "hit", "wait"}, res \in Client!Fails \cup {"none", "ok"}, age \in Int :
      IsHanded(Handed(x, via, res, age), via, res, age)
<1> TAKE x \in CallRecords, via \in {"none", "own", "hit", "wait"}, res \in Client!Fails \cup {"none", "ok"}, age \in Int
<1> QED
  BY DEF CallRecords, Handed, IsHanded

\* The reads of one key, over every interleaving of readers, timeouts and
\* cancelled contexts.
LEMMA ReadInduction ==
    ASSUME ClientSetting
    PROVE  Client!Spec => []ReadInv
<1> USE DEF ClientSetting, Client!PeerClientAssumption
<1>0. Client!Idle \in CallRecords /\ Client!Idle.at = "idle" /\ "idle" \notin Client!Working
      /\ "done" \notin Client!Working /\ "wait" \notin Client!Working
  BY DEF Client!Idle, CallRecords, Client!Working
<1>1. Client!Init => ReadInv
  <2> SUFFICES ASSUME Client!Init PROVE ReadInv
    OBVIOUS
  <2>1. \A c \in Callers : call[c] = Client!Idle
    BY DEF Client!Init
  <2>2. ClientShape
    BY <1>0 DEF Client!Init, ClientShape
  <2> QED
    BY <1>0, <2>1, <2>2 DEF Client!Init, ReadInv, OwnerInFlight, OwnerOnTime, EntryInv, ViaWait, Busy, Client!AnswerIsFresh,
       Client!FailureOnlyToWaiters
<1>2. ReadInv /\ [Client!Next]_(Client!vars) => ReadInv'
  <2> SUFFICES ASSUME ReadInv, [Client!Next]_(Client!vars) PROVE ReadInv'
    OBVIOUS
  <2>0. call \in [Callers -> CallRecords] /\ now \in Nat /\ cache.start \in Nat /\ cache.expires \in Nat
        /\ TTL \in Nat /\ Timeout \in Nat /\ Timeout > 0 /\ Readers \subseteq Callers
        /\ \A c \in Callers : call[c].began \in Nat
    BY DEF ReadInv, ClientShape, CallRecords
  \* Caller c takes the record r; the entry and the clock stay.
  <2>a. ASSUME NEW c \in Callers, NEW r \in CallRecords, call' = [call EXCEPT ![c] = r], UNCHANGED <<now, cache>>,
               ClientShape',
               c \in Readers /\ r.at \in Client!Working =>
                 /\ Busy(c) /\ r.via = call[c].via
                 /\ r.at \in {"allow", "refused"} => cache.start = now
                 /\ r.at \in {"sent", "status", "decode"} => cache.start = r.began,
               c \in Readers /\ r.at = "wait" => r.via = "wait",
               c \in Readers /\ r.at = "done" => (r.res = "ok" => r.age <= TTL) /\ (r.res # "ok" => r.via # "hit")
        PROVE  ReadInv'
    <3>1. /\ call'[c] = r /\ \A d \in Callers : d # c => call'[d] = call[d]
      BY <2>0, <2>a
    <3>2. \A d \in Readers : Busy(d)' => Busy(d) /\ call'[d].via = call[d].via
      BY <2>0, <2>a, <3>1 DEF Busy
    <3>3. OwnerInFlight'
      BY <2>a, <3>2 DEF ReadInv, OwnerInFlight
    <3>4. OwnerOnTime'
      BY <2>0, <2>a, <3>1, <3>2 DEF ReadInv, OwnerOnTime, Busy
    <3>5. EntryInv' /\ ViaWait'
      BY <2>0, <2>a, <3>1 DEF ReadInv, EntryInv, ViaWait
    <3>6. (Timeout <= TTL => Client!AnswerIsFresh)' /\ Client!FailureOnlyToWaiters'
      BY <2>0, <2>a, <3>1 DEF ReadInv, Client!AnswerIsFresh, Client!FailureOnlyToWaiters
    <3> QED
      BY <2>a, <3>3, <3>4, <3>5, <3>6 DEF ReadInv
  <2>1. ASSUME NEW c \in Callers, Requests(c)
        PROVE  ReadInv'
    <3>1. RequestMove(c) /\ ClientShape'
      <4>1. RequestMove(c) /\ trust' \in {"none", "ok", "unreachable", "untrusted"}
            /\ brk' \in [state : {"closed", "open", "halfopen"}, openedAt : Nat, fails : Nat]
        BY <2>1, RequestMoves DEF ReadInv
      <4> QED
        BY <4>1 DEF RequestMove, ReadInv, ClientShape
    <3>2. PICK r \in CallRecords :
            /\ UNCHANGED <<now, cache>>
            /\ call' = [call EXCEPT ![c] = r]
            /\ Busy(c) /\ r.at \in Client!Working /\ r.via = call[c].via
            /\ r.at \in {"allow", "refused"} => call[c].at = "allow"
            /\ r.at \in {"sent", "status", "decode"} =>
                 \/ call[c].at = "allow" /\ r.began = now
                 \/ call[c].at \in {"sent", "status", "decode"} /\ r.began = call[c].began
      BY <3>1 DEF RequestMove
    <3>3. c \in Readers => /\ call[c].at \in {"allow", "refused"} => cache.start = now
                           /\ call[c].at \in {"sent", "status", "decode"} => cache.start = call[c].began
      BY <3>2 DEF ReadInv, OwnerOnTime
    <3>4. r.at # "wait" /\ r.at # "done"
      BY <1>0, <3>2
    <3> QED
      BY <2>a, <3>1, <3>2, <3>3, <3>4
  <2>2. ASSUME NEW c \in Callers, Client!Direct(c) \/ Client!FinishDirect(c)
        PROVE  ReadInv'
    <3>1. c \notin Readers /\ UNCHANGED <<now, cache, brk, trust>>
      BY <2>2 DEF Client!Direct, Client!FinishDirect
    <3>2. PICK r \in CallRecords : call' = [call EXCEPT ![c] = r]
      <4>1. [Client!Idle EXCEPT !.at = "allow", !.via = "own"] \in CallRecords
            /\ [Client!Idle EXCEPT !.at = "done", !.via = "own", !.res = call[c].res] \in CallRecords
        BY <1>0, <2>0 DEF CallRecords, Client!Working
      <4> QED
        BY <2>2, <4>1 DEF Client!Direct, Client!FinishDirect
    <3>3. ClientShape'
      BY <2>0, <3>1, <3>2 DEF ReadInv, ClientShape
    <3> QED
      BY <2>a, <3>1, <3>2, <3>3
  <2>3. ASSUME NEW c \in Callers, Client!Hit(c)
        PROVE  ReadInv'
    <3> DEFINE r == Handed(Client!Idle, "hit", cache.res, EntryAge)
    <3>1. r \in CallRecords /\ r.at = "done" /\ r.via = "hit" /\ r.res = cache.res /\ r.age = EntryAge
      <4>1. EntryAge \in Int /\ cache.res \in Client!Fails \cup {"none", "ok"}
        BY <2>0 DEF EntryAge, ReadInv, ClientShape
      <4>2. "hit" \in {"none", "own", "hit", "wait"}
        OBVIOUS
      <4>3. IsHanded(r, "hit", cache.res, EntryAge)
        BY <1>0, <4>1, <4>2, HandedRecord, Zenon
      <4> HIDE DEF r
      <4> QED
        BY <4>3 DEF IsHanded
    <3>2. call' = [call EXCEPT ![c] = r] /\ UNCHANGED <<now, cache, brk, trust>>
      BY <2>3 DEF Client!Hit, Handed, EntryAge
    <3> HIDE DEF r
    <3>3. ClientShape'
      BY <2>0, <3>1, <3>2 DEF ReadInv, ClientShape
    <3>4. r.res = "ok" /\ r.age <= TTL
      BY <2>0, <2>3, <3>1 DEF EntryAge, Client!Hit, Client!Fresh, ReadInv, EntryInv
    <3> QED
      BY <1>0, <2>a, <3>1, <3>2, <3>3, <3>4
  <2>4. ASSUME NEW c \in Callers, Client!Wait(c)
        PROVE  ReadInv'
    <3> DEFINE r == [Client!Idle EXCEPT !.at = "wait", !.via = "wait"]
    <3>1. r \in CallRecords /\ r.at = "wait" /\ r.via = "wait"
      BY <1>0 DEF CallRecords, Client!Idle
    <3>2. call' = [call EXCEPT ![c] = r] /\ UNCHANGED <<now, cache, brk, trust>>
      BY <2>4 DEF Client!Wait
    <3> HIDE DEF r
    <3>3. ClientShape'
      BY <2>0, <3>1, <3>2 DEF ReadInv, ClientShape
    <3> QED
      BY <1>0, <2>a, <3>1, <3>2, <3>3
  <2>5. ASSUME NEW c \in Callers, Client!Return(c)
        PROVE  ReadInv'
    <3>1. call' = [call EXCEPT ![c] = Client!Idle] /\ UNCHANGED <<now, cache, brk, trust>>
      BY <2>5 DEF Client!Return
    <3>2. ClientShape'
      BY <1>0, <2>0, <3>1 DEF ReadInv, ClientShape
    <3> QED
      BY <1>0, <2>a, <3>1, <3>2
  <2>6. ASSUME NEW c \in Callers, Client!Own(c)
        PROVE  ReadInv'
    <3> DEFINE r == [Client!Idle EXCEPT !.at = "allow", !.via = "own"]
    <3>1. r \in CallRecords /\ r.at = "allow" /\ r.via = "own" /\ "allow" \in Client!Working
      BY <1>0 DEF CallRecords, Client!Idle, Client!Working
    <3>2. call' = [call EXCEPT ![c] = r] /\ UNCHANGED <<now, brk, trust>>
          /\ cache' = [at |-> "flight", start |-> now, res |-> "none", expires |-> 0] /\ cache.at # "flight"
      BY <2>6 DEF Client!Own, Client!InFlight
    <3> HIDE DEF r
    <3>3. ClientShape'
      BY <2>0, <3>1, <3>2 DEF ReadInv, ClientShape
    <3>4. /\ call'[c] = r /\ \A d \in Callers : d # c => call'[d] = call[d]
      BY <2>0, <3>2
    <3>5. \A d \in Readers : Busy(d)' => d = c
      BY <2>0, <3>2, <3>4 DEF ReadInv, OwnerInFlight, Busy
    <3>6. OwnerInFlight' /\ OwnerOnTime'
      BY <2>0, <3>1, <3>2, <3>4, <3>5 DEF OwnerInFlight, OwnerOnTime
    <3>7. EntryInv' /\ ViaWait' /\ (Timeout <= TTL => Client!AnswerIsFresh)' /\ Client!FailureOnlyToWaiters'
      BY <2>0, <3>1, <3>2, <3>4 DEF ReadInv, EntryInv, ViaWait, Client!AnswerIsFresh, Client!FailureOnlyToWaiters
    <3> QED
      BY <3>3, <3>6, <3>7 DEF ReadInv
  <2>7. ASSUME NEW c \in Callers, Client!FinishRead(c)
        PROVE  ReadInv'
    <3>1. c \in Readers /\ Busy(c) /\ call[c].at = "finish" /\ UNCHANGED <<now, brk, trust>>
      BY <2>7 DEF Client!FinishRead, Busy, Client!Working
    <3>2. now - cache.start <= Timeout /\ cache.start <= now /\ call[c].via = "own"
      BY <3>1 DEF ReadInv, OwnerOnTime, EntryInv, OwnerInFlight
    <3> DEFINE res == call[c].res
               Rec(w) == Handed(Client!Idle, call[w].via, res, EntryAge)
    <3>3. res \in Client!Fails \cup {"none", "ok"}
      BY <2>0 DEF CallRecords
    <3>4. \A w \in Callers : Rec(w) \in CallRecords /\ Rec(w).at = "done" /\ Rec(w).via = call[w].via /\ Rec(w).res = res
                              /\ Rec(w).age = EntryAge
      <4>1. EntryAge \in Int /\ \A w \in Callers : call[w].via \in {"none", "own", "hit", "wait"}
        BY <2>0 DEF EntryAge, CallRecords
      <4> HIDE DEF res
      <4>2. \A w \in Callers : IsHanded(Rec(w), call[w].via, res, EntryAge)
        BY <1>0, <3>3, <4>1, HandedRecord, Zenon
      <4> HIDE DEF Rec
      <4> QED
        BY <4>2 DEF IsHanded
    <3>5. /\ cache' = [cache EXCEPT !.at = "ready", !.res = res, !.expires = cache.start + (IF res = "ok" THEN TTL ELSE 0)]
          /\ call' = [w \in Callers |-> IF w = c \/ (w \in Readers /\ call[w].at = "wait") THEN Rec(w) ELSE call[w]]
      BY <2>7 DEF Client!FinishRead, Client!Expiry, Client!Released, Handed, EntryAge
    <3> HIDE DEF res, Rec
    <3>6. cache'.at = "ready" /\ cache'.res = res /\ cache'.start = cache.start
          /\ cache'.expires = cache.start + (IF res = "ok" THEN TTL ELSE 0)
      BY <3>5 DEF ReadInv, ClientShape
    <3>7. ClientShape'
      <4>1. call' \in [Callers -> CallRecords]
        BY <2>0, <3>4, <3>5
      <4>2. cache' \in [at : {"none", "flight", "ready"}, start : Nat, res : Client!Fails \cup {"none", "ok"}, expires : Nat]
        <5>1. cache \in [at : {"none", "flight", "ready"}, start : Nat, res : Client!Fails \cup {"none", "ok"}, expires : Nat]
          BY DEF ReadInv, ClientShape
        <5>2. cache.start + (IF res = "ok" THEN TTL ELSE 0) \in Nat
          BY <2>0
        <5> QED
          BY <3>3, <3>5, <5>1, <5>2
      <4> QED
        BY <3>1, <4>1, <4>2 DEF ReadInv, ClientShape
    <3>8. \A w \in Readers : ~Busy(w)'
      BY <1>0, <2>0, <3>1, <3>4, <3>5 DEF Busy, ReadInv, OwnerInFlight
    <3>9. OwnerInFlight' /\ OwnerOnTime' /\ EntryInv'
      BY <2>0, <3>1, <3>2, <3>6, <3>8 DEF OwnerInFlight, OwnerOnTime, EntryInv
    <3>10. ViaWait' /\ (Timeout <= TTL => Client!AnswerIsFresh)' /\ Client!FailureOnlyToWaiters'
      <4>1. \A w \in Readers : w = c \/ call[w].at = "wait" => call[w].via # "hit"
        BY <3>2 DEF ReadInv, ViaWait
      <4>2. \A w \in Readers : call'[w] = IF w = c \/ call[w].at = "wait" THEN Rec(w) ELSE call[w]
        BY <2>0, <3>5
      <4>3. Timeout <= TTL => EntryAge <= TTL
        BY <2>0, <3>2 DEF EntryAge
      <4> QED
        BY <2>0, <3>4, <4>1, <4>2, <4>3 DEF ReadInv, ViaWait, Client!AnswerIsFresh, Client!FailureOnlyToWaiters
    <3> QED
      BY <3>7, <3>9, <3>10 DEF ReadInv
  <2>8. CASE Client!Tick
    <3>1. now' = now + 1 /\ UNCHANGED <<brk, trust, cache, call>>
          /\ \A c \in Readers : Busy(c) => call[c].at \in {"sent", "decode"} /\ now - call[c].began < Timeout
      BY <1>0, <2>0, <2>8 DEF Client!Tick, Client!OnWire, Busy
    <3>2. ClientShape' /\ EntryInv' /\ ViaWait' /\ OwnerInFlight'
      BY <2>0, <3>1 DEF ReadInv, ClientShape, EntryInv, ViaWait, OwnerInFlight, Busy
    <3>3. OwnerOnTime'
      BY <2>0, <3>1 DEF ReadInv, OwnerOnTime, Busy
    <3> QED
      BY <3>1, <3>2, <3>3 DEF ReadInv, Client!AnswerIsFresh, Client!FailureOnlyToWaiters
  <2>9. ASSUME UNCHANGED <<now, brk, trust, cache, call>>
        PROVE  ReadInv'
    BY <2>9 DEF ReadInv, ClientShape, OwnerInFlight, OwnerOnTime, EntryInv, ViaWait, Busy, Client!AnswerIsFresh,
       Client!FailureOnlyToWaiters
  <2> QED
    BY <2>1, <2>2, <2>3, <2>4, <2>5, <2>6, <2>7, <2>8, <2>9
    DEF Client!Next, Client!Step, Requests, Client!Cancel, Client!vars
<1> QED
  BY <1>1, <1>2, PTL DEF Client!Spec

Sent(c) == call[c].at = "sent"
Probe(c) == Sent(c) /\ call[c].probe

\* No request starts or ends, and one on the wire is within its timeout.
WireKept ==
  /\ UNCHANGED brk /\ now' \in {now, now + 1}
  /\ \A d \in Callers : Sent(d)' <=> Sent(d)
  /\ \A d \in Callers : Sent(d) => /\ call'[d].began = call[d].began /\ call'[d].probe = call[d].probe
                                   /\ now' = now + 1 => now - call[d].began < Timeout

\* The breaker lets c through.
Passed(c) ==
  /\ now' = now /\ Client!MayPass
  /\ brk' = [brk EXCEPT !.state = IF @ = "open" THEN "halfopen" ELSE @]
  /\ \A d \in Callers : d # c => call'[d] = call[d]
  /\ \/ Sent(c)' /\ call'[c].began = now /\ call'[c].probe = (brk.state # "closed")
     \/ LocalFaults /\ ~Sent(c)' /\ ~Sent(c)

\* The request of c is over and the breaker hears of it.
Heard(c) ==
  /\ now' = now /\ Sent(c) /\ ~Sent(c)'
  /\ \A d \in Callers : d # c => call'[d] = call[d]
  /\ Client!RecordSuccess \/ Client!RecordFailure

\* What a step may do to the breaker and to the requests on the wire.
LEMMA BreakerMoves ==
    ASSUME ReadInv, [Client!Next]_(Client!vars)
    PROVE  WireKept \/ \E c \in Callers : Passed(c) \/ Heard(c)
<1>0. call \in [Callers -> CallRecords] /\ now \in Nat
  BY DEF ReadInv, ClientShape
\* Caller c takes a record that is not a request on the wire.
<1>1. ASSUME NEW c \in Callers, NEW r, call' = [call EXCEPT ![c] = r], r.at # "sent", UNCHANGED <<now, brk>>, ~Sent(c)
      PROVE  WireKept
  BY <1>0, <1>1 DEF WireKept, Sent
<1>2. ASSUME NEW c \in Callers, Client!Allow(c) PROVE Passed(c)
  <2>1. CASE call' = [call EXCEPT ![c] = [@ EXCEPT !.at = "sent", !.began = now, !.probe = brk.state # "closed"]]
    BY <1>0, <1>2, <2>1 DEF Client!Allow, Passed, Sent, CallRecords
  <2>2. CASE LocalFaults /\ call' = [call EXCEPT ![c] = [@ EXCEPT !.at = "finish", !.res = "local"]]
    BY <1>0, <1>2, <2>2 DEF Client!Allow, Passed, Sent, CallRecords
  <2> QED
    BY <1>2, <2>1, <2>2 DEF Client!Allow
<1>3. ASSUME NEW c \in Callers, NEW res, Sent(c), call' = [call EXCEPT ![c] = [@ EXCEPT !.at = "status", !.res = res]],
             UNCHANGED now, Client!RecordSuccess \/ Client!RecordFailure
      PROVE  Heard(c)
  BY <1>0, <1>3 DEF Heard, Sent, CallRecords
<1>4. ASSUME NEW c \in Callers, Client!Answered(c) \/ Client!Unanswered(c) \/ Client!Abandoned(c) PROVE Heard(c)
  BY <1>3, <1>4 DEF Client!Answered, Client!Unanswered, Client!Abandoned, Sent
<1>5. ASSUME NEW c \in Callers, NEW at \in {"refused", "decode", "finish"}, ~Sent(c), UNCHANGED <<now, brk>>,
             \/ call' = [call EXCEPT ![c] = [@ EXCEPT !.at = at]]
             \/ \E res : call' = [call EXCEPT ![c] = [@ EXCEPT !.at = at, !.res = res]]
      PROVE  WireKept
  <2>1. CASE call' = [call EXCEPT ![c] = [@ EXCEPT !.at = at]]
    BY <1>0, <1>5, <2>1 DEF CallRecords, WireKept, Sent
  <2>2. CASE \E res : call' = [call EXCEPT ![c] = [@ EXCEPT !.at = at, !.res = res]]
    <3>1. PICK res : call' = [call EXCEPT ![c] = [@ EXCEPT !.at = at, !.res = res]]
      BY <2>2
    <3>2. call'[c].at = at /\ \A d \in Callers : d # c => call'[d] = call[d]
      BY <1>0, <3>1 DEF CallRecords
    <3>3. ~Sent(c) /\ UNCHANGED <<now, brk>> /\ at # "sent"
      BY <1>5
    <3> QED
      BY <1>0, <3>2, <3>3 DEF WireKept, Sent
  <2> QED
    BY <1>5, <2>1, <2>2
<1>6. ASSUME NEW c \in Callers, Client!Refuse(c) \/ Client!Report(c) \/ Client!RecordStatus(c) \/ Client!Decode(c)
      PROVE  WireKept
  <2>1. ~Sent(c) /\ UNCHANGED <<now, brk>>
    BY <1>6 DEF Client!Refuse, Client!Report, Client!RecordStatus, Client!Decode, Sent
  <2>2. CASE Client!Refuse(c)
    BY <1>5, <2>1, <2>2 DEF Client!Refuse
  <2>3. CASE Client!Report(c)
    BY <1>5, <2>1, <2>3 DEF Client!Report
  <2>4. CASE Client!RecordStatus(c)
    BY <1>5, <2>1, <2>4 DEF Client!RecordStatus
  <2>5. CASE Client!Decode(c)
    BY <1>5, <2>1, <2>5 DEF Client!Decode
  <2> QED
    BY <1>6, <2>2, <2>3, <2>4, <2>5
<1>7. ASSUME NEW c \in Callers, \/ Client!Direct(c) \/ Client!FinishDirect(c) \/ Client!Hit(c)
                                \/ Client!Wait(c) \/ Client!Own(c) \/ Client!Return(c)
      PROVE  WireKept
  <2>1. ~Sent(c) /\ UNCHANGED <<now, brk>>
    BY <1>7 DEF Client!Direct, Client!FinishDirect, Client!Hit, Client!Wait, Client!Own, Client!Return, Client!MayBegin, Sent
  <2>2. CASE Client!Direct(c) \/ Client!Own(c)
    <3> DEFINE r == [Client!Idle EXCEPT !.at = "allow", !.via = "own"]
    <3>1. call' = [call EXCEPT ![c] = r]
      BY <2>2 DEF Client!Direct, Client!Own
    <3>2. r.at = "allow"
      BY DEF Client!Idle
    <3> HIDE DEF r
    <3> QED
      BY <1>1, <2>1, <3>1, <3>2
  <2>3. CASE Client!FinishDirect(c)
    <3> DEFINE r == [Client!Idle EXCEPT !.at = "done", !.via = "own", !.res = call[c].res]
    <3>1. call' = [call EXCEPT ![c] = r]
      BY <2>3 DEF Client!FinishDirect
    <3>2. r.at = "done"
      BY DEF Client!Idle
    <3> HIDE DEF r
    <3> QED
      BY <1>1, <2>1, <3>1, <3>2
  <2>4. CASE Client!Hit(c)
    <3> DEFINE r == [Client!Idle EXCEPT !.at = "done", !.via = "hit", !.res = cache.res, !.age = now - cache.start]
    <3>1. call' = [call EXCEPT ![c] = r]
      BY <2>4 DEF Client!Hit
    <3>2. r.at = "done"
      BY DEF Client!Idle
    <3> HIDE DEF r
    <3> QED
      BY <1>1, <2>1, <3>1, <3>2
  <2>5. CASE Client!Wait(c)
    <3> DEFINE r == [Client!Idle EXCEPT !.at = "wait", !.via = "wait"]
    <3>1. call' = [call EXCEPT ![c] = r]
      BY <2>5 DEF Client!Wait
    <3>2. r.at = "wait"
      BY DEF Client!Idle
    <3> HIDE DEF r
    <3> QED
      BY <1>1, <2>1, <3>1, <3>2
  <2>6. CASE Client!Return(c)
    <3>1. Client!Idle.at = "idle"
      BY DEF Client!Idle
    <3> QED
      BY <1>1, <2>1, <2>6, <3>1 DEF Client!Return
  <2> QED
    BY <1>7, <2>2, <2>3, <2>4, <2>5, <2>6
<1>8. ASSUME NEW c \in Callers, Client!FinishRead(c)
      PROVE  WireKept
  <2> DEFINE Rec(w) == [Client!Idle EXCEPT !.at = "done", !.via = call[w].via, !.res = call[c].res, !.age = now - cache.start]
  <2>1. \A w : Rec(w).at = "done"
    BY DEF Client!Idle
  <2>2. call' = [w \in Callers |-> IF w = c \/ w \in Client!Released(call[c].res) THEN Rec(w) ELSE call[w]]
        /\ UNCHANGED <<now, brk>> /\ ~Sent(c)
    BY <1>8 DEF Client!FinishRead, Sent
  <2> HIDE DEF Rec
  <2>3. \A w \in Client!Released(call[c].res) : ~Sent(w)
    BY DEF Client!Released, Sent
  <2> QED
    BY <1>0, <2>1, <2>2, <2>3 DEF WireKept, Sent
<1>9. CASE Client!Tick
  BY <1>0, <1>9 DEF Client!Tick, Client!OnWire, WireKept, Sent
<1>10. CASE UNCHANGED <<now, brk, call>>
  BY <1>0, <1>10 DEF WireKept, Sent
<1> QED
  BY <1>2, <1>4, <1>6, <1>7, <1>8, <1>9, <1>10 DEF Client!Next, Client!Step, Client!Cancel, Client!vars

\* A reader is never handed data that was asked for more than the ttl ago
\* (resultCache.do, coalesce.go), whether it made the call, waited for a slow one
\* or came later: the request timeout is no longer than the ttl, as it is for a
\* client with the defaults (5 seconds each, client.go:36 and coalesce.go:26).
\* A client given two minutes (cmd/vnproxd/server.go:1566) is outside of this.
THEOREM ReadsAreFresh ==
    ASSUME ClientSetting, Timeout <= TTL
    PROVE  Client!Spec => []Client!AnswerIsFresh
<1>1. ReadInv => Client!AnswerIsFresh
  BY DEF ReadInv
<1> QED
  BY <1>1, ReadInduction, PTL

\* Readers of one key never have two requests at the peer (resultCache.do): the
\* in-flight entry is waited for, however long its call takes.
THEOREM OneReadAtPeer ==
    ASSUME ClientSetting
    PROVE  Client!Spec => []Client!OneUpstream
<1>1. ReadInv => Client!OneUpstream
  BY DEF ReadInv, OwnerInFlight, Busy, Client!OneUpstream
<1> QED
  BY <1>1, ReadInduction, PTL

\* A failed read is never handed to a reader that comes after it
\* (resultCache.do): it goes to the caller and to those that waited for it.
THEOREM FailuresNotCached ==
    ASSUME ClientSetting
    PROVE  Client!Spec => []Client!FailureOnlyToWaiters
<1>1. ReadInv => Client!FailureOnlyToWaiters
  BY DEF ReadInv
<1> QED
  BY <1>1, ReadInduction, PTL

\* A probe is on the wire for at most the timeout, and a breaker that opened
\* while it was there opened after the probe left.
ProbeInv ==
  /\ \A c \in Callers : Sent(c) => call[c].began <= now /\ now - call[c].began <= Timeout
  /\ \A c \in Callers : Probe(c) /\ brk.state = "open" => brk.openedAt >= call[c].began
  /\ \A c, d \in Callers : Probe(c) /\ Probe(d) => c = d

\* An open breaker lets one probe through at a time (circuitBreaker.allow,
\* breaker.go), whatever earlier requests come back with while it is out: the
\* reset time is longer than the request timeout, as it is for a client with the
\* defaults (15 and 5 seconds, client.go:36), so a probe that is still out is
\* younger than any reopening it could race. For a client whose timeout is two
\* minutes OneProbe does not hold.
THEOREM OneProbeAtATime ==
    ASSUME ClientSetting, Timeout < Reset
    PROVE  Client!Spec => []Client!OneProbe
<1>1. Client!Init => ProbeInv
  <2> SUFFICES ASSUME Client!Init PROVE ProbeInv
    OBVIOUS
  <2>1. \A c \in Callers : ~Sent(c)
    BY DEF Client!Init, Sent, Client!Idle
  <2> QED
    BY <2>1 DEF ProbeInv, Probe
<1>2. ReadInv /\ ProbeInv /\ [Client!Next]_(Client!vars) => ProbeInv'
  <2> SUFFICES ASSUME ReadInv, ProbeInv, [Client!Next]_(Client!vars) PROVE ProbeInv'
    OBVIOUS
  <2>0. /\ now \in Nat /\ brk.openedAt \in Nat /\ brk.state \in {"closed", "open", "halfopen"}
        /\ brk \in [state : {"closed", "open", "halfopen"}, openedAt : Nat, fails : Nat]
        /\ Timeout \in Nat /\ Reset \in Nat /\ \A c \in Callers : call[c].began \in Nat
    BY DEF ReadInv, ClientShape, CallRecords, ClientSetting, Client!PeerClientAssumption
  <2>1. CASE WireKept
    BY <2>0, <2>1 DEF WireKept, ProbeInv, Probe, Sent
  <2>2. ASSUME NEW c \in Callers, Passed(c) PROVE ProbeInv'
    <3>1. now' = now /\ brk'.openedAt = brk.openedAt /\ brk'.state # "open"
      BY <2>0, <2>2 DEF Passed, Client!MayPass
    <3>2. \A d \in Callers : Probe(d) => brk.state = "closed" \/ ~Probe(c)'
      <4>1. brk.state # "closed" => brk.state = "open" /\ now - brk.openedAt >= Reset
        BY <2>2 DEF Passed, Client!MayPass
      <4>2. \A d \in Callers : Probe(d) => brk.state # "open" \/ brk.openedAt >= call[d].began
        BY DEF ProbeInv
      <4>3. \A d \in Callers : Probe(d) => now - call[d].began <= Timeout
        BY DEF ProbeInv, Probe
      <4> QED
        BY <2>0, <4>1, <4>2, <4>3
    <3>3. \A d \in Callers : d # c => call'[d] = call[d]
      BY <2>2 DEF Passed
    <3>4. Probe(c)' => brk.state # "closed"
      BY <2>2 DEF Passed, Probe
    <3>5. Sent(c)' => call'[c].began = now
      BY <2>2 DEF Passed
    <3> QED
      BY <2>0, <3>1, <3>2, <3>3, <3>4, <3>5 DEF ProbeInv, Probe, Sent
  <2>3. ASSUME NEW c \in Callers, Heard(c) PROVE ProbeInv'
    <3>1. now' = now /\ ~Sent(c)' /\ \A d \in Callers : d # c => call'[d] = call[d]
      BY <2>3 DEF Heard
    <3>2. brk'.state = "open" => brk'.openedAt = now \/ (brk.state = "open" /\ brk'.openedAt = brk.openedAt)
      <4>1. CASE Client!RecordSuccess
        BY <2>0, <4>1 DEF Client!RecordSuccess
      <4>2. CASE Client!RecordFailure
        BY <2>0, <4>2 DEF Client!RecordFailure
      <4> QED
        BY <2>3, <4>1, <4>2 DEF Heard
    <3> QED
      BY <2>0, <3>1, <3>2 DEF ProbeInv, Probe, Sent
  <2> QED
    BY <2>1, <2>2, <2>3, BreakerMoves
<1>3. ProbeInv => Client!OneProbe
  BY DEF ProbeInv, Probe, Sent, Client!Probing, Client!OneProbe
<1> QED
  BY <1>1, <1>2, <1>3, ReadInduction, PTL DEF Client!Spec

\* A half-open breaker is waiting for a probe that is on the wire
\* (circuitBreaker.allow and recordFailure), so that it cannot refuse every
\* later call. The hypothesis excludes a request that fails before it is sent
\* (LocalFaults): Client.do then returns without telling the breaker, which
\* stays half-open.
THEOREM HalfOpenIsProbed ==
    ASSUME ClientSetting, LocalFaults = FALSE
    PROVE  Client!Spec => []Client!HalfOpenHasProbe
<1>1. Client!Init => Client!HalfOpenHasProbe
  BY DEF Client!Init, Client!HalfOpenHasProbe
<1>2. ReadInv /\ Client!HalfOpenHasProbe /\ [Client!Next]_(Client!vars) => Client!HalfOpenHasProbe'
  <2> SUFFICES ASSUME ReadInv, Client!HalfOpenHasProbe, [Client!Next]_(Client!vars), brk'.state = "halfopen"
               PROVE  \E c \in Callers : Probe(c)'
    BY DEF Client!HalfOpenHasProbe, Client!Probing, Probe, Sent
  <2>0. brk \in [state : {"closed", "open", "halfopen"}, openedAt : Nat, fails : Nat]
    BY DEF ReadInv, ClientShape
  <2>1. brk.state = "halfopen" => \E c \in Callers : Probe(c)
    BY DEF Client!HalfOpenHasProbe, Client!Probing, Probe, Sent
  <2>2. CASE WireKept
    BY <2>1, <2>2 DEF WireKept, Probe
  <2>3. ASSUME NEW c \in Callers, Passed(c) PROVE Probe(c)'
    BY <2>0, <2>3 DEF Passed, Probe, Client!MayPass
  <2>4. ASSUME NEW c \in Callers, Heard(c) PROVE FALSE
    <3>1. CASE Client!RecordSuccess
      BY <2>0, <3>1 DEF Client!RecordSuccess
    <3>2. CASE Client!RecordFailure
      BY <2>0, <3>2 DEF Client!RecordFailure
    <3> QED
      BY <2>4, <3>1, <3>2 DEF Heard
  <2> QED
    BY <2>2, <2>3, <2>4, BreakerMoves
<1> QED
  BY <1>1, <1>2, ReadInduction, PTL DEF Client!Spec

\* PeerIsSpared: what resultCache.do and circuitBreaker.allow promise, each part
\* for every client whose timeouts it rests on.
THEOREM PeersAreSpared ==
    ASSUME ClientSetting
    PROVE  Client!Spec => []Client!PeerIsSpared
<1>1. Client!Spec => [](Timeout <= TTL => Client!AnswerIsFresh)
  <2>1. CASE Timeout <= TTL
    <3>1. Client!AnswerIsFresh => (Timeout <= TTL => Client!AnswerIsFresh)
      OBVIOUS
    <3>2. Client!Spec => []Client!AnswerIsFresh
      BY <2>1, ReadsAreFresh
    <3> QED
      BY <3>1, <3>2, PTL
  <2>2. CASE ~(Timeout <= TTL)
    <3>1. Timeout <= TTL => Client!AnswerIsFresh
      BY <2>2
    <3> QED
      BY <3>1, PTL
  <2> QED
    BY <2>1, <2>2
<1>2. Client!Spec => [](Timeout < Reset => Client!OneProbe)
  <2>1. CASE Timeout < Reset
    <3>1. Client!OneProbe => (Timeout < Reset => Client!OneProbe)
      OBVIOUS
    <3>2. Client!Spec => []Client!OneProbe
      BY <2>1, OneProbeAtATime
    <3> QED
      BY <3>1, <3>2, PTL
  <2>2. CASE ~(Timeout < Reset)
    <3>1. Timeout < Reset => Client!OneProbe
      BY <2>2
    <3> QED
      BY <3>1, PTL
  <2> QED
    BY <2>1, <2>2
<1>3. Client!Spec => [](~LocalFaults => Client!HalfOpenHasProbe)
  <2>1. CASE LocalFaults = FALSE
    <3>1. Client!HalfOpenHasProbe => (~LocalFaults => Client!HalfOpenHasProbe)
      OBVIOUS
    <3>2. Client!Spec => []Client!HalfOpenHasProbe
      BY <2>1, HalfOpenIsProbed
    <3> QED
      BY <3>1, <3>2, PTL
  <2>2. CASE LocalFaults = TRUE
    <3>1. ~LocalFaults => Client!HalfOpenHasProbe
      BY <2>2
    <3> QED
      BY <3>1, PTL
  <2> QED
    BY <2>1, <2>2 DEF ClientSetting, Client!PeerClientAssumption
<1>4. Client!Spec => []Client!OneUpstream /\ []Client!FailureOnlyToWaiters
  BY OneReadAtPeer, FailuresNotCached
<1>5. /\ Client!OneUpstream /\ Client!FailureOnlyToWaiters
      /\ (Timeout <= TTL => Client!AnswerIsFresh)
      /\ (Timeout < Reset => Client!OneProbe)
      /\ (~LocalFaults => Client!HalfOpenHasProbe)
      => Client!PeerIsSpared
  BY DEF Client!PeerIsSpared
<1> QED
  BY <1>1, <1>2, <1>3, <1>4, <1>5, PTL

\* The calls whose request may still fail.
Pending == {c \in Callers : call[c].at \in {"allow", "sent"}}

\* A call adds one failure to the breaker at most.
FailsCounted ==
  /\ IsFiniteSet(Pending) /\ begun \in 0 .. MaxCalls
  /\ brk.fails \in Nat /\ brk.fails + Cardinality(Pending) <= begun

\* Nothing is dated later than now.
Dated ==
  /\ now \in 0 .. MaxTime /\ brk.openedAt <= now /\ cache.start <= now
  /\ cache.expires <= cache.start + TTL
  /\ \A c \in Callers : call[c].began \in 0 .. MaxTime /\ call[c].age \in 0 .. MaxTime

ClientBounds == FailsCounted /\ Dated /\ cancelled \subseteq Callers /\ unanswered \in BOOLEAN

\* What a step of one caller does to the pending calls.
LEMMA PendingMoves ==
    ASSUME call \in [Callers -> CallRecords], NEW c \in Callers, NEW r, call' = [call EXCEPT ![c] = r]
    PROVE  /\ r.at \in {"allow", "sent"} => Pending' = Pending \cup {c}
           /\ r.at \notin {"allow", "sent"} => Pending' = Pending \ {c}
<1>1. call'[c] = r /\ \A d \in Callers : d # c => call'[d] = call[d]
  OBVIOUS
<1> QED
  BY <1>1 DEF Pending

\* No pending call begins or ends.
LEMMA CountKept ==
    ASSUME FailsCounted, ClientSetting, Pending' = Pending, brk'.fails = brk.fails,
           begun' = begun \/ (begun < MaxCalls /\ begun' = begun + 1)
    PROVE  FailsCounted'
<1>1. Cardinality(Pending) \in Nat
  BY FS_CardinalityType DEF FailsCounted
<1>2. MaxCalls \in Nat
  BY DEF ClientSetting, Client!PeerClientAssumption
<1> QED
  BY <1>1, <1>2 DEF FailsCounted

\* A call begins.
LEMMA CountBegins ==
    ASSUME FailsCounted, ClientSetting, NEW c \in Callers, c \notin Pending, Pending' = Pending \cup {c},
           brk'.fails = brk.fails, begun < MaxCalls, begun' = begun + 1
    PROVE  FailsCounted'
<1>1. Cardinality(Pending) \in Nat
  BY FS_CardinalityType DEF FailsCounted
<1>2. MaxCalls \in Nat
  BY DEF ClientSetting, Client!PeerClientAssumption
<1>3. IsFiniteSet(Pending') /\ Cardinality(Pending') = Cardinality(Pending) + 1
  BY FS_AddElement DEF FailsCounted
<1> QED
  BY <1>1, <1>2, <1>3 DEF FailsCounted

\* The request of a call is over.
LEMMA CountEnds ==
    ASSUME FailsCounted, ClientSetting, NEW c \in Pending, Pending' = Pending \ {c},
           brk'.fails \in Nat, brk'.fails <= brk.fails + 1, begun' = begun
    PROVE  FailsCounted'
<1>1. Cardinality(Pending) \in Nat
  BY FS_CardinalityType DEF FailsCounted
<1>3. IsFiniteSet(Pending') /\ Cardinality(Pending') = Cardinality(Pending) - 1
  BY FS_RemoveElement DEF FailsCounted
<1> QED
  BY <1>1, <1>3 DEF FailsCounted

\* What a caller's record is after its step: times of its own, of now or none.
LEMMA DatesKept ==
    ASSUME Dated, ClientSetting, ClientShape, NEW c \in Callers, NEW r, call' = [call EXCEPT ![c] = r],
           r.began \in {0, now, call[c].began}, r.age \in {0, now - cache.start, call[c].age},
           now' = now, cache' = cache, brk'.openedAt \in {brk.openedAt, now}
    PROVE  Dated'
<1>1. call'[c] = r /\ \A d \in Callers : d # c => call'[d] = call[d]
  BY DEF ClientShape
<1>2. cache.start \in Nat /\ now \in Nat /\ MaxTime \in Nat
  BY DEF ClientShape, ClientSetting, Client!PeerClientAssumption
<1>3. r.began \in 0 .. MaxTime /\ r.age \in 0 .. MaxTime
  BY <1>2 DEF Dated
<1>4. \A d \in Callers : call'[d].began \in 0 .. MaxTime /\ call'[d].age \in 0 .. MaxTime
  BY <1>1, <1>3 DEF Dated
<1> QED
  BY <1>2, <1>4 DEF Dated

\* The bounds over every step of the client.
LEMMA BoundsStep ==
    ASSUME ClientSetting, ReadInv, ClientBounds, [Client!Next]_(Client!vars)
    PROVE  ClientBounds'
<1>0. /\ ClientShape /\ FailsCounted /\ Dated /\ cancelled \subseteq Callers /\ unanswered \in BOOLEAN
      /\ now \in Nat /\ cache.start \in Nat /\ MaxTime \in Nat /\ MaxCalls \in Nat /\ TTL \in Nat
      /\ call \in [Callers -> CallRecords]
  BY DEF ReadInv, ClientBounds, ClientShape, ClientSetting, Client!PeerClientAssumption
<1>i. Client!Idle.at = "idle" /\ Client!Idle.began = 0 /\ Client!Idle.age = 0
  BY DEF Client!Idle
\* A call begins and its request is pending.
<1>1. ASSUME NEW c \in Callers, Client!Direct(c) PROVE ClientBounds'
  <2> DEFINE r == [Client!Idle EXCEPT !.at = "allow", !.via = "own"]
  <2>1. call' = [call EXCEPT ![c] = r] /\ c \notin Pending /\ begun < MaxCalls /\ begun' = begun + 1
        /\ UNCHANGED <<now, brk, cache, cancelled, unanswered>>
    BY <1>1 DEF Client!Direct, Client!MayBegin, Pending
  <2>2. r.at = "allow" /\ r.began = 0 /\ r.age = 0
    BY DEF Client!Idle
  <2> HIDE DEF r
  <2>3. Dated'
    BY <1>0, <2>1, <2>2, DatesKept
  <2>4. Pending' = Pending \cup {c}
    BY <1>0, <2>1, <2>2, PendingMoves
  <2>5. FailsCounted'
    BY <1>0, <2>1, <2>4, CountBegins
  <2> QED
    BY <1>0, <2>1, <2>3, <2>5 DEF ClientBounds
<1>2. ASSUME NEW c \in Callers, Client!Own(c) PROVE ClientBounds'
  <2> DEFINE r == [Client!Idle EXCEPT !.at = "allow", !.via = "own"]
             e == [at |-> "flight", start |-> now, res |-> "none", expires |-> 0]
  <2>1. call' = [call EXCEPT ![c] = r] /\ c \notin Pending /\ begun < MaxCalls /\ begun' = begun + 1
        /\ cache' = e /\ UNCHANGED <<now, brk, cancelled, unanswered>>
    BY <1>2 DEF Client!Own, Client!MayBegin, Pending
  <2>2. r.at = "allow" /\ r.began = 0 /\ r.age = 0 /\ e.start = now /\ e.expires = 0
    BY DEF Client!Idle
  <2> HIDE DEF r, e
  <2>3. call'[c] = r /\ \A d \in Callers : d # c => call'[d] = call[d]
    BY <1>0, <2>1
  <2>4. \A d \in Callers : call'[d].began \in 0 .. MaxTime /\ call'[d].age \in 0 .. MaxTime
    BY <1>0, <2>2, <2>3 DEF Dated
  <2>5. Dated'
    BY <1>0, <2>1, <2>2, <2>4 DEF Dated
  <2>6. Pending' = Pending \cup {c}
    BY <1>0, <2>1, <2>2, PendingMoves
  <2>7. FailsCounted'
    BY <1>0, <2>1, <2>6, CountBegins
  <2> QED
    BY <1>0, <2>1, <2>5, <2>7 DEF ClientBounds
\* A call begins, or goes on, without one.
<1>3. ASSUME NEW c \in Callers, NEW r, call' = [call EXCEPT ![c] = r], c \notin Pending, r.at \notin {"allow", "sent"},
             r.began \in {0, now, call[c].began}, r.age \in {0, now - cache.start, call[c].age},
             begun' = begun \/ (begun < MaxCalls /\ begun' = begun + 1),
             UNCHANGED <<now, brk, cache, unanswered>>, cancelled' \subseteq cancelled
      PROVE  ClientBounds'
  <2>1. Dated'
    BY <1>0, <1>3, DatesKept
  <2>2. Pending' = Pending
    <3>1. Pending' = Pending \ {c}
      BY <1>0, <1>3, PendingMoves
    <3> QED
      BY <1>3, <3>1
  <2>3. FailsCounted'
    BY <1>0, <1>3, <2>2, CountKept
  <2> QED
    BY <1>0, <1>3, <2>1, <2>3 DEF ClientBounds
<1>4. ASSUME NEW c \in Callers, Client!Hit(c) PROVE ClientBounds'
  <2> DEFINE r == [Client!Idle EXCEPT !.at = "done", !.via = "hit", !.res = cache.res, !.age = now - cache.start]
  <2>1. call' = [call EXCEPT ![c] = r] /\ c \notin Pending /\ begun < MaxCalls /\ begun' = begun + 1
        /\ UNCHANGED <<now, brk, cache, cancelled, unanswered>>
    BY <1>4 DEF Client!Hit, Client!MayBegin, Pending
  <2>2. r.at = "done" /\ r.began = 0 /\ r.age = now - cache.start
    BY DEF Client!Idle
  <2> HIDE DEF r
  <2> QED
    BY <1>3, <2>1, <2>2
<1>5. ASSUME NEW c \in Callers, Client!Wait(c) PROVE ClientBounds'
  <2> DEFINE r == [Client!Idle EXCEPT !.at = "wait", !.via = "wait"]
  <2>1. call' = [call EXCEPT ![c] = r] /\ c \notin Pending /\ begun < MaxCalls /\ begun' = begun + 1
        /\ UNCHANGED <<now, brk, cache, cancelled, unanswered>>
    BY <1>5 DEF Client!Wait, Client!MayBegin, Pending
  <2>2. r.at = "wait" /\ r.began = 0 /\ r.age = 0
    BY DEF Client!Idle
  <2> HIDE DEF r
  <2> QED
    BY <1>3, <2>1, <2>2
<1>6. ASSUME NEW c \in Callers, Client!FinishDirect(c) PROVE ClientBounds'
  <2> DEFINE r == [Client!Idle EXCEPT !.at = "done", !.via = "own", !.res = call[c].res]
  <2>1. call' = [call EXCEPT ![c] = r] /\ c \notin Pending /\ UNCHANGED <<now, brk, cache, cancelled, unanswered, begun>>
    BY <1>6 DEF Client!FinishDirect, Pending
  <2>2. r.at = "done" /\ r.began = 0 /\ r.age = 0
    BY DEF Client!Idle
  <2> HIDE DEF r
  <2> QED
    BY <1>3, <2>1, <2>2
<1>7. ASSUME NEW c \in Callers, Client!Return(c) PROVE ClientBounds'
  <2>1. call' = [call EXCEPT ![c] = Client!Idle] /\ c \notin Pending /\ cancelled' \subseteq cancelled
        /\ UNCHANGED <<now, brk, cache, unanswered, begun>>
    BY <1>7 DEF Client!Return, Pending
  <2> QED
    BY <1>3, <1>i, <2>1
\* What EXCEPT leaves of a record.
<1>8. \A x \in CallRecords : \A a, res :
        /\ [x EXCEPT !.at = a].at = a /\ [x EXCEPT !.at = a].began = x.began /\ [x EXCEPT !.at = a].age = x.age
        /\ [x EXCEPT !.at = a, !.res = res].at = a /\ [x EXCEPT !.at = a, !.res = res].began = x.began
        /\ [x EXCEPT !.at = a, !.res = res].age = x.age
  BY DEF CallRecords
<1>9. ASSUME NEW c \in Callers, Client!Report(c) \/ Client!RecordStatus(c) \/ Client!Decode(c) PROVE ClientBounds'
  <2>1. PICK r : /\ call' = [call EXCEPT ![c] = r]
                 /\ \/ \E a \in {"finish", "decode"} : r = [call[c] EXCEPT !.at = a]
                    \/ \E a \in {"finish", "decode"} : \E res : r = [call[c] EXCEPT !.at = a, !.res = res]
    <3>1. CASE Client!Report(c)
      BY <3>1 DEF Client!Report
    <3>2. CASE Client!RecordStatus(c)
      BY <3>2 DEF Client!RecordStatus
    <3>3. CASE Client!Decode(c)
      BY <3>3 DEF Client!Decode
    <3> QED
      BY <1>9, <3>1, <3>2, <3>3
  <2>2. r.at \in {"finish", "decode"} /\ r.began = call[c].began /\ r.age = call[c].age
    <3>0. call[c] \in CallRecords
      BY <1>0
    <3>1. CASE \E a \in {"finish", "decode"} : r = [call[c] EXCEPT !.at = a]
      BY <1>8, <3>0, <3>1
    <3>2. CASE \E a \in {"finish", "decode"} : \E res : r = [call[c] EXCEPT !.at = a, !.res = res]
      BY <1>8, <3>0, <3>2
    <3> QED
      BY <2>1, <3>1, <3>2
  <2>3. c \notin Pending /\ UNCHANGED <<now, brk, cache, cancelled, unanswered, begun>>
    BY <1>9 DEF Client!Report, Client!RecordStatus, Client!Decode, Pending
  <2> QED
    BY <1>3, <2>1, <2>2, <2>3
\* The request of a pending call goes out, or is over.
<1>10. ASSUME NEW c \in Pending, NEW r, call' = [call EXCEPT ![c] = r], r.at # "allow",
              r.began \in {now, call[c].began}, r.age = call[c].age, UNCHANGED <<now, cache, cancelled, begun>>,
              brk'.openedAt \in {brk.openedAt, now}, unanswered' \in BOOLEAN,
              brk'.fails \in Nat, brk'.fails <= brk.fails + 1, r.at = "sent" => brk'.fails = brk.fails
       PROVE  ClientBounds'
  <2>0. c \in Callers
    BY DEF Pending
  <2>1. Dated'
    BY <1>0, <1>10, <2>0, DatesKept
  <2>2. CASE r.at = "sent"
    <3>1. Pending' = Pending
      BY <1>0, <1>10, <2>0, <2>2, PendingMoves
    <3>2. FailsCounted'
      BY <1>0, <1>10, <2>2, <3>1, CountKept
    <3> QED
      BY <1>0, <1>10, <2>1, <3>2 DEF ClientBounds
  <2>3. CASE r.at # "sent"
    <3>1. Pending' = Pending \ {c}
      BY <1>0, <1>10, <2>0, <2>3, PendingMoves
    <3>2. FailsCounted'
      BY <1>0, <1>10, <2>3, <3>1, CountEnds
    <3> QED
      BY <1>0, <1>10, <2>1, <3>2 DEF ClientBounds
  <2> QED
    BY <2>2, <2>3
<1>11. brk.fails \in Nat /\ brk.openedAt \in Nat /\ brk \in [state : {"closed", "open", "halfopen"}, openedAt : Nat, fails : Nat]
  BY <1>0 DEF ClientShape
<1>12. ASSUME NEW c \in Callers, Client!Allow(c) PROVE ClientBounds'
  <2>1. c \in Pending /\ UNCHANGED <<now, cache, cancelled, begun, unanswered>>
    BY <1>12 DEF Client!Allow, Pending
  <2>a. brk'.fails = brk.fails /\ brk'.openedAt = brk.openedAt
    BY <1>11, <1>12 DEF Client!Allow
  <2>2. /\ brk'.fails = brk.fails /\ brk'.openedAt \in {brk.openedAt, now}
        /\ brk'.fails \in Nat /\ brk'.fails <= brk.fails + 1 /\ unanswered' \in BOOLEAN
    BY <1>0, <1>11, <2>1, <2>a
  <2>3. CASE call' = [call EXCEPT ![c] = [@ EXCEPT !.at = "sent", !.began = now, !.probe = brk.state # "closed"]]
    <3> DEFINE r == [call[c] EXCEPT !.at = "sent", !.began = now, !.probe = brk.state # "closed"]
    <3>1. r.at = "sent" /\ r.began = now /\ r.age = call[c].age
      BY <1>0 DEF CallRecords
    <3>2. call' = [call EXCEPT ![c] = r]
      BY <2>3
    <3> HIDE DEF r
    <3> QED
      BY <1>10, <2>1, <2>2, <3>1, <3>2
  <2>4. CASE call' = [call EXCEPT ![c] = [@ EXCEPT !.at = "finish", !.res = "local"]]
    <3> DEFINE r == [call[c] EXCEPT !.at = "finish", !.res = "local"]
    <3>1. r.at = "finish" /\ r.began = call[c].began /\ r.age = call[c].age
      BY <1>0, <1>8
    <3>2. call' = [call EXCEPT ![c] = r]
      BY <2>4
    <3> HIDE DEF r
    <3> QED
      BY <1>10, <2>1, <2>2, <3>1, <3>2
  <2> QED
    BY <1>12, <2>3, <2>4 DEF Client!Allow
<1>13. ASSUME NEW c \in Callers, Client!Refuse(c) PROVE ClientBounds'
  <2>1. c \in Pending /\ UNCHANGED <<now, brk, cache, cancelled, begun, unanswered>>
    BY <1>13 DEF Client!Refuse, Pending
  <2> DEFINE r == [call[c] EXCEPT !.at = "refused"]
  <2>2. r.at = "refused" /\ r.began = call[c].began /\ r.age = call[c].age
    BY <1>0, <1>8
  <2>3. call' = [call EXCEPT ![c] = r]
    BY <1>13 DEF Client!Refuse
  <2> HIDE DEF r
  <2>4. /\ brk'.fails = brk.fails /\ brk'.openedAt \in {brk.openedAt, now}
        /\ brk'.fails \in Nat /\ brk'.fails <= brk.fails + 1 /\ unanswered' \in BOOLEAN
    BY <1>0, <1>11, <2>1
  <2> QED
    BY <1>10, <2>1, <2>2, <2>3, <2>4
<1>14. ASSUME NEW c \in Callers, Client!Answered(c) \/ Client!Unanswered(c) \/ Client!Abandoned(c) PROVE ClientBounds'
  <2>1. c \in Pending /\ UNCHANGED <<now, cache, cancelled, begun>> /\ unanswered' \in BOOLEAN
    BY <1>0, <1>14 DEF Client!Answered, Client!Unanswered, Client!Abandoned, Pending
  <2>2. PICK res : call' = [call EXCEPT ![c] = [@ EXCEPT !.at = "status", !.res = res]]
    BY <1>14 DEF Client!Answered, Client!Unanswered, Client!Abandoned
  <2> DEFINE r == [call[c] EXCEPT !.at = "status", !.res = res]
  <2>3. r.at = "status" /\ r.began = call[c].began /\ r.age = call[c].age
    BY <1>0, <1>8
  <2>4. call' = [call EXCEPT ![c] = r]
    BY <2>2
  <2> HIDE DEF r
  <2>5. Client!RecordSuccess \/ Client!RecordFailure
    BY <1>14 DEF Client!Answered, Client!Unanswered, Client!Abandoned
  <2>6. brk'.fails \in Nat /\ brk'.fails <= brk.fails + 1 /\ brk'.openedAt \in {brk.openedAt, now}
    <3>1. CASE Client!RecordSuccess
      <4>1. brk'.fails = 0 /\ brk'.openedAt = brk.openedAt
        BY <1>11, <3>1 DEF Client!RecordSuccess
      <4> QED
        BY <1>11, <4>1
    <3>2. CASE Client!RecordFailure
      <4>1. brk'.fails = brk.fails + 1 /\ brk'.openedAt \in {brk.openedAt, now}
        BY <1>11, <3>2 DEF Client!RecordFailure
      <4> QED
        BY <1>11, <4>1
    <3> QED
      BY <2>5, <3>1, <3>2
  <2> QED
    BY <1>0, <1>10, <2>1, <2>3, <2>4, <2>6
<1>15. ASSUME NEW c \in Callers, Client!FinishRead(c) PROVE ClientBounds'
  <2> DEFINE Rec(w) == [Client!Idle EXCEPT !.at = "done", !.via = call[w].via, !.res = call[c].res, !.age = now - cache.start]
             e == [cache EXCEPT !.at = "ready", !.res = call[c].res, !.expires = Client!Expiry(call[c].res)]
  <2>1. \A w : Rec(w).at = "done" /\ Rec(w).began = 0 /\ Rec(w).age = now - cache.start
    BY DEF Client!Idle
  <2>2. /\ call' = [w \in Callers |-> IF w = c \/ w \in Client!Released(call[c].res) THEN Rec(w) ELSE call[w]]
        /\ cache' = e /\ UNCHANGED <<now, brk, cancelled, begun, unanswered>> /\ call[c].at = "finish"
    BY <1>15 DEF Client!FinishRead
  <2>3. e.start = cache.start /\ e.expires = Client!Expiry(call[c].res)
    BY <1>0 DEF ClientShape
  <2>4. Client!Expiry(call[c].res) <= cache.start + TTL
    BY <1>0 DEF Client!Expiry
  <2> HIDE DEF Rec, e
  <2>5. \A w \in Client!Released(call[c].res) : call[w].at = "wait"
    BY DEF Client!Released
  <2>6. Pending' = Pending
    BY <1>0, <2>1, <2>2, <2>5 DEF Pending
  <2>7. now - cache.start \in 0 .. MaxTime
    BY <1>0 DEF Dated
  <2>8. \A w \in Callers : call'[w].began \in 0 .. MaxTime /\ call'[w].age \in 0 .. MaxTime
    BY <1>0, <2>1, <2>2, <2>7 DEF Dated
  <2>9. Dated'
    BY <1>0, <2>2, <2>3, <2>4, <2>8 DEF Dated
  <2>10. FailsCounted'
    BY <1>0, <2>2, <2>6, CountKept
  <2> QED
    BY <1>0, <2>2, <2>9, <2>10 DEF ClientBounds
<1>16. ASSUME UNCHANGED <<brk, cache, call, begun, unanswered>>, cancelled' \subseteq Callers,
              now' = now \/ (now < MaxTime /\ now' = now + 1)
       PROVE  ClientBounds'
  <2>1. Pending' = Pending
    BY <1>16 DEF Pending
  <2>2. FailsCounted'
    BY <1>0, <1>16, <2>1, CountKept
  <2>3. Dated'
    BY <1>0, <1>11, <1>16 DEF Dated
  <2> QED
    BY <1>0, <1>16, <2>2, <2>3 DEF ClientBounds
<1>17. CASE Client!Tick
  BY <1>0, <1>16, <1>17 DEF Client!Tick
<1>18. ASSUME NEW c \in Callers, Client!Cancel(c) PROVE ClientBounds'
  BY <1>0, <1>16, <1>18 DEF Client!Cancel
<1>19. CASE UNCHANGED Client!vars
  BY <1>0, <1>16, <1>19 DEF Client!vars
<1> QED
  BY <1>1, <1>2, <1>4, <1>5, <1>6, <1>7, <1>9, <1>12, <1>13, <1>14, <1>15, <1>17, <1>18, <1>19 DEF Client!Next, Client!Step

\* Every part of the client's state has its type, for any number of callers and
\* of calls: the breaker has counted no more failures than there were calls
\* (breaker.go: recordFailure), and no entry, probe or answer is dated in the
\* future (coalesce.go).
THEOREM ClientTypes ==
    ASSUME ClientSetting
    PROVE  Client!Spec => []Client!TypeOK
<1>0. MaxTime \in Nat /\ MaxCalls \in Nat /\ TTL \in Nat
  BY DEF ClientSetting, Client!PeerClientAssumption
<1>1. Client!Init => ClientBounds
  <2> SUFFICES ASSUME Client!Init PROVE ClientBounds
    OBVIOUS
  <2>1. \A c \in Callers : call[c].at = "idle" /\ call[c].began = 0 /\ call[c].age = 0
    BY DEF Client!Init, Client!Idle
  <2>2. Pending = {}
    BY <2>1 DEF Pending
  <2>3. IsFiniteSet(Pending) /\ Cardinality(Pending) = 0
    BY <2>2, FS_EmptySet
  <2>4. brk.fails = 0 /\ brk.openedAt = 0 /\ now = 0 /\ cache.start = 0 /\ cache.expires = 0 /\ begun = 0
        /\ cancelled = {} /\ unanswered = FALSE
    BY DEF Client!Init
  <2>5. FailsCounted /\ Dated
    BY <1>0, <2>1, <2>3, <2>4 DEF FailsCounted, Dated
  <2> QED
    BY <2>4, <2>5 DEF ClientBounds
<1>2. ReadInv /\ ClientBounds => Client!TypeOK
  <2> SUFFICES ASSUME ReadInv, ClientBounds PROVE Client!TypeOK
    OBVIOUS
  <2>1. ClientShape /\ FailsCounted /\ Dated
    BY DEF ReadInv, ClientBounds
  <2>2. brk.fails \in 0 .. MaxCalls /\ brk.openedAt \in 0 .. MaxTime
    <3>1. Cardinality(Pending) \in Nat
      BY <2>1, FS_CardinalityType DEF FailsCounted
    <3>2. brk.fails \in Nat /\ brk.openedAt \in Nat
      BY <2>1 DEF ClientShape
    <3> QED
      BY <1>0, <2>1, <3>1, <3>2 DEF FailsCounted, Dated
  <2>3. brk \in [state : {"closed", "open", "halfopen"}, openedAt : 0 .. MaxTime, fails : 0 .. MaxCalls]
    BY <2>1, <2>2 DEF ClientShape
  <2>4. cache.start \in 0 .. MaxTime /\ cache.expires \in 0 .. MaxTime + TTL
    <3>1. cache.start \in Nat /\ cache.expires \in Nat
      BY <2>1 DEF ClientShape
    <3> QED
      BY <1>0, <2>1, <3>1 DEF Dated
  <2>5. cache \in [at : {"none", "flight", "ready"}, start : 0 .. MaxTime, res : Client!Fails \cup {"none", "ok"},
                   expires : 0 .. MaxTime + TTL]
    BY <2>1, <2>4 DEF ClientShape
  <2> DEFINE R == [at : Client!Working \cup {"idle", "wait", "done"}, began : 0 .. MaxTime, probe : BOOLEAN,
                   res : Client!Fails \cup {"none", "ok"}, age : 0 .. MaxTime, via : {"none", "own", "hit", "wait"}]
  <2>6. \A x \in CallRecords : x.began \in 0 .. MaxTime /\ x.age \in 0 .. MaxTime => x \in R
    BY DEF CallRecords
  <2> HIDE DEF R
  <2>7. call \in [Callers -> R]
    BY <2>1, <2>6 DEF ClientShape, Dated
  <2> USE DEF R
  <2> QED
    BY <2>1, <2>3, <2>5, <2>7 DEF Client!TypeOK, ClientBounds, ClientShape, FailsCounted, Dated
<1> QED
  BY <1>1, <1>2, BoundsStep, ReadInduction, PTL DEF Client!Spec

-----------------------------------------------------------------------------
(* HALease: the lease of the two daemons. *)

CONSTANTS Daemons, Bootstrap, Margin, MaxDelay, GatherMayFail, MaxTerm, MaxCrashes

VARIABLES proc, role, lease, observed, lastOK, disk, tick, net, crashes

Lease == INSTANCE HALease

LeaseSetting == Lease!TimingAssumption

LeaseRecords == [holder : Daemons \cup {None}, term : Nat, expires : Nat]
TickPoints == {"idle", "renew", "push", "ack", "promote"}
TickRecords == [pc : TickPoints, at : Nat, ack : Nat, done : Nat]
PushRecords == [from : Daemons, lease : LeaseRecords, at : Nat, stage : {"sent", "checked", "applied"}]

LeaseShape ==
  /\ now \in Nat
  /\ proc \in [Daemons -> {"down", "starting", "up"}]
  /\ role \in [Daemons -> {"active", "standby"}]
  /\ lease \in [Daemons -> LeaseRecords]
  /\ observed \in [Daemons -> LeaseRecords]
  /\ lastOK \in [Daemons -> Nat]
  /\ disk \in [Daemons -> LeaseRecords \cup {None}]
  /\ tick \in [Daemons -> TickRecords]
  /\ net \subseteq PushRecords
  /\ crashes \in Nat

\* The pair has two members.
LEMMA PairOfDaemons ==
    ASSUME LeaseSetting
    PROVE  \A d \in Daemons : /\ Lease!Peer(d) \in Daemons /\ Lease!Peer(d) # d /\ Lease!Peer(Lease!Peer(d)) = d
                              /\ \A e \in Daemons : e = d \/ e = Lease!Peer(d)
<1>1. PICK a, b \in Daemons : a # b /\ Daemons = {a, b}
  BY DEF LeaseSetting, Lease!TimingAssumption
<1>2. Lease!Peer(a) = b
  BY <1>1 DEF Lease!Peer
<1>3. Lease!Peer(b) = a
  BY <1>1 DEF Lease!Peer
<1> QED
  BY <1>1, <1>2, <1>3

\* The tick of daemon d is at pc; the other daemon's tick stays.
TickAt(d, pc) ==
  /\ tick'[d].pc = pc
  /\ \A e \in Daemons : e # d => tick'[e] = tick[e]

SameTick(d) == tick'[d].at = tick[d].at /\ tick'[d].done = tick[d].done
NewTick(d) == tick'[d].at = now /\ tick'[d].done = now + 1

\* What the steps do, without the records.
MoveTick(d) ==
  /\ UNCHANGED <<now, proc, role, lease, observed, lastOK, net>>
  /\ Lease!MayTick(d) /\ NewTick(d)
  /\ \/ role[d] = "active" /\ TickAt(d, "renew")
     \/ role[d] = "standby" /\ ~Lease!Expired(d) /\ TickAt(d, "idle")
     \/ /\ role[d] = "standby" /\ Lease!Expired(d) /\ TickAt(d, "promote")
        /\ tick'[d].ack >= lease[d].term

MoveRenew(d) ==
  /\ UNCHANGED <<now, proc, role, observed, lastOK>>
  /\ proc[d] = "up" /\ tick[d].pc = "renew" /\ SameTick(d)
  /\ lease'[d].term = lease[d].term /\ \A e \in Daemons : e # d => lease'[e] = lease[e]
  /\ \/ /\ TickAt(d, "push")
        /\ \E m \in PushRecords : /\ net' = net \cup {m} /\ m.from = d /\ m.at = now
                                  /\ m.lease.term = lease[d].term /\ m.lease.expires = now + TTL
     \/ GatherMayFail /\ TickAt(d, "idle") /\ UNCHANGED net

MoveFail(d) ==
  /\ UNCHANGED <<now, proc, observed, lastOK, net>>
  /\ proc[d] = "up" /\ tick[d].pc = "push" /\ SameTick(d) /\ TickAt(d, "idle")
  /\ lease'[d].term = lease[d].term /\ \A e \in Daemons : e # d => lease'[e] = lease[e] /\ role'[e] = role[e]
  /\ role'[d] = IF Lease!Isolated(d) THEN "standby" ELSE role[d]

MoveAck(d) ==
  /\ UNCHANGED <<now, proc, observed, net>>
  /\ proc[d] = "up" /\ tick[d].pc = "ack" /\ SameTick(d) /\ TickAt(d, "idle")
  /\ lastOK'[d] = tick[d].at /\ role'[d] \in {"standby", role[d]} /\ lease'[d].term >= lease[d].term
  /\ role'[d] = "active" => lease'[d] = lease[d]
  /\ \A e \in Daemons : e # d => lease'[e] = lease[e] /\ role'[e] = role[e] /\ lastOK'[e] = lastOK[e]

MovePromote(d) ==
  /\ UNCHANGED <<now, proc, observed, net>>
  /\ proc[d] = "up" /\ tick[d].pc = "promote" /\ SameTick(d) /\ TickAt(d, "idle")
  /\ lastOK'[d] = now /\ role'[d] = "active" /\ lease'[d].term = tick[d].ack + 1
  /\ \A e \in Daemons : e # d => lease'[e] = lease[e] /\ role'[e] = role[e] /\ lastOK'[e] = lastOK[e]

\* The answer of the push m reaches its sender or nobody.
AnswerMoves(m, term) ==
  \/ UNCHANGED tick
  \/ /\ tick[m.from].pc = "push" /\ tick[m.from].at = m.at
     /\ TickAt(m.from, "ack") /\ SameTick(m.from) /\ tick'[m.from].ack = term

MoveCheck(m) ==
  /\ UNCHANGED <<now, proc, role, lease, observed, lastOK>>
  /\ m \in net
  /\ \/ /\ UNCHANGED tick
        /\ \E n \in PushRecords : net' \subseteq net \cup {n} /\ n.from = m.from /\ n.at = m.at /\ n.lease = m.lease
     \/ /\ Lease!Stale(Lease!Peer(m.from), m) /\ net' \subseteq net
        /\ AnswerMoves(m, lease[Lease!Peer(m.from)].term)

MoveRecord(m) ==
  LET d == Lease!Peer(m.from) IN
  /\ UNCHANGED <<now, proc, lastOK>>
  /\ m \in net /\ net' \subseteq net
  /\ observed'[d] = m.lease
  /\ \/ m.lease.term > lease[d].term /\ lease'[d] = m.lease /\ role'[d] = "standby" /\ AnswerMoves(m, m.lease.term)
     \/ m.lease.term <= lease[d].term /\ UNCHANGED <<lease, role>> /\ AnswerMoves(m, lease[d].term)
  /\ \A e \in Daemons : e # d => lease'[e] = lease[e] /\ role'[e] = role[e] /\ observed'[e] = observed[e]

MoveProcess(d) ==
  /\ UNCHANGED now
  /\ \A e \in Daemons : e # d => /\ lease'[e] = lease[e] /\ role'[e] = role[e] /\ observed'[e] = observed[e]
                                 /\ lastOK'[e] = lastOK[e] /\ proc'[e] = proc[e] /\ tick'[e] = tick[e]
  /\ \/ /\ crashes < MaxCrashes /\ proc'[d] = "down" /\ role'[d] = "standby" /\ tick'[d] = Lease!IdleTick
        /\ lastOK'[d] = lastOK[d] /\ crashes' = crashes + 1
     \/ /\ proc[d] # "up" /\ proc'[d] = "starting" /\ tick'[d] = tick[d] /\ role'[d] = role[d] /\ lastOK'[d] = lastOK[d]
        /\ UNCHANGED crashes
     \/ /\ proc[d] # "up" /\ proc'[d] = "up" /\ tick'[d].pc = "idle" /\ tick'[d].done = now + 1 /\ tick'[d].at = 0
        /\ \/ role'[d] = "active" /\ lastOK'[d] = now
           \/ role'[d] = role[d] /\ lastOK'[d] = lastOK[d]
        /\ UNCHANGED crashes

MoveTime ==
  /\ now' = now + 1 /\ UNCHANGED <<proc, role, lease, observed, lastOK, tick, net>>
  /\ \A d \in Daemons : proc[d] = "up" => \/ tick[d].pc = "idle" /\ tick[d].done > now
                                          \/ tick[d].pc \in {"push", "ack"} /\ now < tick[d].at + MaxDelay
  /\ \A m \in net : now < m.at + MaxDelay

LeaseMove ==
  \/ /\ UNCHANGED crashes
     /\ \/ \E d \in Daemons : MoveTick(d) \/ MoveRenew(d) \/ MoveFail(d) \/ MoveAck(d) \/ MovePromote(d)
        \/ \E m \in PushRecords : MoveCheck(m) \/ MoveRecord(m)
        \/ MoveTime
        \/ UNCHANGED <<now, proc, role, lease, observed, lastOK, tick>> /\ net' \subseteq net
  \/ \E d \in Daemons : MoveProcess(d)

\* A step of the pair is one of these moves.
LEMMA LeaseMoves ==
    ASSUME LeaseSetting, LeaseShape, [Lease!Next]_(Lease!vars)
    PROVE  LeaseShape' /\ LeaseMove
<1>0. /\ now \in Nat /\ TTL \in Nat /\ MaxTerm \in Nat /\ lease \in [Daemons -> LeaseRecords]
      /\ tick \in [Daemons -> TickRecords] /\ lastOK \in [Daemons -> Nat] /\ role \in [Daemons -> {"active", "standby"}]
      /\ observed \in [Daemons -> LeaseRecords] /\ crashes \in Nat /\ net \subseteq PushRecords
  BY DEF LeaseShape, LeaseSetting, Lease!TimingAssumption
<1>1. ASSUME NEW d \in Daemons
      PROVE  /\ Lease!Ticked(d) \in TickRecords /\ Lease!Ticked(d).pc = tick[d].pc
             /\ Lease!Ticked(d).at = now /\ Lease!Ticked(d).done = now + 1
  <2>1. tick[d] \in TickRecords /\ now \in Nat /\ now + 1 \in Nat
    BY <1>0
  <2> DEFINE k == now + 1
  <2>2. k \in Nat /\ k = now + 1 /\ Lease!Ticked(d) = [tick[d] EXCEPT !.done = k, !.at = now]
    BY <2>1 DEF Lease!Ticked
  <2> HIDE DEF k
  <2> QED
    BY <2>1, <2>2 DEF TickRecords
<1>p. ASSUME NEW d \in Daemons, NEW pc \in TickPoints, tick' = [tick EXCEPT ![d] = [tick[d] EXCEPT !.pc = pc]]
      PROVE  TickAt(d, pc) /\ SameTick(d) /\ tick' \in [Daemons -> TickRecords]
  <2> DEFINE x == [tick[d] EXCEPT !.pc = pc]
  <2>1. x \in TickRecords /\ x.pc = pc /\ x.at = tick[d].at /\ x.done = tick[d].done
    BY <1>0 DEF TickRecords
  <2>2. tick' = [tick EXCEPT ![d] = x]
    BY <1>p
  <2> HIDE DEF x
  <2> QED
    BY <1>0, <2>1, <2>2 DEF TickAt, SameTick
<1>2. Lease!IdleTick \in TickRecords /\ Lease!IdleTick.pc = "idle" /\ Lease!IdleTick.at = 0 /\ Lease!IdleTick.done = 0
      /\ Lease!NoLease \in LeaseRecords
  BY DEF Lease!IdleTick, Lease!NoLease, TickRecords, TickPoints, LeaseRecords
<1>3. \A d \in Daemons, l \in LeaseRecords : \A x \in Lease!Saved(d, l) : x \in [Daemons -> LeaseRecords \cup {None}]
  BY DEF LeaseShape, Lease!Saved
<1>4. ASSUME NEW d \in Daemons, Lease!TickAsActive(d)
      PROVE  LeaseShape' /\ MoveTick(d) /\ UNCHANGED crashes
  <2> DEFINE y == Lease!Ticked(d)
             x == [y EXCEPT !.pc = "renew"]
  <2>0. y \in TickRecords /\ y.at = now /\ y.done = now + 1
    BY <1>1
  <2>1. x \in TickRecords /\ x.pc = "renew" /\ x.at = now /\ x.done = now + 1
    <3> HIDE DEF y
    <3> QED
      BY <2>0 DEF TickRecords, TickPoints
  <2>2. tick' = [tick EXCEPT ![d] = x]
    BY <1>4 DEF Lease!TickAsActive
  <2> HIDE DEF x
  <2>3. TickAt(d, "renew") /\ NewTick(d) /\ tick' \in [Daemons -> TickRecords]
    BY <1>0, <2>1, <2>2 DEF TickAt, NewTick
  <2> QED
    BY <1>4, <2>3 DEF Lease!TickAsActive, MoveTick, LeaseShape
<1>5. ASSUME NEW d \in Daemons, Lease!TickStandby(d)
      PROVE  LeaseShape' /\ MoveTick(d) /\ UNCHANGED crashes
  <2>1. Lease!Ticked(d) \in TickRecords /\ Lease!Ticked(d).pc = "idle" /\ Lease!Ticked(d).at = now
        /\ Lease!Ticked(d).done = now + 1
    BY <1>1, <1>5 DEF Lease!TickStandby, Lease!MayTick
  <2>2. CASE ~Lease!Expired(d)
    <3>1. TickAt(d, "idle") /\ NewTick(d) /\ tick' \in [Daemons -> TickRecords]
      BY <1>0, <1>5, <2>1, <2>2 DEF TickAt, NewTick, Lease!TickStandby
    <3> QED
      BY <1>5, <2>2, <3>1 DEF Lease!TickStandby, MoveTick, LeaseShape
  <2>3. CASE Lease!Expired(d)
    <3> DEFINE top == IF observed[d].term > lease[d].term THEN observed[d].term ELSE lease[d].term
               y == Lease!Ticked(d)
               x == [y EXCEPT !.pc = "promote", !.ack = top]
    <3>1. top \in Nat /\ top >= lease[d].term
      BY <1>0 DEF LeaseRecords
    <3>2. tick' = [tick EXCEPT ![d] = x]
      BY <1>5, <2>3 DEF Lease!TickStandby
    <3>3. x \in TickRecords /\ x.pc = "promote" /\ x.at = now /\ x.done = now + 1 /\ x.ack = top
      <4> HIDE DEF top, y
      <4> QED
        BY <2>1, <3>1 DEF TickRecords, TickPoints, y
    <3> HIDE DEF x, top, y
    <3>4. TickAt(d, "promote") /\ NewTick(d) /\ tick' \in [Daemons -> TickRecords] /\ tick'[d].ack >= lease[d].term
      BY <1>0, <3>1, <3>2, <3>3 DEF TickAt, NewTick
    <3> QED
      BY <1>5, <2>3, <3>4 DEF Lease!TickStandby, MoveTick, LeaseShape
  <2> QED
    BY <2>2, <2>3
<1>6. ASSUME NEW d \in Daemons, Lease!TickActive(d)
      PROVE  LeaseShape' /\ MoveRenew(d) /\ UNCHANGED crashes
  <2> DEFINE renewed == [lease[d] EXCEPT !.expires = now + TTL]
             m == [from |-> d, lease |-> renewed, at |-> now, stage |-> "sent"]
  <2>1. renewed \in LeaseRecords /\ renewed.term = lease[d].term /\ renewed.expires = now + TTL
    BY <1>0 DEF LeaseRecords
  <2>2. lease' = [lease EXCEPT ![d] = renewed] /\ disk' \in Lease!Saved(d, renewed)
    BY <1>6 DEF Lease!TickActive
  <2>3. \/ tick' = [tick EXCEPT ![d].pc = "push"] /\ net' = net \cup {m}
        \/ GatherMayFail /\ tick' = [tick EXCEPT ![d] = Lease!Idle(d)] /\ UNCHANGED net
    BY <1>6 DEF Lease!TickActive
  <2> HIDE DEF renewed
  <2>4. m \in PushRecords /\ m.from = d /\ m.at = now /\ m.lease = renewed
    BY <1>0, <2>1 DEF PushRecords
  <2> HIDE DEF m
  <2>5. SameTick(d) /\ tick' \in [Daemons -> TickRecords]
        /\ \/ TickAt(d, "push") /\ net' = net \cup {m}
           \/ GatherMayFail /\ TickAt(d, "idle") /\ UNCHANGED net
    <3>1. CASE tick' = [tick EXCEPT ![d].pc = "push"] /\ net' = net \cup {m}
      BY <1>p, <3>1 DEF TickPoints
    <3>2. CASE GatherMayFail /\ tick' = [tick EXCEPT ![d] = Lease!Idle(d)] /\ UNCHANGED net
      BY <1>p, <3>2 DEF TickPoints, Lease!Idle
    <3> QED
      BY <2>3, <3>1, <3>2
  <2>6. lease' \in [Daemons -> LeaseRecords] /\ lease'[d] = renewed /\ \A e \in Daemons : e # d => lease'[e] = lease[e]
    BY <1>0, <2>1, <2>2
  <2>7. disk' \in [Daemons -> LeaseRecords \cup {None}]
    BY <1>3, <2>1, <2>2
  <2>8. LeaseShape'
    BY <1>6, <2>4, <2>5, <2>6, <2>7 DEF LeaseShape, Lease!TickActive
  <2> QED
    BY <1>6, <2>1, <2>4, <2>5, <2>6, <2>8 DEF Lease!TickActive, MoveRenew
\* demote
<1>7. ASSUME NEW d \in Daemons, NEW n \in Nat, Lease!Demote(d, n)
      PROVE  /\ role' \in [Daemons -> {"active", "standby"}] /\ lease' \in [Daemons -> LeaseRecords]
             /\ role'[d] = "standby" /\ lease'[d].term >= lease[d].term /\ (n = 0 => lease'[d].term = lease[d].term)
             /\ \A e \in Daemons : e # d => lease'[e] = lease[e] /\ role'[e] = role[e]
  <2> DEFINE l == IF role[d] = "active" /\ n > lease[d].term THEN [lease[d] EXCEPT !.term = n, !.holder = None] ELSE lease[d]
  <2>1. l \in LeaseRecords /\ l.term >= lease[d].term /\ (n = 0 => l.term = lease[d].term)
    <3>1. lease[d] \in LeaseRecords /\ lease[d].term \in Nat
      BY <1>0 DEF LeaseRecords
    <3>2. CASE role[d] = "active" /\ n > lease[d].term
      <4>1. l = [lease[d] EXCEPT !.term = n, !.holder = None]
        BY <3>2
      <4>2. l \in LeaseRecords /\ l.term = n
        BY <3>1, <4>1 DEF LeaseRecords
      <4> QED
        BY <3>1, <3>2, <4>2
    <3>3. CASE ~(role[d] = "active" /\ n > lease[d].term)
      BY <3>1, <3>3
    <3> QED
      BY <3>2, <3>3
  <2>2. lease' = [lease EXCEPT ![d] = l] /\ role' = [role EXCEPT ![d] = "standby"]
    BY <1>7 DEF Lease!Demote
  <2> HIDE DEF l
  <2> QED
    BY <1>0, <2>1, <2>2
<1>8. ASSUME NEW d \in Daemons, Lease!HandlePushFailure(d)
      PROVE  LeaseShape' /\ MoveFail(d) /\ UNCHANGED crashes
  <2>1. TickAt(d, "idle") /\ SameTick(d) /\ tick' \in [Daemons -> TickRecords]
    BY <1>8, <1>p DEF Lease!HandlePushFailure, Lease!Idle, TickPoints
  <2>2. CASE Lease!Isolated(d)
    <3>1. Lease!Demote(d, 0)
      BY <1>8, <2>2 DEF Lease!HandlePushFailure
    <3> QED
      BY <1>7, <1>8, <2>1, <2>2, <3>1 DEF Lease!HandlePushFailure, MoveFail, LeaseShape
  <2>3. CASE ~Lease!Isolated(d)
    BY <1>8, <2>1, <2>3 DEF Lease!HandlePushFailure, MoveFail, LeaseShape
  <2> QED
    BY <2>2, <2>3
<1>9. ASSUME NEW d \in Daemons, Lease!HandlePushAck(d)
      PROVE  LeaseShape' /\ MoveAck(d) /\ UNCHANGED crashes
  <2>1. TickAt(d, "idle") /\ SameTick(d) /\ tick' \in [Daemons -> TickRecords]
    BY <1>9, <1>p DEF Lease!HandlePushAck, Lease!Idle, TickPoints
  <2>2. tick[d].at \in Nat /\ tick[d].ack \in Nat /\ lease[d].term \in Nat
    BY <1>0 DEF TickRecords, LeaseRecords
  <2>3. lastOK' \in [Daemons -> Nat] /\ lastOK'[d] = tick[d].at /\ \A e \in Daemons : e # d => lastOK'[e] = lastOK[e]
    BY <1>0, <1>9, <2>2 DEF Lease!HandlePushAck
  <2>4. CASE Lease!Superseded(d)
    <3>1. Lease!Demote(d, tick[d].ack)
      BY <1>9, <2>4 DEF Lease!HandlePushAck
    <3> QED
      BY <1>7, <1>9, <2>1, <2>2, <2>3, <2>4, <3>1 DEF Lease!HandlePushAck, MoveAck, LeaseShape
  <2>5. CASE ~Lease!Superseded(d)
    BY <1>9, <2>1, <2>2, <2>3, <2>5 DEF Lease!HandlePushAck, MoveAck, LeaseShape
  <2> QED
    BY <2>4, <2>5
\* promoteFrom
<1>10. ASSUME NEW d \in Daemons, NEW base \in Nat, Lease!PromoteFrom(d, base)
       PROVE  /\ role' \in [Daemons -> {"active", "standby"}] /\ lease' \in [Daemons -> LeaseRecords]
              /\ lastOK' \in [Daemons -> Nat] /\ disk' \in [Daemons -> LeaseRecords \cup {None}]
              /\ role'[d] = "active" /\ lease'[d].term = base + 1 /\ lastOK'[d] = now
              /\ \A e \in Daemons : e # d => lease'[e] = lease[e] /\ role'[e] = role[e] /\ lastOK'[e] = lastOK[e]
  <2> DEFINE l == [holder |-> d, term |-> base + 1, expires |-> now + TTL]
  <2>1. l \in LeaseRecords /\ l.term = base + 1
    BY <1>0 DEF LeaseRecords
  <2>2. lease' = [lease EXCEPT ![d] = l] /\ role' = [role EXCEPT ![d] = "active"] /\ disk' \in Lease!Saved(d, l)
        /\ lastOK' = [lastOK EXCEPT ![d] = now]
    BY <1>10 DEF Lease!PromoteFrom
  <2> HIDE DEF l
  <2>3. disk' \in [Daemons -> LeaseRecords \cup {None}]
    BY <1>3, <2>1, <2>2
  <2> QED
    BY <1>0, <2>1, <2>2, <2>3
<1>11. ASSUME NEW d \in Daemons, Lease!Promote(d)
       PROVE  LeaseShape' /\ MovePromote(d) /\ UNCHANGED crashes
  <2>1. TickAt(d, "idle") /\ SameTick(d) /\ tick' \in [Daemons -> TickRecords]
    BY <1>11, <1>p DEF Lease!Promote, Lease!Idle, TickPoints
  <2>2. tick[d].ack \in Nat
    BY <1>0 DEF TickRecords
  <2>3. Lease!PromoteFrom(d, tick[d].ack)
    BY <1>11 DEF Lease!Promote
  <2> QED
    BY <1>10, <1>11, <2>1, <2>2, <2>3 DEF Lease!Promote, MovePromote, LeaseShape
<1>12. ASSUME NEW m \in net, NEW term \in Nat, tick' = Lease!Answered(m, term)
       PROVE  AnswerMoves(m, term) /\ tick' \in [Daemons -> TickRecords]
  <2>1. m.from \in Daemons
    BY <1>0 DEF PushRecords
  <2>2. CASE tick' = tick
    BY <1>0, <2>2 DEF AnswerMoves
  <2>3. CASE tick' # tick
    <3> DEFINE x == [tick[m.from] EXCEPT !.pc = "ack", !.ack = term]
    <3>1. tick' = [tick EXCEPT ![m.from] = x] /\ tick[m.from].pc = "push" /\ tick[m.from].at = m.at
      BY <1>0, <1>12, <2>1, <2>3 DEF Lease!Answered
    <3>2. x \in TickRecords /\ x.pc = "ack" /\ x.ack = term /\ x.at = tick[m.from].at /\ x.done = tick[m.from].done
      <4>1. tick[m.from] \in TickRecords
        BY <1>0, <2>1
      <4> QED
        BY <4>1 DEF TickRecords, TickPoints
    <3> HIDE DEF x
    <3> QED
      BY <1>0, <2>1, <3>1, <3>2 DEF AnswerMoves, TickAt, SameTick
  <2> QED
    BY <2>2, <2>3
<1>13. ASSUME NEW m \in net
       PROVE  /\ m \in PushRecords /\ m.from \in Daemons /\ m.lease \in LeaseRecords /\ m.lease.term \in Nat
              /\ Lease!Peer(m.from) \in Daemons /\ lease[Lease!Peer(m.from)].term \in Nat
  <2>1. m \in PushRecords /\ m.from \in Daemons /\ m.lease \in LeaseRecords
    BY <1>0 DEF PushRecords
  <2>2. Lease!Peer(m.from) \in Daemons
    BY <2>1, PairOfDaemons
  <2>3. lease[Lease!Peer(m.from)] \in LeaseRecords
    BY <1>0, <2>2
  <2> QED
    BY <2>1, <2>2, <2>3 DEF LeaseRecords
<1>14. ASSUME NEW m \in net, NEW stage \in {"checked", "applied"}
       PROVE  LET n == [m EXCEPT !.stage = stage]
              IN  n \in PushRecords /\ n.from = m.from /\ n.at = m.at /\ n.lease = m.lease
  <2>1. m \in PushRecords
    BY <1>0
  <2> QED
    BY <2>1 DEF PushRecords
<1>15. ASSUME NEW m \in net, Lease!ReceiveCheck(m) \/ Lease!ReceiveApply(m)
       PROVE  LeaseShape' /\ MoveCheck(m) /\ UNCHANGED crashes
  <2>1. UNCHANGED <<now, proc, role, lease, observed, lastOK, disk, crashes>>
    BY <1>15 DEF Lease!ReceiveCheck, Lease!ReceiveApply
  <2>2. CASE Lease!ReceiveCheck(m) /\ Lease!Stale(Lease!Peer(m.from), m)
    <3>1. tick' = Lease!Answered(m, lease[Lease!Peer(m.from)].term) /\ net' = net \ {m}
      BY <2>2 DEF Lease!ReceiveCheck
    <3> QED
      BY <1>0, <1>12, <1>13, <2>1, <2>2, <3>1 DEF MoveCheck, LeaseShape
  <2>3. ASSUME NEW stage \in {"checked", "applied"}, UNCHANGED tick,
               net' = (net \ {m}) \cup {[m EXCEPT !.stage = stage]}
        PROVE  LeaseShape' /\ MoveCheck(m)
    <3> DEFINE n == [m EXCEPT !.stage = stage]
    <3>1. n \in PushRecords /\ n.from = m.from /\ n.at = m.at /\ n.lease = m.lease
      BY <1>14
    <3>2. net' = (net \ {m}) \cup {n}
      BY <2>3
    <3> HIDE DEF n
    <3> QED
      BY <1>0, <2>1, <2>3, <3>1, <3>2 DEF MoveCheck, LeaseShape
  <2>4. CASE Lease!ReceiveCheck(m) /\ ~Lease!Stale(Lease!Peer(m.from), m)
    <3>1. net' = (net \ {m}) \cup {[m EXCEPT !.stage = "checked"]} /\ UNCHANGED tick
      BY <2>4 DEF Lease!ReceiveCheck
    <3> QED
      BY <2>1, <2>3, <3>1
  <2>5. CASE Lease!ReceiveApply(m)
    <3>1. net' = (net \ {m}) \cup {[m EXCEPT !.stage = "applied"]} /\ UNCHANGED tick
      BY <2>5 DEF Lease!ReceiveApply
    <3> QED
      BY <2>1, <2>3, <3>1
  <2> QED
    BY <1>15, <2>1, <2>2, <2>4, <2>5
<1>16. ASSUME NEW m \in net, Lease!ReceiveRecord(m)
       PROVE  LeaseShape' /\ MoveRecord(m) /\ UNCHANGED crashes
  <2> DEFINE d == Lease!Peer(m.from)
             term == IF m.lease.term > lease[d].term THEN m.lease.term ELSE lease[d].term
  <2>1. /\ observed' = [observed EXCEPT ![d] = m.lease]
        /\ lease' = [lease EXCEPT ![d] = IF m.lease.term > lease[d].term THEN m.lease ELSE lease[d]]
        /\ role' = [role EXCEPT ![d] = IF m.lease.term > lease[d].term THEN "standby" ELSE role[d]]
        /\ tick' = Lease!Answered(m, term) /\ net' = net \ {m} /\ UNCHANGED <<now, proc, lastOK, disk, crashes>>
    BY <1>16 DEF Lease!ReceiveRecord
  <2>2. d \in Daemons /\ m.lease \in LeaseRecords /\ m.lease.term \in Nat /\ lease[d].term \in Nat
    BY <1>13
  <2> HIDE DEF d
  <2>3. term \in Nat
    BY <2>2
  <2>4. AnswerMoves(m, term) /\ tick' \in [Daemons -> TickRecords]
    BY <1>12, <2>1, <2>3
  <2>5. CASE m.lease.term > lease[d].term
    <3>1. term = m.lease.term
      BY <2>5
    <3> HIDE DEF term
    <3>2. LeaseShape'
      BY <1>0, <2>1, <2>2, <2>4, <2>5 DEF LeaseShape
    <3> QED
      BY <1>0, <2>1, <2>2, <2>4, <2>5, <3>1, <3>2 DEF MoveRecord, d
  <2>6. CASE ~(m.lease.term > lease[d].term)
    <3>1. term = lease[d].term /\ m.lease.term <= lease[d].term
      BY <2>2, <2>6
    <3> HIDE DEF term
    <3>2. UNCHANGED <<lease, role>>
      BY <1>0, <2>1, <2>2, <2>6
    <3>3. LeaseShape'
      BY <1>0, <2>1, <2>2, <2>4, <3>2 DEF LeaseShape
    <3> QED
      BY <1>0, <2>1, <2>2, <2>4, <3>1, <3>2, <3>3 DEF MoveRecord, d
  <2> QED
    BY <2>1, <2>5, <2>6
<1>17. ASSUME NEW d \in Daemons, Lease!Crash(d)
       PROVE  LeaseShape' /\ MoveProcess(d)
  BY <1>0, <1>2, <1>17 DEF Lease!Crash, LeaseShape, MoveProcess
<1>18. ASSUME NEW d \in Daemons, Lease!BeginStart(d)
       PROVE  LeaseShape' /\ MoveProcess(d)
  BY <1>0, <1>18 DEF Lease!BeginStart, LeaseShape, MoveProcess
<1>19. ASSUME NEW d \in Daemons, Lease!Start(d)
       PROVE  LeaseShape' /\ MoveProcess(d)
  <2> DEFINE x == [Lease!IdleTick EXCEPT !.done = now + 1]
  <2>1. x \in TickRecords /\ x.pc = "idle" /\ x.done = now + 1 /\ x.at = 0
    BY <1>0, <1>2 DEF TickRecords
  <2>2. tick' = [tick EXCEPT ![d] = x] /\ proc' = [proc EXCEPT ![d] = "up"] /\ proc[d] = "starting"
        /\ UNCHANGED <<now, net, crashes>>
    BY <1>19 DEF Lease!Start
  <2> HIDE DEF x
  <2>3. ASSUME role' \in [Daemons -> {"active", "standby"}], lease' \in [Daemons -> LeaseRecords],
               observed' \in [Daemons -> LeaseRecords], lastOK' \in [Daemons -> Nat],
               disk' \in [Daemons -> LeaseRecords \cup {None}],
               \A e \in Daemons : e # d => /\ lease'[e] = lease[e] /\ role'[e] = role[e]
                                           /\ observed'[e] = observed[e] /\ lastOK'[e] = lastOK[e],
               \/ role'[d] = "active" /\ lastOK'[d] = now
               \/ role'[d] = role[d] /\ lastOK'[d] = lastOK[d]
        PROVE  LeaseShape' /\ MoveProcess(d)
    <3>1. LeaseShape'
      BY <1>0, <2>1, <2>2, <2>3 DEF LeaseShape
    <3> QED
      BY <1>0, <2>1, <2>2, <2>3, <3>1 DEF LeaseShape, MoveProcess
  <2>4. CASE /\ disk[d] # None /\ lease' = [lease EXCEPT ![d] = disk[d]]
             /\ role' = [role EXCEPT ![d] = "active"] /\ lastOK' = [lastOK EXCEPT ![d] = now] /\ UNCHANGED <<observed, disk>>
    BY <1>0, <2>3, <2>4 DEF LeaseShape
  <2>5. CASE /\ disk[d] # None /\ lease' = [lease EXCEPT ![d] = disk[d]]
             /\ observed' = [observed EXCEPT ![d] = disk[d]] /\ UNCHANGED <<role, lastOK, disk>>
    BY <1>0, <2>3, <2>5 DEF LeaseShape
  <2>6. CASE Lease!PromoteFrom(d, 0) /\ UNCHANGED observed
    BY <1>0, <1>10, <2>3, <2>6
  <2>7. CASE observed' = [observed EXCEPT ![d] = [Lease!NoLease EXCEPT !.expires = now + TTL]] /\ UNCHANGED <<role, lease, lastOK, disk>>
    <3>1. [Lease!NoLease EXCEPT !.expires = now + TTL] \in LeaseRecords
      BY <1>0, <1>2 DEF LeaseRecords
    <3> QED
      BY <1>0, <2>3, <2>7, <3>1 DEF LeaseShape
  <2> QED
    BY <1>19, <2>4, <2>5, <2>6, <2>7 DEF Lease!Start
<1>20. ASSUME Lease!Advance
       PROVE  LeaseShape' /\ MoveTime /\ UNCHANGED crashes
  <2>1. now' = now + 1 /\ UNCHANGED <<proc, role, lease, observed, lastOK, disk, tick, net, crashes>>
        /\ \A m \in net : now < m.at + MaxDelay
    BY <1>20 DEF Lease!Advance
  <2>2. ASSUME NEW d \in Daemons, proc[d] = "up"
        PROVE  \/ tick[d].pc = "idle" /\ tick[d].done > now
               \/ tick[d].pc \in {"push", "ack"} /\ now < tick[d].at + MaxDelay
    BY <1>20, <2>2 DEF Lease!Advance
  <2> QED
    BY <1>0, <2>1, <2>2 DEF MoveTime, LeaseShape
<1>21. ASSUME NEW m \in net, Lease!Lose(m)
       PROVE  LeaseShape' /\ LeaseMove
  BY <1>0, <1>21 DEF Lease!Lose, LeaseShape, LeaseMove
<1>22. CASE UNCHANGED Lease!vars
  BY <1>0, <1>22 DEF Lease!vars, LeaseShape, LeaseMove
<1>23. ASSUME NEW d \in Daemons, Lease!Tick(d)
       PROVE  LeaseShape' /\ LeaseMove
  BY <1>4, <1>5, <1>6, <1>8, <1>9, <1>11, <1>23 DEF Lease!Tick, LeaseMove
<1>24. CASE Lease!Handle
  BY <1>13, <1>15, <1>16, <1>21, <1>24 DEF Lease!Handle, LeaseMove
<1> QED
  BY <1>17, <1>18, <1>19, <1>20, <1>22, <1>23, <1>24 DEF Lease!Next, LeaseMove

\* The time of the last tick, and what it means for a daemon that leads: with
\* the tick of this interval behind it, it heard from its peer less than a TTL
\* ago; a tick to come or under way began before the TTL and one push were over.
DaemonOnTime(d) ==
  /\ proc[d] # "up" => role[d] = "standby"
  /\ lastOK[d] <= now /\ tick[d].at <= now /\ tick[d].done <= now + 1
  /\ proc[d] = "up" =>
       /\ tick[d].pc # "idle" => tick[d].done = tick[d].at + 1
       /\ tick[d].pc \in {"renew", "promote"} => tick[d].at = now
       /\ tick[d].pc = "promote" => role[d] = "standby"
       /\ tick[d].pc \in {"push", "ack"} => now <= tick[d].at + MaxDelay
  /\ role[d] = "active" =>
       /\ tick[d].pc = "idle" /\ tick[d].done > now => now < lastOK[d] + TTL
       /\ tick[d].pc = "idle" /\ tick[d].done <= now => now <= lastOK[d] + TTL \/ now < lastOK[d] + TTL + MaxDelay
       /\ tick[d].pc # "idle" => tick[d].at <= lastOK[d] + TTL \/ tick[d].at < lastOK[d] + TTL + MaxDelay

StepDownInv == LeaseShape /\ \A d \in Daemons : DaemonOnTime(d)

\* The ticks of both daemons keep to this, over every loss, delay and crash.
LEMMA StepDownInduction ==
    ASSUME LeaseSetting, GatherMayFail = FALSE
    PROVE  Lease!Spec => []StepDownInv
<1>1. Lease!Init => StepDownInv
  <2> SUFFICES ASSUME Lease!Init PROVE StepDownInv
    OBVIOUS
  <2> DEFINE first == [holder |-> Bootstrap, term |-> 1, expires |-> TTL]
  <2>1. first \in LeaseRecords /\ Lease!NoLease \in LeaseRecords /\ Lease!IdleTick \in TickRecords
        /\ Lease!IdleTick.pc = "idle" /\ Lease!IdleTick.at = 0 /\ Lease!IdleTick.done = 0 /\ TTL \in Nat /\ TTL > 0 /\ MaxDelay \in Nat
    BY DEF LeaseSetting, Lease!TimingAssumption, LeaseRecords, Lease!NoLease, Lease!IdleTick, TickRecords, TickPoints
  <2>2. /\ now = 0 /\ proc = [d \in Daemons |-> "up"] /\ lastOK = [d \in Daemons |-> 0] /\ net = {} /\ crashes = 0
        /\ role = [d \in Daemons |-> IF d = Bootstrap THEN "active" ELSE "standby"]
        /\ lease = [d \in Daemons |-> first]
        /\ observed = [d \in Daemons |-> IF d = Bootstrap THEN Lease!NoLease ELSE first]
        /\ disk = [d \in Daemons |-> IF d = Bootstrap THEN first ELSE None]
        /\ tick = [d \in Daemons |-> Lease!IdleTick]
    BY DEF Lease!Init
  <2> HIDE DEF first
  <2>3. LeaseShape
    BY <2>1, <2>2 DEF LeaseShape
  <2>4. \A d \in Daemons : DaemonOnTime(d)
    BY <2>1, <2>2 DEF DaemonOnTime
  <2> QED
    BY <2>3, <2>4 DEF StepDownInv
<1>2. StepDownInv /\ [Lease!Next]_(Lease!vars) => StepDownInv'
  <2> SUFFICES ASSUME StepDownInv, [Lease!Next]_(Lease!vars) PROVE StepDownInv'
    OBVIOUS
  <2>0. LeaseShape' /\ LeaseMove
    BY LeaseMoves DEF StepDownInv
  <2>1. /\ now \in Nat /\ TTL \in Nat /\ TTL > 0 /\ MaxDelay \in Nat
        /\ \A d \in Daemons : /\ lastOK[d] \in Nat /\ tick[d].at \in Nat /\ tick[d].done \in Nat /\ tick[d].pc \in TickPoints
                              /\ role[d] \in {"active", "standby"} /\ DaemonOnTime(d)
    BY DEF StepDownInv, LeaseShape, TickRecords, LeaseSetting, Lease!TimingAssumption
  <2> SUFFICES ASSUME NEW e \in Daemons PROVE DaemonOnTime(e)'
    BY <2>0 DEF StepDownInv
  \* What is not touched stays on time.
  <2>2. ASSUME UNCHANGED <<now, proc[e], role[e], lastOK[e], tick[e]>>
        PROVE  DaemonOnTime(e)'
    BY <2>1, <2>2 DEF DaemonOnTime
  <2>3. ASSUME NEW d \in Daemons, MoveTick(d) PROVE DaemonOnTime(e)'
    <3>1. CASE e # d
      BY <2>2, <2>3, <3>1 DEF MoveTick, TickAt
    <3>2. CASE e = d
      BY <2>1, <2>3, <3>2 DEF MoveTick, TickAt, NewTick, Lease!MayTick, DaemonOnTime
    <3> QED
      BY <3>1, <3>2
  <2>4. ASSUME NEW d \in Daemons, MoveRenew(d) PROVE DaemonOnTime(e)'
    <3>1. CASE e # d
      BY <2>2, <2>4, <3>1 DEF MoveRenew, TickAt
    <3>2. CASE e = d
      BY <2>1, <2>4, <3>2 DEF MoveRenew, TickAt, SameTick, DaemonOnTime
    <3> QED
      BY <3>1, <3>2
  <2>5. ASSUME NEW d \in Daemons, MoveFail(d) PROVE DaemonOnTime(e)'
    <3>1. CASE e # d
      BY <2>2, <2>5, <3>1 DEF MoveFail, TickAt
    <3>2. CASE e = d
      BY <2>1, <2>5, <3>2 DEF MoveFail, TickAt, SameTick, Lease!Isolated, DaemonOnTime
    <3> QED
      BY <3>1, <3>2
  <2>6. ASSUME NEW d \in Daemons, MoveAck(d) PROVE DaemonOnTime(e)'
    <3>1. CASE e # d
      BY <2>2, <2>6, <3>1 DEF MoveAck, TickAt
    <3>2. CASE e = d
      BY <2>1, <2>6, <3>2 DEF MoveAck, TickAt, SameTick, DaemonOnTime
    <3> QED
      BY <3>1, <3>2
  <2>7. ASSUME NEW d \in Daemons, MovePromote(d) PROVE DaemonOnTime(e)'
    <3>1. CASE e # d
      BY <2>2, <2>7, <3>1 DEF MovePromote, TickAt
    <3>2. CASE e = d
      BY <2>1, <2>7, <3>2 DEF MovePromote, TickAt, SameTick, DaemonOnTime
    <3> QED
      BY <3>1, <3>2
  \* An answer, and at most a demotion with it.
  <2>8. ASSUME NEW m \in PushRecords, NEW term, AnswerMoves(m, term), UNCHANGED <<now, proc[e], lastOK[e]>>,
               role'[e] \in {"standby", role[e]}
        PROVE  DaemonOnTime(e)'
    <3>1. CASE UNCHANGED tick[e]
      BY <2>1, <2>8, <3>1 DEF DaemonOnTime
    <3>2. CASE e = m.from /\ tick[e].pc = "push" /\ tick'[e].pc = "ack" /\ SameTick(e)
      BY <2>1, <2>8, <3>2 DEF DaemonOnTime, SameTick
    <3> QED
      BY <2>8, <3>1, <3>2 DEF AnswerMoves, TickAt
  <2>9. ASSUME NEW m \in PushRecords, MoveCheck(m) PROVE DaemonOnTime(e)'
    BY <2>2, <2>8, <2>9 DEF MoveCheck
  <2>10. ASSUME NEW m \in PushRecords, MoveRecord(m) PROVE DaemonOnTime(e)'
    <3>1. role'[e] \in {"standby", role[e]} /\ UNCHANGED <<now, proc, lastOK>>
      BY <2>10 DEF MoveRecord
    <3>2. \E term : AnswerMoves(m, term)
      BY <2>10 DEF MoveRecord
    <3> QED
      BY <2>8, <3>1, <3>2
  <2>11. ASSUME NEW d \in Daemons, MoveProcess(d) PROVE DaemonOnTime(e)'
    <3>1. CASE e # d
      BY <2>2, <2>11, <3>1 DEF MoveProcess
    <3>2. CASE e = d
      BY <2>1, <2>11, <3>2 DEF MoveProcess, DaemonOnTime, Lease!IdleTick
    <3> QED
      BY <3>1, <3>2
  <2>12. CASE MoveTime
    BY <2>1, <2>12 DEF MoveTime, DaemonOnTime
  <2> QED
    BY <2>0, <2>2, <2>3, <2>4, <2>5, <2>6, <2>7, <2>9, <2>10, <2>11, <2>12 DEF LeaseMove
<1> QED
  BY <1>1, <1>2, PTL DEF Lease!Spec

\* "an isolated active that cannot confirm its lease with the peer for a whole
\* lease TTL self-demotes" (docs/architecture.md; handlePushFailure): no daemon leads
\* longer after its last answered push than the TTL and two pushes, whatever is
\* lost, late or restarted, as long as Gather works.
THEOREM IsolatedLeaderStepsDown ==
    ASSUME LeaseSetting, GatherMayFail = FALSE
    PROVE  Lease!Spec => []Lease!IsolatedStepsDown
<1>1. StepDownInv => Lease!IsolatedStepsDown
  <2> SUFFICES ASSUME StepDownInv, NEW d \in Daemons, Lease!Leads(d) PROVE now <= lastOK[d] + TTL + 2 * MaxDelay
    BY DEF Lease!IsolatedStepsDown
  <2>1. /\ now \in Nat /\ TTL \in Nat /\ MaxDelay \in Nat /\ lastOK[d] \in Nat /\ tick[d].at \in Nat /\ tick[d].done \in Nat
        /\ tick[d].pc \in TickPoints /\ DaemonOnTime(d)
    BY DEF StepDownInv, LeaseShape, TickRecords, LeaseSetting, Lease!TimingAssumption
  <2> QED
    BY <2>1 DEF DaemonOnTime, Lease!Leads, TickPoints
<1> QED
  BY <1>1, StepDownInduction, PTL

Other == Lease!Peer(Bootstrap)

LeadsFirst == role[Bootstrap] = "active" /\ lease[Bootstrap].term = 1

\* While the bootstrapped daemon leads at term 1, everything in flight is a push
\* of its own that is not too old, and the other daemon has heard from it no
\* longer ago than it has heard back, but for a push that came late.
FirstTerm ==
  /\ role[Other] = "standby" /\ tick[Other].pc = "idle" /\ lease[Other].term = 1
  /\ \A m \in net : /\ m.from = Bootstrap /\ m.lease.term = 1 /\ m.lease.expires = m.at + TTL
                    /\ m.at <= now /\ now <= m.at + MaxDelay
  /\ observed[Other].expires + MaxDelay >= lastOK[Bootstrap] + TTL
  /\ tick[Bootstrap].pc = "ack" => observed[Other].expires + MaxDelay >= tick[Bootstrap].at + TTL

\* Nobody leads anew below term 2.
LaterTerms ==
  \A d \in Daemons :
    /\ proc[d] = "up" /\ lease[d].term >= 1
    /\ tick[d].pc = "promote" => tick[d].ack >= 1
    /\ d # Bootstrap /\ role[d] = "active" => lease[d].term >= 2

FenceInv == StepDownInv /\ crashes = 0 /\ LaterTerms /\ (LeadsFirst => FirstTerm)

FenceSetting == LeaseSetting /\ GatherMayFail = FALSE /\ MaxCrashes = 0 /\ 3 * MaxDelay <= Margin + 1

\* While the bootstrapped daemon leads at its first term the other one does not
\* (ha/manager.go: tickStandby waits for the lease to expire and for the fencing
\* margin): the margin covers three times what a push may take, which the
\* defaults (a margin of three renew intervals) meet for pushes of up to one
\* interval; neither daemon restarts, and Gather works.
THEOREM FirstLeaseIsFenced ==
    ASSUME FenceSetting
    PROVE  Lease!Spec => []Lease!FirstLeaderFenced
<1>0. LeaseSetting /\ GatherMayFail = FALSE /\ MaxCrashes = 0 /\ 3 * MaxDelay <= Margin + 1
      /\ Bootstrap \in Daemons /\ Other \in Daemons /\ Other # Bootstrap /\ Lease!Peer(Other) = Bootstrap
      /\ TTL \in Nat /\ TTL > 0 /\ MaxDelay \in Nat /\ Margin \in Nat
      /\ \A d \in Daemons : d = Bootstrap \/ d = Other
  BY PairOfDaemons DEF FenceSetting, LeaseSetting, Lease!TimingAssumption, Other
<1>1. Lease!Init /\ StepDownInv => FenceInv
  <2> SUFFICES ASSUME Lease!Init, StepDownInv PROVE FenceInv
    OBVIOUS
  <2> DEFINE first == [holder |-> Bootstrap, term |-> 1, expires |-> TTL]
  <2>1. first.term = 1 /\ first.expires = TTL /\ Lease!IdleTick.pc = "idle" /\ Lease!IdleTick.at = 0
    BY DEF Lease!IdleTick
  <2>2. /\ now = 0 /\ proc = [d \in Daemons |-> "up"] /\ lastOK = [d \in Daemons |-> 0] /\ net = {} /\ crashes = 0
        /\ role = [d \in Daemons |-> IF d = Bootstrap THEN "active" ELSE "standby"]
        /\ lease = [d \in Daemons |-> first]
        /\ observed = [d \in Daemons |-> IF d = Bootstrap THEN Lease!NoLease ELSE first]
        /\ tick = [d \in Daemons |-> Lease!IdleTick]
    BY DEF Lease!Init
  <2> HIDE DEF first
  <2> QED
    BY <1>0, <2>1, <2>2 DEF FenceInv, LaterTerms, LeadsFirst, FirstTerm
<1>2. FenceInv /\ StepDownInv' /\ [Lease!Next]_(Lease!vars) => FenceInv'
  <2> SUFFICES ASSUME FenceInv, StepDownInv', [Lease!Next]_(Lease!vars) PROVE FenceInv'
    OBVIOUS
  <2>0. LeaseShape' /\ LeaseMove
    BY <1>0, LeaseMoves DEF FenceInv, StepDownInv
  <2>1. /\ now \in Nat
        /\ \A d \in Daemons : /\ lastOK[d] \in Nat /\ tick[d].at \in Nat /\ tick[d].done \in Nat /\ tick[d].pc \in TickPoints
                              /\ tick[d].ack \in Nat /\ lease[d].term \in Nat /\ observed[d].expires \in Nat
                              /\ role[d] \in {"active", "standby"} /\ DaemonOnTime(d) /\ proc[d] = "up"
    BY DEF FenceInv, StepDownInv, LeaseShape, TickRecords, LeaseRecords, LaterTerms
  <2>p. \A d \in Daemons : tick'[d].ack \in Nat /\ lease'[d].term \in Nat
    BY <2>0 DEF LeaseShape, TickRecords, LeaseRecords
  <2>2. \A m \in PushRecords : m.at \in Nat /\ m.from \in Daemons /\ m.lease.term \in Nat /\ m.lease.expires \in Nat
    BY DEF PushRecords, LeaseRecords
  <2>3. net \subseteq PushRecords
    BY DEF FenceInv, StepDownInv, LeaseShape
  <2>4. LeadsFirst => ~Lease!Expired(Other)
    <3> SUFFICES ASSUME LeadsFirst PROVE now <= observed[Other].expires + Margin
      BY <1>0, <2>1 DEF Lease!Expired
    <3>1. now <= lastOK[Bootstrap] + TTL + MaxDelay \/ now < lastOK[Bootstrap] + TTL + 2 * MaxDelay
      BY <1>0, <2>1 DEF DaemonOnTime, LeadsFirst, TickPoints
    <3>2. observed[Other].expires + MaxDelay >= lastOK[Bootstrap] + TTL
      BY DEF FenceInv, FirstTerm
    <3> QED
      BY <1>0, <2>1, <3>1, <3>2
  <2>5. ASSUME NEW d \in Daemons, MoveTick(d), UNCHANGED crashes PROVE FenceInv'
    <3>1. UNCHANGED <<now, proc, role, lease, observed, lastOK, net>> /\ tick[d].pc = "idle"
      BY <2>5 DEF MoveTick, Lease!MayTick
    <3>a. /\ tick'[d].pc \in {"renew", "idle", "promote"} /\ \A e \in Daemons : e # d => tick'[e] = tick[e]
          /\ tick'[d].pc = "promote" => tick'[d].ack >= lease[d].term
      BY <2>5 DEF MoveTick, TickAt
    <3>2. LaterTerms'
      BY <2>1, <2>p, <3>1, <3>a DEF FenceInv, LaterTerms
    <3>3. tick'[Bootstrap].pc # "ack" \/ tick'[Bootstrap] = tick[Bootstrap]
      BY <1>0, <3>a
    <3>4. ASSUME LeadsFirst PROVE tick'[Other].pc = "idle"
      <4>1. role[Other] = "standby" /\ tick[Other].pc = "idle"
        BY <3>4 DEF FenceInv, FirstTerm
      <4>2. CASE d = Other
        BY <2>4, <2>5, <3>4, <4>1, <4>2 DEF MoveTick, TickAt
      <4>3. CASE d # Other
        BY <1>0, <2>5, <4>1, <4>3 DEF MoveTick, TickAt
      <4> QED
        BY <4>2, <4>3
    <3>5. LeadsFirst' => LeadsFirst
      BY <3>1 DEF LeadsFirst
    <3>6. LeadsFirst => FirstTerm'
      BY <3>1, <3>3, <3>4 DEF FenceInv, FirstTerm
    <3> QED
      BY <2>5, <3>2, <3>5, <3>6 DEF FenceInv
  <2>6. ASSUME NEW d \in Daemons, MoveRenew(d), UNCHANGED crashes PROVE FenceInv'
    BY <1>0, <2>1, <2>2, <2>6 DEF FenceInv, LaterTerms, LeadsFirst, FirstTerm, MoveRenew, TickAt, SameTick
  <2>7. ASSUME NEW d \in Daemons, MoveFail(d), UNCHANGED crashes PROVE FenceInv'
    BY <1>0, <2>1, <2>7 DEF FenceInv, LaterTerms, LeadsFirst, FirstTerm, MoveFail, TickAt, SameTick
  <2>8. ASSUME NEW d \in Daemons, MoveAck(d), UNCHANGED crashes PROVE FenceInv'
    <3>1. LaterTerms'
      <4>1. /\ UNCHANGED proc /\ tick'[d].pc = "idle" /\ \A e \in Daemons : e # d => tick'[e] = tick[e]
            /\ lease'[d].term >= lease[d].term /\ role'[d] \in {"standby", role[d]} /\ (role'[d] = "active" => lease'[d] = lease[d])
            /\ \A e \in Daemons : e # d => lease'[e] = lease[e] /\ role'[e] = role[e]
        BY <2>8 DEF MoveAck, TickAt
      <4> QED
        BY <2>1, <2>p, <4>1 DEF FenceInv, LaterTerms
    <3>2. LeadsFirst' => LeadsFirst
      BY <1>0, <2>1, <2>8 DEF LeadsFirst, MoveAck
    <3>3. LeadsFirst => d = Bootstrap
      BY <1>0, <2>8 DEF FenceInv, FirstTerm, MoveAck
    <3>4. LeadsFirst => FirstTerm'
      BY <1>0, <2>1, <2>8, <3>3 DEF FenceInv, FirstTerm, MoveAck, TickAt
    <3> QED
      BY <2>8, <3>1, <3>2, <3>4 DEF FenceInv
  <2>9. ASSUME NEW d \in Daemons, MovePromote(d), UNCHANGED crashes PROVE FenceInv'
    BY <1>0, <2>1, <2>9 DEF FenceInv, LaterTerms, LeadsFirst, FirstTerm, MovePromote, TickAt, SameTick
  <2>10. ASSUME NEW m \in PushRecords, MoveCheck(m), UNCHANGED crashes PROVE FenceInv'
    BY <1>0, <2>1, <2>2, <2>3, <2>10 DEF FenceInv, LaterTerms, LeadsFirst, FirstTerm, MoveCheck, AnswerMoves, TickAt, SameTick, Lease!Stale, Other
  <2>11. ASSUME NEW m \in PushRecords, MoveRecord(m), UNCHANGED crashes PROVE FenceInv'
    <3> DEFINE d == Lease!Peer(m.from)
    <3>1. d \in Daemons /\ m \in net /\ m.from \in Daemons /\ m.from # d /\ UNCHANGED <<now, proc, lastOK>>
      BY <1>0, <2>2, <2>11, PairOfDaemons DEF MoveRecord
    <3>2. \/ m.lease.term > lease[d].term /\ lease'[d] = m.lease /\ role'[d] = "standby"
          \/ m.lease.term <= lease[d].term /\ UNCHANGED <<lease, role>>
      BY <2>11 DEF MoveRecord
    <3>3. \A e \in Daemons : e # d => lease'[e] = lease[e] /\ role'[e] = role[e] /\ observed'[e] = observed[e]
      BY <2>11 DEF MoveRecord
    <3>4. \A e \in Daemons : \/ tick'[e] = tick[e]
                             \/ e = m.from /\ tick[e].pc = "push" /\ tick[e].at = m.at /\ tick'[e].pc = "ack" /\ SameTick(e)
      BY <2>11 DEF MoveRecord, AnswerMoves, TickAt
    <3>5. observed'[d] = m.lease /\ net' \subseteq net
      BY <2>11 DEF MoveRecord
    <3> HIDE DEF d
    <3>6. LaterTerms'
      BY <2>1, <2>2, <3>1, <3>2, <3>3, <3>4 DEF FenceInv, LaterTerms
    <3>7. LeadsFirst' => LeadsFirst
      BY <1>0, <2>1, <3>1, <3>2, <3>3 DEF LeadsFirst
    <3>8. ASSUME LeadsFirst PROVE FirstTerm'
      <4>1. m.from = Bootstrap /\ m.lease.term = 1 /\ m.lease.expires = m.at + TTL /\ m.at <= now /\ now <= m.at + MaxDelay
            /\ lease[Other].term = 1
        BY <3>1, <3>8 DEF FenceInv, FirstTerm
      <4>2. d = Other
        BY <4>1 DEF d, Other
      <4>3. UNCHANGED <<lease, role>> /\ observed'[Other].expires = m.at + TTL
        BY <3>2, <3>5, <4>1, <4>2
      <4>4. lastOK[Bootstrap] <= now /\ tick[Bootstrap].at <= now
        BY <1>0, <2>1 DEF DaemonOnTime
      <4>5. tick'[Other] = tick[Other] /\ tick'[Bootstrap].at = tick[Bootstrap].at
        BY <1>0, <3>4, <4>1 DEF SameTick
      <4> QED
        BY <1>0, <2>1, <2>2, <3>1, <3>5, <3>8, <4>1, <4>3, <4>4, <4>5 DEF FenceInv, FirstTerm
    <3> QED
      BY <2>11, <3>6, <3>7, <3>8 DEF FenceInv
  <2>12. ASSUME NEW d \in Daemons, MoveProcess(d) PROVE FALSE
    BY <1>0, <2>1, <2>12 DEF MoveProcess, FenceInv
  <2>13. ASSUME MoveTime, UNCHANGED crashes PROVE FenceInv'
    BY <1>0, <2>1, <2>2, <2>3, <2>13 DEF FenceInv, LaterTerms, LeadsFirst, FirstTerm, MoveTime
  <2>14. ASSUME UNCHANGED <<now, proc, role, lease, observed, lastOK, tick, crashes>>, net' \subseteq net PROVE FenceInv'
    BY <1>0, <2>14 DEF FenceInv, LaterTerms, LeadsFirst, FirstTerm
  <2> QED
    BY <2>0, <2>5, <2>6, <2>7, <2>8, <2>9, <2>10, <2>11, <2>12, <2>13, <2>14 DEF LeaseMove
<1>3. FenceInv => Lease!FirstLeaderFenced
  BY <1>0 DEF FenceInv, LaterTerms, LeadsFirst, FirstTerm, Lease!FirstLeaderFenced, Lease!Leads, Other
<1>4. Lease!Spec => []StepDownInv
  BY <1>0, StepDownInduction
<1> QED
  BY <1>1, <1>2, <1>3, <1>4, PTL DEF Lease!Spec

\* LeaderIsFenced: the isolated leader steps down in time wherever Gather works,
\* and the first leader is fenced where the daemons also stay up and the margin
\* covers the delays.
THEOREM LeadersAreFenced ==
    ASSUME LeaseSetting
    PROVE  Lease!Spec => []Lease!LeaderIsFenced
<1>1. CASE FenceSetting
  <2>1. Lease!IsolatedStepsDown /\ Lease!FirstLeaderFenced => Lease!LeaderIsFenced
    BY DEF Lease!LeaderIsFenced
  <2>2. Lease!Spec => []Lease!FirstLeaderFenced
    BY <1>1, FirstLeaseIsFenced
  <2>3. Lease!Spec => []Lease!IsolatedStepsDown
    BY <1>1, IsolatedLeaderStepsDown DEF FenceSetting
  <2> QED
    BY <2>1, <2>2, <2>3, PTL
<1>2. CASE ~FenceSetting /\ GatherMayFail = FALSE
  <2>1. ~(MaxCrashes = 0 /\ 3 * MaxDelay <= Margin + 1)
    BY <1>2 DEF FenceSetting
  <2>2. Lease!IsolatedStepsDown => Lease!LeaderIsFenced
    BY <2>1 DEF Lease!LeaderIsFenced
  <2>3. Lease!Spec => []Lease!IsolatedStepsDown
    BY <1>2, IsolatedLeaderStepsDown
  <2> QED
    BY <2>2, <2>3, PTL
<1>3. CASE GatherMayFail = TRUE
  <2>1. Lease!LeaderIsFenced
    BY <1>3 DEF Lease!LeaderIsFenced
  <2> QED
    BY <2>1, PTL
<1> QED
  BY <1>1, <1>2, <1>3 DEF LeaseSetting, Lease!TimingAssumption

BoundedTicks == [pc : TickPoints, at : 0 .. MaxTime, ack : Lease!Terms, done : 0 .. (MaxTime + 1)]
BoundedPushes == [from : Daemons, lease : Lease!Leases, at : 0 .. MaxTime, stage : {"sent", "checked", "applied"}]

\* What the steps make of leases, ticks and pushes stays within their bounds.
LEMMA BoundedRecords ==
    ASSUME LeaseSetting
    PROVE  /\ Lease!NoLease \in Lease!Leases /\ Lease!IdleTick \in BoundedTicks
           /\ \A l \in Lease!Leases, x \in 0 .. (MaxTime + TTL) : [l EXCEPT !.expires = x] \in Lease!Leases
           /\ \A l \in Lease!Leases, t \in Lease!Terms : [l EXCEPT !.term = t, !.holder = None] \in Lease!Leases
           /\ \A d \in Daemons, t \in Lease!Terms, x \in 0 .. (MaxTime + TTL) :
                [holder |-> d, term |-> t, expires |-> x] \in Lease!Leases
           /\ \A k \in BoundedTicks, pc \in TickPoints : [k EXCEPT !.pc = pc] \in BoundedTicks
           /\ \A k \in BoundedTicks, t \in Lease!Terms, pc \in TickPoints : [k EXCEPT !.pc = pc, !.ack = t] \in BoundedTicks
           /\ \A k \in BoundedTicks, x \in 0 .. MaxTime, y \in 0 .. (MaxTime + 1) : [k EXCEPT !.done = y, !.at = x] \in BoundedTicks
           /\ \A y \in 0 .. (MaxTime + 1) : [Lease!IdleTick EXCEPT !.done = y] \in BoundedTicks
           /\ \A m \in BoundedPushes, s \in {"sent", "checked", "applied"} : [m EXCEPT !.stage = s] \in BoundedPushes
<1>1. MaxTime \in Nat /\ TTL \in Nat /\ MaxTerm \in Nat /\ 0 \in Lease!Terms
  BY DEF LeaseSetting, Lease!TimingAssumption, Lease!Terms
<1>2. Lease!NoLease \in Lease!Leases
  BY <1>1 DEF Lease!NoLease, Lease!Leases
<1>3. Lease!IdleTick \in BoundedTicks
  BY <1>1 DEF Lease!IdleTick, BoundedTicks, TickPoints
<1>4. \A l \in Lease!Leases, x \in 0 .. (MaxTime + TTL) : [l EXCEPT !.expires = x] \in Lease!Leases
  BY DEF Lease!Leases
<1>5. \A l \in Lease!Leases, t \in Lease!Terms : [l EXCEPT !.term = t, !.holder = None] \in Lease!Leases
  BY DEF Lease!Leases
<1>6. \A d \in Daemons, t \in Lease!Terms, x \in 0 .. (MaxTime + TTL) :
        [holder |-> d, term |-> t, expires |-> x] \in Lease!Leases
  BY DEF Lease!Leases
<1>7. \A k \in BoundedTicks, pc \in TickPoints : [k EXCEPT !.pc = pc] \in BoundedTicks
  BY DEF BoundedTicks
<1>8. \A k \in BoundedTicks, t \in Lease!Terms, pc \in TickPoints : [k EXCEPT !.pc = pc, !.ack = t] \in BoundedTicks
  BY DEF BoundedTicks
<1>9. \A k \in BoundedTicks, x \in 0 .. MaxTime, y \in 0 .. (MaxTime + 1) : [k EXCEPT !.done = y, !.at = x] \in BoundedTicks
  BY DEF BoundedTicks
<1>10. \A y \in 0 .. (MaxTime + 1) : [Lease!IdleTick EXCEPT !.done = y] \in BoundedTicks
  BY <1>1 DEF BoundedTicks, Lease!IdleTick, TickPoints
<1>11. \A m \in BoundedPushes, s \in {"sent", "checked", "applied"} : [m EXCEPT !.stage = s] \in BoundedPushes
  BY DEF BoundedPushes
<1> QED
  BY <1>2, <1>3, <1>4, <1>5, <1>6, <1>7, <1>8, <1>9, <1>10, <1>11

\* The types, with the sets named.
LeaseTyped ==
  /\ now \in 0 .. MaxTime /\ crashes \in 0 .. MaxCrashes
  /\ proc \in [Daemons -> {"down", "starting", "up"}]
  /\ role \in [Daemons -> {"active", "standby"}]
  /\ lease \in [Daemons -> Lease!Leases]
  /\ observed \in [Daemons -> Lease!Leases]
  /\ lastOK \in [Daemons -> 0 .. MaxTime]
  /\ disk \in [Daemons -> Lease!Leases \cup {None}]
  /\ tick \in [Daemons -> BoundedTicks]
  /\ net \subseteq BoundedPushes

\* Every step of the two daemons keeps them.
LEMMA LeaseTypedStep ==
    ASSUME LeaseSetting, LeaseTyped, [Lease!Next]_(Lease!vars)
    PROVE  LeaseTyped'
<1>0. /\ MaxTime \in Nat /\ TTL \in Nat /\ MaxTerm \in Nat /\ MaxCrashes \in Nat
      /\ now \in 0 .. MaxTime /\ crashes \in 0 .. MaxCrashes
      /\ now + TTL \in 0 .. (MaxTime + TTL) /\ now + 1 \in 0 .. (MaxTime + 1)
  BY DEF LeaseSetting, Lease!TimingAssumption, LeaseTyped
<1>t. /\ lease \in [Daemons -> Lease!Leases] /\ observed \in [Daemons -> Lease!Leases] /\ lastOK \in [Daemons -> 0 .. MaxTime]
      /\ disk \in [Daemons -> Lease!Leases \cup {None}] /\ tick \in [Daemons -> BoundedTicks] /\ net \subseteq BoundedPushes
      /\ role \in [Daemons -> {"active", "standby"}] /\ proc \in [Daemons -> {"down", "starting", "up"}]
  BY DEF LeaseTyped
<1>r. /\ \A l \in Lease!Leases : l.term \in Lease!Terms
      /\ \A k \in BoundedTicks : k.ack \in Lease!Terms /\ k.at \in 0 .. MaxTime
      /\ \A m \in BoundedPushes : m.from \in Daemons /\ m.lease \in Lease!Leases /\ m.at \in 0 .. MaxTime
  BY DEF Lease!Leases, BoundedTicks, BoundedPushes
<1>p. /\ "idle" \in TickPoints /\ "renew" \in TickPoints /\ "push" \in TickPoints /\ "ack" \in TickPoints /\ "promote" \in TickPoints
  BY DEF TickPoints
\* Peer(d) is a daemon.
<1>d. \A d \in Daemons : Lease!Peer(d) \in Daemons
  BY PairOfDaemons
<1>k. \A d \in Daemons : Lease!Ticked(d) \in BoundedTicks /\ Lease!Idle(d) \in BoundedTicks
  BY <1>0, <1>t, <1>p, BoundedRecords DEF Lease!Ticked, Lease!Idle
\* A daemon leads or follows.
<1>m. ASSUME NEW d \in Daemons, NEW n \in Lease!Terms, Lease!Demote(d, n)
      PROVE  lease' \in [Daemons -> Lease!Leases] /\ role' \in [Daemons -> {"active", "standby"}]
  <2>1. [lease[d] EXCEPT !.term = n, !.holder = None] \in Lease!Leases
    BY <1>t, BoundedRecords
  <2> QED
    BY <1>m, <1>t, <2>1 DEF Lease!Demote
<1>f. ASSUME NEW d \in Daemons, NEW b \in Lease!Terms, Lease!PromoteFrom(d, b)
      PROVE  /\ lease' \in [Daemons -> Lease!Leases] /\ role' \in [Daemons -> {"active", "standby"}]
             /\ disk' \in [Daemons -> Lease!Leases \cup {None}] /\ lastOK' \in [Daemons -> 0 .. MaxTime]
  <2> DEFINE l == [holder |-> d, term |-> b + 1, expires |-> now + TTL]
  <2>1. b + 1 \in Lease!Terms
    BY <1>0, <1>f DEF Lease!PromoteFrom, Lease!Terms
  <2>2. l \in Lease!Leases
    BY <1>0, <2>1, BoundedRecords
  <2>3. /\ role' = [role EXCEPT ![d] = "active"] /\ lease' = [lease EXCEPT ![d] = l]
        /\ disk' \in {disk, [disk EXCEPT ![d] = l]} /\ lastOK' = [lastOK EXCEPT ![d] = now]
    BY <1>f DEF Lease!PromoteFrom, Lease!Saved
  <2> HIDE DEF l
  <2> QED
    BY <1>0, <1>t, <2>2, <2>3
<1>1. ASSUME NEW d \in Daemons, Lease!TickAsActive(d) PROVE LeaseTyped'
  <2>1. [Lease!Ticked(d) EXCEPT !.pc = "renew"] \in BoundedTicks
    BY <1>k, <1>p, BoundedRecords
  <2> QED
    BY <1>0, <1>1, <1>t, <2>1 DEF Lease!TickAsActive, LeaseTyped
<1>2. ASSUME NEW d \in Daemons, Lease!TickActive(d) PROVE LeaseTyped'
  <2> DEFINE l == [lease[d] EXCEPT !.expires = now + TTL]
             m == [from |-> d, lease |-> l, at |-> now, stage |-> "sent"]
  <2>1. l \in Lease!Leases
    BY <1>0, <1>t, BoundedRecords
  <2>2. /\ lease' = [lease EXCEPT ![d] = l] /\ disk' \in {disk, [disk EXCEPT ![d] = l]}
        /\ UNCHANGED <<now, proc, role, observed, lastOK, crashes>>
        /\ \/ tick' = [tick EXCEPT ![d].pc = "push"] /\ net' = net \cup {m}
           \/ tick' = [tick EXCEPT ![d] = Lease!Idle(d)] /\ UNCHANGED net
    BY <1>2 DEF Lease!TickActive, Lease!Saved
  <2> HIDE DEF l
  <2>3. m \in BoundedPushes
    BY <1>0, <2>1 DEF BoundedPushes
  <2> HIDE DEF m
  <2>4. net' \subseteq BoundedPushes
    BY <1>t, <2>2, <2>3
  <2>5. tick' \in [Daemons -> BoundedTicks]
    <3>1. [tick[d] EXCEPT !.pc = "push"] \in BoundedTicks
      BY <1>t, <1>p, BoundedRecords
    <3>2. CASE tick' = [tick EXCEPT ![d].pc = "push"]
      <4>1. tick' = [tick EXCEPT ![d] = [tick[d] EXCEPT !.pc = "push"]]
        BY <3>2
      <4> QED
        BY <1>t, <3>1, <4>1
    <3>3. CASE tick' = [tick EXCEPT ![d] = Lease!Idle(d)]
      BY <1>t, <1>k, <3>3
    <3> QED
      BY <2>2, <3>2, <3>3
  <2> QED
    BY <1>0, <1>t, <2>1, <2>2, <2>4, <2>5 DEF LeaseTyped
<1>3. ASSUME NEW d \in Daemons, Lease!HandlePushFailure(d) PROVE LeaseTyped'
  <2>1. 0 \in Lease!Terms
    BY <1>0 DEF Lease!Terms
  <2>2. lease' \in [Daemons -> Lease!Leases] /\ role' \in [Daemons -> {"active", "standby"}]
    BY <1>3, <1>m, <1>t, <2>1 DEF Lease!HandlePushFailure
  <2> QED
    BY <1>0, <1>3, <1>t, <1>k, <2>2 DEF Lease!HandlePushFailure, LeaseTyped
<1>4. ASSUME NEW d \in Daemons, Lease!HandlePushAck(d) PROVE LeaseTyped'
  <2>1. tick[d].ack \in Lease!Terms /\ tick[d].at \in 0 .. MaxTime
    BY <1>t, <1>r
  <2>2. lease' \in [Daemons -> Lease!Leases] /\ role' \in [Daemons -> {"active", "standby"}]
    BY <1>4, <1>m, <1>t, <2>1 DEF Lease!HandlePushAck
  <2> QED
    BY <1>0, <1>4, <1>t, <1>k, <2>1, <2>2 DEF Lease!HandlePushAck, LeaseTyped
<1>5. ASSUME NEW d \in Daemons, Lease!TickStandby(d) PROVE LeaseTyped'
  <2>1. observed[d].term \in Lease!Terms /\ lease[d].term \in Lease!Terms
    BY <1>t, <1>r
  <2>2. \A t \in Lease!Terms : [Lease!Ticked(d) EXCEPT !.pc = "promote", !.ack = t] \in BoundedTicks
    BY <1>k, <1>p, BoundedRecords
  <2>3. PICK k \in BoundedTicks : tick' = [tick EXCEPT ![d] = k]
    BY <1>5, <1>k, <2>1, <2>2 DEF Lease!TickStandby
  <2> QED
    BY <1>0, <1>5, <1>t, <2>3 DEF Lease!TickStandby, LeaseTyped
<1>6. ASSUME NEW d \in Daemons, Lease!Promote(d) PROVE LeaseTyped'
  <2>1. tick[d].ack \in Lease!Terms
    BY <1>t, <1>r
  <2>2. /\ lease' \in [Daemons -> Lease!Leases] /\ role' \in [Daemons -> {"active", "standby"}]
        /\ disk' \in [Daemons -> Lease!Leases \cup {None}] /\ lastOK' \in [Daemons -> 0 .. MaxTime]
    BY <1>6, <1>f, <2>1 DEF Lease!Promote
  <2> QED
    BY <1>0, <1>6, <1>t, <1>k, <2>2 DEF Lease!Promote, LeaseTyped
<1>a. ASSUME NEW m \in net, NEW t \in Lease!Terms PROVE Lease!Answered(m, t) \in [Daemons -> BoundedTicks]
  <2>1. m.from \in Daemons
    BY <1>t, <1>r
  <2>2. [tick[m.from] EXCEPT !.pc = "ack", !.ack = t] \in BoundedTicks
    BY <1>t, <1>p, <2>1, BoundedRecords
  <2>3. [tick EXCEPT ![m.from].pc = "ack", ![m.from].ack = t] = [tick EXCEPT ![m.from] = [tick[m.from] EXCEPT !.pc = "ack", !.ack = t]]
    BY <1>t, <2>1
  <2> QED
    BY <1>t, <2>1, <2>2, <2>3 DEF Lease!Answered
<1>7. ASSUME NEW m \in net, Lease!ReceiveCheck(m) PROVE LeaseTyped'
  <2>0. Lease!Peer(m.from) \in Daemons /\ lease[Lease!Peer(m.from)].term \in Lease!Terms
    BY <1>t, <1>d, <1>r
  <2>1. [m EXCEPT !.stage = "checked"] \in BoundedPushes
    BY <1>t, BoundedRecords
  <2>2. /\ net' \in {net \ {m}, (net \ {m}) \cup {[m EXCEPT !.stage = "checked"]}}
        /\ tick' \in {tick, Lease!Answered(m, lease[Lease!Peer(m.from)].term)}
        /\ UNCHANGED <<now, proc, role, lease, observed, lastOK, disk, crashes>>
    BY <1>7 DEF Lease!ReceiveCheck
  <2>3. net' \subseteq BoundedPushes
    BY <1>t, <2>1, <2>2
  <2>4. tick' \in [Daemons -> BoundedTicks]
    BY <1>t, <1>a, <2>0, <2>2
  <2> QED
    BY <1>0, <1>t, <2>2, <2>3, <2>4 DEF LeaseTyped
<1>8. ASSUME NEW m \in net, Lease!ReceiveApply(m) PROVE LeaseTyped'
  <2>1. [m EXCEPT !.stage = "applied"] \in BoundedPushes
    BY <1>t, BoundedRecords
  <2>2. net' = (net \ {m}) \cup {[m EXCEPT !.stage = "applied"]}
        /\ UNCHANGED <<now, proc, role, lease, observed, lastOK, disk, tick, crashes>>
    BY <1>8 DEF Lease!ReceiveApply
  <2>3. net' \subseteq BoundedPushes
    BY <1>t, <2>1, <2>2
  <2> QED
    BY <1>0, <1>t, <2>2, <2>3 DEF LeaseTyped
<1>9. ASSUME NEW m \in net, Lease!ReceiveRecord(m) PROVE LeaseTyped'
  <2> DEFINE d == Lease!Peer(m.from)
  <2>0. d \in Daemons /\ lease[d].term \in Lease!Terms /\ m.lease \in Lease!Leases /\ m.lease.term \in Lease!Terms
    BY <1>t, <1>d, <1>r
  <2>1. PICK t \in {m.lease.term, lease[d].term} : tick' = Lease!Answered(m, t)
    BY <1>9 DEF Lease!ReceiveRecord
  <2>2. /\ observed' = [observed EXCEPT ![d] = m.lease] /\ net' = net \ {m}
        /\ lease' \in {lease, [lease EXCEPT ![d] = m.lease]}
        /\ role' \in {role, [role EXCEPT ![d] = "standby"]}
        /\ UNCHANGED <<now, proc, lastOK, disk, crashes>>
    BY <1>9, <1>t, <2>0 DEF Lease!ReceiveRecord
  <2> HIDE DEF d
  <2>3. tick' \in [Daemons -> BoundedTicks]
    BY <1>a, <2>0, <2>1
  <2> QED
    BY <1>0, <1>t, <2>0, <2>2, <2>3 DEF LeaseTyped
<1>10. ASSUME NEW m \in net, Lease!Lose(m) PROVE LeaseTyped'
  BY <1>0, <1>10, <1>t DEF Lease!Lose, LeaseTyped
<1>11. ASSUME NEW d \in Daemons, Lease!Crash(d) PROVE LeaseTyped'
  <2>1. Lease!NoLease \in Lease!Leases /\ Lease!IdleTick \in BoundedTicks
    BY BoundedRecords
  <2>2. crashes' \in 0 .. MaxCrashes /\ net' \subseteq net
    BY <1>0, <1>11 DEF Lease!Crash
  <2> QED
    BY <1>0, <1>11, <1>t, <2>1, <2>2 DEF Lease!Crash, LeaseTyped
<1>12. ASSUME NEW d \in Daemons, Lease!BeginStart(d) PROVE LeaseTyped'
  BY <1>0, <1>12, <1>t DEF Lease!BeginStart, LeaseTyped
<1>13. ASSUME NEW d \in Daemons, Lease!Start(d) PROVE LeaseTyped'
  <2>1. [Lease!IdleTick EXCEPT !.done = now + 1] \in BoundedTicks
    BY <1>0, BoundedRecords
  <2>2. tick' \in [Daemons -> BoundedTicks] /\ proc' \in [Daemons -> {"down", "starting", "up"}]
        /\ UNCHANGED <<now, net, crashes>>
    BY <1>13, <1>t, <2>1 DEF Lease!Start
  <2>3. disk[d] # None => disk[d] \in Lease!Leases
    BY <1>t
  <2>4. [Lease!NoLease EXCEPT !.expires = now + TTL] \in Lease!Leases
    BY <1>0, BoundedRecords
  <2>5. CASE /\ disk[d] # None /\ lease' = [lease EXCEPT ![d] = disk[d]] /\ role' = [role EXCEPT ![d] = "active"]
             /\ lastOK' = [lastOK EXCEPT ![d] = now] /\ UNCHANGED <<observed, disk>>
    BY <1>0, <1>t, <2>2, <2>3, <2>5 DEF LeaseTyped
  <2>6. CASE /\ disk[d] # None /\ lease' = [lease EXCEPT ![d] = disk[d]] /\ observed' = [observed EXCEPT ![d] = disk[d]]
             /\ UNCHANGED <<role, lastOK, disk>>
    BY <1>0, <1>t, <2>2, <2>3, <2>6 DEF LeaseTyped
  <2>7. CASE Lease!PromoteFrom(d, 0) /\ UNCHANGED observed
    <3>1. 0 \in Lease!Terms
      BY <1>0 DEF Lease!Terms
    <3>2. /\ lease' \in [Daemons -> Lease!Leases] /\ role' \in [Daemons -> {"active", "standby"}]
          /\ disk' \in [Daemons -> Lease!Leases \cup {None}] /\ lastOK' \in [Daemons -> 0 .. MaxTime]
      BY <1>f, <2>7, <3>1
    <3> QED
      BY <1>0, <1>t, <2>2, <2>7, <3>2 DEF LeaseTyped
  <2>8. CASE /\ observed' = [observed EXCEPT ![d] = [Lease!NoLease EXCEPT !.expires = now + TTL]]
             /\ UNCHANGED <<role, lease, lastOK, disk>>
    BY <1>0, <1>t, <2>2, <2>4, <2>8 DEF LeaseTyped
  <2> QED
    BY <1>13, <2>5, <2>6, <2>7, <2>8 DEF Lease!Start
<1>14. CASE Lease!Advance
  BY <1>0, <1>14, <1>t DEF Lease!Advance, LeaseTyped
<1>15. CASE UNCHANGED Lease!vars
  BY <1>0, <1>15, <1>t DEF Lease!vars, LeaseTyped
<1> QED
  BY <1>1, <1>2, <1>3, <1>4, <1>5, <1>6, <1>7, <1>8, <1>9, <1>10, <1>11, <1>12, <1>13, <1>14, <1>15
     DEF Lease!Next, Lease!Tick, Lease!Handle

\* Every part of the state of the two daemons has its type, over crashes,
\* restarts and lost or late pushes: no term or expiry is made up on the way
\* (ha/manager.go).
THEOREM LeaseTypes ==
    ASSUME LeaseSetting
    PROVE  Lease!Spec => []Lease!TypeOK
<1>1. Lease!Init => LeaseTyped
  <2> SUFFICES ASSUME Lease!Init PROVE LeaseTyped
    OBVIOUS
  <2> DEFINE first == [holder |-> Bootstrap, term |-> 1, expires |-> TTL]
  <2>1. MaxTime \in Nat /\ TTL \in Nat /\ MaxTerm \in Nat \ {0} /\ MaxCrashes \in Nat /\ Bootstrap \in Daemons
    BY DEF LeaseSetting, Lease!TimingAssumption
  <2>2. 1 \in Lease!Terms /\ TTL \in 0 .. (MaxTime + TTL)
    BY <2>1 DEF Lease!Terms
  <2>3. first \in Lease!Leases
    BY <2>1, <2>2, BoundedRecords
  <2>4. /\ now = 0 /\ crashes = 0 /\ net = {} /\ tick = [d \in Daemons |-> Lease!IdleTick]
        /\ lease = [d \in Daemons |-> first] /\ lastOK = [d \in Daemons |-> 0]
        /\ observed = [d \in Daemons |-> IF d = Bootstrap THEN Lease!NoLease ELSE first]
        /\ disk = [d \in Daemons |-> IF d = Bootstrap THEN first ELSE None]
        /\ proc = [d \in Daemons |-> "up"]
        /\ role = [d \in Daemons |-> IF d = Bootstrap THEN "active" ELSE "standby"]
    BY DEF Lease!Init
  <2> HIDE DEF first
  <2>5. Lease!NoLease \in Lease!Leases /\ Lease!IdleTick \in BoundedTicks
    BY BoundedRecords
  <2> QED
    BY <2>1, <2>3, <2>4, <2>5 DEF LeaseTyped
<1>2. LeaseTyped => Lease!TypeOK
  BY DEF LeaseTyped, Lease!TypeOK, BoundedTicks, BoundedPushes, TickPoints
<1> QED
  BY <1>1, <1>2, LeaseTypedStep, PTL DEF Lease!Spec

-----------------------------------------------------------------------------
(* HAReplication: a pass while clients go on writing. *)

CONSTANTS Tables, StandbyPrunes, MaxAudit

VARIABLES active, standby, pass, cursor, complete, fresh, leader

Repl == INSTANCE HAReplication

\* A store whose audit log is log.
StoreWith(log) ==
  [cs : {"draft", "applying", "awaiting_confirm", "committed", "rolled_back", "failed"},
   hold : BOOLEAN, snap : BOOLEAN, refs : BOOLEAN, blob : BOOLEAN,
   sched : {"none", "pending", "fired", "cancelled"}, token : {"none", "expiring", "eternal", "revoked"}, audit : {log}]

PassPoints == {"idle", "rows", "snapshots"} \cup Repl!ApplySteps

StoresShape ==
  /\ active \in StoreWith(active.audit) /\ standby \in StoreWith(standby.audit)
  /\ pass \in [pc : PassPoints, batch : StoreWith(pass.batch.audit)]
  /\ complete \in BOOLEAN /\ fresh \in BOOLEAN

\* The row of a changeset whose window opened, and the snapshot taken before.
WindowHasSnapshot == active.cs \in {"awaiting_confirm", "committed", "rolled_back"} => active.snap

AfterChangesets == {"apply blobs", "apply snapshot", "apply files", "apply rows", "apply audit"}
AfterBlobs == {"apply snapshot", "apply files", "apply rows", "apply audit"}
AfterSnapshot == {"apply files", "apply rows", "apply audit"}

\* How far the batch of an open window has come.
BatchCarries ==
  /\ complete => pass.pc = "idle"
  /\ pass.pc \in AfterChangesets => standby.cs = pass.batch.cs
  /\ pass.pc # "idle" /\ pass.batch.cs = "awaiting_confirm" =>
       /\ active.snap
       /\ pass.pc \in Repl!ApplySteps => pass.batch.snap /\ pass.batch.blob
       /\ pass.pc \in AfterBlobs /\ StandbyPrunes = FALSE => standby.blob
       /\ pass.pc \in AfterSnapshot => standby.snap

Rows(store) == /\ active.token \in {"eternal", "revoked"} => store.token = active.token
               /\ active.sched = "pending" => store.sched = "pending"

\* What the batch and the standby hold of a store that nobody wrote to.
BatchMirrors ==
  fresh /\ leader = "active" =>
    /\ pass.pc # "idle" => pass.batch.cs = active.cs
    /\ pass.pc \in {"snapshots"} \cup Repl!ApplySteps => Rows(pass.batch)
    /\ pass.pc = "apply audit" => Rows(standby)

\* The window of a complete pass, as far as the pass sees to it.
WindowRestorable ==
  complete /\ standby.cs = "awaiting_confirm" => standby.snap /\ (StandbyPrunes = FALSE => standby.blob)

ReplInv ==
  /\ StoresShape /\ WindowHasSnapshot /\ BatchCarries /\ BatchMirrors
  /\ WindowRestorable
  /\ Repl!CompletePassMirrors

\* Every step of a pass, of the clients and of the failover keeps it.
LEMMA ReplInduction ==
    Repl!Spec => []ReplInv
<1> USE DEF Repl!ApplySteps, PassPoints
<1>1. Repl!EmptyStore \in StoreWith({}) /\ Repl!Idle \in [pc : PassPoints, batch : StoreWith({})]
      /\ Repl!EmptyStore.audit = {} /\ Repl!Idle.pc = "idle" /\ Repl!Idle.batch.audit = {} /\ Repl!EmptyStore.cs = "draft"
  BY DEF Repl!EmptyStore, Repl!Idle, StoreWith
<1>2. Repl!Init => ReplInv
  <2> SUFFICES ASSUME Repl!Init PROVE ReplInv
    OBVIOUS
  <2>1. StoresShape
    BY <1>1 DEF Repl!Init, StoresShape
  <2> QED
    <3>1. active.cs = "draft" /\ pass.pc = "idle" /\ ~complete /\ ~fresh
      BY <1>1 DEF Repl!Init
    <3>2. WindowHasSnapshot /\ BatchMirrors /\ WindowRestorable /\ Repl!CompletePassMirrors
      BY <3>1 DEF WindowHasSnapshot, BatchMirrors, WindowRestorable, Repl!CompletePassMirrors
    <3>3. BatchCarries
      BY <3>1 DEF BatchCarries, AfterChangesets
    <3> QED
      BY <2>1, <3>2, <3>3 DEF ReplInv
<1>3. ReplInv /\ [Repl!Next]_(Repl!vars) => ReplInv'
  <2> SUFFICES ASSUME ReplInv, [Repl!Next]_(Repl!vars) PROVE ReplInv'
    OBVIOUS
  <2>0. active \in StoreWith(active.audit) /\ standby \in StoreWith(standby.audit)
        /\ pass \in [pc : PassPoints, batch : StoreWith(pass.batch.audit)]
    BY DEF ReplInv, StoresShape
  \* A client's write.
  <2>1. ASSUME NEW store, NEW log, store \in StoreWith(log), Repl!Write(store), active.snap => store.snap,
               store.cs \in {"awaiting_confirm", "committed", "rolled_back"} => store.snap
        PROVE  ReplInv'
    <3>1. store.audit = log
      BY <2>1 DEF StoreWith
    <3>2. active' = store /\ fresh' = FALSE /\ UNCHANGED <<standby, pass, cursor, complete, leader>>
      BY <2>1 DEF Repl!Write
    <3> QED
      BY <2>1, <3>1, <3>2 DEF ReplInv, StoresShape, WindowHasSnapshot, BatchCarries, BatchMirrors,
         WindowRestorable, Repl!CompletePassMirrors
  <2>2. CASE Repl!ChangesetStep \/ Repl!ScheduleStep \/ Repl!TokenStep \/ Repl!AuditStep
    <3>1. CASE Repl!ChangesetStep
      BY <2>0, <2>1, <3>1 DEF Repl!ChangesetStep, ReplInv, WindowHasSnapshot, StoreWith
    <3>2. CASE Repl!ScheduleStep
      BY <2>0, <2>1, <3>2 DEF Repl!ScheduleStep, ReplInv, WindowHasSnapshot, StoreWith
    <3>3. CASE Repl!TokenStep
      BY <2>0, <2>1, <3>3 DEF Repl!TokenStep, ReplInv, WindowHasSnapshot, StoreWith
    <3>4. CASE Repl!AuditStep
      BY <2>0, <2>1, <3>4 DEF Repl!AuditStep, ReplInv, WindowHasSnapshot, StoreWith
    <3> QED
      BY <2>2, <3>1, <3>2, <3>3, <3>4
  \* A step that leaves the active's store alone, by what it does to the pass
  \* and the standby.
  <2>3. ASSUME Repl!StandbyAudit \/ Repl!StandbyPrune PROVE ReplInv'
    <3>1. ASSUME NEW log, standby' = [standby EXCEPT !.audit = log]
          PROVE  /\ standby' \in StoreWith(standby'.audit) /\ standby'.cs = standby.cs /\ standby'.snap = standby.snap
                 /\ standby'.sched = standby.sched /\ standby'.token = standby.token
                 /\ StandbyPrunes = FALSE => standby'.blob = standby.blob
      BY <2>0, <3>1 DEF StoreWith
    <3>2. ASSUME StandbyPrunes, standby' = [standby EXCEPT !.blob = FALSE]
          PROVE  /\ standby' \in StoreWith(standby'.audit) /\ standby'.cs = standby.cs /\ standby'.snap = standby.snap
                 /\ standby'.sched = standby.sched /\ standby'.token = standby.token
                 /\ StandbyPrunes = FALSE => standby'.blob = standby.blob
      BY <2>0, <3>2 DEF StoreWith
    <3>3. UNCHANGED <<active, pass, cursor, complete, fresh, leader>>
      BY <2>3 DEF Repl!StandbyAudit, Repl!StandbyPrune
    <3>4. /\ standby' \in StoreWith(standby'.audit) /\ standby'.cs = standby.cs /\ standby'.snap = standby.snap
          /\ standby'.sched = standby.sched /\ standby'.token = standby.token
          /\ StandbyPrunes = FALSE => standby'.blob = standby.blob
      BY <2>3, <3>1, <3>2 DEF Repl!StandbyAudit, Repl!StandbyPrune
    <3>5. UNCHANGED <<active, pass, complete, fresh, leader>>
      BY <3>3
    <3>6. StoresShape' /\ WindowHasSnapshot'
      BY <3>4, <3>5 DEF ReplInv, StoresShape, WindowHasSnapshot
    <3>7. BatchCarries' /\ BatchMirrors'
      BY <3>4, <3>5 DEF ReplInv, BatchCarries, BatchMirrors, Rows
    <3>8. WindowRestorable' /\ Repl!CompletePassMirrors'
      BY <3>4, <3>5 DEF ReplInv, WindowRestorable, Repl!CompletePassMirrors
    <3> QED
      BY <3>6, <3>7, <3>8 DEF ReplInv
  <2>4. CASE Repl!GatherChangesets
    <3> DEFINE b == [Repl!EmptyStore EXCEPT !.cs = active.cs]
    <3>1. b \in StoreWith({}) /\ b.cs = active.cs /\ b.audit = {}
      BY <1>1, <2>0 DEF StoreWith
    <3>2. pass' = [pc |-> "rows", batch |-> b] /\ complete' = FALSE /\ fresh' = TRUE /\ UNCHANGED <<active, standby, leader>>
      BY <2>4 DEF Repl!GatherChangesets
    <3> HIDE DEF b
    <3>3. pass'.pc = "rows" /\ pass'.batch = b
      BY <3>2
    <3>4. StoresShape'
      BY <2>0, <3>1, <3>2, <3>3 DEF StoresShape
    <3>5. BatchCarries' /\ BatchMirrors' /\ WindowHasSnapshot'
      BY <3>1, <3>2, <3>3 DEF ReplInv, WindowHasSnapshot, BatchCarries, BatchMirrors, AfterChangesets, AfterBlobs, AfterSnapshot
    <3> QED
      BY <3>2, <3>4, <3>5 DEF ReplInv, WindowRestorable, Repl!CompletePassMirrors
  <2>5. CASE Repl!GatherRows
    <3>1. /\ pass'.pc = "snapshots" /\ pass'.batch.cs = pass.batch.cs /\ pass'.batch.token = active.token
          /\ pass'.batch.sched = (IF active.sched = "pending" THEN "pending" ELSE "none")
          /\ pass' \in [pc : PassPoints, batch : StoreWith(pass'.batch.audit)] /\ pass.pc = "rows"
      BY <2>0, <2>5 DEF Repl!GatherRows, StoreWith
    <3>2. UNCHANGED <<active, standby, complete, fresh, leader>>
      BY <2>5 DEF Repl!GatherRows
    <3>3. StoresShape'
      BY <3>1, <3>2 DEF ReplInv, StoresShape
    <3>4. BatchCarries' /\ BatchMirrors' /\ WindowHasSnapshot'
      BY <3>1, <3>2 DEF ReplInv, WindowHasSnapshot, BatchCarries, BatchMirrors, Rows, AfterChangesets, AfterBlobs, AfterSnapshot
    <3> QED
      BY <3>2, <3>3, <3>4 DEF ReplInv, WindowRestorable, Repl!CompletePassMirrors
  <2>6. CASE Repl!GatherSnapshots
    <3> DEFINE carried == Repl!NeedsSnapshot(pass.batch.cs) /\ active.snap
               log == {e \in active.audit : e[1] > cursor}
    <3>1. carried \in BOOLEAN /\ (pass.batch.cs = "awaiting_confirm" => carried) /\ pass.pc = "snapshots"
      BY <2>0, <2>6 DEF Repl!GatherSnapshots, Repl!NeedsSnapshot, Repl!InFlight, ReplInv, BatchCarries, StoreWith
    <3>2. pass' = [pass EXCEPT !.pc = "apply changesets", !.batch.snap = carried, !.batch.refs = carried,
                               !.batch.blob = carried, !.batch.audit = log]
      BY <2>6 DEF Repl!GatherSnapshots
    <3> HIDE DEF carried, log
    <3>3. /\ pass'.pc = "apply changesets" /\ pass'.batch.cs = pass.batch.cs /\ pass'.batch.token = pass.batch.token
          /\ pass'.batch.sched = pass.batch.sched /\ pass'.batch.snap = carried /\ pass'.batch.blob = carried
          /\ pass' \in [pc : PassPoints, batch : StoreWith(pass'.batch.audit)]
      BY <2>0, <3>1, <3>2 DEF StoreWith
    <3>4. UNCHANGED <<active, standby, complete, fresh, leader>>
      BY <2>6 DEF Repl!GatherSnapshots
    <3>5. StoresShape'
      BY <3>3, <3>4 DEF ReplInv, StoresShape
    <3>6. BatchCarries' /\ BatchMirrors' /\ WindowHasSnapshot'
      BY <3>1, <3>3, <3>4 DEF ReplInv, WindowHasSnapshot, BatchCarries, BatchMirrors, Rows, AfterChangesets, AfterBlobs, AfterSnapshot
    <3> QED
      BY <3>4, <3>5, <3>6 DEF ReplInv, WindowRestorable, Repl!CompletePassMirrors
  \* A step of Apply.
  <2>7. ASSUME NEW from \in Repl!ApplySteps, NEW to \in PassPoints, NEW store, Repl!ApplyStep(from, to, store)
        PROVE  /\ pass.pc = from /\ pass'.pc = to /\ pass'.batch = pass.batch /\ standby' = store
               /\ pass' \in [pc : PassPoints, batch : StoreWith(pass'.batch.audit)] /\ ~complete
               /\ UNCHANGED <<active, complete, fresh, leader>>
    <3>1. pass' = [pass EXCEPT !.pc = to] /\ pass.pc = from /\ standby' = store /\ UNCHANGED <<active, complete, fresh, leader>>
      BY <2>7 DEF Repl!ApplyStep
    <3>2. pass'.pc = to /\ pass'.batch = pass.batch /\ pass' \in [pc : PassPoints, batch : StoreWith(pass.batch.audit)]
      BY <2>0, <3>1
    <3>3. ~complete
      BY <2>0, <3>1 DEF ReplInv, BatchCarries
    <3> QED
      BY <3>1, <3>2, <3>3
  <2>8. ASSUME NEW from \in Repl!ApplySteps, NEW to \in AfterChangesets, NEW store, Repl!ApplyStep(from, to, store),
               store \in StoreWith(store.audit), store.cs = pass.batch.cs,
               pass.batch.cs = "awaiting_confirm" =>
                 /\ to \in AfterBlobs /\ StandbyPrunes = FALSE => store.blob
                 /\ to \in AfterSnapshot => store.snap,
               to = "apply audit" /\ Rows(pass.batch) => Rows(store)
        PROVE  ReplInv'
    <3>0. to \in PassPoints /\ to \in Repl!ApplySteps /\ to # "idle"
      BY <2>8 DEF AfterChangesets
    <3>1. /\ pass.pc = from /\ pass'.pc = to /\ pass'.batch = pass.batch /\ standby' = store
          /\ pass' \in [pc : PassPoints, batch : StoreWith(pass'.batch.audit)] /\ ~complete
          /\ UNCHANGED <<active, complete, fresh, leader>>
      BY <2>7, <2>8, <3>0
    <3>2. StoresShape' /\ WindowHasSnapshot'
      BY <2>8, <3>1 DEF ReplInv, StoresShape, WindowHasSnapshot
    <3>3. BatchCarries'
      BY <2>8, <3>0, <3>1 DEF ReplInv, BatchCarries
    <3>4. BatchMirrors'
      BY <2>8, <3>0, <3>1 DEF ReplInv, BatchMirrors, Rows
    <3> QED
      BY <3>1, <3>2, <3>3, <3>4 DEF ReplInv, WindowRestorable, Repl!CompletePassMirrors
  <2>9. CASE Repl!ApplyChangesets
    <3> DEFINE x == [standby EXCEPT !.cs = pass.batch.cs]
    <3>1. x \in StoreWith(x.audit) /\ x.cs = pass.batch.cs
      BY <2>0 DEF StoreWith
    <3>2. Repl!ApplyStep("apply changesets", "apply blobs", x)
      BY <2>9 DEF Repl!ApplyChangesets
    <3> HIDE DEF x
    <3> QED
      BY <2>8, <3>1, <3>2 DEF AfterChangesets, AfterBlobs, AfterSnapshot
  <2>10. CASE Repl!ApplyBlobs
    <3> DEFINE x == [standby EXCEPT !.blob = standby.blob \/ pass.batch.blob]
    <3>1. x \in StoreWith(x.audit) /\ x.cs = standby.cs /\ (pass.batch.blob => x.blob)
      BY <2>0 DEF StoreWith
    <3>2. Repl!ApplyStep("apply blobs", "apply snapshot", x)
      BY <2>10 DEF Repl!ApplyBlobs
    <3>3. pass.pc = "apply blobs"
      BY <2>10 DEF Repl!ApplyBlobs, Repl!ApplyStep
    <3> HIDE DEF x
    <3>4. x.cs = pass.batch.cs /\ (pass.batch.cs = "awaiting_confirm" => x.blob)
      BY <3>1, <3>3 DEF ReplInv, BatchCarries, AfterChangesets
    <3> QED
      BY <2>8, <3>1, <3>2, <3>4 DEF AfterChangesets, AfterBlobs, AfterSnapshot
  <2>11. CASE Repl!ApplySnapshot
    <3> DEFINE x == [standby EXCEPT !.snap = standby.snap \/ pass.batch.snap]
               to == IF standby.snap \/ ~pass.batch.snap THEN "apply rows" ELSE "apply files"
    <3>1. x \in StoreWith(x.audit) /\ x.cs = standby.cs /\ x.blob = standby.blob /\ (pass.batch.snap => x.snap)
      BY <2>0 DEF StoreWith
    <3>2. Repl!ApplyStep("apply snapshot", to, x)
      BY <2>11 DEF Repl!ApplySnapshot
    <3>3. pass.pc = "apply snapshot"
      BY <2>11 DEF Repl!ApplySnapshot, Repl!ApplyStep
    <3>4. to \in {"apply rows", "apply files"}
      OBVIOUS
    <3> HIDE DEF x, to
    <3>5. x.cs = pass.batch.cs /\ (pass.batch.cs = "awaiting_confirm" => x.snap /\ (StandbyPrunes = FALSE => x.blob))
      BY <3>1, <3>3 DEF ReplInv, BatchCarries, AfterChangesets, AfterBlobs
    <3> QED
      BY <2>8, <3>1, <3>2, <3>4, <3>5 DEF AfterChangesets
  <2>12. CASE Repl!ApplyFiles
    <3> DEFINE x == [standby EXCEPT !.refs = TRUE]
    <3>1. x \in StoreWith(x.audit) /\ x.cs = standby.cs /\ x.blob = standby.blob /\ x.snap = standby.snap
      BY <2>0 DEF StoreWith
    <3>2. Repl!ApplyStep("apply files", "apply rows", x)
      BY <2>12 DEF Repl!ApplyFiles
    <3>3. pass.pc = "apply files"
      BY <2>12 DEF Repl!ApplyFiles, Repl!ApplyStep
    <3> HIDE DEF x
    <3>4. x.cs = pass.batch.cs /\ (pass.batch.cs = "awaiting_confirm" => x.snap /\ (StandbyPrunes = FALSE => x.blob))
      BY <3>1, <3>3 DEF ReplInv, BatchCarries, AfterChangesets, AfterBlobs, AfterSnapshot
    <3> QED
      BY <2>8, <3>1, <3>2, <3>4 DEF AfterChangesets
  <2>13. CASE Repl!ApplyRows
    <3> DEFINE sched == IF pass.batch.sched = "pending" THEN "pending" ELSE standby.sched
               sent == IF pass.batch.token = "expiring" THEN "eternal" ELSE pass.batch.token
               token == IF pass.batch.token = "none" THEN standby.token ELSE sent
               x == [standby EXCEPT !.sched = sched, !.token = token]
    <3>1. Repl!ApplyStep("apply rows", "apply audit", x)
      BY <2>13 DEF Repl!ApplyRows
    <3>2. sched \in {"none", "pending", "fired", "cancelled"} /\ token \in {"none", "expiring", "eternal", "revoked"}
          /\ (pass.batch.sched = "pending" => sched = "pending")
          /\ (pass.batch.token \in {"eternal", "revoked"} => token = pass.batch.token)
      BY <2>0 DEF StoreWith
    <3>3. pass.pc = "apply rows"
      BY <2>13 DEF Repl!ApplyRows, Repl!ApplyStep
    <3> HIDE DEF sched, token
    <3>4. x \in StoreWith(x.audit) /\ x.cs = standby.cs /\ x.blob = standby.blob /\ x.snap = standby.snap
          /\ x.sched = sched /\ x.token = token
      <4>1. standby \in StoreWith(standby.audit)
        BY <2>0
      <4>2. x.cs = standby.cs /\ x.blob = standby.blob /\ x.snap = standby.snap
            /\ x.sched = sched /\ x.token = token /\ x.audit = standby.audit
        BY <4>1 DEF StoreWith
      <4>3. x \in StoreWith(standby.audit)
        BY <4>1, <3>2 DEF StoreWith
      <4> QED
        BY <4>2, <4>3
    <3> HIDE DEF x
    <3>5. x.cs = pass.batch.cs /\ (pass.batch.cs = "awaiting_confirm" => x.snap /\ (StandbyPrunes = FALSE => x.blob))
      BY <3>3, <3>4 DEF ReplInv, BatchCarries, AfterChangesets, AfterBlobs, AfterSnapshot
    <3>6. Rows(pass.batch) => Rows(x)
      BY <3>2, <3>4 DEF Rows
    <3> QED
      BY <2>8, <3>1, <3>4, <3>5, <3>6 DEF AfterChangesets
  <2>14. CASE Repl!ApplyAudit
    <3>1. PICK log : standby' = [standby EXCEPT !.audit = log]
      BY <2>14 DEF Repl!ApplyAudit
    <3>2. pass.pc = "apply audit" /\ complete' = TRUE /\ pass' = Repl!Idle /\ UNCHANGED <<active, fresh, leader>>
      BY <2>14 DEF Repl!ApplyAudit
    <3>3. /\ standby' \in StoreWith(standby'.audit) /\ standby'.cs = standby.cs /\ standby'.snap = standby.snap
          /\ standby'.sched = standby.sched /\ standby'.token = standby.token /\ standby'.blob = standby.blob
      BY <2>0, <3>1 DEF StoreWith
    <3>4. StoresShape' /\ WindowHasSnapshot' /\ pass'.pc = "idle"
      BY <1>1, <3>2, <3>3 DEF ReplInv, StoresShape, WindowHasSnapshot
    <3>5. BatchCarries' /\ BatchMirrors'
      BY <3>4 DEF BatchCarries, BatchMirrors, AfterChangesets
    <3>6. WindowRestorable'
      BY <3>2, <3>3 DEF ReplInv, BatchCarries, AfterChangesets, AfterBlobs, AfterSnapshot, WindowRestorable
    <3>7. Repl!CompletePassMirrors'
      BY <3>2, <3>3 DEF ReplInv, BatchCarries, BatchMirrors, Rows, AfterChangesets, Repl!CompletePassMirrors
    <3> QED
      BY <3>4, <3>5, <3>6, <3>7 DEF ReplInv
  <2>15. CASE Repl!PassFails
    <3>1. pass'.pc = "idle" /\ pass' = Repl!Idle /\ UNCHANGED <<active, standby, complete, fresh, leader>> /\ ~complete
      BY <1>1, <2>15 DEF Repl!PassFails, ReplInv, BatchCarries
    <3>2. StoresShape'
      BY <1>1, <3>1 DEF ReplInv, StoresShape
    <3> QED
      BY <3>1, <3>2 DEF ReplInv, WindowHasSnapshot, BatchCarries, BatchMirrors, AfterChangesets, WindowRestorable, Repl!CompletePassMirrors
  <2>16. CASE Repl!Promote
    <3>1. pass'.pc = "idle" /\ pass' = Repl!Idle /\ leader' = "standby" /\ UNCHANGED <<active, complete, fresh>>
      BY <1>1, <2>16 DEF Repl!Promote
    <3>2. \/ standby' = standby
          \/ standby' = [standby EXCEPT !.cs = "failed"]
      BY <2>16 DEF Repl!Promote
    <3>3. /\ standby' \in StoreWith(standby'.audit) /\ standby'.cs \in {standby.cs, "failed"} /\ standby'.snap = standby.snap
          /\ standby'.blob = standby.blob
      BY <2>0, <3>2 DEF StoreWith
    <3>4. StoresShape' /\ WindowHasSnapshot'
      BY <1>1, <3>1, <3>3 DEF ReplInv, StoresShape, WindowHasSnapshot
    <3>5. WindowRestorable'
      BY <3>1, <3>3 DEF ReplInv, WindowRestorable
    <3>6. BatchCarries' /\ BatchMirrors' /\ Repl!CompletePassMirrors'
      BY <3>1 DEF BatchCarries, BatchMirrors, AfterChangesets, Repl!CompletePassMirrors
    <3> QED
      BY <3>4, <3>5, <3>6 DEF ReplInv
  <2>17. CASE UNCHANGED Repl!vars
    BY <2>17 DEF Repl!vars, ReplInv, StoresShape, WindowHasSnapshot, BatchCarries, BatchMirrors, Rows,
       WindowRestorable, Repl!CompletePassMirrors
  <2> QED
    BY <2>2, <2>3, <2>4, <2>5, <2>6, <2>9, <2>10, <2>11, <2>12, <2>13, <2>14, <2>15, <2>16, <2>17 DEF Repl!Next
<1> QED
  BY <1>2, <1>3, PTL DEF Repl!Spec

\* References are inserted where the blob is, and retention spares what they name.
RefsHaveBlob == standby.refs => standby.blob

\* Every step keeps it, the standby's own pruning included.
LEMMA RefsInduction ==
    Repl!Spec => [](ReplInv /\ RefsHaveBlob)
<1>1. Repl!Init => RefsHaveBlob
  BY DEF Repl!Init, Repl!EmptyStore, RefsHaveBlob
<1>2. ReplInv /\ RefsHaveBlob /\ [Repl!Next]_(Repl!vars) => RefsHaveBlob'
  <2> SUFFICES ASSUME ReplInv, RefsHaveBlob, [Repl!Next]_(Repl!vars) PROVE RefsHaveBlob'
    OBVIOUS
  <2>0. PICK log : log = standby.audit /\ standby \in StoreWith(log)
    BY DEF ReplInv, StoresShape
  <2>1. ASSUME NEW new, standby' = new, new.refs = standby.refs, standby.blob => new.blob PROVE RefsHaveBlob'
    BY <2>1 DEF RefsHaveBlob
  <2>2. CASE UNCHANGED standby
    BY <2>2 DEF RefsHaveBlob
  <2>3. CASE Repl!StandbyAudit \/ Repl!ApplyAudit
    <3>1. PICK l : standby' = [standby EXCEPT !.audit = l]
      BY <2>3 DEF Repl!StandbyAudit, Repl!ApplyAudit
    <3> QED
      BY <2>0, <2>1, <3>1 DEF StoreWith
  <2>4. CASE Repl!StandbyPrune
    <3>1. ~standby.refs /\ standby' = [standby EXCEPT !.blob = FALSE]
      BY <2>4 DEF Repl!StandbyPrune
    <3>2. standby'.refs = standby.refs
      BY <2>0, <3>1 DEF StoreWith
    <3> QED
      BY <3>1, <3>2 DEF RefsHaveBlob
  <2>5. CASE Repl!ApplyChangesets
    <3>1. standby' = [standby EXCEPT !.cs = pass.batch.cs]
      BY <2>5 DEF Repl!ApplyChangesets, Repl!ApplyStep
    <3> QED
      BY <2>0, <2>1, <3>1 DEF StoreWith
  <2>6. CASE Repl!ApplyBlobs
    <3>1. standby' = [standby EXCEPT !.blob = standby.blob \/ pass.batch.blob]
      BY <2>6 DEF Repl!ApplyBlobs, Repl!ApplyStep
    <3>2. standby'.refs = standby.refs /\ (standby.blob => standby'.blob)
      BY <2>0, <3>1 DEF StoreWith
    <3> QED
      BY <2>1, <3>2
  <2>7. CASE Repl!ApplySnapshot
    <3>1. standby' = [standby EXCEPT !.snap = standby.snap \/ pass.batch.snap]
      BY <2>7 DEF Repl!ApplySnapshot, Repl!ApplyStep
    <3> QED
      BY <2>0, <2>1, <3>1 DEF StoreWith
  <2>8. CASE Repl!ApplyFiles
    <3>1. standby.blob /\ standby' = [standby EXCEPT !.refs = TRUE]
      BY <2>8 DEF Repl!ApplyFiles, Repl!ApplyStep
    <3>2. standby'.blob = standby.blob
      BY <2>0, <3>1 DEF StoreWith
    <3> QED
      BY <3>1, <3>2 DEF RefsHaveBlob
  <2>9. CASE Repl!ApplyRows
    <3>1. PICK sched, token : standby' = [standby EXCEPT !.sched = sched, !.token = token]
      BY <2>9 DEF Repl!ApplyRows, Repl!ApplyStep
    <3>2. standby'.refs = standby.refs /\ standby'.blob = standby.blob
      BY <2>0, <3>1 DEF StoreWith
    <3> QED
      BY <2>1, <3>2
  <2>10. CASE Repl!Promote
    <3>1. standby' = standby \/ standby' = [standby EXCEPT !.cs = "failed"]
      BY <2>10 DEF Repl!Promote
    <3> QED
      BY <2>0, <2>1, <3>1 DEF StoreWith
  <2>11. CASE Repl!ChangesetStep \/ Repl!ScheduleStep \/ Repl!TokenStep \/ Repl!AuditStep
    BY <2>2, <2>11 DEF Repl!ChangesetStep, Repl!ScheduleStep, Repl!TokenStep, Repl!AuditStep, Repl!Write
  <2> QED
    BY <2>2, <2>3, <2>4, <2>5, <2>6, <2>7, <2>8, <2>9, <2>10, <2>11
       DEF Repl!Next, Repl!GatherChangesets, Repl!GatherRows, Repl!GatherSnapshots, Repl!PassFails, Repl!vars
<1> QED
  BY <1>1, <1>2, ReplInduction, PTL DEF Repl!Spec

\* Once a pass is applied to its end, the standby has the snapshot of every window
\* it knows of (ha/replicate.go: Gather reads the changesets before their
\* snapshots), whatever clients wrote while the pass was reading and however many
\* passes stopped halfway before; and it has the content, whether its retention
\* runs or not, unless a pass stopped before the snapshot's references and
\* retention took the content for an orphan.
THEOREM CompletePassCanUndo ==
    ASSUME Repl!ReplicationAssumption
    PROVE  Repl!Spec => []Repl!CompletePassRestorable
<1>1. ReplInv /\ RefsHaveBlob => Repl!CompletePassRestorable
  BY DEF ReplInv, WindowRestorable, RefsHaveBlob, Repl!CompletePassRestorable, Repl!Restorable, Repl!ReplicationAssumption
<1> QED
  BY <1>1, RefsInduction, PTL

\* A complete pass over a store nobody wrote to since it began leaves the standby
\* with the active's changesets, revocations and pending schedules (Gather and
\* Apply, ha/replicate.go).
THEOREM CompletePassIsMirror ==
    Repl!Spec => []Repl!CompletePassMirrors
<1>1. ReplInv => Repl!CompletePassMirrors
  BY DEF ReplInv
<1> QED
  BY <1>1, ReplInduction, PTL

\* StandbyCanTakeOver: after a complete pass that nobody overtook the standby has
\* the active's rows, and after any complete pass what an undo needs, except where
\* its own retention took that for an orphan.
THEOREM StandbysCanTakeOver ==
    ASSUME Repl!ReplicationAssumption
    PROVE  Repl!Spec => []Repl!StandbyCanTakeOver
<1>1. Repl!CompletePassMirrors /\ Repl!CompletePassRestorable => Repl!StandbyCanTakeOver
  BY DEF Repl!StandbyCanTakeOver
<1> QED
  BY <1>1, CompletePassCanUndo, CompletePassIsMirror, PTL

LogEntries == (1 .. MaxAudit) \X {"active", "standby"}

\* The highest id of a log is the id of one of its entries.
LEMMA MaxIdOfLog ==
    ASSUME MaxAudit \in Nat, NEW log \in SUBSET LogEntries
    PROVE  Repl!MaxId(log) \in 0 .. MaxAudit
<1>1. CASE log = {}
  BY <1>1 DEF Repl!MaxId
<1>2. CASE log # {}
  <2> DEFINE Ids == {e[1] : e \in log}
             S == {n \in Nat : \E e \in log : n = MaxAudit - e[1]}
  <2>1. \A e \in log : e[1] \in 1 .. MaxAudit
    BY DEF LogEntries
  <2>2. S \subseteq Nat /\ S # {}
    <3>1. PICK e \in log : TRUE
      BY <1>2
    <3>2. MaxAudit - e[1] \in S
      BY <2>1
    <3> QED
      BY <3>2
  <2>3. PICK n \in S : \A k \in S : n <= k
    BY <2>2, SmallestExists
  <2>4. PICK e \in log : n = MaxAudit - e[1]
    BY <2>3
  <2>5. \A f \in log : MaxAudit - f[1] \in S
    BY <2>1
  <2>6. e[1] \in Ids /\ \A f \in log : f[1] <= e[1]
    BY <2>1, <2>3, <2>4, <2>5
  <2>7. Repl!MaxId(log) = CHOOSE i \in Ids : \A f \in log : f[1] <= i
    BY <1>2 DEF Repl!MaxId
  <2>8. Repl!MaxId(log) \in Ids
    BY <2>6, <2>7
  <2>9. PICK f \in log : Repl!MaxId(log) = f[1]
    BY <2>8
  <2> QED
    BY <2>1, <2>9
<1> QED
  BY <1>1, <1>2

\* No log has an id beyond the bound, and the cursor is one of them or 0.
LogsBounded ==
  /\ active.audit \subseteq LogEntries /\ standby.audit \subseteq LogEntries /\ pass.batch.audit \subseteq LogEntries
  /\ cursor \in 0 .. MaxAudit /\ leader \in {"active", "standby"}

\* Every step keeps the logs within it.
LEMMA LogsStep ==
    ASSUME MaxAudit \in Nat, ReplInv, LogsBounded, [Repl!Next]_(Repl!vars)
    PROVE  LogsBounded'
<1>0. /\ active \in StoreWith(active.audit) /\ standby \in StoreWith(standby.audit)
      /\ pass \in [pc : PassPoints, batch : StoreWith(pass.batch.audit)]
  BY DEF ReplInv, StoresShape
<1>i. Repl!Idle.batch.audit = {}
  BY DEF Repl!Idle, Repl!EmptyStore
<1>a. ASSUME NEW log \in SUBSET LogEntries, NEW who \in {"active", "standby"}, Repl!MaxId(log) < MaxAudit
      PROVE  Repl!Appended(log, who) \subseteq LogEntries
  <2>1. Repl!MaxId(log) + 1 \in 1 .. MaxAudit
    BY <1>a, MaxIdOfLog
  <2> QED
    BY <2>1 DEF Repl!Appended, LogEntries
\* The steps that leave the logs alone.
<1>b. ASSUME active'.audit \subseteq LogEntries, standby'.audit \subseteq LogEntries,
             pass'.batch.audit \subseteq LogEntries, cursor' \in 0 .. MaxAudit, leader' \in {"active", "standby"}
      PROVE  LogsBounded'
  BY <1>b DEF LogsBounded
<1>w. ASSUME NEW st, Repl!Write(st), st.audit = active.audit PROVE LogsBounded'
  BY <1>w DEF Repl!Write, LogsBounded
<1>1. CASE Repl!ChangesetStep
  <2>1. /\ \A x : [active EXCEPT !.cs = x].audit = active.audit
        /\ [active EXCEPT !.snap = TRUE, !.refs = TRUE, !.blob = TRUE].audit = active.audit
        /\ [active EXCEPT !.hold = TRUE].audit = active.audit
        /\ [active EXCEPT !.cs = "awaiting_confirm", !.hold = FALSE].audit = active.audit
    BY <1>0 DEF StoreWith
  <2>2. CASE Repl!Write([active EXCEPT !.cs = "applying"])
    BY <1>w, <2>1, <2>2
  <2>3. CASE Repl!Write([active EXCEPT !.snap = TRUE, !.refs = TRUE, !.blob = TRUE])
    BY <1>w, <2>1, <2>3
  <2>4. CASE Repl!Write([active EXCEPT !.hold = TRUE])
    BY <1>w, <2>1, <2>4
  <2>5. CASE Repl!Write([active EXCEPT !.cs = "awaiting_confirm", !.hold = FALSE])
    BY <1>w, <2>1, <2>5
  <2>6. CASE \E end \in {"committed", "rolled_back"} : Repl!Write([active EXCEPT !.cs = end])
    <3>1. PICK end \in {"committed", "rolled_back"} : Repl!Write([active EXCEPT !.cs = end])
      BY <2>6
    <3> QED
      BY <1>w, <2>1, <3>1
  <2> QED
    BY <1>1, <2>2, <2>3, <2>4, <2>5, <2>6 DEF Repl!ChangesetStep
<1>2. CASE Repl!ScheduleStep \/ Repl!TokenStep
  <2>1. PICK st : Repl!Write(st) /\ st.audit = active.audit
    BY <1>0, <1>2 DEF Repl!ScheduleStep, Repl!TokenStep, StoreWith
  <2> QED
    BY <1>w, <2>1
<1>3. CASE Repl!AuditStep
  <2>1. active' = [active EXCEPT !.audit = Repl!Appended(active.audit, "active")] /\ Repl!MaxId(active.audit) < MaxAudit
        /\ UNCHANGED <<standby, pass, cursor, leader>>
    BY <1>3 DEF Repl!AuditStep, Repl!Write
  <2>2. active'.audit = Repl!Appended(active.audit, "active")
    BY <1>0, <2>1 DEF StoreWith
  <2>3. active'.audit \subseteq LogEntries
    BY <1>a, <2>1, <2>2 DEF LogsBounded
  <2> QED
    BY <2>1, <2>3 DEF LogsBounded
<1>4. CASE Repl!StandbyAudit
  <2>1. standby' = [standby EXCEPT !.audit = Repl!Appended(standby.audit, "standby")] /\ Repl!MaxId(standby.audit) < MaxAudit
        /\ UNCHANGED <<active, pass, cursor, leader>>
    BY <1>4 DEF Repl!StandbyAudit
  <2>2. standby'.audit = Repl!Appended(standby.audit, "standby")
    BY <1>0, <2>1 DEF StoreWith
  <2>3. standby'.audit \subseteq LogEntries
    BY <1>a, <2>1, <2>2 DEF LogsBounded
  <2> QED
    BY <2>1, <2>3 DEF LogsBounded
<1>5. CASE Repl!StandbyPrune
  <2>1. standby'.audit = standby.audit
    BY <1>0, <1>5 DEF Repl!StandbyPrune, StoreWith
  <2> QED
    BY <1>5, <2>1 DEF Repl!StandbyPrune, LogsBounded
<1>6. CASE Repl!GatherChangesets
  <2>1. pass'.batch.audit = {}
    BY <1>6 DEF Repl!GatherChangesets, Repl!EmptyStore
  <2> QED
    BY <1>6, <2>1 DEF Repl!GatherChangesets, LogsBounded
<1>7. CASE Repl!GatherRows
  <2>1. pass'.batch.audit = pass.batch.audit
    BY <1>0, <1>7 DEF Repl!GatherRows, StoreWith
  <2> QED
    BY <1>7, <2>1 DEF Repl!GatherRows, LogsBounded
<1>8. CASE Repl!GatherSnapshots
  <2>1. pass'.batch.audit = {e \in active.audit : e[1] > cursor}
    BY <1>0, <1>8 DEF Repl!GatherSnapshots, StoreWith
  <2> QED
    BY <1>8, <2>1 DEF Repl!GatherSnapshots, LogsBounded
<1>9. ASSUME NEW from, NEW to, NEW st, Repl!ApplyStep(from, to, st), st.audit = standby.audit PROVE LogsBounded'
  <2>1. pass'.batch = pass.batch
    BY <1>0, <1>9 DEF Repl!ApplyStep
  <2> QED
    BY <1>9, <2>1 DEF Repl!ApplyStep, LogsBounded
<1>10. CASE Repl!ApplyChangesets
  BY <1>0, <1>9, <1>10 DEF Repl!ApplyChangesets, StoreWith
<1>11. CASE Repl!ApplyBlobs
  <2> DEFINE st == [standby EXCEPT !.blob = @ \/ pass.batch.blob]
  <2>1. st.audit = standby.audit
    BY <1>0 DEF StoreWith
  <2>2. Repl!ApplyStep("apply blobs", "apply snapshot", st)
    BY <1>11 DEF Repl!ApplyBlobs
  <2> HIDE DEF st
  <2> QED
    BY <1>9, <2>1, <2>2
<1>12. CASE Repl!ApplySnapshot
  <2> DEFINE st == [standby EXCEPT !.snap = @ \/ pass.batch.snap]
  <2>1. st.audit = standby.audit
    BY <1>0 DEF StoreWith
  <2>2. PICK to : Repl!ApplyStep("apply snapshot", to, st)
    BY <1>12 DEF Repl!ApplySnapshot
  <2> HIDE DEF st
  <2> QED
    BY <1>9, <2>1, <2>2
<1>13. CASE Repl!ApplyFiles
  BY <1>0, <1>9, <1>13 DEF Repl!ApplyFiles, StoreWith
<1>14. CASE Repl!ApplyRows
  <2>1. \A x, y : [standby EXCEPT !.sched = x, !.token = y].audit = standby.audit
    BY <1>0 DEF StoreWith
  <2>2. PICK x, y : Repl!ApplyStep("apply rows", "apply audit", [standby EXCEPT !.sched = x, !.token = y])
    BY <1>14 DEF Repl!ApplyRows
  <2> QED
    BY <1>9, <2>1, <2>2
<1>15. CASE Repl!ApplyAudit
  <2> DEFINE log == standby.audit \cup {e \in pass.batch.audit : \A f \in standby.audit : f[1] # e[1]}
  <2>1. log \subseteq LogEntries
    BY DEF LogsBounded
  <2>2. standby' = [standby EXCEPT !.audit = log] /\ cursor' = Repl!MaxId(log) /\ pass' = Repl!Idle /\ UNCHANGED <<active, leader>>
    BY <1>15 DEF Repl!ApplyAudit
  <2> HIDE DEF log
  <2>3. standby'.audit = log
    BY <1>0, <2>2 DEF StoreWith
  <2>4. cursor' \in 0 .. MaxAudit
    BY <2>1, <2>2, MaxIdOfLog
  <2> QED
    BY <1>i, <2>1, <2>2, <2>3, <2>4 DEF LogsBounded
<1>16. CASE Repl!PassFails
  BY <1>i, <1>16 DEF Repl!PassFails, LogsBounded
<1>17. CASE Repl!Promote
  <2>1. standby'.audit = standby.audit
    BY <1>0, <1>17 DEF Repl!Promote, StoreWith
  <2> QED
    BY <1>i, <1>17, <2>1 DEF Repl!Promote, LogsBounded
<1>18. CASE UNCHANGED Repl!vars
  BY <1>18 DEF Repl!vars, LogsBounded
<1> QED
  BY <1>1, <1>2, <1>3, <1>4, <1>5, <1>6, <1>7, <1>8, <1>10, <1>11, <1>12, <1>13, <1>14, <1>15, <1>16, <1>17, <1>18
     DEF Repl!Next

\* Every part of the state of a replicating pair has its type: no audit id is
\* given out beyond what was written, and the cursor the standby answers with
\* is one of its ids (ha/replicate.go: Gather, Apply).
THEOREM ReplicationTypes ==
    ASSUME Repl!ReplicationAssumption
    PROVE  Repl!Spec => []Repl!TypeOK
<1>0. MaxAudit \in Nat
  BY DEF Repl!ReplicationAssumption
<1>1. Repl!Init => LogsBounded
  BY <1>0 DEF Repl!Init, LogsBounded, Repl!EmptyStore, Repl!Idle
<1>2. ReplInv /\ LogsBounded => Repl!TypeOK
  <2> SUFFICES ASSUME ReplInv, LogsBounded PROVE Repl!TypeOK
    OBVIOUS
  <2>1. /\ active \in StoreWith(active.audit) /\ standby \in StoreWith(standby.audit)
        /\ pass \in [pc : PassPoints, batch : StoreWith(pass.batch.audit)] /\ complete \in BOOLEAN /\ fresh \in BOOLEAN
    BY DEF ReplInv, StoresShape
  <2>2. 1 .. MaxAudit \subseteq 1 .. (2 * MaxAudit) /\ 0 .. MaxAudit \subseteq 0 .. (2 * MaxAudit)
    BY <1>0
  <2>3. LogEntries \subseteq (1 .. (2 * MaxAudit)) \X {"active", "standby"}
    BY <2>2 DEF LogEntries
  <2>4. ASSUME NEW log \in SUBSET LogEntries PROVE StoreWith(log) \subseteq Repl!Store
    <3>1. log \in SUBSET ((1 .. (2 * MaxAudit)) \X {"active", "standby"})
      BY <2>3
    <3> QED
      BY <3>1 DEF StoreWith, Repl!Store
  <2>5. active \in Repl!Store /\ standby \in Repl!Store /\ pass.batch \in Repl!Store
    BY <2>1, <2>4 DEF LogsBounded
  <2>6. pass \in [pc : {"idle"} \cup Repl!GatherSteps \cup Repl!ApplySteps, batch : Repl!Store]
    BY <2>1, <2>5 DEF PassPoints, Repl!GatherSteps
  <2> QED
    BY <2>1, <2>2, <2>5, <2>6 DEF Repl!TypeOK, LogsBounded
<1>3. ReplInv /\ LogsBounded /\ [Repl!Next]_(Repl!vars) => LogsBounded'
  BY <1>0, LogsStep
<1> QED
  BY <1>1, <1>2, <1>3, ReplInduction, PTL DEF Repl!Spec

-----------------------------------------------------------------------------
(* EventHub: broadcasts among connections that come, go and subscribe anew. *)

CONSTANTS Conns, Automation, Tokened, Senders, Room, MaxEvents, MaxSubscribes

VARIABLES conn, ws, topics, queue, out, got, lost, cast, sunk, count, changes

Hub == INSTANCE EventHub

Elems(s) == {s[i] : i \in 1 .. Len(s)}
Distinct(s) == \A i, j \in 1 .. Len(s) : s[i] = s[j] => i = j

CastRecords == [at : {"idle", "next", "events", "sink"}, topic : Hub!Topics \cup {None}, ev : Nat,
                todo : SUBSET Conns, cur : Conns \cup {None}, visited : SUBSET Conns,
                held : [Conns -> SUBSET Hub!Topics]]

HubShape ==
  /\ conn \in [Conns -> {"none", "open", "gone"}]
  /\ ws \in [Conns -> BOOLEAN]
  /\ topics \in [Conns -> SUBSET Hub!Topics]
  /\ queue \in [Conns -> Seq(Nat)]
  /\ got \in [Conns -> Seq(Nat)]
  /\ out \in [Conns -> Nat]
  /\ lost \in [Conns -> SUBSET Nat]
  /\ cast \in [Senders -> CastRecords]
  /\ count \in Nat

\* The events a connection got or still will get.
Has(c) == Elems(got[c]) \cup Elems(queue[c]) \cup ({out[c]} \ {0})

\* Each of them is an event that was broadcast, and is there once.
Tidy(c) ==
  /\ Distinct(got[c]) /\ Distinct(queue[c])
  /\ Elems(got[c]) \cap Elems(queue[c]) = {}
  /\ out[c] \notin Elems(got[c]) /\ out[c] \notin Elems(queue[c])
  /\ Has(c) \subseteq 1 .. count

\* The connections of the copy that may still be sent the event.
Left(b) == b.todo \cup (IF b.at = "events" THEN {b.cur} ELSE {})

\* A broadcast under way: its event is nobody's yet who is left to visit, and
\* what a client keeps of its topics is among those the event is covered by.
CastInv(b) ==
  IF b.at = "idle" THEN b = Hub!NoCast ELSE
  /\ b.ev \in 1 .. count /\ b.topic \in Hub!Topics
  /\ b.cur \notin b.todo /\ (b.at = "events" => b.cur \in Conns)
  /\ \A c \in Left(b) : b.ev \notin Has(c)
  /\ \A c \in Left(b) \cup b.visited : conn[c] # "none"
  /\ \A c \in Conns : b.held[c] \subseteq topics[c] \cap Hub!Covers(b.topic)
  /\ b.at = "events" => b.topic \notin b.held[b.cur]
  /\ \A c \in b.visited : b.held[c] # {} /\ ws[c] => b.ev \in lost[c] \cup Has(c)

CastsDiffer ==
  \A s, t \in Senders : cast[s].at # "idle" /\ cast[t].at # "idle" /\ cast[s].ev = cast[t].ev => s = t

HubInv ==
  /\ HubShape
  /\ \A c \in Conns : Tidy(c)
  /\ \A s \in Senders : CastInv(cast[s])
  /\ CastsDiffer

HubSetting == None \notin Conns

\* What Append, Head, Tail and \o do to the elements of a sequence.
LEMMA ElemsOfAppend ==
    ASSUME NEW s \in Seq(Nat), NEW e \in Nat
    PROVE  /\ Elems(Append(s, e)) = Elems(s) \cup {e}
           /\ Distinct(s) /\ e \notin Elems(s) => Distinct(Append(s, e))
<1> DEFINE a == Append(s, e)
<1>1. /\ a \in Seq(Nat) /\ Len(a) = Len(s) + 1 /\ Len(s) \in Nat
      /\ \A i \in 1 .. Len(s) : a[i] = s[i]
      /\ a[Len(s) + 1] = e
  BY AppendProperties
<1> HIDE DEF a
<1>2. \A i \in 1 .. Len(a) : i \in 1 .. Len(s) \/ i = Len(s) + 1
  BY <1>1
<1>3. \A i \in 1 .. Len(s) : i \in 1 .. Len(a)
  BY <1>1
<1>4. Len(s) + 1 \in 1 .. Len(a)
  BY <1>1
<1>5. Elems(a) = Elems(s) \cup {e}
  BY <1>1, <1>2, <1>3, <1>4, Zenon DEF Elems
<1>6. Distinct(s) /\ e \notin Elems(s) => Distinct(a)
  BY <1>1, <1>2, <1>3, <1>4 DEF Elems, Distinct
<1> QED
  BY <1>5, <1>6 DEF a

\* Taking the head of a queue takes one event out of it, the only copy when the
\* events differ.
LEMMA ElemsOfTail ==
    ASSUME NEW s \in Seq(Nat), s # <<>>
    PROVE  /\ Head(s) \in Nat /\ Tail(s) \in Seq(Nat)
           /\ Elems(s) = Elems(Tail(s)) \cup {Head(s)}
           /\ Distinct(s) => Distinct(Tail(s)) /\ Head(s) \notin Elems(Tail(s))
<1> DEFINE t == Tail(s)
           h == Head(s)
<1>1. /\ h \in Nat /\ t \in Seq(Nat) /\ Len(t) = Len(s) - 1 /\ Len(s) \in Nat /\ Len(s) > 0
      /\ \A i \in 1 .. Len(t) : t[i] = s[i + 1]
      /\ h = s[1]
  BY HeadTailProperties, EmptySeq
<1> HIDE DEF t, h
<1>2. \A i \in 1 .. Len(s) : i = 1 \/ (i - 1 \in 1 .. Len(t) /\ s[i] = t[i - 1])
  BY <1>1
<1>3. \A i \in 1 .. Len(t) : i + 1 \in 1 .. Len(s) /\ t[i] = s[i + 1]
  BY <1>1
<1>4. 1 \in 1 .. Len(s)
  BY <1>1
<1>5. Elems(s) = Elems(t) \cup {h}
  <2>1. ASSUME NEW x \in Elems(s) PROVE x \in Elems(t) \cup {h}
    <3>1. PICK i \in 1 .. Len(s) : x = s[i]
      BY DEF Elems
    <3>2. x = h \/ (i - 1 \in 1 .. Len(t) /\ x = t[i - 1])
      BY <3>1, <1>1, <1>2
    <3> QED
      BY <3>2 DEF Elems
  <2>2. ASSUME NEW x \in Elems(t) PROVE x \in Elems(s)
    BY <1>3 DEF Elems
  <2>3. h \in Elems(s)
    BY <1>1, <1>4 DEF Elems
  <2> QED
    BY <2>1, <2>2, <2>3
<1>6. Distinct(s) => Distinct(t)
  <2> SUFFICES ASSUME Distinct(s), NEW i \in 1 .. Len(t), NEW j \in 1 .. Len(t), t[i] = t[j] PROVE i = j
    BY DEF Distinct
  <2>1. i + 1 = j + 1
    BY <1>3 DEF Distinct
  <2> QED
    BY <2>1, <1>1
<1>7. Distinct(s) => h \notin Elems(t)
  <2> SUFFICES ASSUME Distinct(s), NEW i \in 1 .. Len(t), t[i] = h PROVE FALSE
    BY DEF Elems
  <2>1. i + 1 = 1
    BY <1>1, <1>3, <1>4 DEF Distinct
  <2> QED
    BY <2>1, <1>1
<1> QED
  BY <1>1, <1>5, <1>6, <1>7 DEF t, h

\* A concatenation has the events of both parts, each once when the parts have
\* none in common.
LEMMA ElemsOfConcat ==
    ASSUME NEW s \in Seq(Nat), NEW t \in Seq(Nat)
    PROVE  /\ s \o t \in Seq(Nat)
           /\ Elems(s \o t) = Elems(s) \cup Elems(t)
           /\ Distinct(s) /\ Distinct(t) /\ Elems(s) \cap Elems(t) = {} => Distinct(s \o t)
<1> DEFINE a == s \o t
<1>1. /\ a \in Seq(Nat) /\ Len(a) = Len(s) + Len(t) /\ Len(s) \in Nat /\ Len(t) \in Nat
      /\ \A i \in 1 .. Len(s) + Len(t) : a[i] = IF i <= Len(s) THEN s[i] ELSE t[i - Len(s)]
  BY ConcatProperties
<1> HIDE DEF a
<1>2. \A i \in 1 .. Len(a) : (i \in 1 .. Len(s) /\ a[i] = s[i])
                             \/ (i - Len(s) \in 1 .. Len(t) /\ a[i] = t[i - Len(s)])
  BY <1>1
<1>3. \A i \in 1 .. Len(s) : i \in 1 .. Len(a) /\ a[i] = s[i]
  BY <1>1
<1>4. \A i \in 1 .. Len(t) : i + Len(s) \in 1 .. Len(a) /\ a[i + Len(s)] = t[i]
  <2> SUFFICES ASSUME NEW i \in 1 .. Len(t) PROVE i + Len(s) \in 1 .. Len(a) /\ a[i + Len(s)] = t[i]
    OBVIOUS
  <2>1. i + Len(s) \in 1 .. Len(s) + Len(t) /\ ~(i + Len(s) <= Len(s)) /\ (i + Len(s)) - Len(s) = i
    BY <1>1
  <2> QED
    BY <1>1, <2>1
<1>5. Elems(a) = Elems(s) \cup Elems(t)
  <2>1. ASSUME NEW x \in Elems(a) PROVE x \in Elems(s) \cup Elems(t)
    BY <1>2 DEF Elems
  <2>2. ASSUME NEW x \in Elems(s) PROVE x \in Elems(a)
    BY <1>3 DEF Elems
  <2>3. ASSUME NEW x \in Elems(t) PROVE x \in Elems(a)
    BY <1>4 DEF Elems
  <2> QED
    BY <2>1, <2>2, <2>3
<1>6. ASSUME Distinct(s), Distinct(t), Elems(s) \cap Elems(t) = {} PROVE Distinct(a)
  <2> SUFFICES ASSUME NEW i \in 1 .. Len(a), NEW j \in 1 .. Len(a), a[i] = a[j] PROVE i = j
    BY DEF Distinct
  <2>1. CASE i \in 1 .. Len(s) /\ a[i] = s[i] /\ j \in 1 .. Len(s) /\ a[j] = s[j]
    BY <2>1, <1>6 DEF Distinct
  <2>2. CASE i - Len(s) \in 1 .. Len(t) /\ a[i] = t[i - Len(s)] /\ j - Len(s) \in 1 .. Len(t) /\ a[j] = t[j - Len(s)]
    <3>1. i - Len(s) = j - Len(s)
      BY <2>2, <1>6 DEF Distinct
    <3> QED
      BY <3>1, <1>1
  <2>3. CASE i \in 1 .. Len(s) /\ a[i] = s[i] /\ j - Len(s) \in 1 .. Len(t) /\ a[j] = t[j - Len(s)]
    <3>1. a[i] \in Elems(s) /\ a[i] \in Elems(t)
      BY <2>3 DEF Elems
    <3> QED
      BY <3>1, <1>6
  <2>4. CASE i - Len(s) \in 1 .. Len(t) /\ a[i] = t[i - Len(s)] /\ j \in 1 .. Len(s) /\ a[j] = s[j]
    <3>1. a[i] \in Elems(s) /\ a[i] \in Elems(t)
      BY <2>4 DEF Elems
    <3> QED
      BY <3>1, <1>6
  <2> QED
    BY <1>2, <2>1, <2>2, <2>3, <2>4
<1> QED
  BY <1>1, <1>5, <1>6 DEF a

\* The empty queue and the queue of one event hold what they say.
LEMMA ElemsOfOne ==
    /\ <<>> \in Seq(Nat) /\ Elems(<<>>) = {} /\ Distinct(<<>>)
    /\ \A e \in Nat : <<e>> \in Seq(Nat) /\ Elems(<<e>>) = {e} /\ Distinct(<<e>>)
BY DEF Elems, Distinct

\* A step of a connection leaves the broadcasts alone: it hands its events on,
\* and loses some only when its socket is closed.
ConnMove ==
  /\ UNCHANGED <<topics, lost, cast, count>>
  /\ \A c \in Conns :
       /\ Has(c)' \subseteq Has(c) /\ (ws'[c] => Has(c)' = Has(c))
       /\ conn[c] # "none" => conn'[c] # "none" /\ (ws'[c] => ws[c])

\* A step of a connection keeps the invariant of the hub.
LEMMA ConnMoveKeeps ==
    ASSUME HubInv, ConnMove, HubShape', \A c \in Conns : Tidy(c)'
    PROVE  HubInv'
<1>1. cast' = cast /\ count' = count /\ topics' = topics /\ lost' = lost
  BY DEF ConnMove
<1>2. CastsDiffer'
  BY <1>1 DEF HubInv, CastsDiffer
<1>3. ASSUME NEW s \in Senders PROVE CastInv(cast[s])'
  <2> DEFINE b == cast[s]
  <2>1. b \in CastRecords /\ CastInv(b) /\ b' = b
    BY <1>1 DEF HubInv, HubShape
  <2> HIDE DEF b
  <2>2. CASE b.at = "idle"
    BY <2>1, <2>2 DEF CastInv, Hub!NoCast, b
  <2>3. CASE b.at # "idle"
    <3>1. b.todo \subseteq Conns /\ b.visited \subseteq Conns
      BY <2>1 DEF CastRecords
    <3>2. Left(b) \subseteq Conns
      BY <2>1, <2>3, <3>1 DEF CastInv, Left
    <3>3. \A c \in Left(b) : b.ev \notin Has(c)'
      BY <2>1, <2>3, <3>2 DEF CastInv, ConnMove
    <3>4. \A c \in Left(b) \cup b.visited : conn'[c] # "none"
      BY <2>1, <2>3, <3>1, <3>2 DEF CastInv, ConnMove
    <3>5. \A c \in b.visited : b.held[c] # {} /\ ws'[c] => b.ev \in lost'[c] \cup Has(c)'
      <4> SUFFICES ASSUME NEW c \in b.visited, b.held[c] # {}, ws'[c] PROVE b.ev \in lost'[c] \cup Has(c)'
        OBVIOUS
      <4>1. c \in Conns /\ conn[c] # "none" /\ ws[c] /\ Has(c)' = Has(c)
        BY <2>1, <2>3, <3>1 DEF CastInv, ConnMove
      <4> QED
        BY <4>1, <1>1, <2>1, <2>3 DEF CastInv
    <3> QED
      BY <1>1, <2>1, <2>3, <3>3, <3>4, <3>5 DEF CastInv, Left, b
  <2> QED
    BY <2>2, <2>3
<1> QED
  BY <1>2, <1>3 DEF HubInv

\* A send of an event that the connection does not have: it is in its channel
\* once, or dropped.
LEMMA EnqueueOnce ==
    ASSUME HubShape, \A d \in Conns : Tidy(d), NEW c \in Conns, NEW ev \in 1 .. count, ev \notin Has(c),
           Hub!Enqueue(c, ev), UNCHANGED <<out, got, count>>
    PROVE  /\ queue' \in [Conns -> Seq(Nat)] /\ lost' \in [Conns -> SUBSET Nat]
           /\ \A d \in Conns : Tidy(d)' /\ Has(d) \subseteq Has(d)' /\ Has(d)' \subseteq Has(d) \cup {ev}
           /\ \A d \in Conns \ {c} : Has(d)' = Has(d)
           /\ \A d \in Conns : lost[d] \subseteq lost'[d]
           /\ ev \in lost'[c] \cup Has(c)'
<1>1. ev \in Nat /\ count \in Nat /\ ev # 0
  BY DEF HubShape
<1>2. CASE lost' = [lost EXCEPT ![c] = @ \cup {ev}] /\ queue' = queue
  <2>1. \A d \in Conns : Has(d)' = Has(d) /\ Tidy(d)'
    BY <1>2 DEF Has, Tidy
  <2>2. lost' \in [Conns -> SUBSET Nat] /\ ev \in lost'[c] /\ \A d \in Conns : lost[d] \subseteq lost'[d]
    BY <1>1, <1>2 DEF HubShape
  <2> QED
    BY <1>2, <2>1, <2>2 DEF HubShape
<1>3. CASE queue' = [queue EXCEPT ![c] = Append(@, ev)] /\ lost' = lost
  <2>1. queue[c] \in Seq(Nat) /\ got[c] \in Seq(Nat) /\ out[c] \in Nat
    BY DEF HubShape
  <2>2. queue'[c] = Append(queue[c], ev) /\ queue'[c] \in Seq(Nat)
    BY <1>1, <1>3, <2>1, AppendProperties DEF HubShape
  <2>3. Elems(queue'[c]) = Elems(queue[c]) \cup {ev} /\ (Distinct(queue[c]) /\ ev \notin Elems(queue[c]) => Distinct(queue'[c]))
    BY <1>1, <2>1, <2>2, ElemsOfAppend
  <2>4. \A d \in Conns \ {c} : queue'[d] = queue[d]
    BY <1>3 DEF HubShape
  <2>5. \A d \in Conns \ {c} : Has(d)' = Has(d) /\ Tidy(d)'
    BY <2>4 DEF Has, Tidy
  <2>6. Has(c)' = Has(c) \cup {ev}
    BY <2>3 DEF Has
  <2>7. Tidy(c)'
    <3>1. Tidy(c) /\ ev \notin Elems(got[c]) /\ ev \notin Elems(queue[c]) /\ ev # out[c]
      BY <1>1 DEF Has
    <3>2. got'[c] = got[c] /\ out'[c] = out[c] /\ count' = count
      OBVIOUS
    <3>3. Has(c)' \subseteq 1 .. count
      BY <2>6, <3>1 DEF Tidy
    <3> QED
      BY <2>3, <3>1, <3>2, <3>3 DEF Tidy
  <2>8. queue' \in [Conns -> Seq(Nat)]
    BY <1>3, <2>2, <2>4 DEF HubShape
  <2> QED
    BY <1>3, <2>5, <2>6, <2>7, <2>8 DEF HubShape
<1> QED
  BY <1>2, <1>3 DEF Hub!Enqueue

\* A send of one broadcast leaves the others as they are.
LEMMA OthersKept ==
    ASSUME NEW CONSTANT b \in CastRecords, CastInv(b), NEW CONSTANT ev, b.at # "idle" => b.ev # ev,
           UNCHANGED <<conn, ws, topics, count>>,
           \A d \in Conns : /\ Has(d) \subseteq Has(d)' /\ Has(d)' \subseteq Has(d) \cup {ev}
                            /\ lost[d] \subseteq lost'[d]
    PROVE  CastInv(b)'
<1>1. CASE b.at = "idle"
  BY <1>1 DEF CastInv, Hub!NoCast
<1>2. CASE b.at # "idle"
  <2>1. b.todo \subseteq Conns /\ b.visited \subseteq Conns
    BY DEF CastRecords
  <2>2. Left(b) \subseteq Conns
    BY <1>2, <2>1 DEF CastInv, Left
  <2>3. \A c \in Left(b) : b.ev \notin Has(c)'
    BY <1>2, <2>2 DEF CastInv
  <2>4. \A c \in b.visited : b.held[c] # {} /\ ws[c] => b.ev \in lost'[c] \cup Has(c)'
    BY <1>2, <2>1 DEF CastInv
  <2> QED
    BY <1>2, <2>3, <2>4 DEF CastInv, Left
<1> QED
  BY <1>1, <1>2

\* What a visit does to its broadcast: it is done with c, or c's second check
\* is left, which the event's own topic did not lead to.
Visited(b, n, c) ==
  /\ n.at = "next" /\ n.visited = b.visited \cup {c}
  /\ b.held[c] # {} => b.ev \in lost'[c] \cup Has(c)'
ToCheckAgain(b, n, c) ==
  /\ n.at = "events" /\ n.cur = c /\ n.visited = b.visited
  /\ b.topic \notin topics[c] /\ c \in b.todo

\* A visit of a broadcast to one connection keeps the invariant of the hub.
LEMMA VisitKeeps ==
    ASSUME NEW s \in Senders, NEW c \in Conns, NEW CONSTANT b, b = cast[s], NEW CONSTANT n \in CastRecords,
           HubInv, b.at \in {"next", "events"}, c \in Left(b),
           Hub!Enqueue(c, b.ev) \/ UNCHANGED <<queue, lost>>,
           UNCHANGED <<conn, ws, topics, out, got, sunk, count, changes>>,
           cast' = [cast EXCEPT ![s] = n],
           n.ev = b.ev /\ n.topic = b.topic /\ n.held = b.held /\ n.todo = b.todo \ {c} /\ n.cur \in {None, c},
           b.at = "events" => c = b.cur,
           \/ Visited(b, n, c)
           \/ ToCheckAgain(b, n, c) /\ UNCHANGED <<queue, lost>>,
           None \notin Conns
    PROVE  HubInv'
<1>1. HubShape /\ CastInv(b) /\ b \in CastRecords /\ b.at # "idle" /\ CastsDiffer /\ \A d \in Conns : Tidy(d)
  BY DEF HubInv, HubShape
<1>2. b.ev \in 1 .. count /\ b.ev \notin Has(c)
  BY <1>1 DEF CastInv
<1>3. /\ queue' \in [Conns -> Seq(Nat)] /\ lost' \in [Conns -> SUBSET Nat]
      /\ \A d \in Conns : Tidy(d)' /\ Has(d) \subseteq Has(d)' /\ Has(d)' \subseteq Has(d) \cup {b.ev} /\ lost[d] \subseteq lost'[d]
      /\ \A d \in Conns \ {c} : Has(d)' = Has(d)
  <2>1. CASE Hub!Enqueue(c, b.ev)
    BY <1>1, <1>2, <2>1, EnqueueOnce
  <2>2. CASE UNCHANGED <<queue, lost>>
    <3>1. \A d \in Conns : Has(d)' = Has(d) /\ Tidy(d)'
      BY <1>1, <2>2 DEF Has, Tidy
    <3> QED
      BY <1>1, <2>2, <3>1 DEF HubShape
  <2> QED
    BY <2>1, <2>2
<1>4. cast' \in [Senders -> CastRecords] /\ cast'[s] = n /\ \A t \in Senders \ {s} : cast'[t] = cast[t]
  BY <1>1 DEF HubShape
<1>5. HubShape'
  BY <1>1, <1>3, <1>4 DEF HubShape
<1>6. n.at # "idle"
  BY DEF Visited, ToCheckAgain
<1>7. CastsDiffer'
  BY <1>1, <1>4, <1>6 DEF CastsDiffer
<1>8. ASSUME NEW t \in Senders \ {s} PROVE CastInv(cast[t])'
  <2>1. cast[t] \in CastRecords /\ CastInv(cast[t])
    BY <1>1 DEF HubInv, HubShape
  <2>2. cast[t].at # "idle" => cast[t].ev # b.ev
    BY <1>1 DEF CastsDiffer
  <2>3. PICK x : x = cast[t]
    OBVIOUS
  <2>4. CastInv(x)'
    BY <1>3, <2>1, <2>2, <2>3, OthersKept
  <2> QED
    BY <1>4, <2>3, <2>4 DEF CastInv, Left
<1>9. CastInv(n)'
  <2>1. b.todo \subseteq Conns /\ b.visited \subseteq Conns
    BY <1>1 DEF CastRecords
  <2>2. Left(n) \subseteq Left(b) /\ Left(n) \subseteq Conns
    BY <1>1, <2>1 DEF Left, CastInv, Visited, ToCheckAgain
  <2>3. n.ev \in 1 .. count' /\ n.topic \in Hub!Topics
    BY <1>1 DEF CastInv
  <2>4. n.cur \notin n.todo /\ (n.at = "events" => n.cur \in Conns)
    BY <2>1 DEF Visited, ToCheckAgain
  <2>5. \A d \in Left(n) : n.ev \notin Has(d)'
    <3>1. CASE Visited(b, n, c)
      <4>1. c \notin Left(n)
        BY <3>1 DEF Visited, Left
      <4> QED
        BY <1>1, <1>3, <2>2, <4>1 DEF CastInv
    <3>2. CASE UNCHANGED <<queue, lost>>
      BY <1>1, <2>2, <3>2 DEF CastInv, Has
    <3> QED
      BY <3>1, <3>2
  <2>6. \A d \in Left(n) \cup n.visited : conn'[d] # "none"
    BY <1>1, <2>2 DEF CastInv, Visited, ToCheckAgain
  <2>7. \A d \in Conns : n.held[d] \subseteq topics'[d] \cap Hub!Covers(n.topic)
    BY <1>1 DEF CastInv
  <2>8. n.at = "events" => n.topic \notin n.held[n.cur]
    BY <1>1 DEF CastInv, Visited, ToCheckAgain
  <2>9. \A d \in n.visited : n.held[d] # {} /\ ws'[d] => n.ev \in lost'[d] \cup Has(d)'
    <3> SUFFICES ASSUME NEW d \in n.visited, n.held[d] # {}, ws'[d] PROVE n.ev \in lost'[d] \cup Has(d)'
      OBVIOUS
    <3>1. CASE d \in b.visited
      BY <1>1, <1>3, <2>1, <3>1 DEF CastInv
    <3>2. CASE d \notin b.visited
      BY <3>2 DEF Visited, ToCheckAgain
    <3> QED
      BY <3>1, <3>2
  <2> QED
    BY <1>6, <2>3, <2>4, <2>5, <2>6, <2>7, <2>8, <2>9 DEF CastInv, Left
<1>10. CastInv(cast[s])'
  BY <1>4, <1>9 DEF CastInv, Left
<1> QED
  BY <1>3, <1>5, <1>7, <1>8, <1>10 DEF HubInv

\* Every step of a client, of a connection's loops and of a broadcast keeps it.
LEMMA HubInduction ==
    ASSUME HubSetting
    PROVE  Hub!Spec => []HubInv
<1>1. Hub!NoCast \in CastRecords /\ Hub!NoCast.at = "idle"
  BY DEF Hub!NoCast, CastRecords
<1>2. Hub!Init => HubInv
  <2> SUFFICES ASSUME Hub!Init PROVE HubInv
    OBVIOUS
  <2>1. HubShape
    BY <1>1, ElemsOfOne DEF Hub!Init, HubShape
  <2>2. \A c \in Conns : Tidy(c)
    BY ElemsOfOne DEF Hub!Init, Tidy, Has
  <2>3. \A s \in Senders : cast[s] = Hub!NoCast
    BY DEF Hub!Init
  <2> QED
    BY <1>1, <2>1, <2>2, <2>3 DEF HubInv, CastInv, CastsDiffer
<1>3. HubInv /\ [Hub!Next]_Hub!vars => HubInv'
  <2> SUFFICES ASSUME HubInv, [Hub!Next]_Hub!vars PROVE HubInv'
    OBVIOUS
  <2>1. HubShape /\ (\A c \in Conns : Tidy(c)) /\ CastsDiffer /\ \A s \in Senders : CastInv(cast[s])
    BY DEF HubInv
  <2>2. ASSUME NEW c \in Conns, Hub!Accept(c) PROVE HubInv'
    <3>1. HubShape'
      BY <2>1, <2>2 DEF HubShape, Hub!Accept
    <3>2. \A d \in Conns : Tidy(d)' /\ Has(d)' = Has(d)
      BY <2>1, <2>2 DEF Hub!Accept, Tidy, Has
    <3>3. ConnMove
      BY <2>1, <2>2, <3>2 DEF ConnMove, Hub!Accept, HubShape
    <3> QED
      BY <3>1, <3>2, <3>3, ConnMoveKeeps
  <2>3. ASSUME NEW c \in Conns, Hub!Disconnect(c) PROVE HubInv'
    <3>1. HubShape'
      BY <2>1, <2>3 DEF HubShape, Hub!Disconnect
    <3>2. \A d \in Conns : Tidy(d)' /\ Has(d)' = Has(d)
      BY <2>1, <2>3 DEF Hub!Disconnect, Tidy, Has
    <3>3. ConnMove
      BY <2>1, <2>3, <3>2 DEF ConnMove, Hub!Disconnect, HubShape
    <3> QED
      BY <3>1, <3>2, <3>3, ConnMoveKeeps
  <2>4. ASSUME Hub!CloseByTokenID PROVE HubInv'
    <3>1. HubShape'
      BY <2>1, <2>4 DEF HubShape, Hub!CloseByTokenID
    <3>2. \A d \in Conns : Tidy(d)' /\ Has(d)' = Has(d)
      BY <2>1, <2>4 DEF Hub!CloseByTokenID, Tidy, Has
    <3>3. ConnMove
      BY <2>1, <2>4, <3>2 DEF ConnMove, Hub!CloseByTokenID, HubShape
    <3> QED
      BY <3>1, <3>2, <3>3, ConnMoveKeeps
  <2>5. ASSUME NEW c \in Conns, Hub!Remove(c) PROVE HubInv'
    <3>1. HubShape'
      BY <2>1, <2>5 DEF HubShape, Hub!Remove
    <3>2. \A d \in Conns \ {c} : Has(d)' = Has(d) /\ Tidy(d)'
      BY <2>1, <2>5 DEF Hub!Remove, Has, Tidy, HubShape
    <3>3. out'[c] = 0 /\ got' = got /\ queue' = queue /\ count' = count
      BY <2>1, <2>5 DEF Hub!Remove, HubShape
    <3>4. Has(c)' = Elems(got[c]) \cup Elems(queue[c]) /\ Has(c)' \subseteq Has(c)
      BY <3>3 DEF Has
    <3>5. 0 \notin Has(c)
      BY <2>1 DEF Tidy, HubShape
    <3>6. Tidy(c)'
      BY <2>1, <3>3, <3>4, <3>5 DEF Tidy
    <3>7. ConnMove
      BY <2>1, <2>5, <3>2, <3>4 DEF ConnMove, Hub!Remove, HubShape
    <3> QED
      BY <3>1, <3>2, <3>6, <3>7, ConnMoveKeeps
  <2>6. ASSUME NEW c \in Conns, Hub!Take(c) PROVE HubInv'
    <3>1. queue[c] \in Seq(Nat) /\ queue[c] # <<>> /\ out[c] = 0
      BY <2>1, <2>6 DEF HubShape, Hub!Take
    <3>2. /\ Head(queue[c]) \in Nat /\ Tail(queue[c]) \in Seq(Nat)
          /\ Elems(queue[c]) = Elems(Tail(queue[c])) \cup {Head(queue[c])}
          /\ Distinct(Tail(queue[c])) /\ Head(queue[c]) \notin Elems(Tail(queue[c]))
      BY <2>1, <3>1, ElemsOfTail DEF Tidy
    <3>3. /\ out'[c] = Head(queue[c]) /\ queue'[c] = Tail(queue[c])
          /\ \A d \in Conns \ {c} : out'[d] = out[d] /\ queue'[d] = queue[d]
          /\ got' = got /\ count' = count
      BY <2>1, <2>6 DEF HubShape, Hub!Take
    <3>4. HubShape'
      BY <2>1, <2>6, <3>2, <3>3 DEF HubShape, Hub!Take
    <3>5. \A d \in Conns \ {c} : Has(d)' = Has(d) /\ Tidy(d)'
      BY <2>1, <3>3 DEF Has, Tidy
    <3>6. Head(queue[c]) \in Has(c) /\ 0 \notin Has(c) /\ Head(queue[c]) # 0
      BY <2>1, <3>2 DEF Has, Tidy, HubShape
    <3>7. Has(c)' = Has(c)
      BY <3>1, <3>2, <3>3, <3>6 DEF Has
    <3>8. Tidy(c)'
      BY <2>1, <3>2, <3>3, <3>7 DEF Tidy
    <3>9. ConnMove
      BY <2>1, <2>6, <3>5, <3>7 DEF ConnMove, Hub!Take, HubShape
    <3> QED
      BY <3>4, <3>5, <3>8, <3>9, ConnMoveKeeps
  <2>7. ASSUME NEW c \in Conns, Hub!Write(c) PROVE HubInv'
    <3>1. CASE ws' = [ws EXCEPT ![c] = FALSE] /\ UNCHANGED <<got, out>>
      <4>1. HubShape'
        BY <2>1, <2>7, <3>1 DEF HubShape, Hub!Write
      <4>2. \A d \in Conns : Tidy(d)' /\ Has(d)' = Has(d)
        BY <2>1, <2>7, <3>1 DEF Hub!Write, Tidy, Has
      <4>3. ConnMove
        BY <2>1, <2>7, <3>1, <4>2 DEF ConnMove, Hub!Write, HubShape
      <4> QED
        BY <4>1, <4>2, <4>3, ConnMoveKeeps
    <3>2. CASE ws[c] /\ got' = [got EXCEPT ![c] = Append(@, out[c])] /\ out' = [out EXCEPT ![c] = 0] /\ ws' = ws
      <4>1. got[c] \in Seq(Nat) /\ out[c] \in Nat /\ out[c] # 0
        BY <2>1, <2>7 DEF HubShape, Hub!Write
      <4>2. Append(got[c], out[c]) \in Seq(Nat) /\ Elems(Append(got[c], out[c])) = Elems(got[c]) \cup {out[c]}
            /\ Distinct(Append(got[c], out[c]))
        BY <2>1, <4>1, AppendProperties, ElemsOfAppend DEF Tidy
      <4>3. /\ out'[c] = 0 /\ got'[c] = Append(got[c], out[c])
            /\ \A d \in Conns \ {c} : out'[d] = out[d] /\ got'[d] = got[d]
            /\ queue' = queue /\ count' = count
        BY <2>1, <2>7, <3>2 DEF HubShape, Hub!Write
      <4>4. HubShape'
        BY <2>1, <2>7, <3>2, <4>2, <4>3 DEF HubShape, Hub!Write
      <4>5. \A d \in Conns \ {c} : Has(d)' = Has(d) /\ Tidy(d)'
        BY <2>1, <4>3 DEF Has, Tidy
      <4>6. Has(c)' = Has(c) /\ 0 \notin Has(c)
        BY <2>1, <4>1, <4>2, <4>3 DEF Has, Tidy, HubShape
      <4>7. 0 \notin Elems(got'[c]) /\ 0 \notin Elems(queue'[c])
        BY <4>6, <4>3 DEF Has
      <4>8. Tidy(c)'
        BY <2>1, <4>2, <4>3, <4>6, <4>7 DEF Tidy
      <4>9. ConnMove
        BY <2>1, <2>7, <3>2, <4>5, <4>6 DEF ConnMove, Hub!Write, HubShape
      <4> QED
        BY <4>4, <4>5, <4>8, <4>9, ConnMoveKeeps
    <3> QED
      BY <2>7, <3>1, <3>2 DEF Hub!Write
  <2>8. ASSUME NEW c \in Conns, NEW T \in SUBSET Hub!Topics, Hub!Subscribe(c, T) PROVE HubInv'
    <3> DEFINE S == IF c \in Automation THEN T ELSE T \ {"events"}
               n(s) == [cast[s] EXCEPT !.held[c] = @ \cap S]
    <3>1. S \subseteq Hub!Topics
      OBVIOUS
    <3>2. topics' = [topics EXCEPT ![c] = S] /\ cast' = [s \in Senders |-> n(s)]
          /\ UNCHANGED <<conn, ws, queue, out, got, lost, count>>
      BY <2>8 DEF Hub!Subscribe
    <3> HIDE DEF S
    <3>3. ASSUME NEW s \in Senders
          PROVE  /\ cast[s] \in CastRecords /\ n(s) \in CastRecords /\ cast'[s] = n(s)
                 /\ n(s).at = cast[s].at /\ n(s).topic = cast[s].topic /\ n(s).ev = cast[s].ev
                 /\ n(s).todo = cast[s].todo /\ n(s).cur = cast[s].cur /\ n(s).visited = cast[s].visited
                 /\ n(s).held[c] = cast[s].held[c] \cap S
                 /\ \A d \in Conns \ {c} : n(s).held[d] = cast[s].held[d]
      <4>1. cast[s] \in CastRecords /\ cast'[s] = n(s)
        BY <2>1, <3>2 DEF HubShape
      <4> QED
        BY <3>1, <4>1 DEF CastRecords
    <3>4. \A d \in Conns : Tidy(d)' /\ Has(d)' = Has(d)
      BY <2>1, <3>2 DEF Tidy, Has
    <3>5. HubShape'
      <4>1. cast' \in [Senders -> CastRecords]
        BY <3>2, <3>3
      <4> QED
        BY <2>1, <3>1, <3>2, <4>1 DEF HubShape
    <3>6. CastsDiffer'
      <4>1. \A s \in Senders : cast'[s].at = cast[s].at /\ cast'[s].ev = cast[s].ev
        BY <3>3
      <4> QED
        BY <2>1, <4>1 DEF CastsDiffer
    <3>7. ASSUME NEW s \in Senders PROVE CastInv(cast[s])'
      <4> DEFINE b == cast[s]
                 m == n(s)
      <4>1. b \in CastRecords /\ m \in CastRecords /\ cast'[s] = m
            /\ m.at = b.at /\ m.topic = b.topic /\ m.ev = b.ev /\ m.todo = b.todo /\ m.cur = b.cur /\ m.visited = b.visited
            /\ m.held[c] = b.held[c] \cap S /\ \A d \in Conns \ {c} : m.held[d] = b.held[d]
        BY <3>3
      <4>2. CastInv(b)
        BY <2>1
      <4>3. CASE b.at = "idle"
        <5>1. b = Hub!NoCast /\ b.held[c] = {}
          BY <4>2, <4>3 DEF CastInv, Hub!NoCast
        <5>2. m = b
          BY <4>1, <5>1 DEF CastRecords
        <5> QED
          BY <4>1, <4>3, <5>1, <5>2 DEF CastInv, Hub!NoCast
      <4>4. CASE b.at # "idle"
        <5> HIDE DEF b, m
        <5>1. b.todo \subseteq Conns /\ b.visited \subseteq Conns /\ Left(b) \subseteq Conns /\ Left(m) = Left(b)
          BY <4>1, <4>2, <4>4 DEF CastRecords, CastInv, Left
        <5>2. \A d \in Conns : m.held[d] \subseteq b.held[d]
          BY <4>1
        <5>3. \A d \in Conns : m.held[d] \subseteq topics'[d] \cap Hub!Covers(m.topic)
          <6>1. topics'[c] = S /\ \A d \in Conns \ {c} : topics'[d] = topics[d]
            BY <2>1, <3>2 DEF HubShape
          <6> QED
            BY <4>1, <4>2, <4>4, <6>1 DEF CastInv
        <5>4. \A d \in Left(m) : m.ev \notin Has(d)'
          BY <3>4, <4>1, <4>2, <4>4, <5>1 DEF CastInv
        <5>5. \A d \in Left(m) \cup m.visited : conn'[d] # "none"
          BY <3>2, <4>1, <4>2, <4>4, <5>1 DEF CastInv
        <5>6. m.at = "events" => m.topic \notin m.held[m.cur]
          BY <4>1, <4>2, <4>4, <5>2 DEF CastInv
        <5>7. \A d \in m.visited : m.held[d] # {} /\ ws'[d] => m.ev \in lost'[d] \cup Has(d)'
          BY <3>2, <3>4, <4>1, <4>2, <4>4, <5>1, <5>2 DEF CastInv
        <5>8. m.ev \in 1 .. count' /\ m.topic \in Hub!Topics /\ m.cur \notin m.todo /\ (m.at = "events" => m.cur \in Conns)
          BY <3>2, <4>1, <4>2, <4>4 DEF CastInv
        <5>9. cast'[s] = m /\ m.at # "idle"
          BY <4>1, <4>4
        <5> HIDE DEF n
        <5> QED
          BY <5>3, <5>4, <5>5, <5>6, <5>7, <5>8, <5>9 DEF CastInv, Left
      <4> QED
        BY <4>3, <4>4
    <3> QED
      BY <3>4, <3>5, <3>6, <3>7 DEF HubInv
  <2>9. ASSUME NEW s \in Senders, NEW t \in Hub!Topics, Hub!Broadcast(s, t) PROVE HubInv'
    <3> DEFINE m == [at |-> "next", topic |-> t, ev |-> count + 1, todo |-> {c \in Conns : conn[c] = "open"},
                     cur |-> None, visited |-> {},
                     held |-> [c \in Conns |-> IF conn[c] = "open" THEN topics[c] \cap Hub!Covers(t) ELSE {}]]
    <3>1. cast[s].at = "idle" /\ count' = count + 1 /\ cast' = [cast EXCEPT ![s] = m]
          /\ UNCHANGED <<conn, ws, topics, queue, out, got, lost>>
      BY <2>9 DEF Hub!Broadcast
    <3>2. /\ m.at = "next" /\ m.topic = t /\ m.ev = count + 1 /\ m.cur = None /\ m.visited = {}
          /\ m.todo = {c \in Conns : conn[c] = "open"}
          /\ \A c \in Conns : m.held[c] \subseteq topics[c] \cap Hub!Covers(t)
      OBVIOUS
    <3>3. m \in CastRecords
      BY <2>1 DEF CastRecords, HubShape
    <3> HIDE DEF m
    <3>4. cast'[s] = m /\ \A u \in Senders \ {s} : cast'[u] = cast[u]
      BY <2>1, <3>1 DEF HubShape
    <3>5. HubShape'
      BY <2>1, <3>1, <3>3 DEF HubShape
    <3>6. \A c \in Conns : Tidy(c)' /\ Has(c)' = Has(c)
      BY <2>1, <3>1 DEF Tidy, Has, HubShape
    <3>7. count \in Nat /\ \A u \in Senders \ {s} : cast[u].at # "idle" => cast[u].ev \in 1 .. count
      BY <2>1 DEF CastInv, HubShape
    <3>8. CastsDiffer'
      BY <2>1, <3>2, <3>4, <3>7 DEF CastsDiffer
    <3>9. ASSUME NEW u \in Senders \ {s} PROVE CastInv(cast[u])'
      <4>1. CastInv(cast[u]) /\ cast'[u] = cast[u] /\ cast[u] \in CastRecords
        BY <2>1, <3>4 DEF HubShape
      <4>2. PICK x : x = cast[u]
        OBVIOUS
      <4>3. CASE x.at = "idle"
        BY <4>1, <4>2, <4>3 DEF CastInv, Hub!NoCast
      <4>4. CASE x.at # "idle"
        <5>1. x.todo \subseteq Conns /\ x.visited \subseteq Conns /\ Left(x) \subseteq Conns
          BY <4>1, <4>2, <4>4 DEF CastRecords, CastInv, Left
        <5>2. x.ev \in 1 .. count'
          BY <3>1, <3>7, <4>2, <4>4
        <5> QED
          BY <3>1, <3>6, <4>1, <4>2, <4>4, <5>1, <5>2 DEF CastInv, Left
      <4> QED
        BY <4>3, <4>4
    <3>10. CastInv(cast[s])'
      <4>1. Left(m) = m.todo /\ m.todo \subseteq Conns
        BY <3>2 DEF Left
      <4>2. \A c \in Conns : count + 1 \notin Has(c)'
        BY <2>1, <3>6, <3>7 DEF Tidy
      <4>3. m.ev \in 1 .. count'
        BY <3>1, <3>2, <3>7
      <4>4. PICK x : x = m
        OBVIOUS
      <4>5. \A c \in Left(x) \cup x.visited : conn'[c] # "none"
        BY <3>1, <3>2, <4>1, <4>4
      <4>6. CastInv(x)'
        BY <3>1, <3>2, <4>1, <4>2, <4>3, <4>4, <4>5 DEF CastInv, Left, HubSetting
      <4> QED
        BY <3>4, <4>4, <4>6 DEF CastInv, Left
    <3> QED
      BY <3>5, <3>6, <3>8, <3>9, <3>10 DEF HubInv
  <2>10. ASSUME NEW s \in Senders, NEW c \in Conns, Hub!Visit(s, c) PROVE HubInv'
    <3>1. PICK b : b = cast[s]
      OBVIOUS
    <3> DEFINE direct == b.topic \in topics[c]
               again == Hub!FeedsEvents(b.topic) /\ b.topic # "events" /\ ~direct
               m == [b EXCEPT !.todo = @ \ {c}, !.at = IF again THEN "events" ELSE "next",
                     !.cur = IF again THEN c ELSE None, !.visited = IF again THEN @ ELSE @ \cup {c}]
    <3>2. /\ b.at = "next" /\ c \in b.todo
          /\ IF direct THEN Hub!Enqueue(c, b.ev) ELSE UNCHANGED <<queue, lost>>
          /\ cast' = [cast EXCEPT ![s] = m]
          /\ UNCHANGED <<conn, ws, topics, out, got, sunk, count, changes>>
      BY <2>10, <3>1 DEF Hub!Visit
    <3>3. b \in CastRecords /\ CastInv(b)
      BY <2>1, <3>1 DEF HubShape
    <3>4. /\ m \in CastRecords /\ m.ev = b.ev /\ m.topic = b.topic /\ m.held = b.held /\ m.todo = b.todo \ {c}
          /\ m.at = (IF again THEN "events" ELSE "next") /\ m.cur = (IF again THEN c ELSE None)
          /\ m.visited = (IF again THEN b.visited ELSE b.visited \cup {c})
      BY <3>3 DEF CastRecords
    <3>5. b.held[c] \subseteq topics[c] /\ b.held[c] \subseteq Hub!Covers(b.topic) /\ b.ev \in 1 .. count /\ b.ev \notin Has(c)
          /\ c \in Left(b)
      BY <3>2, <3>3 DEF CastInv, Left
    <3>6. PICK n : n = m
      OBVIOUS
    <3> HIDE DEF m
    <3>7. CASE again
      <4>1. ToCheckAgain(b, n, c) /\ UNCHANGED <<queue, lost>>
        BY <3>2, <3>4, <3>6, <3>7 DEF ToCheckAgain
      <4> HIDE DEF again, direct
      <4>2. Hub!Enqueue(c, b.ev) \/ UNCHANGED <<queue, lost>>
        BY <4>1
      <4>3. n \in CastRecords /\ n.ev = b.ev /\ n.topic = b.topic /\ n.held = b.held /\ n.todo = b.todo \ {c} /\ n.cur \in {None, c}
        BY <3>4, <3>6
      <4>4. cast' = [cast EXCEPT ![s] = n]
        BY <3>2, <3>6
      <4>5. b.at \in {"next", "events"} /\ (b.at = "events" => c = b.cur) /\ None \notin Conns
        BY <3>2 DEF HubSetting
      <4> QED
        BY <3>1, <3>2, <3>5, <4>1, <4>2, <4>3, <4>4, <4>5, VisitKeeps
    <3>8. CASE ~again
      <4>1. b.held[c] # {} => direct
        BY <3>5, <3>8 DEF Hub!Covers, Hub!FeedsEvents
      <4>2. direct => b.ev \in lost'[c] \cup Has(c)'
        BY <2>1, <3>2, <3>5, EnqueueOnce
      <4>3. Visited(b, n, c)
        BY <3>4, <3>6, <3>8, <4>1, <4>2 DEF Visited
      <4>4. Hub!Enqueue(c, b.ev) \/ UNCHANGED <<queue, lost>>
        BY <3>2
      <4> HIDE DEF again, direct
      <4>5. n \in CastRecords /\ n.ev = b.ev /\ n.topic = b.topic /\ n.held = b.held /\ n.todo = b.todo \ {c} /\ n.cur \in {None, c}
        BY <3>4, <3>6
      <4>6. cast' = [cast EXCEPT ![s] = n]
        BY <3>2, <3>6
      <4>7. b.at \in {"next", "events"} /\ (b.at = "events" => c = b.cur) /\ None \notin Conns
        BY <3>2 DEF HubSetting
      <4> QED
        BY <3>1, <3>2, <3>5, <4>3, <4>4, <4>5, <4>6, <4>7, VisitKeeps
    <3> QED
      BY <3>7, <3>8
  <2>11. ASSUME NEW s \in Senders, Hub!VisitEvents(s) PROVE HubInv'
    <3>1. PICK b : b = cast[s]
      OBVIOUS
    <3> DEFINE c == b.cur
               m == [b EXCEPT !.at = "next", !.cur = None, !.visited = @ \cup {c}]
    <3>2. b \in CastRecords /\ CastInv(b) /\ b.at = "events"
      BY <2>1, <2>11, <3>1 DEF HubShape, Hub!VisitEvents
    <3>3. /\ IF "events" \in topics[c] THEN Hub!Enqueue(c, b.ev) ELSE UNCHANGED <<queue, lost>>
          /\ UNCHANGED <<conn, ws, topics, out, got, sunk, count, changes>>
      BY <2>11, <3>1 DEF Hub!VisitEvents
    <3>4. cast' = [cast EXCEPT ![s] = m]
      BY <2>1, <2>11, <3>1 DEF Hub!VisitEvents, HubShape, CastRecords
    <3>5. /\ c \in Conns /\ c \notin b.todo /\ c \in Left(b) /\ b.ev \in 1 .. count /\ b.ev \notin Has(c)
          /\ b.held[c] \subseteq topics[c] \cap Hub!Covers(b.topic) /\ b.topic \notin b.held[c]
      BY <3>2 DEF CastInv, Left
    <3>6. /\ m \in CastRecords /\ m.ev = b.ev /\ m.topic = b.topic /\ m.held = b.held /\ m.todo = b.todo
          /\ m.at = "next" /\ m.cur = None /\ m.visited = b.visited \cup {c}
      BY <3>2, <3>5 DEF CastRecords
    <3>7. PICK n : n = m
      OBVIOUS
    <3> HIDE DEF m
    <3>8. b.held[c] # {} => "events" \in topics[c]
      BY <3>5 DEF Hub!Covers
    <3>9. "events" \in topics[c] => b.ev \in lost'[c] \cup Has(c)'
      BY <2>1, <3>3, <3>5, EnqueueOnce
    <3>10. Visited(b, n, c)
      BY <3>6, <3>7, <3>8, <3>9 DEF Visited
    <3>11. Hub!Enqueue(c, b.ev) \/ UNCHANGED <<queue, lost>>
      BY <3>3
    <3>12. n \in CastRecords /\ n.ev = b.ev /\ n.topic = b.topic /\ n.held = b.held /\ n.todo = b.todo \ {c} /\ n.cur \in {None, c}
      BY <3>5, <3>6, <3>7
    <3>13. cast' = [cast EXCEPT ![s] = n]
      BY <3>4, <3>7
    <3>14. b.at \in {"next", "events"} /\ (b.at = "events" => c = b.cur) /\ None \notin Conns
      BY <3>2 DEF HubSetting
    <3>15. c \in Left(b) /\ c \in Conns
      BY <3>5
    <3> HIDE DEF c
    <3> QED
      BY <3>1, <3>3, <3>10, <3>11, <3>12, <3>13, <3>14, <3>15, VisitKeeps
  <2>12. ASSUME NEW s \in Senders, Hub!Sink(s) PROVE HubInv'
    <3>1. cast' = [cast EXCEPT ![s] = Hub!NoCast] /\ UNCHANGED <<conn, ws, topics, queue, out, got, lost, count>>
      BY <2>12 DEF Hub!Sink
    <3>2. cast'[s] = Hub!NoCast /\ \A u \in Senders \ {s} : cast'[u] = cast[u]
      BY <2>1, <3>1 DEF HubShape
    <3>3. HubShape'
      BY <1>1, <2>1, <3>1 DEF HubShape
    <3>4. \A c \in Conns : Tidy(c)' /\ Has(c)' = Has(c)
      BY <2>1, <3>1 DEF Tidy, Has
    <3>5. CastsDiffer'
      BY <1>1, <2>1, <3>2 DEF CastsDiffer
    <3>6. ASSUME NEW u \in Senders \ {s} PROVE CastInv(cast[u])'
      <4>1. CastInv(cast[u]) /\ cast'[u] = cast[u] /\ cast[u] \in CastRecords
        BY <2>1, <3>2 DEF HubShape
      <4> QED
        BY <3>1, <3>4, <4>1 DEF CastInv, Left, Has
    <3>7. CastInv(cast[s])'
      BY <1>1, <3>2 DEF CastInv, Hub!NoCast
    <3> QED
      BY <3>3, <3>4, <3>5, <3>6, <3>7 DEF HubInv
  <2>13. CASE UNCHANGED Hub!vars
    BY <2>1, <2>13 DEF Hub!vars, HubInv, HubShape, Tidy, Has, CastInv, Left, CastsDiffer
  <2> QED
    BY <2>2, <2>3, <2>4, <2>5, <2>6, <2>7, <2>8, <2>9, <2>10, <2>11, <2>12, <2>13 DEF Hub!Next, Hub!CastStep
<1> QED
  BY <1>2, <1>3, PTL DEF Hub!Spec

\* The stream of a tidy connection has each of its events once, and no other.
LEMMA StreamOfTidy ==
    ASSUME HubShape, NEW c \in Conns, Tidy(c)
    PROVE  /\ Hub!Stream(c) \in Seq(Nat) /\ Distinct(Hub!Stream(c))
           /\ Elems(Hub!Stream(c)) = Has(c)
<1> DEFINE hand == IF out[c] = 0 THEN <<>> ELSE <<out[c]>>
<1>1. got[c] \in Seq(Nat) /\ queue[c] \in Seq(Nat) /\ out[c] \in Nat
  BY DEF HubShape
<1>2. hand \in Seq(Nat) /\ Distinct(hand) /\ Elems(hand) = {out[c]} \ {0}
  BY <1>1, ElemsOfOne
<1>3. Hub!Stream(c) = (got[c] \o hand) \o queue[c]
  BY DEF Hub!Stream
<1> HIDE DEF hand
<1>4. /\ got[c] \o hand \in Seq(Nat) /\ Elems(got[c] \o hand) = Elems(got[c]) \cup ({out[c]} \ {0})
      /\ Distinct(got[c] \o hand)
  BY <1>1, <1>2, ElemsOfConcat DEF Tidy
<1>5. Elems(got[c] \o hand) \cap Elems(queue[c]) = {}
  BY <1>4 DEF Tidy
<1> DEFINE sent == got[c] \o hand
<1>6. sent \in Seq(Nat) /\ Distinct(sent) /\ Elems(sent) \cap Elems(queue[c]) = {} /\ Distinct(queue[c])
      /\ Elems(sent) = Elems(got[c]) \cup ({out[c]} \ {0}) /\ Hub!Stream(c) = sent \o queue[c]
  BY <1>3, <1>4, <1>5 DEF Tidy
<1> HIDE DEF sent
<1>7. sent \o queue[c] \in Seq(Nat) /\ Distinct(sent \o queue[c]) /\ Elems(sent \o queue[c]) = Elems(sent) \cup Elems(queue[c])
  BY <1>1, <1>6, ElemsOfConcat
<1> QED
  BY <1>6, <1>7 DEF Has

\* No client gets an event twice (hub.go: Broadcast), whatever topics it has or
\* takes on in the middle of a broadcast, and however many goroutines broadcast
\* at once.
THEOREM NoEventTwice ==
    ASSUME HubSetting
    PROVE  Hub!Spec => []Hub!NoDuplicate
<1>1. HubInv => Hub!NoDuplicate
  <2> SUFFICES ASSUME HubInv, NEW c \in Conns, NEW i \in 1 .. Len(Hub!Stream(c)), NEW j \in 1 .. Len(Hub!Stream(c)),
                      Hub!Stream(c)[i] = Hub!Stream(c)[j]
               PROVE  i = j
    BY DEF Hub!NoDuplicate
  <2>1. Distinct(Hub!Stream(c))
    BY StreamOfTidy DEF HubInv
  <2> QED
    BY <2>1 DEF Distinct
<1> QED
  BY <1>1, HubInduction, PTL

\* A broadcast passes over no connection that keeps a topic by which it wants
\* the event (hub.go: Broadcast's two checks): it is in its stream, or dropped
\* by enqueue, or the connection ended.
THEOREM NobodyPassedOver ==
    ASSUME HubSetting
    PROVE  Hub!Spec => []Hub!SubscriberIsServed
<1>1. HubInv => Hub!SubscriberIsServed
  <2> SUFFICES ASSUME HubInv, NEW s \in Senders, NEW c \in cast[s].visited, cast[s].held[c] # {}, ws[c]
               PROVE  \/ cast[s].ev \in lost[c]
                      \/ \E i \in 1 .. Len(Hub!Stream(c)) : Hub!Stream(c)[i] = cast[s].ev
    BY DEF Hub!SubscriberIsServed
  <2>1. cast[s] \in CastRecords /\ CastInv(cast[s])
    BY DEF HubInv, HubShape
  <2>2. cast[s].at # "idle" /\ c \in Conns
    BY <2>1 DEF CastInv, CastRecords, Hub!NoCast
  <2>3. cast[s].ev \in lost[c] \cup Has(c)
    BY <2>1, <2>2 DEF CastInv
  <2>4. Elems(Hub!Stream(c)) = Has(c)
    BY <2>2, StreamOfTidy DEF HubInv
  <2> QED
    BY <2>3, <2>4 DEF Elems
<1> QED
  BY <1>1, HubInduction, PTL

\* FeedIsWhole of the hub: nobody gets an event twice and nobody is passed over.
THEOREM StreamsAreWhole ==
    ASSUME HubSetting
    PROVE  Hub!Spec => []Hub!FeedIsWhole
<1>1. Hub!NoDuplicate /\ Hub!SubscriberIsServed => Hub!FeedIsWhole
  BY DEF Hub!FeedIsWhole
<1> QED
  BY <1>1, NoEventTwice, NobodyPassedOver, PTL

\* What HubInv leaves open of the types: the counters, and the events that were
\* dropped or handed to the sink.
HubCounts ==
  /\ count \in 0 .. MaxEvents /\ changes \in 0 .. MaxSubscribes
  /\ sunk \in Seq(1 .. MaxEvents)
  /\ \A c \in Conns : lost[c] \subseteq 1 .. MaxEvents

\* Every part of the hub's state has its type: no queue, stream or sink holds
\* anything but events that were broadcast, whatever connections come and go
\* (hub.go: Broadcast, enqueue).
THEOREM HubTypes ==
    ASSUME Hub!HubAssumption, HubSetting
    PROVE  Hub!Spec => []Hub!TypeOK
<1>0. MaxEvents \in Nat /\ MaxSubscribes \in Nat
  BY DEF Hub!HubAssumption
<1>1. Hub!Init => HubCounts
  <2> SUFFICES ASSUME Hub!Init PROVE HubCounts
    OBVIOUS
  <2>1. << >> \in Seq(1 .. MaxEvents)
    OBVIOUS
  <2> QED
    BY <1>0, <2>1 DEF Hub!Init, HubCounts
<1>2. HubInv /\ HubCounts /\ [Hub!Next]_Hub!vars => HubCounts'
  <2> SUFFICES ASSUME HubInv, HubCounts, [Hub!Next]_Hub!vars PROVE HubCounts'
    OBVIOUS
  <2>1. HubShape /\ \A s \in Senders : CastInv(cast[s])
    BY DEF HubInv
  <2>2. ASSUME UNCHANGED <<lost, sunk, count>>, changes' = changes \/ (changes < MaxSubscribes /\ changes' = changes + 1)
        PROVE  HubCounts'
    BY <1>0, <2>2 DEF HubCounts
  <2>3. ASSUME NEW s \in Senders, cast[s].at # "idle" PROVE cast[s].ev \in 1 .. MaxEvents
    BY <1>0, <2>1, <2>3 DEF CastInv, HubCounts
  <2>4. ASSUME NEW c \in Conns, NEW e \in 1 .. MaxEvents, Hub!Enqueue(c, e) \/ UNCHANGED <<queue, lost>>,
               UNCHANGED <<sunk, count, changes>>
        PROVE  HubCounts'
    <3>1. \A d \in Conns : lost'[d] \subseteq lost[d] \cup {e}
      BY <2>1, <2>4 DEF Hub!Enqueue, HubShape
    <3> QED
      BY <2>4, <3>1 DEF HubCounts
  <2>5. CASE \E c \in Conns : Hub!Accept(c) \/ Hub!Disconnect(c) \/ Hub!Remove(c) \/ Hub!Take(c) \/ Hub!Write(c)
    BY <2>2, <2>5 DEF Hub!Accept, Hub!Disconnect, Hub!Remove, Hub!Take, Hub!Write
  <2>6. CASE \E c \in Conns, T \in SUBSET Hub!Topics : Hub!Subscribe(c, T)
    BY <2>2, <2>6 DEF Hub!Subscribe
  <2>7. CASE Hub!CloseByTokenID
    BY <2>2, <2>7 DEF Hub!CloseByTokenID
  <2>8. ASSUME NEW s \in Senders, NEW t \in Hub!Topics, Hub!Broadcast(s, t) PROVE HubCounts'
    <3>1. count < MaxEvents /\ count' = count + 1 /\ UNCHANGED <<lost, sunk, changes>>
      BY <2>8 DEF Hub!Broadcast
    <3> QED
      BY <1>0, <3>1 DEF HubCounts
  <2>9. ASSUME NEW s \in Senders, NEW c \in Conns, Hub!Visit(s, c) PROVE HubCounts'
    <3>1. cast[s].at # "idle" /\ (Hub!Enqueue(c, cast[s].ev) \/ UNCHANGED <<queue, lost>>) /\ UNCHANGED <<sunk, count, changes>>
      BY <2>9 DEF Hub!Visit
    <3> QED
      BY <2>3, <2>4, <3>1
  <2>10. ASSUME NEW s \in Senders, Hub!VisitEvents(s) PROVE HubCounts'
    <3>1. cast[s].at = "events" /\ UNCHANGED <<sunk, count, changes>>
          /\ (Hub!Enqueue(cast[s].cur, cast[s].ev) \/ UNCHANGED <<queue, lost>>)
      BY <2>10 DEF Hub!VisitEvents
    <3>2. cast[s].cur \in Conns
      BY <2>1, <3>1 DEF CastInv
    <3> QED
      BY <2>3, <2>4, <3>1, <3>2
  <2>11. ASSUME NEW s \in Senders, Hub!Sink(s) PROVE HubCounts'
    <3>1. cast[s].at # "idle" /\ UNCHANGED <<lost, count, changes>> /\ sunk' \in {sunk, Append(sunk, cast[s].ev)}
      BY <2>11 DEF Hub!Sink
    <3>2. sunk' \in Seq(1 .. MaxEvents)
      <4>1. sunk \in Seq(1 .. MaxEvents) /\ cast[s].ev \in 1 .. MaxEvents
        BY <2>3, <3>1 DEF HubCounts
      <4>2. Append(sunk, cast[s].ev) \in Seq(1 .. MaxEvents)
        BY <4>1, AppendProperties
      <4> QED
        BY <3>1, <4>1, <4>2
    <3> QED
      BY <3>1, <3>2 DEF HubCounts
  <2>12. CASE UNCHANGED Hub!vars
    BY <2>2, <2>12 DEF Hub!vars
  <2> QED
    BY <2>5, <2>6, <2>7, <2>8, <2>9, <2>10, <2>11, <2>12 DEF Hub!Next, Hub!CastStep
<1>3. HubInv /\ HubCounts => Hub!TypeOK
  <2> SUFFICES ASSUME HubInv, HubCounts PROVE Hub!TypeOK
    OBVIOUS
  <2>1. HubShape /\ \A c \in Conns : Tidy(c)
    BY DEF HubInv
  <2>2. ASSUME NEW s \in Seq(Nat), Elems(s) \subseteq 1 .. count PROVE s \in Seq(1 .. MaxEvents)
    <3>1. Elems(s) \subseteq 1 .. MaxEvents
      BY <1>0, <2>2 DEF HubCounts
    <3>2. \A i \in 1 .. Len(s) : s[i] \in Elems(s)
      BY DEF Elems
    <3>3. Len(s) \in Nat /\ s \in [1 .. Len(s) -> 1 .. MaxEvents]
      BY <3>1, <3>2, LenProperties
    <3>4. s \in UNION {[1 .. n -> 1 .. MaxEvents] : n \in Nat}
      BY <3>3, Zenon
    <3> QED
      BY <3>4, SeqDef, Zenon
  <2>3. ASSUME NEW c \in Conns
        PROVE  /\ queue[c] \in Seq(1 .. MaxEvents) /\ got[c] \in Seq(1 .. MaxEvents)
               /\ out[c] \in 0 .. MaxEvents /\ lost[c] \subseteq 1 .. MaxEvents
    <3>1. /\ Elems(queue[c]) \subseteq 1 .. count /\ Elems(got[c]) \subseteq 1 .. count
          /\ out[c] # 0 => out[c] \in 1 .. count
      BY <2>1 DEF Tidy, Has
    <3>2. queue[c] \in Seq(Nat) /\ got[c] \in Seq(Nat) /\ out[c] \in Nat
      BY <2>1 DEF HubShape
    <3>3. out[c] \in 0 .. MaxEvents
      BY <1>0, <3>1, <3>2 DEF HubCounts
    <3> QED
      BY <2>2, <3>1, <3>2, <3>3 DEF HubCounts
  <2>4. ASSUME NEW s \in Senders
        PROVE  /\ cast[s].at \in {"idle", "next", "events", "sink"}
               /\ cast[s].todo \subseteq Conns /\ cast[s].cur \in Conns \cup {None}
    <3>1. cast[s] \in CastRecords
      BY <2>1 DEF HubShape
    <3> QED
      BY <3>1 DEF CastRecords
  <2> QED
    BY <2>1, <2>3, <2>4 DEF Hub!TypeOK, HubShape, HubCounts
<1> QED
  BY <1>1, <1>2, <1>3, HubInduction, PTL DEF Hub!Spec

-----------------------------------------------------------------------------
CONSTANTS Sessions, Remotes, Faults, Overlap

VARIABLES row, mirror, procs, file, aged, start, stop, sync, sweep

Cap == INSTANCE Capture

-----------------------------------------------------------------------------
(* Capture: calls on a session that overlap, each with the row it read. *)

StartRecords == [at : {"new", "register", "write", "answer", "end"}, via : Cap!Vias, res : Cap!Status]
StopRecords == [at : {"idle", "send", "take", "halt", "write", "answer"}, via : Cap!Vias, res : Cap!Status]
SyncRecords == [at : {"idle", "send", "look", "result", "write", "drop", "answer"}, via : Cap!Vias,
                old : Cap!Status, res : Cap!Status]

\* A session that has not started has nothing; one whose row is written has
\* started, and nobody starts it again.
Begun(s) ==
    /\ start[s].at = "new" => /\ proc[s] = "none" /\ row[s] = "none" /\ mirror[s] = "none" /\ s \notin procs
                              /\ stop[s].at = "idle" /\ sync[s] = Cap!IdleSync /\ sweep[s] = "idle"
    /\ row[s] # "none" => start[s].at \in {"answer", "end"}
    /\ stop[s].at \in {"take", "halt", "write"} => row[s] # "none"
    /\ sync[s].at \in {"look", "result", "write", "drop"} => row[s] # "none"
    /\ sweep[s] # "idle" => row[s] # "none"

\* Who holds a handle holds the handle of a process.
Handles(s) ==
    /\ s \in procs \/ start[s].at = "register" \/ stop[s].at = "halt" \/ sync[s].at = "result" => proc[s] # "none"
    /\ sync[s].at = "write" => sync[s].res \in {"running", "completed", "stopped"}
    /\ sync[s].at = "drop" \/ (sync[s].at = "write" /\ sync[s].res # "running") => proc[s] # "running"

Reachable(s) ==
    proc[s] = "running" => s \in procs \/ start[s].at = "register" \/ stop[s].at = "halt" \/ sweep[s] = "halt"

\* A copy of a purged row is a copy of the row of a file that is gone.
NoFile(s) ==
    /\ row[s] = "purged" \/ sync[s].old = "purged" \/ sweep[s] = "mark" => s \notin file
    /\ start[s].at = "write" => start[s].res # "purged"
    /\ stop[s].at = "write" => stop[s].res # "purged"

CaptureInv(s) == Begun(s) /\ Handles(s) /\ Reachable(s) /\ NoFile(s)

\* With a store that works: the row of a running capture, and every copy of it
\* that a call may write back, says running.
StoredInv(s) ==
    /\ proc[s] = "running" /\ s \in procs =>
           /\ start[s].at # "write" => row[s] = "running"
           /\ start[s].at = "write" => start[s].res = "running"
           /\ stop[s].at # "write"
           /\ sync[s].at \in {"look", "result", "write"} => sync[s].old = "running"
           /\ sweep[s] \notin {"halt", "remove", "mark"}

CapturesInv ==
    /\ Cap!TypeOK
    /\ \A s \in Sessions : CaptureInv(s)
    /\ "store" \notin Faults => \A s \in Sessions : StoredInv(s)

\* A step on one session leaves the others alone.
Elsewhere(s) ==
    \A t \in Sessions : t # s =>
        /\ row'[t] = row[t] /\ mirror'[t] = mirror[t] /\ proc'[t] = proc[t]
        /\ (t \in procs' <=> t \in procs) /\ (t \in file' <=> t \in file)
        /\ start'[t] = start[t] /\ stop'[t] = stop[t] /\ sync'[t] = sync[t] /\ sweep'[t] = sweep[t]

\* The invariant of every session follows from that of the one a step is on.
LEMMA OneSession ==
    ASSUME CapturesInv, Cap!TypeOK', NEW s \in Sessions, Elsewhere(s), CaptureInv(s)', "store" \notin Faults => StoredInv(s)'
    PROVE  CapturesInv'
<1>1. ASSUME NEW t \in Sessions, t # s PROVE CaptureInv(t)' /\ ("store" \notin Faults => StoredInv(t)')
  <2>1. CaptureInv(t) /\ ("store" \notin Faults => StoredInv(t))
    BY DEF CapturesInv
  <2>2. /\ row'[t] = row[t] /\ mirror'[t] = mirror[t] /\ proc'[t] = proc[t]
        /\ (t \in procs' <=> t \in procs) /\ (t \in file' <=> t \in file)
        /\ start'[t] = start[t] /\ stop'[t] = stop[t] /\ sync'[t] = sync[t] /\ sweep'[t] = sweep[t]
    BY <1>1 DEF Elsewhere
  <2> QED
    BY <2>1, <2>2 DEF CaptureInv, Begun, Handles, Reachable, NoFile, StoredInv, Cap!IdleSync
<1> QED
  BY <1>1 DEF CapturesInv

\* The calls of a session move on; a call's record is replaced as a whole.
LEMMA StartMoves ==
    ASSUME Cap!TypeOK, NEW s \in Sessions, NEW r \in StartRecords, start' = [start EXCEPT ![s] = r]
    PROVE  start' \in [Sessions -> StartRecords] /\ start'[s] = r /\ \A t \in Sessions : t # s => start'[t] = start[t]
  BY DEF Cap!TypeOK, StartRecords

\* The same for a stop.
LEMMA StopMoves ==
    ASSUME Cap!TypeOK, NEW s \in Sessions, NEW r \in StopRecords, stop' = [stop EXCEPT ![s] = r]
    PROVE  stop' \in [Sessions -> StopRecords] /\ stop'[s] = r /\ \A t \in Sessions : t # s => stop'[t] = stop[t]
  BY DEF Cap!TypeOK, StopRecords

\* The same for a poll.
LEMMA SyncMoves ==
    ASSUME Cap!TypeOK, NEW s \in Sessions, NEW r \in SyncRecords, sync' = [sync EXCEPT ![s] = r]
    PROVE  sync' \in [Sessions -> SyncRecords] /\ sync'[s] = r /\ \A t \in Sessions : t # s => sync'[t] = sync[t]
  BY DEF Cap!TypeOK, SyncRecords

\* A write of a row, which a broken store may swallow.
LEMMA RowUpserted ==
    ASSUME Cap!TypeOK, NEW s \in Sessions, NEW st \in Cap!Status, Cap!Upsert(s, st)
    PROVE  /\ row' \in [Sessions -> Cap!Status \cup {"none"}]
           /\ row'[s] = st \/ ("store" \in Faults /\ row'[s] = row[s])
           /\ \A t \in Sessions : t # s => row'[t] = row[t]
  BY DEF Cap!TypeOK, Cap!Upsert

\* The same for the coordinator's row.
LEMMA MirrorUpserted ==
    ASSUME Cap!TypeOK, NEW s \in Sessions, NEW st \in Cap!Status, Cap!UpsertMirror(s, st)
    PROVE  /\ mirror' \in [Sessions -> Cap!Status \cup {"none"}]
           /\ \A t \in Sessions : t # s => mirror'[t] = mirror[t]
  BY DEF Cap!TypeOK, Cap!UpsertMirror


\* What an edit of one or two fields makes of a record is again such a record.
LEMMA StartEdits ==
    ASSUME NEW r \in StartRecords, NEW a \in {"new", "register", "write", "answer", "end"}, NEW st \in Cap!Status
    PROVE  /\ [r EXCEPT !.at = a] \in StartRecords /\ [r EXCEPT !.via = "owner"] \in StartRecords
           /\ [r EXCEPT !.at = a, !.res = st] \in StartRecords
  BY DEF StartRecords, Cap!Vias

\* The same for the record of a stop.
LEMMA StopEdits ==
    ASSUME NEW r \in StopRecords, NEW a \in {"idle", "send", "take", "halt", "write", "answer"}, NEW st \in Cap!Status
    PROVE  /\ [r EXCEPT !.at = a] \in StopRecords /\ [r EXCEPT !.via = "owner"] \in StopRecords
           /\ [r EXCEPT !.at = a, !.res = st] \in StopRecords /\ Cap!IdleStop \in StopRecords
  BY DEF StopRecords, Cap!Vias, Cap!IdleStop, Cap!Status

\* The same for the record of a poll.
LEMMA SyncEdits ==
    ASSUME NEW r \in SyncRecords, NEW a \in {"idle", "send", "look", "result", "write", "drop", "answer"}, NEW st \in Cap!Status
    PROVE  /\ [r EXCEPT !.at = a] \in SyncRecords /\ [r EXCEPT !.via = "owner"] \in SyncRecords
           /\ [r EXCEPT !.at = a, !.old = st] \in SyncRecords
           /\ [r EXCEPT !.at = a, !.res = st] \in SyncRecords /\ Cap!IdleSync \in SyncRecords
  BY DEF SyncRecords, Cap!Vias, Cap!IdleSync, Cap!Status

\* And in a function of such records.
LEMMA StartFieldEdits ==
    ASSUME NEW f \in [Sessions -> StartRecords], NEW s \in Sessions, NEW a \in {"new", "register", "write", "answer", "end"}, NEW st \in Cap!Status
    PROVE  /\ [f EXCEPT ![s].at = a] \in [Sessions -> StartRecords]
           /\ [f EXCEPT ![s].at = a, ![s].res = st] \in [Sessions -> StartRecords]
  BY DEF StartRecords

\* And in a function of such records.
LEMMA StopFieldEdits ==
    ASSUME NEW f \in [Sessions -> StopRecords], NEW s \in Sessions, NEW a \in {"idle", "send", "take", "halt", "write", "answer"}, NEW st \in Cap!Status
    PROVE  /\ [f EXCEPT ![s].at = a] \in [Sessions -> StopRecords]
           /\ [f EXCEPT ![s].at = a, ![s].res = st] \in [Sessions -> StopRecords]
  BY DEF StopRecords

\* And in a function of such records.
LEMMA SyncFieldEdits ==
    ASSUME NEW f \in [Sessions -> SyncRecords], NEW s \in Sessions, NEW a \in {"idle", "send", "look", "result", "write", "drop", "answer"}, NEW st \in Cap!Status
    PROVE  /\ [f EXCEPT ![s].at = a] \in [Sessions -> SyncRecords]
           /\ [f EXCEPT ![s].at = a, ![s].res = st] \in [Sessions -> SyncRecords]
           /\ [f EXCEPT ![s].at = a, ![s].old = st] \in [Sessions -> SyncRecords]
  BY DEF SyncRecords

\* The agent starts a capture, or fails to.
LEMMA StartAgentKeeps ==
    ASSUME Cap!CaptureAssumption, CapturesInv, NEW s \in Sessions, Cap!StartAgent(s)
    PROVE  CapturesInv'
<1>0. Cap!TypeOK /\ CaptureInv(s) /\ ("store" \notin Faults => StoredInv(s))
  BY DEF CapturesInv
<1>1. Cap!TypeOK'
  <2>1. start[s] \in StartRecords /\ row[s] \in Cap!Status \cup {"none"} /\ proc[s] \in {"none", "running", "completed", "stopped"}
    BY <1>0 DEF Cap!TypeOK, StartRecords
  <2>2. start \in [Sessions -> StartRecords]
    BY <1>0 DEF Cap!TypeOK, StartRecords
  <2>3. \A a \in {"new", "register", "write", "answer", "end"} : \A st \in Cap!Status :
            /\ [start EXCEPT ![s].at = a] \in [Sessions -> StartRecords]
            /\ [start EXCEPT ![s].at = a, ![s].res = st] \in [Sessions -> StartRecords]
    BY <2>2, StartFieldEdits
  <2>4. /\ [start EXCEPT ![s].at = "register"] \in [Sessions -> StartRecords]
        /\ [start EXCEPT ![s].at = "write", ![s].res = "error"] \in [Sessions -> StartRecords]
        /\ [start EXCEPT ![s].at = "answer", ![s].res = "error"] \in [Sessions -> StartRecords]
    BY <2>3 DEF Cap!Status
  <2>5. start' \in [Sessions -> StartRecords]
    BY <2>4 DEF Cap!StartAgent
  <2> QED
    BY <1>0, <2>5 DEF Cap!TypeOK, StartRecords, Cap!Status, Cap!Vias, Cap!CaptureAssumption, Cap!StartAgent, Cap!MayBegin, Cap!Quiet, Cap!rows, Cap!live, Cap!calls
<1>2. Elsewhere(s)
  BY <1>0 DEF Cap!TypeOK, Elsewhere, Cap!StartAgent, Cap!MayBegin, Cap!Quiet, Cap!rows, Cap!live, Cap!calls
<1>3. CaptureInv(s)'
  BY <1>0 DEF Cap!TypeOK, Cap!Status, Cap!Vias, CaptureInv, Begun, Handles, Reachable, NoFile, Cap!IdleSync, Cap!StartAgent, Cap!MayBegin, Cap!Quiet, Cap!rows, Cap!live, Cap!calls
<1>4. "store" \notin Faults => StoredInv(s)'
  BY <1>0 DEF Cap!TypeOK, Cap!Status, Cap!Vias, CaptureInv, Begun, Handles, Reachable, NoFile, StoredInv, Cap!IdleSync, Cap!StartAgent, Cap!MayBegin, Cap!Quiet, Cap!rows, Cap!live, Cap!calls
<1> QED
  BY <1>1, <1>2, <1>3, <1>4, OneSession

\* The handle of a new capture is registered.
LEMMA StartRegisterKeeps ==
    ASSUME Cap!CaptureAssumption, CapturesInv, NEW s \in Sessions, Cap!StartRegister(s)
    PROVE  CapturesInv'
<1>0. Cap!TypeOK /\ CaptureInv(s) /\ ("store" \notin Faults => StoredInv(s))
  BY DEF CapturesInv
<1>1. Cap!TypeOK'
  <2>1. start[s] \in StartRecords /\ row[s] \in Cap!Status \cup {"none"} /\ proc[s] \in {"none", "running", "completed", "stopped"}
    BY <1>0 DEF Cap!TypeOK, StartRecords
  <2>2. start \in [Sessions -> StartRecords]
    BY <1>0 DEF Cap!TypeOK, StartRecords
  <2>3. start' \in [Sessions -> StartRecords]
    BY <1>0, <2>2, <2>1, StartEdits, StartFieldEdits DEF Handles, CaptureInv, Cap!Status, Cap!StartRegister, Cap!rows, Cap!live, Cap!calls
  <2> QED
    BY <1>0, <2>3 DEF Cap!TypeOK, StartRecords, Cap!Status, Cap!Vias, Cap!CaptureAssumption, Cap!StartRegister, Cap!rows, Cap!live, Cap!calls
<1>2. Elsewhere(s)
  BY <1>0 DEF Cap!TypeOK, Elsewhere, Cap!StartRegister, Cap!rows, Cap!live, Cap!calls
<1>3. CaptureInv(s)'
  BY <1>0 DEF Cap!TypeOK, Cap!Status, Cap!Vias, CaptureInv, Begun, Handles, Reachable, NoFile, Cap!IdleSync, Cap!StartRegister, Cap!rows, Cap!live, Cap!calls
<1>4. "store" \notin Faults => StoredInv(s)'
  BY <1>0 DEF Cap!TypeOK, Cap!Status, Cap!Vias, CaptureInv, Begun, Handles, Reachable, NoFile, StoredInv, Cap!IdleSync, Cap!StartRegister, Cap!rows, Cap!live, Cap!calls
<1> QED
  BY <1>1, <1>2, <1>3, <1>4, OneSession

\* The owner's first row of a session.
LEMMA StartWriteKeeps ==
    ASSUME Cap!CaptureAssumption, CapturesInv, NEW s \in Sessions, Cap!StartWrite(s)
    PROVE  CapturesInv'
<1>0. Cap!TypeOK /\ CaptureInv(s) /\ ("store" \notin Faults => StoredInv(s))
  BY DEF CapturesInv
<1>1. Cap!TypeOK'
  <2>1. start[s] \in StartRecords /\ row[s] \in Cap!Status \cup {"none"} /\ proc[s] \in {"none", "running", "completed", "stopped"}
    BY <1>0 DEF Cap!TypeOK, StartRecords
  <2>2. start \in [Sessions -> StartRecords]
    BY <1>0 DEF Cap!TypeOK, StartRecords
  <2>3. start' \in [Sessions -> StartRecords]
    BY <1>0, <2>2, <2>1, StartEdits, StartFieldEdits DEF Handles, CaptureInv, Cap!Status, Cap!StartWrite, Cap!Upsert, Cap!rows, Cap!live, Cap!calls
  <2> QED
    BY <1>0, <2>3 DEF Cap!TypeOK, StartRecords, Cap!Status, Cap!Vias, Cap!CaptureAssumption, Cap!StartWrite, Cap!Upsert, Cap!rows, Cap!live, Cap!calls
<1>2. Elsewhere(s)
  BY <1>0 DEF Cap!TypeOK, Elsewhere, Cap!StartWrite, Cap!Upsert, Cap!rows, Cap!live, Cap!calls
<1>3. CaptureInv(s)'
  BY <1>0 DEF Cap!TypeOK, Cap!Status, Cap!Vias, CaptureInv, Begun, Handles, Reachable, NoFile, Cap!IdleSync, Cap!StartWrite, Cap!Upsert, Cap!rows, Cap!live, Cap!calls
<1>4. "store" \notin Faults => StoredInv(s)'
  BY <1>0 DEF Cap!TypeOK, Cap!Status, Cap!Vias, CaptureInv, Begun, Handles, Reachable, NoFile, StoredInv, Cap!IdleSync, Cap!StartWrite, Cap!Upsert, Cap!rows, Cap!live, Cap!calls
<1> QED
  BY <1>1, <1>2, <1>3, <1>4, OneSession

\* The coordinator's first row of a session.
LEMMA StartAnswerKeeps ==
    ASSUME Cap!CaptureAssumption, CapturesInv, NEW s \in Sessions, Cap!StartAnswer(s)
    PROVE  CapturesInv'
<1>0. Cap!TypeOK /\ CaptureInv(s) /\ ("store" \notin Faults => StoredInv(s))
  BY DEF CapturesInv
<1>1. Cap!TypeOK'
  <2>1. start[s] \in StartRecords /\ row[s] \in Cap!Status \cup {"none"} /\ proc[s] \in {"none", "running", "completed", "stopped"}
    BY <1>0 DEF Cap!TypeOK, StartRecords
  <2>2. start \in [Sessions -> StartRecords]
    BY <1>0 DEF Cap!TypeOK, StartRecords
  <2>3. start' \in [Sessions -> StartRecords]
    BY <1>0, <2>2, <2>1, StartEdits, StartFieldEdits DEF Handles, CaptureInv, Cap!Status, Cap!StartAnswer, Cap!UpsertMirror, Cap!rows, Cap!live, Cap!calls
  <2> QED
    BY <1>0, <2>3 DEF Cap!TypeOK, StartRecords, Cap!Status, Cap!Vias, Cap!CaptureAssumption, Cap!StartAnswer, Cap!UpsertMirror, Cap!rows, Cap!live, Cap!calls
<1>2. Elsewhere(s)
  BY <1>0 DEF Cap!TypeOK, Elsewhere, Cap!StartAnswer, Cap!UpsertMirror, Cap!rows, Cap!live, Cap!calls
<1>3. CaptureInv(s)'
  BY <1>0 DEF Cap!TypeOK, Cap!Status, Cap!Vias, CaptureInv, Begun, Handles, Reachable, NoFile, Cap!IdleSync, Cap!StartAnswer, Cap!UpsertMirror, Cap!rows, Cap!live, Cap!calls
<1>4. "store" \notin Faults => StoredInv(s)'
  BY <1>0 DEF Cap!TypeOK, Cap!Status, Cap!Vias, CaptureInv, Begun, Handles, Reachable, NoFile, StoredInv, Cap!IdleSync, Cap!StartAnswer, Cap!UpsertMirror, Cap!rows, Cap!live, Cap!calls
<1> QED
  BY <1>1, <1>2, <1>3, <1>4, OneSession

\* A stop begins from a row that is not terminal.
LEMMA StopBeginKeeps ==
    ASSUME Cap!CaptureAssumption, CapturesInv, NEW s \in Sessions, Cap!StopBegin(s)
    PROVE  CapturesInv'
<1>0. Cap!TypeOK /\ CaptureInv(s) /\ ("store" \notin Faults => StoredInv(s))
  BY DEF CapturesInv
<1>1. Cap!TypeOK'
  BY <1>0 DEF Cap!TypeOK, Cap!Status, Cap!Vias, Cap!CaptureAssumption, Cap!StopBegin, Cap!MayBegin, Cap!Quiet, Cap!IdleStop, Cap!Terminal, Cap!rows, Cap!live, Cap!calls
<1>2. Elsewhere(s)
  BY <1>0 DEF Cap!TypeOK, Elsewhere, Cap!StopBegin, Cap!MayBegin, Cap!Quiet, Cap!IdleStop, Cap!Terminal, Cap!rows, Cap!live, Cap!calls
<1>3. CaptureInv(s)'
  BY <1>0 DEF Cap!TypeOK, Cap!Status, Cap!Vias, CaptureInv, Begun, Handles, Reachable, NoFile, Cap!IdleSync, Cap!StopBegin, Cap!MayBegin, Cap!Quiet, Cap!IdleStop, Cap!Terminal, Cap!rows, Cap!live, Cap!calls
<1>4. "store" \notin Faults => StoredInv(s)'
  BY <1>0 DEF Cap!TypeOK, Cap!Status, Cap!Vias, CaptureInv, Begun, Handles, Reachable, NoFile, StoredInv, Cap!IdleSync, Cap!StopBegin, Cap!MayBegin, Cap!Quiet, Cap!IdleStop, Cap!Terminal, Cap!rows, Cap!live, Cap!calls
<1> QED
  BY <1>1, <1>2, <1>3, <1>4, OneSession

\* A stop begins from the coordinator's row.
LEMMA StopBeginRemoteKeeps ==
    ASSUME Cap!CaptureAssumption, CapturesInv, NEW s \in Sessions, Cap!StopBeginRemote(s)
    PROVE  CapturesInv'
<1>0. Cap!TypeOK /\ CaptureInv(s) /\ ("store" \notin Faults => StoredInv(s))
  BY DEF CapturesInv
<1>1. Cap!TypeOK'
  BY <1>0 DEF Cap!TypeOK, Cap!Status, Cap!Vias, Cap!CaptureAssumption, Cap!StopBeginRemote, Cap!MayBegin, Cap!Quiet, Cap!IdleStop, Cap!Terminal, Cap!rows, Cap!live, Cap!calls
<1>2. Elsewhere(s)
  BY <1>0 DEF Cap!TypeOK, Elsewhere, Cap!StopBeginRemote, Cap!MayBegin, Cap!Quiet, Cap!IdleStop, Cap!Terminal, Cap!rows, Cap!live, Cap!calls
<1>3. CaptureInv(s)'
  BY <1>0 DEF Cap!TypeOK, Cap!Status, Cap!Vias, CaptureInv, Begun, Handles, Reachable, NoFile, Cap!IdleSync, Cap!StopBeginRemote, Cap!MayBegin, Cap!Quiet, Cap!IdleStop, Cap!Terminal, Cap!rows, Cap!live, Cap!calls
<1>4. "store" \notin Faults => StoredInv(s)'
  BY <1>0 DEF Cap!TypeOK, Cap!Status, Cap!Vias, CaptureInv, Begun, Handles, Reachable, NoFile, StoredInv, Cap!IdleSync, Cap!StopBeginRemote, Cap!MayBegin, Cap!Quiet, Cap!IdleStop, Cap!Terminal, Cap!rows, Cap!live, Cap!calls
<1> QED
  BY <1>1, <1>2, <1>3, <1>4, OneSession

\* A stop reaches the peer, or is lost.
LEMMA StopSendKeeps ==
    ASSUME Cap!CaptureAssumption, CapturesInv, NEW s \in Sessions, Cap!StopSend(s)
    PROVE  CapturesInv'
<1>0. Cap!TypeOK /\ CaptureInv(s) /\ ("store" \notin Faults => StoredInv(s))
  BY DEF CapturesInv
<1>1. Cap!TypeOK'
  <2>1. stop[s] \in StopRecords /\ row[s] \in Cap!Status \cup {"none"} /\ proc[s] \in {"none", "running", "completed", "stopped"}
    BY <1>0 DEF Cap!TypeOK, StopRecords
  <2>2. stop \in [Sessions -> StopRecords]
    BY <1>0 DEF Cap!TypeOK, StopRecords
  <2>3. /\ [stop EXCEPT ![s].at = "take"] \in [Sessions -> StopRecords]
        /\ [stop EXCEPT ![s].at = "answer", ![s].res = "stopped"] \in [Sessions -> StopRecords]
    BY <2>2, StopFieldEdits DEF Cap!Status
  <2>4. stop' \in [Sessions -> StopRecords]
    BY <2>3 DEF Cap!StopSend
  <2> QED
    BY <1>0, <2>4 DEF Cap!TypeOK, StopRecords, Cap!Status, Cap!Vias, Cap!CaptureAssumption, Cap!StopSend, Cap!rows, Cap!live, Cap!calls
<1>2. Elsewhere(s)
  BY <1>0 DEF Cap!TypeOK, Elsewhere, Cap!StopSend, Cap!rows, Cap!live, Cap!calls
<1>3. CaptureInv(s)'
  BY <1>0 DEF Cap!TypeOK, Cap!Status, Cap!Vias, CaptureInv, Begun, Handles, Reachable, NoFile, Cap!IdleSync, Cap!StopSend, Cap!rows, Cap!live, Cap!calls
<1>4. "store" \notin Faults => StoredInv(s)'
  BY <1>0 DEF Cap!TypeOK, Cap!Status, Cap!Vias, CaptureInv, Begun, Handles, Reachable, NoFile, StoredInv, Cap!IdleSync, Cap!StopSend, Cap!rows, Cap!live, Cap!calls
<1> QED
  BY <1>1, <1>2, <1>3, <1>4, OneSession

\* A stop takes the handle, if there is one.
LEMMA StopTakeKeeps ==
    ASSUME Cap!CaptureAssumption, CapturesInv, NEW s \in Sessions, Cap!StopTake(s)
    PROVE  CapturesInv'
<1>0. Cap!TypeOK /\ CaptureInv(s) /\ ("store" \notin Faults => StoredInv(s))
  BY DEF CapturesInv
<1>1. Cap!TypeOK'
  <2>1. stop[s] \in StopRecords /\ row[s] \in Cap!Status \cup {"none"} /\ proc[s] \in {"none", "running", "completed", "stopped"}
    BY <1>0 DEF Cap!TypeOK, StopRecords
  <2>2. stop \in [Sessions -> StopRecords]
    BY <1>0 DEF Cap!TypeOK, StopRecords
  <2>3. stop' \in [Sessions -> StopRecords]
    BY <1>0, <2>2, <2>1, StopEdits, StopFieldEdits DEF Handles, CaptureInv, Cap!Status, Cap!StopTake, Cap!rows, Cap!live, Cap!calls
  <2> QED
    BY <1>0, <2>3 DEF Cap!TypeOK, StopRecords, Cap!Status, Cap!Vias, Cap!CaptureAssumption, Cap!StopTake, Cap!rows, Cap!live, Cap!calls
<1>2. Elsewhere(s)
  BY <1>0 DEF Cap!TypeOK, Elsewhere, Cap!StopTake, Cap!rows, Cap!live, Cap!calls
<1>3. CaptureInv(s)'
  BY <1>0 DEF Cap!TypeOK, Cap!Status, Cap!Vias, CaptureInv, Begun, Handles, Reachable, NoFile, Cap!IdleSync, Cap!StopTake, Cap!rows, Cap!live, Cap!calls
<1>4. "store" \notin Faults => StoredInv(s)'
  BY <1>0 DEF Cap!TypeOK, Cap!Status, Cap!Vias, CaptureInv, Begun, Handles, Reachable, NoFile, StoredInv, Cap!IdleSync, Cap!StopTake, Cap!rows, Cap!live, Cap!calls
<1> QED
  BY <1>1, <1>2, <1>3, <1>4, OneSession

\* A stop halts the process it took.
LEMMA StopHaltKeeps ==
    ASSUME Cap!CaptureAssumption, CapturesInv, NEW s \in Sessions, Cap!StopHalt(s)
    PROVE  CapturesInv'
<1>0. Cap!TypeOK /\ CaptureInv(s) /\ ("store" \notin Faults => StoredInv(s))
  BY DEF CapturesInv
<1>1. Cap!TypeOK'
  <2>1. stop[s] \in StopRecords /\ row[s] \in Cap!Status \cup {"none"} /\ proc[s] \in {"none", "running", "completed", "stopped"}
    BY <1>0 DEF Cap!TypeOK, StopRecords
  <2>2. stop \in [Sessions -> StopRecords]
    BY <1>0 DEF Cap!TypeOK, StopRecords
  <2>3. stop' \in [Sessions -> StopRecords]
    BY <1>0, <2>2, <2>1, StopEdits, StopFieldEdits DEF Handles, CaptureInv, Cap!Status, Cap!StopHalt, Cap!Halted, Cap!rows, Cap!live, Cap!calls
  <2> QED
    BY <1>0, <2>3 DEF Cap!TypeOK, StopRecords, Cap!Status, Cap!Vias, Cap!CaptureAssumption, Cap!StopHalt, Cap!Halted, Cap!rows, Cap!live, Cap!calls
<1>2. Elsewhere(s)
  BY <1>0 DEF Cap!TypeOK, Elsewhere, Cap!StopHalt, Cap!Halted, Cap!rows, Cap!live, Cap!calls
<1>3. CaptureInv(s)'
  BY <1>0 DEF Cap!TypeOK, Cap!Status, Cap!Vias, CaptureInv, Begun, Handles, Reachable, NoFile, Cap!IdleSync, Cap!StopHalt, Cap!Halted, Cap!rows, Cap!live, Cap!calls
<1>4. "store" \notin Faults => StoredInv(s)'
  BY <1>0 DEF Cap!TypeOK, Cap!Status, Cap!Vias, CaptureInv, Begun, Handles, Reachable, NoFile, StoredInv, Cap!IdleSync, Cap!StopHalt, Cap!Halted, Cap!rows, Cap!live, Cap!calls
<1> QED
  BY <1>1, <1>2, <1>3, <1>4, OneSession

\* A stop writes its result over the row.
LEMMA StopWriteKeeps ==
    ASSUME Cap!CaptureAssumption, CapturesInv, NEW s \in Sessions, Cap!StopWrite(s)
    PROVE  CapturesInv'
<1>0. Cap!TypeOK /\ CaptureInv(s) /\ ("store" \notin Faults => StoredInv(s))
  BY DEF CapturesInv
<1>1. Cap!TypeOK'
  BY <1>0 DEF Cap!TypeOK, Cap!Status, Cap!Vias, Cap!CaptureAssumption, Cap!StopWrite, Cap!Upsert, Cap!IdleStop, Cap!rows, Cap!live, Cap!calls
<1>2. Elsewhere(s)
  BY <1>0 DEF Cap!TypeOK, Elsewhere, Cap!StopWrite, Cap!Upsert, Cap!IdleStop, Cap!rows, Cap!live, Cap!calls
<1>3. CaptureInv(s)'
  <2>1. /\ mirror' = mirror /\ proc' = proc /\ procs' = procs /\ file' = file
        /\ start' = start /\ sync' = sync /\ sweep' = sweep /\ stop[s].at = "write"
    BY DEF Cap!StopWrite, Cap!live
  <2>2. stop[s].res \in Cap!Status
    BY <1>0 DEF Cap!TypeOK
  <2>3. /\ row'[s] = stop[s].res \/ row'[s] = row[s]
        /\ stop'[s].at \in {"idle", "answer"}
    BY <1>0, <2>2, RowUpserted DEF Cap!StopWrite, Cap!TypeOK, Cap!IdleStop
  <2> QED
    BY <1>0, <2>1, <2>2, <2>3 DEF CaptureInv, Begun, Handles, Reachable, NoFile, Cap!IdleSync, Cap!Status
<1>4. "store" \notin Faults => StoredInv(s)'
  BY <1>0 DEF Cap!TypeOK, Cap!Status, Cap!Vias, CaptureInv, Begun, Handles, Reachable, NoFile, StoredInv, Cap!IdleSync, Cap!StopWrite, Cap!Upsert, Cap!IdleStop, Cap!rows, Cap!live, Cap!calls
<1> QED
  BY <1>1, <1>2, <1>3, <1>4, OneSession

\* The coordinator records a stop.
LEMMA StopAnswerKeeps ==
    ASSUME Cap!CaptureAssumption, CapturesInv, NEW s \in Sessions, Cap!StopAnswer(s)
    PROVE  CapturesInv'
<1>0. Cap!TypeOK /\ CaptureInv(s) /\ ("store" \notin Faults => StoredInv(s))
  BY DEF CapturesInv
<1>1. Cap!TypeOK'
  BY <1>0 DEF Cap!TypeOK, Cap!Status, Cap!Vias, Cap!CaptureAssumption, Cap!StopAnswer, Cap!UpsertMirror, Cap!IdleStop, Cap!rows, Cap!live, Cap!calls
<1>2. Elsewhere(s)
  BY <1>0 DEF Cap!TypeOK, Elsewhere, Cap!StopAnswer, Cap!UpsertMirror, Cap!IdleStop, Cap!rows, Cap!live, Cap!calls
<1>3. CaptureInv(s)'
  BY <1>0 DEF Cap!TypeOK, Cap!Status, Cap!Vias, CaptureInv, Begun, Handles, Reachable, NoFile, Cap!IdleSync, Cap!StopAnswer, Cap!UpsertMirror, Cap!IdleStop, Cap!rows, Cap!live, Cap!calls
<1>4. "store" \notin Faults => StoredInv(s)'
  BY <1>0 DEF Cap!TypeOK, Cap!Status, Cap!Vias, CaptureInv, Begun, Handles, Reachable, NoFile, StoredInv, Cap!IdleSync, Cap!StopAnswer, Cap!UpsertMirror, Cap!IdleStop, Cap!rows, Cap!live, Cap!calls
<1> QED
  BY <1>1, <1>2, <1>3, <1>4, OneSession

\* The end of a poll leaves no copy a call may still write, but for the answer.
LEMMA SyncEnds ==
    ASSUME Cap!TypeOK, NEW s \in Sessions, NEW st \in Cap!Status, Cap!SyncEnd(s, st)
    PROVE  /\ sync' \in [Sessions -> SyncRecords]
           /\ sync'[s] = Cap!IdleSync \/ (sync'[s].at = "answer" /\ sync'[s].old = sync[s].old)
           /\ \A t \in Sessions : t # s => sync'[t] = sync[t]
<1>1. sync[s] \in SyncRecords
  BY DEF Cap!TypeOK, SyncRecords
<1>2. [sync[s] EXCEPT !.at = "answer", !.res = st] \in SyncRecords /\ Cap!IdleSync \in SyncRecords
  BY <1>1, SyncEdits
<1>3. PICK r \in SyncRecords : /\ r = IF sync[s].via = "coordinator" THEN [sync[s] EXCEPT !.at = "answer", !.res = st] ELSE Cap!IdleSync
                               /\ sync' = [sync EXCEPT ![s] = r]
  BY <1>2 DEF Cap!SyncEnd
<1>4. r = Cap!IdleSync \/ (r.at = "answer" /\ r.old = sync[s].old)
  BY <1>1, <1>3 DEF SyncRecords
<1> QED
  BY <1>3, <1>4, SyncMoves

\* A poll copies the row.
LEMMA SyncBeginKeeps ==
    ASSUME Cap!CaptureAssumption, CapturesInv, NEW s \in Sessions, Cap!SyncBegin(s)
    PROVE  CapturesInv'
<1>0. Cap!TypeOK /\ CaptureInv(s) /\ ("store" \notin Faults => StoredInv(s))
  BY DEF CapturesInv
<1>1. Cap!TypeOK'
  BY <1>0 DEF Cap!TypeOK, Cap!Status, Cap!Vias, Cap!CaptureAssumption, Cap!SyncBegin, Cap!MayBegin, Cap!Quiet, Cap!IdleSync, Cap!rows, Cap!live, Cap!calls
<1>2. Elsewhere(s)
  BY <1>0 DEF Cap!TypeOK, Elsewhere, Cap!SyncBegin, Cap!MayBegin, Cap!Quiet, Cap!IdleSync, Cap!rows, Cap!live, Cap!calls
<1>3. CaptureInv(s)'
  BY <1>0 DEF Cap!TypeOK, Cap!Status, Cap!Vias, CaptureInv, Begun, Handles, Reachable, NoFile, Cap!IdleSync, Cap!SyncBegin, Cap!MayBegin, Cap!Quiet, Cap!IdleSync, Cap!rows, Cap!live, Cap!calls
<1>4. "store" \notin Faults => StoredInv(s)'
  BY <1>0 DEF Cap!TypeOK, Cap!Status, Cap!Vias, CaptureInv, Begun, Handles, Reachable, NoFile, StoredInv, Cap!IdleSync, Cap!SyncBegin, Cap!MayBegin, Cap!Quiet, Cap!IdleSync, Cap!rows, Cap!live, Cap!calls
<1> QED
  BY <1>1, <1>2, <1>3, <1>4, OneSession

\* A poll begins from the coordinator's row.
LEMMA SyncBeginRemoteKeeps ==
    ASSUME Cap!CaptureAssumption, CapturesInv, NEW s \in Sessions, Cap!SyncBeginRemote(s)
    PROVE  CapturesInv'
<1>0. Cap!TypeOK /\ CaptureInv(s) /\ ("store" \notin Faults => StoredInv(s))
  BY DEF CapturesInv
<1>1. Cap!TypeOK'
  BY <1>0 DEF Cap!TypeOK, Cap!Status, Cap!Vias, Cap!CaptureAssumption, Cap!SyncBeginRemote, Cap!MayBegin, Cap!Quiet, Cap!IdleSync, Cap!Terminal, Cap!rows, Cap!live, Cap!calls
<1>2. Elsewhere(s)
  BY <1>0 DEF Cap!TypeOK, Elsewhere, Cap!SyncBeginRemote, Cap!MayBegin, Cap!Quiet, Cap!IdleSync, Cap!Terminal, Cap!rows, Cap!live, Cap!calls
<1>3. CaptureInv(s)'
  BY <1>0 DEF Cap!TypeOK, Cap!Status, Cap!Vias, CaptureInv, Begun, Handles, Reachable, NoFile, Cap!IdleSync, Cap!SyncBeginRemote, Cap!MayBegin, Cap!Quiet, Cap!IdleSync, Cap!Terminal, Cap!rows, Cap!live, Cap!calls
<1>4. "store" \notin Faults => StoredInv(s)'
  BY <1>0 DEF Cap!TypeOK, Cap!Status, Cap!Vias, CaptureInv, Begun, Handles, Reachable, NoFile, StoredInv, Cap!IdleSync, Cap!SyncBeginRemote, Cap!MayBegin, Cap!Quiet, Cap!IdleSync, Cap!Terminal, Cap!rows, Cap!live, Cap!calls
<1> QED
  BY <1>1, <1>2, <1>3, <1>4, OneSession

\* A poll reaches the peer, which copies its row.
LEMMA SyncSendKeeps ==
    ASSUME Cap!CaptureAssumption, CapturesInv, NEW s \in Sessions, Cap!SyncSend(s)
    PROVE  CapturesInv'
<1>0. Cap!TypeOK /\ CaptureInv(s) /\ ("store" \notin Faults => StoredInv(s))
  BY DEF CapturesInv
<1>1. Cap!TypeOK'
  <2>1. sync[s] \in SyncRecords /\ row[s] \in Cap!Status \cup {"none"} /\ proc[s] \in {"none", "running", "completed", "stopped"}
    BY <1>0 DEF Cap!TypeOK, SyncRecords
  <2>2. sync \in [Sessions -> SyncRecords]
    BY <1>0 DEF Cap!TypeOK, SyncRecords
  <2>3. row[s] # "none" => [sync EXCEPT ![s].at = "look", ![s].old = row[s]] \in [Sessions -> SyncRecords]
    BY <2>1, <2>2, SyncFieldEdits
  <2>4. [sync EXCEPT ![s] = Cap!IdleSync] \in [Sessions -> SyncRecords]
    BY <2>1, <2>2, SyncEdits DEF Cap!Status
  <2>5. sync' \in [Sessions -> SyncRecords]
    BY <2>3, <2>4 DEF Cap!SyncSend
  <2> QED
    BY <1>0, <2>5 DEF Cap!TypeOK, SyncRecords, Cap!Status, Cap!Vias, Cap!CaptureAssumption, Cap!SyncSend, Cap!IdleSync, Cap!rows, Cap!live, Cap!calls
<1>2. Elsewhere(s)
  BY <1>0 DEF Cap!TypeOK, Elsewhere, Cap!SyncSend, Cap!IdleSync, Cap!rows, Cap!live, Cap!calls
<1>3. CaptureInv(s)'
  BY <1>0 DEF Cap!TypeOK, Cap!Status, Cap!Vias, CaptureInv, Begun, Handles, Reachable, NoFile, Cap!IdleSync, Cap!SyncSend, Cap!IdleSync, Cap!rows, Cap!live, Cap!calls
<1>4. "store" \notin Faults => StoredInv(s)'
  BY <1>0 DEF Cap!TypeOK, Cap!Status, Cap!Vias, CaptureInv, Begun, Handles, Reachable, NoFile, StoredInv, Cap!IdleSync, Cap!SyncSend, Cap!IdleSync, Cap!rows, Cap!live, Cap!calls
<1> QED
  BY <1>1, <1>2, <1>3, <1>4, OneSession

\* A poll looks for the handle.
LEMMA SyncLookKeeps ==
    ASSUME Cap!CaptureAssumption, CapturesInv, NEW s \in Sessions, Cap!SyncLook(s)
    PROVE  CapturesInv'
<1>0. Cap!TypeOK /\ CaptureInv(s) /\ ("store" \notin Faults => StoredInv(s))
  BY DEF CapturesInv
<1>1. /\ row' = row /\ mirror' = mirror /\ proc' = proc /\ procs' = procs /\ file' = file /\ aged' = aged
      /\ start' = start /\ stop' = stop /\ sweep' = sweep /\ crashes' = crashes
  BY DEF Cap!SyncLook, Cap!rows, Cap!live
<1>2. /\ sync' \in [Sessions -> SyncRecords]
      /\ \/ sync'[s] = Cap!IdleSync \/ (sync'[s].at = "answer" /\ sync'[s].old = sync[s].old)
         \/ s \in procs /\ sync'[s].at = "result" /\ sync'[s].old = sync[s].old
      /\ \A t \in Sessions : t # s => sync'[t] = sync[t]
  <2>1. sync \in [Sessions -> SyncRecords] /\ sync[s] \in SyncRecords /\ sync[s].old \in Cap!Status
    BY <1>0 DEF Cap!TypeOK, SyncRecords
  <2>2. CASE s \in procs
    <3>1. PICK r \in SyncRecords : r = [sync[s] EXCEPT !.at = "result"]
      BY <2>1, SyncEdits DEF Cap!Status
    <3>2. sync' = [sync EXCEPT ![s] = r] /\ r.at = "result" /\ r.old = sync[s].old
      BY <2>1, <2>2, <3>1 DEF Cap!SyncLook, SyncRecords
    <3> QED
      BY <1>0, <2>2, <3>2, SyncMoves
  <2>3. CASE s \notin procs
    BY <1>0, <2>1, <2>3, SyncEnds DEF Cap!SyncLook
  <2> QED
    BY <2>2, <2>3
<1>3. Cap!TypeOK' /\ Elsewhere(s)
  BY <1>0, <1>1, <1>2 DEF Cap!TypeOK, SyncRecords, Elsewhere
<1>4. sync[s].at = "look"
  BY DEF Cap!SyncLook
<1>5. CaptureInv(s)'
  BY <1>0, <1>1, <1>2, <1>4 DEF CaptureInv, Begun, Handles, Reachable, NoFile, Cap!IdleSync
<1>6. "store" \notin Faults => StoredInv(s)'
  BY <1>0, <1>1, <1>2, <1>4 DEF StoredInv, Cap!IdleSync
<1> QED
  BY <1>3, <1>5, <1>6, OneSession

\* A poll reads the process.
LEMMA SyncResultKeeps ==
    ASSUME Cap!CaptureAssumption, CapturesInv, NEW s \in Sessions, Cap!SyncResult(s)
    PROVE  CapturesInv'
<1>0. Cap!TypeOK /\ CaptureInv(s) /\ ("store" \notin Faults => StoredInv(s))
  BY DEF CapturesInv
<1>1. Cap!TypeOK'
  <2>1. sync[s] \in SyncRecords /\ row[s] \in Cap!Status \cup {"none"} /\ proc[s] \in {"none", "running", "completed", "stopped"}
    BY <1>0 DEF Cap!TypeOK, SyncRecords
  <2>2. sync \in [Sessions -> SyncRecords]
    BY <1>0 DEF Cap!TypeOK, SyncRecords
  <2>3. sync' \in [Sessions -> SyncRecords]
    BY <1>0, <2>2, <2>1, SyncEdits, SyncFieldEdits DEF Handles, CaptureInv, Cap!Status, Cap!SyncResult, Cap!rows, Cap!live, Cap!calls
  <2> QED
    BY <1>0, <2>3 DEF Cap!TypeOK, SyncRecords, Cap!Status, Cap!Vias, Cap!CaptureAssumption, Cap!SyncResult, Cap!rows, Cap!live, Cap!calls
<1>2. Elsewhere(s)
  BY <1>0 DEF Cap!TypeOK, Elsewhere, Cap!SyncResult, Cap!rows, Cap!live, Cap!calls
<1>3. CaptureInv(s)'
  BY <1>0 DEF Cap!TypeOK, Cap!Status, Cap!Vias, CaptureInv, Begun, Handles, Reachable, NoFile, Cap!IdleSync, Cap!SyncResult, Cap!rows, Cap!live, Cap!calls
<1>4. "store" \notin Faults => StoredInv(s)'
  BY <1>0 DEF Cap!TypeOK, Cap!Status, Cap!Vias, CaptureInv, Begun, Handles, Reachable, NoFile, StoredInv, Cap!IdleSync, Cap!SyncResult, Cap!rows, Cap!live, Cap!calls
<1> QED
  BY <1>1, <1>2, <1>3, <1>4, OneSession

\* A poll writes its copy back.
LEMMA SyncWriteKeeps ==
    ASSUME Cap!CaptureAssumption, CapturesInv, NEW s \in Sessions, Cap!SyncWrite(s)
    PROVE  CapturesInv'
<1>0. Cap!TypeOK /\ CaptureInv(s) /\ ("store" \notin Faults => StoredInv(s))
  BY DEF CapturesInv
<1>1. /\ mirror' = mirror /\ proc' = proc /\ procs' = procs /\ file' = file /\ aged' = aged
      /\ start' = start /\ stop' = stop /\ sweep' = sweep /\ crashes' = crashes /\ sync[s].at = "write"
  BY DEF Cap!SyncWrite, Cap!live
<1>2. /\ sync \in [Sessions -> SyncRecords] /\ sync[s] \in SyncRecords
      /\ sync[s].old \in Cap!Status /\ sync[s].res \in Cap!Status /\ Cap!Reconciled(s) \in Cap!Status
      /\ Cap!Reconciled(s) = IF sync[s].res # "running" THEN sync[s].res ELSE sync[s].old
  BY <1>0 DEF Cap!TypeOK, SyncRecords, Cap!Reconciled
<1>3. /\ sync' \in [Sessions -> SyncRecords]
      /\ \/ sync'[s] = Cap!IdleSync \/ (sync'[s].at = "answer" /\ sync'[s].old = sync[s].old)
         \/ sync[s].res # "running" /\ sync'[s].at = "drop" /\ sync'[s].old = sync[s].old
      /\ \A t \in Sessions : t # s => sync'[t] = sync[t]
  <2>1. CASE Cap!Terminal(sync[s].res)
    <3>1. PICK r \in SyncRecords : r = [sync[s] EXCEPT !.at = "drop"]
      BY <1>2, SyncEdits DEF Cap!Status
    <3>2. sync' = [sync EXCEPT ![s] = r] /\ r.at = "drop" /\ r.old = sync[s].old /\ sync[s].res # "running"
      BY <1>2, <2>1, <3>1 DEF Cap!SyncWrite, SyncRecords, Cap!Terminal
    <3> QED
      BY <1>0, <3>2, SyncMoves
  <2>2. CASE ~Cap!Terminal(sync[s].res)
    BY <1>0, <1>2, <2>2, SyncEnds DEF Cap!SyncWrite
  <2> QED
    BY <2>1, <2>2
<1>4. /\ row' \in [Sessions -> Cap!Status \cup {"none"}]
      /\ \/ row'[s] = Cap!Reconciled(s)
         \/ "store" \in Faults /\ row'[s] = row[s]
         \/ sync[s].res = sync[s].old /\ row'[s] = row[s]
      /\ \A t \in Sessions : t # s => row'[t] = row[t]
  <2>1. CASE Cap!Upsert(s, Cap!Reconciled(s))
    BY <1>0, <1>2, <2>1, RowUpserted
  <2>2. CASE sync[s].res = sync[s].old /\ row' = row
    BY <1>0, <2>2 DEF Cap!TypeOK
  <2> QED
    BY <2>1, <2>2 DEF Cap!SyncWrite
<1>5. Cap!TypeOK' /\ Elsewhere(s)
  BY <1>0, <1>1, <1>3, <1>4 DEF Cap!TypeOK, SyncRecords, Elsewhere
<1>6. CaptureInv(s)'
  BY <1>0, <1>1, <1>2, <1>3, <1>4 DEF CaptureInv, Begun, Handles, Reachable, NoFile, Cap!IdleSync, Cap!Status
<1>7. "store" \notin Faults => StoredInv(s)'
  BY <1>0, <1>1, <1>2, <1>3, <1>4 DEF StoredInv, Cap!IdleSync, CaptureInv, Begun, Handles
<1> QED
  BY <1>5, <1>6, <1>7, OneSession

\* A poll drops the handle of a capture that ended.
LEMMA SyncDropKeeps ==
    ASSUME Cap!CaptureAssumption, CapturesInv, NEW s \in Sessions, Cap!SyncDrop(s)
    PROVE  CapturesInv'
<1>0. Cap!TypeOK /\ CaptureInv(s) /\ ("store" \notin Faults => StoredInv(s))
  BY DEF CapturesInv
<1>1. Cap!TypeOK'
  <2>1. sync[s].res \in Cap!Status
    BY <1>0 DEF Cap!TypeOK
  <2>2. sync' \in [Sessions -> SyncRecords]
    BY <1>0, <2>1, SyncEnds DEF Cap!SyncDrop
  <2> QED
    BY <1>0, <2>2 DEF Cap!TypeOK, SyncRecords, Cap!SyncDrop, Cap!rows, Cap!live
<1>2. Elsewhere(s)
  BY <1>0 DEF Cap!TypeOK, Elsewhere, Cap!SyncDrop, Cap!SyncEnd, Cap!IdleSync, Cap!rows, Cap!live, Cap!calls
<1>3. CaptureInv(s)'
  BY <1>0 DEF Cap!TypeOK, Cap!Status, Cap!Vias, CaptureInv, Begun, Handles, Reachable, NoFile, Cap!IdleSync, Cap!SyncDrop, Cap!SyncEnd, Cap!IdleSync, Cap!rows, Cap!live, Cap!calls
<1>4. "store" \notin Faults => StoredInv(s)'
  BY <1>0 DEF Cap!TypeOK, Cap!Status, Cap!Vias, CaptureInv, Begun, Handles, Reachable, NoFile, StoredInv, Cap!IdleSync, Cap!SyncDrop, Cap!SyncEnd, Cap!IdleSync, Cap!rows, Cap!live, Cap!calls
<1> QED
  BY <1>1, <1>2, <1>3, <1>4, OneSession

\* The coordinator records a poll.
LEMMA SyncAnswerKeeps ==
    ASSUME Cap!CaptureAssumption, CapturesInv, NEW s \in Sessions, Cap!SyncAnswer(s)
    PROVE  CapturesInv'
<1>0. Cap!TypeOK /\ CaptureInv(s) /\ ("store" \notin Faults => StoredInv(s))
  BY DEF CapturesInv
<1>1. Cap!TypeOK'
  BY <1>0 DEF Cap!TypeOK, Cap!Status, Cap!Vias, Cap!CaptureAssumption, Cap!SyncAnswer, Cap!UpsertMirror, Cap!IdleSync, Cap!rows, Cap!live, Cap!calls
<1>2. Elsewhere(s)
  BY <1>0 DEF Cap!TypeOK, Elsewhere, Cap!SyncAnswer, Cap!UpsertMirror, Cap!IdleSync, Cap!rows, Cap!live, Cap!calls
<1>3. CaptureInv(s)'
  BY <1>0 DEF Cap!TypeOK, Cap!Status, Cap!Vias, CaptureInv, Begun, Handles, Reachable, NoFile, Cap!IdleSync, Cap!SyncAnswer, Cap!UpsertMirror, Cap!IdleSync, Cap!rows, Cap!live, Cap!calls
<1>4. "store" \notin Faults => StoredInv(s)'
  BY <1>0 DEF Cap!TypeOK, Cap!Status, Cap!Vias, CaptureInv, Begun, Handles, Reachable, NoFile, StoredInv, Cap!IdleSync, Cap!SyncAnswer, Cap!UpsertMirror, Cap!IdleSync, Cap!rows, Cap!live, Cap!calls
<1> QED
  BY <1>1, <1>2, <1>3, <1>4, OneSession

\* A sweep begins.
LEMMA SweepBeginKeeps ==
    ASSUME Cap!CaptureAssumption, CapturesInv, NEW s \in Sessions, Cap!SweepBegin(s)
    PROVE  CapturesInv'
<1>0. Cap!TypeOK /\ CaptureInv(s) /\ ("store" \notin Faults => StoredInv(s))
  BY DEF CapturesInv
<1>1. Cap!TypeOK'
  BY <1>0 DEF Cap!TypeOK, Cap!Status, Cap!Vias, Cap!CaptureAssumption, Cap!SweepBegin, Cap!MayBegin, Cap!Quiet, Cap!rows, Cap!live, Cap!calls
<1>2. Elsewhere(s)
  BY <1>0 DEF Cap!TypeOK, Elsewhere, Cap!SweepBegin, Cap!MayBegin, Cap!Quiet, Cap!rows, Cap!live, Cap!calls
<1>3. CaptureInv(s)'
  BY <1>0 DEF Cap!TypeOK, Cap!Status, Cap!Vias, CaptureInv, Begun, Handles, Reachable, NoFile, Cap!IdleSync, Cap!SweepBegin, Cap!MayBegin, Cap!Quiet, Cap!rows, Cap!live, Cap!calls
<1>4. "store" \notin Faults => StoredInv(s)'
  BY <1>0 DEF Cap!TypeOK, Cap!Status, Cap!Vias, CaptureInv, Begun, Handles, Reachable, NoFile, StoredInv, Cap!IdleSync, Cap!SweepBegin, Cap!MayBegin, Cap!Quiet, Cap!rows, Cap!live, Cap!calls
<1> QED
  BY <1>1, <1>2, <1>3, <1>4, OneSession

\* A sweep takes the handle.
LEMMA SweepTakeKeeps ==
    ASSUME Cap!CaptureAssumption, CapturesInv, NEW s \in Sessions, Cap!SweepTake(s)
    PROVE  CapturesInv'
<1>0. Cap!TypeOK /\ CaptureInv(s) /\ ("store" \notin Faults => StoredInv(s))
  BY DEF CapturesInv
<1>1. Cap!TypeOK'
  BY <1>0 DEF Cap!TypeOK, Cap!Status, Cap!Vias, Cap!CaptureAssumption, Cap!SweepTake, Cap!rows, Cap!live, Cap!calls
<1>2. Elsewhere(s)
  BY <1>0 DEF Cap!TypeOK, Elsewhere, Cap!SweepTake, Cap!rows, Cap!live, Cap!calls
<1>3. CaptureInv(s)'
  BY <1>0 DEF Cap!TypeOK, Cap!Status, Cap!Vias, CaptureInv, Begun, Handles, Reachable, NoFile, Cap!IdleSync, Cap!SweepTake, Cap!rows, Cap!live, Cap!calls
<1>4. "store" \notin Faults => StoredInv(s)'
  BY <1>0 DEF Cap!TypeOK, Cap!Status, Cap!Vias, CaptureInv, Begun, Handles, Reachable, NoFile, StoredInv, Cap!IdleSync, Cap!SweepTake, Cap!rows, Cap!live, Cap!calls
<1> QED
  BY <1>1, <1>2, <1>3, <1>4, OneSession

\* A sweep halts the process it took.
LEMMA SweepHaltKeeps ==
    ASSUME Cap!CaptureAssumption, CapturesInv, NEW s \in Sessions, Cap!SweepHalt(s)
    PROVE  CapturesInv'
<1>0. Cap!TypeOK /\ CaptureInv(s) /\ ("store" \notin Faults => StoredInv(s))
  BY DEF CapturesInv
<1>1. Cap!TypeOK'
  BY <1>0 DEF Cap!TypeOK, Cap!Status, Cap!Vias, Cap!CaptureAssumption, Cap!SweepHalt, Cap!Halted, Cap!rows, Cap!live, Cap!calls
<1>2. Elsewhere(s)
  BY <1>0 DEF Cap!TypeOK, Elsewhere, Cap!SweepHalt, Cap!Halted, Cap!rows, Cap!live, Cap!calls
<1>3. CaptureInv(s)'
  BY <1>0 DEF Cap!TypeOK, Cap!Status, Cap!Vias, CaptureInv, Begun, Handles, Reachable, NoFile, Cap!IdleSync, Cap!SweepHalt, Cap!Halted, Cap!rows, Cap!live, Cap!calls
<1>4. "store" \notin Faults => StoredInv(s)'
  BY <1>0 DEF Cap!TypeOK, Cap!Status, Cap!Vias, CaptureInv, Begun, Handles, Reachable, NoFile, StoredInv, Cap!IdleSync, Cap!SweepHalt, Cap!Halted, Cap!rows, Cap!live, Cap!calls
<1> QED
  BY <1>1, <1>2, <1>3, <1>4, OneSession

\* A sweep removes the file.
LEMMA SweepRemoveKeeps ==
    ASSUME Cap!CaptureAssumption, CapturesInv, NEW s \in Sessions, Cap!SweepRemove(s)
    PROVE  CapturesInv'
<1>0. Cap!TypeOK /\ CaptureInv(s) /\ ("store" \notin Faults => StoredInv(s))
  BY DEF CapturesInv
<1>1. Cap!TypeOK'
  BY <1>0 DEF Cap!TypeOK, Cap!Status, Cap!Vias, Cap!CaptureAssumption, Cap!SweepRemove, Cap!rows, Cap!live, Cap!calls
<1>2. Elsewhere(s)
  BY <1>0 DEF Cap!TypeOK, Elsewhere, Cap!SweepRemove, Cap!rows, Cap!live, Cap!calls
<1>3. CaptureInv(s)'
  BY <1>0 DEF Cap!TypeOK, Cap!Status, Cap!Vias, CaptureInv, Begun, Handles, Reachable, NoFile, Cap!IdleSync, Cap!SweepRemove, Cap!rows, Cap!live, Cap!calls
<1>4. "store" \notin Faults => StoredInv(s)'
  BY <1>0 DEF Cap!TypeOK, Cap!Status, Cap!Vias, CaptureInv, Begun, Handles, Reachable, NoFile, StoredInv, Cap!IdleSync, Cap!SweepRemove, Cap!rows, Cap!live, Cap!calls
<1> QED
  BY <1>1, <1>2, <1>3, <1>4, OneSession

\* A sweep fails to remove the file.
LEMMA SweepRemoveFailsKeeps ==
    ASSUME Cap!CaptureAssumption, CapturesInv, NEW s \in Sessions, Cap!SweepRemoveFails(s)
    PROVE  CapturesInv'
<1>0. Cap!TypeOK /\ CaptureInv(s) /\ ("store" \notin Faults => StoredInv(s))
  BY DEF CapturesInv
<1>1. Cap!TypeOK'
  BY <1>0 DEF Cap!TypeOK, Cap!Status, Cap!Vias, Cap!CaptureAssumption, Cap!SweepRemoveFails, Cap!rows, Cap!live, Cap!calls
<1>2. Elsewhere(s)
  BY <1>0 DEF Cap!TypeOK, Elsewhere, Cap!SweepRemoveFails, Cap!rows, Cap!live, Cap!calls
<1>3. CaptureInv(s)'
  BY <1>0 DEF Cap!TypeOK, Cap!Status, Cap!Vias, CaptureInv, Begun, Handles, Reachable, NoFile, Cap!IdleSync, Cap!SweepRemoveFails, Cap!rows, Cap!live, Cap!calls
<1>4. "store" \notin Faults => StoredInv(s)'
  BY <1>0 DEF Cap!TypeOK, Cap!Status, Cap!Vias, CaptureInv, Begun, Handles, Reachable, NoFile, StoredInv, Cap!IdleSync, Cap!SweepRemoveFails, Cap!rows, Cap!live, Cap!calls
<1> QED
  BY <1>1, <1>2, <1>3, <1>4, OneSession

\* A sweep marks the row purged.
LEMMA SweepMarkKeeps ==
    ASSUME Cap!CaptureAssumption, CapturesInv, NEW s \in Sessions, Cap!SweepMark(s)
    PROVE  CapturesInv'
<1>0. Cap!TypeOK /\ CaptureInv(s) /\ ("store" \notin Faults => StoredInv(s))
  BY DEF CapturesInv
<1>1. Cap!TypeOK'
  BY <1>0 DEF Cap!TypeOK, Cap!Status, Cap!Vias, Cap!CaptureAssumption, Cap!SweepMark, Cap!Upsert, Cap!rows, Cap!live, Cap!calls
<1>2. Elsewhere(s)
  BY <1>0 DEF Cap!TypeOK, Elsewhere, Cap!SweepMark, Cap!Upsert, Cap!rows, Cap!live, Cap!calls
<1>3. CaptureInv(s)'
  BY <1>0 DEF Cap!TypeOK, Cap!Status, Cap!Vias, CaptureInv, Begun, Handles, Reachable, NoFile, Cap!IdleSync, Cap!SweepMark, Cap!Upsert, Cap!rows, Cap!live, Cap!calls
<1>4. "store" \notin Faults => StoredInv(s)'
  BY <1>0 DEF Cap!TypeOK, Cap!Status, Cap!Vias, CaptureInv, Begun, Handles, Reachable, NoFile, StoredInv, Cap!IdleSync, Cap!SweepMark, Cap!Upsert, Cap!rows, Cap!live, Cap!calls
<1> QED
  BY <1>1, <1>2, <1>3, <1>4, OneSession

\* A capture ends at a cap.
LEMMA HitsCapKeeps ==
    ASSUME Cap!CaptureAssumption, CapturesInv, NEW s \in Sessions, Cap!HitsCap(s)
    PROVE  CapturesInv'
<1>0. Cap!TypeOK /\ CaptureInv(s) /\ ("store" \notin Faults => StoredInv(s))
  BY DEF CapturesInv
<1>1. Cap!TypeOK'
  BY <1>0 DEF Cap!TypeOK, Cap!Status, Cap!Vias, Cap!CaptureAssumption, Cap!HitsCap, Cap!rows, Cap!live, Cap!calls
<1>2. Elsewhere(s)
  BY <1>0 DEF Cap!TypeOK, Elsewhere, Cap!HitsCap, Cap!rows, Cap!live, Cap!calls
<1>3. CaptureInv(s)'
  BY <1>0 DEF Cap!TypeOK, Cap!Status, Cap!Vias, CaptureInv, Begun, Handles, Reachable, NoFile, Cap!IdleSync, Cap!HitsCap, Cap!rows, Cap!live, Cap!calls
<1>4. "store" \notin Faults => StoredInv(s)'
  BY <1>0 DEF Cap!TypeOK, Cap!Status, Cap!Vias, CaptureInv, Begun, Handles, Reachable, NoFile, StoredInv, Cap!IdleSync, Cap!HitsCap, Cap!rows, Cap!live, Cap!calls
<1> QED
  BY <1>1, <1>2, <1>3, <1>4, OneSession

\* A session passes its retention window.
LEMMA AgesKeeps ==
    ASSUME Cap!CaptureAssumption, CapturesInv, NEW s \in Sessions, Cap!Ages(s)
    PROVE  CapturesInv'
<1>0. Cap!TypeOK /\ CaptureInv(s) /\ ("store" \notin Faults => StoredInv(s))
  BY DEF CapturesInv
<1>1. Cap!TypeOK'
  BY <1>0 DEF Cap!TypeOK, Cap!Status, Cap!Vias, Cap!CaptureAssumption, Cap!Ages, Cap!rows, Cap!live, Cap!calls
<1>2. Elsewhere(s)
  BY <1>0 DEF Cap!TypeOK, Elsewhere, Cap!Ages, Cap!rows, Cap!live, Cap!calls
<1>3. CaptureInv(s)'
  BY <1>0 DEF Cap!TypeOK, Cap!Status, Cap!Vias, CaptureInv, Begun, Handles, Reachable, NoFile, Cap!IdleSync, Cap!Ages, Cap!rows, Cap!live, Cap!calls
<1>4. "store" \notin Faults => StoredInv(s)'
  BY <1>0 DEF Cap!TypeOK, Cap!Status, Cap!Vias, CaptureInv, Begun, Handles, Reachable, NoFile, StoredInv, Cap!IdleSync, Cap!Ages, Cap!rows, Cap!live, Cap!calls
<1> QED
  BY <1>1, <1>2, <1>3, <1>4, OneSession

\* The owner restarts and forgets its calls and handles.
LEMMA OwnerRestartsKeeps ==
    ASSUME Cap!CaptureAssumption, CapturesInv, NEW s \in Sessions, Cap!OwnerRestarts(s), crashes < MaxCrashes, crashes' = crashes + 1
    PROVE  CapturesInv'
<1>0. Cap!TypeOK /\ CaptureInv(s) /\ ("store" \notin Faults => StoredInv(s))
  BY DEF CapturesInv
<1>1. Cap!TypeOK'
  <2>1. start[s] \in StartRecords /\ row[s] \in Cap!Status \cup {"none"} /\ proc[s] \in {"none", "running", "completed", "stopped"}
    BY <1>0 DEF Cap!TypeOK, StartRecords
  <2>2. start \in [Sessions -> StartRecords]
    BY <1>0 DEF Cap!TypeOK, StartRecords
  <2>3. start' \in [Sessions -> StartRecords]
    BY <1>0, <2>2, <2>1, StartEdits, StartFieldEdits DEF Handles, CaptureInv, Cap!Status, Cap!OwnerRestarts, Cap!Restart, Cap!IdleStop, Cap!IdleSync, Cap!rows, Cap!live, Cap!calls
  <2>4. stop[s] \in StopRecords /\ row[s] \in Cap!Status \cup {"none"} /\ proc[s] \in {"none", "running", "completed", "stopped"}
    BY <1>0 DEF Cap!TypeOK, StopRecords
  <2>5. stop \in [Sessions -> StopRecords]
    BY <1>0 DEF Cap!TypeOK, StopRecords
  <2>6. stop' \in [Sessions -> StopRecords]
    BY <1>0, <2>5, <2>4, StopEdits, StopFieldEdits DEF Handles, CaptureInv, Cap!Status, Cap!OwnerRestarts, Cap!Restart, Cap!IdleStop, Cap!IdleSync, Cap!rows, Cap!live, Cap!calls
  <2>7. sync[s] \in SyncRecords /\ row[s] \in Cap!Status \cup {"none"} /\ proc[s] \in {"none", "running", "completed", "stopped"}
    BY <1>0 DEF Cap!TypeOK, SyncRecords
  <2>8. sync \in [Sessions -> SyncRecords]
    BY <1>0 DEF Cap!TypeOK, SyncRecords
  <2>9. sync' \in [Sessions -> SyncRecords]
    BY <1>0, <2>8, <2>7, SyncEdits, SyncFieldEdits DEF Handles, CaptureInv, Cap!Status, Cap!OwnerRestarts, Cap!Restart, Cap!IdleStop, Cap!IdleSync, Cap!rows, Cap!live, Cap!calls
  <2> QED
    BY <1>0, <2>3, <2>6, <2>9 DEF Cap!TypeOK, StartRecords, StopRecords, SyncRecords, Cap!Status, Cap!Vias, Cap!CaptureAssumption, Cap!OwnerRestarts, Cap!Restart, Cap!IdleStop, Cap!IdleSync, Cap!rows, Cap!live, Cap!calls
<1>2. Elsewhere(s)
  BY <1>0 DEF Cap!TypeOK, Elsewhere, Cap!OwnerRestarts, Cap!Restart, Cap!IdleStop, Cap!IdleSync, Cap!rows, Cap!live, Cap!calls
<1>3. CaptureInv(s)'
  BY <1>0 DEF Cap!TypeOK, Cap!Status, Cap!Vias, CaptureInv, Begun, Handles, Reachable, NoFile, Cap!IdleSync, Cap!OwnerRestarts, Cap!Restart, Cap!IdleStop, Cap!IdleSync, Cap!rows, Cap!live, Cap!calls
<1>4. "store" \notin Faults => StoredInv(s)'
  BY <1>0 DEF Cap!TypeOK, Cap!Status, Cap!Vias, CaptureInv, Begun, Handles, Reachable, NoFile, StoredInv, Cap!IdleSync, Cap!OwnerRestarts, Cap!Restart, Cap!IdleStop, Cap!IdleSync, Cap!rows, Cap!live, Cap!calls
<1> QED
  BY <1>1, <1>2, <1>3, <1>4, OneSession

\* The coordinator restarts and forgets who waits.
LEMMA CoordinatorRestartsKeeps ==
    ASSUME Cap!CaptureAssumption, CapturesInv, NEW s \in Sessions, Cap!CoordinatorRestarts(s), crashes < MaxCrashes, crashes' = crashes + 1
    PROVE  CapturesInv'
<1>0. Cap!TypeOK /\ CaptureInv(s) /\ ("store" \notin Faults => StoredInv(s))
  BY DEF CapturesInv
<1>1. Cap!TypeOK'
  <2>1. start[s] \in StartRecords /\ row[s] \in Cap!Status \cup {"none"} /\ proc[s] \in {"none", "running", "completed", "stopped"}
    BY <1>0 DEF Cap!TypeOK, StartRecords
  <2>2. start \in [Sessions -> StartRecords]
    BY <1>0 DEF Cap!TypeOK, StartRecords
  <2>3. start' \in [Sessions -> StartRecords]
    BY <1>0, <2>2, <2>1, StartEdits, StartFieldEdits DEF Handles, CaptureInv, Cap!Status, Cap!CoordinatorRestarts, Cap!Restart, Cap!IdleStop, Cap!IdleSync, Cap!rows, Cap!live, Cap!calls
  <2>4. stop[s] \in StopRecords /\ row[s] \in Cap!Status \cup {"none"} /\ proc[s] \in {"none", "running", "completed", "stopped"}
    BY <1>0 DEF Cap!TypeOK, StopRecords
  <2>5. stop \in [Sessions -> StopRecords]
    BY <1>0 DEF Cap!TypeOK, StopRecords
  <2>6. stop' \in [Sessions -> StopRecords]
    BY <1>0, <2>5, <2>4, StopEdits, StopFieldEdits DEF Handles, CaptureInv, Cap!Status, Cap!CoordinatorRestarts, Cap!Restart, Cap!IdleStop, Cap!IdleSync, Cap!rows, Cap!live, Cap!calls
  <2>7. sync[s] \in SyncRecords /\ row[s] \in Cap!Status \cup {"none"} /\ proc[s] \in {"none", "running", "completed", "stopped"}
    BY <1>0 DEF Cap!TypeOK, SyncRecords
  <2>8. sync \in [Sessions -> SyncRecords]
    BY <1>0 DEF Cap!TypeOK, SyncRecords
  <2>9. sync' \in [Sessions -> SyncRecords]
    BY <1>0, <2>8, <2>7, SyncEdits, SyncFieldEdits DEF Handles, CaptureInv, Cap!Status, Cap!CoordinatorRestarts, Cap!Restart, Cap!IdleStop, Cap!IdleSync, Cap!rows, Cap!live, Cap!calls
  <2> QED
    BY <1>0, <2>3, <2>6, <2>9 DEF Cap!TypeOK, StartRecords, StopRecords, SyncRecords, Cap!Status, Cap!Vias, Cap!CaptureAssumption, Cap!CoordinatorRestarts, Cap!Restart, Cap!IdleStop, Cap!IdleSync, Cap!rows, Cap!live, Cap!calls
<1>2. Elsewhere(s)
  BY <1>0 DEF Cap!TypeOK, Elsewhere, Cap!CoordinatorRestarts, Cap!Restart, Cap!IdleStop, Cap!IdleSync, Cap!rows, Cap!live, Cap!calls
<1>3. CaptureInv(s)'
  BY <1>0 DEF Cap!TypeOK, Cap!Status, Cap!Vias, CaptureInv, Begun, Handles, Reachable, NoFile, Cap!IdleSync, Cap!CoordinatorRestarts, Cap!Restart, Cap!IdleStop, Cap!IdleSync, Cap!rows, Cap!live, Cap!calls
<1>4. "store" \notin Faults => StoredInv(s)'
  BY <1>0 DEF Cap!TypeOK, Cap!Status, Cap!Vias, CaptureInv, Begun, Handles, Reachable, NoFile, StoredInv, Cap!IdleSync, Cap!CoordinatorRestarts, Cap!Restart, Cap!IdleStop, Cap!IdleSync, Cap!rows, Cap!live, Cap!calls
<1> QED
  BY <1>1, <1>2, <1>3, <1>4, OneSession

\* Every step of the captures keeps the invariant.
LEMMA CaptureSteps ==
    ASSUME Cap!CaptureAssumption, CapturesInv, [Cap!Next]_(Cap!vars)
    PROVE  CapturesInv'
<1>1. CASE UNCHANGED Cap!vars
  BY <1>1 DEF CapturesInv, CaptureInv, Begun, Handles, Reachable, NoFile, StoredInv, Cap!TypeOK, Cap!vars
<1>2. ASSUME NEW s \in Sessions, Cap!StartStep(s) PROVE CapturesInv'
  BY <1>2, StartAgentKeeps, StartRegisterKeeps, StartWriteKeeps, StartAnswerKeeps DEF Cap!StartStep
<1>3. ASSUME NEW s \in Sessions, Cap!StopBegin(s) \/ Cap!StopBeginRemote(s) \/ Cap!StopStep(s) PROVE CapturesInv'
  BY <1>3, StopBeginKeeps, StopBeginRemoteKeeps, StopSendKeeps, StopTakeKeeps, StopHaltKeeps, StopWriteKeeps,
     StopAnswerKeeps DEF Cap!StopStep
<1>4. ASSUME NEW s \in Sessions, Cap!SyncBegin(s) \/ Cap!SyncBeginRemote(s) \/ Cap!SyncStep(s) PROVE CapturesInv'
  BY <1>4, SyncBeginKeeps, SyncBeginRemoteKeeps, SyncSendKeeps, SyncLookKeeps, SyncResultKeeps, SyncWriteKeeps,
     SyncDropKeeps, SyncAnswerKeeps DEF Cap!SyncStep
<1>5. ASSUME NEW s \in Sessions, Cap!SweepStep(s) \/ Cap!SweepRemoveFails(s) PROVE CapturesInv'
  BY <1>5, SweepBeginKeeps, SweepTakeKeeps, SweepHaltKeeps, SweepRemoveKeeps, SweepRemoveFailsKeeps,
     SweepMarkKeeps DEF Cap!SweepStep
<1>6. ASSUME NEW s \in Sessions, Cap!HitsCap(s) \/ Cap!Ages(s) \/ Cap!Restart(s) PROVE CapturesInv'
  BY <1>6, HitsCapKeeps, AgesKeeps, OwnerRestartsKeeps, CoordinatorRestartsKeeps DEF Cap!Restart
<1> QED
  BY <1>1, <1>2, <1>3, <1>4, <1>5, <1>6 DEF Cap!Next

\* Nothing has started.
LEMMA CaptureStarts == ASSUME Cap!CaptureAssumption, Cap!Init PROVE CapturesInv
<1>1. \A s \in Sessions : Cap!Caller(s) \in Cap!Vias
  BY DEF Cap!Caller, Cap!Vias
<1>2. start \in [Sessions -> StartRecords]
  BY <1>1 DEF Cap!Init, StartRecords, Cap!Status
<1>3. Cap!TypeOK
  BY <1>2 DEF Cap!Init, Cap!TypeOK, StartRecords, Cap!Status, Cap!Vias, Cap!IdleStop, Cap!IdleSync, Cap!CaptureAssumption
<1>4. ASSUME NEW s \in Sessions PROVE CaptureInv(s) /\ StoredInv(s)
  BY DEF Cap!Init, CaptureInv, Begun, Handles, Reachable, NoFile, StoredInv, Cap!IdleStop, Cap!IdleSync
<1> QED
  BY <1>3, <1>4 DEF CapturesInv

\* The rows, handles and calls of every capture have their types.
THEOREM CaptureTypes == ASSUME Cap!CaptureAssumption PROVE Cap!Spec => []Cap!TypeOK
<1>1. Cap!Init => CapturesInv
  BY CaptureStarts
<1>2. CapturesInv /\ [Cap!Next]_(Cap!vars) => CapturesInv'
  BY CaptureSteps
<1>3. CapturesInv => Cap!TypeOK
  BY DEF CapturesInv
<1> QED
  BY <1>1, <1>2, <1>3, PTL DEF Cap!Spec

\* However starts, stops, polls, sweeps and restarts overlap, a process that
\* runs is registered or about to be stopped, a purged row names no file, and,
\* while the store takes every write, the row of a running capture says running,
\* so that StopGroup does not skip it (coordinator.go).
THEOREM CapturesKept == ASSUME Cap!CaptureAssumption PROVE Cap!Spec => []Cap!CapturesAreKept
<1>1. Cap!Init => CapturesInv
  BY CaptureStarts
<1>2. CapturesInv /\ [Cap!Next]_(Cap!vars) => CapturesInv'
  BY CaptureSteps
<1>3. CapturesInv => Cap!CapturesAreKept
  <2>1. CapturesInv => Cap!LiveIsReachable /\ Cap!PurgedHasNoFile
    BY DEF CapturesInv, CaptureInv, Reachable, NoFile, Cap!LiveIsReachable, Cap!PurgedHasNoFile
  <2>2. CapturesInv => ("store" \notin Faults => Cap!StopFindsLive)
    BY DEF CapturesInv, StoredInv, Cap!StopFindsLive
  <2> QED
    BY <2>1, <2>2 DEF Cap!CapturesAreKept
<1> QED
  BY <1>1, <1>2, <1>3, PTL DEF Cap!Spec

-----------------------------------------------------------------------------
CONSTANTS Findings, NotifyMin, SourceFilter

VARIABLES present, suppressed, notified, at, snap, hushed, todo, next, told, fired, worse

Notif == INSTANCE FindingNotify

-----------------------------------------------------------------------------
(* FindingNotify: a cycle that compares a snapshot with what was notified. *)

\* The findings of the snapshot the cycle has dealt with.
Handled(f) == snap[f] # 0 /\ (at = "gone" \/ (at = "current" /\ f \notin todo))

\* What the next cycle will compare with is what the receiver was told: the old
\* entry of a finding the cycle has not come to, the new one after that.
ToldInv(f) ==
    /\ f \in todo => (at = "current" /\ snap[f] # 0) \/ (at = "gone" /\ snap[f] = 0)
    /\ Handled(f) => /\ next[f] # 0 => told[f] = next[f]
                     /\ snap[f] >= NotifyMin /\ f \notin hushed => told[f] = snap[f]
    /\ ~Handled(f) => /\ at # "idle" => next[f] = 0
                      /\ at # "gone" /\ notified[f] # 0 => told[f] = notified[f]

\* A finding that was notified since its severity last changed is remembered at
\* that severity, by the entry the next comparison will use.
OnceInv(f) ==
    fired[f] # 0 => /\ fired[f] = 1 /\ snap[f] >= NotifyMin
                    /\ IF Handled(f) THEN next[f] = snap[f] ELSE notified[f] = snap[f]

NotifyInv ==
    /\ Notif!TypeOK
    /\ \A f \in Findings : ToldInv(f)
    /\ MaxRestarts = 0 => \A f \in Findings : OnceInv(f)

\* One finding of the snapshot is evaluated: every branch of the loop keeps what
\* holds of it, and of the others.
LEMMA EvaluateKeeps ==
    ASSUME Notif!NotifyAssumption, NotifyInv, NEW f \in Findings, Notif!Evaluate(f)
    PROVE  NotifyInv'
<1>0. Notif!TypeOK /\ ToldInv(f) /\ (MaxRestarts = 0 => OnceInv(f)) /\ NotifyMin \in 1 .. 3
  BY DEF NotifyInv, Notif!NotifyAssumption
<1>1. /\ at = "current" /\ at' = "current" /\ f \in todo /\ todo' = todo \ {f}
      /\ present' = present /\ suppressed' = suppressed /\ notified' = notified
      /\ snap' = snap /\ hushed' = hushed /\ restarts' = restarts
  BY DEF Notif!Evaluate
<1>2. /\ snap[f] \in 0 .. 3 /\ notified[f] \in 0 .. 3 /\ next[f] \in 0 .. 3 /\ told[f] \in 0 .. 3
      /\ fired[f] \in 0 .. 2 /\ snap[f] # 0
      /\ ~Handled(f)
  BY <1>0, <1>1 DEF Notif!TypeOK, Notif!Sev, ToldInv, Handled
<1>3. /\ next' \in [Findings -> 0 .. 3] /\ told' \in [Findings -> 0 .. 3] /\ fired' \in [Findings -> 0 .. 2]
      /\ worse' \in BOOLEAN
      /\ \A g \in Findings : g # f => next'[g] = next[g] /\ told'[g] = told[g] /\ fired'[g] = fired[g]
      /\ \/ f \in hushed /\ next'[f] = notified[f] /\ told'[f] = told[f] /\ fired'[f] = fired[f]
         \/ /\ f \notin hushed /\ snap[f] < NotifyMin
            /\ next'[f] = next[f] /\ told'[f] = told[f] /\ fired'[f] = fired[f]
         \/ /\ snap[f] >= NotifyMin /\ notified[f] # snap[f]
            /\ next'[f] = snap[f] /\ told'[f] = snap[f]
            /\ fired'[f] = IF fired[f] < 2 THEN fired[f] + 1 ELSE fired[f]
         \/ /\ snap[f] >= NotifyMin /\ notified[f] = snap[f]
            /\ next'[f] = snap[f] /\ told'[f] = told[f] /\ fired'[f] = fired[f]
  <2>0. /\ next \in [Findings -> 0 .. 3] /\ told \in [Findings -> 0 .. 3] /\ fired \in [Findings -> 0 .. 2]
        /\ worse \in BOOLEAN /\ snap \in [Findings -> 0 .. 3] /\ notified \in [Findings -> 0 .. 3]
    BY <1>0 DEF Notif!TypeOK, Notif!Sev
  <2>1. CASE Notif!Suppressed(f)
    BY <1>2, <2>0, <2>1 DEF Notif!Suppressed
  <2>2. CASE Notif!BelowThreshold(f)
    BY <1>2, <2>0, <2>2 DEF Notif!BelowThreshold
  <2>3. CASE Notif!FiresNew(f)
    BY <1>2, <2>0, <2>3 DEF Notif!FiresNew, Notif!Fire
  <2>4. CASE Notif!FiresEscalated(f)
    <3>1. worse' \in BOOLEAN
      BY <2>4 DEF Notif!FiresEscalated
    <3> QED
      BY <1>2, <2>0, <2>4, <3>1 DEF Notif!FiresEscalated, Notif!Fire
  <2>5. CASE Notif!Unchanged(f)
    BY <1>2, <2>0, <2>5 DEF Notif!Unchanged
  <2> QED
    BY <2>1, <2>2, <2>3, <2>4, <2>5 DEF Notif!Evaluate
<1>4. Notif!TypeOK'
  BY <1>0, <1>1, <1>3 DEF Notif!TypeOK, Notif!Sev
<1>5. ASSUME NEW g \in Findings PROVE ToldInv(g)' /\ (MaxRestarts = 0 => OnceInv(g)')
  <2>1. ToldInv(g) /\ (MaxRestarts = 0 => OnceInv(g))
    BY DEF NotifyInv
  <2>2. CASE g # f
    BY <1>1, <1>3, <2>1, <2>2 DEF ToldInv, OnceInv, Handled
  <2>3. CASE g = f
    BY <1>0, <1>1, <1>2, <1>3, <2>3 DEF ToldInv, OnceInv, Handled
  <2> QED
    BY <2>2, <2>3
<1> QED
  BY <1>4, <1>5 DEF NotifyInv

\* Every step of the cycle and of the world around it keeps the invariant.
LEMMA NotifySteps ==
    ASSUME Notif!NotifyAssumption, NotifyInv, [Notif!Next]_(Notif!vars)
    PROVE  NotifyInv'
<1>0. Notif!TypeOK /\ NotifyMin \in 1 .. 3
  BY DEF NotifyInv, Notif!NotifyAssumption
<1>1. ASSUME UNCHANGED <<notified, at, snap, hushed, todo, next, told, fired>> , Notif!TypeOK'
      PROVE  NotifyInv'
  BY <1>1 DEF NotifyInv, ToldInv, OnceInv, Handled
<1>2. CASE UNCHANGED Notif!vars
  BY <1>0, <1>1, <1>2 DEF Notif!vars, Notif!TypeOK
<1>3. ASSUME NEW f \in Findings, Notif!Changes(f) \/ Notif!WindowTurns(f) PROVE NotifyInv'
  BY <1>0, <1>1, <1>3 DEF Notif!Changes, Notif!WindowTurns, Notif!cycle, Notif!TypeOK
<1>4. CASE Notif!CycleBegins
  <2>1. Notif!TypeOK'
    BY <1>0, <1>4 DEF Notif!CycleBegins, Notif!TypeOK, Notif!Nothing, Notif!Sev
  <2>2. ASSUME NEW f \in Findings PROVE ToldInv(f)' /\ (MaxRestarts = 0 => OnceInv(f)')
    <3>1. ToldInv(f) /\ (MaxRestarts = 0 => OnceInv(f))
      BY DEF NotifyInv
    <3>2. /\ at = "idle" /\ at' = "current" /\ snap'[f] = present[f] /\ (f \in todo' <=> present[f] # 0)
          /\ next'[f] = 0 /\ notified' = notified /\ told' = told
          /\ fired'[f] = IF present[f] = snap[f] THEN fired[f] ELSE 0
      BY <1>4 DEF Notif!CycleBegins, Notif!Nothing
    <3> QED
      BY <3>1, <3>2 DEF ToldInv, OnceInv, Handled
  <2> QED
    BY <2>1, <2>2 DEF NotifyInv
<1>5. CASE Notif!CurrentDone
  <2>1. Notif!TypeOK'
    BY <1>0, <1>5 DEF Notif!CurrentDone, Notif!TypeOK
  <2>2. ASSUME NEW f \in Findings PROVE ToldInv(f)' /\ (MaxRestarts = 0 => OnceInv(f)')
    <3>1. ToldInv(f) /\ (MaxRestarts = 0 => OnceInv(f))
      BY DEF NotifyInv
    <3> QED
      BY <1>5, <3>1 DEF Notif!CurrentDone, ToldInv, OnceInv, Handled
  <2> QED
    BY <2>1, <2>2 DEF NotifyInv
<1>6. CASE Notif!CycleEnds
  <2>1. Notif!TypeOK'
    BY <1>0, <1>6 DEF Notif!CycleEnds, Notif!TypeOK
  <2>2. ASSUME NEW f \in Findings PROVE ToldInv(f)' /\ (MaxRestarts = 0 => OnceInv(f)')
    <3>1. ToldInv(f) /\ (MaxRestarts = 0 => OnceInv(f))
      BY DEF NotifyInv
    <3>2. snap[f] \in 0 .. 3 /\ notified[f] \in 0 .. 3
      BY <1>0 DEF Notif!TypeOK, Notif!Sev
    <3> QED
      BY <1>0, <1>6, <3>1, <3>2 DEF Notif!CycleEnds, ToldInv, OnceInv, Handled
  <2> QED
    BY <2>1, <2>2 DEF NotifyInv
<1>7. CASE Notif!Restart
  <2>1. Notif!TypeOK' /\ MaxRestarts # 0
    BY <1>0, <1>7 DEF Notif!Restart, Notif!TypeOK, Notif!Nothing, Notif!Sev, Notif!NotifyAssumption
  <2>2. ASSUME NEW f \in Findings PROVE ToldInv(f)'
    BY <1>7 DEF Notif!Restart, Notif!Nothing, ToldInv, Handled
  <2> QED
    BY <2>1, <2>2 DEF NotifyInv
<1>8. ASSUME NEW f \in Findings, Notif!Evaluate(f) PROVE NotifyInv'
  BY <1>8, EvaluateKeeps
<1>9. ASSUME NEW f \in Findings, Notif!FiresResolved(f) PROVE NotifyInv'
  <2>1. Notif!TypeOK'
    BY <1>0, <1>9 DEF Notif!FiresResolved, Notif!TypeOK, Notif!Sev
  <2>2. ASSUME NEW g \in Findings PROVE ToldInv(g)' /\ (MaxRestarts = 0 => OnceInv(g)')
    <3>1. ToldInv(g) /\ ToldInv(f) /\ (MaxRestarts = 0 => OnceInv(g))
      BY DEF NotifyInv
    <3>2. g # f => told'[g] = told[g]
      BY <1>0, <1>9 DEF Notif!FiresResolved, Notif!TypeOK
    <3> QED
      BY <1>9, <3>1, <3>2 DEF Notif!FiresResolved, ToldInv, OnceInv, Handled
  <2> QED
    BY <2>1, <2>2 DEF NotifyInv
<1> QED
  BY <1>2, <1>3, <1>4, <1>5, <1>6, <1>7, <1>8, <1>9 DEF Notif!Next

\* Nothing was found, and nothing told.
LEMMA NotifyStarts == ASSUME Notif!NotifyAssumption, Notif!Init PROVE NotifyInv
  BY DEF Notif!Init, Notif!Nothing, Notif!NotifyAssumption, Notif!TypeOK, Notif!Sev, NotifyInv, ToldInv, OnceInv, Handled

\* After every cycle the receiver was told the severity the cycle saw of every
\* finding it should know of, whatever maintenance windows did and however
\* often the daemon restarted; and unless it restarts, no severity is told twice
\* (evaluateNotifications).
THEOREM CyclesTell == ASSUME Notif!NotifyAssumption PROVE Notif!Spec => []Notif!ReceiverIsTold
<1>1. Notif!Init => NotifyInv
  BY NotifyStarts
<1>2. NotifyInv /\ [Notif!Next]_(Notif!vars) => NotifyInv'
  BY NotifySteps
<1>3. NotifyInv => Notif!ReceiverIsTold
  <2>1. NotifyInv => Notif!CycleTellsCurrent
    <3> SUFFICES ASSUME NotifyInv, at = "gone", NEW f \in Findings, snap[f] >= NotifyMin, f \notin hushed
                 PROVE  told[f] = snap[f]
      BY DEF Notif!CycleTellsCurrent
    <3>1. ToldInv(f) /\ NotifyMin \in 1 .. 3 /\ snap[f] \in 0 .. 3
      BY DEF NotifyInv, Notif!NotifyAssumption, Notif!TypeOK, Notif!Sev
    <3> QED
      BY <3>1 DEF ToldInv, Handled
  <2>2. NotifyInv => (MaxRestarts = 0 => Notif!OncePerCondition)
    BY DEF NotifyInv, OnceInv, Notif!OncePerCondition, Notif!TypeOK
  <2> QED
    BY <2>1, <2>2 DEF Notif!ReceiverIsTold
<1> QED
  BY <1>1, <1>2, <1>3, PTL DEF Notif!Spec

\* The cycle's own state has its types, and so has what it remembers.
THEOREM NotifyTypes == ASSUME Notif!NotifyAssumption PROVE Notif!Spec => []Notif!TypeOK
<1>1. Notif!Init => NotifyInv
  BY NotifyStarts
<1>2. NotifyInv /\ [Notif!Next]_(Notif!vars) => NotifyInv'
  BY NotifySteps
<1>3. NotifyInv => Notif!TypeOK
  BY DEF NotifyInv
<1> QED
  BY <1>1, <1>2, <1>3, PTL DEF Notif!Spec

-----------------------------------------------------------------------------
CONSTANTS Events, Day, QuietHours, DigestWindow, Bypass, RuleTurns

VARIABLES clock, quiet, on, pend, left, sev, age, tried, notify, flush

Alert == INSTANCE AlertSchedule

-----------------------------------------------------------------------------
(* AlertSchedule: quiet hours, the digest window, and the flush of the queue. *)

NotifyRecords == [at : {"idle", "decide", "join", "add", "deliver"}, e : Events, flushAt : Nat]
FlushRecords == [at : {"idle", "deliver", "clear"}, batch : SUBSET Events, gone : BOOLEAN]

\* The batch on its way is queued, its id is not used again, and when it is
\* deleted it was tried or its rule was gone.
BatchInv ==
    /\ flush.at = "idle" => flush = Alert!IdleFlush
    /\ flush.batch \subseteq pend
    /\ flush.at = "clear" => flush.gone \/ flush.batch \subseteq tried

\* An error that bypasses quiet hours waits for its digest at most, queued or on
\* its way to the queue, where no other event has its id.
UrgentInv ==
    /\ \A e \in pend : Alert!Bypasses(sev[e]) => left[e] <= DigestWindow
    /\ notify.at \in {"join", "add"} /\ Alert!Bypasses(sev[notify.e]) => notify.flushAt <= DigestWindow
    /\ notify.at # "idle" => notify.e \notin pend

AlertInv == Alert!TypeOK /\ BatchInv /\ UrgentInv

\* The least of a set of naturals is one of them, and at most every other.
LEMMA LeastNatural ==
    ASSUME NEW S \in SUBSET Nat, S # {}
    PROVE  Alert!Min(S) \in S /\ \A y \in S : Alert!Min(S) <= y
<1>1. \E x \in S : \A y \in S : x <= y
  BY SmallestExists
<1> QED
  BY <1>1, Zenon DEF Alert!Min

\* The remainder by the length of a day, up to two days.
LEMMA DayFold ==
    ASSUME NEW d \in Nat \ {0}, NEW x \in Nat, x < d + d
    PROVE  x % d = IF x < d THEN x ELSE x - d
  OBVIOUS

\* Inside a quiet window its end is the first later minute outside, for every
\* window and every minute, across midnight too.
LEMMA QuietEnd ==
    ASSUME Alert!ScheduleAssumption, Alert!TypeOK
    PROVE  Alert!QuietEndIsFirstOutside
<1> SUFFICES ASSUME Alert!Contains(clock) PROVE /\ Alert!NextEnd(clock) \in 1 .. Day
                                                /\ ~Alert!Contains((clock + Alert!NextEnd(clock)) % Day)
                                                /\ \A k \in 0 .. Alert!NextEnd(clock) - 1 : Alert!Contains((clock + k) % Day)
  BY DEF Alert!QuietEndIsFirstOutside
<1>1. /\ Day \in Nat \ {0} /\ clock \in 0 .. Day - 1
      /\ quiet # Alert!NoQuiet /\ quiet \in QuietHours
      /\ quiet[1] \in 0 .. Day - 1 /\ quiet[2] \in 0 .. Day - 1 /\ quiet[1] # quiet[2]
  BY DEF Alert!ScheduleAssumption, Alert!TypeOK, Alert!Contains
<1>2. \A t : Alert!Contains(t) <=> IF quiet[1] < quiet[2] THEN t >= quiet[1] /\ t < quiet[2]
                                                          ELSE t >= quiet[1] \/ t < quiet[2]
  BY <1>1 DEF Alert!Contains
<1>3. PICK n \in Nat : n = Alert!NextEnd(clock) /\ n = IF quiet[2] > clock THEN quiet[2] - clock ELSE quiet[2] + Day - clock
  BY <1>1 DEF Alert!NextEnd
<1>4. n \in 1 .. Day
  BY <1>1, <1>3
<1>5. (clock + n) % Day = quiet[2]
  <2>0. Day \in Nat \ {0}
    BY <1>1
  <2>1. PICK x \in Nat : x = clock + n /\ x < Day + Day
    BY <1>1, <1>3
  <2>2. x % Day = IF x < Day THEN x ELSE x - Day
    BY <2>0, <2>1, DayFold
  <2> QED
    BY <1>1, <1>3, <2>1, <2>2
<1>6. ~Alert!Contains(quiet[2])
  BY <1>1, <1>2
<1>7. ASSUME NEW k \in 0 .. n - 1 PROVE Alert!Contains((clock + k) % Day)
  <2>0. Day \in Nat \ {0}
    BY <1>1
  <2>1. PICK x \in Nat : x = clock + k /\ x < Day + Day
    BY <1>1, <1>4
  <2>2. x % Day = IF x < Day THEN x ELSE x - Day
    BY <2>0, <2>1, DayFold
  <2>3. PICK m \in Nat : m = (clock + k) % Day /\ m = IF clock + k < Day THEN clock + k ELSE clock + k - Day
    BY <1>1, <2>1, <2>2
  <2>4. IF quiet[1] < quiet[2] THEN m >= quiet[1] /\ m < quiet[2] ELSE m >= quiet[1] \/ m < quiet[2]
    BY <1>1, <1>2, <1>3, <1>4, <2>3
  <2> QED
    BY <1>2, <2>3, <2>4
<1> QED
  BY <1>3, <1>4, <1>5, <1>6, <1>7

\* A call's record is replaced as a whole, or one or two of its fields are.
LEMMA AlertRecords ==
    ASSUME Alert!ScheduleAssumption
    PROVE  /\ Alert!IdleNotify \in NotifyRecords /\ Alert!IdleNotify.at = "idle"
           /\ Alert!IdleFlush \in FlushRecords /\ Alert!IdleFlush.at = "idle" /\ Alert!IdleFlush.batch = {}
           /\ \A n \in NotifyRecords : \A a \in {"idle", "decide", "join", "add", "deliver"} : \A k \in Nat :
                 /\ [n EXCEPT !.at = a] \in NotifyRecords /\ [n EXCEPT !.flushAt = k] \in NotifyRecords
                 /\ [n EXCEPT !.at = a, !.flushAt = k] \in NotifyRecords
           /\ \A f \in FlushRecords : \A a \in {"idle", "deliver", "clear"} :
                 /\ [f EXCEPT !.at = a] \in FlushRecords /\ [f EXCEPT !.at = a, !.gone = TRUE] \in FlushRecords
<1>1. (CHOOSE e \in Events : TRUE) \in Events
  BY Zenon DEF Alert!ScheduleAssumption
<1>2. Alert!IdleNotify \in NotifyRecords /\ Alert!IdleNotify.at = "idle"
  <2> DEFINE c == CHOOSE e \in Events : TRUE
  <2>1. c \in Events
    BY <1>1
  <2>2. Alert!IdleNotify = [at |-> "idle", e |-> c, flushAt |-> 0]
    BY DEF Alert!IdleNotify
  <2> HIDE DEF c
  <2> QED
    BY <2>1, <2>2 DEF NotifyRecords
<1>3. Alert!IdleFlush \in FlushRecords /\ Alert!IdleFlush.at = "idle" /\ Alert!IdleFlush.batch = {}
  BY DEF Alert!IdleFlush, FlushRecords
<1>4. ASSUME NEW n \in NotifyRecords, NEW a \in {"idle", "decide", "join", "add", "deliver"}, NEW k \in Nat
      PROVE  /\ [n EXCEPT !.at = a] \in NotifyRecords /\ [n EXCEPT !.flushAt = k] \in NotifyRecords
             /\ [n EXCEPT !.at = a, !.flushAt = k] \in NotifyRecords
  BY DEF NotifyRecords
<1>5. ASSUME NEW f \in FlushRecords, NEW a \in {"idle", "deliver", "clear"}
      PROVE  [f EXCEPT !.at = a] \in FlushRecords /\ [f EXCEPT !.at = a, !.gone = TRUE] \in FlushRecords
  BY DEF FlushRecords
<1> QED
  BY <1>2, <1>3, <1>4, <1>5

\* The steps of Notify.
LEMMA NotifyCallKeeps ==
    ASSUME Alert!ScheduleAssumption, AlertInv,
           (\E e \in Events : Alert!NotifyBegins(e)) \/ Alert!Decide \/ Alert!Join \/ Alert!Hold \/ Alert!DeliverNow
    PROVE  AlertInv'
<1>0. /\ Alert!TypeOK /\ BatchInv /\ UrgentInv /\ notify \in NotifyRecords /\ flush \in FlushRecords
      /\ notify.e \in Events /\ notify.flushAt \in Nat /\ DigestWindow \in Nat /\ Day \in Nat \ {0}
  BY DEF AlertInv, Alert!TypeOK, NotifyRecords, FlushRecords, Alert!ScheduleAssumption
<1>1. ASSUME NEW e \in Events, Alert!NotifyBegins(e) PROVE AlertInv'
  <2>1. PICK n \in NotifyRecords : n = [at |-> "decide", e |-> e, flushAt |-> 0]
    BY DEF NotifyRecords
  <2>2. notify' = n /\ n.at = "decide" /\ e \notin pend /\ n.e = e
    BY <1>1, <2>1 DEF Alert!NotifyBegins
  <2>3. /\ clock' = clock /\ quiet' = quiet /\ on' = on /\ pend' = pend /\ left' = left /\ tried' = tried /\ flush' = flush
        /\ sev' \in [Events -> Alert!Severity] /\ \A x \in Events : x # e => sev'[x] = sev[x]
        /\ age' \in [Events -> 0 .. DigestWindow]
    BY <1>0, <1>1 DEF Alert!NotifyBegins, Alert!TypeOK
  <2>4. Alert!TypeOK'
    BY <1>0, <2>2, <2>3 DEF Alert!TypeOK, NotifyRecords
  <2>5. BatchInv'
    BY <1>0, <2>3 DEF BatchInv, Alert!IdleFlush
  <2>6. UrgentInv'
    <3>1. pend \subseteq Events
      BY <1>0 DEF Alert!TypeOK
    <3> QED
      BY <1>0, <2>2, <2>3, <3>1 DEF UrgentInv, Alert!Bypasses
  <2> QED
    BY <2>4, <2>5, <2>6 DEF AlertInv
<1>2. CASE Alert!Decide
  <2> DEFINE held == Alert!Contains(clock) /\ ~Alert!Bypasses(sev[notify.e])
             a == IF held THEN "add" ELSE IF DigestWindow > 0 THEN "join" ELSE "deliver"
             k == IF held THEN Alert!NextEnd(clock) ELSE DigestWindow
  <2>1. /\ notify' = [notify EXCEPT !.at = a, !.flushAt = k] /\ notify.at = "decide"
        /\ UNCHANGED <<clock, quiet, on, pend, left, sev, age, tried, flush>>
    BY <1>2 DEF Alert!Decide, Alert!queue
  <2>2. a \in {"add", "join", "deliver"} /\ (held => ~Alert!Bypasses(sev[notify.e])) /\ (~held => k = DigestWindow)
    OBVIOUS
  <2>3. k \in Nat
    <3>1. CASE held
      <4>1. /\ clock \in 0 .. Day - 1 /\ quiet \in QuietHours
            /\ quiet[1] \in 0 .. Day - 1 /\ quiet[2] \in 0 .. Day - 1
        BY <1>0, <3>1 DEF Alert!ScheduleAssumption, Alert!TypeOK, Alert!Contains
      <4> QED
        BY <1>0, <3>1, <4>1 DEF Alert!NextEnd
    <3>2. CASE ~held
      BY <1>0, <3>2
    <3> QED
      BY <3>1, <3>2
  <2> HIDE DEF a, k
  <2>4. PICK n \in NotifyRecords : n = [notify EXCEPT !.at = a, !.flushAt = k]
    BY <1>0, <2>2, <2>3, AlertRecords
  <2>5. notify' = n /\ n.at = a /\ n.flushAt = k /\ n.e = notify.e
    BY <1>0, <2>1, <2>4 DEF NotifyRecords
  <2>6. Alert!TypeOK'
    BY <1>0, <2>1, <2>5 DEF Alert!TypeOK, NotifyRecords
  <2>7. BatchInv'
    BY <1>0, <2>1 DEF BatchInv, Alert!IdleFlush
  <2>8. UrgentInv'
    BY <1>0, <2>1, <2>2, <2>5 DEF UrgentInv, Alert!Bypasses
  <2> QED
    BY <2>6, <2>7, <2>8 DEF AlertInv
<1>3. CASE Alert!Join
  <2> DEFINE S == {notify.flushAt} \cup {left[e] : e \in pend}
             m == Alert!Min(S)
  <2>1. m \in Nat /\ m <= notify.flushAt
    <3>1. S \in SUBSET Nat /\ S # {} /\ notify.flushAt \in S
      BY <1>0 DEF Alert!TypeOK
    <3> HIDE DEF S
    <3> QED
      BY <1>0, <3>1, LeastNatural
  <2>2. /\ notify.at = "join"
        /\ (notify' = [notify EXCEPT !.at = "add", !.flushAt = m] \/ notify' = [notify EXCEPT !.at = "deliver"])
        /\ UNCHANGED <<clock, quiet, on, pend, left, sev, age, tried, flush>>
    BY <1>3 DEF Alert!Join, Alert!queue
  <2> HIDE DEF m
  <2>3. PICK n \in NotifyRecords :
            notify' = n /\ (n = [notify EXCEPT !.at = "add", !.flushAt = m] \/ n = [notify EXCEPT !.at = "deliver"])
    BY <1>0, <2>1, <2>2, AlertRecords
  <2>4. n.e = notify.e /\ (n.at = "deliver" \/ (n.at = "add" /\ n.flushAt = m))
    BY <1>0, <2>3 DEF NotifyRecords
  <2>5. Alert!TypeOK'
    BY <1>0, <2>2, <2>3 DEF Alert!TypeOK, NotifyRecords
  <2>6. BatchInv'
    BY <1>0, <2>2 DEF BatchInv, Alert!IdleFlush
  <2>7. UrgentInv'
    BY <1>0, <2>1, <2>2, <2>3, <2>4 DEF UrgentInv, Alert!Bypasses
  <2> QED
    BY <2>5, <2>6, <2>7 DEF AlertInv
<1>4. CASE Alert!Hold
  <2>1. notify.at = "add" /\ UNCHANGED <<clock, quiet, on, sev, age, tried, flush>>
    BY <1>4 DEF Alert!Hold
  <2>2. CASE /\ pend' = pend \cup {notify.e} /\ left' = [left EXCEPT ![notify.e] = notify.flushAt]
             /\ notify' = Alert!IdleNotify
    <3>0. /\ Alert!IdleNotify \in NotifyRecords /\ Alert!IdleNotify.at = "idle"
          /\ pend \subseteq Events /\ left \in [Events -> Nat]
      BY <1>0, AlertRecords DEF Alert!TypeOK
    <3>1. Alert!TypeOK'
      BY <1>0, <2>1, <2>2, <3>0 DEF Alert!TypeOK, NotifyRecords
    <3>2. BatchInv'
      BY <1>0, <2>1, <2>2 DEF BatchInv, Alert!IdleFlush
    <3>3. UrgentInv'
      <4>1. ASSUME NEW e \in pend', Alert!Bypasses(sev'[e]) PROVE left'[e] <= DigestWindow
        <5>1. e \in Events /\ Alert!Bypasses(sev[e])
          BY <1>0, <2>1, <2>2, <3>0, <4>1
        <5>2. CASE e = notify.e
          BY <1>0, <2>1, <2>2, <3>0, <5>1, <5>2 DEF UrgentInv
        <5>3. CASE e # notify.e
          BY <1>0, <2>1, <2>2, <3>0, <5>1, <5>3 DEF UrgentInv
        <5> QED
          BY <5>2, <5>3
      <4> QED
        BY <2>2, <3>0, <4>1 DEF UrgentInv, Alert!Bypasses
    <3> QED
      BY <3>1, <3>2, <3>3 DEF AlertInv
  <2>3. CASE notify' = [notify EXCEPT !.at = "deliver"] /\ UNCHANGED <<pend, left>>
    <3>1. PICK n \in NotifyRecords : n = [notify EXCEPT !.at = "deliver"]
      BY <1>0, AlertRecords
    <3>2. notify' = n /\ n.at = "deliver" /\ n.e = notify.e
      BY <1>0, <2>3, <3>1 DEF NotifyRecords
    <3>3. Alert!TypeOK'
      BY <1>0, <2>1, <2>3, <3>2 DEF Alert!TypeOK, NotifyRecords
    <3>4. BatchInv' /\ UrgentInv'
      BY <1>0, <2>1, <2>3, <3>2 DEF BatchInv, UrgentInv, Alert!Bypasses, Alert!IdleFlush
    <3> QED
      BY <3>3, <3>4 DEF AlertInv
  <2> QED
    BY <1>4, <2>2, <2>3 DEF Alert!Hold
<1>5. CASE Alert!DeliverNow
  <2>1. notify' = Alert!IdleNotify /\ UNCHANGED <<clock, quiet, on, pend, left, sev, age, tried, flush>>
    BY <1>5 DEF Alert!DeliverNow, Alert!queue
  <2>2. Alert!TypeOK'
    BY <1>0, <2>1, AlertRecords DEF Alert!TypeOK, NotifyRecords
  <2>3. BatchInv' /\ UrgentInv'
    BY <1>0, <2>1, AlertRecords DEF BatchInv, UrgentInv, Alert!Bypasses, Alert!IdleFlush
  <2> QED
    BY <2>2, <2>3 DEF AlertInv
<1> QED
  BY <1>1, <1>2, <1>3, <1>4, <1>5

\* The steps of Flush.
LEMMA FlushKeeps ==
    ASSUME Alert!ScheduleAssumption, AlertInv,
           \/ Alert!FlushBegins \/ Alert!FlushDelivers \/ Alert!FlushDiscards \/ Alert!FlushClears \/ Alert!FlushClearFails
    PROVE  AlertInv'
<1>0. /\ Alert!TypeOK /\ BatchInv /\ UrgentInv /\ notify \in NotifyRecords /\ flush \in FlushRecords
      /\ DigestWindow \in Nat /\ flush.batch \subseteq Events
  BY DEF AlertInv, Alert!TypeOK, NotifyRecords, FlushRecords, Alert!ScheduleAssumption
<1>1. CASE Alert!FlushBegins
  <2>1. PICK f \in FlushRecords : f = [at |-> "deliver", batch |-> Alert!Due, gone |-> FALSE]
    BY <1>0 DEF FlushRecords, Alert!Due, Alert!TypeOK
  <2>2. flush' = f /\ f.at = "deliver" /\ f.batch \subseteq pend /\ UNCHANGED <<clock, quiet, on, pend, left, sev, age, tried, notify>>
    BY <1>1, <2>1 DEF Alert!FlushBegins, Alert!Due, Alert!queue
  <2>3. Alert!TypeOK'
    BY <1>0, <2>2 DEF Alert!TypeOK, FlushRecords
  <2>4. BatchInv' /\ UrgentInv'
    BY <1>0, <2>2 DEF BatchInv, UrgentInv, Alert!Bypasses
  <2> QED
    BY <2>3, <2>4 DEF AlertInv
<1>2. CASE Alert!FlushDelivers
  <2>1. PICK f \in FlushRecords : f = [flush EXCEPT !.at = "clear"]
    BY <1>0, AlertRecords
  <2>2. /\ flush' = f /\ f.at = "clear" /\ f.batch = flush.batch /\ tried' = tried \cup flush.batch
        /\ UNCHANGED <<clock, quiet, on, pend, left, sev, age, notify>>
    BY <1>0, <1>2, <2>1 DEF Alert!FlushDelivers, FlushRecords
  <2>3. Alert!TypeOK'
    BY <1>0, <2>2 DEF Alert!TypeOK, FlushRecords, BatchInv
  <2>4. BatchInv' /\ UrgentInv'
    BY <1>0, <2>2 DEF BatchInv, UrgentInv, Alert!Bypasses
  <2> QED
    BY <2>3, <2>4 DEF AlertInv
<1>3. CASE Alert!FlushDiscards
  <2>1. PICK f \in FlushRecords : f = [flush EXCEPT !.at = "clear", !.gone = TRUE]
    BY <1>0, AlertRecords
  <2>2. /\ flush' = f /\ f.at = "clear" /\ f.batch = flush.batch /\ f.gone
        /\ UNCHANGED <<clock, quiet, on, pend, left, sev, age, tried, notify>>
    BY <1>0, <1>3, <2>1 DEF Alert!FlushDiscards, FlushRecords, Alert!queue
  <2>3. Alert!TypeOK'
    BY <1>0, <2>2 DEF Alert!TypeOK, FlushRecords
  <2>4. BatchInv' /\ UrgentInv'
    BY <1>0, <2>2 DEF BatchInv, UrgentInv, Alert!Bypasses
  <2> QED
    BY <2>3, <2>4 DEF AlertInv
<1>4. CASE Alert!FlushClears
  <2>1. /\ pend' = pend \ flush.batch /\ tried' = tried \ flush.batch /\ flush' = Alert!IdleFlush
        /\ UNCHANGED <<clock, quiet, on, left, sev, age, notify>>
    BY <1>4 DEF Alert!FlushClears
  <2>2. Alert!TypeOK'
    BY <1>0, <2>1, AlertRecords DEF Alert!TypeOK, FlushRecords
  <2>3. BatchInv'
    BY <2>1, AlertRecords DEF BatchInv, Alert!IdleFlush
  <2>4. UrgentInv'
    BY <1>0, <2>1 DEF UrgentInv, Alert!Bypasses
  <2> QED
    BY <2>2, <2>3, <2>4 DEF AlertInv
<1>5. CASE Alert!FlushClearFails
  <2>1. flush' = Alert!IdleFlush /\ UNCHANGED <<clock, quiet, on, pend, left, sev, age, tried, notify>>
    BY <1>5 DEF Alert!FlushClearFails, Alert!queue
  <2>2. Alert!TypeOK'
    BY <1>0, <2>1, AlertRecords DEF Alert!TypeOK, FlushRecords
  <2>3. BatchInv'
    BY <2>1, AlertRecords DEF BatchInv, Alert!IdleFlush
  <2>4. UrgentInv'
    BY <1>0, <2>1 DEF UrgentInv, Alert!Bypasses
  <2> QED
    BY <2>2, <2>3, <2>4 DEF AlertInv
<1> QED
  BY <1>1, <1>2, <1>3, <1>4, <1>5

\* Every step keeps the invariant, the clock's and the operator's too.
LEMMA AlertSteps ==
    ASSUME Alert!ScheduleAssumption, AlertInv, [Alert!Next]_(Alert!vars)
    PROVE  AlertInv'
<1>0. /\ Alert!TypeOK /\ BatchInv /\ UrgentInv /\ notify \in NotifyRecords /\ flush \in FlushRecords
      /\ DigestWindow \in Nat /\ Day \in Nat \ {0} /\ clock \in 0 .. Day - 1
      /\ notify.e \in Events /\ notify.flushAt \in Nat
  BY DEF AlertInv, Alert!TypeOK, NotifyRecords, FlushRecords, Alert!ScheduleAssumption
<1>1. CASE UNCHANGED Alert!vars
  BY <1>0, <1>1 DEF AlertInv, Alert!vars, Alert!TypeOK, BatchInv, UrgentInv, Alert!Bypasses, Alert!IdleFlush
<1>2. CASE Alert!Tick
  <2>1. (clock + 1) % Day \in 0 .. Day - 1
    <3>1. PICK x \in Nat : x = clock + 1 /\ x < Day + Day
      BY <1>0
    <3>2. x % Day = IF x < Day THEN x ELSE x - Day
      BY <1>0, <3>1, DayFold
    <3> QED
      BY <1>0, <3>1, <3>2
  <2>2. /\ clock' \in 0 .. Day - 1 /\ UNCHANGED <<quiet, on, pend, sev, tried, flush>>
        /\ left' \in [Events -> Nat] /\ \A e \in Events : left'[e] <= left[e]
        /\ age' \in [Events -> 0 .. DigestWindow]
    BY <1>0, <1>2, <2>1 DEF Alert!Tick, Alert!TypeOK
  <2> DEFINE k == IF notify.at \in {"join", "add"} /\ notify.flushAt > 0 THEN notify.flushAt - 1 ELSE notify.flushAt
  <2>3. k \in Nat /\ k <= notify.flushAt /\ notify' = [notify EXCEPT !.flushAt = k]
    BY <1>0, <1>2 DEF Alert!Tick
  <2> HIDE DEF k
  <2>4. PICK n \in NotifyRecords : n = [notify EXCEPT !.flushAt = k]
    BY <1>0, <2>3, AlertRecords
  <2>5. notify' = n /\ n.at = notify.at /\ n.e = notify.e /\ n.flushAt = k
    BY <1>0, <2>3, <2>4 DEF NotifyRecords
  <2>6. Alert!TypeOK'
    BY <1>0, <2>2, <2>5 DEF Alert!TypeOK, NotifyRecords
  <2>7. BatchInv'
    BY <1>0, <2>2 DEF BatchInv, Alert!IdleFlush
  <2>8. UrgentInv'
    <3>1. pend \subseteq Events /\ left \in [Events -> Nat]
      BY <1>0 DEF Alert!TypeOK
    <3>2. ASSUME NEW e \in pend', Alert!Bypasses(sev'[e]) PROVE left'[e] <= DigestWindow
      <4>1. e \in Events /\ e \in pend /\ Alert!Bypasses(sev[e])
        BY <2>2, <3>1, <3>2
      <4>2. left[e] <= DigestWindow /\ left[e] \in Nat /\ left'[e] \in Nat /\ left'[e] <= left[e]
        BY <1>0, <2>2, <3>1, <4>1 DEF UrgentInv
      <4> QED
        BY <1>0, <4>2
    <3>3. notify'.at \in {"join", "add"} /\ Alert!Bypasses(sev'[notify'.e]) => notify'.flushAt <= DigestWindow
      BY <1>0, <2>2, <2>3, <2>5 DEF UrgentInv
    <3> QED
      BY <1>0, <2>2, <2>5, <3>2, <3>3 DEF UrgentInv, Alert!Bypasses
  <2> QED
    BY <2>6, <2>7, <2>8 DEF AlertInv
<1>3. CASE Alert!RuleTurned
  <2>1. on' \in BOOLEAN /\ UNCHANGED <<clock, quiet, pend, left, sev, age, tried, notify, flush>>
    BY <1>3 DEF Alert!RuleTurned, Alert!queue
  <2> QED
    BY <1>0, <2>1 DEF AlertInv, Alert!TypeOK, BatchInv, UrgentInv, Alert!Bypasses, Alert!IdleFlush
<1>4. CASE Alert!Restart
  <2>1. notify' = Alert!IdleNotify /\ flush' = Alert!IdleFlush /\ UNCHANGED <<clock, quiet, on, pend, left, sev, age, tried>>
    BY <1>4 DEF Alert!Restart, Alert!queue
  <2>2. Alert!TypeOK'
    BY <1>0, <2>1, AlertRecords DEF Alert!TypeOK, NotifyRecords, FlushRecords
  <2>3. BatchInv'
    BY <2>1, AlertRecords DEF BatchInv, Alert!IdleFlush
  <2>4. UrgentInv'
    BY <1>0, <2>1, AlertRecords DEF UrgentInv, Alert!Bypasses
  <2> QED
    BY <2>2, <2>3, <2>4 DEF AlertInv
<1> QED
  BY <1>1, <1>2, <1>3, <1>4, NotifyCallKeeps, FlushKeeps DEF Alert!Next

\* Nothing is queued and no call is under way.
LEMMA AlertStarts == ASSUME Alert!ScheduleAssumption, Alert!Init PROVE AlertInv
<1>0. Alert!IdleNotify \in NotifyRecords /\ Alert!IdleFlush \in FlushRecords
  BY AlertRecords
<1>1. Alert!TypeOK
  BY <1>0 DEF Alert!Init, Alert!TypeOK, NotifyRecords, FlushRecords, Alert!Severity, Alert!ScheduleAssumption
<1>2. BatchInv /\ UrgentInv
  BY AlertRecords DEF Alert!Init, BatchInv, UrgentInv
<1> QED
  BY <1>1, <1>2 DEF AlertInv

\* For every quiet window, day length and digest window: quiet hours end at the
\* first minute outside them, and an error that bypasses them is never queued for
\* longer than the digest window, even when it joins a queue that waits
\* (QuietHours.NextEnd, Scheduler.Decide, Notify).
THEOREM HeldRight == ASSUME Alert!ScheduleAssumption PROVE Alert!Spec => []Alert!ReceiverIsTold
<1>1. Alert!Init => AlertInv
  BY AlertStarts
<1>2. AlertInv /\ [Alert!Next]_(Alert!vars) => AlertInv'
  BY AlertSteps
<1>3. AlertInv => Alert!ReceiverIsTold
  <2>1. AlertInv => Alert!QuietEndIsFirstOutside
    BY QuietEnd DEF AlertInv
  <2>2. AlertInv => Alert!UrgentIsNotHeld
    BY DEF AlertInv, UrgentInv, Alert!UrgentIsNotHeld
  <2> QED
    BY <2>1, <2>2 DEF Alert!ReceiverIsTold
<1> QED
  BY <1>1, <1>2, <1>3, PTL DEF Alert!Spec

\* The queue, the clock and the two calls have their types.
THEOREM AlertTypes == ASSUME Alert!ScheduleAssumption PROVE Alert!Spec => []Alert!TypeOK
<1>1. Alert!Init => AlertInv
  BY AlertStarts
<1>2. AlertInv /\ [Alert!Next]_(Alert!vars) => AlertInv'
  BY AlertSteps
<1>3. AlertInv => Alert!TypeOK
  BY DEF AlertInv
<1> QED
  BY <1>1, <1>2, <1>3, PTL DEF Alert!Spec

\* A queued alert leaves the queue only after a delivery of it was attempted or
\* its rule was found disabled, whatever arrives, fails or restarts while the
\* batch is on its way (Flush, Clear).
THEOREM HeldNotDropped == ASSUME Alert!ScheduleAssumption PROVE Alert!Spec => [][Alert!DeferredNotDropped]_(Alert!vars)
<1>1. Alert!Init => AlertInv
  BY AlertStarts
<1>2. AlertInv /\ [Alert!Next]_(Alert!vars) => AlertInv'
  BY AlertSteps
<1>3. AlertInv /\ [Alert!Next]_(Alert!vars) => [Alert!DeferredNotDropped]_(Alert!vars)
  <2> SUFFICES ASSUME AlertInv, Alert!Next PROVE Alert!DeferredNotDropped
    OBVIOUS
  <2>1. CASE Alert!FlushClears
    BY <2>1 DEF Alert!FlushClears, AlertInv, BatchInv, Alert!DeferredNotDropped
  <2>2. CASE ~Alert!FlushClears
    <3>1. pend \subseteq pend'
      BY <2>2 DEF Alert!Next, Alert!NotifyBegins, Alert!Decide, Alert!Join, Alert!Hold, Alert!DeliverNow, Alert!FlushBegins,
                  Alert!FlushDelivers, Alert!FlushDiscards, Alert!FlushClearFails, Alert!Tick, Alert!RuleTurned,
                  Alert!Restart, Alert!queue
    <3> QED
      BY <3>1 DEF Alert!DeferredNotDropped
  <2> QED
    BY <2>1, <2>2
<1> QED
  BY <1>1, <1>2, <1>3, PTL DEF Alert!Spec

=============================================================================
