---------------------------- MODULE ControlProofs ----------------------------
(***************************************************************************)
(* Theorems about the services through which people and documents ask for  *)
(* changes: scheduled applies, proposals to git, review gates, the locks   *)
(* of drafts and the mirror sessions. They share no state, and every       *)
(* theorem is about one of them; declarations of the same name in two      *)
(* components serve both. Each part starts with the invariant that is      *)
(* inductive for its component.                                            *)
(***************************************************************************)
EXTENDS Integers, Sequences, FiniteSets, FiniteSetTheorems, TLAPS

CONSTANTS Changesets, Tickers, Windows, ServiceTimeout, MinTimeout, MaxTimeout,
          MaxTime, MaxCrashes, None

VARIABLES now, status, ops, lock, apply, row, request, tick, up, crashes

Sched == INSTANCE Scheduler

-----------------------------------------------------------------------------
(* Scheduler: ticks that work on copies of the rows. *)

ApplyRecords == [by : {None, "user", "schedule"}, at : Int, ops : {"plain", "mgmt"}, deadline : Int,
                 win : Windows \cup {None}, missed : BOOLEAN]
RowRecords == [status : Sched!RowStatus, win : Windows \cup {None}]
TickRecords == [pc : {"idle", "scan", "gate", "apply", "run", "resolve"}, now : Int,
                todo : SUBSET (Changesets \X Windows), cs : Changesets \cup {None},
                win : Windows \cup {None}, from : Int, missed : BOOLEAN, timeout : Int,
                result : {"none", "fired", "blocked", "failed"}]

\* A fire is of one row, and ends with a status for it.
FireShape(r) ==
    /\ r.pc \in {"gate", "apply", "run", "resolve"} => r.cs \in Changesets /\ r.win \in Windows
    /\ r.pc = "resolve" => r.result # "none"

ScheduleShape ==
    /\ Sched!TypeOK
    /\ apply \in [Changesets -> ApplyRecords]
    /\ row \in [Changesets -> RowRecords]
    /\ request \in [Changesets -> Windows \cup {None}]
    /\ tick \in [Tickers -> TickRecords]
    /\ \A t \in Tickers : FireShape(tick[t])

\* An apply by the schedule ends the changeset's time as a draft, so no later
\* apply replaces the record of it.
ScheduledIsFinal ==
    \A c \in Changesets : apply[c].by = "schedule" => ~Sched!Editable(status[c])

\* A tick between the start of its apply and the resolution of its row.
FireIsApplied ==
    \A t \in Tickers :
        \/ tick[t].pc = "run"
        \/ tick[t].pc = "resolve" /\ tick[t].result = "fired"
        => apply[tick[t].cs].by = "schedule"

ScheduleInv == ScheduleShape /\ ScheduledIsFinal /\ FireIsApplied /\ Sched!FiredIsApplied

\* A tick that changes one goroutine's record and no apply keeps the invariant
\* when the new record is one of a fire that is true.
LEMMA TickMoves ==
    ASSUME ScheduleInv, NEW t \in Tickers, NEW r \in TickRecords,
           tick' = [tick EXCEPT ![t] = r],
           FireShape(r),
           r.pc = "run" \/ (r.pc = "resolve" /\ r.result = "fired") => apply'[r.cs].by = "schedule",
           \A c \in Changesets : apply[c].by = "schedule" => apply'[c].by = "schedule"
    PROVE  /\ tick' \in [Tickers -> TickRecords]
           /\ \A u \in Tickers : FireShape(tick'[u])
           /\ FireIsApplied'
<1>1. tick \in [Tickers -> TickRecords]
  BY DEF ScheduleInv, ScheduleShape
<1>2. \A u \in Tickers : tick'[u] = IF u = t THEN r ELSE tick[u]
  BY <1>1
<1>3. tick' \in [Tickers -> TickRecords]
  BY <1>1, <1>2
<1>4. \A u \in Tickers : FireShape(tick'[u])
  BY <1>2 DEF ScheduleInv, ScheduleShape
<1>5. FireIsApplied'
  <2> SUFFICES ASSUME NEW u \in Tickers,
                      tick'[u].pc = "run" \/ (tick'[u].pc = "resolve" /\ tick'[u].result = "fired")
               PROVE  apply'[tick'[u].cs].by = "schedule"
    BY DEF FireIsApplied
  <2>1. CASE u = t
    BY <2>1, <1>2
  <2>2. CASE u # t
    <3>1. tick'[u] = tick[u]
      BY <2>2, <1>2
    <3>2. tick[u].cs \in Changesets
      BY <3>1 DEF ScheduleInv, ScheduleShape, FireShape
    <3> QED
      BY <3>1, <3>2 DEF ScheduleInv, FireIsApplied
  <2> QED
    BY <2>1, <2>2
<1> QED
  BY <1>3, <1>4, <1>5

\* A row is resolved at most from pending, to what the tick resolved it with.
LEMMA ResolvedRows ==
    ASSUME ScheduleShape, NEW c \in Changesets, NEW s \in Sched!RowStatus \ {"none"},
           row' = Sched!Resolved(c, s)
    PROVE  /\ row' \in [Changesets -> RowRecords]
           /\ \A d \in Changesets : row'[d].status # "none" <=> row'[d].win \in Windows
           /\ \A d \in Changesets : row'[d].status = "fired" => row[d].status = "fired" \/ (d = c /\ s = "fired")
<1>1. row \in [Changesets -> RowRecords]
  BY DEF ScheduleShape
<1>2. \A d \in Changesets : row[d].status # "none" <=> row[d].win \in Windows
  BY DEF ScheduleShape, Sched!TypeOK
<1>3. CASE row[c].status = "pending"
  <2>1. row' = [row EXCEPT ![c].status = s]
    BY <1>3 DEF Sched!Resolved
  <2>2. \A d \in Changesets : row'[d] = IF d = c THEN [row[c] EXCEPT !.status = s] ELSE row[d]
    BY <1>1, <2>1
  <2>3. row[c] \in RowRecords
    BY <1>1
  <2>4. [row[c] EXCEPT !.status = s] \in RowRecords /\ [row[c] EXCEPT !.status = s].status = s
        /\ [row[c] EXCEPT !.status = s].win = row[c].win
    BY <2>3 DEF RowRecords
  <2>5. row' \in [Changesets -> RowRecords]
    BY <1>1, <2>1, <2>4
  <2> QED
    BY <2>2, <2>4, <2>5, <1>2, <1>3
<1>4. CASE row[c].status # "pending"
  BY <1>1, <1>2, <1>4 DEF Sched!Resolved
<1> QED
  BY <1>3, <1>4

\* What a step of Begin leaves.
LEMMA BeginMoves ==
    ASSUME Sched!SettingsAssumption, ScheduleInv, NEW c \in Changesets, NEW by \in {"user", "schedule"},
           NEW timeout \in Int, NEW win \in Windows \cup {None}, NEW missed \in BOOLEAN,
           Sched!Begin(c, by, timeout, win, missed)
    PROVE  /\ lock' \in Changesets
           /\ status' \in [Changesets -> Sched!Status]
           /\ apply' \in [Changesets -> ApplyRecords]
           /\ apply'[c].by = by
           /\ \A d \in Changesets : apply[d].by = "schedule" => apply'[d].by = "schedule"
           /\ ScheduledIsFinal'
<1> DEFINE new == [by |-> by, at |-> now, ops |-> ops[c], deadline |-> now + Sched!Clamped(timeout),
                   win |-> win, missed |-> missed]
<1>1. /\ apply \in [Changesets -> ApplyRecords] /\ status \in [Changesets -> Sched!Status]
      /\ now \in Int /\ ops[c] \in {"plain", "mgmt"}
  BY DEF ScheduleInv, ScheduleShape, Sched!TypeOK, Sched!SettingsAssumption
<1>2. Sched!Clamped(timeout) \in Int
  BY DEF Sched!Clamped, Sched!SettingsAssumption
<1>3. new \in ApplyRecords
  BY <1>1, <1>2 DEF ApplyRecords
<1>4. new.by = by
  OBVIOUS
<1>5. apply' = [apply EXCEPT ![c] = new]
  BY DEF Sched!Begin
<1> HIDE DEF new
<1>6. \A d \in Changesets : apply'[d] = IF d = c THEN new ELSE apply[d]
  BY <1>1, <1>5
<1>7. apply' \in [Changesets -> ApplyRecords]
  BY <1>1, <1>3, <1>5
<1>8. /\ Sched!Editable(status[c]) /\ lock' = c
      /\ status' = [status EXCEPT ![c] = "applying"]
  BY DEF Sched!Begin
<1>9. /\ status' \in [Changesets -> Sched!Status]
      /\ \A d \in Changesets : status'[d] = IF d = c THEN "applying" ELSE status[d]
  BY <1>1, <1>8 DEF Sched!Status
<1>10. apply[c].by # "schedule"
  BY <1>8 DEF ScheduleInv, ScheduledIsFinal
<1>11. ScheduledIsFinal'
  <2> SUFFICES ASSUME NEW d \in Changesets, apply'[d].by = "schedule"
               PROVE  ~Sched!Editable(status'[d])
    BY DEF ScheduledIsFinal, Sched!Editable
  <2>1. CASE d = c
    BY <2>1, <1>9 DEF Sched!Editable
  <2>2. CASE d # c
    BY <2>2, <1>6, <1>9 DEF ScheduleInv, ScheduledIsFinal
  <2> QED
    BY <2>1, <2>2
<1> QED
  BY <1>4, <1>6, <1>7, <1>8, <1>9, <1>10, <1>11

\* What the end of an executor leaves.
LEMMA RanMoves ==
    ASSUME ScheduleInv, NEW c \in Changesets, NEW ok \in BOOLEAN, Sched!Ran(c, ok), apply' = apply
    PROVE  /\ lock' \in Changesets \cup {None}
           /\ status' \in [Changesets -> Sched!Status]
           /\ ScheduledIsFinal'
<1>1. status \in [Changesets -> Sched!Status] /\ lock \in Changesets \cup {None}
  BY DEF ScheduleInv, ScheduleShape, Sched!TypeOK
<1>2. \A d \in Changesets : status'[d] = IF d = c THEN (IF ok THEN "awaiting_confirm" ELSE "failed") ELSE status[d]
  BY <1>1 DEF Sched!Ran
<1>3. status' \in [Changesets -> Sched!Status]
  BY <1>1 DEF Sched!Ran, Sched!Status
<1>4. ScheduledIsFinal'
  BY <1>2 DEF ScheduleInv, ScheduledIsFinal, Sched!Editable
<1> QED
  BY <1>1, <1>3, <1>4 DEF Sched!Ran

\* The invariant holds of every step of the scheduler and of its clients.
LEMMA ScheduleInduction ==
    ASSUME Sched!SettingsAssumption
    PROVE  Sched!Spec => []ScheduleInv
<1>1. Sched!Init => ScheduleInv
  <2> SUFFICES ASSUME Sched!Init PROVE ScheduleInv
    OBVIOUS
  <2> USE DEF Sched!Init, Sched!NoApply, Sched!NoRow, Sched!IdleTick
  <2>1. Sched!TypeOK
    BY DEF Sched!TypeOK, Sched!Status, Sched!RowStatus, Sched!SettingsAssumption
  <2>2. apply \in [Changesets -> ApplyRecords] /\ row \in [Changesets -> RowRecords]
    BY DEF ApplyRecords, RowRecords, Sched!RowStatus
  <2>3. tick \in [Tickers -> TickRecords] /\ request \in [Changesets -> Windows \cup {None}]
    BY DEF TickRecords
  <2>4. \A t \in Tickers : tick[t].pc = "idle"
    OBVIOUS
  <2>5. ScheduleShape
    BY <2>1, <2>2, <2>3, <2>4 DEF ScheduleShape, FireShape
  <2>6. FireIsApplied
    BY <2>4 DEF FireIsApplied
  <2>7. ScheduledIsFinal /\ Sched!FiredIsApplied
    BY DEF ScheduledIsFinal, Sched!FiredIsApplied, Sched!SettingsAssumption
  <2> QED
    BY <2>5, <2>6, <2>7 DEF ScheduleInv
<1>2. ScheduleInv /\ [Sched!Next]_(Sched!vars) => ScheduleInv'
  <2> SUFFICES ASSUME ScheduleInv, [Sched!Next]_(Sched!vars) PROVE ScheduleInv'
    OBVIOUS
  <2>0. /\ ScheduleShape /\ ScheduledIsFinal /\ FireIsApplied /\ Sched!FiredIsApplied /\ Sched!TypeOK
        /\ apply \in [Changesets -> ApplyRecords] /\ row \in [Changesets -> RowRecords]
        /\ request \in [Changesets -> Windows \cup {None}] /\ tick \in [Tickers -> TickRecords]
        /\ status \in [Changesets -> Sched!Status]
    BY DEF ScheduleInv, ScheduleShape, Sched!TypeOK
  <2>a. ASSUME NEW c \in Changesets, NEW w \in Windows, Sched!ScheduleCheck(c, w)
        PROVE  ScheduleInv'
    <3>1. request' \in [Changesets -> Windows \cup {None}]
      BY <2>0, <2>a DEF Sched!ScheduleCheck
    <3>2. ScheduleShape'
      BY <2>0, <2>a, <3>1 DEF ScheduleShape, Sched!TypeOK, Sched!ScheduleCheck
    <3> QED
      BY <2>0, <2>a, <3>2 DEF ScheduleInv, ScheduledIsFinal, FireIsApplied, Sched!FiredIsApplied, Sched!ScheduleCheck
  <2>b. ASSUME NEW c \in Changesets, Sched!ScheduleUpsert(c)
        PROVE  ScheduleInv'
    <3> DEFINE new == [status |-> "pending", win |-> request[c]]
    <3>1. request[c] \in Windows
      BY <2>0, <2>b DEF Sched!ScheduleUpsert
    <3>2. request' \in [Changesets -> Windows \cup {None}]
      BY <2>0, <2>b DEF Sched!ScheduleUpsert
    <3>3. new \in RowRecords /\ new.status = "pending" /\ new.win \in Windows
      BY <3>1 DEF RowRecords, Sched!RowStatus
    <3>4. row' = [row EXCEPT ![c] = new]
      BY <2>b DEF Sched!ScheduleUpsert
    <3> HIDE DEF new
    <3>5. \A d \in Changesets : row'[d] = IF d = c THEN new ELSE row[d]
      BY <2>0, <3>4
    <3>6. row' \in [Changesets -> RowRecords]
      BY <2>0, <3>3, <3>4
    <3>7. UNCHANGED <<now, status, ops, lock, apply, tick, up, crashes>>
      BY <2>b DEF Sched!ScheduleUpsert
    <3>8. Sched!TypeOK'
      BY <2>0, <3>2, <3>3, <3>5, <3>6, <3>7 DEF Sched!TypeOK, RowRecords
    <3>9. ScheduleShape'
      BY <2>0, <3>2, <3>6, <3>7, <3>8 DEF ScheduleShape
    <3>10. Sched!FiredIsApplied'
      BY <2>0, <3>3, <3>5, <3>7 DEF Sched!FiredIsApplied
    <3> QED
      BY <2>0, <3>7, <3>9, <3>10 DEF ScheduleInv, ScheduledIsFinal, FireIsApplied
  <2>c. ASSUME NEW c \in Changesets, Sched!CancelSchedule(c)
        PROVE  ScheduleInv'
    <3>1. row' = Sched!Resolved(c, "cancelled")
      BY <2>c DEF Sched!CancelSchedule, Sched!Resolved
    <3>2. UNCHANGED <<now, status, ops, lock, apply, request, tick, up, crashes>>
      BY <2>c DEF Sched!CancelSchedule
    <3>3. /\ row' \in [Changesets -> RowRecords]
          /\ \A d \in Changesets : row'[d].status # "none" <=> row'[d].win \in Windows
          /\ \A d \in Changesets : row'[d].status = "fired" => row[d].status = "fired"
      BY <2>0, <3>1, ResolvedRows DEF Sched!RowStatus
    <3>4. Sched!TypeOK'
      BY <2>0, <3>2, <3>3 DEF Sched!TypeOK, RowRecords
    <3>5. ScheduleShape'
      BY <2>0, <3>2, <3>3, <3>4 DEF ScheduleShape
    <3> QED
      BY <2>0, <3>2, <3>3, <3>5 DEF ScheduleInv, ScheduledIsFinal, FireIsApplied, Sched!FiredIsApplied
  <2>d. ASSUME NEW c \in Changesets, Sched!EditOps(c)
        PROVE  ScheduleInv'
    <3>1. ops' \in [Changesets -> {"plain", "mgmt"}]
      BY <2>0, <2>d DEF Sched!EditOps, Sched!TypeOK
    <3>2. UNCHANGED <<now, status, lock, apply, row, request, tick, up, crashes>>
      BY <2>d DEF Sched!EditOps
    <3>3. ScheduleShape'
      BY <2>0, <3>1, <3>2 DEF ScheduleShape, Sched!TypeOK
    <3> QED
      BY <2>0, <3>2, <3>3 DEF ScheduleInv, ScheduledIsFinal, FireIsApplied, Sched!FiredIsApplied
  <2>e. ASSUME NEW c \in Changesets, NEW s \in {"discarded", "committed", "rolled_back"},
               status' = [status EXCEPT ![c] = s], lock' \in {lock, None},
               UNCHANGED <<now, ops, apply, row, request, tick, up, crashes>>
        PROVE  ScheduleInv'
    <3>1. status' \in [Changesets -> Sched!Status]
      BY <2>0, <2>e DEF Sched!Status
    <3>2. \A d \in Changesets : status'[d] = IF d = c THEN s ELSE status[d]
      BY <2>0, <2>e
    <3>3. ScheduledIsFinal'
      BY <2>0, <2>e, <3>2 DEF ScheduledIsFinal, Sched!Editable
    <3>4. ScheduleShape'
      BY <2>0, <2>e, <3>1 DEF ScheduleShape, Sched!TypeOK
    <3> QED
      BY <2>0, <2>e, <3>3, <3>4 DEF ScheduleInv, FireIsApplied, Sched!FiredIsApplied
  <2>f. ASSUME NEW c \in Changesets, Sched!UserApply(c)
        PROVE  ScheduleInv'
    <3>1. Sched!Begin(c, "user", ServiceTimeout, None, FALSE)
          /\ UNCHANGED <<now, ops, row, request, tick, up, crashes>>
      BY <2>f DEF Sched!UserApply
    <3>2. ServiceTimeout \in Int /\ None \in Windows \cup {None} /\ FALSE \in BOOLEAN
      BY DEF Sched!SettingsAssumption
    <3>3. /\ lock' \in Changesets
          /\ status' \in [Changesets -> Sched!Status]
          /\ apply' \in [Changesets -> ApplyRecords]
          /\ \A d \in Changesets : apply[d].by = "schedule" => apply'[d].by = "schedule"
          /\ ScheduledIsFinal'
      BY <3>1, <3>2, BeginMoves
    <3>4. Sched!TypeOK'
      BY <2>0, <3>1, <3>3 DEF Sched!TypeOK, ApplyRecords
    <3>5. ScheduleShape'
      BY <2>0, <3>1, <3>3, <3>4 DEF ScheduleShape
    <3>6. FireIsApplied'
      BY <2>0, <3>1, <3>3 DEF FireIsApplied, ScheduleShape, FireShape
    <3>7. Sched!FiredIsApplied'
      BY <2>0, <3>1, <3>3 DEF Sched!FiredIsApplied
    <3> QED
      BY <3>3, <3>5, <3>6, <3>7 DEF ScheduleInv
  <2>g. ASSUME NEW c \in Changesets, Sched!UserApplyRan(c)
        PROVE  ScheduleInv'
    <3>1. PICK ok \in BOOLEAN : Sched!Ran(c, ok)
      BY <2>g DEF Sched!UserApplyRan
    <3>2. UNCHANGED <<now, ops, apply, row, request, tick, up, crashes>>
      BY <2>g DEF Sched!UserApplyRan
    <3>3. /\ lock' \in Changesets \cup {None}
          /\ status' \in [Changesets -> Sched!Status]
          /\ ScheduledIsFinal'
      BY <3>1, <3>2, RanMoves
    <3>4. ScheduleShape'
      BY <2>0, <3>2, <3>3 DEF ScheduleShape, Sched!TypeOK
    <3> QED
      BY <2>0, <3>2, <3>3, <3>4 DEF ScheduleInv, FireIsApplied, Sched!FiredIsApplied
  \* A tick between two of its host calls: nothing but its record moves.
  <2>h. ASSUME NEW t \in Tickers, NEW r \in TickRecords, tick' = [tick EXCEPT ![t] = r],
               FireShape(r),
               r.pc # "run", r.pc = "resolve" => r.result # "fired",
               UNCHANGED <<now, status, ops, lock, apply, row, request, up, crashes>>
        PROVE  ScheduleInv'
    <3>1. /\ tick' \in [Tickers -> TickRecords]
          /\ \A u \in Tickers : FireShape(tick'[u])
          /\ FireIsApplied'
      BY <2>h, TickMoves
    <3>2. \A u \in Tickers : tick'[u].pc \in {"idle", "scan", "gate", "apply", "run", "resolve"}
      BY <3>1 DEF TickRecords
    <3>3. ScheduleShape'
      BY <2>0, <2>h, <3>1, <3>2 DEF ScheduleShape, Sched!TypeOK
    <3> QED
      BY <2>0, <2>h, <3>1, <3>3 DEF ScheduleInv, ScheduledIsFinal, Sched!FiredIsApplied
  <2>i. ASSUME NEW t \in Tickers, Sched!TickSchedules(t)
        PROVE  ScheduleInv'
    <3> DEFINE listed == {<<c, row[c].win>> : c \in {d \in Changesets : row[d].status = "pending"}}
               r == [tick[t] EXCEPT !.pc = "scan", !.now = now, !.todo = listed]
    <3>1. listed \in SUBSET (Changesets \X Windows)
      BY <2>0 DEF Sched!TypeOK
    <3>2. now \in Int
      BY <2>0 DEF Sched!TypeOK
    <3>3. tick' = [tick EXCEPT ![t] = r]
      BY <2>0, <2>i DEF Sched!TickSchedules
    <3> HIDE DEF listed
    <3>4. r \in TickRecords /\ r.pc = "scan"
      BY <2>0, <3>1, <3>2 DEF TickRecords
    <3> HIDE DEF r
    <3> QED
      BY <2>h, <2>i, <3>3, <3>4 DEF Sched!TickSchedules, FireShape
  \* One listed row: fired, given up, or left for later.
  <2>j. ASSUME NEW t \in Tickers, Sched!TickNext(t)
        PROVE  ScheduleInv'
    <3>1. PICK p \in tick[t].todo :
            LET c == p[1]  w == p[2]
                rest == tick[t].todo \ {p}
                fire(from, missed) ==
                   [tick EXCEPT ![t].pc = "gate", ![t].todo = rest, ![t].cs = c, ![t].win = w,
                                ![t].from = from, ![t].missed = missed]
            IN
            \/ tick' = fire(w.start, FALSE) /\ UNCHANGED row
            \/ tick' = fire(now, TRUE) /\ UNCHANGED row
            \/ Sched!SkipMissed(t, c)
            \/ /\ tick' = [tick EXCEPT ![t].todo = rest, ![t].pc = IF rest = {} THEN "idle" ELSE "scan"]
               /\ UNCHANGED row
      BY <2>j DEF Sched!TickNext
    <3> DEFINE c == p[1]
               w == p[2]
               rest == tick[t].todo \ {p}
               fired(from, missed) == [tick[t] EXCEPT !.pc = "gate", !.todo = rest, !.cs = c, !.win = w,
                                                     !.from = from, !.missed = missed]
               left == [tick[t] EXCEPT !.todo = rest, !.pc = IF rest = {} THEN "idle" ELSE "scan"]
    <3>2. tick[t] \in TickRecords
      BY <2>0
    <3>3. tick[t].todo \in SUBSET (Changesets \X Windows)
      BY <3>2 DEF TickRecords
    <3>4. c \in Changesets /\ w \in Windows /\ rest \in SUBSET (Changesets \X Windows)
      BY <3>3
    <3>5. w.start \in Int /\ now \in Int
      BY <2>0, <3>4 DEF Sched!TypeOK, Sched!SettingsAssumption
    <3>6. UNCHANGED <<now, status, ops, lock, apply, request, up, crashes>>
      BY <2>j DEF Sched!TickNext
    <3>7. \A from \in Int, missed \in BOOLEAN :
             /\ fired(from, missed) \in TickRecords /\ fired(from, missed).pc = "gate"
             /\ fired(from, missed).cs = c /\ fired(from, missed).win = w
      <4> HIDE DEF c, w, rest
      <4> QED
        BY <3>2, <3>4 DEF TickRecords
    <3>8. ASSUME NEW from \in Int, NEW missed \in BOOLEAN, UNCHANGED row,
                 tick' = [tick EXCEPT ![t].pc = "gate", ![t].todo = rest, ![t].cs = c, ![t].win = w,
                                      ![t].from = from, ![t].missed = missed]
          PROVE  ScheduleInv'
      <4>1. tick' = [tick EXCEPT ![t] = fired(from, missed)]
        BY <2>0, <3>8
      <4>2. /\ fired(from, missed) \in TickRecords /\ fired(from, missed).pc = "gate"
            /\ fired(from, missed).cs = c /\ fired(from, missed).win = w
        BY <3>7
      <4> DEFINE r == fired(from, missed)
      <4>3. r \in TickRecords /\ FireShape(r) /\ r.pc = "gate" /\ tick' = [tick EXCEPT ![t] = r]
        BY <3>4, <4>1, <4>2 DEF FireShape
      <4> HIDE DEF r
      <4> QED
        BY <2>h, <3>6, <3>8, <4>3
    <3>9. CASE UNCHANGED row /\ tick' = [tick EXCEPT ![t].todo = rest, ![t].pc = IF rest = {} THEN "idle" ELSE "scan"]
      <4>1. tick' = [tick EXCEPT ![t] = left]
        BY <2>0, <3>9
      <4>2. left \in TickRecords /\ left.pc \in {"idle", "scan"}
        <5> HIDE DEF c, w, rest
        <5> QED
          BY <3>2, <3>4 DEF TickRecords
      <4> HIDE DEF left
      <4> QED
        BY <2>h, <3>6, <3>9, <4>1, <4>2 DEF FireShape
    <3>10. CASE Sched!SkipMissed(t, c)
      <4> DEFINE others == {q \in tick[t].todo : q[1] # c}
                 pc == IF Sched!Cardinality(tick[t].todo) = 1 THEN "idle" ELSE "scan"
                 r == [tick[t] EXCEPT !.todo = others, !.pc = pc]
      <4>1. tick' = [tick EXCEPT ![t] = r]
        <5>1. tick' = [tick EXCEPT ![t].todo = others, ![t].pc = pc]
          BY <3>10 DEF Sched!SkipMissed
        <5> HIDE DEF others, pc
        <5> QED
          BY <2>0, <5>1
      <4>2. others \in SUBSET (Changesets \X Windows) /\ pc \in {"idle", "scan"}
        BY <3>3
      <4>3. r \in TickRecords /\ r.pc \in {"idle", "scan"}
        <5> HIDE DEF others, pc
        <5> QED
          BY <3>2, <4>2 DEF TickRecords
      <4>4. /\ row' \in [Changesets -> RowRecords]
            /\ \A d \in Changesets : row'[d].status # "none" <=> row'[d].win \in Windows
            /\ \A d \in Changesets : row'[d].status = "fired" => row[d].status = "fired"
        BY <2>0, <3>4, <3>10, ResolvedRows DEF Sched!RowStatus, Sched!SkipMissed
      <4> HIDE DEF r, c
      <4>5. /\ tick' \in [Tickers -> TickRecords]
            /\ \A u \in Tickers : FireShape(tick'[u])
            /\ FireIsApplied'
        BY <3>6, <4>1, <4>3, TickMoves DEF FireShape
      <4>6. \A u \in Tickers : tick'[u].pc \in {"idle", "scan", "gate", "apply", "run", "resolve"}
        BY <4>5 DEF TickRecords
      <4>7. Sched!TypeOK'
        BY <2>0, <3>6, <4>4, <4>6 DEF Sched!TypeOK, RowRecords
      <4>8. ScheduleShape'
        BY <2>0, <3>6, <4>4, <4>5, <4>7 DEF ScheduleShape
      <4> QED
        BY <2>0, <3>6, <4>4, <4>5, <4>8 DEF ScheduleInv, ScheduledIsFinal, Sched!FiredIsApplied
    <3> QED
      BY <3>1, <3>5, <3>8, <3>9, <3>10
  <2>k. ASSUME NEW t \in Tickers, Sched!FireGate(t) \/ Sched!FireRefused(t)
        PROVE  ScheduleInv'
    <3>0. tick[t] \in TickRecords /\ tick[t].cs \in Changesets /\ tick[t].win \in Windows
      BY <2>0, <2>k DEF Sched!FireGate, Sched!FireRefused, ScheduleShape, FireShape
    <3>1. UNCHANGED <<now, status, ops, lock, apply, row, request, up, crashes>>
      BY <2>k DEF Sched!FireGate, Sched!FireRefused
    <3>2. ASSUME NEW pc \in {"apply", "resolve"}, NEW result \in {"none", "failed", "blocked"}, NEW limit \in Int,
                 pc = "resolve" => result # "none",
                 tick' = [tick EXCEPT ![t].pc = pc, ![t].result = result, ![t].timeout = limit]
          PROVE  ScheduleInv'
      <4> DEFINE r == [tick[t] EXCEPT !.pc = pc, !.result = result, !.timeout = limit]
      <4>1. tick' = [tick EXCEPT ![t] = r]
        BY <2>0, <3>2
      <4>2. r \in TickRecords /\ r.pc = pc /\ r.result = result /\ r.cs = tick[t].cs /\ r.win = tick[t].win
        BY <3>0, <3>2 DEF TickRecords
      <4> HIDE DEF r
      <4> QED
        BY <2>h, <3>0, <3>1, <3>2, <4>1, <4>2 DEF FireShape
    <3>3. CASE Sched!FireGate(t)
      <4> DEFINE w == tick[t].win
                 remaining == w.end - tick[t].from
                 limit == IF w.timeout > remaining THEN remaining ELSE w.timeout
      <4>1. limit \in Int
        BY <3>0 DEF Sched!SettingsAssumption, TickRecords
      <4>2. \E pc \in {"apply", "resolve"}, result \in {"none", "failed", "blocked"} :
               /\ pc = "resolve" => result # "none"
               /\ tick' = [tick EXCEPT ![t].pc = pc, ![t].result = result, ![t].timeout = limit]
        BY <3>3 DEF Sched!FireGate
      <4> HIDE DEF limit
      <4> QED
        BY <3>2, <4>1, <4>2
    <3>4. CASE Sched!FireRefused(t)
      <4> DEFINE r == [tick[t] EXCEPT !.pc = "resolve", !.result = "blocked"]
      <4>1. tick' = [tick EXCEPT ![t] = r]
        BY <2>0, <3>4 DEF Sched!FireRefused
      <4>2. r \in TickRecords /\ r.pc = "resolve" /\ r.result = "blocked" /\ r.cs = tick[t].cs /\ r.win = tick[t].win
        BY <3>0 DEF TickRecords
      <4> HIDE DEF r
      <4> QED
        BY <2>h, <3>0, <3>1, <4>1, <4>2 DEF FireShape
    <3> QED
      BY <2>k, <3>3, <3>4
  <2>l. ASSUME NEW t \in Tickers, Sched!FireApply(t)
        PROVE  ScheduleInv'
    <3> DEFINE c == tick[t].cs
               r == [tick[t] EXCEPT !.pc = "run"]
    <3>0. tick[t] \in TickRecords /\ c \in Changesets /\ tick[t].win \in Windows
      BY <2>0, <2>l DEF Sched!FireApply, ScheduleShape, FireShape
    <3>1. tick[t].timeout \in Int /\ tick[t].win \in Windows \cup {None} /\ tick[t].missed \in BOOLEAN
      BY <3>0 DEF TickRecords
    <3>2. Sched!Begin(c, "schedule", tick[t].timeout, tick[t].win, tick[t].missed)
      BY <2>l DEF Sched!FireApply
    <3>3. /\ lock' \in Changesets
          /\ status' \in [Changesets -> Sched!Status]
          /\ apply' \in [Changesets -> ApplyRecords]
          /\ apply'[c].by = "schedule"
          /\ \A d \in Changesets : apply[d].by = "schedule" => apply'[d].by = "schedule"
          /\ ScheduledIsFinal'
      <4> HIDE DEF c
      <4> QED
        BY <3>0, <3>1, <3>2, BeginMoves
    <3>4. tick' = [tick EXCEPT ![t] = r] /\ UNCHANGED <<now, ops, row, request, up, crashes>>
      BY <2>0, <2>l DEF Sched!FireApply
    <3>5. r \in TickRecords /\ r.pc = "run" /\ r.cs = c /\ r.win = tick[t].win
      BY <3>0 DEF TickRecords
    <3> HIDE DEF r, c
    <3>6. /\ tick' \in [Tickers -> TickRecords]
          /\ \A u \in Tickers : FireShape(tick'[u])
          /\ FireIsApplied'
      BY <3>0, <3>3, <3>4, <3>5, TickMoves DEF FireShape
    <3>7. \A u \in Tickers : tick'[u].pc \in {"idle", "scan", "gate", "apply", "run", "resolve"}
      BY <3>6 DEF TickRecords
    <3>8. Sched!TypeOK'
      BY <2>0, <3>3, <3>4, <3>7 DEF Sched!TypeOK, ApplyRecords
    <3>9. ScheduleShape'
      BY <2>0, <3>3, <3>4, <3>6, <3>8 DEF ScheduleShape
    <3>10. Sched!FiredIsApplied'
      BY <2>0, <3>3, <3>4 DEF Sched!FiredIsApplied
    <3> QED
      BY <3>3, <3>6, <3>9, <3>10 DEF ScheduleInv
  <2>m. ASSUME NEW t \in Tickers, Sched!FireRan(t)
        PROVE  ScheduleInv'
    <3> DEFINE c == tick[t].cs
               r(ok) == [tick[t] EXCEPT !.pc = "resolve", !.result = IF ok THEN "fired" ELSE "blocked"]
    <3>0. tick[t] \in TickRecords /\ c \in Changesets /\ tick[t].win \in Windows /\ apply[c].by = "schedule"
      BY <2>0, <2>m DEF Sched!FireRan, ScheduleShape, FireIsApplied, FireShape
    <3>1. PICK ok \in BOOLEAN : /\ Sched!Ran(c, ok)
                                /\ tick' = [tick EXCEPT ![t].pc = "resolve", ![t].result = IF ok THEN "fired" ELSE "blocked"]
      BY <2>m DEF Sched!FireRan
    <3>2. UNCHANGED <<now, ops, apply, row, request, up, crashes>>
      BY <2>m DEF Sched!FireRan
    <3>3. tick' = [tick EXCEPT ![t] = r(ok)]
      BY <2>0, <3>1
    <3>4. r(ok) \in TickRecords /\ r(ok).pc = "resolve" /\ r(ok).result # "none" /\ r(ok).cs = c /\ r(ok).win = tick[t].win
      BY <3>0 DEF TickRecords
    <3> HIDE DEF r, c
    <3>5. /\ lock' \in Changesets \cup {None}
          /\ status' \in [Changesets -> Sched!Status]
          /\ ScheduledIsFinal'
      BY <3>0, <3>1, <3>2, RanMoves
    <3>6. /\ tick' \in [Tickers -> TickRecords]
          /\ \A u \in Tickers : FireShape(tick'[u])
          /\ FireIsApplied'
      BY <3>0, <3>2, <3>3, <3>4, TickMoves DEF FireShape
    <3>7. \A u \in Tickers : tick'[u].pc \in {"idle", "scan", "gate", "apply", "run", "resolve"}
      BY <3>6 DEF TickRecords
    <3>8. ScheduleShape'
      BY <2>0, <3>2, <3>5, <3>6, <3>7 DEF ScheduleShape, Sched!TypeOK
    <3> QED
      BY <2>0, <3>2, <3>5, <3>6, <3>8 DEF ScheduleInv, Sched!FiredIsApplied
  <2>n. ASSUME NEW t \in Tickers, Sched!FireResolve(t)
        PROVE  ScheduleInv'
    <3> DEFINE c == tick[t].cs
               s == tick[t].result
               r == Sched!Continue(t)
    <3>0. tick[t] \in TickRecords /\ c \in Changesets /\ tick[t].win \in Windows /\ tick[t].pc = "resolve"
      BY <2>0, <2>n DEF Sched!FireResolve, ScheduleShape, FireShape
    <3>1. UNCHANGED <<now, status, ops, lock, apply, request, up, crashes>> /\ tick' = [tick EXCEPT ![t] = r]
          /\ row' = Sched!Resolved(c, s)
      BY <2>n DEF Sched!FireResolve, Sched!Outcome
    <3>2. r \in TickRecords /\ r.pc \in {"idle", "scan"}
      <4>1. tick[t].now \in Int /\ tick[t].todo \in SUBSET (Changesets \X Windows)
        BY <3>0 DEF TickRecords
      <4>2. Sched!IdleTick \in TickRecords
        BY DEF Sched!IdleTick, TickRecords
      <4>3. PICK i \in TickRecords : i = Sched!IdleTick
        BY <4>2
      <4>4. PICK b \in Int, d \in SUBSET (Changesets \X Windows) : b = tick[t].now /\ d = tick[t].todo
        BY <4>1
      <4>5. PICK a \in {"idle", "scan"} : a = IF d = {} THEN "idle" ELSE "scan"
        OBVIOUS
      <4>6. r = [i EXCEPT !.pc = a, !.now = b, !.todo = d]
        BY <4>3, <4>4, <4>5 DEF Sched!Continue
      <4> HIDE DEF r
      <4> QED
        BY <4>6 DEF TickRecords
    <3>3. s = "fired" => apply[c].by = "schedule"
      BY <2>0, <3>0 DEF FireIsApplied
    <3>4. s \in {"none", "fired", "blocked", "failed"}
      BY <3>0 DEF TickRecords
    <3>7. s # "none"
      BY <2>0, <3>0 DEF ScheduleShape, FireShape
    <3> HIDE DEF c, s, r
    <3>6. CASE s # "none"
      <4>4. /\ row' \in [Changesets -> RowRecords]
            /\ \A d \in Changesets : row'[d].status # "none" <=> row'[d].win \in Windows
            /\ \A d \in Changesets : row'[d].status = "fired" => row[d].status = "fired" \/ (d = c /\ s = "fired")
        BY <2>0, <3>0, <3>1, <3>4, <3>6, ResolvedRows DEF Sched!RowStatus
      <4>5. /\ tick' \in [Tickers -> TickRecords]
            /\ \A u \in Tickers : FireShape(tick'[u])
            /\ FireIsApplied'
        BY <3>1, <3>2, TickMoves DEF FireShape
      <4>6. \A u \in Tickers : tick'[u].pc \in {"idle", "scan", "gate", "apply", "run", "resolve"}
        BY <4>5 DEF TickRecords
      <4>7. Sched!TypeOK'
        BY <2>0, <3>1, <4>4, <4>6 DEF Sched!TypeOK, RowRecords
      <4>8. ScheduleShape'
        BY <2>0, <3>1, <4>4, <4>5, <4>7 DEF ScheduleShape
      <4> QED
        BY <2>0, <3>1, <3>3, <4>4, <4>5, <4>8 DEF ScheduleInv, ScheduledIsFinal, Sched!FiredIsApplied
    <3> QED
      BY <3>6, <3>7
  <2>o. CASE Sched!Advance
    <3>1. now' \in 0 .. MaxTime
      BY <2>0, <2>o DEF Sched!Advance, Sched!TypeOK, Sched!SettingsAssumption
    <3>2. UNCHANGED <<status, ops, lock, apply, row, request, tick, up, crashes>>
      BY <2>o DEF Sched!Advance
    <3>3. ScheduleShape'
      BY <2>0, <3>1, <3>2 DEF ScheduleShape, Sched!TypeOK
    <3> QED
      BY <2>0, <3>2, <3>3 DEF ScheduleInv, ScheduledIsFinal, FireIsApplied, Sched!FiredIsApplied
  <2>p. CASE Sched!Crash
    <3>1. UNCHANGED <<now, status, ops, apply, row>> /\ lock' = None /\ up' = FALSE
      BY <2>p DEF Sched!Crash
    <3>2. crashes' \in 0 .. MaxCrashes
      BY <2>0, <2>p DEF Sched!Crash, Sched!TypeOK, Sched!SettingsAssumption
    <3>3. request' \in [Changesets -> Windows \cup {None}]
      BY <2>p DEF Sched!Crash
    <3>4. tick' \in [Tickers -> TickRecords] /\ \A t \in Tickers : tick'[t].pc = "idle"
      BY <2>p DEF Sched!Crash, Sched!IdleTick, TickRecords
    <3>5. ScheduleShape'
      BY <2>0, <3>1, <3>2, <3>3, <3>4 DEF ScheduleShape, Sched!TypeOK, FireShape
    <3>6. FireIsApplied'
      BY <3>4 DEF FireIsApplied
    <3> QED
      BY <2>0, <3>1, <3>5, <3>6 DEF ScheduleInv, ScheduledIsFinal, Sched!FiredIsApplied
  <2>q. CASE Sched!Restart
    <3>1. UNCHANGED <<now, ops, apply, row, request, tick, crashes>> /\ up' = TRUE
      BY <2>q DEF Sched!Restart
    <3>2. /\ status' \in [Changesets -> Sched!Status]
          /\ \A c \in Changesets : status'[c] = IF status[c] = "applying" THEN "failed" ELSE status[c]
      BY <2>0, <2>q DEF Sched!Restart, Sched!Status
    <3>3. lock' \in Changesets \cup {None}
      BY <2>q DEF Sched!Restart
    <3>4. ScheduledIsFinal'
      BY <2>0, <3>1, <3>2 DEF ScheduledIsFinal, Sched!Editable
    <3>5. ScheduleShape'
      BY <2>0, <3>1, <3>2, <3>3 DEF ScheduleShape, Sched!TypeOK
    <3> QED
      BY <2>0, <3>1, <3>4, <3>5 DEF ScheduleInv, FireIsApplied, Sched!FiredIsApplied
  <2>r. CASE UNCHANGED Sched!vars
    BY <2>0, <2>r DEF ScheduleInv, ScheduleShape, Sched!TypeOK, ScheduledIsFinal, FireIsApplied,
       Sched!FiredIsApplied, Sched!vars
  <2>s. ASSUME NEW c \in Changesets, Sched!Discard(c) \/ Sched!Confirm(c) \/ Sched!RollBack(c)
        PROVE  ScheduleInv'
    BY <2>e, <2>s DEF Sched!Discard, Sched!Confirm, Sched!RollBack
  <2> QED
    BY <2>a, <2>b, <2>c, <2>d, <2>f, <2>g, <2>i, <2>j, <2>k, <2>l, <2>m, <2>n, <2>o, <2>p, <2>q, <2>r, <2>s
       DEF Sched!Next, Sched!TickStep
<1> QED
  BY <1>1, <1>2, PTL DEF Sched!Spec

\* The scheduler's state has its type for any windows, any number of ticking
\* goroutines and any number of crashes.
THEOREM ScheduleTypes ==
    ASSUME Sched!SettingsAssumption
    PROVE  Sched!Spec => []Sched!TypeOK
<1>1. ScheduleInv => Sched!TypeOK
  BY DEF ScheduleInv, ScheduleShape
<1> QED
  BY <1>1, ScheduleInduction, PTL

\* A row that says fired stands for an apply that the scheduler made, whatever
\* ticks, cancels, edits, reschedules, user applies and crashes came between.
THEOREM FiredRowsApplied ==
    ASSUME Sched!SettingsAssumption
    PROVE  Sched!Spec => []Sched!FiredIsApplied
<1>1. ScheduleInv => Sched!FiredIsApplied
  BY DEF ScheduleInv
<1> QED
  BY <1>1, ScheduleInduction, PTL

\* A row is resolved once: what one tick, cancel or fire made of it stays
\* until the changeset is scheduled again.
THEOREM RowsResolvedOnce ==
    ASSUME Sched!SettingsAssumption
    PROVE  Sched!Spec => [][Sched!ResolvedOnce]_(Sched!vars)
<1>1. ASSUME ScheduleInv, [Sched!Next]_(Sched!vars)
      PROVE  [Sched!ResolvedOnce]_(Sched!vars)
  <2> SUFFICES ASSUME NEW c \in Changesets, row[c].status \notin {"none", "pending"}
               PROVE  row'[c] = row[c] \/ row'[c].status = "pending"
    BY DEF Sched!ResolvedOnce
  <2>0. row \in [Changesets -> RowRecords]
    BY <1>1 DEF ScheduleInv, ScheduleShape
  <2>1. ASSUME NEW d, NEW s, row' = Sched!Resolved(d, s)
        PROVE  row'[c] = row[c]
    BY <2>0, <2>1 DEF Sched!Resolved
  <2>2. ASSUME NEW d \in Changesets, row[d].status = "pending", row' = [row EXCEPT ![d].status = "cancelled"]
        PROVE  row'[c] = row[c]
    BY <2>0, <2>2
  <2>3. ASSUME NEW d \in Changesets, row' = [row EXCEPT ![d] = [status |-> "pending", win |-> request[d]]]
        PROVE  row'[c] = row[c] \/ row'[c].status = "pending"
    BY <2>0, <2>3
  <2>4. CASE UNCHANGED row
    BY <2>4
  <2>5. ASSUME NEW t \in Tickers, Sched!TickSchedules(t) \/ Sched!TickStep(t)
        PROVE  row'[c] = row[c]
    BY <2>1, <2>5 DEF Sched!TickSchedules, Sched!TickStep, Sched!TickNext, Sched!SkipMissed, Sched!FireGate,
       Sched!FireRefused, Sched!FireApply, Sched!FireRan, Sched!FireResolve
  <2>6. ASSUME NEW d \in Changesets,
               \/ \E w \in Windows : Sched!ScheduleCheck(d, w)
               \/ Sched!ScheduleUpsert(d) \/ Sched!CancelSchedule(d)
               \/ Sched!EditOps(d) \/ Sched!Discard(d)
               \/ Sched!UserApply(d) \/ Sched!UserApplyRan(d) \/ Sched!Confirm(d) \/ Sched!RollBack(d)
        PROVE  row'[c] = row[c] \/ row'[c].status = "pending"
    BY <2>2, <2>3, <2>6 DEF Sched!ScheduleCheck, Sched!ScheduleUpsert, Sched!CancelSchedule, Sched!EditOps,
       Sched!Discard, Sched!UserApply, Sched!UserApplyRan, Sched!Confirm, Sched!RollBack
  <2>7. CASE Sched!Advance \/ Sched!Crash \/ Sched!Restart
    BY <2>7 DEF Sched!Advance, Sched!Crash, Sched!Restart
  <2>8. CASE UNCHANGED Sched!vars
    BY <2>8 DEF Sched!vars
  <2> QED
    BY <1>1, <2>5, <2>6, <2>7, <2>8 DEF Sched!Next
<1> QED
  BY <1>1, ScheduleInduction, PTL DEF Sched!Spec

-----------------------------------------------------------------------------
CONSTANTS Others, Faults, CallFaults, MaxCalls

VARIABLES main, branch, requests, settled, recorded, call, faults, calls

Prop == INSTANCE GitPropose

(* GitPropose: one proposal at a time, reviewers in between. *)

\* The steps of a call that come after the branch.
HasBranch == {"commit", "find", "open", "abandon"}

\* The call that is about to open a request has seen that there is none, and
\* only it could have opened one since.
OpenIsFresh == call.at = "open" /\ ~call.found => requests[call.c] = 0

\* While the request a call started with is unsettled, its branch is there, so
\* the call has not created one and has none to take back.
ReviewIsKept == call.review => branch[call.c].exists /\ ~call.created /\ call.at # "create"
OwnBranch == (call.at = "abandon" => call.created) /\ (call.created => call.at \in HasBranch)

ProposeInv == Prop!TypeOK /\ Prop!OneRequest /\ OpenIsFresh /\ ReviewIsKept /\ OwnBranch

\* Where answers arrive and one call fails at most: of a changeset no reviewer
\* settled, the branch and the request come and go together, except that the
\* running call has its branch first.
Matched(c) == branch[c].exists <=> requests[c] > 0
CleanCall ==
  /\ ~call.cancelled
  /\ call.c \notin settled =>
       /\ call.at = "create" => ~branch[call.c].exists
       /\ call.at \in HasBranch => branch[call.c].exists /\ (call.created <=> requests[call.c] = 0)
       /\ call.at = "open" => (call.found <=> requests[call.c] > 0)
       /\ call.at = "abandon" => faults = CallFaults
CleanInv ==
  /\ CleanCall
  /\ \A c \in Changesets \ settled : c # call.c \/ call.at \notin HasBranch => Matched(c)

CleanSetting == Faults \subseteq {"fail"} /\ CallFaults <= 1

ProposeStates == {"idle", "resolve", "head", "create", "commit", "find", "open", "abandon"}
CallRecords == [at : ProposeStates, c : Changesets, content : Prop!Docs, sha : Prop!Docs, created : BOOLEAN,
                found : BOOLEAN, cancelled : BOOLEAN, review : BOOLEAN]
BranchRecords == [exists : BOOLEAN, base : Prop!Docs, file : Prop!Docs]

\* The record of no call, and no branch.
LEMMA NoneYet ==
    ASSUME Prop!GitProposeAssumption
    PROVE  /\ Prop!NoCall \in CallRecords /\ Prop!NoCall.at = "idle" /\ ~Prop!NoCall.review /\ ~Prop!NoCall.created
           /\ ~Prop!NoCall.cancelled
           /\ Prop!NoBranch \in BranchRecords /\ Prop!NoBranch.exists = FALSE
<1>1. Prop!NoCall.c \in Changesets
  BY DEF Prop!GitProposeAssumption, Prop!NoCall
<1> QED
  BY <1>1 DEF Prop!NoCall, Prop!NoBranch, Prop!Docs, CallRecords, BranchRecords, ProposeStates

\* TypeOK, as the records it is made of.
LEMMA ProposeTypes ==
    Prop!TypeOK <=>
      /\ main \in Prop!Docs
      /\ branch \in [Changesets -> BranchRecords]
      /\ \A c \in Changesets : ~branch[c].exists => branch[c] = Prop!NoBranch
      /\ requests \in [Changesets -> Nat]
      /\ settled \subseteq Changesets /\ recorded \subseteq Changesets
      /\ call \in CallRecords
      /\ call.at = "idle" => call = Prop!NoCall
      /\ faults \in 0 .. CallFaults /\ calls \in 0 .. MaxCalls
  BY DEF Prop!TypeOK, CallRecords, BranchRecords, ProposeStates

\* Where a failed call leaves its record.
LEMMA AbandonMoves ==
    ASSUME Prop!GitProposeAssumption, Prop!TypeOK, Prop!Abandon
    PROVE  /\ call' \in CallRecords
           /\ call'.at = "idle" => call' = Prop!NoCall
           /\ call'.at \in {"idle", "abandon"}
           /\ call'.review => call.review
           /\ call.created => call'.at = "abandon" /\ call'.c = call.c /\ call'.created
                              /\ call'.review = call.review
           /\ ~call.created => call' = Prop!NoCall
           /\ CleanSetting /\ ~call.cancelled => ~call'.cancelled
<1>1. call \in CallRecords
  BY ProposeTypes
<1>2. CASE call.created
  <2>1. PICK k \in BOOLEAN : k = Prop!Cancelled
    BY <1>1 DEF Prop!Cancelled, CallRecords
  <2>2. call' = [call EXCEPT !.at = "abandon", !.cancelled = k]
    BY <1>2, <2>1 DEF Prop!Abandon
  <2>3. /\ call' \in CallRecords /\ call'.at = "abandon" /\ call'.c = call.c /\ call'.created = call.created
        /\ call'.review = call.review /\ call'.cancelled = k
    BY <1>1, <2>2 DEF CallRecords, ProposeStates
  <2>4. CleanSetting /\ ~call.cancelled => ~k
    BY <2>1 DEF CleanSetting, Prop!Cancelled
  <2> QED
    BY <1>2, <2>3, <2>4
<1>3. CASE ~call.created
  BY <1>3, NoneYet DEF Prop!Abandon
<1> QED
  BY <1>2, <1>3

WholeInv == ProposeInv /\ (CleanSetting => CleanInv)

\* A step by which a call gives up: it leads to the compensation if there is
\* a branch to take back, and otherwise ends the call.
LEMMA GivingUpKeeps ==
    ASSUME Prop!GitProposeAssumption, WholeInv, call.at \in HasBranch \ {"abandon"}, Prop!Abandon,
           UNCHANGED <<main, settled, recorded, calls>>,
           branch' \in [Changesets -> BranchRecords],
           \A c \in Changesets : ~branch'[c].exists => branch'[c] = Prop!NoBranch,
           \A c \in Changesets : branch'[c].exists = branch[c].exists,
           requests' \in [Changesets -> Nat], \A c \in Changesets : requests'[c] <= 1,
           faults' \in 0 .. CallFaults,
           CleanSetting => requests' = requests,
           CleanSetting /\ call.c \notin settled => faults' = CallFaults
    PROVE  WholeInv'
<1>0. Prop!TypeOK /\ ProposeInv
  BY DEF WholeInv, ProposeInv
<1>1. /\ call' \in CallRecords
      /\ call'.at = "idle" => call' = Prop!NoCall
      /\ call'.at \in {"idle", "abandon"}
      /\ call'.review => call.review
      /\ call.created => call'.at = "abandon" /\ call'.c = call.c /\ call'.created /\ call'.review = call.review
      /\ ~call.created => call' = Prop!NoCall
      /\ CleanSetting /\ ~call.cancelled => ~call'.cancelled
  BY <1>0, AbandonMoves
<1>2. /\ Prop!NoCall \in CallRecords /\ Prop!NoCall.at = "idle" /\ ~Prop!NoCall.review /\ ~Prop!NoCall.created
      /\ ~Prop!NoCall.cancelled
  BY NoneYet
<1>3. call.c \in Changesets
  BY <1>0, ProposeTypes DEF CallRecords
<1>4. Prop!TypeOK'
  BY <1>0, <1>1, ProposeTypes DEF Prop!TypeOK, CallRecords, BranchRecords, ProposeStates
<1>5. ProposeInv'
  BY <1>0, <1>1, <1>2, <1>3, <1>4 DEF ProposeInv, Prop!OneRequest, OpenIsFresh, ReviewIsKept, OwnBranch, HasBranch
<1>6. ASSUME CleanSetting PROVE CleanInv'
  <2>1. CleanInv /\ ~call.cancelled
    BY <1>6 DEF WholeInv, CleanInv, CleanCall
  <2>4. requests \in [Changesets -> Nat]
    BY <1>0, ProposeTypes
  <2>5. call.c \notin settled => branch[call.c].exists /\ (call.created <=> requests[call.c] = 0)
    BY <2>1 DEF CleanInv, CleanCall
  <2>6. CleanCall'
    BY <1>1, <1>2, <1>3, <1>6, <2>1, <2>5 DEF CleanCall, HasBranch
  <2>7. ASSUME NEW c \in Changesets \ settled, c # call'.c \/ call'.at \notin HasBranch
        PROVE  Matched(c)
    <3>1. CASE c # call.c
      BY <2>1, <3>1 DEF CleanInv
    <3>2. CASE c = call.c
      <4>1. ~call.created
        BY <1>1, <2>7, <3>2 DEF HasBranch
      <4> QED
        BY <1>3, <2>4, <2>5, <3>2, <4>1 DEF Matched
    <3> QED
      BY <3>1, <3>2
  <2> QED
    BY <1>6, <2>6, <2>7 DEF CleanInv, Matched
<1> QED
  BY <1>5, <1>6 DEF WholeInv

\* A step that moves the call on, with branches and requests as they are.
LEMMA MovingOnKeeps ==
    ASSUME Prop!GitProposeAssumption, WholeInv, UNCHANGED <<branch, requests, settled>>,
           main' \in Prop!Docs, recorded' \subseteq Changesets, faults' \in 0 .. CallFaults, calls' \in 0 .. MaxCalls,
           call' \in CallRecords, call'.at = "idle" => call' = Prop!NoCall,
           OpenIsFresh', ReviewIsKept', OwnBranch',
           CleanSetting => CleanCall',
           CleanSetting => \A c \in Changesets \ settled : c # call'.c \/ call'.at \notin HasBranch => Matched(c)
    PROVE  WholeInv'
<1>0. Prop!TypeOK /\ ProposeInv
  BY DEF WholeInv, ProposeInv
<1>1. Prop!TypeOK'
  BY <1>0, ProposeTypes DEF Prop!TypeOK, CallRecords, BranchRecords, ProposeStates
<1>2. ProposeInv'
  BY <1>0, <1>1 DEF ProposeInv, Prop!OneRequest
<1>3. CleanSetting => CleanInv'
  BY DEF CleanInv, Matched
<1> QED
  BY <1>2, <1>3 DEF WholeInv

\* The invariant holds of every step of a proposal and of the reviewers.
LEMMA ProposeInduction ==
    ASSUME Prop!GitProposeAssumption
    PROVE  Prop!Spec => []WholeInv
<1>n. /\ Prop!NoCall \in CallRecords /\ Prop!NoCall.at = "idle" /\ ~Prop!NoCall.review /\ ~Prop!NoCall.created
      /\ ~Prop!NoCall.cancelled
      /\ Prop!NoBranch \in BranchRecords /\ Prop!NoBranch.exists = FALSE
  BY NoneYet
<1>1. Prop!Init => WholeInv
  <2> SUFFICES ASSUME Prop!Init PROVE WholeInv
    OBVIOUS
  <2>1. Prop!TypeOK
    BY <1>n DEF Prop!Init, Prop!TypeOK, CallRecords, BranchRecords, ProposeStates, Prop!Docs,
       Prop!GitProposeAssumption
  <2>2. ProposeInv
    BY <1>n, <2>1 DEF Prop!Init, ProposeInv, Prop!OneRequest, OpenIsFresh, ReviewIsKept, OwnBranch
  <2>3. CleanInv
    BY <1>n DEF Prop!Init, CleanInv, CleanCall, Matched, HasBranch
  <2> QED
    BY <2>2, <2>3 DEF WholeInv
<1>2. WholeInv /\ [Prop!Next]_(Prop!vars) => WholeInv'
  <2> SUFFICES ASSUME WholeInv, [Prop!Next]_(Prop!vars) PROVE WholeInv'
    OBVIOUS
  <2>0. /\ ProposeInv /\ Prop!TypeOK /\ Prop!OneRequest /\ OpenIsFresh /\ ReviewIsKept /\ OwnBranch
        /\ CleanSetting => CleanInv /\ CleanCall
    BY DEF WholeInv, ProposeInv, CleanInv
  <2>t. /\ main \in Prop!Docs
        /\ branch \in [Changesets -> BranchRecords]
        /\ \A c \in Changesets : ~branch[c].exists => branch[c] = Prop!NoBranch
        /\ requests \in [Changesets -> Nat]
        /\ settled \subseteq Changesets /\ recorded \subseteq Changesets
        /\ call \in CallRecords
        /\ call.at = "idle" => call = Prop!NoCall
        /\ faults \in 0 .. CallFaults /\ calls \in 0 .. MaxCalls
    BY <2>0, ProposeTypes
  <2>c. call.c \in Changesets
    BY <2>t DEF CallRecords
  <2>f. /\ Prop!Works => faults' \in 0 .. CallFaults
        /\ Prop!Errs => faults' \in 0 .. CallFaults
        /\ Prop!Loses => faults' \in 0 .. CallFaults
        /\ CleanSetting => ~Prop!Loses
        /\ CleanSetting /\ Prop!Errs => faults' = CallFaults
    <3>1. CleanSetting => ~call.cancelled
      BY <2>0 DEF CleanCall
    <3> QED
      BY <2>t, <3>1 DEF Prop!Works, Prop!Errs, Prop!Loses, CleanSetting, Prop!GitProposeAssumption
  \* A call that ends before it has touched the host.
  <2>e. ASSUME call' = Prop!NoCall, call.at \in {"resolve", "head", "create"}, Prop!Errs,
               UNCHANGED <<main, branch, requests, settled, recorded, calls>>
        PROVE  WholeInv'
    <3>1. OpenIsFresh' /\ ReviewIsKept' /\ OwnBranch' /\ CleanCall'
      BY <1>n, <2>e DEF OpenIsFresh, ReviewIsKept, OwnBranch, CleanCall, HasBranch
    <3>2. CleanSetting => \A c \in Changesets \ settled : Matched(c)
      BY <2>0, <2>e DEF CleanInv, HasBranch
    <3> QED
      BY <1>n, <2>e, <2>f, <2>t, <3>1, <3>2, MovingOnKeeps
  <2>1. ASSUME NEW c \in Changesets, Prop!Propose(c) PROVE WholeInv'
    <3>1. PICK d \in Prop!Docs, v \in BOOLEAN : d = main \cup {c} /\ v = (requests[c] > 0 /\ branch[c].exists)
      BY <2>t DEF Prop!Docs, BranchRecords
    <3>2. call' = [Prop!NoCall EXCEPT !.at = "resolve", !.c = c, !.content = d, !.review = v]
      BY <2>1, <3>1 DEF Prop!Propose
    <3>3. PICK n \in CallRecords : n = Prop!NoCall /\ ~n.created /\ ~n.cancelled
      BY <1>n
    <3>4. /\ call' \in CallRecords /\ call'.at = "resolve" /\ call'.c = c /\ call'.review = v /\ ~call'.created
          /\ ~call'.cancelled
      BY <3>2, <3>3 DEF CallRecords, ProposeStates
    <3>5. /\ UNCHANGED <<main, branch, requests, settled, recorded>> /\ faults' = 0 /\ calls' = calls + 1
          /\ call.at = "idle" /\ calls < MaxCalls
      BY <2>1 DEF Prop!Propose, Prop!At, Prop!host
    <3>6. faults' \in 0 .. CallFaults /\ calls' \in 0 .. MaxCalls
      BY <2>t, <3>5 DEF Prop!GitProposeAssumption
    <3>7. OpenIsFresh' /\ ReviewIsKept' /\ OwnBranch' /\ CleanCall'
      BY <3>1, <3>4, <3>5 DEF OpenIsFresh, ReviewIsKept, OwnBranch, CleanCall, HasBranch
    <3>8. CleanSetting => \A b \in Changesets \ settled : Matched(b)
      BY <2>0, <3>5 DEF CleanInv, HasBranch
    <3> QED
      BY <2>t, <3>4, <3>5, <3>6, <3>7, <3>8, MovingOnKeeps
  <2>2. CASE Prop!ResolveRef
    <3>1. UNCHANGED <<main, branch, requests, settled, recorded, calls>> /\ call.at = "resolve"
      BY <2>2 DEF Prop!ResolveRef, Prop!At, Prop!host
    <3>2. CASE Prop!Works /\ call' = [call EXCEPT !.at = "head", !.sha = main]
      <4>1. /\ call' \in CallRecords /\ call'.at = "head" /\ call'.c = call.c /\ call'.review = call.review
            /\ call'.created = call.created /\ call'.cancelled = call.cancelled
        BY <2>t, <3>2 DEF CallRecords, ProposeStates
      <4>2. OpenIsFresh' /\ ReviewIsKept' /\ OwnBranch' /\ (CleanSetting => CleanCall')
        BY <2>0, <3>1, <4>1 DEF OpenIsFresh, ReviewIsKept, OwnBranch, CleanCall, HasBranch
      <4>3. CleanSetting => \A b \in Changesets \ settled : Matched(b)
        BY <2>0, <3>1 DEF CleanInv, HasBranch
      <4> QED
        BY <2>f, <2>t, <3>1, <3>2, <4>1, <4>2, <4>3, MovingOnKeeps
    <3> QED
      BY <2>2, <2>e, <3>1, <3>2 DEF Prop!ResolveRef
  <2>3. CASE Prop!BranchHead
    <3>1. UNCHANGED <<main, branch, requests, settled, recorded, calls>> /\ call.at = "head"
      BY <2>3 DEF Prop!BranchHead, Prop!At, Prop!host
    <3>2. CASE Prop!Works /\ Prop!Goto(IF branch[call.c].exists THEN "commit" ELSE "create")
      <4>0. PICK s \in {"commit", "create"} : s = IF branch[call.c].exists THEN "commit" ELSE "create"
        OBVIOUS
      <4>1. /\ call' \in CallRecords /\ call'.at = s /\ call'.c = call.c /\ call'.review = call.review
            /\ call'.created = call.created /\ call'.cancelled = call.cancelled
        BY <2>t, <3>2, <4>0 DEF CallRecords, ProposeStates, Prop!Goto
      <4>2. OpenIsFresh' /\ ReviewIsKept' /\ OwnBranch'
        BY <2>0, <3>1, <4>0, <4>1 DEF OpenIsFresh, ReviewIsKept, OwnBranch, HasBranch
      <4>3. CleanSetting => \A b \in Changesets \ settled : Matched(b)
        BY <2>0, <3>1 DEF CleanInv, HasBranch
      <4>4. CleanSetting => CleanCall'
        BY <2>0, <2>c, <2>t, <3>1, <4>0, <4>1, <4>3 DEF CleanCall, HasBranch, OwnBranch, Matched
      <4> QED
        BY <2>f, <2>t, <3>1, <3>2, <4>0, <4>1, <4>2, <4>3, <4>4, MovingOnKeeps
    <3> QED
      BY <2>3, <2>e, <3>1, <3>2 DEF Prop!BranchHead
  <2>4. CASE Prop!CreateBranch
    <3>1. UNCHANGED <<main, requests, settled, recorded, calls>> /\ call.at = "create"
      BY <2>4 DEF Prop!CreateBranch, Prop!At
    <3> DEFINE made == [exists |-> TRUE, base |-> call.sha, file |-> call.sha]
    <3>2. made \in BranchRecords /\ made.exists = TRUE
      BY <2>t DEF BranchRecords, CallRecords
    <3>3. Prop!Created = [branch EXCEPT ![call.c] = made]
      BY DEF Prop!Created
    <3> HIDE DEF made
    <3>4. ASSUME branch' = Prop!Created
          PROVE  /\ branch' \in [Changesets -> BranchRecords]
                 /\ \A c \in Changesets : branch'[c] = IF c = call.c THEN made ELSE branch[c]
                 /\ \A c \in Changesets : ~branch'[c].exists => branch'[c] = Prop!NoBranch
      BY <2>c, <2>t, <3>2, <3>3, <3>4
    <3>5. ~call.review /\ ~call.created
      BY <2>0, <3>1 DEF ReviewIsKept, OwnBranch, HasBranch
    <3>6. CASE Prop!Works /\ branch' = Prop!Created /\ call' = [call EXCEPT !.at = "commit", !.created = TRUE]
      <4>1. /\ call' \in CallRecords /\ call'.at = "commit" /\ call'.c = call.c /\ call'.review = call.review
            /\ call'.created = TRUE /\ call'.cancelled = call.cancelled
        BY <2>t, <3>6 DEF CallRecords, ProposeStates
      <4>2. Prop!TypeOK'
        BY <2>f, <2>t, <3>1, <3>4, <3>6, <4>1 DEF Prop!TypeOK, CallRecords, BranchRecords, ProposeStates
      <4>3. ProposeInv'
        BY <2>0, <3>1, <3>5, <4>1, <4>2 DEF ProposeInv, Prop!OneRequest, OpenIsFresh, ReviewIsKept, OwnBranch, HasBranch
      <4>4. ASSUME CleanSetting PROVE CleanInv'
        <5>1. CleanInv /\ CleanCall /\ \A c \in Changesets \ settled : Matched(c)
          BY <2>0, <3>1, <4>4 DEF CleanInv, HasBranch
        <5>2. call.c \notin settled => requests[call.c] = 0
          BY <2>c, <2>t, <3>1, <5>1 DEF CleanCall, Matched
        <5>3. CleanCall'
          BY <2>c, <3>1, <3>2, <3>4, <3>6, <4>1, <5>1, <5>2 DEF CleanCall, HasBranch
        <5>4. \A c \in Changesets \ settled : c # call'.c => Matched(c)'
          BY <3>1, <3>4, <3>6, <4>1, <5>1 DEF Matched
        <5> QED
          BY <3>1, <4>1, <5>3, <5>4 DEF CleanInv, HasBranch
      <4> QED
        BY <4>3, <4>4 DEF WholeInv
    <3>7. CASE Prop!Loses /\ call' = Prop!NoCall /\ branch' = Prop!Created
      <4>1. Prop!TypeOK'
        BY <1>n, <2>f, <2>t, <3>1, <3>4, <3>7 DEF Prop!TypeOK, CallRecords, BranchRecords, ProposeStates
      <4>2. ProposeInv'
        BY <1>n, <2>0, <3>1, <3>7, <4>1 DEF ProposeInv, Prop!OneRequest, OpenIsFresh, ReviewIsKept, OwnBranch
      <4> QED
        BY <2>f, <3>7, <4>2 DEF WholeInv
    <3> QED
      BY <2>4, <2>e, <3>1, <3>6, <3>7 DEF Prop!CreateBranch
  \* The commit changes the file of a branch, never whether there is one.
  <2>5. CASE Prop!CommitFile
    <3> DEFINE committed == [branch EXCEPT ![call.c].file = call.content]
    <3>1. UNCHANGED <<main, requests, settled, recorded, calls>> /\ call.at = "commit"
      BY <2>5 DEF Prop!CommitFile, Prop!At
    <3>2. ASSUME branch[call.c].exists, branch' = committed
          PROVE  /\ branch' \in [Changesets -> BranchRecords]
                 /\ \A c \in Changesets : branch'[c].exists = branch[c].exists
                 /\ \A c \in Changesets : ~branch'[c].exists => branch'[c] = Prop!NoBranch
      <4> DEFINE b == [branch[call.c] EXCEPT !.file = call.content]
      <4>1. call.content \in Prop!Docs
        BY <2>t DEF CallRecords
      <4>2. b \in BranchRecords /\ b.exists = branch[call.c].exists
        BY <2>c, <2>t, <4>1 DEF BranchRecords
      <4>3. branch' = [branch EXCEPT ![call.c] = b]
        BY <2>c, <2>t, <3>2
      <4> HIDE DEF b
      <4> QED
        BY <2>c, <2>t, <3>2, <4>2, <4>3
    <3> HIDE DEF committed
    <3>3. \A c \in Changesets : requests[c] <= 1
      BY <2>0 DEF Prop!OneRequest
    <3>4. CleanSetting /\ call.c \notin settled => branch[call.c].exists
      BY <2>0, <3>1 DEF CleanCall, HasBranch
    <3>5. CASE Prop!Works /\ branch[call.c].exists /\ branch' = committed /\ Prop!Goto("find")
      <4>1. /\ call' \in CallRecords /\ call'.at = "find" /\ call'.c = call.c /\ call'.review = call.review
            /\ call'.created = call.created /\ call'.cancelled = call.cancelled
        BY <2>t, <3>5 DEF CallRecords, ProposeStates, Prop!Goto
      <4>2. Prop!TypeOK'
        BY <2>f, <2>t, <3>1, <3>2, <3>5, <4>1 DEF Prop!TypeOK, CallRecords, BranchRecords, ProposeStates
      <4>3. ProposeInv'
        BY <2>0, <2>c, <3>1, <3>2, <3>5, <4>1, <4>2 DEF ProposeInv, Prop!OneRequest, OpenIsFresh, ReviewIsKept, OwnBranch, HasBranch
      <4>4. CleanSetting => CleanInv'
        BY <2>0, <2>c, <3>1, <3>2, <3>5, <4>1 DEF CleanInv, CleanCall, HasBranch, Matched
      <4> QED
        BY <4>3, <4>4 DEF WholeInv
    <3>6. CASE Prop!Works /\ ~branch[call.c].exists /\ Prop!Abandon /\ UNCHANGED branch
      BY <2>f, <2>t, <3>1, <3>3, <3>4, <3>6, GivingUpKeeps DEF HasBranch
    <3>7. CASE Prop!Errs /\ Prop!Abandon /\ UNCHANGED branch
      BY <2>f, <2>t, <3>1, <3>3, <3>7, GivingUpKeeps DEF HasBranch
    <3>8. CASE Prop!Loses /\ branch[call.c].exists /\ Prop!Abandon /\ branch' = committed
      BY <2>f, <2>t, <3>1, <3>2, <3>3, <3>8, GivingUpKeeps DEF HasBranch
    <3> QED
      BY <2>5, <3>5, <3>6, <3>7, <3>8 DEF Prop!CommitFile, committed
  <2>6. CASE Prop!FindOpenPullRequest
    <3>1. UNCHANGED <<main, branch, requests, settled, recorded, calls>> /\ call.at = "find"
      BY <2>6 DEF Prop!FindOpenPullRequest, Prop!At, Prop!host
    <3>2. \A c \in Changesets : requests[c] <= 1
      BY <2>0 DEF Prop!OneRequest
    <3>3. CASE Prop!Works /\ call' = [call EXCEPT !.at = "open", !.found = Prop!FindOpen]
      <4>0. PICK v \in BOOLEAN : v = (requests[call.c] > 0)
        <5>1. (requests[call.c] > 0) \in BOOLEAN
          OBVIOUS
        <5> QED
          BY <5>1, Zenon
      <4>a. v <=> requests[call.c] > 0
        BY <4>0
      <4>1. /\ call' \in CallRecords /\ call'.at = "open" /\ call'.c = call.c /\ call'.review = call.review
            /\ call'.created = call.created /\ call'.cancelled = call.cancelled /\ call'.found = v
        BY <2>t, <3>3, <4>0 DEF CallRecords, ProposeStates, Prop!FindOpen
      <4>2. OpenIsFresh'
        BY <2>c, <2>t, <3>1, <4>a, <4>1 DEF OpenIsFresh
      <4>3. ReviewIsKept' /\ OwnBranch'
        BY <2>0, <3>1, <4>1 DEF ReviewIsKept, OwnBranch, HasBranch
      <4>4. CleanSetting => CleanCall'
        BY <2>0, <3>1, <4>a, <4>1 DEF CleanCall, HasBranch
      <4>5. CleanSetting => \A b \in Changesets \ settled : b # call'.c \/ call'.at \notin HasBranch => Matched(b)
        BY <2>0, <4>1 DEF CleanInv, HasBranch
      <4> QED
        BY <2>f, <2>t, <3>1, <3>3, <4>1, <4>2, <4>3, <4>4, <4>5, MovingOnKeeps
    <3>4. CASE Prop!Errs /\ Prop!Abandon
      BY <2>f, <2>t, <3>1, <3>2, <3>4, GivingUpKeeps DEF HasBranch
    <3> QED
      BY <2>6, <3>3, <3>4 DEF Prop!FindOpenPullRequest
  <2>7. CASE Prop!UpdatePullRequest
    <3>1. UNCHANGED <<main, branch, requests, settled, calls>> /\ call.at = "open" /\ call.found
      BY <2>7 DEF Prop!UpdatePullRequest, Prop!At, Prop!host
    <3>2. \A c \in Changesets : requests[c] <= 1
      BY <2>0 DEF Prop!OneRequest
    <3>3. CASE Prop!Works /\ call' = Prop!NoCall /\ Prop!Record
      <4>1. recorded' \subseteq Changesets
        BY <2>c, <2>t, <3>3 DEF Prop!Record
      <4>2. OpenIsFresh' /\ ReviewIsKept' /\ OwnBranch' /\ CleanCall'
        BY <1>n, <3>3 DEF OpenIsFresh, ReviewIsKept, OwnBranch, CleanCall, HasBranch
      <4>3. ASSUME CleanSetting, NEW b \in Changesets \ settled PROVE Matched(b)
        <5>1. CASE b = call.c
          BY <2>0, <3>1, <4>3, <5>1 DEF CleanCall, HasBranch, Matched
        <5>2. CASE b # call.c
          BY <2>0, <4>3, <5>2 DEF CleanInv
        <5> QED
          BY <5>1, <5>2
      <4> QED
        BY <1>n, <2>f, <2>t, <3>1, <3>3, <4>1, <4>2, <4>3, MovingOnKeeps
    <3>4. CASE (Prop!Errs \/ Prop!Loses) /\ Prop!Abandon /\ UNCHANGED recorded
      BY <2>f, <2>t, <3>1, <3>2, <3>4, GivingUpKeeps DEF HasBranch
    <3> QED
      BY <2>7, <3>3, <3>4 DEF Prop!UpdatePullRequest
  <2>8. CASE Prop!OpenPullRequest
    <3> DEFINE opened == [requests EXCEPT ![call.c] = @ + 1]
    <3>1. UNCHANGED <<main, branch, settled, calls>> /\ call.at = "open" /\ ~call.found
      BY <2>8 DEF Prop!OpenPullRequest, Prop!At
    <3>2. \A c \in Changesets : requests[c] <= 1
      BY <2>0 DEF Prop!OneRequest
    <3>3. requests[call.c] = 0
      BY <2>0, <3>1 DEF OpenIsFresh
    <3>4. ASSUME requests' = opened
          PROVE  /\ requests' \in [Changesets -> Nat] /\ \A c \in Changesets : requests'[c] <= 1
                 /\ \A c \in Changesets : requests'[c] = IF c = call.c THEN 1 ELSE requests[c]
      BY <2>c, <2>t, <3>2, <3>3, <3>4
    <3> HIDE DEF opened
    <3>5. CleanSetting /\ call.c \notin settled => branch[call.c].exists
      BY <2>0, <3>1 DEF CleanCall, HasBranch
    <3>6. CASE Prop!Works /\ branch[call.c].exists /\ requests' = opened /\ call' = Prop!NoCall /\ Prop!Record
      <4>1. recorded' \subseteq Changesets
        BY <2>c, <2>t, <3>6 DEF Prop!Record
      <4>2. Prop!TypeOK'
        BY <1>n, <2>f, <2>t, <3>1, <3>4, <3>6, <4>1 DEF Prop!TypeOK, CallRecords, BranchRecords, ProposeStates
      <4>3. ProposeInv'
        BY <1>n, <3>4, <3>6, <4>2 DEF ProposeInv, Prop!OneRequest, OpenIsFresh, ReviewIsKept, OwnBranch
      <4>4. ASSUME CleanSetting PROVE CleanInv'
        <5>1. CleanCall'
          BY <1>n, <3>6 DEF CleanCall, HasBranch
        <5>2. ASSUME NEW b \in Changesets \ settled PROVE Matched(b)'
          <6>1. CASE b = call.c
            BY <3>1, <3>4, <3>6, <6>1 DEF Matched
          <6>2. CASE b # call.c
            BY <2>0, <3>1, <3>4, <3>6, <4>4, <6>2 DEF CleanInv, Matched
          <6> QED
            BY <6>1, <6>2
        <5> QED
          BY <3>1, <5>1, <5>2 DEF CleanInv
      <4> QED
        BY <4>3, <4>4 DEF WholeInv
    <3>7. CASE Prop!Works /\ ~branch[call.c].exists /\ Prop!Abandon /\ UNCHANGED <<requests, recorded>>
      BY <2>f, <2>t, <3>1, <3>2, <3>5, <3>7, GivingUpKeeps DEF HasBranch
    <3>8. CASE Prop!Errs /\ Prop!Abandon /\ UNCHANGED <<requests, recorded>>
      BY <2>f, <2>t, <3>1, <3>2, <3>8, GivingUpKeeps DEF HasBranch
    <3>9. CASE Prop!Loses /\ branch[call.c].exists /\ requests' = opened /\ Prop!Abandon /\ UNCHANGED recorded
      BY <2>f, <2>t, <3>1, <3>4, <3>9, GivingUpKeeps DEF HasBranch
    <3> QED
      BY <2>8, <3>6, <3>7, <3>8, <3>9 DEF Prop!OpenPullRequest, opened
  <2>9. CASE Prop!DeleteBranch
    <3>1. UNCHANGED <<main, settled, recorded, calls>> /\ call.at = "abandon" /\ call' = Prop!NoCall
      BY <2>9 DEF Prop!DeleteBranch, Prop!At
    <3>2. \A c \in Changesets : requests[c] <= 1
      BY <2>0 DEF Prop!OneRequest
    <3>3. OpenIsFresh' /\ ReviewIsKept' /\ OwnBranch' /\ CleanCall'
      BY <1>n, <3>1 DEF OpenIsFresh, ReviewIsKept, OwnBranch, CleanCall, HasBranch
    <3>4. CASE /\ Prop!Works \/ Prop!Loses
               /\ branch' = Prop!Deleted
               /\ requests' \in {requests, [requests EXCEPT ![call.c] = 0]}
      <4>1. /\ branch' \in [Changesets -> BranchRecords]
            /\ \A c \in Changesets : branch'[c] = IF c = call.c THEN Prop!NoBranch ELSE branch[c]
            /\ \A c \in Changesets : ~branch'[c].exists => branch'[c] = Prop!NoBranch
        BY <1>n, <2>c, <2>t, <3>4 DEF Prop!Deleted
      <4>2. /\ requests' \in [Changesets -> Nat] /\ \A c \in Changesets : requests'[c] <= 1
            /\ \A c \in Changesets : c # call.c => requests'[c] = requests[c]
            /\ requests'[call.c] \in {requests[call.c], 0}
        BY <2>c, <2>t, <3>2, <3>4
      <4>3. Prop!TypeOK'
        BY <1>n, <2>f, <2>t, <3>1, <3>4, <4>1, <4>2 DEF Prop!TypeOK, CallRecords, BranchRecords, ProposeStates
      <4>4. ProposeInv'
        BY <3>3, <4>2, <4>3 DEF ProposeInv, Prop!OneRequest
      <4>5. ASSUME CleanSetting, NEW b \in Changesets \ settled PROVE Matched(b)'
        <5>1. CASE b = call.c
          <6>1. requests[call.c] = 0
            BY <2>0, <3>1, <4>5, <5>1 DEF CleanCall, HasBranch, OwnBranch
          <6> QED
            BY <1>n, <2>c, <4>1, <4>2, <5>1, <6>1 DEF Matched
        <5>2. CASE b # call.c
          BY <2>0, <4>1, <4>2, <4>5, <5>2 DEF CleanInv, Matched
        <5> QED
          BY <5>1, <5>2
      <4> QED
        BY <3>1, <3>3, <4>4, <4>5 DEF WholeInv, CleanInv
    <3>5. CASE Prop!Errs /\ UNCHANGED <<branch, requests>>
      <4>1. ASSUME CleanSetting, NEW b \in Changesets \ settled PROVE Matched(b)
        <5>1. CASE b = call.c
          <6>1. faults = CallFaults /\ ~call.cancelled
            BY <2>0, <3>1, <4>1, <5>1 DEF CleanCall
          <6> QED
            BY <2>t, <3>5, <6>1 DEF Prop!Errs, Prop!GitProposeAssumption
        <5>2. CASE b # call.c
          BY <2>0, <4>1, <5>2 DEF CleanInv
        <5> QED
          BY <5>1, <5>2
      <4> QED
        BY <1>n, <2>f, <2>t, <3>1, <3>3, <3>5, <4>1, MovingOnKeeps
    <3> QED
      BY <2>9, <3>4, <3>5 DEF Prop!DeleteBranch
  \* A reviewer settles a request: its branch may go, and the changeset is no
  \* longer one whose branch and request belong together.
  <2>10. ASSUME NEW c \in Changesets, Prop!Merge(c) \/ Prop!Close(c) PROVE WholeInv'
    <3>1. /\ settled' = settled \cup {c} /\ requests[c] > 0
          /\ requests' = [requests EXCEPT ![c] = @ - 1]
          /\ branch' \in {branch, [branch EXCEPT ![c] = Prop!NoBranch]}
          /\ call' = IF call.c = c THEN [call EXCEPT !.review = FALSE] ELSE call
          /\ UNCHANGED <<recorded, faults, calls>>
      BY <2>10 DEF Prop!Merge, Prop!Close, Prop!Settle
    <3>2. main' \in Prop!Docs
      BY <2>10, <2>t DEF Prop!Merge, Prop!Close, Prop!Docs, BranchRecords
    <3>3. /\ requests' \in [Changesets -> Nat]
          /\ \A d \in Changesets : requests'[d] = IF d = c THEN requests[d] - 1 ELSE requests[d]
      BY <2>t, <3>1
    <3>4. /\ branch' \in [Changesets -> BranchRecords]
          /\ \A d \in Changesets : d # c => branch'[d] = branch[d]
          /\ branch'[c] \in {branch[c], Prop!NoBranch}
      BY <1>n, <2>t, <3>1
    <3>5. /\ call' \in CallRecords /\ call'.at = call.at /\ call'.c = call.c /\ call'.created = call.created
          /\ call'.found = call.found /\ call'.cancelled = call.cancelled
          /\ call'.review = IF call.c = c THEN FALSE ELSE call.review
      BY <2>t, <3>1 DEF CallRecords
    <3>6. call'.at = "idle" => call' = Prop!NoCall
      <4> SUFFICES ASSUME call'.at = "idle" PROVE call' = call
        BY <2>t, <3>5
      <4>1. call = Prop!NoCall /\ call.review = FALSE
        BY <2>t, <3>5 DEF Prop!NoCall
      <4>2. [call EXCEPT !.review = FALSE] = call
        BY <2>t, <4>1 DEF CallRecords
      <4> QED
        BY <3>1, <4>2
    <3>7. Prop!TypeOK'
      BY <1>n, <2>t, <3>1, <3>2, <3>3, <3>4, <3>5, <3>6 DEF Prop!TypeOK, CallRecords, BranchRecords, ProposeStates
    <3>8. ProposeInv'
      <4>1. Prop!OneRequest'
        BY <2>0, <2>t, <3>3 DEF Prop!OneRequest
      <4>2. OpenIsFresh'
        BY <2>0, <2>c, <2>t, <3>1, <3>3, <3>5 DEF OpenIsFresh
      <4>3. ReviewIsKept' /\ OwnBranch'
        BY <2>0, <2>c, <3>4, <3>5 DEF ReviewIsKept, OwnBranch
      <4> QED
        BY <3>7, <4>1, <4>2, <4>3 DEF ProposeInv
    <3>9. ASSUME CleanSetting PROVE CleanInv'
      <4>1. CleanCall'
        BY <2>0, <2>c, <3>1, <3>3, <3>4, <3>5, <3>9 DEF CleanCall
      <4>2. \A d \in Changesets \ settled' : d # call'.c \/ call'.at \notin HasBranch => Matched(d)'
        BY <2>0, <3>1, <3>3, <3>4, <3>5, <3>9 DEF CleanInv, Matched
      <4> QED
        BY <4>1, <4>2 DEF CleanInv
    <3> QED
      BY <3>8, <3>9 DEF WholeInv
  <2>11. ASSUME NEW o \in Others, Prop!Commit(o) PROVE WholeInv'
    <3>1. main' \in Prop!Docs /\ UNCHANGED <<branch, requests, settled, recorded, call, faults, calls>>
      BY <2>11, <2>t DEF Prop!Commit, Prop!Docs
    <3>2. OpenIsFresh' /\ ReviewIsKept' /\ OwnBranch' /\ (CleanSetting => CleanCall')
      BY <2>0, <3>1 DEF OpenIsFresh, ReviewIsKept, OwnBranch, CleanCall
    <3> QED
      BY <2>0, <2>t, <3>1, <3>2, MovingOnKeeps DEF CleanInv
  <2>12. CASE UNCHANGED Prop!vars
    <3>1. UNCHANGED <<main, branch, requests, settled, recorded, call, faults, calls>>
      BY <2>12 DEF Prop!vars
    <3>2. OpenIsFresh' /\ ReviewIsKept' /\ OwnBranch' /\ (CleanSetting => CleanCall')
      BY <2>0, <3>1 DEF OpenIsFresh, ReviewIsKept, OwnBranch, CleanCall
    <3> QED
      BY <2>0, <2>t, <3>1, <3>2, MovingOnKeeps DEF CleanInv
  <2> QED
    BY <2>1, <2>2, <2>3, <2>4, <2>5, <2>6, <2>7, <2>8, <2>9, <2>10, <2>11, <2>12 DEF Prop!Next
<1> QED
  BY <1>1, <1>2, PTL DEF Prop!Spec

\* The proposals' state has its type, whatever calls fail, lose their answer or
\* are cancelled.
THEOREM ProposalTypes ==
    ASSUME Prop!GitProposeAssumption
    PROVE  Prop!Spec => []Prop!TypeOK
<1>1. WholeInv => Prop!TypeOK
  BY DEF WholeInv, ProposeInv
<1> QED
  BY <1>1, ProposeInduction, PTL

\* A changeset has one open request at most, for any faults; where answers
\* arrive and one call of a proposal fails at most, branch and request of a
\* changeset that no reviewer settled both exist or neither does.
THEOREM ProposalsWhole ==
    ASSUME Prop!GitProposeAssumption
    PROVE  Prop!Spec => []Prop!ProposalIsWhole
<1>1. ASSUME WholeInv PROVE Prop!ProposalIsWhole
  <2>1. Prop!OneRequest
    BY <1>1 DEF WholeInv, ProposeInv
  <2>2. requests \in [Changesets -> Nat] /\ branch \in [Changesets -> BranchRecords]
    BY <1>1, ProposeTypes DEF WholeInv, ProposeInv
  <2>3. ASSUME CleanSetting PROVE Prop!BothOrNeither
    <3> SUFFICES ASSUME call.at = "idle", NEW c \in Changesets \ settled
                 PROVE  branch[c].exists = (requests[c] > 0)
      BY DEF Prop!BothOrNeither, Prop!At
    <3>1. branch[c].exists <=> requests[c] > 0
      BY <1>1, <2>3 DEF WholeInv, CleanInv, Matched, HasBranch
    <3>2. branch[c].exists \in BOOLEAN /\ (requests[c] > 0) \in BOOLEAN
      BY <2>2 DEF BranchRecords
    <3> QED
      BY <3>1, <3>2
  <2> QED
    BY <2>1, <2>3 DEF Prop!ProposalIsWhole, CleanSetting
<1> QED
  BY <1>1, ProposeInduction, PTL

\* The compensation of a proposal never deletes a branch that was under review
\* when the proposal started and still is, for any faults.
THEOREM ReviewKeepsBranch ==
    ASSUME Prop!GitProposeAssumption
    PROVE  Prop!Spec => [][Prop!ReviewSurvives]_(Prop!vars)
<1>1. WholeInv => Prop!ReviewSurvives
  BY DEF WholeInv, ProposeInv, ReviewIsKept, OwnBranch, Prop!ReviewSurvives, Prop!At
<1>2. WholeInv => [Prop!ReviewSurvives]_(Prop!vars)
  BY <1>1
<1> QED
  BY <1>2, ProposeInduction, PTL DEF Prop!Spec

-----------------------------------------------------------------------------
CONSTANTS Users, Author, Approvers, AllowSelfApproval, Required, Ops, ProtectedOps, Approvals, FrozenOps,
          SDNOps, Entries, OneAtATime, LoggedFaults, MaxRequests

VARIABLES comments, approval, signoffs, breakGlass, freezeOver, ack, foreign, req, applyMu, applied,
          retracted, started

Rev == INSTANCE ReviewGates

(* ReviewGates: requests made of several statements each. *)

ApplyAts == {"isApproved", "revalidate", "twoPerson", "foreign", "persist"}
AfterEdit == {"cleanup", "clearApproval", "clearAck", "clearSignoffs"}
RequestAts == ApplyAts \cup AfterEdit \cup
              {"idle", "edit", "validate", "comment", "approve", "signoff", "reject", "withdraw", "glass",
               "freeze", "ack"}
OpSets == {None} \cup SUBSET Ops

RequestRecords == [at : RequestAts, ops : SUBSET Ops, new : (SUBSET Ops) \cup (SUBSET Entries),
                   status : {"draft", "validated", "applying"}]
AppliedRecords == [ops : OpSets, approval : Rev!Decision, signers : SUBSET Users, endorsed : SUBSET SUBSET Ops,
                   glass : OpSets, freeze : OpSets, pending : SUBSET Entries, acked : SUBSET Entries]

\* What a request carries from one statement to the next.
Carried(u) ==
    /\ req[u].at = "idle" => req[u] = Rev!Idle
    /\ req[u].at \in AfterEdit \cup {"edit", "comment"} => req[u].new \subseteq Ops
    /\ req[u].at = "ack" => req[u].new \subseteq Entries

ReviewShape ==
    /\ Rev!TypeOK
    /\ req \in [Users -> RequestRecords]
    /\ applied \in AppliedRecords
    /\ \A u \in Users : Carried(u)

\* What an apply in the middle of its gates has recorded of them.
GatesSoFar(u) ==
    /\ req[u].at \in ApplyAts => applied.ops = None /\ applyMu = u
    /\ req[u].at \in {"twoPerson", "foreign", "persist"} =>
           (req[u].ops \cap FrozenOps # {} => applied.freeze = req[u].ops)
    /\ req[u].at \in {"foreign", "persist"} =>
           (req[u].ops \cap ProtectedOps # {} /\ Rev!Cardinality(applied.signers) < Approvals =>
                applied.glass = req[u].ops)
    /\ req[u].at = "persist" => applied.pending \subseteq applied.acked

ReviewInv == ReviewShape /\ (\A u \in Users : GatesSoFar(u)) /\ Rev!OverridesArePinned

\* The number of principals is a number.
LEMMA SignersCount ==
    ASSUME Rev!ReviewAssumption, NEW S \in SUBSET Users
    PROVE  Rev!Cardinality(S) \in Nat
<1>1. Rev!IsFiniteSet(Users) = IsFiniteSet(Users)
  BY DEF Rev!IsFiniteSet, IsFiniteSet
<1>2. IsFiniteSet(S)
  BY <1>1, FS_Subset DEF Rev!ReviewAssumption
<1>3. Rev!Cardinality(S) = Cardinality(S)
  BY DEF Rev!Cardinality, Cardinality
<1> QED
  BY <1>2, <1>3, FS_CardinalityType

\* The start of a request: it goes on with the row it read.
LEMMA BeginRecord ==
    ASSUME ReviewShape, NEW u \in Users, NEW at \in RequestAts, NEW new \in (SUBSET Ops) \cup (SUBSET Entries),
           Rev!Begin(u, at, new)
    PROVE  /\ req' \in [Users -> RequestRecords]
           /\ req'[u].at = at /\ req'[u].ops = row.ops /\ req'[u].new = new
           /\ \A v \in Users : v # u => req'[v] = req[v]
           /\ req[u] = Rev!Idle /\ req[u].at = "idle"
           /\ OneAtATime => \A v \in Users : req[v] = Rev!Idle
<1>1. row.ops \in SUBSET Ops /\ row.status \in {"draft", "validated", "applying"}
  BY DEF ReviewShape, Rev!TypeOK
<1> DEFINE r == [at |-> at, ops |-> row.ops, new |-> new, status |-> row.status]
<1>2. r \in RequestRecords /\ r.at = at /\ r.ops = row.ops /\ r.new = new
  BY <1>1 DEF RequestRecords
<1>3. req' = [req EXCEPT ![u] = r] /\ req[u] = Rev!Idle /\ (OneAtATime => \A v \in Users : req[v] = Rev!Idle)
  BY DEF Rev!Begin
<1> HIDE DEF r
<1>4. req \in [Users -> RequestRecords]
  BY DEF ReviewShape
<1>5. Rev!Idle.at = "idle"
  BY DEF Rev!Idle
<1> QED
  BY <1>2, <1>3, <1>4, <1>5

\* The next statement of a request.
LEMMA GotoRecord ==
    ASSUME ReviewShape, NEW u \in Users, NEW at \in RequestAts, Rev!Goto(u, at)
    PROVE  /\ req' \in [Users -> RequestRecords]
           /\ req'[u].at = at /\ req'[u].ops = req[u].ops /\ req'[u].new = req[u].new
           /\ \A v \in Users : v # u => req'[v] = req[v]
<1>1. req \in [Users -> RequestRecords]
  BY DEF ReviewShape
<1> DEFINE r == [req[u] EXCEPT !.at = at]
<1>2. r \in RequestRecords /\ r.at = at /\ r.ops = req[u].ops /\ r.new = req[u].new
  BY <1>1 DEF RequestRecords
<1>3. req' = [req EXCEPT ![u] = r]
  BY <1>1 DEF Rev!Goto
<1> HIDE DEF r
<1> QED
  BY <1>1, <1>2, <1>3

\* The end of a request.
LEMMA DoneRecord ==
    ASSUME ReviewShape, NEW u \in Users, Rev!Done(u)
    PROVE  /\ req' \in [Users -> RequestRecords]
           /\ req'[u] = Rev!Idle /\ req'[u].at = "idle"
           /\ \A v \in Users : v # u => req'[v] = req[v]
<1>1. req \in [Users -> RequestRecords]
  BY DEF ReviewShape
<1>2. Rev!Idle \in RequestRecords /\ Rev!Idle.at = "idle"
  BY DEF Rev!Idle, RequestRecords, RequestAts
<1>3. req' = [req EXCEPT ![u] = Rev!Idle]
  BY DEF Rev!Done
<1> QED
  BY <1>1, <1>2, <1>3

\* The rows of the tables.
TableTypes ==
    /\ row \in [ops : SUBSET Ops, status : {"draft", "validated", "applying"}]
    /\ comments \subseteq Ops
    /\ approval \in Rev!Decision
    /\ signoffs \in [Users -> OpSets]
    /\ breakGlass \in OpSets /\ freezeOver \in OpSets
    /\ ack \subseteq Entries /\ foreign \subseteq Entries
    /\ retracted \subseteq Users

\* A step of a request that is no apply leaves the gates of the apply that may
\* be running alone.
LEMMA OutsideGates ==
    ASSUME ReviewInv, NEW u \in Users, req' \in [Users -> RequestRecords],
           \A v \in Users : v # u => req'[v] = req[v],
           Carried(u)', req'[u].at \notin ApplyAts, UNCHANGED <<applied, applyMu>>, TableTypes'
    PROVE  ReviewInv'
<1>1. ReviewShape /\ Rev!TypeOK /\ Rev!OverridesArePinned /\ applied \in AppliedRecords
  BY DEF ReviewInv, ReviewShape
<1>2. Rev!TypeOK'
  BY <1>1 DEF TableTypes, Rev!TypeOK, ApplyAts, OpSets
<1>3. \A v \in Users : Carried(v)'
  BY <1>1 DEF ReviewShape, Carried
<1>4. ReviewShape'
  BY <1>1, <1>2, <1>3 DEF ReviewShape
<1>5. \A v \in Users : GatesSoFar(v)'
  <2> SUFFICES ASSUME NEW v \in Users PROVE GatesSoFar(v)'
    OBVIOUS
  <2>1. CASE v = u
    BY <2>1 DEF GatesSoFar, ApplyAts
  <2>2. CASE v # u
    BY <2>2 DEF ReviewInv, GatesSoFar
  <2> QED
    BY <2>1, <2>2
<1>6. Rev!OverridesArePinned'
  BY <1>1 DEF Rev!OverridesArePinned, Rev!Passed, Rev!NeedsTwoPersons
<1> QED
  BY <1>4, <1>5, <1>6 DEF ReviewInv

\* A step of the apply that holds applyMu: nobody else is at the gates.
LEMMA InsideGates ==
    ASSUME ReviewInv, NEW u \in Users, req' \in [Users -> RequestRecords],
           \A v \in Users : v # u => req'[v] = req[v],
           Carried(u)', GatesSoFar(u)', TableTypes',
           applyMu \in {u, None}, applyMu' \in {u, None}, None \notin Users,
           applied' \in AppliedRecords, Rev!OverridesArePinned'
    PROVE  ReviewInv'
<1>1. ReviewShape /\ Rev!TypeOK /\ Rev!OverridesArePinned
  BY DEF ReviewInv, ReviewShape
<1>2. \A v \in Users : v # u => req[v].at \notin ApplyAts
  BY <1>1 DEF Rev!TypeOK, ApplyAts
<1>3. \A v \in Users : req'[v].at \in ApplyAts => applyMu' = v
  BY <1>2 DEF GatesSoFar
<1>4. Rev!TypeOK'
  <2>1. applied'.approval \in Rev!Decision
    BY DEF AppliedRecords
  <2> QED
    BY <1>3, <2>1 DEF TableTypes, Rev!TypeOK, ApplyAts, OpSets
<1>5. \A v \in Users : Carried(v)'
  BY <1>1 DEF ReviewShape, Carried
<1>6. ReviewShape'
  BY <1>1, <1>4, <1>5 DEF ReviewShape
<1>7. \A v \in Users : GatesSoFar(v)'
  <2> SUFFICES ASSUME NEW v \in Users PROVE GatesSoFar(v)'
    OBVIOUS
  <2>1. CASE v # u
    BY <1>2, <2>1 DEF GatesSoFar, ApplyAts
  <2> QED
    BY <2>1
<1> QED
  BY <1>6, <1>7 DEF ReviewInv

\* The invariant holds of every statement of every request.
LEMMA ReviewInduction ==
    ASSUME Rev!ReviewAssumption
    PROVE  Rev!Spec => []ReviewInv
<1>1. Rev!Init => ReviewInv
  <2> SUFFICES ASSUME Rev!Init PROVE ReviewInv
    OBVIOUS
  <2>1. Rev!NoDecision \in Rev!Decision
    BY DEF Rev!NoDecision, Rev!Decision
  <2>2. Rev!Idle \in RequestRecords /\ Rev!Idle.at = "idle"
    BY DEF Rev!Idle, RequestRecords, RequestAts
  <2>3. applied \in AppliedRecords /\ applied.approval \in Rev!Decision /\ applied.ops = None
    BY <2>1 DEF Rev!Init, Rev!NotApplied, AppliedRecords, OpSets
  <2>4. req \in [Users -> RequestRecords] /\ \A u \in Users : req[u].at = "idle" /\ req[u] = Rev!Idle
    BY <2>2 DEF Rev!Init
  <2>5. Rev!TypeOK
    BY <2>1, <2>3, <2>4 DEF Rev!Init, Rev!TypeOK
  <2>6. ReviewShape
    BY <2>3, <2>4, <2>5 DEF ReviewShape, Carried, AfterEdit
  <2>7. Rev!OverridesArePinned
    BY <2>3 DEF Rev!OverridesArePinned, Rev!Passed
  <2> QED
    BY <2>4, <2>6, <2>7 DEF ReviewInv, GatesSoFar, ApplyAts
<1>2. ReviewInv /\ [Rev!Next]_(Rev!vars) => ReviewInv'
  <2> SUFFICES ASSUME ReviewInv, [Rev!Next]_(Rev!vars) PROVE ReviewInv'
    OBVIOUS
  <2>0. /\ ReviewShape /\ Rev!TypeOK /\ req \in [Users -> RequestRecords] /\ applied \in AppliedRecords
        /\ \A u \in Users : Carried(u)
        /\ \A u \in Users : GatesSoFar(u)
        /\ Rev!OverridesArePinned /\ TableTypes /\ applyMu \in Users \cup {None}
    BY DEF ReviewInv, ReviewShape, Rev!TypeOK, TableTypes, OpSets
  <2>n. None \notin Users
    BY DEF Rev!ReviewAssumption
  <2>s. row.ops \in SUBSET Ops /\ row.status \in {"draft", "validated", "applying"}
    BY <2>0 DEF TableTypes
  \* The start of a request other than an apply.
  <2>b. ASSUME NEW u \in Users, NEW at \in {"edit", "validate", "comment", "approve", "reject", "glass", "freeze", "ack"},
               NEW new \in (SUBSET Ops) \cup (SUBSET Entries), Rev!Begin(u, at, new),
               at \in {"edit", "comment"} => new \subseteq Ops, at = "ack" => new \subseteq Entries,
               UNCHANGED <<row, comments, approval, signoffs, breakGlass, freezeOver, ack, foreign, applyMu,
                           applied, retracted>>
        PROVE  ReviewInv'
    <3>1. /\ req' \in [Users -> RequestRecords]
          /\ req'[u].at = at /\ req'[u].ops = row.ops /\ req'[u].new = new
          /\ \A v \in Users : v # u => req'[v] = req[v]
      BY <2>0, <2>b, BeginRecord DEF RequestAts
    <3>2. Carried(u)' /\ req'[u].at \notin ApplyAts
      BY <2>b, <3>1 DEF Carried, AfterEdit, ApplyAts
    <3>3. TableTypes'
      BY <2>0, <2>b DEF TableTypes
    <3> QED
      BY <2>b, <3>1, <3>2, <3>3, OutsideGates
  \* The next statement of one, and its last.
  <2>g. ASSUME NEW u \in Users, NEW at \in {"cleanup", "clearApproval", "clearAck", "clearSignoffs", "signoff", "withdraw"},
               at \in AfterEdit => req[u].at \in AfterEdit \cup {"edit"},
               Rev!Goto(u, at), UNCHANGED <<applied, applyMu>>, TableTypes'
        PROVE  ReviewInv'
    <3>1. /\ req' \in [Users -> RequestRecords]
          /\ req'[u].at = at /\ req'[u].ops = req[u].ops /\ req'[u].new = req[u].new
          /\ \A v \in Users : v # u => req'[v] = req[v]
      BY <2>0, <2>g, GotoRecord DEF RequestAts, AfterEdit
    <3>2. Carried(u)' /\ req'[u].at \notin ApplyAts
      BY <2>0, <2>g, <3>1 DEF Carried, AfterEdit, ApplyAts
    <3> QED
      BY <2>g, <3>1, <3>2, OutsideGates
  <2>d. ASSUME NEW u \in Users, Rev!Done(u), UNCHANGED <<applied, applyMu>>, TableTypes'
        PROVE  ReviewInv'
    <3>1. /\ req' \in [Users -> RequestRecords]
          /\ req'[u] = Rev!Idle /\ req'[u].at = "idle"
          /\ \A v \in Users : v # u => req'[v] = req[v]
      BY <2>0, <2>d, DoneRecord
    <3>2. Carried(u)' /\ req'[u].at \notin ApplyAts
      BY <3>1 DEF Carried, AfterEdit, ApplyAts
    <3> QED
      BY <2>d, <3>1, <3>2, OutsideGates
  <2>1. ASSUME NEW u \in Users, Rev!EditStep(u) PROVE ReviewInv'
    <3>0. req[u] \in RequestRecords /\ Carried(u)
      BY <2>0
    <3>1. ASSUME NEW o \in SUBSET Ops, Rev!UpdateDraft(u, o) PROVE ReviewInv'
      BY <2>b, <3>1 DEF Rev!UpdateDraft, Rev!tables, Rev!history
    <3>2. CASE Rev!EditRow(u)
      <4>1. TableTypes'
        BY <2>0, <3>0, <3>2 DEF Rev!EditRow, TableTypes, Carried, Rev!tables, Rev!history
      <4> QED
        BY <2>g, <3>2, <4>1 DEF Rev!EditRow, AfterEdit, Rev!history
    <3>3. CASE Rev!cleanupOrphanedComments(u)
      <4>1. TableTypes'
        BY <2>0, <3>3 DEF Rev!cleanupOrphanedComments, TableTypes, Rev!history
      <4> QED
        BY <2>g, <3>3, <4>1 DEF Rev!cleanupOrphanedComments, AfterEdit, Rev!history
    <3>4. CASE Rev!clearApproval(u)
      <4>1. Rev!NoDecision \in Rev!Decision
        BY DEF Rev!NoDecision, Rev!Decision
      <4>2. TableTypes'
        BY <2>0, <3>4, <4>1 DEF Rev!clearApproval, TableTypes, Rev!history
      <4> QED
        BY <2>g, <3>4, <4>2 DEF Rev!clearApproval, AfterEdit, Rev!history
    <3>5. CASE Rev!clearSDNPendingAck(u)
      <4>1. TableTypes'
        BY <2>0, <3>5 DEF Rev!clearSDNPendingAck, TableTypes, Rev!history
      <4> QED
        BY <2>g, <3>5, <4>1 DEF Rev!clearSDNPendingAck, AfterEdit, Rev!history
    <3>6. CASE Rev!clearSignoffs(u)
      <4>1. TableTypes'
        BY <2>0, <3>6 DEF Rev!clearSignoffs, TableTypes, OpSets, Rev!history
      <4> QED
        BY <2>d, <3>6, <4>1 DEF Rev!clearSignoffs, Rev!history
    <3>7. CASE Rev!Validate(u)
      BY <2>b, <3>7 DEF Rev!Validate, Rev!tables, Rev!history
    <3>8. CASE Rev!ValidateWrite(u)
      <4>1. req[u].ops \in SUBSET Ops
        BY <3>0 DEF RequestRecords
      <4>2. row' \in [ops : SUBSET Ops, status : {"draft", "validated", "applying"}]
        BY <3>8, <4>1 DEF Rev!ValidateWrite
      <4>3. TableTypes'
        BY <2>0, <3>8, <4>2 DEF Rev!ValidateWrite, TableTypes, Rev!tables, Rev!history
      <4> QED
        BY <2>d, <3>8, <4>3 DEF Rev!ValidateWrite, Rev!history
    <3> QED
      BY <2>1, <3>1, <3>2, <3>3, <3>4, <3>5, <3>6, <3>7, <3>8 DEF Rev!EditStep
  <2>2. ASSUME NEW u \in Users, Rev!ReviewStep(u) PROVE ReviewInv'
    <3>0. req[u] \in RequestRecords /\ Carried(u) /\ req[u].ops \in SUBSET Ops
      BY <2>0 DEF RequestRecords
    <3>1. ASSUME NEW o \in Ops, Rev!AddComment(u, o) PROVE ReviewInv'
      <4>1. PICK new \in SUBSET Ops : new = {o}
        OBVIOUS
      <4>2. new \in (SUBSET Ops) \cup (SUBSET Entries) /\ Rev!Begin(u, "comment", new)
        BY <3>1, <4>1 DEF Rev!AddComment
      <4> QED
        BY <2>b, <3>1, <4>2 DEF Rev!AddComment, Rev!tables, Rev!history
    <3>2. CASE Rev!CommentInsert(u)
      <4>1. TableTypes'
        BY <2>0, <3>0, <3>2 DEF Rev!CommentInsert, TableTypes, Carried, Rev!history
      <4> QED
        BY <2>d, <3>2, <4>1 DEF Rev!CommentInsert, Rev!history
    <3>3. CASE Rev!ReviewApprove(u) \/ Rev!ReviewReject(u)
      BY <2>b, <3>3 DEF Rev!ReviewApprove, Rev!ReviewReject, Rev!tables, Rev!history
    <3>4. CASE Rev!ApproveUpsert(u)
      <4>1. approval' \in Rev!Decision
        BY <3>0, <3>4 DEF Rev!ApproveUpsert, Rev!Decision
      <4>2. TableTypes'
        BY <2>0, <3>4, <4>1 DEF Rev!ApproveUpsert, TableTypes
      <4> QED
        BY <2>g, <3>4, <4>2 DEF Rev!ApproveUpsert, AfterEdit
    <3>5. CASE Rev!recordSignoff(u)
      <4>1. TableTypes'
        BY <2>0, <3>0, <3>5 DEF Rev!recordSignoff, TableTypes, OpSets, Rev!history
      <4> QED
        BY <2>d, <3>5, <4>1 DEF Rev!recordSignoff, Rev!history
    <3>6. CASE Rev!RejectUpsert(u)
      <4>1. approval' \in Rev!Decision
        BY <3>0, <3>6 DEF Rev!RejectUpsert, Rev!Decision
      <4>2. TableTypes'
        BY <2>0, <3>6, <4>1 DEF Rev!RejectUpsert, TableTypes, Rev!history
      <4> QED
        BY <2>g, <3>6, <4>2 DEF Rev!RejectUpsert, AfterEdit, Rev!history
    <3>7. CASE Rev!withdrawSignoff(u)
      <4>1. TableTypes'
        BY <2>0, <3>7 DEF Rev!withdrawSignoff, TableTypes, OpSets
      <4> QED
        BY <2>d, <3>7, <4>1 DEF Rev!withdrawSignoff
    <3> QED
      BY <2>2, <3>1, <3>2, <3>3, <3>4, <3>5, <3>6, <3>7 DEF Rev!ReviewStep
  <2>3. ASSUME NEW u \in Users, Rev!OverrideStep(u) PROVE ReviewInv'
    <3>0. req[u] \in RequestRecords /\ Carried(u) /\ req[u].ops \in SUBSET Ops
      BY <2>0 DEF RequestRecords
    <3>1. CASE Rev!InvokeBreakGlass(u) \/ Rev!InvokeFreezeOverride(u)
      BY <2>b, <3>1 DEF Rev!InvokeBreakGlass, Rev!InvokeFreezeOverride, Rev!tables, Rev!history
    <3>2. CASE Rev!BreakGlassUpsert(u)
      <4>1. TableTypes'
        BY <2>0, <3>0, <3>2 DEF Rev!BreakGlassUpsert, TableTypes, OpSets, Rev!history
      <4> QED
        BY <2>d, <3>2, <4>1 DEF Rev!BreakGlassUpsert, Rev!history
    <3>3. CASE Rev!FreezeUpsert(u)
      <4>1. TableTypes'
        BY <2>0, <3>0, <3>3 DEF Rev!FreezeUpsert, TableTypes, OpSets, Rev!history
      <4> QED
        BY <2>d, <3>3, <4>1 DEF Rev!FreezeUpsert, Rev!history
    <3>4. CASE Rev!AcknowledgeSDNForeignPending(u)
      <4>1. PICK new \in SUBSET Entries : new = IF row.ops \cap SDNOps # {} THEN foreign ELSE {}
        BY <2>0 DEF TableTypes
      <4>2. new \in (SUBSET Ops) \cup (SUBSET Entries) /\ Rev!Begin(u, "ack", new) /\ new \subseteq Entries
        BY <3>4, <4>1 DEF Rev!AcknowledgeSDNForeignPending
      <4>3. UNCHANGED <<row, comments, approval, signoffs, breakGlass, freezeOver, ack, foreign, applyMu, applied, retracted>>
        BY <3>4 DEF Rev!AcknowledgeSDNForeignPending, Rev!tables, Rev!history
      <4> QED
        BY <2>b, <4>2, <4>3
    <3>5. CASE Rev!AckUpsert(u)
      <4>1. TableTypes'
        BY <2>0, <3>0, <3>5 DEF Rev!AckUpsert, TableTypes, Carried, Rev!history
      <4> QED
        BY <2>d, <3>5, <4>1 DEF Rev!AckUpsert, Rev!history
    <3> QED
      BY <2>3, <3>1, <3>2, <3>3, <3>4, <3>5 DEF Rev!OverrideStep
  \* An apply that a gate refuses.
  <2>r. ASSUME NEW u \in Users, req[u].at \in ApplyAts, Rev!Refuse(u), UNCHANGED applied, TableTypes'
        PROVE  ReviewInv'
    <3>1. /\ req' \in [Users -> RequestRecords]
          /\ req'[u] = Rev!Idle /\ req'[u].at = "idle"
          /\ \A v \in Users : v # u => req'[v] = req[v]
      BY <2>0, <2>r, DoneRecord DEF Rev!Refuse
    <3>2. Carried(u)' /\ GatesSoFar(u)'
      BY <3>1 DEF Carried, AfterEdit, ApplyAts, GatesSoFar
    <3>3. applyMu = u /\ applyMu' = None
      BY <2>0, <2>r DEF GatesSoFar, Rev!Refuse
    <3>4. Rev!OverridesArePinned'
      BY <2>0, <2>r DEF Rev!OverridesArePinned, Rev!Passed, Rev!NeedsTwoPersons
    <3> QED
      BY <2>0, <2>n, <2>r, <3>1, <3>2, <3>3, <3>4, InsideGates
  \* An apply that passes one and records what it went by.
  <2>p. ASSUME NEW u \in Users, req[u].at \in ApplyAts, NEW at \in ApplyAts, Rev!Goto(u, at),
               applied' \in AppliedRecords, applied'.ops = applied.ops, GatesSoFar(u)',
               UNCHANGED <<row, comments, approval, signoffs, breakGlass, freezeOver, ack, foreign, applyMu, retracted>>
        PROVE  ReviewInv'
    <3>1. /\ req' \in [Users -> RequestRecords]
          /\ req'[u].at = at /\ req'[u].ops = req[u].ops /\ req'[u].new = req[u].new
          /\ \A v \in Users : v # u => req'[v] = req[v]
      BY <2>0, <2>p, GotoRecord DEF RequestAts
    <3>2. Carried(u)' /\ applyMu = u /\ applied.ops = None
      BY <2>0, <2>p, <3>1 DEF Carried, AfterEdit, ApplyAts, GatesSoFar
    <3>3. Rev!OverridesArePinned'
      BY <2>p, <3>2 DEF Rev!OverridesArePinned, Rev!Passed
    <3>4. TableTypes'
      BY <2>0, <2>p DEF TableTypes
    <3> QED
      BY <2>n, <2>p, <3>1, <3>2, <3>3, <3>4, InsideGates
  <2>4. ASSUME NEW u \in Users, Rev!ApplyStep(u) PROVE ReviewInv'
    <3>0. req[u] \in RequestRecords /\ GatesSoFar(u) /\ req[u].ops \in SUBSET Ops
      BY <2>0 DEF RequestRecords
    <3>1. CASE Rev!ApplyRead(u)
      <4>1. UNCHANGED <<row, comments, approval, signoffs, breakGlass, freezeOver, ack, foreign, retracted>>
            /\ applied' = Rev!NotApplied /\ applyMu = None /\ applyMu' = u /\ Rev!Begin(u, "isApproved", {})
        BY <3>1 DEF Rev!ApplyRead, Rev!tables
      <4>2. /\ req' \in [Users -> RequestRecords] /\ req'[u].at = "isApproved"
            /\ \A v \in Users : v # u => req'[v] = req[v]
        BY <2>0, <4>1, BeginRecord DEF RequestAts, ApplyAts
      <4>3. applied' \in AppliedRecords /\ applied'.ops = None
        BY <4>1 DEF Rev!NotApplied, AppliedRecords, Rev!NoDecision, Rev!Decision, OpSets
      <4>4. Carried(u)' /\ GatesSoFar(u)'
        BY <4>1, <4>2, <4>3 DEF Carried, AfterEdit, ApplyAts, GatesSoFar
      <4>5. Rev!OverridesArePinned'
        BY <4>3 DEF Rev!OverridesArePinned, Rev!Passed
      <4>6. TableTypes'
        BY <2>0, <4>1 DEF TableTypes
      <4> QED
        BY <2>n, <4>1, <4>2, <4>3, <4>4, <4>5, <4>6, InsideGates
    <3>2. CASE Rev!isApproved(u)
      <4>1. req[u].at = "isApproved" /\ UNCHANGED <<row, comments, approval, signoffs, breakGlass, freezeOver, ack, foreign, retracted>>
        BY <3>2 DEF Rev!isApproved, Rev!tables
      <4>2. TableTypes'
        BY <2>0, <4>1 DEF TableTypes
      <4>3. CASE applied' = [applied EXCEPT !.approval = approval] /\ Rev!Goto(u, "revalidate") /\ UNCHANGED applyMu
        <5>1. approval \in Rev!Decision
          BY <2>0 DEF TableTypes
        <5>2. applied' \in AppliedRecords /\ applied'.ops = applied.ops
          BY <2>0, <4>3, <5>1 DEF AppliedRecords
        <5>3. req'[u].at = "revalidate"
          BY <2>0, <4>3, GotoRecord DEF RequestAts, ApplyAts
        <5>4. GatesSoFar(u)'
          BY <3>0, <4>1, <4>3, <5>2, <5>3 DEF GatesSoFar, ApplyAts
        <5> QED
          BY <2>p, <4>1, <4>3, <5>2, <5>4 DEF ApplyAts
      <4> QED
        BY <2>r, <3>2, <4>1, <4>2, <4>3 DEF Rev!isApproved, ApplyAts
    <3>3. CASE Rev!Revalidate(u)
      <4>1. req[u].at = "revalidate" /\ UNCHANGED <<comments, approval, signoffs, breakGlass, freezeOver, ack, foreign, retracted>>
        BY <3>3 DEF Rev!Revalidate, Rev!tables
      <4>2. CASE row' = [ops |-> req[u].ops, status |-> "draft"] /\ Rev!Refuse(u) /\ UNCHANGED applied
        <5>1. row' \in [ops : SUBSET Ops, status : {"draft", "validated", "applying"}]
          BY <3>0, <4>2
        <5>2. TableTypes'
          BY <2>0, <4>1, <5>1 DEF TableTypes
        <5> QED
          BY <2>r, <4>1, <4>2, <5>2 DEF ApplyAts
      <4>3. CASE /\ req[u].ops \cap FrozenOps # {} => freezeOver = req[u].ops
                 /\ applied' = [applied EXCEPT !.freeze = freezeOver]
                 /\ Rev!Goto(u, "twoPerson")
                 /\ UNCHANGED <<row, applyMu>>
        <5>1. freezeOver \in OpSets
          BY <2>0 DEF TableTypes
        <5>2. applied' \in AppliedRecords /\ applied'.ops = applied.ops /\ applied'.freeze = freezeOver
          BY <2>0, <4>3, <5>1 DEF AppliedRecords
        <5>3. req'[u].at = "twoPerson" /\ req'[u].ops = req[u].ops
          BY <2>0, <4>3, GotoRecord DEF RequestAts, ApplyAts
        <5>4. GatesSoFar(u)'
          BY <3>0, <4>1, <4>3, <5>2, <5>3 DEF GatesSoFar, ApplyAts
        <5> QED
          BY <2>p, <4>1, <4>3, <5>2, <5>4 DEF ApplyAts
      <4> QED
        BY <3>3, <4>2, <4>3 DEF Rev!Revalidate, Rev!Blocked, Rev!Overridden
    <3>4. CASE Rev!enforceTwoPerson(u)
      <4> DEFINE P == Rev!signoffPrincipals
                 E == {signoffs[v] : v \in P}
      <4>1. req[u].at = "twoPerson" /\ UNCHANGED <<row, comments, approval, signoffs, breakGlass, freezeOver, ack, foreign, retracted>>
        BY <3>4 DEF Rev!enforceTwoPerson, Rev!tables
      <4>2. TableTypes'
        BY <2>0, <4>1 DEF TableTypes
      <4>3. P \in SUBSET Users /\ E \in SUBSET SUBSET Ops /\ breakGlass \in OpSets
        BY <2>0 DEF Rev!signoffPrincipals, TableTypes, OpSets
      <4>4. Rev!Cardinality(P) \in Nat /\ Approvals \in Nat
        BY <4>3, SignersCount DEF Rev!ReviewAssumption
      <4>5. CASE /\ \/ req[u].ops \cap ProtectedOps = {}
                    \/ Rev!Cardinality(P) >= Approvals
                    \/ breakGlass # None /\ breakGlass = req[u].ops
                 /\ applied' = [applied EXCEPT !.signers = P, !.endorsed = E, !.glass = breakGlass]
                 /\ Rev!Goto(u, "foreign") /\ UNCHANGED applyMu
        <5> HIDE DEF P, E
        <5>2. /\ applied' \in AppliedRecords /\ applied'.ops = applied.ops /\ applied'.signers = P
              /\ applied'.glass = breakGlass /\ applied'.freeze = applied.freeze
          BY <2>0, <4>3, <4>5 DEF AppliedRecords
        <5>3. req'[u].at = "foreign" /\ req'[u].ops = req[u].ops
          BY <2>0, <4>5, GotoRecord DEF RequestAts, ApplyAts
        <5>4. GatesSoFar(u)'
          <6>1. req[u].ops \cap ProtectedOps # {} /\ Rev!Cardinality(P) < Approvals => breakGlass = req[u].ops
            BY <4>4, <4>5
          <6> QED
            BY <3>0, <4>1, <4>5, <5>2, <5>3, <6>1 DEF GatesSoFar, ApplyAts
        <5> QED
          BY <2>p, <4>1, <4>5, <5>2, <5>4 DEF ApplyAts
      <4> QED
        BY <2>r, <3>4, <4>1, <4>2, <4>5 DEF Rev!enforceTwoPerson, ApplyAts
    <3>5. CASE Rev!ForeignGate(u)
      <4>1. req[u].at = "foreign" /\ UNCHANGED <<row, comments, approval, signoffs, breakGlass, freezeOver, ack, foreign, retracted>>
        BY <3>5 DEF Rev!ForeignGate, Rev!tables
      <4>2. TableTypes'
        BY <2>0, <4>1 DEF TableTypes
      <4>3. PICK pending \in SUBSET Entries : pending = IF req[u].ops \cap SDNOps # {} THEN foreign ELSE {}
        BY <2>0 DEF TableTypes
      <4>4. CASE /\ pending \subseteq ack
                 /\ applied' = [applied EXCEPT !.pending = pending, !.acked = ack]
                 /\ Rev!Goto(u, "persist") /\ UNCHANGED applyMu
        <5>1. ack \in SUBSET Entries
          BY <2>0 DEF TableTypes
        <5>2. /\ applied' \in AppliedRecords /\ applied'.ops = applied.ops /\ applied'.signers = applied.signers
              /\ applied'.glass = applied.glass /\ applied'.freeze = applied.freeze
              /\ applied'.pending = pending /\ applied'.acked = ack
          BY <2>0, <4>3, <4>4, <5>1 DEF AppliedRecords
        <5>3. req'[u].at = "persist" /\ req'[u].ops = req[u].ops
          BY <2>0, <4>4, GotoRecord DEF RequestAts, ApplyAts
        <5>4. GatesSoFar(u)'
          BY <3>0, <4>1, <4>4, <5>2, <5>3 DEF GatesSoFar, ApplyAts
        <5> QED
          BY <2>p, <4>1, <4>4, <5>2, <5>4 DEF ApplyAts
      <4> QED
        BY <2>r, <3>5, <4>1, <4>2, <4>3, <4>4 DEF Rev!ForeignGate, Rev!isSDNForeignPendingCovered, ApplyAts
    <3>6. CASE Rev!ApplyPersist(u)
      <4>1. /\ req[u].at = "persist" /\ Rev!Refuse(u) /\ row' = [ops |-> req[u].ops, status |-> "applying"]
            /\ applied' = [applied EXCEPT !.ops = req[u].ops]
            /\ UNCHANGED <<comments, approval, signoffs, breakGlass, freezeOver, ack, foreign, retracted>>
        BY <3>6 DEF Rev!ApplyPersist, Rev!tables
      <4>2. row' \in [ops : SUBSET Ops, status : {"draft", "validated", "applying"}]
        BY <3>0, <4>1
      <4>3. TableTypes'
        BY <2>0, <4>1, <4>2 DEF TableTypes
      <4>4. /\ applied' \in AppliedRecords /\ applied'.ops = req[u].ops /\ applied'.signers = applied.signers
            /\ applied'.glass = applied.glass /\ applied'.freeze = applied.freeze
            /\ applied'.pending = applied.pending /\ applied'.acked = applied.acked
        BY <2>0, <3>0, <4>1 DEF AppliedRecords, OpSets
      <4>5. Rev!OverridesArePinned'
        BY <3>0, <4>1, <4>4 DEF Rev!OverridesArePinned, Rev!Passed, Rev!NeedsTwoPersons, GatesSoFar
      <4>6. /\ req' \in [Users -> RequestRecords]
            /\ req'[u] = Rev!Idle /\ req'[u].at = "idle"
            /\ \A v \in Users : v # u => req'[v] = req[v]
        BY <2>0, <4>1, DoneRecord DEF Rev!Refuse
      <4>7. Carried(u)' /\ GatesSoFar(u)' /\ applyMu = u /\ applyMu' = None
        BY <3>0, <4>1, <4>6 DEF Carried, AfterEdit, ApplyAts, GatesSoFar, Rev!Refuse
      <4> QED
        BY <2>n, <4>3, <4>4, <4>5, <4>6, <4>7, InsideGates
    <3> QED
      BY <2>4, <3>1, <3>2, <3>3, <3>4, <3>5, <3>6 DEF Rev!ApplyStep
  <2>5. CASE Rev!ForeignEdit \/ UNCHANGED Rev!vars
    <3>1. foreign' \subseteq Entries /\ UNCHANGED <<row, comments, approval, signoffs, breakGlass, freezeOver, ack, req, applyMu,
                                                   applied, retracted>>
      BY <2>0, <2>5 DEF Rev!ForeignEdit, Rev!vars, Rev!tables, Rev!history, TableTypes
    <3>2. ReviewShape'
      BY <2>0, <3>1 DEF ReviewShape, Rev!TypeOK, Carried
    <3> QED
      BY <2>0, <3>1, <3>2 DEF ReviewInv, GatesSoFar, Rev!OverridesArePinned, Rev!Passed, Rev!NeedsTwoPersons
  <2> QED
    BY <2>1, <2>2, <2>3, <2>4, <2>5 DEF Rev!Next
<1> QED
  BY <1>1, <1>2, PTL DEF Rev!Spec

\* The gates' state has its type, however requests overlap.
THEOREM ReviewTypes ==
    ASSUME Rev!ReviewAssumption
    PROVE  Rev!Spec => []Rev!TypeOK
<1>1. ReviewInv => Rev!TypeOK
  BY DEF ReviewInv, ReviewShape
<1> QED
  BY <1>1, ReviewInduction, PTL

\* However requests overlap and whichever of the logged statements fail, an
\* override counts for the ops it was given for and no others, and no pending
\* SDN entry is swept in that no acknowledgement covers.
THEOREM OverridesPinned ==
    ASSUME Rev!ReviewAssumption
    PROVE  Rev!Spec => []Rev!OverridesArePinned
<1>1. ReviewInv => Rev!OverridesArePinned
  BY DEF ReviewInv
<1> QED
  BY <1>1, ReviewInduction, PTL

-----------------------------------------------------------------------------
(* Requests one at a time, with statements that do not fail. *)

SerialSetting == OneAtATime = TRUE /\ LoggedFaults = FALSE

Entitled(u) == Rev!Allowed(u) /\ (AllowSelfApproval \/ u # Author)

\* What the tables say while the one request that may run is u's.
Served(u) ==
    /\ req[u].at \notin AfterEdit \cup {"idle"} => req[u].ops = row.ops
    /\ req[u].at \in AfterEdit => req[u].new = row.ops
    /\ req[u].at = "approve" => Entitled(u)
    /\ req[u].at = "comment" => req[u].new \subseteq row.ops
    /\ approval.status = "approved" => Entitled(approval.by)
    /\ approval.status = "approved" => approval.of = row.ops \/ req[u].at \in {"cleanup", "clearApproval"}
    /\ req[u].at \notin AfterEdit => \A v \in Users : signoffs[v] \in {None, row.ops}
    /\ req[u].at # "cleanup" => comments \subseteq row.ops
    /\ req[u].at = "cleanup" => comments \subseteq req[u].ops
    /\ req[u].at \in ApplyAts \ {"isApproved"} /\ Required =>
           /\ applied.approval.status = "approved" /\ applied.approval.of = row.ops
           /\ Entitled(applied.approval.by)
    /\ req[u].at \in {"foreign", "persist"} /\ row.ops \cap ProtectedOps # {} /\ applied.glass # row.ops =>
           Rev!Cardinality(applied.signers) >= Approvals /\ applied.endorsed \subseteq {row.ops}

Alone(u) == \A v \in Users : v # u => req[v] = Rev!Idle

SerialInv ==
    /\ \E u \in Users : Alone(u) /\ Served(u)
    /\ Rev!AppliedWasApproved /\ Rev!AppliedWasEndorsed

\* Whoever takes a step is the one.
LEMMA TheOne ==
    ASSUME SerialInv, NEW w \in Users, req[w].at # "idle" \/ \A v \in Users : req[v] = Rev!Idle
    PROVE  Alone(w) /\ Served(w)
<1>1. PICK u \in Users : Alone(u) /\ Served(u)
  BY DEF SerialInv
<1>2. Rev!Idle.at = "idle"
  BY DEF Rev!Idle
<1>3. CASE req[w].at # "idle"
  <2>1. u = w
    BY <1>1, <1>2, <1>3 DEF Alone
  <2> QED
    BY <1>1, <2>1
<1>4. CASE \A v \in Users : req[v] = Rev!Idle
  <2>1. req[u] = req[w] /\ req[w].at = "idle"
    BY <1>2, <1>4
  <2> QED
    BY <1>1, <1>4, <2>1 DEF Alone, Served, AfterEdit, ApplyAts
<1> QED
  BY <1>3, <1>4

\* A step of the one request, which keeps what was applied.
LEMMA OneStep ==
    ASSUME SerialInv, NEW w \in Users, Alone(w), \A v \in Users : v # w => req'[v] = req[v], Served(w)',
           UNCHANGED applied
    PROVE  SerialInv'
<1>1. Alone(w)'
  BY DEF Alone, Rev!Idle
<1>2. Rev!AppliedWasApproved' /\ Rev!AppliedWasEndorsed'
  BY DEF SerialInv, Rev!AppliedWasApproved, Rev!AppliedWasEndorsed, Rev!Passed, Rev!NeedsTwoPersons, Rev!Allowed
<1> QED
  BY <1>1, <1>2 DEF SerialInv

\* A step of the one request that has not passed the gates.
LEMMA GateStep ==
    ASSUME SerialInv, NEW w \in Users, Alone(w), \A v \in Users : v # w => req'[v] = req[v], Served(w)',
           applied'.ops = None
    PROVE  SerialInv'
<1>1. Alone(w)'
  BY DEF Alone, Rev!Idle
<1>2. Rev!AppliedWasApproved' /\ Rev!AppliedWasEndorsed'
  BY DEF Rev!AppliedWasApproved, Rev!AppliedWasEndorsed, Rev!Passed, Rev!NeedsTwoPersons
<1> QED
  BY <1>1, <1>2 DEF SerialInv

\* The invariant of serial requests, step by step.
LEMMA SerialSteps ==
    ASSUME Rev!ReviewAssumption, SerialSetting, ReviewInv, SerialInv, [Rev!Next]_(Rev!vars)
    PROVE  SerialInv'
<1>0. /\ ReviewShape /\ req \in [Users -> RequestRecords] /\ applied \in AppliedRecords
      /\ \A u \in Users : Carried(u)
      /\ \A u \in Users : GatesSoFar(u)
      /\ row.ops \in SUBSET Ops /\ signoffs \in [Users -> OpSets] /\ approval \in Rev!Decision
  BY DEF ReviewInv, ReviewShape, Rev!TypeOK, OpSets
<1>l. Rev!Logged = {TRUE} /\ OneAtATime
  BY DEF Rev!Logged, SerialSetting
<1>n. Rev!NoDecision.status = "none"
  BY DEF Rev!NoDecision
\* The start of a request other than an apply.
<1>b. ASSUME NEW u \in Users, NEW at \in {"edit", "validate", "comment", "approve", "reject", "glass", "freeze", "ack"},
             NEW new \in (SUBSET Ops) \cup (SUBSET Entries), Rev!Begin(u, at, new),
             at = "approve" => Entitled(u), at = "comment" => new \subseteq row.ops,
             UNCHANGED <<row, comments, approval, signoffs, applied>>
      PROVE  SerialInv'
  <2>0. at \in RequestAts
    BY <1>b DEF RequestAts
  <2>1. /\ req'[u].at = at /\ req'[u].ops = row.ops /\ req'[u].new = new
        /\ \A v \in Users : v # u => req'[v] = req[v]
        /\ req[u] = Rev!Idle /\ req[u].at = "idle"
        /\ \A v \in Users : req[v] = Rev!Idle
    BY <1>0, <1>b, <1>l, <2>0, BeginRecord
  <2>2. Alone(u) /\ Served(u)
    BY <2>1, TheOne
  <2>3. Served(u)'
    BY <1>b, <2>1, <2>2 DEF Served, AfterEdit, ApplyAts, Entitled, Rev!Allowed
  <2> QED
    BY <1>b, <2>1, <2>2, <2>3, OneStep
\* Its end, when the tables agree with the row.
<1>d. ASSUME NEW u \in Users, req[u].at \notin {"idle", "cleanup", "clearApproval"}, Rev!Done(u), UNCHANGED <<approval, applied>>,
             row'.ops = row.ops,
             \A v \in Users : signoffs'[v] \in {None, row.ops}, comments' \subseteq row.ops
      PROVE  SerialInv'
  <2>1. req'[u].at = "idle" /\ \A v \in Users : v # u => req'[v] = req[v]
    BY <1>0, <1>d, DoneRecord
  <2>2. Alone(u) /\ Served(u)
    BY <1>d, TheOne
  <2>3. Served(u)'
    BY <1>d, <2>1, <2>2 DEF Served, AfterEdit, ApplyAts, Entitled, Rev!Allowed
  <2> QED
    BY <1>d, <2>1, <2>2, <2>3, OneStep
<1>1. ASSUME NEW u \in Users, Rev!EditStep(u) PROVE SerialInv'
  <2>1. ASSUME NEW o \in SUBSET Ops, Rev!UpdateDraft(u, o) PROVE SerialInv'
    BY <1>b, <2>1 DEF Rev!UpdateDraft, Rev!tables, Rev!history
  <2>2. CASE Rev!EditRow(u)
    <3>1. req[u].at = "edit" /\ row'.ops = req[u].new /\ UNCHANGED <<comments, approval, signoffs, applied>>
      BY <2>2 DEF Rev!EditRow, Rev!tables, Rev!history
    <3>2. Alone(u) /\ Served(u)
      BY <3>1, TheOne
    <3>3. /\ req'[u].at = "cleanup" /\ req'[u].ops = req[u].ops /\ req'[u].new = req[u].new
          /\ \A v \in Users : v # u => req'[v] = req[v]
      BY <1>0, <2>2, GotoRecord DEF Rev!EditRow, RequestAts, AfterEdit
    <3>4. Served(u)'
      BY <3>1, <3>2, <3>3 DEF Served, AfterEdit, ApplyAts, Entitled, Rev!Allowed
    <3> QED
      BY <3>1, <3>2, <3>3, <3>4, OneStep
  <2>3. CASE Rev!cleanupOrphanedComments(u)
    <3>1. req[u].at = "cleanup" /\ UNCHANGED <<row, approval, signoffs, applied>>
          /\ comments' = comments \ (req[u].ops \ req[u].new)
      BY <1>l, <2>3 DEF Rev!cleanupOrphanedComments, Rev!history
    <3>2. Alone(u) /\ Served(u)
      BY <3>1, TheOne
    <3>3. /\ req'[u].at = "clearApproval" /\ req'[u].ops = req[u].ops /\ req'[u].new = req[u].new
          /\ \A v \in Users : v # u => req'[v] = req[v]
      BY <1>0, <2>3, GotoRecord DEF Rev!cleanupOrphanedComments, RequestAts, AfterEdit
    <3>4. comments' \subseteq row.ops
      BY <3>1, <3>2 DEF Served, AfterEdit
    <3>5. Served(u)'
      BY <3>1, <3>2, <3>3, <3>4 DEF Served, AfterEdit, ApplyAts, Entitled, Rev!Allowed
    <3> QED
      BY <3>1, <3>2, <3>3, <3>5, OneStep
  <2>4. CASE Rev!clearApproval(u)
    <3>1. req[u].at = "clearApproval" /\ UNCHANGED <<row, comments, signoffs, applied>> /\ approval' = Rev!NoDecision
      BY <1>l, <2>4 DEF Rev!clearApproval, Rev!history
    <3>2. Alone(u) /\ Served(u)
      BY <3>1, TheOne
    <3>3. /\ req'[u].at = "clearAck" /\ req'[u].ops = req[u].ops /\ req'[u].new = req[u].new
          /\ \A v \in Users : v # u => req'[v] = req[v]
      BY <1>0, <2>4, GotoRecord DEF Rev!clearApproval, RequestAts, AfterEdit
    <3>4. Served(u)'
      BY <1>n, <3>1, <3>2, <3>3 DEF Served, AfterEdit, ApplyAts, Entitled, Rev!Allowed
    <3> QED
      BY <3>1, <3>2, <3>3, <3>4, OneStep
  <2>5. CASE Rev!clearSDNPendingAck(u)
    <3>1. req[u].at = "clearAck" /\ UNCHANGED <<row, comments, approval, signoffs, applied>>
      BY <2>5 DEF Rev!clearSDNPendingAck, Rev!history
    <3>2. Alone(u) /\ Served(u)
      BY <3>1, TheOne
    <3>3. /\ req'[u].at = "clearSignoffs" /\ req'[u].ops = req[u].ops /\ req'[u].new = req[u].new
          /\ \A v \in Users : v # u => req'[v] = req[v]
      BY <1>0, <2>5, GotoRecord DEF Rev!clearSDNPendingAck, RequestAts, AfterEdit
    <3>4. Served(u)'
      BY <3>1, <3>2, <3>3 DEF Served, AfterEdit, ApplyAts, Entitled, Rev!Allowed
    <3> QED
      BY <3>1, <3>2, <3>3, <3>4, OneStep
  <2>6. CASE Rev!clearSignoffs(u)
    <3>1. req[u].at = "clearSignoffs" /\ UNCHANGED <<row, comments, approval, applied>> /\ Rev!Done(u)
          /\ signoffs' = [v \in Users |-> None]
      BY <1>l, <2>6 DEF Rev!clearSignoffs, Rev!history
    <3>2. comments \subseteq row.ops
      BY <3>1, TheOne DEF Served
    <3> QED
      BY <1>d, <3>1, <3>2
  <2>7. CASE Rev!Validate(u)
    BY <1>b, <2>7 DEF Rev!Validate, Rev!tables, Rev!history
  <2>8. CASE Rev!ValidateWrite(u)
    <3>1. req[u].at = "validate" /\ UNCHANGED <<comments, approval, signoffs, applied>> /\ Rev!Done(u) /\ row'.ops = req[u].ops
      BY <2>8 DEF Rev!ValidateWrite, Rev!tables, Rev!history
    <3>2. comments \subseteq row.ops /\ row.ops = req[u].ops /\ \A v \in Users : signoffs[v] \in {None, row.ops}
      BY <3>1, TheOne DEF Served, AfterEdit
    <3> QED
      BY <1>d, <3>1, <3>2
  <2> QED
    BY <1>1, <2>1, <2>2, <2>3, <2>4, <2>5, <2>6, <2>7, <2>8 DEF Rev!EditStep
<1>2. ASSUME NEW u \in Users, Rev!ReviewStep(u) PROVE SerialInv'
  <2>1. ASSUME NEW o \in Ops, Rev!AddComment(u, o) PROVE SerialInv'
    <3>1. PICK new \in SUBSET Ops : new = {o}
      OBVIOUS
    <3>2. /\ new \in (SUBSET Ops) \cup (SUBSET Entries) /\ Rev!Begin(u, "comment", new) /\ new \subseteq row.ops
          /\ UNCHANGED <<row, comments, approval, signoffs, applied>>
      BY <2>1, <3>1 DEF Rev!AddComment, Rev!tables, Rev!history
    <3> QED
      BY <1>b, <3>2
  <2>2. CASE Rev!CommentInsert(u)
    <3>1. req[u].at = "comment" /\ UNCHANGED <<row, approval, signoffs, applied>> /\ Rev!Done(u)
          /\ comments' = comments \cup req[u].new
      BY <2>2 DEF Rev!CommentInsert, Rev!history
    <3>2. comments' \subseteq row.ops /\ \A v \in Users : signoffs[v] \in {None, row.ops}
      BY <3>1, TheOne DEF Served, AfterEdit
    <3> QED
      BY <1>d, <3>1, <3>2
  <2>3. CASE Rev!ReviewApprove(u) \/ Rev!ReviewReject(u)
    BY <1>b, <2>3 DEF Rev!ReviewApprove, Rev!ReviewReject, Rev!tables, Rev!history, Entitled
  <2>4. CASE Rev!ApproveUpsert(u)
    <3>1. req[u].at = "approve" /\ UNCHANGED <<row, comments, signoffs, applied>>
          /\ approval'.by = u /\ approval'.of = req[u].ops
      BY <2>4 DEF Rev!ApproveUpsert
    <3>2. Alone(u) /\ Served(u)
      BY <3>1, TheOne
    <3>3. /\ req'[u].at = "signoff" /\ req'[u].ops = req[u].ops /\ req'[u].new = req[u].new
          /\ \A v \in Users : v # u => req'[v] = req[v]
      BY <1>0, <2>4, GotoRecord DEF Rev!ApproveUpsert, RequestAts
    <3>4. Served(u)'
      BY <3>1, <3>2, <3>3 DEF Served, AfterEdit, ApplyAts, Entitled, Rev!Allowed
    <3> QED
      BY <3>1, <3>2, <3>3, <3>4, OneStep
  <2>5. CASE Rev!recordSignoff(u)
    <3>1. req[u].at = "signoff" /\ UNCHANGED <<row, comments, approval, applied>> /\ Rev!Done(u)
          /\ signoffs' = [signoffs EXCEPT ![u] = req[u].ops]
      BY <1>l, <2>5 DEF Rev!recordSignoff, Rev!history
    <3>2. comments \subseteq row.ops /\ req[u].ops = row.ops /\ \A v \in Users : signoffs[v] \in {None, row.ops}
      BY <3>1, TheOne DEF Served, AfterEdit
    <3>3. \A v \in Users : signoffs'[v] \in {None, row.ops}
      BY <1>0, <3>1, <3>2
    <3> QED
      BY <1>d, <3>1, <3>2, <3>3
  <2>6. CASE Rev!RejectUpsert(u)
    <3>1. req[u].at = "reject" /\ UNCHANGED <<row, comments, signoffs, applied>> /\ approval'.status = "rejected"
      BY <2>6 DEF Rev!RejectUpsert, Rev!history
    <3>2. Alone(u) /\ Served(u)
      BY <3>1, TheOne
    <3>3. /\ req'[u].at = "withdraw" /\ req'[u].ops = req[u].ops /\ req'[u].new = req[u].new
          /\ \A v \in Users : v # u => req'[v] = req[v]
      BY <1>0, <2>6, GotoRecord DEF Rev!RejectUpsert, RequestAts
    <3>4. Served(u)'
      BY <3>1, <3>2, <3>3 DEF Served, AfterEdit, ApplyAts, Entitled, Rev!Allowed
    <3> QED
      BY <3>1, <3>2, <3>3, <3>4, OneStep
  <2>7. CASE Rev!withdrawSignoff(u)
    <3>1. req[u].at = "withdraw" /\ UNCHANGED <<row, comments, approval, applied>> /\ Rev!Done(u)
          /\ signoffs' = [signoffs EXCEPT ![u] = None]
      BY <1>l, <2>7 DEF Rev!withdrawSignoff
    <3>2. comments \subseteq row.ops /\ \A v \in Users : signoffs[v] \in {None, row.ops}
      BY <3>1, TheOne DEF Served, AfterEdit
    <3>3. \A v \in Users : signoffs'[v] \in {None, row.ops}
      BY <1>0, <3>1, <3>2
    <3> QED
      BY <1>d, <3>1, <3>2, <3>3
  <2> QED
    BY <1>2, <2>1, <2>2, <2>3, <2>4, <2>5, <2>6, <2>7 DEF Rev!ReviewStep
<1>3. ASSUME NEW u \in Users, Rev!OverrideStep(u) PROVE SerialInv'
  <2>1. CASE Rev!InvokeBreakGlass(u) \/ Rev!InvokeFreezeOverride(u)
    BY <1>b, <2>1 DEF Rev!InvokeBreakGlass, Rev!InvokeFreezeOverride, Rev!tables, Rev!history
  <2>2. CASE Rev!AcknowledgeSDNForeignPending(u)
    <3>1. foreign \subseteq Entries
      BY <1>0 DEF ReviewShape, Rev!TypeOK
    <3>2. PICK new \in SUBSET Entries : new = IF row.ops \cap SDNOps # {} THEN foreign ELSE {}
      BY <3>1
    <3>3. /\ new \in (SUBSET Ops) \cup (SUBSET Entries) /\ Rev!Begin(u, "ack", new)
          /\ UNCHANGED <<row, comments, approval, signoffs, applied>>
      BY <2>2, <3>2 DEF Rev!AcknowledgeSDNForeignPending, Rev!tables, Rev!history
    <3> QED
      BY <1>b, <3>3
  <2>3. CASE Rev!BreakGlassUpsert(u) \/ Rev!FreezeUpsert(u) \/ Rev!AckUpsert(u)
    <3>1. req[u].at \in {"glass", "freeze", "ack"} /\ UNCHANGED <<row, comments, approval, signoffs, applied>> /\ Rev!Done(u)
      BY <2>3 DEF Rev!BreakGlassUpsert, Rev!FreezeUpsert, Rev!AckUpsert, Rev!history
    <3>2. comments \subseteq row.ops /\ \A v \in Users : signoffs[v] \in {None, row.ops}
      BY <3>1, TheOne DEF Served, AfterEdit
    <3> QED
      BY <1>d, <3>1, <3>2
  <2> QED
    BY <1>3, <2>1, <2>2, <2>3 DEF Rev!OverrideStep
\* A gate refuses.
<1>r. ASSUME NEW u \in Users, req[u].at \in ApplyAts, Rev!Refuse(u), row'.ops = row.ops,
             UNCHANGED <<comments, approval, signoffs, applied>>
      PROVE  SerialInv'
  <2>1. comments \subseteq row.ops /\ \A v \in Users : signoffs[v] \in {None, row.ops}
    BY <1>r, TheOne DEF Served, AfterEdit, ApplyAts
  <2> QED
    BY <1>d, <1>r, <2>1 DEF Rev!Refuse, ApplyAts
<1>4. ASSUME NEW u \in Users, Rev!ApplyStep(u) PROVE SerialInv'
  <2>0. GatesSoFar(u)
    BY <1>0
  <2>1. CASE Rev!ApplyRead(u)
    <3>1. /\ UNCHANGED <<row, comments, approval, signoffs>> /\ Rev!Begin(u, "isApproved", {})
          /\ applied'.ops = None
      BY <2>1 DEF Rev!ApplyRead, Rev!tables, Rev!NotApplied
    <3>2. /\ req'[u].at = "isApproved" /\ req'[u].ops = row.ops
          /\ \A v \in Users : v # u => req'[v] = req[v]
          /\ \A v \in Users : req[v] = Rev!Idle
          /\ req[u].at = "idle"
      BY <1>0, <1>l, <3>1, BeginRecord DEF RequestAts, ApplyAts
    <3>3. Alone(u) /\ Served(u)
      BY <3>2, TheOne
    <3>4. Served(u)'
      BY <3>1, <3>2, <3>3 DEF Served, AfterEdit, ApplyAts, Entitled, Rev!Allowed
    <3> QED
      BY <3>1, <3>2, <3>3, <3>4, GateStep
  <2>2. CASE Rev!isApproved(u)
    <3>1. req[u].at = "isApproved" /\ UNCHANGED <<row, comments, approval, signoffs>>
      BY <2>2 DEF Rev!isApproved, Rev!tables
    <3>2. Alone(u) /\ Served(u)
      BY <3>1, TheOne
    <3>3. CASE /\ Required => approval.status = "approved"
               /\ applied' = [applied EXCEPT !.approval = approval]
               /\ Rev!Goto(u, "revalidate")
      <4>1. applied'.approval = approval /\ applied'.ops = None
        BY <1>0, <2>0, <3>1, <3>3 DEF AppliedRecords, GatesSoFar, ApplyAts
      <4>2. /\ req'[u].at = "revalidate" /\ req'[u].ops = req[u].ops
            /\ \A v \in Users : v # u => req'[v] = req[v]
        BY <1>0, <3>3, GotoRecord DEF RequestAts, ApplyAts
      <4>3. Served(u)'
        BY <3>1, <3>2, <3>3, <4>1, <4>2 DEF Served, AfterEdit, ApplyAts, Entitled, Rev!Allowed
      <4> QED
        BY <3>2, <4>1, <4>2, <4>3, GateStep
    <3> QED
      BY <1>r, <2>2, <3>1, <3>3 DEF Rev!isApproved, ApplyAts
  <2>3. CASE Rev!Revalidate(u)
    <3>1. req[u].at = "revalidate" /\ UNCHANGED <<comments, approval, signoffs>>
      BY <2>3 DEF Rev!Revalidate, Rev!tables
    <3>2. Alone(u) /\ Served(u)
      BY <3>1, TheOne
    <3>3. CASE row' = [ops |-> req[u].ops, status |-> "draft"] /\ Rev!Refuse(u) /\ UNCHANGED applied
      <4>1. row'.ops = row.ops
        BY <3>1, <3>2, <3>3 DEF Served, AfterEdit
      <4> QED
        BY <1>r, <3>1, <3>3, <4>1 DEF ApplyAts
    <3>4. CASE applied' = [applied EXCEPT !.freeze = freezeOver] /\ Rev!Goto(u, "twoPerson") /\ UNCHANGED row
      <4>1. applied'.approval = applied.approval /\ applied'.ops = None
        BY <1>0, <2>0, <3>1, <3>4 DEF AppliedRecords, GatesSoFar, ApplyAts
      <4>2. /\ req'[u].at = "twoPerson" /\ req'[u].ops = req[u].ops
            /\ \A v \in Users : v # u => req'[v] = req[v]
        BY <1>0, <3>4, GotoRecord DEF RequestAts, ApplyAts
      <4>3. Served(u)'
        BY <3>1, <3>2, <3>4, <4>1, <4>2 DEF Served, AfterEdit, ApplyAts, Entitled, Rev!Allowed
      <4> QED
        BY <3>2, <4>1, <4>2, <4>3, GateStep
    <3> QED
      BY <2>3, <3>3, <3>4 DEF Rev!Revalidate
  <2>4. CASE Rev!enforceTwoPerson(u)
    <3> DEFINE P == Rev!signoffPrincipals
               E == {signoffs[v] : v \in P}
    <3>1. req[u].at = "twoPerson" /\ UNCHANGED <<row, comments, approval, signoffs>>
      BY <2>4 DEF Rev!enforceTwoPerson, Rev!tables
    <3>2. Alone(u) /\ Served(u)
      BY <3>1, TheOne
    <3>3. E \subseteq {row.ops}
      BY <3>1, <3>2 DEF Served, AfterEdit, Rev!signoffPrincipals
    <3>4. CASE /\ \/ req[u].ops \cap ProtectedOps = {}
                  \/ Rev!Cardinality(P) >= Approvals
                  \/ breakGlass # None /\ breakGlass = req[u].ops
               /\ applied' = [applied EXCEPT !.signers = P, !.endorsed = E, !.glass = breakGlass]
               /\ Rev!Goto(u, "foreign")
      <4> HIDE DEF P, E
      <4>1. /\ applied'.approval = applied.approval /\ applied'.ops = None /\ applied'.signers = P
            /\ applied'.endorsed = E /\ applied'.glass = breakGlass
        BY <1>0, <2>0, <3>1, <3>4 DEF AppliedRecords, GatesSoFar, ApplyAts
      <4>2. /\ req'[u].at = "foreign" /\ req'[u].ops = req[u].ops
            /\ \A v \in Users : v # u => req'[v] = req[v]
        BY <1>0, <3>4, GotoRecord DEF RequestAts, ApplyAts
      <4>3. row.ops \cap ProtectedOps # {} /\ breakGlass # row.ops => Rev!Cardinality(P) >= Approvals
        BY <3>1, <3>2, <3>4 DEF Served, AfterEdit
      <4>4. Served(u)'
        BY <3>1, <3>2, <3>3, <4>1, <4>2, <4>3 DEF Served, AfterEdit, ApplyAts, Entitled, Rev!Allowed
      <4> QED
        BY <3>2, <4>1, <4>2, <4>4, GateStep
    <3> QED
      BY <1>r, <2>4, <3>1, <3>4 DEF Rev!enforceTwoPerson, ApplyAts
  <2>5. CASE Rev!ForeignGate(u)
    <3>1. req[u].at = "foreign" /\ UNCHANGED <<row, comments, approval, signoffs>>
      BY <2>5 DEF Rev!ForeignGate, Rev!tables
    <3>2. Alone(u) /\ Served(u)
      BY <3>1, TheOne
    <3>3. ASSUME NEW pending, applied' = [applied EXCEPT !.pending = pending, !.acked = ack], Rev!Goto(u, "persist")
          PROVE  SerialInv'
      <4>1. /\ applied'.approval = applied.approval /\ applied'.ops = None /\ applied'.signers = applied.signers
            /\ applied'.endorsed = applied.endorsed /\ applied'.glass = applied.glass
        BY <1>0, <2>0, <3>1, <3>3 DEF AppliedRecords, GatesSoFar, ApplyAts
      <4>2. /\ req'[u].at = "persist" /\ req'[u].ops = req[u].ops
            /\ \A v \in Users : v # u => req'[v] = req[v]
        BY <1>0, <3>3, GotoRecord DEF RequestAts, ApplyAts
      <4>3. Served(u)'
        BY <3>1, <3>2, <4>1, <4>2 DEF Served, AfterEdit, ApplyAts, Entitled, Rev!Allowed
      <4> QED
        BY <3>2, <4>1, <4>2, <4>3, GateStep
    <3> QED
      BY <1>r, <2>5, <3>1, <3>3 DEF Rev!ForeignGate, ApplyAts
  <2>6. CASE Rev!ApplyPersist(u)
    <3>1. /\ req[u].at = "persist" /\ Rev!Done(u) /\ row'.ops = req[u].ops
          /\ applied' = [applied EXCEPT !.ops = req[u].ops]
          /\ UNCHANGED <<comments, approval, signoffs>>
      BY <2>6 DEF Rev!ApplyPersist, Rev!tables, Rev!Refuse
    <3>2. Alone(u) /\ Served(u)
      BY <3>1, TheOne
    <3>3. row.ops = req[u].ops /\ row'.ops = row.ops
      BY <3>1, <3>2 DEF Served, AfterEdit
    <3>4. /\ applied'.approval = applied.approval /\ applied'.ops = row.ops /\ applied'.signers = applied.signers
          /\ applied'.endorsed = applied.endorsed /\ applied'.glass = applied.glass
      BY <1>0, <3>1, <3>3 DEF AppliedRecords
    <3>5. req'[u].at = "idle" /\ \A v \in Users : v # u => req'[v] = req[v]
      BY <1>0, <3>1, DoneRecord
    <3>6. Served(u)'
      BY <3>1, <3>2, <3>3, <3>5 DEF Served, AfterEdit, ApplyAts, Entitled, Rev!Allowed
    <3>7. Alone(u)'
      BY <3>2, <3>5 DEF Alone, Rev!Idle
    <3>8. Rev!AppliedWasApproved'
      BY <3>1, <3>2, <3>4 DEF Rev!AppliedWasApproved, Rev!Allowed, Served, Entitled, ApplyAts
    <3>9. Rev!AppliedWasEndorsed'
      BY <3>1, <3>2, <3>4 DEF Rev!AppliedWasEndorsed, Rev!NeedsTwoPersons, Served
    <3> QED
      BY <3>6, <3>7, <3>8, <3>9 DEF SerialInv
  <2> QED
    BY <1>4, <2>1, <2>2, <2>3, <2>4, <2>5, <2>6 DEF Rev!ApplyStep
<1>5. CASE Rev!ForeignEdit \/ UNCHANGED Rev!vars
  <2>1. UNCHANGED <<row, comments, approval, signoffs, req, applied>>
    BY <1>5 DEF Rev!ForeignEdit, Rev!vars, Rev!tables, Rev!history
  <2>2. PICK u \in Users : Alone(u) /\ Served(u)
    BY DEF SerialInv
  <2>3. Served(u)'
    BY <2>1, <2>2 DEF Served, Entitled, Rev!Allowed
  <2> QED
    BY <2>1, <2>2, <2>3, OneStep
<1> QED
  BY <1>1, <1>2, <1>3, <1>4, <1>5 DEF Rev!Next

\* Requests one at a time: between two of them the tables agree with the row.
LEMMA SerialInduction ==
    ASSUME Rev!ReviewAssumption, SerialSetting
    PROVE  Rev!Spec => []SerialInv
<1>1. ASSUME Rev!Init PROVE SerialInv
  <2>1. \A u \in Users : req[u] = Rev!Idle
    BY <1>1 DEF Rev!Init
  <2>2. Rev!Idle.at = "idle" /\ Rev!NoDecision.status = "none" /\ Rev!NotApplied.ops = None
    BY DEF Rev!Idle, Rev!NoDecision, Rev!NotApplied
  <2>3. Alone(Author) /\ Served(Author) /\ Author \in Users
    BY <1>1, <2>1, <2>2 DEF Rev!Init, Rev!ReviewAssumption, Alone, Served, AfterEdit, ApplyAts
  <2>4. Rev!AppliedWasApproved /\ Rev!AppliedWasEndorsed
    BY <1>1, <2>2 DEF Rev!Init, Rev!AppliedWasApproved, Rev!AppliedWasEndorsed, Rev!NeedsTwoPersons, Rev!Passed
  <2> QED
    BY <2>3, <2>4 DEF SerialInv
<1>2. SerialInv /\ ReviewInv /\ [Rev!Next]_(Rev!vars) => SerialInv'
  BY SerialSteps
<1> QED
  BY <1>1, <1>2, ReviewInduction, PTL DEF Rev!Spec

\* review.go, twoperson.go: what reaches the nodes was sanctioned. The overrides
\* are pinned however requests overlap; with requests one at a time and no
\* clearing that fails, the ops applied are the ops an entitled reviewer approved
\* and enough principals endorsed, and between requests the decision and the
\* comments on record are about the ops in the row.
THEOREM AppliesSanctioned ==
    ASSUME Rev!ReviewAssumption
    PROVE  Rev!Spec => []Rev!AppliedWasSanctioned
<1>1. ReviewInv => Rev!OverridesArePinned
  BY DEF ReviewInv
<1>2. SerialInv => /\ Rev!AppliedWasApproved /\ Rev!AppliedWasEndorsed
                   /\ Rev!DecisionIsCurrent /\ Rev!NoOrphanComments
  <2> SUFFICES ASSUME SerialInv PROVE Rev!DecisionIsCurrent /\ Rev!NoOrphanComments
    BY DEF SerialInv
  <2>1. PICK u \in Users : Alone(u) /\ Served(u)
    BY DEF SerialInv
  <2>2. Rev!Quiet => req[u].at = "idle"
    BY DEF Rev!Quiet, Rev!Idle
  <2> QED
    BY <2>1, <2>2 DEF Served, Rev!DecisionIsCurrent, Rev!NoOrphanComments
<1>3. CASE SerialSetting
  <2>1. ReviewInv /\ SerialInv => Rev!AppliedWasSanctioned
    BY <1>1, <1>2 DEF Rev!AppliedWasSanctioned
  <2> QED
    BY <1>3, <2>1, ReviewInduction, SerialInduction, PTL
<1>4. CASE ~SerialSetting
  <2>1. ReviewInv => Rev!AppliedWasSanctioned
    BY <1>1, <1>4 DEF Rev!AppliedWasSanctioned, SerialSetting, Rev!ReviewAssumption
  <2> QED
    BY <1>4, <2>1, ReviewInduction, PTL
<1> QED
  BY <1>3, <1>4

\* Whoever rejected last has no sign-off on record and none on its way.
RetractInv ==
    \A v \in Users : /\ v \in retracted => signoffs[v] = None
                     /\ req[v].at = "signoff" => v \notin retracted

\* A step of one request leaves the sign-offs and decisions of the others alone.
LEMMA OwnRetraction ==
    ASSUME RetractInv, NEW u \in Users,
           \A v \in Users : v # u => /\ req'[v] = req[v] /\ signoffs'[v] \in {signoffs[v], None}
                                     /\ (v \in retracted' <=> v \in retracted),
           u \in retracted' => signoffs'[u] = None,
           req'[u].at = "signoff" => u \notin retracted'
    PROVE  RetractInv'
  BY DEF RetractInv

\* The statements that write sign-offs or start and end a rejection.
LEMMA RetractSteps ==
    ASSUME Rev!ReviewAssumption, LoggedFaults = FALSE, ReviewInv, RetractInv, [Rev!Next]_(Rev!vars)
    PROVE  RetractInv'
<1>0. /\ ReviewShape /\ req \in [Users -> RequestRecords] /\ signoffs \in [Users -> OpSets]
      /\ retracted \in SUBSET Users
  BY DEF ReviewInv, ReviewShape, Rev!TypeOK, OpSets
<1>l. Rev!Logged = {TRUE}
  BY DEF Rev!Logged
<1>b. ASSUME NEW u \in Users, NEW at \in RequestAts \ {"signoff"}, NEW new \in (SUBSET Ops) \cup (SUBSET Entries),
             Rev!Begin(u, at, new), UNCHANGED <<signoffs, retracted>>
      PROVE  RetractInv'
  <2>1. req'[u].at = at /\ \A v \in Users : v # u => req'[v] = req[v]
    BY <1>0, <1>b, BeginRecord
  <2> QED
    BY <1>b, <2>1 DEF RetractInv
<1>g. ASSUME NEW u \in Users, NEW at \in RequestAts \ {"signoff"}, Rev!Goto(u, at), UNCHANGED <<signoffs, retracted>>
      PROVE  RetractInv'
  <2>1. req'[u].at = at /\ \A v \in Users : v # u => req'[v] = req[v]
    BY <1>0, <1>g, GotoRecord
  <2> QED
    BY <1>g, <2>1 DEF RetractInv
<1>d. ASSUME NEW u \in Users, Rev!Done(u), UNCHANGED <<signoffs, retracted>>
      PROVE  RetractInv'
  <2>1. req'[u].at = "idle" /\ \A v \in Users : v # u => req'[v] = req[v]
    BY <1>0, <1>d, DoneRecord
  <2> QED
    BY <1>d, <2>1 DEF RetractInv
<1>1. ASSUME NEW u \in Users, Rev!EditStep(u) PROVE RetractInv'
  <2>1. ASSUME NEW o \in SUBSET Ops, Rev!UpdateDraft(u, o) PROVE RetractInv'
    BY <1>b, <2>1 DEF Rev!UpdateDraft, Rev!tables, Rev!history, RequestAts
  <2>2. CASE Rev!EditRow(u)
    BY <1>g, <2>2 DEF Rev!EditRow, Rev!tables, Rev!history, RequestAts, AfterEdit
  <2>3. CASE Rev!cleanupOrphanedComments(u)
    BY <1>g, <2>3 DEF Rev!cleanupOrphanedComments, Rev!history, RequestAts, AfterEdit
  <2>4. CASE Rev!clearApproval(u)
    BY <1>g, <2>4 DEF Rev!clearApproval, Rev!history, RequestAts, AfterEdit
  <2>5. CASE Rev!clearSDNPendingAck(u)
    BY <1>g, <2>5 DEF Rev!clearSDNPendingAck, Rev!history, RequestAts, AfterEdit
  <2>6. CASE Rev!clearSignoffs(u)
    <3>1. signoffs' = [v \in Users |-> None] /\ retracted' = retracted /\ Rev!Done(u)
      BY <1>l, <2>6 DEF Rev!clearSignoffs, Rev!history
    <3>2. req'[u].at = "idle" /\ \A v \in Users : v # u => req'[v] = req[v]
      BY <1>0, <3>1, DoneRecord
    <3> QED
      BY <3>1, <3>2, OwnRetraction
  <2>7. CASE Rev!Validate(u)
    BY <1>b, <2>7 DEF Rev!Validate, Rev!tables, Rev!history, RequestAts
  <2>8. CASE Rev!ValidateWrite(u)
    BY <1>d, <2>8 DEF Rev!ValidateWrite, Rev!tables, Rev!history
  <2> QED
    BY <1>1, <2>1, <2>2, <2>3, <2>4, <2>5, <2>6, <2>7, <2>8 DEF Rev!EditStep
<1>2. ASSUME NEW u \in Users, Rev!ReviewStep(u) PROVE RetractInv'
  <2>1. ASSUME NEW op \in Ops, Rev!AddComment(u, op) PROVE RetractInv'
    <3>1. {op} \in SUBSET Ops
      OBVIOUS
    <3> QED
      BY <1>b, <2>1, <3>1 DEF Rev!AddComment, Rev!tables, Rev!history, RequestAts
  <2>2. CASE Rev!CommentInsert(u)
    BY <1>d, <2>2 DEF Rev!CommentInsert, Rev!history
  <2>3. CASE Rev!ReviewApprove(u)
    BY <1>b, <2>3 DEF Rev!ReviewApprove, Rev!tables, Rev!history, RequestAts
  <2>4. CASE Rev!ApproveUpsert(u)
    <3>1. retracted' = retracted \ {u} /\ signoffs' = signoffs
          /\ req'[u].at = "signoff" /\ \A v \in Users : v # u => req'[v] = req[v]
      BY <1>0, <2>4, GotoRecord DEF Rev!ApproveUpsert, RequestAts
    <3> QED
      BY <3>1, OwnRetraction
  <2>5. CASE Rev!recordSignoff(u)
    <3>1. signoffs' = [signoffs EXCEPT ![u] = req[u].ops] /\ retracted' = retracted /\ req[u].at = "signoff"
          /\ req'[u].at = "idle" /\ \A v \in Users : v # u => req'[v] = req[v]
      BY <1>0, <1>l, <2>5, DoneRecord DEF Rev!recordSignoff, Rev!history
    <3>2. u \notin retracted'
      BY <3>1 DEF RetractInv
    <3> QED
      BY <1>0, <3>1, <3>2, OwnRetraction
  <2>6. CASE Rev!ReviewReject(u)
    BY <1>b, <2>6 DEF Rev!ReviewReject, Rev!tables, Rev!history, RequestAts
  <2>7. CASE Rev!RejectUpsert(u)
    BY <1>g, <2>7 DEF Rev!RejectUpsert, Rev!history, RequestAts
  <2>8. CASE Rev!withdrawSignoff(u)
    <3>1. signoffs' = [signoffs EXCEPT ![u] = None] /\ retracted' = retracted \cup {u}
          /\ req'[u].at = "idle" /\ \A v \in Users : v # u => req'[v] = req[v]
      BY <1>0, <1>l, <2>8, DoneRecord DEF Rev!withdrawSignoff, Rev!history
    <3> QED
      BY <1>0, <3>1, OwnRetraction
  <2> QED
    BY <1>2, <2>1, <2>2, <2>3, <2>4, <2>5, <2>6, <2>7, <2>8 DEF Rev!ReviewStep
<1>3. ASSUME NEW u \in Users, Rev!OverrideStep(u) PROVE RetractInv'
  <2>1. CASE Rev!InvokeBreakGlass(u) \/ Rev!InvokeFreezeOverride(u)
    BY <1>b, <2>1 DEF Rev!InvokeBreakGlass, Rev!InvokeFreezeOverride, Rev!tables, Rev!history, RequestAts
  <2>2. CASE Rev!BreakGlassUpsert(u) \/ Rev!FreezeUpsert(u) \/ Rev!AckUpsert(u)
    BY <1>d, <2>2 DEF Rev!BreakGlassUpsert, Rev!FreezeUpsert, Rev!AckUpsert, Rev!history
  <2>3. CASE Rev!AcknowledgeSDNForeignPending(u)
    <3>1. (IF row.ops \cap SDNOps # {} THEN foreign ELSE {}) \in SUBSET Entries
      BY <1>0 DEF ReviewShape, Rev!TypeOK
    <3> QED
      BY <1>b, <2>3, <3>1 DEF Rev!AcknowledgeSDNForeignPending, Rev!tables, Rev!history, RequestAts
  <2> QED
    BY <1>3, <2>1, <2>2, <2>3 DEF Rev!OverrideStep
<1>4. ASSUME NEW u \in Users, Rev!ApplyStep(u) PROVE RetractInv'
  <2>0. UNCHANGED <<signoffs, retracted>>
    BY <1>4 DEF Rev!ApplyStep, Rev!ApplyRead, Rev!isApproved, Rev!Revalidate, Rev!enforceTwoPerson,
                Rev!ForeignGate, Rev!ApplyPersist, Rev!tables
  <2>1. CASE Rev!ApplyRead(u)
    BY <1>b, <2>0, <2>1 DEF Rev!ApplyRead, RequestAts, ApplyAts
  <2>2. CASE Rev!isApproved(u) \/ Rev!Revalidate(u) \/ Rev!enforceTwoPerson(u) \/ Rev!ForeignGate(u) \/ Rev!ApplyPersist(u)
    <3>1. Rev!Done(u) \/ \E at \in {"revalidate", "twoPerson", "foreign", "persist"} : Rev!Goto(u, at)
      BY <2>2 DEF Rev!isApproved, Rev!Revalidate, Rev!enforceTwoPerson, Rev!ForeignGate, Rev!ApplyPersist, Rev!Refuse
    <3> QED
      BY <1>d, <1>g, <2>0, <3>1 DEF RequestAts, ApplyAts
  <2> QED
    BY <1>4, <2>1, <2>2 DEF Rev!ApplyStep
<1>5. CASE Rev!ForeignEdit \/ UNCHANGED Rev!vars
  BY <1>5 DEF Rev!ForeignEdit, Rev!vars, Rev!tables, Rev!history, RetractInv
<1> QED
  BY <1>1, <1>2, <1>3, <1>4, <1>5 DEF Rev!Next

\* twoperson.go: whoever approved and then rejected is not counted by
\* enforceTwoPerson, however the requests of different people overlap, as long as
\* the withdrawal itself does not fail.
THEOREM RetractionsNotCounted ==
    ASSUME Rev!ReviewAssumption, LoggedFaults = FALSE
    PROVE  Rev!Spec => [][Rev!RetractedNotCounted]_(Rev!vars)
<1>1. Rev!Init => RetractInv
  BY DEF Rev!Init, RetractInv, Rev!Idle
<1>2. RetractInv /\ ReviewInv /\ [Rev!Next]_(Rev!vars) => RetractInv'
  BY RetractSteps
<1>3. ReviewInv /\ RetractInv /\ [Rev!Next]_(Rev!vars) => [Rev!RetractedNotCounted]_(Rev!vars)
  <2> SUFFICES ASSUME ReviewInv, RetractInv, Rev!Next, NEW w \in Users,
                      req[w].at = "twoPerson", req'[w].at = "foreign"
               PROVE  applied'.signers \cap retracted = {}
    BY DEF Rev!RetractedNotCounted
  <2>0. /\ ReviewShape /\ req \in [Users -> RequestRecords] /\ applied \in AppliedRecords
    BY DEF ReviewInv, ReviewShape
  <2>1. Rev!enforceTwoPerson(w)
    <3>1. \E u \in Users : Rev!ReviewStep(u) \/ Rev!EditStep(u) \/ Rev!OverrideStep(u) \/ Rev!ApplyStep(u)
      BY DEF Rev!Next, Rev!ForeignEdit
    <3>2. PICK u \in Users : Rev!ReviewStep(u) \/ Rev!EditStep(u) \/ Rev!OverrideStep(u) \/ Rev!ApplyStep(u)
      BY <3>1
    <3>3. \/ \E at \in RequestAts : \E new : Rev!Begin(u, at, new)
          \/ Rev!Done(u)
          \/ \E at \in RequestAts : Rev!Goto(u, at)
      BY <3>2 DEF Rev!ReviewStep, Rev!EditStep, Rev!OverrideStep, Rev!ApplyStep, RequestAts, ApplyAts, AfterEdit,
                  Rev!AddComment, Rev!CommentInsert, Rev!ReviewApprove, Rev!ApproveUpsert, Rev!recordSignoff,
                  Rev!ReviewReject, Rev!RejectUpsert, Rev!withdrawSignoff, Rev!UpdateDraft, Rev!EditRow,
                  Rev!cleanupOrphanedComments, Rev!clearApproval, Rev!clearSDNPendingAck, Rev!clearSignoffs,
                  Rev!Validate, Rev!ValidateWrite, Rev!InvokeBreakGlass, Rev!BreakGlassUpsert,
                  Rev!InvokeFreezeOverride, Rev!FreezeUpsert, Rev!AcknowledgeSDNForeignPending, Rev!AckUpsert,
                  Rev!ApplyRead, Rev!isApproved, Rev!Revalidate, Rev!enforceTwoPerson, Rev!ForeignGate,
                  Rev!ApplyPersist, Rev!Refuse
    <3>4. u = w
      <4>1. \A v \in Users : v # u => req'[v] = req[v]
        BY <2>0, <3>3 DEF Rev!Begin, Rev!Done, Rev!Goto
      <4> QED
        BY <4>1
    <3>5. req[u].at = "twoPerson" /\ req[u] # Rev!Idle
      BY <3>4 DEF Rev!Idle
    <3> QED
      BY <3>2, <3>4, <3>5 DEF Rev!ReviewStep, Rev!EditStep, Rev!OverrideStep, Rev!ApplyStep,
                  Rev!AddComment, Rev!CommentInsert, Rev!ReviewApprove, Rev!ApproveUpsert, Rev!recordSignoff,
                  Rev!ReviewReject, Rev!RejectUpsert, Rev!withdrawSignoff, Rev!UpdateDraft, Rev!EditRow,
                  Rev!cleanupOrphanedComments, Rev!clearApproval, Rev!clearSDNPendingAck, Rev!clearSignoffs,
                  Rev!Validate, Rev!ValidateWrite, Rev!InvokeBreakGlass, Rev!BreakGlassUpsert,
                  Rev!InvokeFreezeOverride, Rev!FreezeUpsert, Rev!AcknowledgeSDNForeignPending, Rev!AckUpsert,
                  Rev!ApplyRead, Rev!isApproved, Rev!Revalidate, Rev!ForeignGate, Rev!ApplyPersist, Rev!Begin
  <2>2. applied'.signers = Rev!signoffPrincipals
    <3>1. Rev!Goto(w, "foreign") \/ Rev!Done(w)
      BY <2>1 DEF Rev!enforceTwoPerson, Rev!Refuse
    <3>2. ~Rev!Done(w)
      BY <2>0, DoneRecord
    <3>3. applied' = [applied EXCEPT !.signers = Rev!signoffPrincipals,
                               !.endorsed = {signoffs[v] : v \in Rev!signoffPrincipals}, !.glass = breakGlass]
      BY <2>1, <3>2 DEF Rev!enforceTwoPerson, Rev!Refuse
    <3> QED
      BY <2>0, <3>3 DEF AppliedRecords
  <2> QED
    BY <2>2 DEF Rev!signoffPrincipals, RetractInv
<1> QED
  BY <1>1, <1>2, <1>3, ReviewInduction, PTL DEF Rev!Spec

-----------------------------------------------------------------------------
CONSTANTS Sessions, Sources, Durations, Ceiling, MaxSessions, Rollbacks, FreshIds, TcFaults, StoreFaults, MaxChanges

VARIABLES tc, cs, due, swept, clock, changes

Mir == INSTANCE TcMirror

-----------------------------------------------------------------------------
(* TcMirror: rows, kernel state and the changeset that holds the lock. *)

Phases == {"idle", "exec", "record", "awaiting", "list", "drop", "mark", "readd", "rebind"}
Kernel == {"clean", "bare", "live"}
MirrorRecords == [op : Mir!AllOps \cup {"none"}, s : Mir!Ids, src : Sources, by : {"operator", "sweep", "orphan"},
                  dur : Nat, phase : Phases, pre : [Mir!Ids -> Mir!Rows], next : 1 .. Len(Sessions) + 1]

ActiveIds == {s \in Mir!Ids : Mir!Active(s)}

\* The deadlines a changeset may still write are within the bound on time, and
\* the undo is at a session while it works on one.
MirrorShape ==
    /\ Mir!TypeOK
    /\ cs \in MirrorRecords
    /\ cs.phase \in {"exec", "record"} => clock + cs.dur <= MaxTime
    /\ \A s \in Mir!Ids : row[s].start <= clock /\ cs.pre[s].start <= clock
    /\ cs.phase \in {"mark", "rebind"} => cs.next <= Len(Sessions)
    /\ crashes = 0 => up

\* What a step may do to rows, kernel and changeset. One goes on with its op,
\* session, source and snapshot; at most one row, or one source, changes.
SameOp == /\ cs'.op = cs.op /\ cs'.s = cs.s /\ cs'.src = cs.src /\ cs'.pre = cs.pre
RowsBut(s) == \A t \in Mir!Ids : t # s => row'[t] = row[t]
SourcesBut(i) == \A j \in Sources : j # i => tc'[j] = tc[j]
Over == cs'.phase = "idle" /\ cs'.op = "none"

StartMove ==
    /\ cs.phase = "idle" /\ UNCHANGED <<row, tc>>
    /\ cs'.phase = IF cs'.op = "other" THEN "awaiting" ELSE "exec"
    /\ \A t \in Mir!Ids : cs'.pre[t] = IF row[t].st = "active" THEN row[t] ELSE Mir!NoRow
    /\ cs'.op = "create" =>
           /\ Mir!Cardinality(ActiveIds) < MaxSessions
           /\ \A t \in Mir!Ids : row[t].st = "active" => row[t].src # cs'.src

EndMove ==
    /\ Over /\ UNCHANGED <<row, tc>>
    /\ cs.phase = "mark" \/ (cs.op = "delete" /\ cs.phase = "record") => StoreFaults \/ ~up

PhaseMove ==
    /\ SameOp /\ UNCHANGED <<row, tc>>
    /\ \/ cs.phase = "awaiting" /\ cs'.phase = "list"
       \/ cs.phase = "list" /\ cs'.phase = "drop"
       \/ cs.phase = "drop" /\ cs'.phase = "readd" /\ ~Mir!Unwanted(cs.s)
       \/ cs.phase = "readd" /\ cs'.phase = "readd"
       \/ ~up /\ cs.phase \notin {"idle", "exec", "record"} /\ cs'.phase = "awaiting"

CreateMove ==
    /\ cs.op = "create" /\ cs.phase = "exec" /\ UNCHANGED row
    /\ SourcesBut(cs.src)
    /\ Over \/ (SameOp /\ cs'.phase = "record" /\ tc'[cs.src] = "live")

InsertMove ==
    /\ cs.op = "create" /\ cs.phase = "record" /\ SameOp /\ cs'.phase = "awaiting" /\ UNCHANGED tc
    /\ row[cs.s].st = "none" /\ row'[cs.s].st = "active" /\ row'[cs.s].src = cs.src
    /\ RowsBut(cs.s)

UpdateMove ==
    /\ cs.op = "update" /\ cs.phase = "exec" /\ SameOp /\ cs'.phase = "awaiting" /\ UNCHANGED tc
    /\ row[cs.s].st = "active" /\ row'[cs.s].st = "active" /\ row'[cs.s].src = row[cs.s].src
    /\ RowsBut(cs.s)

TeardownMove ==
    /\ cs.op = "delete" /\ cs.phase = "exec" /\ SameOp /\ cs'.phase = "record" /\ UNCHANGED row
    /\ SourcesBut(row[cs.s].src)

StopMove ==
    /\ cs.op = "delete" /\ cs.phase = "record" /\ SameOp /\ cs'.phase = "awaiting" /\ UNCHANGED tc
    /\ row'[cs.s].st = "stopped" /\ row'[cs.s].src = row[cs.s].src
    /\ RowsBut(cs.s)

DropMove ==
    /\ cs.phase = "drop" /\ SameOp /\ cs'.phase = "mark" /\ UNCHANGED row
    /\ Mir!Unwanted(Sessions[cs'.next])
    /\ SourcesBut(row[Sessions[cs'.next]].src)
    /\ ~TcFaults /\ tc[row[Sessions[cs'.next]].src] # "bare" => tc'[row[Sessions[cs'.next]].src] = "clean"

MarkMove ==
    /\ cs.phase = "mark" /\ SameOp /\ cs'.phase = "drop" /\ UNCHANGED tc
    /\ row'[Sessions[cs.next]].st = "stopped" /\ row'[Sessions[cs.next]].src = row[Sessions[cs.next]].src
    /\ RowsBut(Sessions[cs.next])

ReaddMove ==
    /\ cs.phase = "readd" /\ UNCHANGED row
    /\ cs.next <= Len(Sessions) /\ cs.pre[Sessions[cs.next]].st = "active"
    /\ SourcesBut(cs.pre[Sessions[cs.next]].src)
    /\ \A i \in Sources : tc[i] = "live" => tc'[i] = "live"
    /\ Over \/ (SameOp /\ cs'.phase = "rebind" /\ cs'.next = cs.next)

RebindMove ==
    /\ cs.phase = "rebind" /\ SameOp /\ cs'.phase = "readd" /\ UNCHANGED tc
    /\ row[Sessions[cs.next]].st # "stopped"
    /\ RowsBut(Sessions[cs.next])
    /\ row[Sessions[cs.next]].st = "active" =>
           /\ row'[Sessions[cs.next]].st = "active" /\ row'[Sessions[cs.next]].src = row[Sessions[cs.next]].src
           /\ row[Sessions[cs.next]] = cs.pre[Sessions[cs.next]] => row'[Sessions[cs.next]] = row[Sessions[cs.next]]

MirrorMove ==
    /\ \/ UNCHANGED <<row, tc, cs>> \/ StartMove \/ EndMove \/ PhaseMove
       \/ CreateMove \/ InsertMove \/ UpdateMove \/ TeardownMove \/ StopMove
       \/ DropMove \/ MarkMove \/ ReaddMove \/ RebindMove
    /\ ~TcFaults /\ (\A i \in Sources : tc[i] # "bare") => \A i \in Sources : tc'[i] # "bare"
    /\ crashes' = 0 => crashes = 0

\* The ids are finitely many and the first is one of them.
LEMMA IdsFinite ==
    ASSUME Mir!TcMirrorAssumption
    PROVE  /\ IsFiniteSet(Mir!Ids) /\ Sessions[1] \in Mir!Ids
           /\ Len(Sessions) \in Nat \ {0} /\ \A i \in 1 .. Len(Sessions) : Sessions[i] \in Mir!Ids
<1>1. Sessions \in Seq(Mir!Ids) /\ Len(Sessions) # 0
  BY DEF Mir!TcMirrorAssumption
<1>2. Len(Sessions) \in Nat \ {0} /\ DOMAIN Sessions = 1 .. Len(Sessions)
  BY <1>1
<1>3. \A i \in 1 .. Len(Sessions) : Sessions[i] \in Mir!Ids
  BY <1>2 DEF Mir!Ids
<1>4. IsFiniteSet(Mir!Ids)
  BY <1>1, <1>2 DEF IsFiniteSet, Mir!Ids
<1> QED
  BY <1>2, <1>3, <1>4

\* The number of active sessions, counted once the ids are known to be finite.
LEMMA ActiveCount ==
    ASSUME Mir!TcMirrorAssumption, NEW S \in SUBSET Mir!Ids, NEW T \in SUBSET S
    PROVE  /\ Mir!Cardinality(S) \in Nat /\ Mir!Cardinality(T) \in Nat
           /\ Mir!Cardinality(T) <= Mir!Cardinality(S)
           /\ \A x : Mir!Cardinality(S \cup {x}) \in Nat /\ Mir!Cardinality(S \cup {x}) <= Mir!Cardinality(S) + 1
<1>1. IsFiniteSet(S) /\ IsFiniteSet(T)
  BY IdsFinite, FS_Subset
<1>2. \A X : Mir!Cardinality(X) = Cardinality(X)
  BY DEF Mir!Cardinality, Cardinality
<1>3. Cardinality(S) \in Nat /\ Cardinality(T) \in Nat /\ Cardinality(T) <= Cardinality(S)
  BY <1>1, FS_CardinalityType, FS_Subset
<1>4. ASSUME NEW x PROVE Cardinality(S \cup {x}) \in Nat /\ Cardinality(S \cup {x}) <= Cardinality(S) + 1
  <2>1. Cardinality(S \cup {x}) = IF x \in S THEN Cardinality(S) ELSE Cardinality(S) + 1
    BY <1>1, FS_AddElement
  <2> QED
    BY <1>3, <2>1
<1> QED
  BY <1>2, <1>3, <1>4

\* The empty row and the resting changeset are well formed.
LEMMA MirrorBlank ==
    ASSUME Mir!TcMirrorAssumption
    PROVE  /\ Mir!NoRow \in Mir!Rows /\ Mir!NoRow.st = "none" /\ Mir!NoRow.start = 0
           /\ Mir!NoCs \in MirrorRecords /\ Mir!NoCs.phase = "idle" /\ Mir!NoCs.op = "none"
           /\ \A s \in Mir!Ids : Mir!NoCs.pre[s] = Mir!NoRow
<1>1. Mir!NoSource \in Sources
  BY DEF Mir!NoSource, Mir!TcMirrorAssumption
<1>2. Mir!NoRow \in Mir!Rows /\ Mir!NoRow.st = "none" /\ Mir!NoRow.start = 0
  BY <1>1 DEF Mir!NoRow, Mir!Rows, Mir!TcMirrorAssumption
<1>3. [s \in Mir!Ids |-> Mir!NoRow] \in [Mir!Ids -> Mir!Rows]
  BY <1>2
<1>4. 1 \in 1 .. Len(Sessions) + 1 /\ Sessions[1] \in Mir!Ids
  BY IdsFinite
<1> HIDE DEF Mir!NoRow
<1>5. Mir!NoCs \in MirrorRecords
  BY <1>1, <1>3, <1>4 DEF Mir!NoCs, MirrorRecords, Phases
<1> QED
  BY <1>2, <1>5 DEF Mir!NoCs

\* The changeset goes on to another phase.
LEMMA PhaseMoves ==
    ASSUME cs \in MirrorRecords, NEW p \in Phases, cs' = [cs EXCEPT !.phase = p]
    PROVE  /\ cs' \in MirrorRecords /\ cs'.phase = p /\ SameOp
           /\ cs'.by = cs.by /\ cs'.dur = cs.dur /\ cs'.next = cs.next
  BY DEF MirrorRecords, SameOp

\* Or to another phase at another session.
LEMMA PhaseMovesTo ==
    ASSUME cs \in MirrorRecords, NEW p \in Phases, NEW n \in 1 .. Len(Sessions) + 1,
           cs' = [cs EXCEPT !.phase = p, !.next = n]
    PROVE  cs' \in MirrorRecords /\ cs'.phase = p /\ SameOp /\ cs'.next = n
  BY DEF MirrorRecords, SameOp

\* It starts, with the rows that are active as its snapshot.
LEMMA ChangesetStarts ==
    ASSUME Mir!TcMirrorAssumption, MirrorShape, NEW op \in Mir!AllOps, NEW s \in Mir!Ids, NEW i \in Sources,
           NEW by \in {"operator", "sweep"}, NEW dur \in Nat, Mir!Begin(op, s, i, by, dur), UNCHANGED <<row, tc>>
    PROVE  /\ cs' \in MirrorRecords /\ cs'.op # "none" /\ cs'.phase \in {"awaiting", "exec"} /\ cs'.dur = dur /\ up
           /\ \A t \in Mir!Ids : cs'.pre[t].start <= clock
           /\ StartMove
<1>1. Mir!NoRow \in Mir!Rows /\ Mir!NoRow.start = 0
  BY MirrorBlank
<1>2. Mir!Snapshot \in [Mir!Ids -> Mir!Rows]
  BY <1>1 DEF Mir!Snapshot, MirrorShape, Mir!TypeOK
<1>3. 1 \in 1 .. Len(Sessions) + 1
  BY IdsFinite
<1>4. /\ cs' = [op |-> op, s |-> s, src |-> i, by |-> by, dur |-> dur, next |-> 1, pre |-> Mir!Snapshot,
                phase |-> IF op = "other" THEN "awaiting" ELSE "exec"]
      /\ up /\ cs.phase = "idle"
      /\ op = "create" => /\ Mir!Cardinality(ActiveIds) < MaxSessions
                          /\ \A t \in Mir!Ids : row[t].st = "active" => row[t].src # i
  BY DEF Mir!Begin, Mir!Admitted, Mir!Idle, Mir!Active, ActiveIds
<1>5. \A t \in Mir!Ids : Mir!Snapshot[t] = IF row[t].st = "active" THEN row[t] ELSE Mir!NoRow
  BY DEF Mir!Snapshot, Mir!Active
<1> HIDE DEF Mir!Snapshot, Mir!NoRow
<1>6. cs' \in MirrorRecords
  BY <1>2, <1>3, <1>4 DEF MirrorRecords, Phases
<1>7. /\ cs'.op = op /\ cs'.src = i /\ cs'.dur = dur /\ cs'.pre = Mir!Snapshot
      /\ cs'.phase = IF op = "other" THEN "awaiting" ELSE "exec"
  BY <1>4
<1>8. \A t \in Mir!Ids : cs'.pre[t].start <= clock
  <2>1. clock \in Nat
    BY DEF MirrorShape, Mir!TypeOK, Mir!TcMirrorAssumption
  <2> QED
    BY <1>1, <1>5, <1>7, <2>1 DEF MirrorShape
<1>9. StartMove
  BY <1>4, <1>5, <1>7 DEF StartMove
<1> QED
  BY <1>4, <1>6, <1>7, <1>8, <1>9 DEF Mir!AllOps

\* What the commands may leave behind.
LEMMA CommandsLeave ==
    ASSUME NEW state \in Kernel
    PROVE  /\ \A o \in Mir!Teardown(state) : o \in Kernel
           /\ ~TcFaults /\ state # "bare" => \A o \in Mir!Teardown(state) : o = "clean"
           /\ \A o \in Mir!Add(state) : Mir!Left(state, o) \in Kernel
           /\ \A o \in Mir!Add(state) : o = "live" => state = "clean" /\ Mir!Left(state, o) = "live"
           /\ state # "clean" => \A o \in Mir!Add(state) : Mir!Left(state, o) = state
           /\ ~TcFaults /\ state # "bare" => \A o \in Mir!Add(state) : Mir!Left(state, o) # "bare"
  BY DEF Mir!Teardown, Mir!Add, Mir!Left, Kernel

\* A step that leaves well-formed rows, kernel and changeset, and no time goes by.
LEMMA ShapeKept ==
    ASSUME MirrorShape, cs' \in MirrorRecords, (cs'.op = "none") <=> (cs'.phase = "idle"),
           tc' \in [Sources -> Kernel], row' \in [Mir!Ids -> Mir!Rows],
           \A s \in Mir!Ids : row'[s].start <= clock /\ cs'.pre[s].start <= clock,
           due' \in SUBSET Mir!Ids, up' \in BOOLEAN, swept' \in BOOLEAN, ~up' => due' = {},
           UNCHANGED clock, changes' \in 0 .. MaxChanges, crashes' \in 0 .. MaxCrashes,
           cs'.phase \in {"exec", "record"} => clock + cs'.dur <= MaxTime,
           cs'.phase \in {"mark", "rebind"} => cs'.next <= Len(Sessions),
           crashes' = 0 => up'
    PROVE  MirrorShape'
<1>1. Mir!TypeOK'
  <2>1. /\ cs'.op \in Mir!AllOps \cup {"none"} /\ cs'.s \in Mir!Ids /\ cs'.src \in Sources
        /\ cs'.by \in {"operator", "sweep", "orphan"}
        /\ cs'.phase \in Phases /\ cs'.pre \in [Mir!Ids -> Mir!Rows] /\ cs'.next \in 1 .. Len(Sessions) + 1
    BY DEF MirrorRecords
  <2>2. (cs'.op = "none") = (cs'.phase = "idle")
    OBVIOUS
  <2>3. cs'.phase \in {"idle", "exec", "record", "awaiting"} \/ cs'.phase \in {"list", "drop", "mark", "readd", "rebind"}
    BY <2>1 DEF Phases
  <2> QED
    BY <2>1, <2>2, <2>3 DEF MirrorShape, Mir!TypeOK, Mir!Idle, Mir!Undoing, Kernel
<1> QED
  BY <1>1 DEF MirrorShape

\* A step of the changeset that leaves everything but rows and kernel alone.
LEMMA OpStep ==
    ASSUME Mir!TcMirrorAssumption, MirrorShape, cs' \in MirrorRecords, SameOp, cs.phase # "idle", cs'.phase # "idle",
           cs'.phase \in {"exec", "record"} => cs.phase \in {"exec", "record"} /\ cs'.dur = cs.dur,
           cs'.phase \in {"mark", "rebind"} => cs'.next <= Len(Sessions),
           tc' \in [Sources -> Kernel], row' \in [Mir!Ids -> Mir!Rows], \A s \in Mir!Ids : row'[s].start <= clock,
           UNCHANGED <<up, due, swept, clock, changes, crashes>>
    PROVE  MirrorShape'
<1>1. (cs.op = "none") = (cs.phase = "idle")
  BY DEF MirrorShape, Mir!TypeOK, Mir!Idle
<1>2. (cs'.op = "none") <=> (cs'.phase = "idle")
  BY <1>1 DEF SameOp
<1>3. /\ due \in SUBSET Mir!Ids /\ up \in BOOLEAN /\ swept \in BOOLEAN /\ (~up => due = {})
      /\ changes \in 0 .. MaxChanges /\ crashes \in 0 .. MaxCrashes /\ (crashes = 0 => up)
  BY DEF MirrorShape, Mir!TypeOK
<1>4. \A s \in Mir!Ids : cs'.pre[s].start <= clock
  BY DEF MirrorShape, SameOp
<1>5. cs'.phase \in {"exec", "record"} => clock + cs'.dur <= MaxTime
  BY DEF MirrorShape
<1> QED
  BY <1>2, <1>3, <1>4, <1>5, ShapeKept

\* The changeset is over.
LEMMA OpEnds ==
    ASSUME Mir!TcMirrorAssumption, MirrorShape, cs' = Mir!NoCs, tc' \in [Sources -> Kernel],
           UNCHANGED <<row, up, due, swept, clock, changes, crashes>>
    PROVE  MirrorShape' /\ Over
<1>1. /\ due \in SUBSET Mir!Ids /\ up \in BOOLEAN /\ swept \in BOOLEAN /\ (~up => due = {})
      /\ changes \in 0 .. MaxChanges /\ crashes \in 0 .. MaxCrashes /\ (crashes = 0 => up)
      /\ row \in [Mir!Ids -> Mir!Rows] /\ clock \in Nat
  BY DEF MirrorShape, Mir!TypeOK, Mir!TcMirrorAssumption
<1>2. cs' \in MirrorRecords /\ cs'.phase = "idle" /\ cs'.op = "none" /\ \A s \in Mir!Ids : cs'.pre[s].start <= clock
  BY <1>1, MirrorBlank
<1>3. MirrorShape'
  BY <1>1, <1>2, ShapeKept DEF MirrorShape
<1> QED
  BY <1>2, <1>3 DEF Over

\* Every step of the mirror agent, also one that fails, crashes or recovers,
\* keeps the shape of its state and is one of the moves.
LEMMA MirrorMoves ==
    ASSUME Mir!TcMirrorAssumption, MirrorShape, [Mir!Next]_(Mir!vars)
    PROVE  MirrorShape' /\ MirrorMove
<1>0. /\ Mir!TypeOK /\ cs \in MirrorRecords /\ cs.s \in Mir!Ids /\ cs.src \in Sources /\ cs.dur \in Nat
      /\ cs.op \in Mir!AllOps \cup {"none"}
      /\ cs.pre \in [Mir!Ids -> Mir!Rows] /\ cs.phase \in Phases /\ cs.next \in 1 .. Len(Sessions) + 1
      /\ row \in [Mir!Ids -> Mir!Rows] /\ tc \in [Sources -> Kernel]
      /\ (cs.op = "none") <=> (cs.phase = "idle")
  BY DEF MirrorShape, MirrorRecords, Mir!TypeOK, Mir!Idle, Kernel
<1>1. /\ due \in SUBSET Mir!Ids /\ up \in BOOLEAN /\ swept \in BOOLEAN /\ (~up => due = {}) /\ (crashes = 0 => up)
      /\ clock \in 0 .. MaxTime /\ changes \in 0 .. MaxChanges /\ crashes \in 0 .. MaxCrashes
  BY DEF MirrorShape, Mir!TypeOK
<1>2. MaxTime \in Nat /\ MaxChanges \in Nat /\ MaxCrashes \in Nat /\ Len(Sessions) \in Nat \ {0} /\ MaxSessions \in Nat
  BY IdsFinite DEF Mir!TcMirrorAssumption
<1>r. \A s \in Mir!Ids : row[s] \in Mir!Rows /\ row[s].src \in Sources /\ row[s].start <= clock
  BY <1>0 DEF MirrorShape, Mir!Rows
<1> DEFINE others == <<up, due, swept, clock, changes, crashes>>
           nobare == ~TcFaults /\ (\A i \in Sources : tc[i] # "bare") => \A i \in Sources : tc'[i] # "bare"
\* One command sequence on one source.
<1>t. ASSUME NEW i \in Sources, \E o \in Mir!Teardown(tc[i]) : tc' = [tc EXCEPT ![i] = o]
      PROVE  /\ tc' \in [Sources -> Kernel] /\ SourcesBut(i) /\ nobare
             /\ ~TcFaults /\ tc[i] # "bare" => tc'[i] = "clean"
  <2>1. PICK o \in Mir!Teardown(tc[i]) : tc' = [tc EXCEPT ![i] = o]
    BY <1>t
  <2>2. tc[i] \in Kernel
    BY <1>0
  <2>3. o \in Kernel /\ (~TcFaults /\ tc[i] # "bare" => o = "clean")
    BY <2>1, <2>2, CommandsLeave
  <2> QED
    BY <1>0, <2>1, <2>3 DEF SourcesBut
<1>a. ASSUME NEW i \in Sources, NEW o \in Mir!Add(tc[i]), tc' = [tc EXCEPT ![i] = Mir!Left(tc[i], o)]
      PROVE  /\ tc' \in [Sources -> Kernel] /\ SourcesBut(i) /\ nobare
             /\ o = "live" => tc'[i] = "live"
             /\ \A j \in Sources : tc[j] = "live" => tc'[j] = "live"
  <2>1. tc[i] \in Kernel
    BY <1>0
  <2> DEFINE left == Mir!Left(tc[i], o)
  <2>2. /\ left \in Kernel /\ (o = "live" => left = "live") /\ (tc[i] # "clean" => left = tc[i])
        /\ ~TcFaults /\ tc[i] # "bare" => left # "bare"
    BY <2>1, CommandsLeave
  <2>3. tc' = [tc EXCEPT ![i] = left]
    BY <1>a
  <2> HIDE DEF left
  <2> QED
    BY <1>0, <2>2, <2>3 DEF SourcesBut
\* The whole of a step that ends the changeset and writes nothing.
<1>e. ASSUME cs' = Mir!NoCs, UNCHANGED <<row, tc>>, UNCHANGED others,
             cs.phase = "mark" \/ (cs.op = "delete" /\ cs.phase = "record") => StoreFaults
      PROVE  MirrorShape' /\ MirrorMove
  <2>1. MirrorShape' /\ Over
    BY <1>0, <1>e, OpEnds
  <2>2. EndMove
    BY <1>e, <2>1 DEF EndMove
  <2> QED
    BY <1>e, <2>1, <2>2 DEF MirrorMove
\* Of one that goes on to another phase.
<1>p. ASSUME NEW p \in Phases \ {"idle", "exec", "record", "mark", "rebind"}, cs' = [cs EXCEPT !.phase = p],
             UNCHANGED <<row, tc>>, UNCHANGED others, cs.phase # "idle",
             SameOp /\ cs'.phase = p => PhaseMove
      PROVE  MirrorShape' /\ MirrorMove
  <2>1. cs' \in MirrorRecords /\ cs'.phase = p /\ SameOp
    BY <1>0, <1>p, PhaseMoves
  <2>2. MirrorShape'
    BY <1>0, <1>p, <1>r, <2>1, OpStep
  <2> QED
    BY <1>p, <2>1, <2>2 DEF MirrorMove
\* Of one that writes one row.
<1>w. ASSUME NEW s \in Mir!Ids, NEW new \in Mir!Rows, row' = [row EXCEPT ![s] = new], new.start <= clock,
             UNCHANGED tc, UNCHANGED others, cs.phase # "idle", cs' \in MirrorRecords, SameOp,
             cs'.phase \in {"awaiting", "drop", "readd"}
      PROVE  MirrorShape' /\ row'[s] = new /\ RowsBut(s) /\ nobare
  <2>1. row' \in [Mir!Ids -> Mir!Rows] /\ row'[s] = new /\ RowsBut(s)
    BY <1>0, <1>w DEF RowsBut
  <2>2. \A t \in Mir!Ids : row'[t].start <= clock
    BY <1>r, <1>w, <2>1 DEF RowsBut
  <2> QED
    BY <1>0, <1>w, <2>1, <2>2, OpStep
\* Of one that starts a changeset.
<1>b. ASSUME NEW op \in Mir!AllOps, NEW s \in Mir!Ids, NEW i \in Sources, NEW by \in {"operator", "sweep"}, NEW dur \in Nat,
             Mir!Begin(op, s, i, by, dur), clock + dur <= MaxTime, UNCHANGED <<row, tc, up, swept, clock, crashes>>,
             changes' \in 0 .. MaxChanges, due' \in SUBSET due
      PROVE  MirrorShape' /\ MirrorMove
  <2>1. /\ cs' \in MirrorRecords /\ cs'.op # "none" /\ cs'.phase \in {"awaiting", "exec"} /\ cs'.dur = dur /\ up
        /\ \A t \in Mir!Ids : cs'.pre[t].start <= clock
        /\ StartMove
    BY <1>0, <1>b, ChangesetStarts
  <2>2. MirrorShape'
    BY <1>0, <1>1, <1>b, <1>r, <2>1, ShapeKept
  <2> QED
    BY <1>b, <2>1, <2>2 DEF MirrorMove
<1>3. ASSUME NEW r \in Mir!Requests, Mir!Apply(r[1], r[2], r[3], r[4]) PROVE MirrorShape' /\ MirrorMove
  <2>1. r[1] \in Mir!AllOps /\ r[2] \in Mir!Ids /\ r[3] \in Sources /\ r[4] \in Nat
    <3>1. r \in Ops \X Mir!Ids \X Sources \X ({0} \cup Durations)
      BY DEF Mir!Requests
    <3>2. Ops \subseteq Mir!AllOps /\ Durations \subseteq Nat
      BY DEF Mir!TcMirrorAssumption
    <3>3. {0} \cup Durations \subseteq Nat
      BY <3>2
    <3> QED
      BY <3>1, <3>2, <3>3
  <2>2. /\ Mir!Begin(r[1], r[2], r[3], "operator", r[4]) /\ clock + r[4] <= MaxTime /\ changes < MaxChanges
        /\ changes' = changes + 1 /\ UNCHANGED <<row, tc, up, due, swept, clock, crashes>>
    BY <1>3 DEF Mir!Apply
  <2>3. changes' \in 0 .. MaxChanges
    BY <1>1, <1>2, <2>2
  <2> QED
    BY <1>b, <2>1, <2>2, <2>3
<1>4. CASE Mir!CreateExec
  <2>1. PICK o \in Mir!Add(tc[cs.src]) :
            /\ tc' = [tc EXCEPT ![cs.src] = Mir!Left(tc[cs.src], o)]
            /\ IF o = "live" THEN cs' = [cs EXCEPT !.phase = "record"] ELSE cs' = Mir!NoCs
    BY <1>4 DEF Mir!CreateExec, Mir!Set, Mir!Fail
  <2>2. cs.op = "create" /\ cs.phase = "exec" /\ UNCHANGED row /\ UNCHANGED others
    BY <1>4 DEF Mir!CreateExec, Mir!Running
  <2>3. tc' \in [Sources -> Kernel] /\ SourcesBut(cs.src) /\ nobare /\ (o = "live" => tc'[cs.src] = "live")
    BY <1>0, <1>a, <2>1
  <2>4. CASE o = "live"
    <3>1. cs' \in MirrorRecords /\ cs'.phase = "record" /\ SameOp /\ cs'.dur = cs.dur
      BY <1>0, <2>1, <2>4, PhaseMoves DEF Phases
    <3>2. MirrorShape'
      BY <1>0, <1>r, <2>2, <2>3, <3>1, OpStep
    <3>3. CreateMove
      BY <2>2, <2>3, <2>4, <3>1 DEF CreateMove
    <3> QED
      BY <2>2, <2>3, <3>2, <3>3 DEF MirrorMove
  <2>5. CASE o # "live"
    <3>1. MirrorShape' /\ Over
      BY <2>1, <2>2, <2>3, <2>5, OpEnds
    <3>2. CreateMove
      BY <2>2, <2>3, <3>1 DEF CreateMove
    <3> QED
      BY <2>2, <2>3, <3>1, <3>2 DEF MirrorMove
  <2> QED
    BY <2>4, <2>5
<1>5. CASE Mir!CreateRecord
  <2>0. UNCHANGED tc /\ UNCHANGED others /\ cs.phase = "record" /\ cs.op = "create"
    BY <1>5 DEF Mir!CreateRecord
  <2>1. CASE row[cs.s].st = "none" /\ row' = Mir!Set(row, cs.s, Mir!Insert(cs.src, cs.dur)) /\ cs' = [cs EXCEPT !.phase = "awaiting"]
    <3> DEFINE new == Mir!Insert(cs.src, cs.dur)
    <3>1. row' = [row EXCEPT ![cs.s] = new]
      BY <2>1 DEF Mir!Set
    <3>2. clock + cs.dur \in 0 .. MaxTime
      BY <1>0, <1>1, <1>2, <2>0 DEF MirrorShape
    <3>3. new \in Mir!Rows /\ new.start = clock /\ new.st = "active" /\ new.src = cs.src
      BY <1>0, <1>1, <3>2 DEF Mir!Insert, Mir!Rows
    <3> HIDE DEF new
    <3>4. cs' \in MirrorRecords /\ cs'.phase = "awaiting" /\ SameOp
      BY <1>0, <2>1, PhaseMoves DEF Phases
    <3>a. new.start <= clock
      BY <1>1, <1>2, <3>3
    <3>5. MirrorShape' /\ row'[cs.s] = new /\ RowsBut(cs.s) /\ nobare
      BY <1>0, <1>w, <2>0, <3>1, <3>3, <3>4, <3>a
    <3>6. InsertMove
      BY <2>0, <2>1, <3>3, <3>4, <3>5 DEF InsertMove
    <3> QED
      BY <2>0, <3>5, <3>6 DEF MirrorMove
  <2>2. CASE cs' = Mir!NoCs /\ UNCHANGED row
    BY <1>e, <2>0, <2>2
  <2> QED
    BY <1>5, <2>1, <2>2 DEF Mir!CreateRecord, Mir!Fail
<1>6. CASE Mir!Update
  <2>0. UNCHANGED tc /\ UNCHANGED others /\ cs.phase = "exec" /\ cs.op = "update"
    BY <1>6 DEF Mir!Update, Mir!Running
  <2>1. CASE /\ Mir!Active(cs.s) /\ row' = [row EXCEPT ![cs.s].exp = row[cs.s].start + cs.dur]
             /\ cs' = [cs EXCEPT !.phase = "awaiting"]
    <3> DEFINE new == [row[cs.s] EXCEPT !.exp = row[cs.s].start + cs.dur]
    <3>1. row' = [row EXCEPT ![cs.s] = new]
      BY <1>0, <2>1
    <3>2. row[cs.s].start \in 0 .. MaxTime /\ row[cs.s].start <= clock /\ clock + cs.dur <= MaxTime
      BY <1>0, <1>r, <2>0 DEF MirrorShape, Mir!Rows
    <3>3. row[cs.s].start + cs.dur \in 0 .. MaxTime
      BY <1>0, <1>1, <1>2, <3>2
    <3>4. new \in Mir!Rows /\ new.start = row[cs.s].start /\ new.st = row[cs.s].st /\ new.src = row[cs.s].src
      BY <1>0, <1>r, <3>3 DEF Mir!Rows
    <3> HIDE DEF new
    <3>5. cs' \in MirrorRecords /\ cs'.phase = "awaiting" /\ SameOp
      BY <1>0, <2>1, PhaseMoves DEF Phases
    <3>6. MirrorShape' /\ row'[cs.s] = new /\ RowsBut(cs.s) /\ nobare
      BY <1>0, <1>w, <2>0, <3>1, <3>2, <3>4, <3>5
    <3>7. UpdateMove
      BY <2>0, <2>1, <3>4, <3>5, <3>6 DEF UpdateMove, Mir!Active
    <3> QED
      BY <2>0, <3>6, <3>7 DEF MirrorMove
  <2>2. CASE cs' = Mir!NoCs /\ UNCHANGED row
    BY <1>e, <2>0, <2>2
  <2> QED
    BY <1>6, <2>1, <2>2 DEF Mir!Update, Mir!Fail
<1>7. CASE Mir!DeleteExec
  <2>0. UNCHANGED row /\ UNCHANGED others /\ cs.phase = "exec" /\ cs.op = "delete"
    BY <1>7 DEF Mir!DeleteExec, Mir!Running
  <2>1. CASE /\ \E o \in Mir!Teardown(tc[row[cs.s].src]) : tc' = Mir!Set(tc, row[cs.s].src, o)
             /\ cs' = [cs EXCEPT !.phase = "record"]
    <3>1. tc' \in [Sources -> Kernel] /\ SourcesBut(row[cs.s].src) /\ nobare
      BY <1>0, <1>r, <1>t, <2>1 DEF Mir!Set
    <3>2. cs' \in MirrorRecords /\ cs'.phase = "record" /\ SameOp /\ cs'.dur = cs.dur
      BY <1>0, <2>1, PhaseMoves DEF Phases
    <3>3. MirrorShape'
      BY <1>0, <1>r, <2>0, <3>1, <3>2, OpStep
    <3>4. TeardownMove
      BY <2>0, <3>1, <3>2 DEF TeardownMove
    <3> QED
      BY <2>0, <3>1, <3>3, <3>4 DEF MirrorMove
  <2>2. CASE cs' = Mir!NoCs /\ UNCHANGED tc
    BY <1>e, <2>0, <2>2
  <2> QED
    BY <1>7, <2>1, <2>2 DEF Mir!DeleteExec, Mir!Fail
<1>z. ASSUME NEW s \in Mir!Ids
      PROVE  /\ [row[s] EXCEPT !.st = "stopped"] \in Mir!Rows /\ [row[s] EXCEPT !.st = "stopped"].start = row[s].start
             /\ [row[s] EXCEPT !.st = "stopped"].st = "stopped" /\ [row[s] EXCEPT !.st = "stopped"].src = row[s].src
  BY <1>r DEF Mir!Rows
<1>8. CASE Mir!DeleteRecord
  <2>0. UNCHANGED tc /\ UNCHANGED others /\ cs.phase = "record" /\ cs.op = "delete"
    BY <1>8 DEF Mir!DeleteRecord
  <2>1. CASE row' = Mir!Stop(cs.s) /\ cs' = [cs EXCEPT !.phase = "awaiting"]
    <3> DEFINE new == [row[cs.s] EXCEPT !.st = "stopped"]
    <3>1. row' = [row EXCEPT ![cs.s] = new]
      BY <1>0, <2>1 DEF Mir!Stop
    <3>2. new \in Mir!Rows /\ new.start = row[cs.s].start /\ new.st = "stopped" /\ new.src = row[cs.s].src
      BY <1>0, <1>z
    <3> HIDE DEF new
    <3>3. cs' \in MirrorRecords /\ cs'.phase = "awaiting" /\ SameOp
      BY <1>0, <2>1, PhaseMoves DEF Phases
    <3>4. MirrorShape' /\ row'[cs.s] = new /\ RowsBut(cs.s) /\ nobare
      BY <1>0, <1>r, <1>w, <2>0, <3>1, <3>2, <3>3
    <3>5. StopMove
      BY <2>0, <3>2, <3>3, <3>4 DEF StopMove
    <3> QED
      BY <2>0, <3>4, <3>5 DEF MirrorMove
  <2>2. CASE StoreFaults /\ cs' = Mir!NoCs /\ UNCHANGED row
    BY <1>e, <2>0, <2>2
  <2> QED
    BY <1>8, <2>1, <2>2 DEF Mir!DeleteRecord, Mir!Fail
<1>9. CASE Mir!Confirm \/ Mir!RestoreDone
  BY <1>9, <1>e DEF Mir!Confirm, Mir!RestoreDone
<1>10. CASE Mir!Rollback
  <2>1. UNCHANGED <<row, tc>> /\ UNCHANGED others /\ cs.phase = "awaiting"
    BY <1>10 DEF Mir!Rollback
  <2>2. CASE cs' = Mir!NoCs
    BY <1>e, <2>1, <2>2
  <2>3. CASE cs' = [cs EXCEPT !.phase = "list"]
    BY <1>p, <2>1, <2>3 DEF Phases, PhaseMove
  <2> QED
    BY <1>10, <2>2, <2>3 DEF Mir!Rollback
<1>11. CASE Mir!RestoreList
  <2>1. UNCHANGED <<row, tc>> /\ UNCHANGED others /\ cs.phase = "list"
    BY <1>11 DEF Mir!RestoreList
  <2>2. CASE cs' = Mir!NoCs
    BY <1>e, <2>1, <2>2
  <2>3. CASE cs' = [cs EXCEPT !.phase = "drop"]
    BY <1>p, <2>1, <2>3 DEF Phases, PhaseMove
  <2> QED
    BY <1>11, <2>2, <2>3 DEF Mir!RestoreList, Mir!Fail
<1>12. ASSUME NEW n \in DOMAIN Sessions, Mir!RestoreDrop(n) PROVE MirrorShape' /\ MirrorMove
  <2> DEFINE s == Sessions[n]
  <2>1. n \in 1 .. Len(Sessions)
    BY DEF Mir!TcMirrorAssumption
  <2>2. s \in Mir!Ids
    BY <2>1, IdsFinite
  <2>3. /\ UNCHANGED row /\ UNCHANGED others /\ cs.phase = "drop" /\ Mir!Unwanted(s)
        /\ \E o \in Mir!Teardown(tc[row[s].src]) : tc' = [tc EXCEPT ![row[s].src] = o]
        /\ cs' = [cs EXCEPT !.phase = "mark", !.next = n]
    BY <1>12 DEF Mir!RestoreDrop, Mir!Set
  <2>4. n \in 1 .. Len(Sessions) + 1 /\ n <= Len(Sessions)
    BY <1>2, <2>1
  <2>5. cs' \in MirrorRecords /\ cs'.phase = "mark" /\ SameOp /\ cs'.next = n
    BY <1>0, <2>3, <2>4, PhaseMovesTo DEF Phases
  <2>6. s = Sessions[cs'.next]
    BY <2>5
  <2> HIDE DEF s
  <2>7. /\ tc' \in [Sources -> Kernel] /\ SourcesBut(row[s].src) /\ nobare
        /\ ~TcFaults /\ tc[row[s].src] # "bare" => tc'[row[s].src] = "clean"
    BY <1>r, <1>t, <2>2, <2>3
  <2>8. MirrorShape'
    BY <1>0, <1>r, <2>3, <2>4, <2>5, <2>7, OpStep
  <2>9. DropMove
    BY <2>3, <2>5, <2>6, <2>7 DEF DropMove
  <2> QED
    BY <2>3, <2>7, <2>8, <2>9 DEF MirrorMove
<1>13. CASE Mir!RestoreMark
  <2> DEFINE s == Sessions[cs.next]
  <2>0. UNCHANGED tc /\ UNCHANGED others /\ cs.phase = "mark"
    BY <1>13 DEF Mir!RestoreMark
  <2>1. s \in Mir!Ids
    BY <1>0, <2>0, IdsFinite DEF MirrorShape
  <2>2. CASE row' = [row EXCEPT ![s].st = "stopped"] /\ cs' = [cs EXCEPT !.phase = "drop"]
    <3> DEFINE new == [row[s] EXCEPT !.st = "stopped"]
    <3>1. row' = [row EXCEPT ![s] = new]
      BY <1>0, <2>1, <2>2
    <3>2. new \in Mir!Rows /\ new.start = row[s].start /\ new.st = "stopped" /\ new.src = row[s].src
      BY <1>z, <2>1
    <3> HIDE DEF new
    <3>3. cs' \in MirrorRecords /\ cs'.phase = "drop" /\ SameOp
      BY <1>0, <2>2, PhaseMoves DEF Phases
    <3>4. MirrorShape' /\ row'[s] = new /\ RowsBut(s) /\ nobare
      BY <1>0, <1>r, <1>w, <2>0, <2>1, <3>1, <3>2, <3>3
    <3>5. MarkMove
      BY <2>0, <3>2, <3>3, <3>4 DEF MarkMove
    <3> QED
      BY <2>0, <3>4, <3>5 DEF MirrorMove
  <2>3. CASE StoreFaults /\ cs' = Mir!NoCs /\ UNCHANGED row
    BY <1>e, <2>0, <2>3
  <2> QED
    BY <1>13, <2>2, <2>3 DEF Mir!RestoreMark, Mir!Fail
<1>14. CASE Mir!RestoreDropped
  <2>1. /\ UNCHANGED <<row, tc>> /\ UNCHANGED others /\ cs.phase = "drop" /\ ~Mir!Unwanted(cs.s)
        /\ cs' = [cs EXCEPT !.phase = "readd", !.next = 1]
    BY <1>0, <1>14 DEF Mir!RestoreDropped
  <2>2. 1 \in 1 .. Len(Sessions) + 1
    BY <1>2
  <2>3. cs' \in MirrorRecords /\ cs'.phase = "readd" /\ SameOp
    BY <1>0, <2>1, <2>2, PhaseMovesTo DEF Phases
  <2>4. MirrorShape'
    BY <1>0, <1>r, <2>1, <2>3, OpStep
  <2>5. PhaseMove
    BY <2>1, <2>3 DEF PhaseMove
  <2> QED
    BY <2>1, <2>4, <2>5 DEF MirrorMove
<1>15. CASE Mir!RestoreReadd
  <2> DEFINE s == Sessions[cs.next]
  <2>0. UNCHANGED row /\ UNCHANGED others /\ cs.phase = "readd" /\ cs.next <= Len(Sessions)
    BY <1>15 DEF Mir!RestoreReadd
  <2>1. s \in Mir!Ids
    BY <1>0, <2>0, IdsFinite
  <2>2. cs.pre[s].src \in Sources
    BY <1>0, <2>1 DEF Mir!Rows
  <2>3. CASE ~Mir!Wanted(s)
    <3>1. cs' = [cs EXCEPT !.next = @ + 1] /\ UNCHANGED tc
      BY <1>15, <2>3 DEF Mir!RestoreReadd
    <3>2. cs.next + 1 \in 1 .. Len(Sessions) + 1
      BY <1>0, <1>2, <2>0
    <3>3. cs' \in MirrorRecords /\ cs'.phase = "readd" /\ SameOp
      BY <1>0, <2>0, <3>1, <3>2 DEF MirrorRecords, SameOp
    <3>4. MirrorShape'
      BY <1>0, <1>r, <2>0, <3>1, <3>3, OpStep
    <3>5. PhaseMove
      BY <2>0, <3>1, <3>3 DEF PhaseMove
    <3> QED
      BY <2>0, <3>1, <3>4, <3>5 DEF MirrorMove
  <2>4. CASE Mir!Wanted(s)
    <3> DEFINE i == cs.pre[s].src
    <3>1. PICK o \in Mir!Add(tc[i]) :
              /\ tc' = [tc EXCEPT ![i] = Mir!Left(tc[i], o)]
              /\ IF o = "live" THEN cs' = [cs EXCEPT !.phase = "rebind"] ELSE cs' = Mir!NoCs
      BY <1>15, <2>4 DEF Mir!RestoreReadd, Mir!Set, Mir!Fail
    <3>2. /\ tc' \in [Sources -> Kernel] /\ SourcesBut(i) /\ nobare
          /\ \A j \in Sources : tc[j] = "live" => tc'[j] = "live"
      BY <1>0, <1>a, <2>2, <3>1
    <3>3. cs.pre[s].st = "active"
      BY <2>4 DEF Mir!Wanted
    <3>4. CASE o = "live"
      <4>1. cs' \in MirrorRecords /\ cs'.phase = "rebind" /\ SameOp /\ cs'.next = cs.next
        BY <1>0, <3>1, <3>4, PhaseMoves DEF Phases
      <4>2. MirrorShape'
        BY <1>0, <1>r, <2>0, <3>2, <4>1, OpStep
      <4>3. ReaddMove
        BY <2>0, <3>2, <3>3, <4>1 DEF ReaddMove
      <4> QED
        BY <2>0, <3>2, <4>2, <4>3 DEF MirrorMove
    <3>5. CASE o # "live"
      <4>1. MirrorShape' /\ Over
        BY <2>0, <3>1, <3>2, <3>5, OpEnds
      <4>2. ReaddMove
        BY <2>0, <3>2, <3>3, <4>1 DEF ReaddMove
      <4> QED
        BY <2>0, <3>2, <4>1, <4>2 DEF MirrorMove
    <3> QED
      BY <3>4, <3>5
  <2> QED
    BY <2>3, <2>4
<1>16. CASE Mir!RestoreRebind
  <2> DEFINE s == Sessions[cs.next]
             new == IF Mir!Active(s) THEN [row[s] EXCEPT !.exp = cs.pre[s].exp] ELSE cs.pre[s]
             on == [cs EXCEPT !.phase = "readd", !.next = @ + 1]
  <2>0. UNCHANGED tc /\ UNCHANGED others /\ cs.phase = "rebind" /\ cs.next <= Len(Sessions)
    BY <1>16 DEF Mir!RestoreRebind, MirrorShape
  <2>1. s \in Mir!Ids
    BY <1>0, <2>0, IdsFinite
  <2>2. CASE row[s].st # "stopped" /\ row' = Mir!Set(row, s, new) /\ cs' = on
    <3>1. row' = [row EXCEPT ![s] = new] /\ cs' = on
      BY <2>2 DEF Mir!Set
    <3>2. cs.next + 1 \in 1 .. Len(Sessions) + 1
      BY <1>0, <1>2, <2>0
    <3>3. on \in MirrorRecords /\ on.phase = "readd" /\ on.op = cs.op /\ on.s = cs.s /\ on.src = cs.src /\ on.pre = cs.pre
      BY <1>0, <3>2 DEF MirrorRecords, Phases
    <3>4. cs.pre[s] \in Mir!Rows /\ row[s] \in Mir!Rows /\ row[s].start <= clock /\ cs.pre[s].start <= clock
      BY <1>0, <2>1 DEF MirrorShape
    <3>5. /\ new \in Mir!Rows /\ new.start <= clock
          /\ row[s].st = "active" => new.st = "active" /\ new.src = row[s].src /\ (row[s] = cs.pre[s] => new = row[s])
      <4>1. CASE row[s].st = "active"
        <5>1. new = [row[s] EXCEPT !.exp = cs.pre[s].exp]
          BY <4>1 DEF Mir!Active
        <5>2. cs.pre[s].exp \in 0 .. MaxTime
          BY <3>4 DEF Mir!Rows
        <5> QED
          BY <3>4, <4>1, <5>1, <5>2 DEF Mir!Rows
      <4>2. CASE row[s].st # "active"
        <5>1. new = cs.pre[s]
          BY <4>2 DEF Mir!Active
        <5> HIDE DEF new
        <5> QED
          BY <3>4, <4>2, <5>1
      <4> QED
        BY <4>1, <4>2
    <3> HIDE DEF new, on
    <3>6. cs' \in MirrorRecords /\ cs'.phase = "readd" /\ SameOp
      BY <3>1, <3>3 DEF SameOp
    <3> HIDE DEF s
    <3>7. MirrorShape' /\ row'[s] = new /\ RowsBut(s) /\ nobare
      BY <1>0, <1>w, <2>0, <2>1, <3>1, <3>5, <3>6
    <3>8. RebindMove
      <4> USE DEF s
      <4> QED
        BY <2>0, <2>2, <3>5, <3>6, <3>7 DEF RebindMove
    <3> QED
      BY <2>0, <3>7, <3>8 DEF MirrorMove
  <2>3. CASE cs' = Mir!NoCs /\ UNCHANGED row
    BY <1>e, <2>0, <2>3
  <2> QED
    BY <1>16, <2>2, <2>3 DEF Mir!RestoreRebind, Mir!Fail
\* What leaves rows, kernel and changeset alone.
<1>u. ASSUME UNCHANGED <<row, tc, cs, clock>>, due' \in SUBSET Mir!Ids, up' \in BOOLEAN, swept' \in BOOLEAN, ~up' => due' = {},
             changes' \in 0 .. MaxChanges, crashes' \in 0 .. MaxCrashes, crashes' = 0 => up' /\ crashes = 0
      PROVE  MirrorShape' /\ MirrorMove
  <2>1. MirrorShape'
    BY <1>0, <1>u, ShapeKept DEF MirrorShape
  <2> QED
    BY <1>u, <2>1 DEF MirrorMove
<1>17. CASE Mir!SweepStart
  BY <1>1, <1>17, <1>u DEF Mir!SweepStart, Mir!DueForExpiry
<1>18. ASSUME NEW s \in Mir!Ids, Mir!SweepExpire(s) PROVE MirrorShape' /\ MirrorMove
  <2>1. Mir!NoSource \in Sources
    BY DEF Mir!NoSource, Mir!TcMirrorAssumption
  <2>2. clock + 0 <= MaxTime
    BY <1>1, <1>2
  <2>3. Mir!Begin("delete", s, Mir!NoSource, "sweep", 0) /\ due' \in SUBSET due
        /\ UNCHANGED <<row, tc, up, swept, clock, changes, crashes>>
    BY <1>18 DEF Mir!SweepExpire
  <2> HIDE DEF Mir!NoSource
  <2> QED
    BY <1>1, <1>b, <2>1, <2>2, <2>3 DEF Mir!AllOps
<1>19. ASSUME NEW s \in Mir!Ids, Mir!SweepRefused(s) PROVE MirrorShape' /\ MirrorMove
  BY <1>1, <1>19, <1>u DEF Mir!SweepRefused
<1>20. CASE Mir!Tick
  <2>1. swept' = FALSE /\ UNCHANGED <<row, tc, cs, up, due, changes, crashes>>
        /\ clock' = IF Mir!Elapses THEN clock + 1 ELSE clock
    BY <1>20 DEF Mir!Tick
  <2>2. clock' \in 0 .. MaxTime /\ clock' >= clock
    BY <1>1, <1>2, <2>1 DEF Mir!Elapses
  <2>3. cs.phase \in {"exec", "record"} => clock' + cs.dur <= MaxTime
    BY <1>0, <1>1, <1>2, <2>1 DEF Mir!Elapses, MirrorShape
  <2>4. Mir!TypeOK'
    BY <1>0, <2>1, <2>2 DEF Mir!TypeOK, Mir!Idle, Mir!Undoing
  <2>5. \A s \in Mir!Ids : row[s].start \in Nat /\ cs.pre[s].start \in Nat
    BY <1>0, <1>2 DEF Mir!Rows
  <2>6. \A s \in Mir!Ids : row[s].start <= clock' /\ cs.pre[s].start <= clock'
    BY <1>1, <1>2, <2>2, <2>5 DEF MirrorShape
  <2>7. MirrorShape'
    BY <2>1, <2>3, <2>4, <2>6 DEF MirrorShape
  <2> QED
    BY <2>1, <2>7 DEF MirrorMove
<1>21. CASE Mir!Crash
  <2>1. up' = FALSE /\ due' = {} /\ crashes' \in 0 .. MaxCrashes /\ crashes' # 0 /\ UNCHANGED <<row, tc, cs, swept, clock, changes>>
    BY <1>1, <1>2, <1>21 DEF Mir!Crash
  <2> QED
    BY <1>1, <1>u, <2>1
<1>22. CASE Mir!Restart
  <2>1. up' = TRUE /\ ~up /\ swept' = FALSE /\ UNCHANGED <<row, tc, due, clock, changes, crashes>>
    BY <1>22 DEF Mir!Restart
  <2>2. CASE cs.phase \in {"idle", "exec", "record"}
    <3>1. cs' = Mir!NoCs
      BY <1>22, <2>2 DEF Mir!Restart, Mir!Undoing
    <3>2. cs' \in MirrorRecords /\ cs'.phase = "idle" /\ cs'.op = "none" /\ \A s \in Mir!Ids : cs'.pre[s].start <= clock
      BY <1>1, <1>2, <3>1, MirrorBlank
    <3>3. MirrorShape'
      BY <1>0, <1>1, <1>r, <2>1, <3>2, ShapeKept
    <3>4. EndMove
      BY <2>1, <3>2 DEF EndMove, Over
    <3> QED
      BY <2>1, <3>3, <3>4 DEF MirrorMove
  <2>3. CASE cs.phase \notin {"idle", "exec", "record"}
    <3>1. cs' = [cs EXCEPT !.by = "orphan", !.phase = "awaiting", !.next = 1]
      BY <1>0, <1>22, <2>3 DEF Mir!Restart, Mir!Undoing, Phases
    <3>2. 1 \in 1 .. Len(Sessions) + 1
      BY <1>2
    <3>3. cs' \in MirrorRecords /\ cs'.phase = "awaiting" /\ SameOp
      BY <1>0, <3>1, <3>2 DEF MirrorRecords, Phases, SameOp
    <3>4. cs'.op # "none" /\ \A s \in Mir!Ids : cs'.pre[s].start <= clock
      BY <1>0, <2>3, <3>3 DEF SameOp, MirrorShape
    <3>5. MirrorShape'
      BY <1>0, <1>1, <1>r, <2>1, <3>3, <3>4, ShapeKept
    <3>6. PhaseMove
      BY <2>1, <2>3, <3>3 DEF PhaseMove
    <3> QED
      BY <2>1, <3>5, <3>6 DEF MirrorMove
  <2> QED
    BY <2>2, <2>3
<1>23. CASE UNCHANGED Mir!vars
  BY <1>1, <1>23, <1>u DEF Mir!vars
<1> HIDE DEF others, nobare
<1> QED
  BY <1>3, <1>4, <1>5, <1>6, <1>7, <1>8, <1>9, <1>10, <1>11, <1>12, <1>13, <1>14, <1>15, <1>16, <1>17, <1>18, <1>19, <1>20,
     <1>21, <1>22, <1>23 DEF Mir!Next, Mir!EngineStep, Mir!SweepStep

\* No row is ever gone, so the undo re-adds no row of its snapshot; a create that
\* was admitted still has room, and its source, when it writes its row.
RoomInv ==
    /\ cs.phase # "idle" => \A s \in Mir!Ids : cs.pre[s].st = "active" => row[s].st # "none"
    /\ cs.op = "create" /\ cs.phase \in {"exec", "record"} =>
           /\ Mir!Cardinality(ActiveIds) < MaxSessions
           /\ \A t \in Mir!Ids : row[t].st = "active" => row[t].src # cs.src
    /\ Mir!CapRespected
    /\ Mir!OneSessionPerSource

\* Until its undo is over a changeset touches no row but that of its session, so
\* what the undo drops is that session, and what it re-binds was active.
SnapInv ==
    /\ cs.phase # "idle" => \A s \in Mir!Ids :
           s # cs.s => cs.pre[s] = IF row[s].st = "active" THEN row[s] ELSE Mir!NoRow
    /\ cs.phase \in {"exec", "record"} => \A s \in Mir!Ids : cs.pre[s] = IF row[s].st = "active" THEN row[s] ELSE Mir!NoRow
    /\ cs.phase = "mark" => Sessions[cs.next] = cs.s /\ row[cs.s].st = "active" /\ cs.pre[cs.s].st = "none"
    /\ cs.phase = "rebind" => cs.pre[Sessions[cs.next]].st = "active"

\* The session the undo is about to drop.
LEMMA DropsOwn ==
    ASSUME Mir!TcMirrorAssumption, MirrorShape, SnapInv, MirrorShape', DropMove
    PROVE  Sessions[cs'.next] = cs.s /\ row[cs.s].st = "active" /\ cs.pre[cs.s].st = "none"
<1>1. cs'.phase = "mark" /\ cs'.next \in 1 .. Len(Sessions) + 1 /\ cs'.next <= Len(Sessions)
  BY DEF DropMove, MirrorShape, Mir!TypeOK
<1>2. Sessions[cs'.next] \in Mir!Ids
  BY <1>1, IdsFinite
<1>3. row[Sessions[cs'.next]].st = "active" /\ cs.pre[Sessions[cs'.next]].st = "none" /\ cs.phase = "drop"
  BY DEF DropMove, Mir!Unwanted, Mir!Active
<1> QED
  BY <1>2, <1>3 DEF SnapInv

\* The session the undo re-binds is active, and as it was unless the changeset is about it.
LEMMA RebindsActive ==
    ASSUME Mir!TcMirrorAssumption, MirrorShape, RoomInv, SnapInv, RebindMove
    PROVE  /\ Sessions[cs.next] \in Mir!Ids /\ row[Sessions[cs.next]].st = "active"
           /\ Sessions[cs.next] # cs.s => row' [Sessions[cs.next]] = row[Sessions[cs.next]]
<1>1. cs.phase = "rebind" /\ cs.next \in 1 .. Len(Sessions) + 1 /\ cs.next <= Len(Sessions)
  BY DEF RebindMove, MirrorShape, Mir!TypeOK
<1> DEFINE s == Sessions[cs.next]
<1>2. s \in Mir!Ids
  BY <1>1, IdsFinite
<1>3. cs.pre[s].st = "active" /\ row[s].st # "none" /\ row[s].st # "stopped"
  BY <1>1, <1>2 DEF SnapInv, RoomInv, RebindMove
<1>4. row[s] \in Mir!Rows
  BY <1>2 DEF MirrorShape, Mir!TypeOK
<1>5. row[s].st = "active"
  BY <1>3, <1>4 DEF Mir!Rows
<1>6. s # cs.s => cs.pre[s] = row[s]
  BY <1>1, <1>2, <1>5 DEF SnapInv
<1> QED
  BY <1>2, <1>5, <1>6 DEF RebindMove

\* What a step may do to the row of a session: only a create makes it active.
LEMMA RowMoves ==
    ASSUME Mir!TcMirrorAssumption, MirrorShape, RoomInv, SnapInv, MirrorMove
    PROVE  /\ \A s \in Mir!Ids : row[s].st # "none" => row'[s].st # "none"
           /\ InsertMove \/ \A s \in Mir!Ids : row'[s].st = "active" => row[s].st = "active" /\ row'[s].src = row[s].src
<1>0. cs.s \in Mir!Ids
  BY DEF MirrorShape, Mir!TypeOK
<1>1. CASE UNCHANGED <<row, tc, cs>> \/ StartMove \/ EndMove \/ PhaseMove \/ CreateMove \/ TeardownMove \/ DropMove \/ ReaddMove
  <2>1. row' = row
    BY <1>1 DEF StartMove, EndMove, PhaseMove, CreateMove, TeardownMove, DropMove, ReaddMove
  <2> QED
    BY <2>1
<1>2. CASE InsertMove
  BY <1>0, <1>2 DEF InsertMove, RowsBut
<1>3. CASE UpdateMove
  BY <1>0, <1>3 DEF UpdateMove, RowsBut
<1>4. CASE StopMove
  BY <1>0, <1>4 DEF StopMove, RowsBut
<1>5. CASE MarkMove
  BY <1>5 DEF MarkMove, RowsBut
<1>6. CASE RebindMove
  BY <1>6, RebindsActive DEF RebindMove, RowsBut
<1> QED
  BY <1>1, <1>2, <1>3, <1>4, <1>5, <1>6 DEF MirrorMove

\* Every move keeps the sessions within their number and their sources apart.
LEMMA RoomSteps ==
    ASSUME Mir!TcMirrorAssumption, MirrorShape, RoomInv, SnapInv, MirrorMove, MirrorShape'
    PROVE  RoomInv'
<1>0. /\ cs.s \in Mir!Ids /\ MaxSessions \in Nat /\ Mir!Cardinality(ActiveIds) <= MaxSessions /\ ActiveIds \in SUBSET Mir!Ids
      /\ \A s, t \in Mir!Ids : row[s].st = "active" /\ row[t].st = "active" /\ row[s].src = row[t].src => s = t
  BY DEF MirrorShape, Mir!TypeOK, Mir!TcMirrorAssumption, RoomInv, Mir!CapRespected, Mir!OneSessionPerSource, Mir!Active, ActiveIds
<1>1. cs'.phase # "idle" => \A s \in Mir!Ids : cs'.pre[s].st = "active" => row'[s].st # "none"
  <2>1. CASE StartMove
    BY <2>1, MirrorBlank DEF StartMove
  <2>2. CASE cs'.phase # "idle" /\ ~StartMove
    <3>1. cs'.pre = cs.pre /\ cs.phase # "idle"
      BY <2>2 DEF MirrorMove, EndMove, PhaseMove, CreateMove, InsertMove, UpdateMove, TeardownMove, StopMove, DropMove,
                  MarkMove, ReaddMove, RebindMove, SameOp, Over
    <3> QED
      BY <3>1, RowMoves DEF RoomInv
  <2> QED
    BY <2>1, <2>2
<1>2. cs'.op = "create" /\ cs'.phase \in {"exec", "record"} =>
           /\ Mir!Cardinality(ActiveIds') < MaxSessions
           /\ \A t \in Mir!Ids : row'[t].st = "active" => row'[t].src # cs'.src
  <2>1. CASE StartMove
    <3>1. ActiveIds' = ActiveIds /\ row' = row
      BY <2>1 DEF StartMove, ActiveIds, Mir!Active
    <3> QED
      BY <2>1, <3>1 DEF StartMove
  <2>2. CASE cs'.op = "create" /\ cs'.phase \in {"exec", "record"} /\ ~StartMove
    <3>1. row' = row /\ cs.op = "create" /\ cs.phase \in {"exec", "record"} /\ cs'.src = cs.src
      BY <2>2 DEF MirrorMove, EndMove, PhaseMove, CreateMove, InsertMove, UpdateMove, TeardownMove, StopMove, DropMove,
                  MarkMove, ReaddMove, RebindMove, SameOp, Over
    <3>2. ActiveIds' = ActiveIds
      BY <3>1 DEF ActiveIds, Mir!Active
    <3> QED
      BY <3>1, <3>2 DEF RoomInv
  <2> QED
    BY <2>1, <2>2
<1>3. Mir!Cardinality(ActiveIds') <= MaxSessions
      /\ \A s, t \in Mir!Ids : row'[s].st = "active" /\ row'[t].st = "active" /\ row'[s].src = row'[t].src => s = t
  <2>1. CASE InsertMove
    <3>1. /\ Mir!Cardinality(ActiveIds) < MaxSessions
          /\ \A t \in Mir!Ids : row[t].st = "active" => row[t].src # cs.src
      BY <2>1 DEF InsertMove, RoomInv
    <3>2. row'[cs.s].st = "active" /\ row'[cs.s].src = cs.src /\ \A t \in Mir!Ids : t # cs.s => row'[t] = row[t]
      BY <2>1 DEF InsertMove, RowsBut
    <3>3. ActiveIds' = ActiveIds \cup {cs.s}
      BY <1>0, <3>2 DEF ActiveIds, Mir!Active
    <3>4. Mir!Cardinality(ActiveIds) \in Nat /\ Mir!Cardinality(ActiveIds \cup {cs.s}) \in Nat
          /\ Mir!Cardinality(ActiveIds \cup {cs.s}) <= Mir!Cardinality(ActiveIds) + 1
      BY <1>0, ActiveCount
    <3>5. Mir!Cardinality(ActiveIds') <= MaxSessions
      BY <1>0, <3>1, <3>3, <3>4
    <3> QED
      BY <1>0, <3>1, <3>2, <3>5
  <2>2. CASE \A s \in Mir!Ids : row'[s].st = "active" => row[s].st = "active" /\ row'[s].src = row[s].src
    <3>1. ActiveIds' \in SUBSET ActiveIds
      BY <2>2 DEF ActiveIds, Mir!Active
    <3>2. Mir!Cardinality(ActiveIds') <= Mir!Cardinality(ActiveIds) /\ Mir!Cardinality(ActiveIds) \in Nat
          /\ Mir!Cardinality(ActiveIds') \in Nat
      BY <1>0, <3>1, ActiveCount
    <3>3. Mir!Cardinality(ActiveIds') <= MaxSessions
      BY <1>0, <3>2
    <3> QED
      BY <1>0, <2>2, <3>3
  <2> QED
    BY <2>1, <2>2, RowMoves
<1>4. Mir!CapRespected' /\ Mir!OneSessionPerSource'
  BY <1>3 DEF Mir!CapRespected, Mir!OneSessionPerSource, Mir!Active, ActiveIds
<1> QED
  BY <1>1, <1>2, <1>4 DEF RoomInv

\* Every move keeps the snapshot true of the sessions the changeset is not about.
LEMMA SnapSteps ==
    ASSUME Mir!TcMirrorAssumption, MirrorShape, RoomInv, SnapInv, MirrorMove, MirrorShape'
    PROVE  SnapInv'
<1>0. cs.s \in Mir!Ids
  BY DEF MirrorShape, Mir!TypeOK
<1> DEFINE snap(r) == IF r.st = "active" THEN r ELSE Mir!NoRow
<1>1. CASE UNCHANGED <<row, tc, cs>>
  BY <1>1 DEF SnapInv
<1>2. CASE StartMove
  <2>1. row' = row /\ cs'.phase \in {"awaiting", "exec"} /\ \A t \in Mir!Ids : cs'.pre[t] = snap(row[t])
    BY <1>2 DEF StartMove
  <2> QED
    BY <2>1 DEF SnapInv
<1>3. CASE Over
  BY <1>3 DEF Over, SnapInv
<1>4. CASE PhaseMove
  BY <1>4 DEF PhaseMove, SameOp, SnapInv
<1>5. CASE (CreateMove \/ TeardownMove) /\ ~Over
  <2>1. row' = row /\ SameOp /\ cs.phase = "exec" /\ cs'.phase = "record"
    BY <1>5 DEF CreateMove, TeardownMove
  <2> QED
    BY <2>1 DEF SnapInv, SameOp
<1>6. CASE InsertMove \/ UpdateMove \/ StopMove
  <2>1. RowsBut(cs.s) /\ SameOp /\ cs'.phase = "awaiting" /\ cs.phase \in {"exec", "record"}
    BY <1>6 DEF InsertMove, UpdateMove, StopMove
  <2> QED
    BY <2>1 DEF SnapInv, SameOp, RowsBut
<1>7. CASE DropMove
  <2>1. row' = row /\ SameOp /\ cs.phase = "drop" /\ cs'.phase = "mark"
    BY <1>7 DEF DropMove
  <2>2. Sessions[cs'.next] = cs.s /\ row[cs.s].st = "active" /\ cs.pre[cs.s].st = "none"
    BY <1>7, DropsOwn
  <2> QED
    BY <2>1, <2>2 DEF SnapInv, SameOp
<1>8. CASE MarkMove
  <2>1. RowsBut(cs.s) /\ SameOp /\ cs.phase = "mark" /\ cs'.phase = "drop"
    BY <1>8 DEF MarkMove, SnapInv
  <2> QED
    BY <2>1 DEF SnapInv, SameOp, RowsBut
<1>9. CASE ReaddMove /\ ~Over
  <2>1. row' = row /\ SameOp /\ cs.phase = "readd" /\ cs'.phase = "rebind" /\ cs'.next = cs.next
        /\ cs.pre[Sessions[cs.next]].st = "active"
    BY <1>9 DEF ReaddMove
  <2> QED
    BY <2>1 DEF SnapInv, SameOp
<1>10. CASE RebindMove
  <2>1. SameOp /\ cs.phase = "rebind" /\ cs'.phase = "readd" /\ RowsBut(Sessions[cs.next])
    BY <1>10 DEF RebindMove
  <2>2. \A s \in Mir!Ids : s # cs.s => row'[s] = row[s]
    BY <1>10, <2>1, RebindsActive DEF RowsBut
  <2> QED
    BY <2>1, <2>2 DEF SnapInv, SameOp
<1> QED
  BY <1>1, <1>2, <1>3, <1>4, <1>5, <1>6, <1>7, <1>8, <1>9, <1>10 DEF MirrorMove, EndMove

\* While a session is active its source is mirrored, unless an ended one shares it
\* or the commands that end it have been given and its row is yet to follow.
Mirrored(s) ==
    \/ tc[row[s].src] = "live"
    \/ \E t \in Mir!Ids : row[t].st = "stopped" /\ row[t].src = row[s].src
    \/ cs.op = "delete" /\ cs.phase = "record" /\ row[cs.s].src = row[s].src
    \/ cs.phase = "mark" /\ cs.s = s

LiveInv ==
    crashes = 0 /\ ~StoreFaults =>
        /\ \A s \in Mir!Ids : row[s].st = "active" => Mirrored(s)
        /\ cs.op = "create" /\ cs.phase = "record" => tc[cs.src] = "live"

\* Every move keeps active sessions mirrored.
LEMMA LiveSteps ==
    ASSUME Mir!TcMirrorAssumption, MirrorShape, RoomInv, SnapInv, LiveInv, MirrorMove, MirrorShape'
    PROVE  LiveInv'
<1> SUFFICES ASSUME crashes' = 0, ~StoreFaults
             PROVE  /\ \A s \in Mir!Ids : row'[s].st = "active" => Mirrored(s)'
                    /\ cs'.op = "create" /\ cs'.phase = "record" => tc'[cs'.src] = "live"
  BY DEF LiveInv
<1>0. /\ crashes = 0 /\ up /\ cs.s \in Mir!Ids /\ row \in [Mir!Ids -> Mir!Rows] /\ \A s \in Mir!Ids : row[s].src \in Sources
      /\ cs.src \in Sources
  BY DEF MirrorMove, MirrorShape, Mir!TypeOK, Mir!Rows
<1>a. \A s \in Mir!Ids : row[s].st = "active" => Mirrored(s)
  BY <1>0 DEF LiveInv
<1>1. CASE UNCHANGED <<row, tc, cs>>
  BY <1>0, <1>1 DEF LiveInv, Mirrored
<1>2. CASE StartMove
  BY <1>2, <1>a DEF StartMove, Mirrored
<1>3. CASE EndMove
  BY <1>0, <1>3, <1>a DEF EndMove, Mirrored, Over
<1>4. CASE PhaseMove
  BY <1>0, <1>4, <1>a DEF PhaseMove, Mirrored, SameOp
<1>5. CASE CreateMove
  <2>1. row' = row /\ cs.op = "create" /\ cs.phase = "exec" /\ SourcesBut(cs.src)
        /\ (Over \/ (SameOp /\ tc'[cs.src] = "live"))
    BY <1>5 DEF CreateMove
  <2>2. \A s \in Mir!Ids : row[s].st = "active" => row[s].src # cs.src /\ tc'[row[s].src] = tc[row[s].src]
    BY <1>0, <2>1 DEF RoomInv, SourcesBut
  <2> QED
    BY <1>a, <2>1, <2>2 DEF Mirrored, Over, SameOp
<1>6. CASE InsertMove
  <2>1. /\ cs.op = "create" /\ cs.phase = "record" /\ cs'.phase = "awaiting" /\ tc' = tc /\ row[cs.s].st = "none"
        /\ row'[cs.s].src = cs.src /\ \A t \in Mir!Ids : t # cs.s => row'[t] = row[t]
    BY <1>6 DEF InsertMove, RowsBut
  <2>2. tc[cs.src] = "live"
    BY <1>0, <2>1 DEF LiveInv
  <2> QED
    BY <1>a, <2>1, <2>2 DEF Mirrored
<1>7. CASE UpdateMove
  <2>1. /\ cs.op = "update" /\ cs.phase = "exec" /\ cs'.phase = "awaiting" /\ tc' = tc /\ row[cs.s].st = "active"
        /\ row'[cs.s].src = row[cs.s].src /\ \A t \in Mir!Ids : t # cs.s => row'[t] = row[t]
    BY <1>7 DEF UpdateMove, RowsBut
  <2> QED
    BY <1>0, <1>a, <2>1 DEF Mirrored
<1>8. CASE TeardownMove
  <2>1. /\ cs.op = "delete" /\ cs.phase = "exec" /\ row' = row /\ SourcesBut(row[cs.s].src) /\ SameOp /\ cs'.phase = "record"
    BY <1>8 DEF TeardownMove
  <2> QED
    BY <1>0, <1>a, <2>1 DEF Mirrored, SourcesBut, SameOp
<1>9. CASE StopMove
  <2>1. /\ cs.op = "delete" /\ cs.phase = "record" /\ cs'.phase = "awaiting" /\ tc' = tc
        /\ row'[cs.s].st = "stopped" /\ row'[cs.s].src = row[cs.s].src /\ \A t \in Mir!Ids : t # cs.s => row'[t] = row[t]
    BY <1>9 DEF StopMove, RowsBut
  <2> QED
    BY <1>0, <1>a, <2>1 DEF Mirrored
<1>10. CASE DropMove
  <2>1. cs.phase = "drop" /\ SameOp /\ cs'.phase = "mark" /\ row' = row /\ SourcesBut(row[Sessions[cs'.next]].src)
    BY <1>10 DEF DropMove
  <2>2. Sessions[cs'.next] = cs.s /\ row[cs.s].st = "active"
    BY <1>10, DropsOwn
  <2>3. \A s \in Mir!Ids : row[s].st = "active" /\ s # cs.s => row[s].src # row[cs.s].src
    BY <1>0, <2>2 DEF RoomInv, Mir!OneSessionPerSource, Mir!Active
  <2>4. \A s \in Mir!Ids : row[s].st = "active" /\ s # cs.s => tc'[row[s].src] = tc[row[s].src]
    BY <1>0, <2>1, <2>2, <2>3 DEF SourcesBut
  <2> QED
    BY <1>a, <2>1, <2>4 DEF Mirrored, SameOp
<1>11. CASE MarkMove
  <2>1. /\ cs.phase = "mark" /\ cs'.phase = "drop" /\ tc' = tc /\ Sessions[cs.next] = cs.s /\ row[cs.s].st = "active"
        /\ row'[cs.s].st = "stopped" /\ \A t \in Mir!Ids : t # cs.s => row'[t] = row[t]
    BY <1>11 DEF MarkMove, RowsBut, SnapInv
  <2> QED
    BY <1>0, <1>a, <2>1 DEF Mirrored
<1>12. CASE ReaddMove
  <2>1. /\ cs.phase = "readd" /\ row' = row /\ (\A i \in Sources : tc[i] = "live" => tc'[i] = "live")
        /\ cs'.phase \in {"idle", "rebind"}
    BY <1>12 DEF ReaddMove, Over
  <2> QED
    BY <1>0, <1>a, <2>1 DEF Mirrored
<1>13. CASE RebindMove
  <2> DEFINE n == Sessions[cs.next]
  <2>1. /\ cs.phase = "rebind" /\ cs'.phase = "readd" /\ tc' = tc /\ n \in Mir!Ids /\ row[n].st = "active"
        /\ row'[n].st = "active" /\ row'[n].src = row[n].src /\ \A t \in Mir!Ids : t # n => row'[t] = row[t]
    BY <1>13, RebindsActive DEF RebindMove, RowsBut
  <2> HIDE DEF n
  <2> QED
    BY <1>0, <1>a, <2>1 DEF Mirrored
<1> QED
  BY <1>1, <1>2, <1>3, <1>4, <1>5, <1>6, <1>7, <1>8, <1>9, <1>10, <1>11, <1>12, <1>13 DEF MirrorMove

\* What is known of a create once its row is written: its session is not in the
\* snapshot and neither is its source; past the first half of the undo it is not
\* active, and the kernel has been told.
UndoInv ==
    /\ ~TcFaults => \A i \in Sources : tc[i] # "bare"
    /\ cs.op = "create" /\ cs.phase \notin {"idle", "exec", "record"} =>
           /\ cs.pre[cs.s].st = "none"
           /\ \A t \in Mir!Ids : cs.pre[t].st = "active" => cs.pre[t].src # cs.src
           /\ row[cs.s].st = "active" => row[cs.s].src = cs.src /\ cs.phase \in {"awaiting", "list", "drop", "mark"}
           /\ ~TcFaults => (cs.phase # "mark" /\ row[cs.s].st = "active") \/ tc[cs.src] = "clean"

\* Every move keeps it.
LEMMA UndoSteps ==
    ASSUME Mir!TcMirrorAssumption, MirrorShape, RoomInv, SnapInv, UndoInv, MirrorMove, MirrorShape'
    PROVE  UndoInv'
<1> SUFFICES ASSUME cs'.op = "create", cs'.phase \notin {"idle", "exec", "record"}
             PROVE  /\ cs'.pre[cs'.s].st = "none"
                    /\ \A t \in Mir!Ids : cs'.pre[t].st = "active" => cs'.pre[t].src # cs'.src
                    /\ row'[cs'.s].st = "active" =>
                           row'[cs'.s].src = cs'.src /\ cs'.phase \in {"awaiting", "list", "drop", "mark"}
                    /\ ~TcFaults => (cs'.phase # "mark" /\ row'[cs'.s].st = "active") \/ tc'[cs'.src] = "clean"
  BY DEF UndoInv, MirrorMove
<1>0. cs.s \in Mir!Ids /\ cs.src \in Sources
  BY DEF MirrorShape, Mir!TypeOK
<1>1. CASE UNCHANGED <<row, tc, cs>>
  BY <1>1 DEF UndoInv
<1>2. CASE PhaseMove
  BY <1>2 DEF PhaseMove, UndoInv, SameOp, Mir!Unwanted, Mir!Active
<1>3. CASE InsertMove
  <2>1. /\ SameOp /\ cs.op = "create" /\ cs.phase = "record" /\ cs'.phase = "awaiting" /\ row[cs.s].st = "none"
        /\ row'[cs.s].st = "active" /\ row'[cs.s].src = cs.src
    BY <1>3 DEF InsertMove
  <2>2. /\ \A s \in Mir!Ids : cs.pre[s] = IF row[s].st = "active" THEN row[s] ELSE Mir!NoRow
        /\ \A t \in Mir!Ids : row[t].st = "active" => row[t].src # cs.src
    BY <2>1 DEF SnapInv, RoomInv
  <2>3. cs.pre[cs.s].st = "none" /\ \A t \in Mir!Ids : cs.pre[t].st = "active" => cs.pre[t].src # cs.src
    BY <1>0, <2>1, <2>2, MirrorBlank
  <2> QED
    BY <2>1, <2>3 DEF SameOp
<1>4. CASE DropMove
  <2>1. /\ SameOp /\ cs.op = "create" /\ cs.phase = "drop" /\ cs'.phase = "mark" /\ row' = row
        /\ ~TcFaults /\ tc[row[Sessions[cs'.next]].src] # "bare" => tc'[row[Sessions[cs'.next]].src] = "clean"
    BY <1>4 DEF DropMove, SameOp
  <2>2. Sessions[cs'.next] = cs.s /\ row[cs.s].st = "active"
    BY <1>4, DropsOwn
  <2>3. row[cs.s].src = cs.src /\ (~TcFaults => tc[cs.src] # "bare")
    BY <1>0, <2>1, <2>2 DEF UndoInv
  <2>4. ~TcFaults => tc'[cs.src] = "clean"
    BY <2>1, <2>2, <2>3
  <2> QED
    BY <2>1, <2>3, <2>4 DEF UndoInv, SameOp
<1>5. CASE MarkMove
  <2>1. /\ SameOp /\ cs.op = "create" /\ cs.phase = "mark" /\ cs'.phase = "drop" /\ tc' = tc /\ row'[cs.s].st = "stopped"
    BY <1>5 DEF MarkMove, SameOp, SnapInv
  <2> QED
    BY <2>1 DEF UndoInv, SameOp
<1>6. CASE ReaddMove
  <2>1. /\ SameOp /\ cs.op = "create" /\ cs.phase = "readd" /\ cs'.phase = "rebind" /\ row' = row /\ cs.next <= Len(Sessions)
        /\ cs.pre[Sessions[cs.next]].st = "active" /\ SourcesBut(cs.pre[Sessions[cs.next]].src)
    BY <1>6 DEF ReaddMove, Over, SameOp
  <2>2. Sessions[cs.next] \in Mir!Ids
    BY <2>1, IdsFinite DEF MirrorShape, Mir!TypeOK
  <2>3. tc'[cs.src] = tc[cs.src]
    BY <1>0, <2>1, <2>2 DEF UndoInv, SourcesBut
  <2> QED
    BY <2>1, <2>3 DEF UndoInv, SameOp
<1>7. CASE RebindMove
  <2>1. SameOp /\ cs.op = "create" /\ cs.phase = "rebind" /\ cs'.phase = "readd" /\ tc' = tc /\ RowsBut(Sessions[cs.next])
    BY <1>7 DEF RebindMove, SameOp
  <2>2. Sessions[cs.next] # cs.s
    BY <2>1 DEF UndoInv, SnapInv
  <2>3. row'[cs.s] = row[cs.s]
    BY <1>0, <2>1, <2>2 DEF RowsBut
  <2> QED
    BY <2>1, <2>3 DEF UndoInv, SameOp
<1>8. ~(StartMove \/ EndMove \/ CreateMove \/ UpdateMove \/ TeardownMove \/ StopMove)
  BY DEF StartMove, EndMove, CreateMove, UpdateMove, TeardownMove, StopMove, Over, SameOp
<1> QED
  BY <1>1, <1>2, <1>3, <1>4, <1>5, <1>6, <1>7, <1>8 DEF MirrorMove

MirrorInv == MirrorShape /\ RoomInv /\ SnapInv /\ LiveInv /\ UndoInv

\* The invariant holds from the start and every step keeps it.
LEMMA MirrorInduction ==
    ASSUME Mir!TcMirrorAssumption
    PROVE  /\ Mir!Init => MirrorInv
           /\ MirrorInv /\ [Mir!Next]_(Mir!vars) => MirrorInv' /\ MirrorMove
<1>1. ASSUME Mir!Init PROVE MirrorInv
  <2>1. /\ Mir!NoRow \in Mir!Rows /\ Mir!NoRow.st = "none" /\ Mir!NoRow.start = 0
        /\ Mir!NoCs \in MirrorRecords /\ Mir!NoCs.phase = "idle" /\ Mir!NoCs.op = "none"
        /\ \A s \in Mir!Ids : Mir!NoCs.pre[s] = Mir!NoRow
    BY MirrorBlank
  <2> HIDE DEF Mir!NoRow, Mir!NoCs
  <2>2. /\ row = [s \in Mir!Ids |-> Mir!NoRow] /\ tc = [i \in Sources |-> "clean"] /\ cs = Mir!NoCs /\ up = TRUE
        /\ due = {} /\ swept = FALSE /\ clock = 0 /\ changes = 0 /\ crashes = 0
    BY <1>1 DEF Mir!Init
  <2>3. /\ row \in [Mir!Ids -> Mir!Rows] /\ tc \in [Sources -> Kernel] /\ \A s \in Mir!Ids : row[s].st = "none" /\ row[s].start = 0
    BY <2>1, <2>2 DEF Kernel
  <2>4. MaxTime \in Nat /\ MaxChanges \in Nat /\ MaxCrashes \in Nat /\ MaxSessions \in Nat
    BY DEF Mir!TcMirrorAssumption
  <2>5. /\ cs.op = "none" /\ cs.s \in Mir!Ids /\ cs.src \in Sources /\ cs.by \in {"operator", "sweep", "orphan"}
        /\ cs.phase = "idle" /\ cs.pre \in [Mir!Ids -> Mir!Rows] /\ cs.next \in 1 .. Len(Sessions) + 1
    BY <2>1, <2>2 DEF MirrorRecords
  <2>6. Mir!TypeOK
    <3>1. 0 \in 0 .. MaxTime /\ 0 \in 0 .. MaxChanges /\ 0 \in 0 .. MaxCrashes
      BY <2>4
    <3>2. (cs.op = "none") = (cs.phase = "idle")
      BY <2>5
    <3> QED
      BY <2>2, <2>3, <2>5, <3>1, <3>2 DEF Mir!TypeOK, Mir!Idle, Mir!Undoing, Kernel
  <2>7. MirrorShape
    BY <2>1, <2>2, <2>3, <2>6 DEF MirrorShape
  <2>8. {s \in Mir!Ids : Mir!Active(s)} = {}
    BY <2>3 DEF Mir!Active
  <2>9. Mir!Cardinality({}) = 0
    <3>1. Mir!Cardinality({}) = Cardinality({})
      BY DEF Mir!Cardinality, Cardinality
    <3> QED
      BY <3>1, FS_EmptySet
  <2>10. Mir!CapRespected
    BY <2>4, <2>8, <2>9 DEF Mir!CapRespected
  <2>11. Mir!OneSessionPerSource
    BY <2>3 DEF Mir!OneSessionPerSource, Mir!Active
  <2>12. RoomInv /\ SnapInv
    BY <2>5, <2>10, <2>11 DEF RoomInv, SnapInv
  <2>13. LiveInv /\ UndoInv
    BY <2>2, <2>3, <2>5 DEF LiveInv, UndoInv
  <2> QED
    BY <2>7, <2>12, <2>13 DEF MirrorInv
<1>2. ASSUME MirrorInv, [Mir!Next]_(Mir!vars) PROVE MirrorInv' /\ MirrorMove
  <2>1. MirrorShape' /\ MirrorMove
    BY <1>2, MirrorMoves DEF MirrorInv
  <2> QED
    BY <1>2, <2>1, RoomSteps, SnapSteps, LiveSteps, UndoSteps DEF MirrorInv
<1> QED
  BY <1>1, <1>2

\* tcmirror.go: the rows, the kernel and the changeset keep their shape, wherever a step of
\* the agent fails and wherever the daemon dies.
THEOREM MirrorTypes ==
    ASSUME Mir!TcMirrorAssumption
    PROVE  Mir!Spec => []Mir!TypeOK
<1>1. Mir!Init => MirrorInv
  BY MirrorInduction
<1>2. MirrorInv /\ [Mir!Next]_(Mir!vars) => MirrorInv'
  BY MirrorInduction
<1>3. MirrorInv => Mir!TypeOK
  BY DEF MirrorInv, MirrorShape
<1> QED
  BY <1>1, <1>2, <1>3, PTL DEF Mir!Spec

\* tcmirror.go: whatever fails, however sessions share sources over time and
\* wherever the daemon dies, the concurrency cap holds and no source has two
\* active sessions; and as long as no store call fails and the daemon lives, an
\* active session no ended one shares its source with is mirrored when no
\* changeset is in progress.
THEOREM RowsMatchMirrors ==
    ASSUME Mir!TcMirrorAssumption
    PROVE  Mir!Spec => []Mir!MirrorsMatchRows
<1>1. Mir!Init => MirrorInv
  BY MirrorInduction
<1>2. MirrorInv /\ [Mir!Next]_(Mir!vars) => MirrorInv'
  BY MirrorInduction
<1>3. ASSUME MirrorInv PROVE Mir!MirrorsMatchRows
  <2>1. Mir!CapRespected /\ Mir!OneSessionPerSource
    BY <1>3 DEF MirrorInv, RoomInv
  <2>2. ASSUME ~StoreFaults, crashes = 0, Mir!Idle, NEW s \in Mir!Ids, Mir!Active(s)
        PROVE  tc[row[s].src] = "live" \/ \E t \in Mir!Ids : row[t].st = "stopped" /\ row[t].src = row[s].src
    BY <1>3, <2>2 DEF MirrorInv, LiveInv, Mirrored, Mir!Idle, Mir!Active
  <2> QED
    BY <2>1, <2>2 DEF Mir!MirrorsMatchRows, Mir!ActiveIsLive
<1> QED
  BY <1>1, <1>2, <1>3, PTL DEF Mir!Spec

\* RestoreTcMirror, also one that fails on the way or is taken up again after the
\* daemon died, leaves the rows of the sessions its changeset was not about as
\* they are, and their mirrors running.
THEOREM UndoSparesOthers ==
    ASSUME Mir!TcMirrorAssumption
    PROVE  Mir!Spec => [][Mir!Bystanders]_(Mir!vars)
<1>1. Mir!Init => MirrorInv
  BY MirrorInduction
<1>2. MirrorInv /\ [Mir!Next]_(Mir!vars) => MirrorInv'
  BY MirrorInduction
<1>3. ASSUME MirrorInv, [Mir!Next]_(Mir!vars) PROVE Mir!Bystanders
  <2> SUFFICES ASSUME cs.phase \in {"list", "drop", "mark", "readd", "rebind"}, NEW s \in Mir!Ids, s # cs.s
               PROVE  /\ row'[s] = row[s]
                      /\ row[s].st = "active" /\ tc[row[s].src] = "live" => tc'[row[s].src] = "live"
    BY DEF Mir!Bystanders, Mir!Undoing, Mir!Active
  <2>0. MirrorShape /\ RoomInv /\ SnapInv /\ MirrorShape' /\ MirrorMove /\ row[s].src \in Sources /\ cs.s \in Mir!Ids
    BY <1>3, MirrorInduction DEF MirrorInv, MirrorShape, Mir!TypeOK, Mir!Rows
  <2>1. CASE UNCHANGED <<row, tc, cs>> \/ EndMove \/ PhaseMove
    BY <2>1 DEF EndMove, PhaseMove
  <2>2. CASE DropMove
    <3>1. row' = row /\ SourcesBut(row[Sessions[cs'.next]].src)
      BY <2>2 DEF DropMove
    <3>2. Sessions[cs'.next] = cs.s /\ row[cs.s].st = "active"
      BY <2>0, <2>2, DropsOwn
    <3>3. row[s].st = "active" => row[s].src # row[cs.s].src
      BY <2>0, <3>2 DEF RoomInv, Mir!OneSessionPerSource, Mir!Active
    <3> QED
      BY <2>0, <3>1, <3>2, <3>3 DEF SourcesBut
  <2>3. CASE MarkMove
    BY <2>0, <2>3 DEF MarkMove, SnapInv, RowsBut
  <2>4. CASE ReaddMove
    BY <2>0, <2>4 DEF ReaddMove
  <2>5. CASE RebindMove
    BY <2>0, <2>5, RebindsActive DEF RebindMove, RowsBut
  <2>6. ~(StartMove \/ CreateMove \/ InsertMove \/ UpdateMove \/ TeardownMove \/ StopMove)
    BY DEF StartMove, CreateMove, InsertMove, UpdateMove, TeardownMove, StopMove
  <2> QED
    BY <2>0, <2>1, <2>2, <2>3, <2>4, <2>5, <2>6 DEF MirrorMove
<1> QED
  BY <1>1, <1>2, <1>3, PTL DEF Mir!Spec

\* createSession, RestoreTcMirror: a create whose undo gets to its second half ends without an active session,
\* and without a mirror on its source when tc works: whatever the store refuses,
\* however often the daemon died since the row was written and whether the ids
\* are fresh or not.
THEOREM UndoneCreatesGone ==
    ASSUME Mir!TcMirrorAssumption
    PROVE  Mir!Spec => [][Mir!CreateUndone]_(Mir!vars)
<1>1. Mir!Init => MirrorInv
  BY MirrorInduction
<1>2. MirrorInv /\ [Mir!Next]_(Mir!vars) => MirrorInv'
  BY MirrorInduction
<1>3. ASSUME MirrorInv, [Mir!Next]_(Mir!vars) PROVE Mir!CreateUndone
  <2> SUFFICES ASSUME cs.op = "create", cs.phase \in {"readd", "rebind"}, cs'.phase = "idle"
               PROVE  row'[cs.s].st # "active" /\ (~TcFaults => tc'[cs.src] = "clean")
    BY DEF Mir!CreateUndone
  <2>0. MirrorShape /\ UndoInv /\ MirrorMove /\ cs.s \in Mir!Ids /\ cs.src \in Sources
    BY <1>3, MirrorInduction DEF MirrorInv, MirrorShape, Mir!TypeOK
  <2>1. CASE EndMove
    BY <2>0, <2>1 DEF EndMove, UndoInv
  <2>2. CASE ReaddMove
    <3>1. row' = row /\ cs.next <= Len(Sessions) /\ cs.pre[Sessions[cs.next]].st = "active" /\ SourcesBut(cs.pre[Sessions[cs.next]].src)
      BY <2>2 DEF ReaddMove
    <3>2. Sessions[cs.next] \in Mir!Ids
      BY <2>0, <3>1, IdsFinite DEF MirrorShape, Mir!TypeOK
    <3>3. tc'[cs.src] = tc[cs.src]
      BY <2>0, <3>1, <3>2 DEF UndoInv, SourcesBut
    <3> QED
      BY <2>0, <3>1, <3>3 DEF UndoInv
  <2>3. ~(UNCHANGED <<row, tc, cs>> \/ StartMove \/ PhaseMove \/ CreateMove \/ InsertMove \/ UpdateMove \/ TeardownMove \/ StopMove
          \/ DropMove \/ MarkMove \/ RebindMove)
    BY DEF StartMove, PhaseMove, CreateMove, InsertMove, UpdateMove, TeardownMove, StopMove, DropMove, MarkMove, RebindMove
  <2> QED
    BY <2>0, <2>1, <2>2, <2>3 DEF MirrorMove
<1> QED
  BY <1>1, <1>2, <1>3, PTL DEF Mir!Spec

-----------------------------------------------------------------------------
CONSTANTS Conns, Refs, Drafts, TTL, LastStage

VARIABLES locks, discarded, stage, sweep, conns, opened, sessions, busy, shown

Pres == INSTANCE Presence

-----------------------------------------------------------------------------
(* Presence: the locks of entities and the registry of connections. *)

LockRecords == [cs : Drafts, session : Sessions, expires : Nat]
StageRecords == [at : {"idle", "get", "upsert"}, cs : Drafts \cup {None}, todo : SUBSET Refs, ref : Refs \cup {None},
                 now : Nat, override : BOOLEAN, took : Sessions \cup {None}, since : SUBSET Sessions]
ConnRecords == [session : Sessions, viewing : BOOLEAN]
BusyRecords == [send : (0 .. Pres!Cardinality(Sessions)) \cup {None}, release : Sessions \cup {None}]

\* A request stages for a draft and reads the clock when it starts, the sweep too,
\* so neither is ahead of the clock.
LockShape ==
    /\ clock \in 0 .. MaxTime
    /\ locks \in [Refs -> LockRecords \cup {None}]
    /\ \A r \in Refs : locks[r] # None => locks[r].expires <= clock + TTL
    /\ stage \in [Sessions -> StageRecords]
    /\ \A s \in Sessions : /\ stage[s].at # "idle" => stage[s].cs \in Drafts /\ stage[s].now <= clock
                           /\ stage[s].at = "upsert" => stage[s].ref \in Refs
    /\ sweep # None => sweep \in Nat /\ sweep <= clock

LiveConns(s) == {k \in Conns : conns[k] # None /\ conns[k].session = s}

\* An id that was not opened has no connection; the counts that wait to be sent
\* are counts of people.
RegistryInv ==
    /\ conns \in [Conns -> ConnRecords \cup {None}]
    /\ opened \in SUBSET Conns
    /\ \A k \in Conns : conns[k] # None => k \in opened
    /\ sessions \in [Sessions -> Nat]
    /\ \A s \in Sessions : sessions[s] = Pres!Cardinality(LiveConns(s))
    /\ busy \in [Conns -> BusyRecords]
    /\ shown \in 0 .. Pres!Cardinality(Sessions)

\* Connections and sessions are finitely many.
LEMMA PeopleCount ==
    ASSUME Pres!PresenceAssumption
    PROVE  /\ \A S \in SUBSET Sessions : Pres!Cardinality(S) \in 0 .. Pres!Cardinality(Sessions)
           /\ Pres!Cardinality(Sessions) \in Nat
           /\ \A S \in SUBSET Conns : /\ Pres!Cardinality(S) \in Nat
                                      /\ \A k \in Conns \ S : Pres!Cardinality(S \cup {k}) = Pres!Cardinality(S) + 1
                                      /\ \A k \in S : Pres!Cardinality(S \ {k}) = Pres!Cardinality(S) - 1
                                                      /\ Pres!Cardinality(S) > 0
<1>1. IsFiniteSet(Conns) /\ IsFiniteSet(Sessions)
  BY DEF Pres!PresenceAssumption, Pres!IsFiniteSet, IsFiniteSet
<1>2. \A X : Pres!Cardinality(X) = Cardinality(X)
  BY DEF Pres!Cardinality, Cardinality
<1>3. Cardinality(Sessions) \in Nat
  BY <1>1, FS_CardinalityType
<1>4. ASSUME NEW S \in SUBSET Sessions PROVE Cardinality(S) \in 0 .. Cardinality(Sessions)
  <2>1. IsFiniteSet(S) /\ Cardinality(S) <= Cardinality(Sessions)
    BY <1>1, FS_Subset
  <2>2. Cardinality(S) \in Nat
    BY <2>1, FS_CardinalityType
  <2> QED
    BY <1>3, <2>1, <2>2
<1>5. ASSUME NEW S \in SUBSET Conns
      PROVE  /\ Cardinality(S) \in Nat
             /\ \A k \in Conns \ S : Cardinality(S \cup {k}) = Cardinality(S) + 1
             /\ \A k \in S : Cardinality(S \ {k}) = Cardinality(S) - 1 /\ Cardinality(S) > 0
  <2>1. IsFiniteSet(S)
    BY <1>1, FS_Subset
  <2>2. Cardinality(S) \in Nat
    BY <2>1, FS_CardinalityType
  <2>3. ASSUME NEW k \in Conns \ S PROVE Cardinality(S \cup {k}) = Cardinality(S) + 1
    <3>1. Cardinality(S \cup {k}) = IF k \in S THEN Cardinality(S) ELSE Cardinality(S) + 1
      BY <2>1, FS_AddElement
    <3> QED
      BY <3>1
  <2>4. ASSUME NEW k \in S PROVE Cardinality(S \ {k}) = Cardinality(S) - 1 /\ Cardinality(S) > 0
    <3>1. Cardinality(S \ {k}) = IF k \in S THEN Cardinality(S) - 1 ELSE Cardinality(S)
      BY <2>1, FS_RemoveElement
    <3>2. IsFiniteSet(S \ {k})
      BY <2>1, FS_RemoveElement
    <3>3. Cardinality(S \ {k}) \in Nat
      BY <3>2, FS_CardinalityType
    <3> QED
      BY <2>2, <3>1, <3>3
  <2> QED
    BY <2>2, <2>3, <2>4
<1> QED
  BY <1>2, <1>3, <1>4, <1>5

\* However a row of the table is freed, the rows that stay are unchanged.
LEMMA LocksFreed ==
    ASSUME LockShape, locks' \in [Refs -> LockRecords \cup {None}], \A r \in Refs : locks'[r] \in {locks[r], None},
           UNCHANGED <<clock, stage>>, sweep' \in {sweep, None}
    PROVE  LockShape'
  BY DEF LockShape

\* A lock that somebody else holds, and a request is about to overwrite, is the one
\* that was read and reported or was written since.
NamedInv ==
    \A s \in Sessions :
        /\ stage[s].at = "upsert" /\ locks[stage[s].ref] # None
        /\ locks[stage[s].ref].expires > clock /\ locks[stage[s].ref].session # s
        => stage[s].took = locks[stage[s].ref].session \/ locks[stage[s].ref].session \in stage[s].since

\* The requests after one of them wrote a lock: it goes on, those that have read
\* the same lock know of it, and the others are as they were.
LEMMA WrittenRecords ==
    ASSUME stage \in [Sessions -> StageRecords], NEW s \in Sessions, NEW r \in Refs, stage' = Pres!Written(s, r)
    PROVE  /\ stage' \in [Sessions -> StageRecords]
           /\ stage'[s].at = "get" /\ stage'[s].cs = stage[s].cs /\ stage'[s].now = stage[s].now
           /\ \A t \in Sessions : t # s =>
                  /\ stage'[t].at = stage[t].at /\ stage'[t].cs = stage[t].cs /\ stage'[t].now = stage[t].now
                  /\ stage'[t].ref = stage[t].ref /\ stage'[t].took = stage[t].took /\ stage[t].since \subseteq stage'[t].since
                  /\ stage[t].at = "upsert" /\ stage[t].ref = r => s \in stage'[t].since
<1> DEFINE own == [stage[s] EXCEPT !.at = "get", !.todo = @ \ {r}, !.ref = None, !.took = None, !.since = {}]
           known(t) == [stage[t] EXCEPT !.since = @ \cup {s}]
<1>1. stage' = [t \in Sessions |-> IF t = s THEN own
                                  ELSE IF stage[t].at = "upsert" /\ stage[t].ref = r THEN known(t) ELSE stage[t]]
  BY DEF Pres!Written
<1>2. own \in StageRecords /\ own.at = "get" /\ own.cs = stage[s].cs /\ own.now = stage[s].now
  <2>1. PICK q \in StageRecords : q = stage[s]
    OBVIOUS
  <2>2. q.todo \ {r} \in SUBSET Refs /\ {} \in SUBSET Sessions
    BY DEF StageRecords
  <2>3. own = [q EXCEPT !.at = "get", !.todo = q.todo \ {r}, !.ref = None, !.took = None, !.since = {}]
    BY <2>1 DEF StageRecords
  <2> HIDE DEF own
  <2> QED
    BY <2>1, <2>2, <2>3 DEF StageRecords
<1>3. ASSUME NEW t \in Sessions
      PROVE  /\ known(t) \in StageRecords /\ known(t).at = stage[t].at /\ known(t).cs = stage[t].cs /\ known(t).now = stage[t].now
             /\ known(t).ref = stage[t].ref /\ known(t).took = stage[t].took /\ known(t).since = stage[t].since \cup {s}
  <2>1. PICK q \in StageRecords : q = stage[t]
    OBVIOUS
  <2>2. q.since \cup {s} \in SUBSET Sessions
    BY DEF StageRecords
  <2> QED
    BY <2>1, <2>2 DEF StageRecords
<1> HIDE DEF own, known
<1>4. stage' \in [Sessions -> StageRecords]
  BY <1>1, <1>2, <1>3
<1>5. stage'[s] = own
  BY <1>1
<1>6. \A t \in Sessions : t # s => stage'[t] = IF stage[t].at = "upsert" /\ stage[t].ref = r THEN known(t) ELSE stage[t]
  BY <1>1
<1> QED
  BY <1>2, <1>3, <1>4, <1>5, <1>6

\* Every step keeps the shape of the locks and of the requests that stage, and
\* the sweep deletes no lock that is still held.
LEMMA LockSteps ==
    ASSUME Pres!PresenceAssumption, LockShape, [Pres!Next]_(Pres!vars)
    PROVE  LockShape' /\ Pres!SweepKeepsHeld
<1>0. /\ clock \in Nat /\ MaxTime \in Nat /\ TTL \in Nat /\ None \notin Nat /\ None \notin Sessions
      /\ locks \in [Refs -> LockRecords \cup {None}] /\ stage \in [Sessions -> StageRecords]
  BY DEF Pres!PresenceAssumption, LockShape
<1>i. /\ Pres!Free \in StageRecords /\ Pres!Free.at = "idle"
  BY DEF Pres!Free, StageRecords
<1>w. ASSUME sweep = None \/ sweep' # None PROVE Pres!SweepKeepsHeld
  BY <1>w DEF Pres!SweepKeepsHeld
\* A step of one request that writes no lock.
<1>g. ASSUME NEW s \in Sessions, NEW new \in StageRecords, stage' = [stage EXCEPT ![s] = new],
             new.at # "idle" => new.cs \in Drafts /\ new.now <= clock, new.at = "upsert" => new.ref \in Refs,
             UNCHANGED <<clock, locks, sweep>>
      PROVE  LockShape' /\ Pres!SweepKeepsHeld
  <2>1. stage' \in [Sessions -> StageRecords] /\ stage'[s] = new /\ \A t \in Sessions : t # s => stage'[t] = stage[t]
    BY <1>0, <1>g
  <2> QED
    BY <1>g, <1>w, <2>1 DEF LockShape
<1>1. ASSUME NEW s \in Sessions, NEW d \in Drafts, NEW refs \in (SUBSET Refs) \ {{}}, NEW o \in BOOLEAN, Pres!Stage(s, d, refs, o)
      PROVE  LockShape' /\ Pres!SweepKeepsHeld
  <2>0. PICK f \in StageRecords : f = Pres!Free
    BY <1>i
  <2> DEFINE new == [f EXCEPT !.at = "get", !.cs = d, !.todo = refs, !.now = clock, !.override = o]
  <2>1. new \in StageRecords /\ new.at = "get" /\ new.cs = d /\ new.now = clock
    BY <1>0 DEF StageRecords
  <2>2. stage' = [stage EXCEPT ![s] = new] /\ UNCHANGED <<clock, locks, sweep>>
    BY <1>1, <2>0 DEF Pres!Stage
  <2> HIDE DEF new
  <2>3. new.cs \in Drafts /\ new.now <= clock /\ new.at # "upsert"
    BY <1>0, <2>1
  <2> QED
    BY <1>g, <2>1, <2>2, <2>3
<1>2. ASSUME NEW s \in Sessions, Pres!StageGet(s) PROVE LockShape' /\ Pres!SweepKeepsHeld
  <2>1. PICK r \in stage[s].todo :
            LET other == Pres!Held(locks[r], stage[s].now) /\ locks[r].session # s
            IN  IF other /\ ~stage[s].override
                THEN stage' = [stage EXCEPT ![s].todo = @ \ {r}]
                ELSE stage' = [stage EXCEPT ![s].at = "upsert", ![s].ref = r,
                                            ![s].took = IF other THEN locks[r].session ELSE None]
    BY <1>2 DEF Pres!StageGet
  <2>2. stage[s].at = "get" /\ UNCHANGED <<clock, locks, sweep>> /\ r \in Refs /\ stage[s] \in StageRecords
        /\ stage[s].cs \in Drafts /\ stage[s].now <= clock
    BY <1>0, <1>2 DEF Pres!StageGet, LockShape, StageRecords
  <2> DEFINE who == IF Pres!Held(locks[r], stage[s].now) /\ locks[r].session # s THEN locks[r].session ELSE None
             skip == [stage[s] EXCEPT !.todo = @ \ {r}]
             take == [stage[s] EXCEPT !.at = "upsert", !.ref = r, !.took = who]
  <2>3. who \in Sessions \cup {None}
    BY <1>0, <2>2 DEF Pres!Held, LockRecords
  <2>4. stage' = [stage EXCEPT ![s] = skip] \/ stage' = [stage EXCEPT ![s] = take]
    BY <1>0, <2>1
  <2> HIDE DEF who
  <2>5. skip \in StageRecords /\ skip.at = "get" /\ skip.cs = stage[s].cs /\ skip.now = stage[s].now
    BY <2>2 DEF StageRecords
  <2>6. take \in StageRecords /\ take.at = "upsert" /\ take.cs = stage[s].cs /\ take.now = stage[s].now /\ take.ref = r
    BY <2>2, <2>3 DEF StageRecords
  <2> HIDE DEF skip, take
  <2> QED
    BY <1>g, <2>2, <2>4, <2>5, <2>6
<1>3. ASSUME NEW s \in Sessions, Pres!StageUpsert(s) PROVE LockShape' /\ Pres!SweepKeepsHeld
  <2> DEFINE r == stage[s].ref
             held == [cs |-> stage[s].cs, session |-> s, expires |-> stage[s].now + TTL]
  <2>1. /\ stage[s].at = "upsert" /\ UNCHANGED <<clock, sweep>> /\ r \in Refs /\ stage[s] \in StageRecords
        /\ stage[s].cs \in Drafts /\ stage[s].now <= clock /\ stage[s].now \in Nat
    BY <1>0, <1>3 DEF Pres!StageUpsert, LockShape, StageRecords
  <2>2. locks' = [locks EXCEPT ![r] = held] /\ stage' = Pres!Written(s, r)
    BY <1>0, <1>3 DEF Pres!StageUpsert
  <2>3. held \in LockRecords /\ held.expires = stage[s].now + TTL
    BY <1>0, <2>1 DEF LockRecords
  <2>4. held.expires <= clock + TTL
    BY <1>0, <2>1, <2>3
  <2> HIDE DEF held, r
  <2>6. locks' \in [Refs -> LockRecords \cup {None}] /\ locks'[r] = held /\ \A q \in Refs : q # r => locks'[q] = locks[q]
    BY <1>0, <2>1, <2>2, <2>3
  <2>5. /\ stage' \in [Sessions -> StageRecords]
        /\ stage'[s].at = "get" /\ stage'[s].cs = stage[s].cs /\ stage'[s].now = stage[s].now
        /\ \A t \in Sessions : t # s => /\ stage'[t].at = stage[t].at /\ stage'[t].cs = stage[t].cs
                                        /\ stage'[t].now = stage[t].now /\ stage'[t].ref = stage[t].ref
    BY <1>0, <2>1, <2>2, WrittenRecords
  <2>7. \A t \in Sessions : /\ stage'[t].at # "idle" => stage'[t].cs \in Drafts /\ stage'[t].now <= clock
                            /\ stage'[t].at = "upsert" => stage'[t].ref \in Refs
    BY <2>1, <2>5 DEF LockShape
  <2>8. Pres!SweepKeepsHeld
    BY <1>w, <2>1
  <2>9. \A q \in Refs : locks'[q] # None => locks'[q].expires <= clock + TTL
    BY <2>4, <2>6 DEF LockShape
  <2> QED
    BY <2>1, <2>5, <2>6, <2>7, <2>8, <2>9 DEF LockShape
<1>4. ASSUME NEW s \in Sessions, Pres!StageDone(s) PROVE LockShape' /\ Pres!SweepKeepsHeld
  BY <1>4, <1>g, <1>i DEF Pres!StageDone
<1>5. CASE Pres!LocksList
  <2>1. sweep = None /\ sweep' = clock /\ UNCHANGED <<clock, locks, stage>>
    BY <1>5 DEF Pres!LocksList
  <2> QED
    BY <1>0, <1>w, <2>1 DEF LockShape
<1>6. CASE Pres!DeleteExpired
  <2>1. sweep # None /\ sweep' = None /\ UNCHANGED <<clock, stage>>
        /\ locks' = [r \in Refs |-> IF locks[r] # None /\ locks[r].expires <= sweep THEN None ELSE locks[r]]
    BY <1>6 DEF Pres!DeleteExpired
  <2>2. sweep \in Nat /\ sweep <= clock
    BY <2>1 DEF LockShape
  <2>3. locks' \in [Refs -> LockRecords \cup {None}] /\ \A r \in Refs : locks'[r] \in {locks[r], None}
    BY <1>0, <2>1
  <2>4. LockShape'
    BY <2>1, <2>3, LocksFreed
  <2>5. ASSUME NEW r \in Refs, Pres!Held(locks[r], clock) PROVE locks'[r] = locks[r]
    <3>1. locks[r] # None /\ locks[r].expires > clock /\ locks[r].expires \in Nat
      BY <1>0, <2>5 DEF Pres!Held, LockRecords
    <3>2. ~(locks[r].expires <= sweep)
      BY <1>0, <2>2, <3>1
    <3> QED
      BY <2>1, <3>2
  <2> QED
    BY <2>4, <2>5 DEF Pres!SweepKeepsHeld
<1>7. ASSUME NEW d \in Drafts, Pres!Discard(d) PROVE LockShape' /\ Pres!SweepKeepsHeld
  <2>1. UNCHANGED <<clock, stage, sweep>> /\ locks' \in [Refs -> LockRecords \cup {None}]
        /\ \A r \in Refs : locks'[r] \in {locks[r], None}
    BY <1>0, <1>7 DEF Pres!Discard
  <2> QED
    BY <1>w, <2>1, LocksFreed
<1>8. ASSUME NEW k \in Conns, Pres!ReleaseSession(k) PROVE LockShape' /\ Pres!SweepKeepsHeld
  <2>1. UNCHANGED <<clock, stage, sweep>> /\ locks' \in [Refs -> LockRecords \cup {None}]
        /\ \A r \in Refs : locks'[r] \in {locks[r], None}
    BY <1>0, <1>8 DEF Pres!ReleaseSession
  <2> QED
    BY <1>w, <2>1, LocksFreed
<1>9. ASSUME UNCHANGED <<clock, locks, stage, sweep>> PROVE LockShape' /\ Pres!SweepKeepsHeld
  BY <1>9, <1>w DEF LockShape
<1>10. ASSUME NEW k \in Conns, Pres!ConnStep(k) PROVE LockShape' /\ Pres!SweepKeepsHeld
  <2>1. Pres!ReleaseSession(k) \/ UNCHANGED <<clock, locks, stage, sweep>>
    BY <1>10 DEF Pres!ConnStep, Pres!ConnOpened, Pres!ConnTopics, Pres!ConnClosed, Pres!Broadcast, Pres!lockVars
  <2> QED
    BY <1>8, <1>9, <2>1
<1>11. CASE Pres!Tick
  <2>1. clock' = clock + 1 /\ clock < MaxTime /\ UNCHANGED <<locks, stage, sweep>>
    BY <1>11 DEF Pres!Tick, Pres!lockVars
  <2>2. clock' \in 0 .. MaxTime /\ \A n \in Nat : n <= clock => n <= clock'
    BY <1>0, <2>1
  <2>3. \A r \in Refs : locks[r] # None => locks[r].expires <= clock' + TTL
    <3>1. \A r \in Refs : locks[r] # None => locks[r].expires \in Nat /\ locks[r].expires <= clock + TTL
      BY <1>0 DEF LockShape, LockRecords
    <3> QED
      BY <1>0, <2>1, <3>1
  <2>4. \A s \in Sessions : stage[s].now \in Nat
    BY <1>0 DEF StageRecords
  <2> QED
    BY <1>w, <2>1, <2>2, <2>3, <2>4 DEF LockShape
<1> QED
  BY <1>1, <1>2, <1>3, <1>4, <1>5, <1>6, <1>7, <1>9, <1>10, <1>11
     DEF Pres!Next, Pres!StageStep, Pres!vars, Pres!lockVars

\* The registry: one connection at a time opens, changes its topics or closes,
\* and the count of its session moves with it.
LEMMA RegistrySteps ==
    ASSUME Pres!PresenceAssumption, RegistryInv, [Pres!Next]_(Pres!vars)
    PROVE  RegistryInv'
<1>0. /\ conns \in [Conns -> ConnRecords \cup {None}] /\ opened \in SUBSET Conns
      /\ sessions \in [Sessions -> Nat] /\ busy \in [Conns -> BusyRecords]
      /\ shown \in 0 .. Pres!Cardinality(Sessions)
      /\ \A k \in Conns : conns[k] # None => k \in opened
      /\ \A s \in Sessions : sessions[s] = Pres!Cardinality(LiveConns(s)) /\ LiveConns(s) \in SUBSET Conns
  BY DEF RegistryInv, LiveConns
<1>n. None \notin ConnRecords /\ None \notin Nat
  BY DEF Pres!PresenceAssumption, ConnRecords
<1>c. ASSUME conns' \in [Conns -> ConnRecords \cup {None}]
      PROVE  Pres!Count(conns') \in (0 .. Pres!Cardinality(Sessions)) \cup {None}
  <2>1. Pres!Viewers(conns') \in SUBSET Sessions
    BY <1>c DEF Pres!Viewers, ConnRecords
  <2> QED
    BY <2>1, PeopleCount DEF Pres!Count
<1>1. ASSUME NEW k \in Conns, NEW s \in Sessions, Pres!ConnOpened(k, s) PROVE RegistryInv'
  <2> DEFINE new == [session |-> s, viewing |-> FALSE]
  <2>1. k \notin opened /\ opened' = opened \cup {k} /\ conns' = [conns EXCEPT ![k] = new]
        /\ sessions' = [sessions EXCEPT ![s] = @ + 1] /\ UNCHANGED <<busy, shown>>
    BY <1>1 DEF Pres!ConnOpened
  <2>2. new \in ConnRecords /\ new.session = s /\ new # None
    <3>1. new \in ConnRecords /\ new.session = s
      BY DEF ConnRecords
    <3> HIDE DEF new
    <3> QED
      BY <1>n, <3>1
  <2> HIDE DEF new
  <2>3. conns[k] = None
    BY <1>0, <2>1
  <2>4. conns' \in [Conns -> ConnRecords \cup {None}] /\ conns'[k] = new /\ \A j \in Conns : j # k => conns'[j] = conns[j]
    BY <1>0, <2>1, <2>2
  <2>5. LiveConns(s)' = LiveConns(s) \cup {k} /\ k \notin LiveConns(s)
    BY <2>2, <2>3, <2>4 DEF LiveConns
  <2>6. \A t \in Sessions : t # s => LiveConns(t)' = LiveConns(t)
    BY <2>2, <2>3, <2>4 DEF LiveConns
  <2>7. Pres!Cardinality(LiveConns(s) \cup {k}) = Pres!Cardinality(LiveConns(s)) + 1
    BY <1>0, <2>5, PeopleCount
  <2>8. sessions' \in [Sessions -> Nat] /\ sessions'[s] = sessions[s] + 1 /\ \A t \in Sessions : t # s => sessions'[t] = sessions[t]
    BY <1>0, <2>1
  <2>9. \A t \in Sessions : sessions'[t] = Pres!Cardinality(LiveConns(t)')
    BY <1>0, <2>5, <2>6, <2>7, <2>8
  <2>10. \A j \in Conns : conns'[j] # None => j \in opened'
    BY <1>0, <2>1, <2>4
  <2> QED
    BY <1>0, <2>1, <2>4, <2>8, <2>9, <2>10 DEF RegistryInv
<1>2. ASSUME NEW k \in Conns, Pres!ConnTopics(k) PROVE RegistryInv'
  <2>1. conns[k] # None /\ conns' = [conns EXCEPT ![k].viewing = ~@] /\ UNCHANGED <<opened, sessions, shown>>
        /\ busy' = [busy EXCEPT ![k].send = Pres!Count(conns')]
    BY <1>2 DEF Pres!ConnTopics
  <2>2. PICK c \in ConnRecords : c = conns[k]
    BY <1>0, <2>1
  <2>3. PICK v \in BOOLEAN : v = ~c.viewing
    <3>1. (~c.viewing) \in BOOLEAN
      OBVIOUS
    <3> QED
      BY <3>1, Zenon
  <2> DEFINE new == [c EXCEPT !.viewing = v]
  <2>4. conns' = [conns EXCEPT ![k] = new]
    BY <1>0, <2>1, <2>2, <2>3
  <2>5. new \in ConnRecords /\ new.session = c.session
    BY DEF ConnRecords
  <2>6. new # None
    BY <1>n, <2>5
  <2> HIDE DEF new
  <2>7. conns' \in [Conns -> ConnRecords \cup {None}] /\ conns'[k] = new /\ \A j \in Conns : j # k => conns'[j] = conns[j]
    BY <1>0, <2>4, <2>5
  <2>8. \A t \in Sessions : LiveConns(t)' = LiveConns(t)
    BY <2>1, <2>2, <2>5, <2>6, <2>7 DEF LiveConns
  <2>9. PICK n \in (0 .. Pres!Cardinality(Sessions)) \cup {None} : n = Pres!Count(conns')
    BY <1>c, <2>7
  <2>10. busy' \in [Conns -> BusyRecords]
    <3>1. [busy[k] EXCEPT !.send = n] \in BusyRecords
      BY <1>0 DEF BusyRecords
    <3>2. busy' = [busy EXCEPT ![k] = [busy[k] EXCEPT !.send = n]]
      BY <1>0, <2>1, <2>9
    <3> QED
      BY <1>0, <3>1, <3>2
  <2>11. \A t \in Sessions : sessions'[t] = Pres!Cardinality(LiveConns(t)')
    BY <1>0, <2>1, <2>8
  <2>12. \A j \in Conns : conns'[j] # None => j \in opened'
    BY <1>0, <2>1, <2>7
  <2> QED
    BY <1>0, <2>1, <2>7, <2>10, <2>11, <2>12 DEF RegistryInv
<1>3. ASSUME NEW k \in Conns, Pres!ConnClosed(k) PROVE RegistryInv'
  <2>1. /\ conns[k] # None /\ conns' = [conns EXCEPT ![k] = None] /\ UNCHANGED <<opened, shown>>
        /\ sessions' = [sessions EXCEPT ![conns[k].session] = @ - 1]
        /\ busy' = [busy EXCEPT ![k] = [send |-> IF conns[k].viewing THEN Pres!Count(conns') ELSE None,
                                        release |-> IF Pres!Last(k) THEN conns[k].session ELSE None]]
    BY <1>3 DEF Pres!ConnClosed
  <2>2. PICK s \in Sessions : s = conns[k].session
    BY <1>0, <2>1 DEF ConnRecords
  <2>3. conns' \in [Conns -> ConnRecords \cup {None}] /\ conns'[k] = None /\ \A j \in Conns : j # k => conns'[j] = conns[j]
    BY <1>0, <2>1
  <2>4. k \in LiveConns(s) /\ LiveConns(s)' = LiveConns(s) \ {k}
    BY <2>1, <2>2, <2>3 DEF LiveConns
  <2>5. \A t \in Sessions : t # s => LiveConns(t)' = LiveConns(t)
    BY <2>2, <2>3 DEF LiveConns
  <2>6. Pres!Cardinality(LiveConns(s) \ {k}) = Pres!Cardinality(LiveConns(s)) - 1 /\ Pres!Cardinality(LiveConns(s)) > 0
    BY <1>0, <2>4, PeopleCount
  <2>7. sessions' \in [Sessions -> Nat] /\ sessions'[s] = sessions[s] - 1 /\ \A t \in Sessions : t # s => sessions'[t] = sessions[t]
    BY <1>0, <2>1, <2>2, <2>6
  <2>8. \A t \in Sessions : sessions'[t] = Pres!Cardinality(LiveConns(t)')
    BY <1>0, <2>4, <2>5, <2>6, <2>7
  <2>9. busy' \in [Conns -> BusyRecords]
    <3>1. PICK n \in (0 .. Pres!Cardinality(Sessions)) \cup {None} : n = IF conns[k].viewing THEN Pres!Count(conns') ELSE None
      BY <1>c, <2>3
    <3>2. PICK r \in Sessions \cup {None} : r = IF Pres!Last(k) THEN conns[k].session ELSE None
      BY <2>2
    <3>3. [send |-> n, release |-> r] \in BusyRecords
      BY DEF BusyRecords
    <3> QED
      BY <1>0, <2>1, <3>1, <3>2, <3>3
  <2>10. \A j \in Conns : conns'[j] # None => j \in opened'
    BY <1>0, <2>1, <2>3
  <2> QED
    BY <1>0, <2>1, <2>3, <2>7, <2>8, <2>9, <2>10 DEF RegistryInv
\* Outside mu: what a goroutine sends or releases.
<1>o. ASSUME UNCHANGED <<conns, opened, sessions>>, busy' \in [Conns -> BusyRecords], shown' \in 0 .. Pres!Cardinality(Sessions)
      PROVE  RegistryInv'
  <2>1. \A t \in Sessions : LiveConns(t)' = LiveConns(t)
    BY <1>o DEF LiveConns
  <2> QED
    BY <1>o, <2>1 DEF RegistryInv
<1>4. ASSUME NEW k \in Conns, Pres!Broadcast(k) PROVE RegistryInv'
  <2>1. /\ busy[k].send # None /\ shown' = busy[k].send /\ UNCHANGED <<conns, opened, sessions>>
        /\ busy' = [busy EXCEPT ![k] = [busy[k] EXCEPT !.send = None]]
    BY <1>0, <1>4 DEF Pres!Broadcast
  <2>2. busy[k].send \in 0 .. Pres!Cardinality(Sessions) /\ [busy[k] EXCEPT !.send = None] \in BusyRecords
    BY <1>0, <2>1 DEF BusyRecords
  <2> QED
    BY <1>0, <1>o, <2>1, <2>2
<1>5. ASSUME NEW k \in Conns, Pres!ReleaseSession(k) PROVE RegistryInv'
  <2>1. Pres!Rest \in BusyRecords
    BY DEF Pres!Rest, BusyRecords
  <2>2. busy' = [busy EXCEPT ![k] = Pres!Rest] /\ UNCHANGED <<conns, opened, sessions, shown>>
    BY <1>5 DEF Pres!ReleaseSession
  <2> QED
    BY <1>0, <1>o, <2>1, <2>2
<1>6. ASSUME UNCHANGED Pres!connVars PROVE RegistryInv'
  BY <1>0, <1>6, <1>o DEF Pres!connVars
<1> QED
  BY <1>1, <1>2, <1>3, <1>4, <1>5, <1>6
     DEF Pres!Next, Pres!ConnStep, Pres!StageStep, Pres!Stage, Pres!StageGet, Pres!StageUpsert, Pres!StageDone,
         Pres!Discard, Pres!LocksList, Pres!DeleteExpired, Pres!Tick, Pres!vars

\* Locks and registry from the start.
LEMMA PresenceInduction ==
    ASSUME Pres!PresenceAssumption
    PROVE  Pres!Spec => [](LockShape /\ RegistryInv)
<1>1. ASSUME Pres!Init PROVE LockShape /\ RegistryInv
  <2>1. Pres!Free \in StageRecords /\ Pres!Free.at = "idle" /\ Pres!Rest \in BusyRecords
    BY DEF Pres!Free, StageRecords, Pres!Rest, BusyRecords
  <2>2. \A S \in SUBSET Conns : Pres!Cardinality(S) \in Nat
    BY PeopleCount
  <2>3. Pres!Cardinality({}) = 0
    BY FS_EmptySet DEF Pres!Cardinality, Cardinality
  <2>4. \A s \in Sessions : LiveConns(s) = {}
    BY <1>1 DEF Pres!Init, LiveConns
  <2>5. 0 \in 0 .. Pres!Cardinality(Sessions)
    BY PeopleCount
  <2>6. clock \in 0 .. MaxTime
    BY <1>1 DEF Pres!Init, Pres!PresenceAssumption
  <2>7. LockShape
    BY <1>1, <2>1, <2>6 DEF Pres!Init, LockShape
  <2>8. \A s \in Sessions : sessions[s] = Pres!Cardinality(LiveConns(s))
    BY <1>1, <2>3, <2>4 DEF Pres!Init
  <2> QED
    BY <1>1, <2>1, <2>5, <2>7, <2>8 DEF Pres!Init, RegistryInv
<1>2. LockShape /\ RegistryInv /\ [Pres!Next]_(Pres!vars) => LockShape' /\ RegistryInv'
  BY LockSteps, RegistrySteps
<1> QED
  BY <1>1, <1>2, PTL DEF Pres!Spec

\* presence/service.go: a lock names a live session's operator and a draft and
\* ends within the time to live, and the registry counts for every session the
\* connections it has, so that the last one to close is known to be the last.
THEOREM PresenceTypes ==
    ASSUME Pres!PresenceAssumption
    PROVE  Pres!Spec => []Pres!TypeOK
<1>1. LockShape /\ RegistryInv => Pres!TypeOK
  <2> SUFFICES ASSUME LockShape, RegistryInv PROVE Pres!TypeOK
    OBVIOUS
  <2>1. clock \in Nat /\ TTL \in Nat
    BY DEF LockShape, Pres!PresenceAssumption
  <2>2. ASSUME NEW r \in Refs, locks[r] # None
        PROVE  locks[r].session \in Sessions /\ locks[r].cs \in Drafts /\ locks[r].expires \in 0 .. (clock + TTL)
    <3>1. locks[r] \in LockRecords /\ locks[r].expires <= clock + TTL
      BY <2>2 DEF LockShape
    <3> QED
      BY <2>1, <3>1 DEF LockRecords
  <2>3. \A s \in Sessions : sessions[s] = Pres!Cardinality({k \in Conns : conns[k] # None /\ conns[k].session = s})
    BY DEF RegistryInv, LiveConns
  <2> QED
    BY <2>2, <2>3 DEF Pres!TypeOK, LockShape, RegistryInv
<1> QED
  BY <1>1, PresenceInduction, PTL

\* presence/locks.go: the sweep frees no lock that is held at that moment, also
\* one renewed or taken over after the rows were listed.
THEOREM SweepSparesHeld ==
    ASSUME Pres!PresenceAssumption
    PROVE  Pres!Spec => [][Pres!SweepKeepsHeld]_(Pres!vars)
<1>1. LockShape /\ [Pres!Next]_(Pres!vars) => [Pres!SweepKeepsHeld]_(Pres!vars)
  BY LockSteps
<1> QED
  BY <1>1, PresenceInduction, PTL DEF Pres!Spec

\* Requests that read and write a lock with others in between, step by step.
LEMMA NamedSteps ==
    ASSUME Pres!PresenceAssumption, LockShape, NamedInv, [Pres!Next]_(Pres!vars)
    PROVE  NamedInv'
<1>0. /\ clock \in Nat /\ locks \in [Refs -> LockRecords \cup {None}] /\ stage \in [Sessions -> StageRecords]
      /\ \A s \in Sessions : /\ stage[s] \in StageRecords /\ stage[s].now \in Nat
                             /\ stage[s].at = "upsert" => stage[s].ref \in Refs
                             /\ stage[s].at # "idle" => stage[s].now <= clock
  BY DEF LockShape, StageRecords
\* A step of one request that writes no lock.
<1>g. ASSUME NEW s \in Sessions, NEW new, stage' = [stage EXCEPT ![s] = new], UNCHANGED <<clock, locks>>,
             new.at = "upsert" /\ locks[new.ref] # None /\ locks[new.ref].expires > clock /\ locks[new.ref].session # s
                 => new.took = locks[new.ref].session
      PROVE  NamedInv'
  <2>1. stage'[s] = new /\ \A t \in Sessions : t # s => stage'[t] = stage[t]
    BY <1>0, <1>g
  <2> QED
    BY <1>g, <2>1 DEF NamedInv
<1>1. ASSUME NEW s \in Sessions, NEW d \in Drafts, NEW refs \in (SUBSET Refs) \ {{}}, NEW o \in BOOLEAN, Pres!Stage(s, d, refs, o)
      PROVE  NamedInv'
  <2> DEFINE new == [Pres!Free EXCEPT !.at = "get", !.cs = d, !.todo = refs, !.now = clock, !.override = o]
  <2>1. new.at = "get"
    BY DEF Pres!Free
  <2>2. stage' = [stage EXCEPT ![s] = new] /\ UNCHANGED <<clock, locks>>
    BY <1>1 DEF Pres!Stage
  <2> HIDE DEF new
  <2> QED
    BY <1>g, <2>1, <2>2
<1>2. ASSUME NEW s \in Sessions, Pres!StageGet(s) PROVE NamedInv'
  <2>1. PICK r \in stage[s].todo :
            LET other == Pres!Held(locks[r], stage[s].now) /\ locks[r].session # s
            IN  IF other /\ ~stage[s].override
                THEN stage' = [stage EXCEPT ![s].todo = @ \ {r}]
                ELSE stage' = [stage EXCEPT ![s].at = "upsert", ![s].ref = r,
                                            ![s].took = IF other THEN locks[r].session ELSE None]
    BY <1>2 DEF Pres!StageGet
  <2>2. stage[s].at = "get" /\ UNCHANGED <<clock, locks>> /\ r \in Refs
    BY <1>0, <1>2 DEF Pres!StageGet, StageRecords
  <2> DEFINE who == IF Pres!Held(locks[r], stage[s].now) /\ locks[r].session # s THEN locks[r].session ELSE None
             skip == [stage[s] EXCEPT !.todo = @ \ {r}]
             take == [stage[s] EXCEPT !.at = "upsert", !.ref = r, !.took = who]
  <2>3. stage' = [stage EXCEPT ![s] = skip] \/ stage' = [stage EXCEPT ![s] = take]
    BY <1>0, <2>1
  <2>4. locks[r] # None /\ locks[r].expires > clock /\ locks[r].session # s => who = locks[r].session
    <3>1. ASSUME locks[r] # None, locks[r].expires > clock PROVE Pres!Held(locks[r], stage[s].now)
      <4>1. locks[r].expires \in Nat /\ stage[s].now \in Nat /\ stage[s].now <= clock
        BY <1>0, <2>2, <3>1 DEF LockRecords
      <4>2. locks[r].expires > stage[s].now
        BY <1>0, <3>1, <4>1
      <4> QED
        BY <3>1, <4>2 DEF Pres!Held
    <3> QED
      BY <3>1
  <2> HIDE DEF who
  <2>5. skip.at = "get" /\ take.at = "upsert" /\ take.ref = r /\ take.took = who
    BY <1>0, <2>2 DEF StageRecords
  <2> HIDE DEF skip, take
  <2> QED
    BY <1>g, <2>2, <2>3, <2>4, <2>5
<1>3. ASSUME NEW s \in Sessions, Pres!StageUpsert(s) PROVE NamedInv'
  <2> DEFINE r == stage[s].ref
             held == [cs |-> stage[s].cs, session |-> s, expires |-> stage[s].now + TTL]
  <2>1. clock' = clock /\ r \in Refs /\ locks' = [locks EXCEPT ![r] = held] /\ stage' = Pres!Written(s, r)
    BY <1>0, <1>3 DEF Pres!StageUpsert
  <2>2. held.session = s
    OBVIOUS
  <2> HIDE DEF held, r
  <2>3. locks'[r].session = s /\ \A q \in Refs : q # r => locks'[q] = locks[q]
    BY <1>0, <2>1, <2>2
  <2>4. /\ stage'[s].at = "get"
        /\ \A t \in Sessions : t # s =>
               /\ stage'[t].at = stage[t].at /\ stage'[t].ref = stage[t].ref /\ stage'[t].took = stage[t].took
               /\ stage[t].since \subseteq stage'[t].since
               /\ stage[t].at = "upsert" /\ stage[t].ref = r => s \in stage'[t].since
    BY <1>0, <2>1, WrittenRecords
  <2>5. ASSUME NEW t \in Sessions, stage'[t].at = "upsert", locks'[stage'[t].ref] # None, locks'[stage'[t].ref].expires > clock,
               locks'[stage'[t].ref].session # t
        PROVE  stage'[t].took = locks'[stage'[t].ref].session \/ locks'[stage'[t].ref].session \in stage'[t].since
    <3>1. t # s /\ stage[t].at = "upsert" /\ stage'[t].ref = stage[t].ref /\ stage[t].ref \in Refs
      BY <1>0, <2>4, <2>5
    <3>2. CASE stage[t].ref = r
      BY <2>3, <2>4, <3>1, <3>2
    <3>3. CASE stage[t].ref # r
      BY <2>3, <2>4, <2>5, <3>1, <3>3 DEF NamedInv
    <3> QED
      BY <3>2, <3>3
  <2> QED
    BY <2>1, <2>5 DEF NamedInv
<1>4. ASSUME NEW s \in Sessions, Pres!StageDone(s) PROVE NamedInv'
  <2>1. stage' = [stage EXCEPT ![s] = Pres!Free] /\ UNCHANGED <<clock, locks>> /\ Pres!Free.at = "idle"
    BY <1>4 DEF Pres!StageDone, Pres!Free
  <2> HIDE DEF Pres!Free
  <2> QED
    BY <1>g, <2>1
\* Freeing locks and the passing of time only end what is held.
<1>5. ASSUME UNCHANGED stage, clock' \in Nat, clock' >= clock, \A r \in Refs : locks'[r] \in {locks[r], None} PROVE NamedInv'
  <2>1. \A r \in Refs : locks[r] # None => locks[r].expires \in Nat
    BY <1>0 DEF LockRecords
  <2>2. \A r \in Refs : locks'[r] # None /\ locks'[r].expires > clock' => locks'[r] = locks[r] /\ locks[r].expires > clock
    BY <1>0, <1>5, <2>1
  <2> QED
    BY <1>0, <1>5, <2>2 DEF NamedInv
<1>6. CASE Pres!DeleteExpired \/ \E d \in Drafts : Pres!Discard(d)
  <2>1. UNCHANGED <<stage, clock>> /\ \A r \in Refs : locks'[r] \in {locks[r], None}
    BY <1>0, <1>6 DEF Pres!DeleteExpired, Pres!Discard
  <2> QED
    BY <1>0, <1>5, <2>1
<1>7. ASSUME NEW k \in Conns, Pres!ConnStep(k) PROVE NamedInv'
  <2>1. UNCHANGED <<stage, clock>> /\ \A r \in Refs : locks'[r] \in {locks[r], None}
    BY <1>0, <1>7 DEF Pres!ConnStep, Pres!ConnOpened, Pres!ConnTopics, Pres!ConnClosed, Pres!Broadcast, Pres!ReleaseSession, Pres!lockVars
  <2> QED
    BY <1>0, <1>5, <2>1
<1>8. CASE Pres!Tick \/ Pres!LocksList \/ UNCHANGED Pres!vars
  <2>1. UNCHANGED <<stage, locks>> /\ clock' \in {clock, clock + 1}
    BY <1>8 DEF Pres!Tick, Pres!LocksList, Pres!vars, Pres!lockVars
  <2> QED
    BY <1>0, <1>5, <2>1
<1> QED
  BY <1>1, <1>2, <1>3, <1>4, <1>6, <1>7, <1>8 DEF Pres!Next, Pres!StageStep

\* presence/locks.go: however staging requests overlap, Stage overwrites the lock
\* another session holds only if that lock is the one it read and named in its
\* answer, or that session wrote it between this request's read and its write.
THEOREM TakeoversNamed ==
    ASSUME Pres!PresenceAssumption
    PROVE  Pres!Spec => [][Pres!NoSilentTakeover]_(Pres!vars)
<1>1. Pres!Init => NamedInv
  <2>1. Pres!Free.at = "idle"
    BY DEF Pres!Free
  <2> QED
    BY <2>1 DEF Pres!Init, NamedInv
<1>2. LockShape /\ NamedInv /\ [Pres!Next]_(Pres!vars) => NamedInv'
  BY NamedSteps
<1>3. NamedInv => [Pres!NoSilentTakeover]_(Pres!vars)
  BY DEF NamedInv, Pres!NoSilentTakeover, Pres!Held
<1> QED
  BY <1>1, <1>2, <1>3, PresenceInduction, PTL DEF Pres!Spec

=============================================================================
