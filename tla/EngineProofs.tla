---------------------------- MODULE EngineProofs ----------------------------
(***************************************************************************)
(* Type correctness of the change engine, for any set of changesets, nodes *)
(* and scopes and any number of crashes. It rests on SnapshotInv: a        *)
(* restore writes snap[c][r], which is a configuration only if c has a     *)
(* snapshot.                                                               *)
(*                                                                         *)
(* Then the single-applier lock: what it covers, and that the engine       *)
(* implements SingleWindow.                                                *)
(***************************************************************************)
EXTENDS EngineInvariants, TLAPS

TypeInv == TypeOK /\ SnapshotInv

USE DEF TypeInv, Set, storeVars, worldVars, bootVars, lockVars, timerVars, callVars, execVars

-----------------------------------------------------------------------------
(* Facts about plans, steps and restores. *)

\* The sets plans are made of: the nodes and scopes of a stage, and the steps
\* of an executor over them.
LEMMA PlanSets ==
    ASSUME NEW c \in Changesets
    PROVE  /\ Touches[c] \subseteq Resource
           /\ Affected(c) \subseteq Nodes
           /\ \A m : StageScope(c, m) \subseteq Resource
           /\ \A R \in SUBSET Resource : StepsOn(R) \subseteq StepKind \X Resource
           /\ UndoSteps(c) \subseteq StepKind \X Resource
<1>1. Touches[c] \subseteq Resource
  BY PlanAssumption DEF PlanAssumption
<1>2. Affected(c) \subseteq Nodes /\ Nodes \subseteq Resource /\ FwScopes \subseteq Resource
  BY DEF Affected, Resource
<1>3. \A m : StageScope(c, m) \subseteq Resource
  BY <1>1 DEF StageScope
<1>4. \A R \in SUBSET Resource : StepsOn(R) \subseteq StepKind \X Resource
  BY DEF StepsOn, StepKind
<1>5. UndoSteps(c) \subseteq StepKind \X Resource
  <2>1. okSteps[c] \cap (SdnScopes \cup DaemonScopes) \subseteq Resource
    BY DEF Resource
  <2> QED
    BY <1>2, <1>3, <2>1 DEF UndoSteps, StepKind
<1> QED
  BY <1>1, <1>2, <1>3, <1>4, <1>5

\* A configuration is named by a changeset or is Base, and a snapshot maps
\* every resource to one.
LEMMA SnapshotValues ==
    ASSUME TypeOK, NEW c \in Changesets, HasSnapshot(c), NEW r \in Resource
    PROVE  snap[c][r] \in Version
BY DEF TypeOK, HasSnapshot

\* A restore of a node or a scope to a version leaves the cluster well typed.
LEMMA RestoredTypes ==
    ASSUME TypeOK, NEW r \in Resource, NEW v \in Version, NEW o,
           \/ r \in Nodes /\ RestoredNode(r, v, o)
           \/ RestoredScope(r, v, o)
    PROVE  live' \in [Resource -> Version] /\ staged' \in [Nodes -> Version \cup {None}]
BY DEF RestoredNode, RestoredScope, TypeOK

\* A change of one node's timer leaves the timers well typed, and those of the
\* other changesets and nodes alone.
LEMMA NodeTimerTypes ==
    ASSUME TypeOK, NEW c \in Changesets, NEW n \in Nodes, NEW s \in TimerState,
           ntimer' = [ntimer EXCEPT ![c][n] = s]
    PROVE  /\ ntimer' \in [Changesets -> [Nodes -> TimerState]]
           /\ \A d \in Changesets : d # c => ntimer'[d] = ntimer[d]
           /\ \A m \in Nodes : m # n => ntimer'[c][m] = ntimer[c][m]
           /\ ntimer'[c][n] = s
<1>1. [ntimer[c] EXCEPT ![n] = s] \in [Nodes -> TimerState]
  BY DEF TypeOK
<1>2. ntimer \in [Changesets -> [Nodes -> TimerState]]
  BY DEF TypeOK
<1> QED
  BY <1>1, <1>2

\* The bookkeeping of one step of the executor, done or failed.
LEMMA StepTypes ==
    ASSUME TypeOK, NEW c \in Changesets, NEW k \in StepKind, NEW r \in Resource,
           StepDone(c, <<k, r>>) \/ StepFailed(c)
    PROVE  /\ todo' \in [Changesets -> SUBSET (StepKind \X Resource)]
           /\ okSteps' \in [Changesets -> SUBSET Resource]
           /\ pc' \in [Changesets -> Pc]
           /\ \A d \in Changesets : pc'[d] = pc[d] \/ (d = c /\ pc'[d] = "undo")
<1>1. CASE StepDone(c, <<k, r>>)
  BY <1>1 DEF StepDone, TypeOK, Pc
<1>2. CASE StepFailed(c)
  BY <1>2, PlanSets DEF StepFailed, TypeOK, Pc
<1> QED
  BY <1>1, <1>2

\* What the beginning of a rollback does to the state, for any caller.
LEMMA StartRollbackTypes ==
    ASSUME TypeOK, NEW c \in Changesets, NEW copy \in Status, NEW scope \in SUBSET Resource,
           NEW session \in BOOLEAN, NEW clear \in BOOLEAN,
           StartRollback(c, copy, scope, session, clear)
    PROVE  /\ job' \in JobType
           /\ job'.kind = "rollback" /\ job'.cs = c /\ job'.copy = copy
           /\ guards' \in SUBSET Changesets
           /\ ticket' \in [Changesets -> {"none", "valid", "expired"}]
           /\ UNCHANGED <<snap, worldVars, bootVars, lockHeldBy>>
<1>1. PICK gw \in Gateways(c, session), loaded \in StoreOk :
          job' = [kind |-> "rollback", cs |-> c, copy |-> copy,
                  todo |-> IF loaded THEN scope ELSE {}, hard |-> ~loaded,
                  gw |-> gw, clear |-> clear]
  BY DEF StartRollback
<1>2. gw \in BOOLEAN /\ loaded \in BOOLEAN
  BY DEF Gateways, Unsealed, StoreOk
<1>3. job' \in JobType /\ job'.kind = "rollback" /\ job'.cs = c /\ job'.copy = copy
  BY <1>1, <1>2 DEF JobType, JobKind
<1> QED
  BY <1>3 DEF StartRollback, TypeOK, DisarmedBy

\* The idle section is well typed.
LEMMA NoJobType == NoJob \in JobType
BY DEF NoJob, JobType, JobKind, Status

-----------------------------------------------------------------------------
(* Type correctness, one lemma per part of the next-state relation. *)

\* Draft operations keep the types and need no snapshot.
LEMMA DraftTypes ==
    ASSUME TypeInv, NEW c \in Changesets, DraftStep(c)
    PROVE  TypeInv'
<1>1. CASE Create(c)
  <2>1. TypeOK'
    BY <1>1 DEF Create, TypeOK, Absent, Status
  <2>2. SnapshotInv'
    BY <1>1 DEF Create, TypeOK, Absent, Status, SnapshotInv, ExecutorHasSnapshot,
       TimerHasSnapshot, RowHasSnapshot, FireHasSnapshot, JobShape, EditShape, HasSnapshot
  <2> QED
    BY <2>1, <2>2
<1>2. CASE \E s \in {"draft", "validated", "discarded"} : EditRead(c, s)
  <2>1. TypeOK'
    BY <1>2 DEF EditRead, TypeOK, Absent, Status
  <2>2. EditShape'
    BY <1>2 DEF EditRead, TypeOK, SnapshotInv, EditShape
  <2>3. SnapshotInv'
    BY <1>2, <2>2 DEF EditRead, SnapshotInv, ExecutorHasSnapshot,
       TimerHasSnapshot, RowHasSnapshot, FireHasSnapshot, JobShape, HasSnapshot
  <2> QED
    BY <2>1, <2>3
<1>3. CASE EditPersist(c)
  <2>1. TypeOK'
    BY <1>3 DEF EditPersist, StoreOk, TypeOK
  <2>2. \A d \in Changesets : status'[d] = "awaiting_confirm" => status[d] = "awaiting_confirm"
    BY <1>3 DEF EditPersist, StoreOk, TypeOK, SnapshotInv, EditShape, Absent
  <2>3. EditShape'
    BY <1>3 DEF EditPersist, TypeOK, SnapshotInv, EditShape
  <2>4. SnapshotInv'
    BY <1>3, <2>2, <2>3 DEF EditPersist, SnapshotInv, ExecutorHasSnapshot, TimerHasSnapshot,
       RowHasSnapshot, FireHasSnapshot, JobShape, HasSnapshot
  <2> QED
    BY <2>1, <2>4
<1> QED
  BY <1>1, <1>2, <1>3 DEF DraftStep, Approve, UpdateDraft, Discard, Validate

\* A step of the running executor keeps the types if the cluster stays well
\* typed and a timer it arms is of its own changeset.
LEMMA RunStepTypes ==
    ASSUME TypeInv, NEW c \in Changesets, NEW k \in StepKind, NEW r \in Resource,
           Running(c), StepDone(c, <<k, r>>) \/ StepFailed(c), ExecFrame,
           live' \in [Resource -> Version], staged' \in [Nodes -> Version \cup {None}],
           ntimer' \in [Changesets -> [Nodes -> TimerState]],
           \A d \in Changesets : d # c => ntimer'[d] = ntimer[d]
    PROVE  TypeInv'
<1>1. /\ todo' \in [Changesets -> SUBSET (StepKind \X Resource)]
      /\ okSteps' \in [Changesets -> SUBSET Resource]
      /\ pc' \in [Changesets -> Pc]
      /\ \A d \in Changesets : pc'[d] = pc[d] \/ (d = c /\ pc'[d] = "undo")
  BY StepTypes
<1>2. TypeOK'
  BY <1>1 DEF TypeOK, ExecFrame
<1>3. HasSnapshot(c)
  BY DEF SnapshotInv, ExecutorHasSnapshot, Running
<1>4. TimerHasSnapshot'
  BY <1>3 DEF SnapshotInv, TimerHasSnapshot, HasSnapshot, ExecFrame
<1>5. ExecutorHasSnapshot'
  BY <1>1, <1>3 DEF SnapshotInv, ExecutorHasSnapshot, HasSnapshot, ExecFrame
<1>6. SnapshotInv'
  BY <1>4, <1>5 DEF SnapshotInv, RowHasSnapshot, FireHasSnapshot, JobShape, EditShape,
     HasSnapshot, ExecFrame
<1> QED
  BY <1>2, <1>6

\* The executor keeps the types; what it writes to a node or a scope is its
\* own configuration, a staged file or a snapshot.
LEMMA ExecutorTypes ==
    ASSUME TypeInv, NEW c \in Changesets, ExecutorStep(c)
    PROVE  TypeInv'
<1>a. Nodes \subseteq Resource /\ c \in Version
  BY DEF Resource, Version
<1>b. "stage" \in StepKind /\ "arm" \in StepKind /\ "reload" \in StepKind /\ "apply" \in StepKind
  BY DEF StepKind
<1>1. CASE CaptureSnapshot(c)
  <2> DEFINE s == [r \in Resource |-> IF r \in Touches[c] THEN live[r] ELSE Base]
  <2>1. s \in [Resource -> Version] /\ s # None
    BY SettingsAssumption DEF TypeOK, Version
  <2>2. snap' = snap \/ snap' = [snap EXCEPT ![c] = s]
    BY <1>1 DEF CaptureSnapshot
  <2> HIDE DEF s
  <2>3. /\ snap' \in [Changesets -> [Resource -> Version] \cup {None}]
        /\ \A d \in Changesets : snap[d] # None => snap'[d] # None
    BY <2>1, <2>2 DEF TypeOK
  <2>4. pc' \in [Changesets -> Pc] /\ guards' \in SUBSET Changesets
    BY <1>1 DEF CaptureSnapshot, TypeOK, Pc
  <2>5. TypeOK'
    BY <1>1, <2>3, <2>4 DEF CaptureSnapshot, TypeOK
  <2>6. ASSUME NEW d \in Changesets, pc'[d] \notin {"idle", "snapshot", "fail"}
        PROVE  snap'[d] # None
    <3>1. CASE d = c
      <4>1. pc' # [pc EXCEPT ![c] = "fail"]
        BY <2>6, <3>1 DEF TypeOK
      <4>2. snap' = [snap EXCEPT ![c] = s]
        BY <1>1, <4>1 DEF CaptureSnapshot, s
      <4> QED
        BY <4>2, <3>1, <2>1 DEF TypeOK
    <3>2. CASE d # c
      <4>1. pc'[d] = pc[d]
        BY <1>1, <3>2 DEF CaptureSnapshot, TypeOK
      <4> QED
        BY <4>1, <2>3, <2>6 DEF SnapshotInv, ExecutorHasSnapshot, HasSnapshot
    <3> QED
      BY <3>1, <3>2
  <2>7. SnapshotInv'
    BY <1>1, <2>3, <2>6 DEF CaptureSnapshot, SnapshotInv, ExecutorHasSnapshot,
       TimerHasSnapshot, RowHasSnapshot, FireHasSnapshot, JobShape, EditShape, HasSnapshot
  <2> QED
    BY <2>5, <2>7
<1>2. CASE SealTicket(c)
  <2>1. ticket' \in [Changesets -> {"none", "valid", "expired"}]
    BY <1>2 DEF SealTicket, TypeOK
  <2>2. /\ todo' \in [Changesets -> SUBSET (StepKind \X Resource)]
        /\ okSteps' \in [Changesets -> SUBSET Resource]
    BY <1>2, PlanSets DEF SealTicket, TypeOK
  <2>3. pc' \in [Changesets -> Pc]
    BY <1>2 DEF SealTicket, TypeOK, Pc
  <2>4. TypeOK'
    BY <1>2, <2>1, <2>2, <2>3 DEF SealTicket, TypeOK
  <2>5. ExecutorHasSnapshot'
    BY <1>2 DEF SealTicket, TypeOK, SnapshotInv, ExecutorHasSnapshot, HasSnapshot
  <2>6. SnapshotInv'
    BY <1>2, <2>5 DEF SealTicket, SnapshotInv, TimerHasSnapshot, RowHasSnapshot,
       FireHasSnapshot, JobShape, EditShape, HasSnapshot
  <2> QED
    BY <2>4, <2>6
<1>3. ASSUME NEW n \in Nodes, StageFile(c, n) PROVE TypeInv'
  <2>1. staged' \in [Nodes -> Version \cup {None}]
    BY <1>3, <1>a DEF StageFile, TypeOK
  <2>2. StepDone(c, <<"stage", n>>) \/ StepFailed(c)
    BY <1>3 DEF StageFile
  <2>3. Running(c) /\ ExecFrame /\ UNCHANGED <<live, ntimer>>
    BY <1>3 DEF StageFile
  <2>4. live' \in [Resource -> Version] /\ ntimer' \in [Changesets -> [Nodes -> TimerState]]
    BY <2>3 DEF TypeOK
  <2> QED
    BY <2>1, <2>2, <2>3, <2>4, <1>a, <1>b, RunStepTypes
<1>4. ASSUME NEW n \in Nodes, ArmNode(c, n) PROVE TypeInv'
  <2>1. ntimer' = ntimer \/ ntimer' = [ntimer EXCEPT ![c][n] = "armed"]
    BY <1>4 DEF ArmNode
  <2>2. StepDone(c, <<"arm", n>>) \/ StepFailed(c)
    BY <1>4 DEF ArmNode
  <2>3. Running(c) /\ ExecFrame /\ UNCHANGED <<live, staged>>
    BY <1>4 DEF ArmNode
  <2>4. live' \in [Resource -> Version] /\ staged' \in [Nodes -> Version \cup {None}]
    BY <2>3 DEF TypeOK
  <2>5. /\ ntimer' \in [Changesets -> [Nodes -> TimerState]]
        /\ \A d \in Changesets : d # c => ntimer'[d] = ntimer[d]
    BY <2>1, NodeTimerTypes DEF TypeOK, TimerState
  <2> QED
    BY <2>2, <2>3, <2>4, <2>5, <1>a, <1>b, RunStepTypes
<1>5. ASSUME NEW n \in Nodes, Reload(c, n) PROVE TypeInv'
  <2>1. PICK moved \in BOOLEAN :
            /\ moved => staged[n] # None
            /\ live' = IF moved THEN Set(live, n, staged[n]) ELSE live
            /\ staged' = IF moved THEN Set(staged, n, None) ELSE staged
    BY <1>5 DEF Reload
  <2>2. StepDone(c, <<"reload", n>>) \/ StepFailed(c)
    BY <1>5 DEF Reload
  <2>3. Running(c) /\ ExecFrame /\ UNCHANGED ntimer
    BY <1>5 DEF Reload
  <2>4. live' \in [Resource -> Version]
    BY <2>1, <1>a DEF TypeOK
  <2>5. staged' \in [Nodes -> Version \cup {None}]
    BY <2>1 DEF TypeOK
  <2>6. ntimer' \in [Changesets -> [Nodes -> TimerState]]
    BY <2>3 DEF TypeOK
  <2> QED
    BY <2>2, <2>3, <2>4, <2>5, <2>6, <1>a, <1>b, RunStepTypes
<1>6. ASSUME NEW r \in Resource, ApplyScope(c, r) PROVE TypeInv'
  <2>1. live' \in [Resource -> Version]
    BY <1>6, <1>a DEF ApplyScope, TypeOK
  <2>2. StepDone(c, <<"apply", r>>) \/ StepFailed(c)
    BY <1>6 DEF ApplyScope
  <2>3. Running(c) /\ ExecFrame /\ UNCHANGED <<staged, ntimer>>
    BY <1>6 DEF ApplyScope
  <2>4. /\ staged' \in [Nodes -> Version \cup {None}]
        /\ ntimer' \in [Changesets -> [Nodes -> TimerState]]
    BY <2>3 DEF TypeOK
  <2> QED
    BY <2>1, <2>2, <2>3, <2>4, <1>b, RunStepTypes
<1>7. ASSUME NEW r \in Resource, Undo(c, r) PROVE TypeInv'
  <2>1. snap[c][r] \in Version
    BY <1>7, SnapshotValues DEF Undo, SnapshotInv, ExecutorHasSnapshot
  <2>2. live' \in [Resource -> Version] /\ staged' \in [Nodes -> Version \cup {None}]
    <3>1. CASE r \in Nodes /\ r \in okSteps[c]
      BY <1>7, <2>1, <3>1, RestoredTypes DEF Undo, UndoNode
    <3>2. CASE r \in Nodes /\ r \notin okSteps[c]
      <4>1. live' = live /\ \E v \in {None, staged[r]} : staged' = Set(staged, r, v)
        BY <1>7, <3>2 DEF Undo, UndoNode
      <4>2. {None, staged[r]} \subseteq Version \cup {None}
        BY <3>2 DEF TypeOK
      <4> QED
        BY <4>1, <4>2 DEF TypeOK
    <3>3. CASE r \notin Nodes
      BY <1>7, <2>1, <3>3, RestoredTypes DEF Undo
    <3> QED
      BY <3>1, <3>2, <3>3
  <2>3. todo' \in [Changesets -> SUBSET (StepKind \X Resource)]
    BY <1>7 DEF Undo, TypeOK
  <2>4. TypeOK'
    BY <1>7, <2>2, <2>3 DEF Undo, ExecFrame, TypeOK
  <2>5. SnapshotInv'
    BY <1>7 DEF Undo, ExecFrame, SnapshotInv, ExecutorHasSnapshot, TimerHasSnapshot,
       RowHasSnapshot, FireHasSnapshot, JobShape, EditShape, HasSnapshot
  <2> QED
    BY <2>4, <2>5
<1>8. CASE RunDone(c) \/ UndoDone(c)
  <2>1. PICK p \in Pc : pc' = Set(pc, c, p)
    BY <1>8 DEF RunDone, UndoDone, Pc
  <2>2. HasSnapshot(c)
    BY <1>8 DEF RunDone, UndoDone, Running, SnapshotInv, ExecutorHasSnapshot
  <2>3. /\ UNCHANGED <<storeVars, worldVars, bootVars, lockVars, timerVars, callVars>>
        /\ UNCHANGED <<mode, todo, okSteps>>
    BY <1>8 DEF RunDone, UndoDone
  <2>4. TypeOK'
    BY <2>1, <2>3 DEF TypeOK
  <2>5. ExecutorHasSnapshot'
    BY <2>1, <2>2, <2>3 DEF TypeOK, SnapshotInv, ExecutorHasSnapshot, HasSnapshot
  <2>6. SnapshotInv'
    BY <2>3, <2>5 DEF SnapshotInv, TimerHasSnapshot, RowHasSnapshot, FireHasSnapshot,
       JobShape, EditShape, HasSnapshot
  <2> QED
    BY <2>4, <2>6
<1> QED
  BY <1>1, <1>2, <1>3, <1>4, <1>5, <1>6, <1>7, <1>8 DEF ExecutorStep

\* The section under applyMu keeps the types: a rollback and the recovery of
\* an interrupted apply restore a changeset that has a snapshot.
LEMMA RollbackTypes ==
    ASSUME TypeInv, RollbackStep
    PROVE  TypeInv'
<1>1. CASE RestoreOne
  <2>1. PICK r \in job.todo : IF r \in Nodes THEN RestoreNode(r) ELSE RestoreScope(r)
    BY <1>1 DEF RestoreOne
  <2>2. job.cs \in Changesets /\ HasSnapshot(job.cs) /\ job.kind \in {"rollback", "recover"}
    BY <1>1, <2>1 DEF RestoreOne, SnapshotInv, JobShape
  <2>3. r \in Resource /\ job \in JobType
    BY DEF TypeOK, JobType
  <2>4. snap[job.cs][r] \in Version
    BY <2>2, <2>3, SnapshotValues
  <2>5. live' \in [Resource -> Version] /\ staged' \in [Nodes -> Version \cup {None}]
    BY <2>1, <2>3, <2>4, RestoredTypes DEF RestoreNode, RestoreScope
  <2>6. PICK h \in BOOLEAN : job' = [job EXCEPT !.todo = @ \ {r}, !.hard = h]
    <3>1. \A o, u : (job.hard \/ (o # "ok" /\ Counts(u))) \in BOOLEAN
      OBVIOUS
    <3> QED
      BY <2>1, <3>1 DEF RestoreNode, RestoreScope
  <2>7. /\ job' \in JobType
        /\ job'.kind = job.kind /\ job'.cs = job.cs /\ job'.copy = job.copy
        /\ job'.todo \subseteq job.todo
    BY <2>3, <2>6 DEF JobType
  <2>8. UNCHANGED <<storeVars, ntimer, bootVars, lockHeldBy, timerVars, callVars, execVars>>
    BY <1>1 DEF RestoreOne
  <2>9. TypeOK'
    BY <2>5, <2>7, <2>8 DEF TypeOK
  <2>10. SnapshotInv'
    BY <2>2, <2>7, <2>8 DEF SnapshotInv, ExecutorHasSnapshot, TimerHasSnapshot,
       RowHasSnapshot, FireHasSnapshot, JobShape, EditShape, HasSnapshot
  <2> QED
    BY <2>9, <2>10
<1>2. CASE RollbackPersist
  <2>1. PICK s \in Status : status' = status \/ status' = [status EXCEPT ![job.cs] = s]
    <3>1. Transition(job.copy, RollbackTarget) \in Status
      BY DEF TypeOK, JobType, Transition, RollbackTarget, Status
    <3> QED
      BY <1>2, <3>1 DEF RollbackPersist
  <2>2. job.cs \in Changesets /\ HasSnapshot(job.cs) /\ job \in JobType
    BY <1>2 DEF RollbackPersist, SnapshotInv, JobShape, TypeOK
  <2>3. status' \in [Changesets -> Status \cup {Absent}]
    BY <2>1, <2>2 DEF TypeOK
  <2>4. job' \in JobType /\ job'.kind = "release" /\ job'.cs = job.cs
    BY <1>2, <2>2 DEF RollbackPersist, JobType, JobKind
  <2>5. /\ UNCHANGED <<stage, ticket, snap, worldVars, bootVars, lockHeldBy, timerVars>>
        /\ UNCHANGED <<callVars, execVars>>
    BY <1>2 DEF RollbackPersist
  <2>6. TypeOK'
    BY <2>3, <2>4, <2>5 DEF TypeOK
  <2>7. RowHasSnapshot'
    BY <2>1, <2>2, <2>5 DEF TypeOK, SnapshotInv, RowHasSnapshot, HasSnapshot
  <2>8. SnapshotInv'
    BY <2>2, <2>4, <2>5, <2>7 DEF SnapshotInv, ExecutorHasSnapshot, TimerHasSnapshot,
       FireHasSnapshot, JobShape, EditShape, HasSnapshot
  <2> QED
    BY <2>6, <2>8
<1>3. CASE RecoverPersist
  <2>1. status' = status \/ status' = [status EXCEPT ![job.cs] = "failed"]
    <3>1. Transition(job.copy, "failed") = "failed"
      BY <1>3 DEF RecoverPersist, SnapshotInv, JobShape, Transition, AllowedTransitions
    <3> QED
      BY <1>3, <3>1 DEF RecoverPersist
  <2>2. job.cs \in Changesets /\ job \in JobType
    BY <1>3 DEF RecoverPersist, SnapshotInv, JobShape, TypeOK
  <2>3. /\ status' \in [Changesets -> Status \cup {Absent}]
        /\ \A d \in Changesets : status'[d] = "awaiting_confirm" => status[d] = "awaiting_confirm"
    BY <2>1, <2>2 DEF TypeOK, Status
  <2>4. job' \in JobType /\ job'.kind = "releaseOwn" /\ job'.cs = job.cs
    BY <1>3, <2>2 DEF RecoverPersist, JobType, JobKind
  <2>5. /\ UNCHANGED <<stage, ticket, snap, worldVars, bootVars, lockHeldBy, timerVars>>
        /\ UNCHANGED <<callVars, execVars>>
    BY <1>3 DEF RecoverPersist
  <2>6. TypeOK'
    BY <2>3, <2>4, <2>5 DEF TypeOK
  <2>7. SnapshotInv'
    BY <2>2, <2>3, <2>4, <2>5 DEF SnapshotInv, ExecutorHasSnapshot, TimerHasSnapshot,
       RowHasSnapshot, FireHasSnapshot, JobShape, EditShape, HasSnapshot
  <2> QED
    BY <2>6, <2>7
<1>4. CASE Release
  <2>1. job.cs \in Changesets
    BY <1>4 DEF Release, SnapshotInv, JobShape
  <2>2. ticket' \in [Changesets -> {"none", "valid", "expired"}]
    BY <1>4, <2>1 DEF Release, WipedTicket, TypeOK
  <2>3. lockHeldBy' \in Changesets \cup {None}
    BY <1>4 DEF Release, ReleasedLock, TypeOK
  <2>4. fanout' \in [Changesets -> SUBSET Nodes]
    BY <1>4, <2>1, PlanSets DEF Release, CancelFanout, TypeOK
  <2>5. clearing' \in SUBSET Changesets
    BY <1>4, <2>1 DEF Release, TypeOK
  <2>6. job' = NoJob
    BY <1>4 DEF Release
  <2>7. UNCHANGED <<status, stage, snap, worldVars, bootVars, timerVars, guards, fire, edit, execVars>>
    BY <1>4 DEF Release
  <2>8. TypeOK'
    BY <2>2, <2>3, <2>4, <2>5, <2>6, <2>7, NoJobType DEF TypeOK
  <2>9. JobShape'
    BY <2>6 DEF JobShape, NoJob
  <2>10. SnapshotInv'
    BY <2>7, <2>9 DEF SnapshotInv, ExecutorHasSnapshot, TimerHasSnapshot, RowHasSnapshot,
       FireHasSnapshot, EditShape, HasSnapshot
  <2> QED
    BY <2>8, <2>10
<1> QED
  BY <1>1, <1>2, <1>3, <1>4 DEF RollbackStep

\* Stopping a timer of the daemon keeps the timers well typed.
LEMMA StopTypes ==
    ASSUME TypeOK, NEW c \in Changesets
    PROVE  /\ StopTimer(c) => timer' \in [Changesets -> {"none", "armed", "fired"}]
           /\ StopHold(c) => hold' \in [Changesets -> {"none", "armed", "fired", "resolving"}]
<1>1. /\ timer \in [Changesets -> {"none", "armed", "fired"}]
      /\ hold \in [Changesets -> {"none", "armed", "fired", "resolving"}]
  BY DEF TypeOK
<1>2. StopTimer(c) => timer' \in [Changesets -> {"none", "armed", "fired"}]
  BY <1>1 DEF StopTimer, Stopped
<1>3. StopHold(c) => hold' \in [Changesets -> {"none", "armed", "fired", "resolving"}]
  BY <1>1 DEF StopHold, Stopped
<1> QED
  BY <1>2, <1>3

\* A rollback that starts on a changeset with a snapshot keeps the types,
\* whatever its caller does to the timers of the daemon.
LEMMA RollbackStarts ==
    ASSUME TypeInv, NEW c \in Changesets, HasSnapshot(c),
           NEW copy \in Status, NEW scope \in SUBSET Resource,
           NEW session \in BOOLEAN, NEW clear \in BOOLEAN,
           StartRollback(c, copy, scope, session, clear),
           status' \in [Changesets -> Status \cup {Absent}],
           \A d \in Changesets : status'[d] = "awaiting_confirm" => status[d] = "awaiting_confirm",
           pc' \in [Changesets -> Pc],
           \A d \in Changesets : pc'[d] = pc[d] \/ pc'[d] = "idle",
           timer' \in [Changesets -> {"none", "armed", "fired"}],
           hold' \in [Changesets -> {"none", "armed", "fired", "resolving"}],
           fire' \in [Changesets -> FireType],
           \A d \in Changesets : fire'[d].at = fire[d].at \/ fire'[d].at = "none",
           UNCHANGED <<stage, edit, fanout, clearing, mode, todo, okSteps>>
    PROVE  TypeInv'
<1>1. /\ job' \in JobType
      /\ job'.kind = "rollback" /\ job'.cs = c
      /\ guards' \in SUBSET Changesets
      /\ ticket' \in [Changesets -> {"none", "valid", "expired"}]
      /\ UNCHANGED <<snap, worldVars, bootVars, lockHeldBy>>
  BY StartRollbackTypes
<1>2. TypeOK'
  BY <1>1 DEF TypeOK
<1>3. SnapshotInv'
  BY <1>1 DEF SnapshotInv, ExecutorHasSnapshot, TimerHasSnapshot, RowHasSnapshot,
     FireHasSnapshot, JobShape, EditShape, HasSnapshot
<1> QED
  BY <1>2, <1>3

\* An abort rolls back a changeset with a stage row, hence with a snapshot.
LEMMA AbortTypes ==
    ASSUME TypeInv, NEW c \in Changesets, NEW session \in BOOLEAN, Abort(c, session),
           timer' \in [Changesets -> {"none", "armed", "fired"}],
           hold' \in [Changesets -> {"none", "armed", "fired", "resolving"}],
           fire' \in [Changesets -> FireType],
           \A d \in Changesets : fire'[d].at = fire[d].at \/ fire'[d].at = "none"
    PROVE  TypeInv'
<1>1. HasSnapshot(c) /\ status[c] \in Status
  BY DEF Abort, Abortable, SnapshotInv, RowHasSnapshot, Status
<1>2. StageScope(c, "canary") \in SUBSET Resource
  BY PlanSets
<1>3. /\ StartRollback(c, status[c], StageScope(c, "canary"), session, TRUE)
      /\ UNCHANGED <<status, stage, edit, fanout, clearing, execVars>>
  BY DEF Abort
<1>4. status' \in [Changesets -> Status \cup {Absent}] /\ pc' \in [Changesets -> Pc]
  BY <1>3 DEF TypeOK
<1> QED
  BY <1>1, <1>2, <1>3, <1>4, RollbackStarts

\* The promotion of a hold keeps the types.
LEMMA ClaimTypes ==
    ASSUME TypeInv, NEW c \in Changesets, Claim(c),
           hold' \in [Changesets -> {"none", "armed", "fired", "resolving"}]
    PROVE  TypeInv'
<1>1. HasSnapshot(c)
  BY DEF Claim, Paused, SnapshotInv, RowHasSnapshot
<1>2. /\ stage' \in [Changesets -> {"none", "canary_hold", "promoting"}]
      /\ mode' \in [Changesets -> {"all", "canary", "rest"}]
      /\ \A d \in Changesets : d # c => stage'[d] = stage[d]
  BY DEF Claim, TypeOK
<1>3. /\ pc' \in [Changesets -> Pc]
      /\ \A d \in Changesets : d # c => pc'[d] = pc[d]
  BY DEF Claim, TypeOK, Pc
<1>4. /\ todo' \in [Changesets -> SUBSET (StepKind \X Resource)]
      /\ okSteps' \in [Changesets -> SUBSET Resource]
  <2>1. StageScope(c, "canary") \subseteq Resource
    BY PlanSets
  <2>2. StepsOn(StageScope(c, "rest")) \subseteq StepKind \X Resource
    BY PlanSets
  <2>3. todo' \in [Changesets -> SUBSET (StepKind \X Resource)]
    BY <2>2 DEF Claim, TypeOK
  <2>4. okSteps' \in [Changesets -> SUBSET Resource]
    BY <2>1 DEF Claim, TypeOK
  <2> QED
    BY <2>3, <2>4
<1>5. /\ UNCHANGED <<status, ticket, snap, worldVars, bootVars, lockVars, timer, guards, fire>>
      /\ UNCHANGED <<edit, fanout, clearing>>
  BY DEF Claim
<1>6. TypeOK'
  BY <1>2, <1>3, <1>4, <1>5 DEF TypeOK
<1>7. ExecutorHasSnapshot' /\ RowHasSnapshot'
  BY <1>1, <1>2, <1>3, <1>5 DEF SnapshotInv, ExecutorHasSnapshot, RowHasSnapshot, HasSnapshot
<1>8. SnapshotInv'
  BY <1>5, <1>7 DEF SnapshotInv, TimerHasSnapshot, FireHasSnapshot, JobShape, EditShape,
     HasSnapshot
<1> QED
  BY <1>6, <1>8

\* A step that only moves the hold timer keeps the types.
LEMMA HoldTypes ==
    ASSUME TypeInv,
           hold' \in [Changesets -> {"none", "armed", "fired", "resolving"}],
           UNCHANGED <<storeVars, worldVars, bootVars, lockVars, timer, callVars, execVars>>
    PROVE  TypeInv'
<1>1. TypeOK'
  BY DEF TypeOK
<1>2. SnapshotInv'
  BY DEF SnapshotInv, ExecutorHasSnapshot, TimerHasSnapshot, RowHasSnapshot,
     FireHasSnapshot, JobShape, EditShape, HasSnapshot
<1> QED
  BY <1>1, <1>2

\* The canary strategy keeps the types.
LEMMA StagedTypes ==
    ASSUME TypeInv, NEW c \in Changesets, StagedStep(c)
    PROVE  TypeInv'
<1>a. fire \in [Changesets -> FireType] /\ timer \in [Changesets -> {"none", "armed", "fired"}]
  BY DEF TypeOK
<1>1. CASE HoldAfterCanary(c)
  <2>1. HasSnapshot(c)
    BY <1>1 DEF HoldAfterCanary, SnapshotInv, ExecutorHasSnapshot
  <2>2. /\ pc' \in [Changesets -> Pc]
        /\ \A d \in Changesets : pc'[d] = pc[d] \/ pc'[d] = "idle"
    BY <1>1 DEF HoldAfterCanary, TypeOK, Pc
  <2>3. /\ status' \in [Changesets -> Status \cup {Absent}]
        /\ \A d \in Changesets : status'[d] = "awaiting_confirm" => status[d] = "awaiting_confirm"
    BY <1>1 DEF HoldAfterCanary, TypeOK, Status
  <2>4. UNCHANGED <<timer, fire, edit, fanout, clearing, mode, todo, okSteps>>
    BY <1>1 DEF HoldAfterCanary
  <2>5. CASE UNCHANGED <<stage, ticket, snap, worldVars, bootVars, lockVars, hold, guards>>
    <3>1. TypeOK'
      BY <2>2, <2>3, <2>4, <2>5 DEF TypeOK
    <3>2. SnapshotInv'
      BY <2>2, <2>3, <2>4, <2>5 DEF SnapshotInv, ExecutorHasSnapshot, TimerHasSnapshot,
         RowHasSnapshot, FireHasSnapshot, JobShape, EditShape, HasSnapshot
    <3> QED
      BY <3>1, <3>2
  <2>6. CASE /\ stage' = Set(stage, c, "canary_hold")
             /\ hold' = Set(hold, c, "armed")
             /\ UNCHANGED <<ticket, snap, worldVars, bootVars, lockVars, guards>>
    <3>1. /\ stage' \in [Changesets -> {"none", "canary_hold", "promoting"}]
          /\ hold' \in [Changesets -> {"none", "armed", "fired", "resolving"}]
      BY <2>6 DEF TypeOK
    <3>2. TypeOK'
      BY <2>2, <2>3, <2>4, <2>6, <3>1 DEF TypeOK
    <3>3. RowHasSnapshot'
      BY <2>1, <2>3, <2>6 DEF SnapshotInv, RowHasSnapshot, HasSnapshot, TypeOK
    <3>4. SnapshotInv'
      BY <2>2, <2>4, <2>6, <3>3 DEF SnapshotInv, ExecutorHasSnapshot, TimerHasSnapshot,
         FireHasSnapshot, JobShape, EditShape, HasSnapshot
    <3> QED
      BY <3>2, <3>4
  <2>7. CASE /\ StartRollback(c, "applying", StageScope(c, "canary"), FALSE, TRUE)
             /\ UNCHANGED <<stage, hold>>
    <3>1. "applying" \in Status /\ StageScope(c, "canary") \in SUBSET Resource
      BY PlanSets DEF Status
    <3>2. /\ timer' \in [Changesets -> {"none", "armed", "fired"}]
          /\ hold' \in [Changesets -> {"none", "armed", "fired", "resolving"}]
          /\ fire' \in [Changesets -> FireType]
      BY <2>4, <2>7 DEF TypeOK
    <3> QED
      BY <2>1, <2>2, <2>3, <2>4, <2>7, <3>1, <3>2, RollbackStarts
  <2> QED
    BY <1>1, <2>5, <2>6, <2>7 DEF HoldAfterCanary
<1>2. CASE ContinueStagedApply(c)
  BY <1>2, StopTypes, ClaimTypes DEF ContinueStagedApply
<1>3. CASE AbortStagedApply(c)
  <2>1. PICK session \in BOOLEAN : Abort(c, session)
    BY <1>3 DEF AbortStagedApply
  <2>2. StopTimer(c) /\ StopHold(c) /\ UNCHANGED fire
    BY <1>3 DEF AbortStagedApply
  <2> QED
    BY <2>1, <2>2, <1>a, StopTypes, AbortTypes
<1>4. CASE HoldExpires(c) \/ OnHoldExpired(c)
  <2>1. hold' \in [Changesets -> {"none", "armed", "fired", "resolving"}]
    BY <1>4 DEF HoldExpires, OnHoldExpired, TypeOK
  <2>2. UNCHANGED <<storeVars, worldVars, bootVars, lockVars, timer, callVars, execVars>>
    BY <1>4 DEF HoldExpires, OnHoldExpired
  <2> QED
    BY <2>1, <2>2, HoldTypes
<1>5. CASE ResolveHold(c)
  <2>1. hold' \in [Changesets -> {"none", "armed", "fired", "resolving"}]
    BY <1>5 DEF ResolveHold, TypeOK
  <2>2. CASE Claim(c)
    BY <2>1, <2>2, ClaimTypes
  <2>3. CASE Abort(c, FALSE) /\ StopTimer(c) /\ UNCHANGED fire
    BY <2>1, <2>3, <1>a, StopTypes, AbortTypes
  <2>4. CASE UNCHANGED <<storeVars, worldVars, bootVars, lockVars, timer, callVars, execVars>>
    BY <2>1, <2>4, HoldTypes
  <2> QED
    BY <1>5, <2>2, <2>3, <2>4 DEF ResolveHold
<1>6. CASE ClearStage(c)
  <2>1. /\ stage' \in [Changesets -> {"none", "canary_hold", "promoting"}]
        /\ \A d \in Changesets : stage'[d] = stage[d] \/ stage'[d] = "none"
    BY <1>6 DEF ClearStage, TypeOK
  <2>2. clearing' \in SUBSET Changesets
    BY <1>6 DEF ClearStage, TypeOK
  <2>3. pc' \in [Changesets -> Pc]
    <3>1. pc' = pc \/ \E p \in Pc : pc' = Set(pc, c, p)
      BY <1>6 DEF ClearStage, Pc
    <3> QED
      BY <3>1 DEF TypeOK
  <2>4. ASSUME NEW d \in Changesets
        PROVE  pc'[d] = pc[d] \/ pc'[d] = "fail" \/ (d = c /\ pc[c] = "clearDone")
    BY <1>6 DEF ClearStage, TypeOK
  <2>5. /\ UNCHANGED <<status, ticket, snap, worldVars, bootVars, lockVars, timerVars, guards>>
        /\ UNCHANGED <<fire, edit, fanout, mode, todo, okSteps>>
    BY <1>6 DEF ClearStage
  <2>6. TypeOK'
    BY <2>1, <2>2, <2>3, <2>5 DEF TypeOK
  <2>7. ExecutorHasSnapshot'
    BY <2>4, <2>5 DEF SnapshotInv, ExecutorHasSnapshot, HasSnapshot
  <2>8. SnapshotInv'
    BY <2>1, <2>5, <2>7 DEF SnapshotInv, TimerHasSnapshot, RowHasSnapshot, FireHasSnapshot,
       JobShape, EditShape, HasSnapshot
  <2> QED
    BY <2>6, <2>8
<1> QED
  BY <1>1, <1>2, <1>3, <1>4, <1>5, <1>6 DEF StagedStep

\* The finding-triggered rollback keeps the types: from the moment it has seen
\* the window open, its changeset has a snapshot.
LEMMA FireTypes ==
    ASSUME TypeInv, NEW c \in Changesets, FireStep(c)
    PROVE  TypeInv'
<1>1. CASE ObserveFinding(c) \/ FireRead(c) \/ RecordTriggerGet(c)
  <2>1. fire[c] \in FireType /\ fire \in [Changesets -> FireType] /\ status[c] \in Status \cup {Absent}
    BY DEF TypeOK
  <2>2. PICK f \in FireType :
            /\ fire' = [fire EXCEPT ![c] = f]
            /\ f.at \in {"none", "claimed"} \/ HasSnapshot(c)
    <3>1. CASE ObserveFinding(c)
      <4>1. [fire[c] EXCEPT !.at = "claimed"] \in FireType
        BY <2>1 DEF FireType
      <4> QED
        BY <3>1, <4>1, <2>1 DEF ObserveFinding, FireType
    <3>2. CASE FireRead(c)
      <4>1. NoFire \in FireType /\ NoFire.at = "none"
        BY DEF NoFire, FireType
      <4>2. /\ [at |-> "record", paused |-> stage[c] # "none", row |-> Absent] \in FireType
            /\ InWindow(c) => HasSnapshot(c)
        BY DEF FireType, InWindow, SnapshotInv, RowHasSnapshot
      <4> QED
        BY <3>2, <4>1, <4>2 DEF FireRead
    <3>3. CASE RecordTriggerGet(c)
      <4>1. [fire[c] EXCEPT !.at = "put", !.row = status[c]] \in FireType
        BY <2>1 DEF FireType
      <4>2. HasSnapshot(c)
        BY <3>3 DEF RecordTriggerGet, SnapshotInv, FireHasSnapshot
      <4> QED
        BY <3>3, <4>1, <4>2, <2>1 DEF RecordTriggerGet, FireType
    <3> QED
      BY <1>1, <3>1, <3>2, <3>3
  <2>3. guards' \in SUBSET Changesets
    BY <1>1 DEF ObserveFinding, FireRead, RecordTriggerGet, TypeOK
  <2>4. /\ UNCHANGED <<storeVars, lockVars, timerVars, clearing>>
        /\ UNCHANGED <<worldVars, bootVars, edit, fanout, execVars>>
    BY <1>1 DEF ObserveFinding, FireRead, RecordTriggerGet, FireFrame
  <2>5. fire' \in [Changesets -> FireType]
    BY <2>1, <2>2
  <2>6. TypeOK'
    BY <2>3, <2>4, <2>5 DEF TypeOK
  <2>7. FireHasSnapshot'
    BY <2>1, <2>2, <2>4 DEF SnapshotInv, FireHasSnapshot, HasSnapshot
  <2>8. SnapshotInv'
    BY <2>4, <2>7 DEF SnapshotInv, ExecutorHasSnapshot, TimerHasSnapshot, RowHasSnapshot,
       JobShape, EditShape, HasSnapshot
  <2> QED
    BY <2>6, <2>8
<1>2. CASE RecordTriggerPut(c)
  <2>1. fire[c] \in FireType /\ fire \in [Changesets -> FireType]
    BY DEF TypeOK
  <2>2. HasSnapshot(c)
    BY <1>2 DEF RecordTriggerPut, SnapshotInv, FireHasSnapshot
  <2>3. status' \in [Changesets -> Status \cup {Absent}]
    BY <1>2, <2>1 DEF RecordTriggerPut, TypeOK, FireType
  <2>4. [fire[c] EXCEPT !.at = "act", !.row = Absent] \in FireType
    BY <2>1 DEF FireType
  <2>5. /\ fire' \in [Changesets -> FireType]
        /\ \A d \in Changesets : d # c => fire'[d] = fire[d]
    BY <1>2, <2>1, <2>4 DEF RecordTriggerPut
  <2>6. /\ UNCHANGED <<stage, ticket, snap, lockVars, timerVars, guards, clearing>>
        /\ UNCHANGED <<worldVars, bootVars, edit, fanout, execVars>>
    BY <1>2 DEF RecordTriggerPut, FireFrame
  <2>7. TypeOK'
    BY <2>3, <2>5, <2>6 DEF TypeOK
  <2>8. RowHasSnapshot'
    BY <1>2, <2>2, <2>6 DEF RecordTriggerPut, SnapshotInv, RowHasSnapshot, HasSnapshot, TypeOK
  <2>9. FireHasSnapshot'
    BY <2>2, <2>5, <2>6 DEF SnapshotInv, FireHasSnapshot, HasSnapshot
  <2>10. SnapshotInv'
    BY <2>6, <2>8, <2>9 DEF SnapshotInv, ExecutorHasSnapshot, TimerHasSnapshot, JobShape,
       EditShape, HasSnapshot
  <2> QED
    BY <2>7, <2>10
<1>3. CASE FireRollback(c)
  <2>1. /\ fire' \in [Changesets -> FireType]
        /\ \A d \in Changesets : fire'[d].at = fire[d].at \/ fire'[d].at = "none"
    BY <1>3 DEF FireRollback, TypeOK, NoFire, FireType
  <2>2. CASE Abort(c, FALSE) /\ StopTimer(c) /\ StopHold(c)
    BY <2>1, <2>2, StopTypes, AbortTypes
  <2>3. CASE /\ UNCHANGED <<storeVars, worldVars, bootVars, lockVars, timerVars, guards, edit>>
             /\ UNCHANGED <<fanout, clearing, execVars>>
    <3>1. TypeOK'
      BY <2>1, <2>3 DEF TypeOK
    <3>2. SnapshotInv'
      BY <2>1, <2>3 DEF SnapshotInv, ExecutorHasSnapshot, TimerHasSnapshot, RowHasSnapshot,
         FireHasSnapshot, JobShape, EditShape, HasSnapshot
    <3> QED
      BY <3>1, <3>2
  <2>4. CASE /\ StopTimer(c)
             /\ StartRollback(c, "awaiting_confirm", Touches[c], FALSE, FALSE)
             /\ UNCHANGED <<status, stage, hold, edit, fanout, clearing, execVars>>
    <3>1. HasSnapshot(c)
      BY <1>3 DEF FireRollback, SnapshotInv, FireHasSnapshot
    <3>2. "awaiting_confirm" \in Status /\ Touches[c] \in SUBSET Resource
      BY PlanSets DEF Status
    <3>3. /\ status' \in [Changesets -> Status \cup {Absent}]
          /\ pc' \in [Changesets -> Pc]
          /\ hold' \in [Changesets -> {"none", "armed", "fired", "resolving"}]
      BY <2>4 DEF TypeOK
    <3> QED
      BY <2>1, <2>4, <3>1, <3>2, <3>3, StopTypes, RollbackStarts
  <2> QED
    BY <1>3, <2>2, <2>3, <2>4 DEF FireRollback
<1> QED
  BY <1>1, <1>2, <1>3 DEF FireStep

\* A crash and the startup keep the types.
LEMMA RecoveryTypes ==
    ASSUME TypeInv, RecoveryStep
    PROVE  TypeInv'
<1>1. CASE Crash
  <2>1. up' \in {"down", "arming", "up"} /\ crashes' \in 0..MaxCrashes /\ toArm' \in SUBSET Changesets
    BY <1>1, SettingsAssumption DEF Crash, TypeOK
  <2>2. job' \in JobType /\ lockHeldBy' \in Changesets \cup {None}
    BY <1>1, NoJobType DEF Crash
  <2>3. /\ timer' \in [Changesets -> {"none", "armed", "fired"}]
        /\ hold' \in [Changesets -> {"none", "armed", "fired", "resolving"}]
    BY <1>1 DEF Crash
  <2>4. /\ guards' \in SUBSET Changesets /\ clearing' \in SUBSET Changesets
        /\ fire' \in [Changesets -> FireType]
        /\ edit' \in [Changesets -> Status \cup {Absent}]
        /\ fanout' \in [Changesets -> SUBSET Nodes]
    BY <1>1 DEF Crash, NoFire, FireType
  <2>5. /\ pc' \in [Changesets -> Pc]
        /\ mode' \in [Changesets -> {"all", "canary", "rest"}]
        /\ todo' \in [Changesets -> SUBSET (StepKind \X Resource)]
        /\ okSteps' \in [Changesets -> SUBSET Resource]
    BY <1>1 DEF Crash, Pc
  <2>6. UNCHANGED <<storeVars, worldVars>>
    BY <1>1 DEF Crash
  <2>7. TypeOK'
    BY <2>1, <2>2, <2>3, <2>4, <2>5, <2>6 DEF TypeOK
  <2>8. ExecutorHasSnapshot' /\ FireHasSnapshot' /\ JobShape' /\ EditShape'
    BY <1>1 DEF Crash, ExecutorHasSnapshot, FireHasSnapshot, JobShape, EditShape, NoFire, NoJob
  <2>9. SnapshotInv'
    BY <2>6, <2>8 DEF SnapshotInv, TimerHasSnapshot, RowHasSnapshot, HasSnapshot
  <2> QED
    BY <2>7, <2>9
<1>2. CASE Restart
  <2>1. /\ ticket' \in [Changesets -> {"none", "valid", "expired"}]
        /\ toArm' \in SUBSET Changesets
        /\ up' \in {"down", "arming", "up"}
    BY <1>2 DEF Restart, TypeOK
  <2>2. /\ UNCHANGED <<status, stage, snap, worldVars, crashes, lockVars, timerVars>>
        /\ UNCHANGED <<callVars, execVars>>
    BY <1>2 DEF Restart
  <2>3. TypeOK'
    BY <2>1, <2>2 DEF TypeOK
  <2>4. SnapshotInv'
    BY <2>2 DEF SnapshotInv, ExecutorHasSnapshot, TimerHasSnapshot, RowHasSnapshot,
       FireHasSnapshot, JobShape, EditShape, HasSnapshot
  <2> QED
    BY <2>3, <2>4
<1>3. ASSUME NEW c \in Changesets, ArmAwaiting(c) \/ RecoverHold(c) PROVE TypeInv'
  <2>1. lockHeldBy' \in Changesets \cup {None} /\ toArm' \in SUBSET Changesets
    BY <1>3 DEF ArmAwaiting, RecoverHold, TypeOK
  <2>2. timer' \in [Changesets -> {"none", "armed", "fired"}]
    BY <1>3 DEF ArmAwaiting, RecoverHold, TypeOK
  <2>3. hold' \in [Changesets -> {"none", "armed", "fired", "resolving"}]
    BY <1>3 DEF ArmAwaiting, RecoverHold, TypeOK
  <2>4. UNCHANGED <<storeVars, worldVars, up, crashes, job, callVars, execVars>>
    BY <1>3 DEF ArmAwaiting, RecoverHold
  <2>5. TypeOK'
    BY <2>1, <2>2, <2>3, <2>4 DEF TypeOK
  <2>6. SnapshotInv'
    BY <2>4 DEF SnapshotInv, ExecutorHasSnapshot, TimerHasSnapshot, RowHasSnapshot,
       FireHasSnapshot, JobShape, EditShape, HasSnapshot
  <2> QED
    BY <2>5, <2>6
<1>4. ASSUME NEW c \in Changesets, RecoverInterrupted(c) PROVE TypeInv'
  <2>1. PICK gw \in BOOLEAN, loaded \in BOOLEAN :
            job' = [NoJob EXCEPT !.kind = "recover", !.cs = c, !.copy = status[c], !.gw = gw,
                                 !.todo = IF loaded /\ snap[c] # None
                                          THEN RecoveryScope(c, gw) ELSE {}]
    BY <1>4 DEF RecoverInterrupted, Unsealed, StoreOk
  <2>2. RecoveryScope(c, gw) \subseteq Resource /\ status[c] = "applying"
    BY <1>4, PlanSets DEF RecoverInterrupted, Interrupted, RecoveryScope, Resource
  <2>3. /\ job' \in JobType /\ job'.kind = "recover" /\ job'.cs = c /\ job'.copy = "applying"
        /\ job'.todo # {} => HasSnapshot(c)
    BY <2>1, <2>2 DEF NoJob, JobType, JobKind, Status, HasSnapshot
  <2>4. /\ stage' \in [Changesets -> {"none", "canary_hold", "promoting"}]
        /\ \A d \in Changesets : stage'[d] = stage[d] \/ stage'[d] = "none"
        /\ toArm' \in SUBSET Changesets
    BY <1>4 DEF RecoverInterrupted, TypeOK
  <2>5. /\ UNCHANGED <<status, ticket, snap, worldVars, up, crashes, lockHeldBy, timerVars>>
        /\ UNCHANGED <<callVars, execVars>>
    BY <1>4 DEF RecoverInterrupted
  <2>6. TypeOK'
    BY <2>3, <2>4, <2>5 DEF TypeOK
  <2>7. SnapshotInv'
    BY <2>3, <2>4, <2>5 DEF SnapshotInv, ExecutorHasSnapshot, TimerHasSnapshot,
       RowHasSnapshot, FireHasSnapshot, JobShape, EditShape, HasSnapshot
  <2> QED
    BY <2>6, <2>7
<1>5. CASE StartupDone
  <2>1. TypeOK'
    BY <1>5 DEF StartupDone, TypeOK
  <2>2. SnapshotInv'
    BY <1>5 DEF StartupDone, SnapshotInv, ExecutorHasSnapshot, TimerHasSnapshot,
       RowHasSnapshot, FireHasSnapshot, JobShape, EditShape, HasSnapshot
  <2> QED
    BY <2>1, <2>2
<1> QED
  BY <1>1, <1>2, <1>3, <1>4, <1>5 DEF RecoveryStep

\* The beginning and the end of an apply keep the types.
LEMMA ApplyTypes ==
    ASSUME TypeInv, NEW c \in Changesets, ApplyStep(c)
    PROVE  TypeInv'
<1>1. CASE BeginApply(c)
  <2>1. /\ job' \in JobType /\ job'.kind = "apply" /\ job'.cs = c
        /\ Editable(job'.copy)
    BY <1>1 DEF BeginApply, Editable, NoJob, JobType, JobKind, Status
  <2>2. /\ UNCHANGED <<storeVars, worldVars, bootVars, lockHeldBy, timerVars, callVars>>
        /\ UNCHANGED execVars
    BY <1>1 DEF BeginApply
  <2>3. TypeOK'
    BY <2>1, <2>2 DEF TypeOK
  <2>4. SnapshotInv'
    BY <2>1, <2>2 DEF SnapshotInv, ExecutorHasSnapshot, TimerHasSnapshot, RowHasSnapshot,
       FireHasSnapshot, JobShape, EditShape, HasSnapshot, Editable
  <2> QED
    BY <2>3, <2>4
<1>2. CASE GatesRefuse(c) \/ GatesPass(c)
  <2>1. PICK s \in Status \ {"awaiting_confirm"} : status' = status \/ status' = Set(status, c, s)
    <3>1. CASE GatesRefuse(c)
      BY <3>1 DEF GatesRefuse, Status
    <3>2. CASE GatesPass(c)
      <4>1. Transition(job.copy, "applying") = "applying"
        BY <3>2 DEF GatesPass, SnapshotInv, JobShape, Editable, Transition, AllowedTransitions
      <4> QED
        BY <3>2, <4>1 DEF GatesPass, Status
    <3> QED
      BY <1>2, <3>1, <3>2
  <2>2. /\ status' \in [Changesets -> Status \cup {Absent}]
        /\ \A d \in Changesets : status'[d] = "awaiting_confirm" => status[d] = "awaiting_confirm"
    BY <2>1 DEF TypeOK
  <2>3. /\ pc' \in [Changesets -> Pc]
        /\ \A d \in Changesets : pc'[d] = pc[d] \/ pc'[d] = "snapshot"
    BY <1>2 DEF GatesRefuse, GatesPass, TypeOK, Pc
  <2>4. mode' \in [Changesets -> {"all", "canary", "rest"}]
    <3>1. mode' = mode \/ \E m \in {"all", "canary"} : mode' = Set(mode, c, m)
      BY <1>2 DEF GatesRefuse, GatesPass
    <3> QED
      BY <3>1 DEF TypeOK
  <2>5. lockHeldBy' \in Changesets \cup {None} /\ job' = NoJob
    BY <1>2 DEF GatesRefuse, GatesPass, TypeOK
  <2>6. /\ UNCHANGED <<stage, ticket, snap, worldVars, bootVars, timerVars, callVars>>
        /\ UNCHANGED <<todo, okSteps>>
    BY <1>2 DEF GatesRefuse, GatesPass
  <2>7. TypeOK'
    BY <2>2, <2>3, <2>4, <2>5, <2>6, NoJobType DEF TypeOK
  <2>8. JobShape'
    BY <2>5 DEF JobShape, NoJob
  <2>9. SnapshotInv'
    BY <2>2, <2>3, <2>6, <2>8 DEF SnapshotInv, ExecutorHasSnapshot, TimerHasSnapshot,
       RowHasSnapshot, FireHasSnapshot, EditShape, HasSnapshot
  <2> QED
    BY <2>7, <2>9
<1>3. CASE FinishFailed(c)
  <2>1. /\ status' \in [Changesets -> Status \cup {Absent}]
        /\ \A d \in Changesets : status'[d] = "awaiting_confirm" => status[d] = "awaiting_confirm"
    BY <1>3 DEF FinishFailed, TypeOK, Status
  <2>2. /\ pc' \in [Changesets -> Pc]
        /\ \A d \in Changesets : pc'[d] = pc[d] \/ pc'[d] = "idle"
    BY <1>3 DEF FinishFailed, TypeOK, Pc
  <2>3. guards' \in SUBSET Changesets
    BY <1>3 DEF FinishFailed, DisarmedBy, TypeOK
  <2>4. job' \in JobType /\ job'.kind = "release" /\ job'.cs = c
    BY <1>3 DEF FinishFailed, NoJob, JobType, JobKind, Status
  <2>5. /\ timer' \in [Changesets -> {"none", "armed", "fired"}]
        /\ hold' \in [Changesets -> {"none", "armed", "fired", "resolving"}]
    <3>1. CASE StopTimer(c) /\ StopHold(c)
      BY <3>1, StopTypes
    <3>2. CASE UNCHANGED timerVars
      BY <3>2 DEF TypeOK
    <3> QED
      BY <1>3, <3>1, <3>2 DEF FinishFailed
  <2>6. /\ UNCHANGED <<stage, ticket, snap, worldVars, bootVars, lockHeldBy, fire, edit>>
        /\ UNCHANGED <<fanout, clearing, mode, todo, okSteps>>
    BY <1>3 DEF FinishFailed
  <2>7. TypeOK'
    BY <2>1, <2>2, <2>3, <2>4, <2>5, <2>6 DEF TypeOK
  <2>8. SnapshotInv'
    BY <2>1, <2>2, <2>4, <2>6 DEF SnapshotInv, ExecutorHasSnapshot, TimerHasSnapshot,
       RowHasSnapshot, FireHasSnapshot, JobShape, EditShape, HasSnapshot
  <2> QED
    BY <2>7, <2>8
<1>4. CASE FinishAwaiting(c)
  <2>1. HasSnapshot(c)
    BY <1>4 DEF FinishAwaiting, SnapshotInv, ExecutorHasSnapshot
  <2>2. /\ status' \in [Changesets -> Status \cup {Absent}]
        /\ \A d \in Changesets : d # c => status'[d] = status[d]
    BY <1>4 DEF FinishAwaiting, TypeOK, Status
  <2>3. timer' \in [Changesets -> {"none", "armed", "fired"}]
    BY <1>4 DEF FinishAwaiting, TypeOK
  <2>4. /\ pc' \in [Changesets -> Pc]
        /\ \A d \in Changesets : pc'[d] = pc[d] \/ pc'[d] = "idle"
    BY <1>4 DEF FinishAwaiting, TypeOK, Pc
  <2>5. /\ UNCHANGED <<stage, ticket, snap, worldVars, bootVars, lockVars, hold, callVars>>
        /\ UNCHANGED <<mode, todo, okSteps>>
    BY <1>4 DEF FinishAwaiting
  <2>6. TypeOK'
    BY <2>2, <2>3, <2>4, <2>5 DEF TypeOK
  <2>7. SnapshotInv'
    BY <2>1, <2>2, <2>4, <2>5 DEF SnapshotInv, ExecutorHasSnapshot, TimerHasSnapshot,
       RowHasSnapshot, FireHasSnapshot, JobShape, EditShape, HasSnapshot
  <2> QED
    BY <2>6, <2>7
<1> QED
  BY <1>1, <1>2, <1>3, <1>4 DEF ApplyStep

\* Every end of a window keeps the types.
LEMMA WindowTypes ==
    ASSUME TypeInv, NEW c \in Changesets, WindowStep(c)
    PROVE  TypeInv'
<1>a. /\ status \in [Changesets -> Status \cup {Absent}]
      /\ pc \in [Changesets -> Pc]
      /\ timer \in [Changesets -> {"none", "armed", "fired"}]
      /\ hold \in [Changesets -> {"none", "armed", "fired", "resolving"}]
      /\ fire \in [Changesets -> FireType]
  BY DEF TypeOK
<1>b. Touches[c] \in SUBSET Resource
  BY PlanSets
<1>c. AwaitsConfirm(c) => HasSnapshot(c) /\ status[c] \in Status
  BY DEF AwaitsConfirm, SnapshotInv, RowHasSnapshot, Status
<1>1. CASE Confirm(c)
  <2>1. /\ status' \in [Changesets -> Status \cup {Absent}]
        /\ \A d \in Changesets : status'[d] = "awaiting_confirm" => status[d] = "awaiting_confirm"
    BY <1>1 DEF Confirm, TypeOK, Status
  <2>2. /\ job' \in JobType
        /\ job' = job \/ (job'.kind = "release" /\ job'.cs = c)
    <3>1. [NoJob EXCEPT !.kind = "release", !.cs = c, !.copy = "committed"] \in JobType
      BY DEF NoJob, JobType, JobKind, Status
    <3> QED
      BY <1>1, <3>1 DEF Confirm, NoJob, TypeOK
  <2>3. guards' \in SUBSET Changesets
    BY <1>1 DEF Confirm, DisarmedBy, TypeOK
  <2>4. timer' \in [Changesets -> {"none", "armed", "fired"}]
    BY <1>1, StopTypes DEF Confirm
  <2>5. /\ UNCHANGED <<stage, ticket, snap, worldVars, bootVars, lockHeldBy, hold, fire>>
        /\ UNCHANGED <<edit, fanout, clearing, execVars>>
    BY <1>1 DEF Confirm
  <2>6. TypeOK'
    BY <2>1, <2>2, <2>3, <2>4, <2>5 DEF TypeOK
  <2>7. JobShape'
    BY <2>2, <2>5 DEF SnapshotInv, JobShape, HasSnapshot
  <2>8. SnapshotInv'
    BY <2>1, <2>5, <2>7 DEF SnapshotInv, ExecutorHasSnapshot, TimerHasSnapshot,
       RowHasSnapshot, FireHasSnapshot, EditShape, HasSnapshot
  <2> QED
    BY <2>6, <2>8
<1>2. ASSUME NEW n \in Nodes, CancelNodeTimer(c, n) PROVE TypeInv'
  <2>1. fanout' \in [Changesets -> SUBSET Nodes]
    BY <1>2 DEF CancelNodeTimer, TypeOK
  <2>2. ntimer' = ntimer \/ ntimer' = [ntimer EXCEPT ![c][n] = "cancelled"]
    BY <1>2 DEF CancelNodeTimer
  <2>3. /\ ntimer' \in [Changesets -> [Nodes -> TimerState]]
        /\ \A d \in Changesets, m \in Nodes : ntimer'[d][m] = "armed" => ntimer[d][m] = "armed"
    <3>1. "cancelled" \in TimerState
      BY DEF TimerState
    <3>2. CASE ntimer' = ntimer
      BY <3>2 DEF TypeOK
    <3>3. CASE ntimer' = [ntimer EXCEPT ![c][n] = "cancelled"]
      <4>1. /\ ntimer' \in [Changesets -> [Nodes -> TimerState]]
            /\ \A d \in Changesets : d # c => ntimer'[d] = ntimer[d]
            /\ \A m \in Nodes : m # n => ntimer'[c][m] = ntimer[c][m]
            /\ ntimer'[c][n] = "cancelled"
        BY <3>1, <3>3, NodeTimerTypes
      <4> QED
        BY <4>1
    <3> QED
      BY <2>2, <3>2, <3>3
  <2>4. /\ UNCHANGED <<storeVars, live, staged, bootVars, lockVars, timerVars, guards, fire>>
        /\ UNCHANGED <<edit, clearing, execVars>>
    BY <1>2 DEF CancelNodeTimer
  <2>5. TypeOK'
    BY <2>1, <2>3, <2>4 DEF TypeOK
  <2>6. SnapshotInv'
    BY <2>3, <2>4 DEF SnapshotInv, ExecutorHasSnapshot, TimerHasSnapshot, RowHasSnapshot,
       FireHasSnapshot, JobShape, EditShape, HasSnapshot
  <2> QED
    BY <2>5, <2>6
<1>3. CASE Rollback(c)
  <2>1. PICK session \in BOOLEAN : StartRollback(c, status[c], Touches[c], session, FALSE)
    BY <1>3 DEF Rollback
  <2>2. /\ AwaitsConfirm(c) /\ StopTimer(c)
        /\ UNCHANGED <<status, stage, hold, fire, edit, fanout, clearing, execVars>>
    BY <1>3 DEF Rollback
  <2> QED
    BY <2>1, <2>2, <1>a, <1>b, <1>c, StopTypes, RollbackStarts
<1>4. CASE TimerExpires(c)
  <2>1. TypeOK'
    BY <1>4 DEF TimerExpires, TypeOK
  <2>2. SnapshotInv'
    BY <1>4 DEF TimerExpires, SnapshotInv, ExecutorHasSnapshot, TimerHasSnapshot,
       RowHasSnapshot, FireHasSnapshot, JobShape, EditShape, HasSnapshot
  <2> QED
    BY <2>1, <2>2
<1>5. CASE TimerCallback(c)
  <2>1. timer' \in [Changesets -> {"none", "armed", "fired"}] /\ UNCHANGED fire
    BY <1>5, <1>a DEF TimerCallback
  <2>2. CASE AwaitsConfirm(c)
    <3>1. /\ StartRollback(c, status[c], Touches[c], FALSE, FALSE)
          /\ UNCHANGED <<status, stage, hold, edit, fanout, clearing, execVars>>
      BY <1>5, <2>2 DEF TimerCallback, AwaitsConfirm, Abortable
    <3> QED
      BY <2>1, <2>2, <3>1, <1>a, <1>b, <1>c, RollbackStarts
  <2>3. CASE Abortable(c)
    <3>1. Abort(c, FALSE) /\ StopHold(c)
      BY <1>5, <2>3 DEF TimerCallback, AwaitsConfirm, Abortable
    <3> QED
      BY <2>1, <3>1, <1>a, StopTypes, AbortTypes
  <2>4. CASE ~AwaitsConfirm(c) /\ ~Abortable(c)
    <3>1. /\ UNCHANGED <<storeVars, worldVars, bootVars, lockVars, hold, guards, edit>>
          /\ UNCHANGED <<fanout, clearing, execVars>>
      BY <1>5, <2>4 DEF TimerCallback
    <3>2. TypeOK'
      BY <2>1, <3>1 DEF TypeOK
    <3>3. SnapshotInv'
      BY <2>1, <3>1 DEF SnapshotInv, ExecutorHasSnapshot, TimerHasSnapshot, RowHasSnapshot,
         FireHasSnapshot, JobShape, EditShape, HasSnapshot
    <3> QED
      BY <3>2, <3>3
  <2> QED
    BY <2>2, <2>3, <2>4
<1> QED
  BY <1>1, <1>2, <1>3, <1>4, <1>5 DEF WindowStep

\* A node's own timer restores a snapshot; a ticket expires.
LEMMA EnvironmentTypes ==
    ASSUME TypeInv, NEW c \in Changesets, EnvironmentStep(c)
    PROVE  TypeInv'
<1>1. ASSUME NEW n \in Nodes, NodeTimerFires(c, n) PROVE TypeInv'
  <2>1. n \in Resource /\ snap[c][n] \in Version
    BY <1>1, SnapshotValues DEF NodeTimerFires, SnapshotInv, TimerHasSnapshot, Resource
  <2>2. live' \in [Resource -> Version] /\ staged' \in [Nodes -> Version \cup {None}]
    BY <1>1, <2>1, RestoredTypes DEF NodeTimerFires
  <2>3. PICK s \in {"rolled_back", "rollback_failed"} : ntimer' = [ntimer EXCEPT ![c][n] = s]
    BY <1>1 DEF NodeTimerFires
  <2>4. /\ ntimer' \in [Changesets -> [Nodes -> TimerState]]
        /\ \A d \in Changesets : d # c => ntimer'[d] = ntimer[d]
        /\ \A m \in Nodes : m # n => ntimer'[c][m] = ntimer[c][m]
        /\ ntimer'[c][n] = s
    <3>1. s \in TimerState
      BY DEF TimerState
    <3> QED
      BY <2>3, <3>1, NodeTimerTypes
  <2>5. UNCHANGED <<storeVars, bootVars, lockVars, timerVars, callVars, execVars>>
    BY <1>1 DEF NodeTimerFires
  <2>6. TypeOK'
    BY <2>2, <2>4, <2>5 DEF TypeOK
  <2>7. TimerHasSnapshot'
    BY <2>4, <2>5 DEF SnapshotInv, TimerHasSnapshot, HasSnapshot
  <2>8. SnapshotInv'
    BY <2>5, <2>7 DEF SnapshotInv, ExecutorHasSnapshot, RowHasSnapshot, FireHasSnapshot,
       JobShape, EditShape, HasSnapshot
  <2> QED
    BY <2>6, <2>8
<1>2. CASE TicketExpires(c)
  <2>1. TypeOK'
    BY <1>2 DEF TicketExpires, TypeOK
  <2>2. SnapshotInv'
    BY <1>2 DEF TicketExpires, SnapshotInv, ExecutorHasSnapshot, TimerHasSnapshot,
       RowHasSnapshot, FireHasSnapshot, JobShape, EditShape, HasSnapshot
  <2> QED
    BY <2>1, <2>2
<1> QED
  BY <1>1, <1>2 DEF EnvironmentStep

-----------------------------------------------------------------------------

\* Init, Next and the invariant of the snapshots, for every value of the
\* constants.
LEMMA TypeInduction == Spec => []TypeInv
<1>1. Init => TypeInv
  <2> SUFFICES ASSUME Init PROVE TypeInv
    OBVIOUS
  <2>1. TypeOK
    BY SettingsAssumption, NoJobType
       DEF Init, TypeOK, Absent, NoFire, FireType, Pc, TimerState, Version
  <2>2. SnapshotInv
    BY DEF Init, SnapshotInv, ExecutorHasSnapshot, TimerHasSnapshot, RowHasSnapshot,
       FireHasSnapshot, JobShape, EditShape, NoFire, NoJob, Absent
  <2> QED
    BY <2>1, <2>2
<1>2. TypeInv /\ [Next]_vars => TypeInv'
  <2> SUFFICES ASSUME TypeInv, [Next]_vars PROVE TypeInv'
    OBVIOUS
  <2>1. CASE UNCHANGED vars
    <3>1. TypeOK'
      BY <2>1 DEF vars, TypeOK
    <3>2. SnapshotInv'
      BY <2>1 DEF vars, SnapshotInv, ExecutorHasSnapshot, TimerHasSnapshot, RowHasSnapshot,
         FireHasSnapshot, JobShape, EditShape, HasSnapshot
    <3> QED
      BY <3>1, <3>2
  <2>2. CASE Next
    BY <2>2, DraftTypes, ApplyTypes, ExecutorTypes, StagedTypes, WindowTypes, FireTypes,
       EnvironmentTypes, RollbackTypes, RecoveryTypes DEF Next
  <2> QED
    BY <2>1, <2>2
<1> QED
  BY <1>1, <1>2, PTL DEF Spec

\* Every reachable state of the engine is well typed: whatever the clients, the
\* nodes, the store and the crashes do, a restore writes a configuration some
\* changeset or the initial state put there.
THEOREM TypeCorrect == Spec => []TypeOK
<1>1. TypeInv => TypeOK
  OBVIOUS
<1> QED
  BY <1>1, TypeInduction, PTL

\* No rollback, undo, node timer or recovery ever starts without the pre-apply
\* snapshot it writes back.
THEOREM RestoresHaveSnapshot == Spec => []SnapshotInv
<1>1. TypeInv => SnapshotInv
  OBVIOUS
<1> QED
  BY <1>1, TypeInduction, PTL

-----------------------------------------------------------------------------
(* The lock. The single-applier lock covers exactly the commit-confirm
   window, for any set of changesets, nodes and scopes and any number of
   crashes, in the setting where the code does guarantee it: applies in one
   pass, no finding guards, clients that serialise their calls for a
   changeset, and a store that works. The invariant is LockInv of
   EngineInvariants. *)

\* The setting; the runs hold_race and late_finding show what canary applies
\* and finding guards add to it.
PlainSetting == SerialCalls = TRUE /\ StoreFaults = FALSE /\ Guarded = {} /\ Canary = {}

-----------------------------------------------------------------------------
(* What the setting rules out. *)

\* Without canary nodes and guards, no part of the canary strategy and of the
\* finding-triggered rollback is ever enabled.
LEMMA PlainSteps ==
    ASSUME PlainSetting, OnePass, NEW c \in Changesets
    PROVE  /\ ~StagedStep(c)
           /\ ~FireStep(c)
           /\ ~Abortable(c)
           /\ ~CanaryAllowed(c)
<1>1. stage[c] = "none" /\ hold[c] = "none" /\ c \notin clearing /\ c \notin guards
  BY DEF OnePass
<1>2. pc[c] \notin {"holding", "clearDone", "clearFail"} /\ fire[c].at = "none"
  BY DEF OnePass, NoFire
<1>3. ~Abortable(c) /\ ~Paused(c)
  BY <1>1 DEF Abortable, Paused
<1>4. ~StagedStep(c)
  BY <1>1, <1>2, <1>3 DEF StagedStep, HoldAfterCanary, ContinueStagedApply, AbortStagedApply,
     HoldExpires, OnHoldExpired, ResolveHold, ClearStage, Claim, Abort
<1>5. ~FireStep(c)
  BY <1>1, <1>2 DEF FireStep, ObserveFinding, FireRead, RecordTriggerGet, RecordTriggerPut,
     FireRollback
<1> QED
  BY <1>3, <1>4, <1>5 DEF PlainSetting, CanaryAllowed

\* LockInv depends on these variables only.
LEMMA LockFrame ==
    ASSUME LockInv,
           UNCHANGED <<status, stage, up, toArm, job, lockHeldBy, timer, hold, guards, fire,
                       edit, clearing, pc, mode>>
    PROVE  LockInv'
BY DEF LockInv, OnePass, ExecutorOwnsLock, LockCoversWindow, EditsOutsideWindow, OneInWindow,
   JobMatchesRow, DownIsIdle, ArmingCovers, TimerOwnsLock, LockOwned

-----------------------------------------------------------------------------
(* LockInv is inductive, one lemma per part of the next-state relation. *)

\* Draft operations move rows outside the window only.
LEMMA DraftLock ==
    ASSUME PlainSetting, TypeInv, LockInv, NEW c \in Changesets, DraftStep(c)
    PROVE  LockInv'
<1>b. StoreOk = {TRUE}
  BY DEF PlainSetting, StoreOk
<1>1. CASE Create(c) \/ EditPersist(c)
  <2>1. /\ status' \in [Changesets -> Status \cup {Absent}]
        /\ \A d \in Changesets :
               status'[d] = status[d]
                   \/ (d = c /\ status[c] \notin Window /\ status'[c] \notin Window)
    <3>1. CASE Create(c)
      BY <3>1 DEF Create, TypeOK, Absent, Window, Status
    <3>2. CASE EditPersist(c)
      <4>1. status' = Set(status, c, edit[c])
        BY <3>2, <1>b DEF EditPersist
      <4>2. edit[c] \in {"draft", "validated", "discarded"} /\ status[c] \notin Window
        BY <3>2 DEF EditPersist, LockInv, EditsOutsideWindow, SnapshotInv, EditShape, Window
      <4> QED
        BY <4>1, <4>2 DEF TypeOK, Window, Status
    <3> QED
      BY <1>1, <3>1, <3>2
  <2>2. /\ edit' \in [Changesets -> Status \cup {Absent}]
        /\ edit'[c] = Absent
        /\ \A d \in Changesets : d # c => edit'[d] = edit[d]
    <3>1. CASE Create(c)
      BY <3>1 DEF Create, TypeOK, LockInv, EditsOutsideWindow, Absent
    <3>2. CASE EditPersist(c)
      BY <3>2 DEF EditPersist, TypeOK
    <3> QED
      BY <1>1, <3>1, <3>2
  <2>3. job.kind \in {"apply", "rollback", "recover"} => job.cs # c
    BY <1>1 DEF Create, EditPersist, LockInv, EditsOutsideWindow, JobMatchesRow, SnapshotInv,
       JobShape, Editable, Absent
  <2>4. job.kind # "idle" => job.cs \in Changesets
    BY DEF SnapshotInv, JobShape
  <2>5. UNCHANGED <<stage, up, toArm, job, lockHeldBy, timer, hold, guards, fire, clearing,
                    pc, mode>>
    BY <1>1 DEF Create, EditPersist
  <2>6. OnePass' /\ ExecutorOwnsLock'
    BY <2>1, <2>2, <2>3, <2>4, <2>5 DEF LockInv, OnePass, ExecutorOwnsLock, Window
  <2>7. LockCoversWindow' /\ OneInWindow'
    BY <2>1, <2>2, <2>3, <2>4, <2>5 DEF LockInv, LockCoversWindow, OneInWindow, Window
  <2>8. TimerOwnsLock' /\ LockOwned'
    BY <2>1, <2>2, <2>3, <2>4, <2>5 DEF LockInv, TimerOwnsLock, OneInWindow, Window,
       LockOwned
  <2>9. EditsOutsideWindow' /\ JobMatchesRow'
    BY <2>1, <2>2, <2>3, <2>4, <2>5 DEF LockInv, EditsOutsideWindow, Window, JobMatchesRow
  <2>10. DownIsIdle' /\ ArmingCovers'
    BY <2>1, <2>2, <2>3, <2>4, <2>5 DEF LockInv, DownIsIdle, ArmingCovers, OneInWindow,
       Window
  <2> QED
    BY <2>6, <2>7, <2>8, <2>9, <2>10 DEF LockInv
<1>2. ASSUME NEW s \in {"draft", "validated", "discarded"},
             MayEdit(c), EditRead(c, s),
             status[c] \in {"draft", "validated", "requested"},
             s = status[c] \/ <<status[c], s>> \in AllowedTransitions
      PROVE  LockInv'
  <2>1. job.cs # c /\ status[c] \notin Window
    BY <1>2 DEF MayEdit, PlainSetting, Window
  <2>2. /\ \A d \in Changesets : d # c => edit'[d] = edit[d]
        /\ edit'[c] = s
    BY <1>2 DEF EditRead, TypeOK
  <2>3. UNCHANGED <<status, stage, up, toArm, job, lockHeldBy, timer, hold, guards, fire,
                    clearing, pc, mode>>
    BY <1>2 DEF EditRead
  <2>4. OnePass' /\ ExecutorOwnsLock'
    BY <1>2, <2>1, <2>2, <2>3 DEF LockInv, OnePass, ExecutorOwnsLock
  <2>5. LockCoversWindow' /\ OneInWindow'
    BY <1>2, <2>1, <2>2, <2>3 DEF LockInv, LockCoversWindow, OneInWindow, Window
  <2>6. TimerOwnsLock' /\ LockOwned'
    BY <1>2, <2>1, <2>2, <2>3 DEF LockInv, TimerOwnsLock, OneInWindow, Window, LockOwned
  <2>7. EditsOutsideWindow' /\ JobMatchesRow'
    BY <1>2, <2>1, <2>2, <2>3 DEF LockInv, EditsOutsideWindow, Window, JobMatchesRow
  <2>8. DownIsIdle' /\ ArmingCovers'
    BY <1>2, <2>1, <2>2, <2>3 DEF LockInv, DownIsIdle, ArmingCovers, OneInWindow, Window
  <2> QED
    BY <2>4, <2>5, <2>6, <2>7, <2>8 DEF LockInv
<1> QED
  BY <1>1, <1>2 DEF DraftStep, Approve, UpdateDraft, Discard, Validate, Editable,
     AllowedTransitions

\* The executor moves between its own states and touches no row, no lock.
LEMMA ExecutorLock ==
    ASSUME PlainSetting, TypeInv, LockInv, NEW c \in Changesets, ExecutorStep(c)
    PROVE  LockInv'
<1>1. mode[c] = "all"
  BY DEF LockInv, OnePass
<1>2. /\ UNCHANGED <<status, stage, up, toArm, job, lockHeldBy, timer, hold, fire, edit,
                     clearing, mode>>
      /\ guards' = guards
  BY DEF PlainSetting, ExecutorStep, CaptureSnapshot, SealTicket, StageFile, ArmNode, Reload,
     ApplyScope, Undo, RunDone, UndoDone, ExecFrame
<1>3. /\ pc[c] # "idle"
      /\ \/ pc' = pc
         \/ \E p \in {"seal", "run", "undo", "await", "fail"} : pc' = [pc EXCEPT ![c] = p]
  BY <1>1 DEF ExecutorStep, CaptureSnapshot, SealTicket, StageFile, ArmNode, Reload,
     ApplyScope, Undo, RunDone, UndoDone, Running, StepDone, StepFailed
<1>4. /\ \A d \in Changesets : pc'[d] # "idle" => pc[d] # "idle"
      /\ \A d \in Changesets :
             pc'[d] \in {"holding", "clearDone", "clearFail"} => pc'[d] = pc[d]
  BY <1>3 DEF TypeOK
<1>5. OnePass' /\ ExecutorOwnsLock'
  BY <1>2, <1>4 DEF LockInv, OnePass, ExecutorOwnsLock
<1> QED
  BY <1>2, <1>5 DEF LockInv, LockCoversWindow, EditsOutsideWindow, OneInWindow, JobMatchesRow,
     DownIsIdle, ArmingCovers, TimerOwnsLock, LockOwned

\* The section under applyMu: the row leaves the window before the lock is
\* released, and the lock that is released is the row's own.
LEMMA RollbackLock ==
    ASSUME PlainSetting, TypeInv, LockInv, RollbackStep
    PROVE  LockInv'
<1>a. job.kind # "idle" => job.cs \in Changesets
  BY DEF SnapshotInv, JobShape
<1>b. StoreOk = {TRUE} /\ None \notin Changesets
  BY SettingsAssumption DEF PlainSetting, StoreOk
<1>1. CASE RestoreOne
  <2>1. PICK r, h : job' = [job EXCEPT !.todo = @ \ {r}, !.hard = h]
    BY <1>1 DEF RestoreOne, RestoreNode, RestoreScope
  <2>2. /\ job'.kind = job.kind /\ job'.cs = job.cs /\ job'.copy = job.copy
        /\ job'.clear = job.clear
    BY <2>1 DEF TypeOK, JobType
  <2>3. UNCHANGED <<status, stage, up, toArm, lockHeldBy, timer, hold, guards, fire, edit,
                    clearing, pc, mode>>
    BY <1>1 DEF RestoreOne
  <2>4. OnePass' /\ ExecutorOwnsLock'
    BY <2>2, <2>3 DEF LockInv, OnePass, ExecutorOwnsLock
  <2>5. LockCoversWindow' /\ OneInWindow'
    BY <2>2, <2>3 DEF LockInv, LockCoversWindow, OneInWindow, Window
  <2>6. TimerOwnsLock' /\ LockOwned'
    BY <2>2, <2>3 DEF LockInv, TimerOwnsLock, OneInWindow, Window, LockOwned
  <2>7. EditsOutsideWindow' /\ JobMatchesRow'
    BY <2>2, <2>3 DEF LockInv, EditsOutsideWindow, Window, JobMatchesRow
  <2>8. DownIsIdle' /\ ArmingCovers'
    BY <2>2, <2>3 DEF LockInv, DownIsIdle, ArmingCovers, OneInWindow, Window
  <2> QED
    BY <2>4, <2>5, <2>6, <2>7, <2>8 DEF LockInv
<1>2. CASE RollbackPersist \/ RecoverPersist
  <2>1. /\ job.kind \in {"rollback", "recover"} /\ up # "down"
        /\ job'.kind = IF job.kind = "rollback" THEN "release" ELSE "releaseOwn"
        /\ job'.cs = job.cs /\ job'.clear = job.clear
    BY <1>2 DEF RollbackPersist, RecoverPersist, TypeOK, JobType
  <2>2. PICK s \in Terminal : status' = [status EXCEPT ![job.cs] = s]
    <3>1. CASE RollbackPersist
      <4>1. Transition(job.copy, RollbackTarget) \in Terminal
        BY <3>1 DEF RollbackPersist, LockInv, JobMatchesRow, Transition, RollbackTarget,
           AllowedTransitions, Terminal
      <4> QED
        BY <3>1, <4>1, <1>b DEF RollbackPersist
    <3>2. CASE RecoverPersist
      <4>1. Transition(job.copy, "failed") \in Terminal
        BY <3>2 DEF RecoverPersist, SnapshotInv, JobShape, Transition, AllowedTransitions,
           Terminal
      <4> QED
        BY <3>2, <4>1, <1>b DEF RecoverPersist
    <3> QED
      BY <1>2, <3>1, <3>2
  <2>3. /\ \A d \in Changesets : d # job.cs => status'[d] = status[d]
        /\ status'[job.cs] \notin Window
        /\ status[job.cs] \in Window
        /\ job.cs \in Changesets
    BY <1>a, <2>1, <2>2 DEF TypeOK, LockInv, JobMatchesRow, Terminal, Window
  <2>4. UNCHANGED <<stage, up, toArm, lockHeldBy, timer, hold, guards, fire, edit,
                    clearing, pc, mode>>
    BY <1>2 DEF RollbackPersist, RecoverPersist
  <2>5. pc[job.cs] = "idle"
    BY <2>1, <2>3, <2>4 DEF LockInv, ExecutorOwnsLock, JobMatchesRow
  <2>6. OnePass' /\ ExecutorOwnsLock'
    BY <1>b, <2>1, <2>3, <2>4, <2>5 DEF LockInv, OnePass, ExecutorOwnsLock, JobMatchesRow
  <2>7. LockCoversWindow' /\ OneInWindow'
    BY <1>b, <2>1, <2>3, <2>4, <2>5 DEF LockInv, LockCoversWindow, OneInWindow, Window
  <2>8. TimerOwnsLock' /\ LockOwned'
    BY <1>b, <2>1, <2>3, <2>4, <2>5 DEF LockInv, TimerOwnsLock, OneInWindow, Window,
       LockOwned, JobMatchesRow
  <2>9. EditsOutsideWindow' /\ JobMatchesRow'
    BY <1>b, <2>1, <2>3, <2>4, <2>5 DEF LockInv, EditsOutsideWindow, Window, JobMatchesRow
  <2>10. DownIsIdle' /\ ArmingCovers'
    BY <1>b, <2>1, <2>3, <2>4, <2>5 DEF LockInv, DownIsIdle, ArmingCovers, OneInWindow,
       Window, JobMatchesRow
  <2> QED
    BY <2>6, <2>7, <2>8, <2>9, <2>10 DEF LockInv
<1>3. CASE Release
  <2>1. job.kind \in {"release", "releaseOwn"} /\ job' = NoJob /\ up # "down"
    BY <1>3 DEF Release
  <2>2. job.cs \in Changesets /\ status[job.cs] \notin Window
    BY <1>a, <2>1 DEF LockInv, JobMatchesRow
  <2>3. lockHeldBy' = IF job.kind = "release" THEN None ELSE lockHeldBy
    <3>1. job.kind = "releaseOwn" => lockHeldBy # job.cs
      BY <2>2 DEF LockInv, LockOwned
    <3> QED
      BY <1>3, <2>1, <3>1 DEF Release, ReleasedLock
  <2>4. job.kind = "release" => lockHeldBy = job.cs
    BY DEF LockInv, JobMatchesRow
  <2>5. clearing' = clearing
    BY <1>3 DEF Release, LockInv, OnePass
  <2>6. UNCHANGED <<status, stage, up, toArm, timer, hold, guards, fire, edit, pc, mode>>
    BY <1>3 DEF Release
  <2>7. job'.kind = "idle" /\ job'.cs = None /\ job'.clear = FALSE
    BY <2>1 DEF NoJob
  <2>8. OnePass' /\ ExecutorOwnsLock'
    BY <1>b, <2>1, <2>2, <2>3, <2>4, <2>5, <2>6, <2>7 DEF LockInv, OnePass, ExecutorOwnsLock,
       Window
  <2>9. LockCoversWindow' /\ OneInWindow'
    BY <1>b, <2>1, <2>2, <2>3, <2>4, <2>5, <2>6, <2>7 DEF LockInv, LockCoversWindow,
       OneInWindow, Window
  <2>10. TimerOwnsLock' /\ LockOwned'
    BY <1>b, <2>1, <2>2, <2>3, <2>4, <2>5, <2>6, <2>7 DEF LockInv, TimerOwnsLock,
       OneInWindow, Window, LockOwned
  <2>11. EditsOutsideWindow' /\ JobMatchesRow'
    BY <1>b, <2>1, <2>2, <2>3, <2>4, <2>5, <2>6, <2>7 DEF LockInv, EditsOutsideWindow,
       Window, JobMatchesRow
  <2>12. DownIsIdle' /\ ArmingCovers'
    BY <1>b, <2>1, <2>2, <2>3, <2>4, <2>5, <2>6, <2>7 DEF LockInv, DownIsIdle, ArmingCovers,
       OneInWindow, Window
  <2> QED
    BY <2>8, <2>9, <2>10, <2>11, <2>12 DEF LockInv
<1> QED
  BY <1>1, <1>2, <1>3 DEF RollbackStep

\* A crash loses the lock with everything else in memory, and the startup
\* takes it again for the one changeset in its window before it serves.
LEMMA RecoveryLock ==
    ASSUME PlainSetting, TypeInv, LockInv, RecoveryStep
    PROVE  LockInv'
<1>b. None \notin Changesets
  BY SettingsAssumption
<1>1. CASE Crash
  <2>1. /\ up' = "down" /\ job' = NoJob /\ lockHeldBy' = None
        /\ guards' = {} /\ clearing' = {} /\ UNCHANGED <<status, stage>>
    BY <1>1 DEF Crash
  <2>2. \A d \in Changesets :
            /\ timer'[d] = "none" /\ hold'[d] = "none" /\ fire'[d] = NoFire
            /\ edit'[d] = Absent /\ pc'[d] = "idle" /\ mode'[d] = "all"
    BY <1>1 DEF Crash
  <2>3. job'.kind = "idle" /\ job'.clear = FALSE
    BY <2>1 DEF NoJob
  <2>4. OnePass' /\ ExecutorOwnsLock'
    BY <1>b, <2>1, <2>2, <2>3 DEF LockInv, OnePass, ExecutorOwnsLock
  <2>5. LockCoversWindow' /\ OneInWindow'
    BY <1>b, <2>1, <2>2, <2>3 DEF LockInv, LockCoversWindow, OneInWindow, Window
  <2>6. TimerOwnsLock' /\ LockOwned'
    BY <1>b, <2>1, <2>2, <2>3 DEF LockInv, TimerOwnsLock, OneInWindow, Window, LockOwned
  <2>7. EditsOutsideWindow' /\ JobMatchesRow'
    BY <1>b, <2>1, <2>2, <2>3 DEF LockInv, EditsOutsideWindow, Window, JobMatchesRow
  <2>8. DownIsIdle' /\ ArmingCovers'
    BY <1>b, <2>1, <2>2, <2>3 DEF LockInv, DownIsIdle, ArmingCovers, OneInWindow, Window
  <2> QED
    BY <2>4, <2>5, <2>6, <2>7, <2>8 DEF LockInv
<1>2. CASE Restart
  <2>1. up = "down" /\ up' = "arming" /\ lockHeldBy = None /\ job.kind = "idle"
    BY <1>2 DEF Restart, LockInv, DownIsIdle
  <2>2. \A d \in Changesets : status[d] \in Window => d \in toArm'
    BY <1>2 DEF Restart
  <2>3. UNCHANGED <<status, stage, job, lockHeldBy, timer, hold, guards, fire, edit,
                    clearing, pc, mode>>
    BY <1>2 DEF Restart
  <2>4. OnePass' /\ ExecutorOwnsLock'
    BY <1>b, <2>1, <2>2, <2>3 DEF LockInv, OnePass, ExecutorOwnsLock
  <2>5. LockCoversWindow' /\ OneInWindow'
    BY <1>b, <2>1, <2>2, <2>3 DEF LockInv, LockCoversWindow, OneInWindow, Window
  <2>6. TimerOwnsLock' /\ LockOwned'
    BY <1>b, <2>1, <2>2, <2>3 DEF LockInv, TimerOwnsLock, OneInWindow, Window, LockOwned
  <2>7. EditsOutsideWindow' /\ JobMatchesRow'
    BY <1>b, <2>1, <2>2, <2>3 DEF LockInv, EditsOutsideWindow, Window, JobMatchesRow
  <2>8. DownIsIdle' /\ ArmingCovers'
    BY <1>b, <2>1, <2>2, <2>3 DEF LockInv, DownIsIdle, ArmingCovers, OneInWindow, Window
  <2> QED
    BY <2>4, <2>5, <2>6, <2>7, <2>8 DEF LockInv
<1>3. ASSUME NEW c \in Changesets, ArmAwaiting(c) PROVE LockInv'
  <2>1. /\ up = "arming" /\ job.kind = "idle" /\ status[c] = "awaiting_confirm"
        /\ lockHeldBy' = c /\ toArm' = toArm \ {c}
    BY <1>3 DEF ArmAwaiting, Arming, Unlocked
  <2>2. \A d \in Changesets : d # c => timer'[d] = timer[d]
    BY <1>3 DEF ArmAwaiting, TypeOK
  <2>3. UNCHANGED <<status, stage, up, job, hold, guards, fire, edit, clearing, pc, mode>>
    BY <1>3 DEF ArmAwaiting
  <2>4. OnePass' /\ ExecutorOwnsLock'
    BY <1>b, <2>1, <2>2, <2>3 DEF LockInv, OnePass, ExecutorOwnsLock
  <2>5. LockCoversWindow' /\ OneInWindow'
    BY <1>b, <2>1, <2>2, <2>3 DEF LockInv, LockCoversWindow, OneInWindow, Window
  <2>6. TimerOwnsLock' /\ LockOwned'
    BY <1>b, <2>1, <2>2, <2>3 DEF LockInv, TimerOwnsLock, OneInWindow, Window, LockOwned
  <2>7. EditsOutsideWindow' /\ JobMatchesRow'
    BY <1>b, <2>1, <2>2, <2>3 DEF LockInv, EditsOutsideWindow, Window, JobMatchesRow
  <2>8. DownIsIdle' /\ ArmingCovers'
    BY <1>b, <2>1, <2>2, <2>3 DEF LockInv, DownIsIdle, ArmingCovers, OneInWindow, Window
  <2> QED
    BY <2>4, <2>5, <2>6, <2>7, <2>8 DEF LockInv
<1>4. ASSUME NEW c \in Changesets, RecoverInterrupted(c) PROVE LockInv'
  <2>1. /\ up = "arming" /\ job.kind = "idle" /\ status[c] = "applying"
        /\ c \in toArm /\ toArm' = toArm \ {c}
    BY <1>4 DEF RecoverInterrupted, Interrupted, Arming, Unlocked
  <2>2. job'.kind = "recover" /\ job'.cs = c /\ job'.clear = FALSE
    BY <1>4 DEF RecoverInterrupted, NoJob
  <2>3. lockHeldBy = None
    BY <2>1 DEF LockInv, LockOwned, ArmingCovers, OneInWindow, Window, TypeOK
  <2>4. stage' = stage
    BY <1>4 DEF RecoverInterrupted, LockInv, OnePass
  <2>5. UNCHANGED <<status, up, lockHeldBy, timer, hold, guards, fire, edit, clearing, pc,
                    mode>>
    BY <1>4 DEF RecoverInterrupted
  <2>6. OnePass' /\ ExecutorOwnsLock'
    BY <1>b, <2>1, <2>2, <2>3, <2>4, <2>5 DEF LockInv, OnePass, ExecutorOwnsLock
  <2>7. LockCoversWindow' /\ OneInWindow'
    BY <1>b, <2>1, <2>2, <2>3, <2>4, <2>5 DEF LockInv, LockCoversWindow, OneInWindow, Window
  <2>8. TimerOwnsLock' /\ LockOwned'
    BY <1>b, <2>1, <2>2, <2>3, <2>4, <2>5 DEF LockInv, TimerOwnsLock, OneInWindow, Window,
       LockOwned
  <2>9. EditsOutsideWindow' /\ JobMatchesRow'
    BY <1>b, <2>1, <2>2, <2>3, <2>4, <2>5 DEF LockInv, EditsOutsideWindow, Window,
       JobMatchesRow
  <2>10. DownIsIdle' /\ ArmingCovers'
    BY <1>b, <2>1, <2>2, <2>3, <2>4, <2>5 DEF LockInv, DownIsIdle, ArmingCovers, OneInWindow,
       Window
  <2> QED
    BY <2>6, <2>7, <2>8, <2>9, <2>10 DEF LockInv
<1>5. ASSUME NEW c \in Changesets, RecoverHold(c) PROVE LockInv'
  BY <1>5 DEF RecoverHold, LockInv, OnePass
<1>6. CASE StartupDone
  <2>1. up = "arming" /\ up' = "up" /\ toArm = {} /\ job.kind # "recover"
    BY <1>6 DEF StartupDone
  <2>2. UNCHANGED <<status, stage, toArm, job, lockHeldBy, timer, hold, guards, fire, edit,
                    clearing, pc, mode>>
    BY <1>6 DEF StartupDone
  <2>3. OnePass' /\ ExecutorOwnsLock'
    BY <2>1, <2>2 DEF LockInv, OnePass, ExecutorOwnsLock
  <2>4. LockCoversWindow' /\ OneInWindow'
    BY <2>1, <2>2 DEF LockInv, LockCoversWindow, OneInWindow, Window, ArmingCovers
  <2>5. TimerOwnsLock' /\ LockOwned'
    BY <2>1, <2>2 DEF LockInv, TimerOwnsLock, OneInWindow, Window, LockOwned
  <2>6. EditsOutsideWindow' /\ JobMatchesRow'
    BY <2>1, <2>2 DEF LockInv, EditsOutsideWindow, Window, JobMatchesRow
  <2>7. DownIsIdle' /\ ArmingCovers'
    BY <2>1, <2>2 DEF LockInv, DownIsIdle, ArmingCovers, OneInWindow, Window
  <2> QED
    BY <2>3, <2>4, <2>5, <2>6, <2>7 DEF LockInv
<1> QED
  BY <1>1, <1>2, <1>3, <1>4, <1>5, <1>6 DEF RecoveryStep

\* An apply takes the lock when it is free, so that no other changeset is in
\* its window, and a failed one gives it back.
LEMMA ApplyLock ==
    ASSUME PlainSetting, TypeInv, LockInv, NEW c \in Changesets, ApplyStep(c)
    PROVE  LockInv'
<1>b. StoreOk = {TRUE} /\ None \notin Changesets
  BY SettingsAssumption DEF PlainSetting, StoreOk
<1>1. CASE BeginApply(c)
  <2>1. /\ up = "up" /\ job.kind = "idle" /\ lockHeldBy = None
        /\ edit[c] = Absent /\ Editable(status[c])
    BY <1>1 DEF BeginApply, Serving, Unlocked, LockFree, PlainSetting
  <2>2. job'.kind = "apply" /\ job'.cs = c /\ job'.copy = status[c] /\ job'.clear = FALSE
    BY <1>1 DEF BeginApply, NoJob
  <2>3. UNCHANGED <<status, stage, up, toArm, lockHeldBy, timer, hold, guards, fire, edit,
                    clearing, pc, mode>>
    BY <1>1 DEF BeginApply
  <2>4. OnePass' /\ ExecutorOwnsLock'
    BY <1>b, <2>1, <2>2, <2>3 DEF LockInv, OnePass, ExecutorOwnsLock
  <2>5. LockCoversWindow' /\ OneInWindow'
    BY <1>b, <2>1, <2>2, <2>3 DEF LockInv, LockCoversWindow, OneInWindow, Window
  <2>6. TimerOwnsLock' /\ LockOwned'
    BY <1>b, <2>1, <2>2, <2>3 DEF LockInv, TimerOwnsLock, OneInWindow, Window, LockOwned
  <2>7. EditsOutsideWindow' /\ JobMatchesRow'
    BY <1>b, <2>1, <2>2, <2>3 DEF LockInv, EditsOutsideWindow, Window, JobMatchesRow
  <2>8. DownIsIdle' /\ ArmingCovers'
    BY <1>b, <2>1, <2>2, <2>3 DEF LockInv, DownIsIdle, ArmingCovers, OneInWindow, Window
  <2> QED
    BY <2>4, <2>5, <2>6, <2>7, <2>8 DEF LockInv
<1>2. CASE GatesRefuse(c)
  <2>1. /\ up = "up" /\ lockHeldBy = None /\ job.cs = c /\ status[c] \notin Window
    BY <1>2 DEF GatesRefuse, LockInv, JobMatchesRow, SnapshotInv, JobShape, Editable, Window
  <2>2. /\ \A d \in Changesets : d # c => status'[d] = status[d]
        /\ status'[c] \notin Window
    BY <1>2, <2>1 DEF GatesRefuse, TypeOK, Window
  <2>3. job'.kind = "idle" /\ job'.cs = None /\ job'.clear = FALSE
    BY <1>2 DEF GatesRefuse, NoJob
  <2>4. UNCHANGED <<stage, up, toArm, lockHeldBy, timer, hold, guards, fire, edit,
                    clearing, pc, mode>>
    BY <1>2 DEF GatesRefuse
  <2>5. OnePass' /\ ExecutorOwnsLock'
    BY <1>b, <2>1, <2>2, <2>3, <2>4 DEF LockInv, OnePass, ExecutorOwnsLock
  <2>6. LockCoversWindow' /\ OneInWindow'
    BY <1>b, <2>1, <2>2, <2>3, <2>4 DEF LockInv, LockCoversWindow, OneInWindow, Window
  <2>7. TimerOwnsLock' /\ LockOwned'
    BY <1>b, <2>1, <2>2, <2>3, <2>4 DEF LockInv, TimerOwnsLock, OneInWindow, Window,
       LockOwned
  <2>8. EditsOutsideWindow' /\ JobMatchesRow'
    BY <1>b, <2>1, <2>2, <2>3, <2>4 DEF LockInv, EditsOutsideWindow, Window, JobMatchesRow
  <2>9. DownIsIdle' /\ ArmingCovers'
    BY <1>b, <2>1, <2>2, <2>3, <2>4 DEF LockInv, DownIsIdle, ArmingCovers, OneInWindow,
       Window
  <2> QED
    BY <2>5, <2>6, <2>7, <2>8, <2>9 DEF LockInv
<1>3. CASE GatesPass(c)
  <2>1. /\ up = "up" /\ lockHeldBy = None /\ job.cs = c
    BY <1>3 DEF GatesPass, LockInv, JobMatchesRow
  <2>2. /\ \A d \in Changesets : d # c => status'[d] = status[d]
        /\ status'[c] = "applying"
    <3>1. Transition(job.copy, "applying") = "applying"
      BY <1>3 DEF GatesPass, SnapshotInv, JobShape, Editable, Transition, AllowedTransitions
    <3> QED
      BY <1>3, <3>1 DEF GatesPass, TypeOK
  <2>3. job'.kind = "idle" /\ job'.cs = None /\ job'.clear = FALSE /\ lockHeldBy' = c
    BY <1>3 DEF GatesPass, NoJob
  <2>4. /\ \A d \in Changesets : d # c => pc'[d] = pc[d]
        /\ pc'[c] = "snapshot"
    BY <1>3 DEF GatesPass, TypeOK
  <2>5. \A d \in Changesets : mode'[d] = "all"
    <3>1. mode' = Set(mode, c, "all")
      BY <1>3, PlainSteps DEF GatesPass, LockInv
    <3> QED
      BY <3>1 DEF LockInv, OnePass, TypeOK
  <2>6. \A d \in Changesets : status[d] \notin Window
    BY <1>b, <2>1 DEF LockInv, LockCoversWindow
  <2>7. UNCHANGED <<stage, up, toArm, timer, hold, guards, fire, edit, clearing>>
    BY <1>3 DEF GatesPass
  <2>8. OnePass' /\ ExecutorOwnsLock'
    BY <1>b, <2>1, <2>2, <2>3, <2>4, <2>5, <2>6, <2>7 DEF LockInv, OnePass, ExecutorOwnsLock
  <2>9. LockCoversWindow' /\ OneInWindow'
    BY <1>b, <2>1, <2>2, <2>3, <2>4, <2>5, <2>6, <2>7 DEF LockInv, LockCoversWindow,
       OneInWindow, Window
  <2>10. TimerOwnsLock' /\ LockOwned'
    BY <1>b, <2>1, <2>2, <2>3, <2>4, <2>5, <2>6, <2>7 DEF LockInv, TimerOwnsLock,
       OneInWindow, Window, LockOwned
  <2>11. EditsOutsideWindow' /\ JobMatchesRow'
    BY <1>b, <2>1, <2>2, <2>3, <2>4, <2>5, <2>6, <2>7 DEF LockInv, EditsOutsideWindow,
       Window, JobMatchesRow
  <2>12. DownIsIdle' /\ ArmingCovers'
    BY <1>b, <2>1, <2>2, <2>3, <2>4, <2>5, <2>6, <2>7 DEF LockInv, DownIsIdle, ArmingCovers,
       OneInWindow, Window
  <2> QED
    BY <2>8, <2>9, <2>10, <2>11, <2>12 DEF LockInv
<1>4. CASE FinishFailed(c)
  <2>1. job.kind = "idle" /\ up = "up" /\ lockHeldBy = c /\ status[c] = "applying"
    BY <1>4 DEF FinishFailed, Unlocked, LockInv, ExecutorOwnsLock
  <2>2. /\ \A d \in Changesets : d # c => status'[d] = status[d]
        /\ status'[c] = "failed"
    <3>1. status' = Set(status, c, "failed")
      BY <1>4, <1>b DEF FinishFailed
    <3> QED
      BY <3>1 DEF TypeOK
  <2>3. job'.kind = "release" /\ job'.cs = c /\ job'.clear = FALSE
    BY <1>4 DEF FinishFailed, NoJob
  <2>4. /\ \A d \in Changesets : d # c => pc'[d] = pc[d]
        /\ pc'[c] = "idle"
    BY <1>4 DEF FinishFailed, TypeOK
  <2>5. guards' = {} /\ UNCHANGED timerVars
    BY <1>4 DEF FinishFailed, DisarmedBy, LockInv, OnePass
  <2>6. UNCHANGED <<stage, up, toArm, lockHeldBy, fire, edit, clearing, mode>>
    BY <1>4 DEF FinishFailed
  <2>7. OnePass' /\ ExecutorOwnsLock'
    BY <1>b, <2>1, <2>2, <2>3, <2>4, <2>5, <2>6 DEF LockInv, OnePass, ExecutorOwnsLock
  <2>8. LockCoversWindow' /\ OneInWindow'
    BY <1>b, <2>1, <2>2, <2>3, <2>4, <2>5, <2>6 DEF LockInv, LockCoversWindow, OneInWindow,
       Window
  <2>9. TimerOwnsLock' /\ LockOwned'
    BY <1>b, <2>1, <2>2, <2>3, <2>4, <2>5, <2>6 DEF LockInv, TimerOwnsLock, OneInWindow,
       Window, LockOwned
  <2>10. EditsOutsideWindow' /\ JobMatchesRow'
    BY <1>b, <2>1, <2>2, <2>3, <2>4, <2>5, <2>6 DEF LockInv, EditsOutsideWindow, Window,
       JobMatchesRow
  <2>11. DownIsIdle' /\ ArmingCovers'
    BY <1>b, <2>1, <2>2, <2>3, <2>4, <2>5, <2>6 DEF LockInv, DownIsIdle, ArmingCovers,
       OneInWindow, Window
  <2> QED
    BY <2>7, <2>8, <2>9, <2>10, <2>11 DEF LockInv
<1>5. CASE FinishAwaiting(c)
  <2>1. job.kind = "idle" /\ up = "up" /\ lockHeldBy = c /\ status[c] = "applying"
    BY <1>5 DEF FinishAwaiting, Unlocked, LockInv, ExecutorOwnsLock
  <2>2. /\ \A d \in Changesets : d # c => status'[d] = status[d] /\ timer'[d] = timer[d]
        /\ status'[c] = "awaiting_confirm"
    <3>1. status' = Set(status, c, "awaiting_confirm") /\ timer' = Set(timer, c, "armed")
      BY <1>5, <1>b DEF FinishAwaiting
    <3> QED
      BY <3>1 DEF TypeOK
  <2>3. /\ \A d \in Changesets : d # c => pc'[d] = pc[d]
        /\ pc'[c] = "idle"
    BY <1>5 DEF FinishAwaiting, TypeOK
  <2>4. UNCHANGED <<stage, up, toArm, job, lockHeldBy, hold, guards, fire, edit, clearing,
                    mode>>
    BY <1>5 DEF FinishAwaiting
  <2>5. OnePass' /\ ExecutorOwnsLock'
    BY <1>b, <2>1, <2>2, <2>3, <2>4 DEF LockInv, OnePass, ExecutorOwnsLock
  <2>6. LockCoversWindow' /\ OneInWindow'
    BY <1>b, <2>1, <2>2, <2>3, <2>4 DEF LockInv, LockCoversWindow, OneInWindow, Window
  <2>7. TimerOwnsLock' /\ LockOwned'
    BY <1>b, <2>1, <2>2, <2>3, <2>4 DEF LockInv, TimerOwnsLock, OneInWindow, Window,
       LockOwned
  <2>8. EditsOutsideWindow' /\ JobMatchesRow'
    BY <1>b, <2>1, <2>2, <2>3, <2>4 DEF LockInv, EditsOutsideWindow, Window, JobMatchesRow
  <2>9. DownIsIdle' /\ ArmingCovers'
    BY <1>b, <2>1, <2>2, <2>3, <2>4 DEF LockInv, DownIsIdle, ArmingCovers, OneInWindow,
       Window
  <2> QED
    BY <2>5, <2>6, <2>7, <2>8, <2>9 DEF LockInv
<1> QED
  BY <1>1, <1>2, <1>3, <1>4, <1>5 DEF ApplyStep

\* A confirm, a rollback and the timer's callback start from the row of the
\* changeset that holds the lock.
LEMMA WindowLock ==
    ASSUME PlainSetting, TypeInv, LockInv, NEW c \in Changesets, WindowStep(c)
    PROVE  LockInv'
<1>b. StoreOk = {TRUE} /\ None \notin Changesets
  BY SettingsAssumption DEF PlainSetting, StoreOk
<1>1. CASE Confirm(c)
  <2>1. /\ job.kind = "idle" /\ up = "up" /\ lockHeldBy = c
        /\ status[c] = "awaiting_confirm" /\ pc[c] = "idle"
    BY <1>1 DEF Confirm, Serving, Unlocked, AwaitsConfirm, LockInv, LockCoversWindow, Window,
       ExecutorOwnsLock
  <2>2. /\ \A d \in Changesets : d # c => status'[d] = status[d]
        /\ status'[c] = "committed"
    <3>1. status' = Set(status, c, "committed")
      BY <1>1, <1>b DEF Confirm
    <3> QED
      BY <3>1 DEF TypeOK
  <2>3. job'.kind = "release" /\ job'.cs = c /\ job'.clear = FALSE
    <3>1. job' = [NoJob EXCEPT !.kind = "release", !.cs = c, !.copy = "committed"]
      BY <1>1, <1>b DEF Confirm
    <3> QED
      BY <3>1 DEF NoJob
  <2>4. guards' = {} /\ \A d \in Changesets : d # c => timer'[d] = timer[d]
    BY <1>1 DEF Confirm, DisarmedBy, StopTimer, LockInv, OnePass, TypeOK
  <2>5. UNCHANGED <<stage, up, toArm, lockHeldBy, hold, fire, edit, clearing, pc, mode>>
    BY <1>1 DEF Confirm
  <2>6. OnePass' /\ ExecutorOwnsLock'
    BY <1>b, <2>1, <2>2, <2>3, <2>4, <2>5 DEF LockInv, OnePass, ExecutorOwnsLock
  <2>7. LockCoversWindow' /\ OneInWindow'
    BY <1>b, <2>1, <2>2, <2>3, <2>4, <2>5 DEF LockInv, LockCoversWindow, OneInWindow, Window
  <2>8. TimerOwnsLock' /\ LockOwned'
    BY <1>b, <2>1, <2>2, <2>3, <2>4, <2>5 DEF LockInv, TimerOwnsLock, OneInWindow, Window,
       LockOwned
  <2>9. EditsOutsideWindow' /\ JobMatchesRow'
    BY <1>b, <2>1, <2>2, <2>3, <2>4, <2>5 DEF LockInv, EditsOutsideWindow, Window,
       JobMatchesRow
  <2>10. DownIsIdle' /\ ArmingCovers'
    BY <1>b, <2>1, <2>2, <2>3, <2>4, <2>5 DEF LockInv, DownIsIdle, ArmingCovers, OneInWindow,
       Window
  <2> QED
    BY <2>6, <2>7, <2>8, <2>9, <2>10 DEF LockInv
<1>2. ASSUME NEW n \in Nodes, CancelNodeTimer(c, n) PROVE LockInv'
  BY <1>2, LockFrame DEF CancelNodeTimer
<1>3. CASE /\ Rollback(c) \/ TimerCallback(c)
           /\ AwaitsConfirm(c)
  <2>1. /\ job.kind = "idle" /\ up # "down" /\ lockHeldBy = c
        /\ status[c] = "awaiting_confirm" /\ pc[c] = "idle"
    BY <1>3 DEF Rollback, TimerCallback, Serving, Unlocked, AwaitsConfirm, LockInv,
       LockCoversWindow, TimerOwnsLock, Window, ExecutorOwnsLock
  <2>2. PICK session \in BOOLEAN : StartRollback(c, status[c], Touches[c], session, FALSE)
    <3>1. CASE Rollback(c)
      BY <3>1 DEF Rollback
    <3>2. CASE TimerCallback(c)
      <4>1. StartRollback(c, status[c], Touches[c], FALSE, FALSE)
        BY <1>3, <3>2 DEF TimerCallback, AwaitsConfirm, Abortable
      <4> QED
        BY <4>1
    <3> QED
      BY <1>3, <3>1, <3>2
  <2>3. /\ job'.kind = "rollback" /\ job'.cs = c /\ job'.copy = "awaiting_confirm"
        /\ job'.clear = FALSE /\ guards' = {} /\ UNCHANGED <<up, toArm, lockHeldBy>>
    BY <2>1, <2>2 DEF StartRollback, DisarmedBy, LockInv, OnePass
  <2>4. \A d \in Changesets : d # c => timer'[d] = timer[d]
    BY <1>3 DEF Rollback, TimerCallback, StopTimer, TypeOK
  <2>5. UNCHANGED <<status, stage, hold, fire, edit, clearing, pc, mode>>
    BY <1>3 DEF Rollback, TimerCallback, AwaitsConfirm, Abortable
  <2>6. OnePass' /\ ExecutorOwnsLock'
    BY <1>b, <2>1, <2>3, <2>4, <2>5 DEF LockInv, OnePass, ExecutorOwnsLock
  <2>7. LockCoversWindow' /\ OneInWindow'
    BY <1>b, <2>1, <2>3, <2>4, <2>5 DEF LockInv, LockCoversWindow, OneInWindow, Window
  <2>8. TimerOwnsLock' /\ LockOwned'
    BY <1>b, <2>1, <2>3, <2>4, <2>5 DEF LockInv, TimerOwnsLock, OneInWindow, Window,
       LockOwned
  <2>9. EditsOutsideWindow' /\ JobMatchesRow'
    BY <1>b, <2>1, <2>3, <2>4, <2>5 DEF LockInv, EditsOutsideWindow, Window, JobMatchesRow
  <2>10. DownIsIdle' /\ ArmingCovers'
    BY <1>b, <2>1, <2>3, <2>4, <2>5 DEF LockInv, DownIsIdle, ArmingCovers, OneInWindow,
       Window
  <2> QED
    BY <2>6, <2>7, <2>8, <2>9, <2>10 DEF LockInv
<1>4. CASE TimerExpires(c) \/ (TimerCallback(c) /\ ~AwaitsConfirm(c))
  <2>1. /\ \A d \in Changesets : d # c => timer'[d] = timer[d]
        /\ timer[c] # "none" \/ timer'[c] = "none"
    BY <1>4 DEF TimerExpires, TimerCallback, TypeOK
  <2>2. UNCHANGED <<status, stage, up, toArm, job, lockHeldBy, hold, guards, fire, edit,
                    clearing, pc, mode>>
    BY <1>4, PlainSteps DEF TimerExpires, TimerCallback, LockInv
  <2>3. OnePass' /\ ExecutorOwnsLock'
    BY <2>1, <2>2 DEF LockInv, OnePass, ExecutorOwnsLock
  <2>4. LockCoversWindow' /\ OneInWindow'
    BY <2>1, <2>2 DEF LockInv, LockCoversWindow, OneInWindow, Window
  <2>5. TimerOwnsLock' /\ LockOwned'
    BY <2>1, <2>2 DEF LockInv, TimerOwnsLock, OneInWindow, Window, LockOwned
  <2>6. EditsOutsideWindow' /\ JobMatchesRow'
    BY <2>1, <2>2 DEF LockInv, EditsOutsideWindow, Window, JobMatchesRow
  <2>7. DownIsIdle' /\ ArmingCovers'
    BY <2>1, <2>2 DEF LockInv, DownIsIdle, ArmingCovers, OneInWindow, Window
  <2> QED
    BY <2>3, <2>4, <2>5, <2>6, <2>7 DEF LockInv
<1> QED
  BY <1>1, <1>2, <1>3, <1>4 DEF WindowStep, Rollback

-----------------------------------------------------------------------------

\* LockInv is an invariant.
LEMMA LockInduction ==
    ASSUME PlainSetting
    PROVE  Spec => []LockInv
<1>1. Init => LockInv
  BY SettingsAssumption DEF Init, LockInv, OnePass, ExecutorOwnsLock, LockCoversWindow,
     EditsOutsideWindow, OneInWindow, JobMatchesRow, DownIsIdle, ArmingCovers, TimerOwnsLock,
     LockOwned, NoJob, Absent, Window
<1>2. TypeInv /\ LockInv /\ [Next]_vars => LockInv'
  <2> SUFFICES ASSUME TypeInv, LockInv, [Next]_vars PROVE LockInv'
    OBVIOUS
  <2>1. CASE UNCHANGED vars
    BY <2>1, LockFrame DEF vars
  <2>2. ASSUME NEW c \in Changesets, EnvironmentStep(c) PROVE LockInv'
    BY <2>2, LockFrame DEF EnvironmentStep, NodeTimerFires, TicketExpires
  <2>3. ASSUME NEW c \in Changesets PROVE ~StagedStep(c) /\ ~FireStep(c)
    BY PlainSteps DEF LockInv
  <2>4. CASE Next
    BY <2>2, <2>3, <2>4, DraftLock, ApplyLock, ExecutorLock, WindowLock, RollbackLock,
       RecoveryLock DEF Next
  <2> QED
    BY <2>1, <2>4
<1> QED
  BY <1>1, <1>2, TypeInduction, PTL DEF Spec

\* While the daemon serves, a changeset in its window holds the single-applier
\* lock, also after a restart: beginApply starts no second window.
THEOREM LockCovers ==
    ASSUME PlainSetting
    PROVE  Spec => []LockCoversWindow
<1>1. LockInv => LockCoversWindow
  BY DEF LockInv
<1> QED
  BY <1>1, LockInduction, PTL

\* The lock is never left behind with a changeset outside its window.
THEOREM LockReleased ==
    ASSUME PlainSetting
    PROVE  Spec => []LockNotLeaked
<1>1. LockInv => LockNotLeaked
  BY DEF LockInv, LockOwned, LockNotLeaked
<1> QED
  BY <1>1, LockInduction, PTL

-----------------------------------------------------------------------------
(* The engine implements SingleWindow. *)

\* Every step moves the row of at most one changeset, along the status graph,
\* and an apply opens its window when no other changeset is in its own.
LEMMA StepRefines ==
    ASSUME PlainSetting, TypeInv, LockInv, Next
    PROVE  SW!Next \/ UNCHANGED status
<1>b. StoreOk = {TRUE} /\ None \notin Changesets
  BY SettingsAssumption DEF PlainSetting, StoreOk
<1>m. ASSUME NEW c \in Changesets, NEW s,
             <<status[c], s>> \in AllowedTransitions, s # "applying",
             status' = Set(status, c, s)
      PROVE  SW!Next
  <2>1. s \in SW!Status \ {"applying"} /\ <<status[c], s>> \in SW!AllowedTransitions
    BY <1>m DEF AllowedTransitions, SW!AllowedTransitions, SW!Status
  <2>2. SW!Move(c)
    BY <1>m, <2>1 DEF SW!Move
  <2> QED
    BY <2>2 DEF SW!Next
<1>1. ASSUME NEW c \in Changesets, DraftStep(c) PROVE SW!Next \/ UNCHANGED status
  <2>1. CASE Create(c)
    <3>1. SW!Insert(c)
      BY <2>1 DEF Create, SW!Insert, SW!Absent, Absent
    <3> QED
      BY <3>1 DEF SW!Next
  <2>2. CASE EditPersist(c)
    <3>1. status' = Set(status, c, edit[c]) /\ edit[c] # Absent
      BY <2>2, <1>b DEF EditPersist
    <3>2. CASE edit[c] = status[c]
      BY <3>1, <3>2 DEF TypeOK
    <3>3. CASE <<status[c], edit[c]>> \in AllowedTransitions
      <4>1. edit[c] # "applying"
        BY <3>1 DEF SnapshotInv, EditShape
      <4> QED
        BY <3>1, <3>3, <4>1, <1>m
    <3> QED
      BY <3>1, <3>2, <3>3 DEF LockInv, EditsOutsideWindow
  <2>3. CASE \E s : EditRead(c, s)
    BY <2>3 DEF EditRead
  <2> QED
    BY <1>1, <2>1, <2>2, <2>3 DEF DraftStep, Approve, UpdateDraft, Discard, Validate
<1>2. ASSUME NEW c \in Changesets, ApplyStep(c) PROVE SW!Next \/ UNCHANGED status
  <2>1. CASE BeginApply(c)
    BY <2>1 DEF BeginApply
  <2>2. CASE GatesRefuse(c)
    <3>1. status[c] \in {"draft", "validated"}
      BY <2>2 DEF GatesRefuse, LockInv, JobMatchesRow, SnapshotInv, JobShape, Editable
    <3>2. CASE status[c] = "draft"
      BY <2>2, <3>2 DEF GatesRefuse, TypeOK
    <3>3. CASE status[c] = "validated"
      BY <2>2, <3>3, <1>m DEF GatesRefuse, AllowedTransitions
    <3> QED
      BY <3>1, <3>2, <3>3
  <2>3. CASE GatesPass(c)
    <3>1. status[c] = job.copy /\ Editable(job.copy) /\ up = "up" /\ lockHeldBy = None
      BY <2>3 DEF GatesPass, LockInv, JobMatchesRow, SnapshotInv, JobShape
    <3>2. \A d \in Changesets : status[d] \notin Window
      BY <1>b, <3>1 DEF LockInv, LockCoversWindow
    <3>3. status' = Set(status, c, "applying")
      BY <2>3, <3>1 DEF GatesPass, Transition, AllowedTransitions, Editable
    <3>4. SW!Open(c)
      BY <3>1, <3>2, <3>3 DEF SW!Open, SW!Editable, SW!Window, Editable, Window
    <3> QED
      BY <3>4 DEF SW!Next
  <2>4. CASE FinishFailed(c)
    <3>0. <<"applying", "failed">> \in AllowedTransitions
      BY DEF AllowedTransitions
    <3>1. status[c] = "applying" /\ status' = Set(status, c, "failed")
      BY <2>4, <1>b DEF FinishFailed, LockInv, ExecutorOwnsLock
    <3> QED
      BY <3>0, <3>1, <1>m
  <2>5. CASE FinishAwaiting(c)
    <3>0. <<"applying", "awaiting_confirm">> \in AllowedTransitions
      BY DEF AllowedTransitions
    <3>1. status[c] = "applying" /\ status' = Set(status, c, "awaiting_confirm")
      BY <2>5, <1>b DEF FinishAwaiting, LockInv, ExecutorOwnsLock
    <3> QED
      BY <3>0, <3>1, <1>m
  <2> QED
    BY <1>2, <2>1, <2>2, <2>3, <2>4, <2>5 DEF ApplyStep
<1>3. ASSUME NEW c \in Changesets, WindowStep(c) PROVE SW!Next \/ UNCHANGED status
  <2>1. CASE Confirm(c)
    <3>0. <<"awaiting_confirm", "committed">> \in AllowedTransitions
      BY DEF AllowedTransitions
    <3>1. status[c] = "awaiting_confirm" /\ status' = Set(status, c, "committed")
      BY <2>1, <1>b DEF Confirm, AwaitsConfirm
    <3> QED
      BY <3>0, <3>1, <1>m
  <2>2. CASE Rollback(c) \/ TimerExpires(c) \/ \E n \in Nodes : CancelNodeTimer(c, n)
    BY <2>2 DEF Rollback, TimerExpires, CancelNodeTimer
  <2>3. CASE TimerCallback(c)
    BY <2>3, PlainSteps DEF TimerCallback, LockInv
  <2> QED
    BY <1>3, <2>1, <2>2, <2>3 DEF WindowStep
<1>4. ASSUME NEW c \in Changesets, ExecutorStep(c) PROVE UNCHANGED status
  BY <1>4 DEF ExecutorStep, CaptureSnapshot, SealTicket, StageFile, ArmNode, Reload,
     ApplyScope, Undo, RunDone, UndoDone, ExecFrame
<1>5. ASSUME NEW c \in Changesets, EnvironmentStep(c) PROVE UNCHANGED status
  BY <1>5 DEF EnvironmentStep, NodeTimerFires, TicketExpires
<1>6. CASE RollbackStep
  <2>1. CASE RestoreOne \/ Release
    BY <2>1 DEF RestoreOne, Release
  <2>2. CASE RollbackPersist
    <3>0. \A s \in {"failed", "rolled_back"} :
              s # "applying" /\ <<"awaiting_confirm", s>> \in AllowedTransitions
      BY DEF AllowedTransitions
    <3>1. /\ job.cs \in Changesets
          /\ status[job.cs] = "awaiting_confirm" /\ job.copy = "awaiting_confirm"
      BY <2>2 DEF RollbackPersist, SnapshotInv, JobShape, LockInv, JobMatchesRow
    <3>2. PICK s \in {"failed", "rolled_back"} : status' = Set(status, job.cs, s)
      BY <2>2, <3>1, <1>b DEF RollbackPersist, Transition, RollbackTarget, AllowedTransitions
    <3> QED
      BY <3>0, <3>1, <3>2, <1>m
  <2>3. CASE RecoverPersist
    <3>0. <<"applying", "failed">> \in AllowedTransitions
      BY DEF AllowedTransitions
    <3>1. /\ job.cs \in Changesets
          /\ status[job.cs] = "applying" /\ job.copy = "applying"
      BY <2>3 DEF RecoverPersist, SnapshotInv, JobShape, LockInv, JobMatchesRow
    <3>2. status' = Set(status, job.cs, "failed")
      BY <2>3, <3>1, <1>b DEF RecoverPersist, Transition, AllowedTransitions
    <3> QED
      BY <3>0, <3>1, <3>2, <1>m
  <2> QED
    BY <1>6, <2>1, <2>2, <2>3 DEF RollbackStep
<1>7. CASE RecoveryStep
  BY <1>7 DEF RecoveryStep, Crash, Restart, ArmAwaiting, RecoverInterrupted, RecoverHold,
     StartupDone
<1>8. ASSUME NEW c \in Changesets PROVE ~StagedStep(c) /\ ~FireStep(c)
  BY PlainSteps DEF LockInv
<1> QED
  BY <1>1, <1>2, <1>3, <1>4, <1>5, <1>6, <1>7, <1>8 DEF Next

\* Seen from the changesets table the engine implements SingleWindow: legal
\* edges only, and one changeset at a time in its window, over crashes and
\* restarts.
THEOREM ImplementsSingleWindow ==
    ASSUME PlainSetting
    PROVE  Spec => OneWindowAtATime
<1>1. Init => SW!Init
  BY DEF Init, SW!Init, SW!Absent, Absent
<1>2. TypeInv /\ LockInv /\ [Next]_vars => [SW!Next]_status
  BY StepRefines DEF vars
<1> QED
  BY <1>1, <1>2, TypeInduction, LockInduction, PTL DEF Spec, OneWindowAtATime, SW!Spec
=============================================================================
