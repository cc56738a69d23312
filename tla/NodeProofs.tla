----------------------------- MODULE NodeProofs -----------------------------
(***************************************************************************)
(* Where the configuration of a changeset is, and what protects it, for    *)
(* any set of changesets, nodes and scopes, any number of crashes and      *)
(* clients that serialise their calls for a changeset: a held canary has   *)
(* touched its canary nodes only, a node that runs an unconfirmed file has *)
(* its own timer, and a changeset reported as rolled back left nothing     *)
(* behind. The invariants are those of EngineInvariants.                   *)
(*                                                                         *)
(* The first part says what any step may do to the resources, the node     *)
(* timers, the snapshots and the executors; the theorems rest on that.     *)
(***************************************************************************)
EXTENDS WindowProofs

USE DEF TypeInv, Set, storeVars, worldVars, bootVars, lockVars, timerVars, callVars, execVars

-----------------------------------------------------------------------------
(* What a step may do to the resources. *)

RestoredFrom(r, v) == \E e \in Changesets : HasSnapshot(e) /\ v = snap[e][r]

\* A resource keeps its configuration, goes back to a snapshot's, gets the
\* staged file by a reload, or what its scope step writes.
LiveMove(r) ==
    \/ live'[r] = live[r]
    \/ RestoredFrom(r, live'[r])
    \/ \E d \in Changesets :
           /\ r \in Nodes
           /\ pc[d] = "run"
           /\ <<"reload", r>> \in todo[d]
           /\ <<"stage", r>> \notin todo[d]
           /\ <<"arm", r>> \notin todo[d]
           /\ live'[r] = staged[r]
    \/ \E d \in Changesets : pc[d] = "run" /\ <<"apply", r>> \in todo[d] /\ live'[r] = d

\* A staged file stays, goes, is one a restore could not move into place, or
\* is staged by an executor.
StagedMove(n) ==
    \/ staged'[n] \in {staged[n], None}
    \/ RestoredFrom(n, staged'[n])
    \/ \E d \in Changesets : pc[d] = "run" /\ <<"stage", n>> \in todo[d] /\ staged'[n] = d

\* A snapshot is taken of what the plan touches, and kept.
SnapMove(c) ==
    \/ snap'[c] = snap[c]
    \/ /\ pc[c] = "snapshot"
       /\ pc'[c] = "seal"
       /\ snap'[c] = [r \in Resource |-> IF r \in Touches[c] THEN live[r] ELSE Base]

\* A node timer is armed by the executor, cancelled by a confirm, or fires.
TimerMove(c, n) ==
    \/ ntimer'[c][n] = ntimer[c][n]
    \/ pc[c] = "run" /\ <<"arm", n>> \in todo[c] /\ ntimer'[c][n] = "armed"
    \/ ntimer[c][n] = "armed" /\ ntimer'[c][n] \in {"cancelled", "rollback_failed"}
    \/ /\ ntimer[c][n] = "armed"
       /\ ntimer'[c][n] = "rolled_back"
       /\ live'[n] = snap[c][n]
       /\ staged'[n] = None

\* Steps under way.
TodoMove(c) ==
    /\ todo'[c] \subseteq todo[c]
    /\ \A n \in Nodes :
           /\ <<"stage", n>> \in todo[c] \ todo'[c] =>
                  staged'[n] = c /\ todo'[c] = todo[c] \ {<<"stage", n>>}
           /\ <<"arm", n>> \in todo[c] \ todo'[c] =>
                  <<"stage", n>> \notin todo[c] /\ ntimer'[c][n] = "armed"

\* An executor starts, captures its snapshot, seals its ticket, runs, is
\* started again by a promotion, and ends.
ExecMove(c) ==
    \/ /\ UNCHANGED <<pc[c], mode[c]>>
       /\ stage'[c] \in {stage[c], "none"}
       /\ pc[c] = "run" => TodoMove(c)
    \/ /\ InGates(c)
       /\ pc'[c] = "snapshot"
       /\ UNCHANGED stage[c]
       /\ mode'[c] = "canary" => Touches[c] \subseteq Nodes
       /\ mode'[c] \in {"all", "canary"}
    \/ /\ pc[c] = "snapshot"
       /\ pc'[c] \in {"seal", "fail"}
       /\ UNCHANGED <<stage[c], mode[c]>>
    \/ /\ pc[c] = "seal"
       /\ pc'[c] = "run"
       /\ todo'[c] = StepsOn(StageScope(c, mode[c]))
       /\ UNCHANGED <<stage[c], mode[c]>>
    \/ /\ Paused(c)
       /\ stage'[c] = "promoting"
       /\ mode'[c] = "rest"
       /\ \/ pc'[c] = "run" /\ todo'[c] = StepsOn(StageScope(c, "rest"))
          \/ pc'[c] = "clearFail"
    \/ /\ pc[c] # "idle"
       /\ pc'[c] \notin {"snapshot", "seal", "run"}
       /\ pc'[c] = "holding" => mode[c] = "canary"
       /\ \/ stage'[c] \in {stage[c], "none"}
          \/ stage'[c] = "canary_hold" /\ pc[c] = "holding" /\ pc'[c] = "idle"
       /\ UNCHANGED mode[c]
    \/ /\ pc'[c] = "idle"
       /\ mode'[c] = "all"
       /\ UNCHANGED stage[c]

-----------------------------------------------------------------------------
(* Every step does only that. *)

\* The resources and the snapshots belong to the executor, the restores and
\* the node timers.
LEMMA WorldStill ==
    ASSUME TypeInv, NEW c \in Changesets, StepOf(c), ~ExecutorStep(c), ~RestoreOne,
           \A n \in Nodes : ~NodeTimerFires(c, n)
    PROVE  UNCHANGED <<live, staged, snap>>
<1>1. CASE DraftStep(c) \/ ApplyStep(c)
  BY <1>1 DEF DraftStep, Create, Approve, UpdateDraft, Discard, Validate, EditRead, EditPersist,
     ApplyStep, BeginApply, GatesRefuse, GatesPass, FinishFailed, FinishAwaiting
<1>2. CASE EnvironmentStep(c)
  BY <1>2 DEF EnvironmentStep, TicketExpires
<1>3. CASE StagedStep(c)
  <2>1. CASE HoldAfterCanary(c)
    BY <2>1 DEF HoldAfterCanary, StartRollback
  <2>2. CASE ContinueStagedApply(c) \/ AbortStagedApply(c) \/ ResolveHold(c)
    BY <2>2 DEF ContinueStagedApply, AbortStagedApply, ResolveHold, Claim, Abort, StartRollback
  <2>3. CASE HoldExpires(c) \/ OnHoldExpired(c) \/ ClearStage(c)
    BY <2>3 DEF HoldExpires, OnHoldExpired, ClearStage
  <2> QED
    BY <1>3, <2>1, <2>2, <2>3 DEF StagedStep
<1>4. CASE WindowStep(c)
  <2>1. CASE TimerCallback(c)
    BY <2>1 DEF TimerCallback, Abort, StartRollback
  <2> QED
    BY <1>4, <2>1 DEF WindowStep, Confirm, CancelNodeTimer, Rollback, StartRollback, TimerExpires
<1>5. CASE FireStep(c)
  BY <1>5 DEF FireStep, ObserveFinding, FireRead, RecordTriggerGet, RecordTriggerPut,
     FireRollback, FireFrame, Abort, StartRollback
<1>6. CASE RollbackStep
  BY <1>6 DEF RollbackStep, RollbackPersist, RecoverPersist, Release
<1>7. CASE ArmAwaiting(c) \/ RecoverInterrupted(c) \/ RecoverHold(c)
  BY <1>7 DEF ArmAwaiting, RecoverInterrupted, RecoverHold
<1> QED
  BY <1>1, <1>2, <1>3, <1>4, <1>5, <1>6, <1>7 DEF StepOf

\* A restore to the snapshot of e moves one resource to it.
LEMMA RestoredMoves ==
    ASSUME TypeInv, NEW e \in Changesets, HasSnapshot(e), NEW r \in Resource, NEW o,
           \/ r \in Nodes /\ RestoredNode(r, snap[e][r], o)
           \/ RestoredScope(r, snap[e][r], o)
    PROVE  (\A s \in Resource : LiveMove(s)) /\ (\A n \in Nodes : StagedMove(n))
<1>1. \A s \in Resource : live'[s] = live[s] \/ (s = r /\ live'[s] = snap[e][r])
  BY DEF RestoredNode, RestoredScope, TypeOK
<1>2. \A n \in Nodes : staged'[n] \in {staged[n], None} \/ (n = r /\ staged'[n] = snap[e][r])
  <2>1. CASE r \in Nodes /\ RestoredNode(r, snap[e][r], o)
    <3>1. staged' = staged \/ staged' = Set(staged, r, None) \/ staged' = Set(staged, r, snap[e][r])
      BY <2>1 DEF RestoredNode
    <3> QED
      BY <3>1 DEF TypeOK
  <2>2. CASE RestoredScope(r, snap[e][r], o)
    BY <2>2 DEF RestoredScope
  <2> QED
    BY <2>1, <2>2
<1> QED
  BY <1>1, <1>2 DEF LiveMove, StagedMove, RestoredFrom

\* The executor's own steps.
LEMMA ExecutorMoves ==
    ASSUME TypeInv, NEW c \in Changesets, ExecutorStep(c)
    PROVE  (\A s \in Resource : LiveMove(s)) /\ (\A n \in Nodes : StagedMove(n))
<1>1. CASE CaptureSnapshot(c) \/ SealTicket(c) \/ RunDone(c) \/ UndoDone(c)
  <2>1. UNCHANGED <<live, staged>>
    BY <1>1 DEF CaptureSnapshot, SealTicket, RunDone, UndoDone
  <2> QED
    BY <2>1 DEF LiveMove, StagedMove
<1>2. ASSUME NEW n \in Nodes, StageFile(c, n)
      PROVE  (\A s \in Resource : LiveMove(s)) /\ (\A m \in Nodes : StagedMove(m))
  <2>1. /\ pc[c] = "run" /\ <<"stage", n>> \in todo[c] /\ UNCHANGED live
        /\ staged' = staged \/ staged' = Set(staged, n, c)
    BY <1>2 DEF StageFile, Running
  <2>2. \A s \in Resource : LiveMove(s)
    BY <2>1 DEF LiveMove
  <2>3. \A m \in Nodes : StagedMove(m)
    BY <2>1 DEF StagedMove, TypeOK
  <2> QED
    BY <2>2, <2>3
<1>3. ASSUME NEW n \in Nodes, ArmNode(c, n)
      PROVE  (\A s \in Resource : LiveMove(s)) /\ (\A m \in Nodes : StagedMove(m))
  <2>1. UNCHANGED <<live, staged>>
    BY <1>3 DEF ArmNode
  <2> QED
    BY <2>1 DEF LiveMove, StagedMove
<1>4. ASSUME NEW n \in Nodes, Reload(c, n)
      PROVE  (\A s \in Resource : LiveMove(s)) /\ (\A m \in Nodes : StagedMove(m))
  <2>1. /\ pc[c] = "run" /\ <<"reload", n>> \in todo[c]
        /\ <<"stage", n>> \notin todo[c] /\ <<"arm", n>> \notin todo[c]
    BY <1>4 DEF Reload, Running, ArmedFirst
  <2>2. /\ live' = live \/ live' = Set(live, n, staged[n])
        /\ staged' = staged \/ staged' = Set(staged, n, None)
    BY <1>4 DEF Reload
  <2>3. \A s \in Resource : LiveMove(s)
    <3>1. \A s \in Resource : live'[s] = live[s] \/ (s = n /\ live'[s] = staged[n])
      BY <2>2 DEF TypeOK
    <3> QED
      BY <2>1, <3>1 DEF LiveMove
  <2>4. \A m \in Nodes : StagedMove(m)
    BY <2>2 DEF StagedMove, TypeOK
  <2> QED
    BY <2>3, <2>4
<1>5. ASSUME NEW r \in Resource, ApplyScope(c, r)
      PROVE  (\A s \in Resource : LiveMove(s)) /\ (\A m \in Nodes : StagedMove(m))
  <2>1. /\ pc[c] = "run" /\ <<"apply", r>> \in todo[c] /\ UNCHANGED staged
        /\ live' = live \/ live' = Set(live, r, c)
    BY <1>5 DEF ApplyScope, Running
  <2> QED
    BY <2>1 DEF LiveMove, StagedMove, TypeOK
<1>6. ASSUME NEW r \in Resource, Undo(c, r)
      PROVE  (\A s \in Resource : LiveMove(s)) /\ (\A m \in Nodes : StagedMove(m))
  <2>1. HasSnapshot(c)
    BY <1>6 DEF Undo, SnapshotInv, ExecutorHasSnapshot
  <2>2. CASE r \in Nodes /\ r \in okSteps[c]
    BY <1>6, <2>1, <2>2, RestoredMoves DEF Undo, UndoNode
  <2>3. CASE r \in Nodes /\ r \notin okSteps[c]
    <3>1. UNCHANGED live /\ (staged' = Set(staged, r, None) \/ staged' = Set(staged, r, staged[r]))
      BY <1>6, <2>3 DEF Undo, UndoNode
    <3> QED
      BY <3>1 DEF LiveMove, StagedMove, TypeOK
  <2>4. CASE r \notin Nodes
    BY <1>6, <2>1, <2>4, RestoredMoves DEF Undo
  <2> QED
    BY <2>2, <2>3, <2>4
<1> QED
  BY <1>1, <1>2, <1>3, <1>4, <1>5, <1>6 DEF ExecutorStep

\* What a step does to the resources.
LEMMA WorldMoves ==
    ASSUME TypeInv, [Next]_vars
    PROVE  (\A s \in Resource : LiveMove(s)) /\ (\A n \in Nodes : StagedMove(n))
<1>1. ASSUME NEW c \in Changesets, StepOf(c)
      PROVE  (\A s \in Resource : LiveMove(s)) /\ (\A n \in Nodes : StagedMove(n))
  <2>1. ASSUME NEW n \in Nodes, NodeTimerFires(c, n)
        PROVE  (\A s \in Resource : LiveMove(s)) /\ (\A m \in Nodes : StagedMove(m))
    <3>1. HasSnapshot(c) /\ n \in Resource
      BY <2>1 DEF NodeTimerFires, SnapshotInv, TimerHasSnapshot, Resource
    <3> QED
      BY <2>1, <3>1, RestoredMoves DEF NodeTimerFires
  <2>2. CASE RestoreOne
    <3>1. PICK r \in job.todo : IF r \in Nodes THEN RestoreNode(r) ELSE RestoreScope(r)
      BY <2>2 DEF RestoreOne
    <3>2. job.cs \in Changesets /\ HasSnapshot(job.cs) /\ r \in Resource
      BY <2>2, <3>1 DEF RestoreOne, SnapshotInv, JobShape, TypeOK, JobType
    <3>3. CASE r \in Nodes
      BY <3>1, <3>2, <3>3, RestoredMoves DEF RestoreNode
    <3>4. CASE r \notin Nodes
      BY <3>1, <3>2, <3>4, RestoredMoves DEF RestoreScope
    <3> QED
      BY <3>3, <3>4
  <2>3. CASE UNCHANGED <<live, staged>>
    BY <2>3 DEF LiveMove, StagedMove
  <2> QED
    BY <1>1, <2>1, <2>2, <2>3, ExecutorMoves, WorldStill
<1>2. CASE Crash \/ Restart \/ StartupDone \/ UNCHANGED vars
  <2>1. UNCHANGED <<live, staged>>
    BY <1>2 DEF Crash, Restart, StartupDone, vars
  <2> QED
    BY <2>1 DEF LiveMove, StagedMove
<1> QED
  BY <1>1, <1>2, StepCases

\* What a step does to a snapshot.
LEMMA SnapMoves ==
    ASSUME TypeInv, [Next]_vars, NEW c \in Changesets
    PROVE  SnapMove(c)
<1>1. ASSUME NEW d \in Changesets, StepOf(d) PROVE SnapMove(c)
  <2>1. CASE d # c
    BY <1>1, <2>1, Elsewhere DEF Still, SnapMove
  <2>2. CASE CaptureSnapshot(c)
    BY <2>2 DEF CaptureSnapshot, SnapMove, TypeOK
  <2>3. CASE UNCHANGED snap
    BY <2>3 DEF SnapMove
  <2>4. CASE ExecutorStep(c) /\ ~CaptureSnapshot(c)
    BY <2>3, <2>4 DEF ExecutorStep, SealTicket, StageFile, ArmNode, Reload, ApplyScope, Undo,
       RunDone, UndoDone, ExecFrame
  <2> QED
    BY <1>1, <2>1, <2>2, <2>3, <2>4, WorldStill DEF RestoreOne, NodeTimerFires
<1>2. CASE Crash \/ Restart \/ StartupDone \/ UNCHANGED vars
  BY <1>2 DEF Crash, Restart, StartupDone, vars, SnapMove
<1> QED
  BY <1>1, <1>2, StepCases

\* The node timers belong to the executor, the fan-out of a confirm, and the
\* nodes.
LEMMA TimersStill ==
    ASSUME TypeInv, NEW c \in Changesets, StepOf(c),
           \A n \in Nodes : ~ArmNode(c, n) /\ ~CancelNodeTimer(c, n) /\ ~NodeTimerFires(c, n)
    PROVE  UNCHANGED ntimer
<1>1. CASE DraftStep(c) \/ ApplyStep(c)
  BY <1>1 DEF DraftStep, Create, Approve, UpdateDraft, Discard, Validate, EditRead, EditPersist,
     ApplyStep, BeginApply, GatesRefuse, GatesPass, FinishFailed, FinishAwaiting
<1>2. CASE EnvironmentStep(c) \/ ExecutorStep(c)
  BY <1>2 DEF EnvironmentStep, TicketExpires, ExecutorStep, CaptureSnapshot, SealTicket, StageFile,
     Reload, ApplyScope, Undo, RunDone, UndoDone
<1>3. CASE StagedStep(c)
  <2>1. CASE HoldAfterCanary(c)
    BY <2>1 DEF HoldAfterCanary, StartRollback
  <2>2. CASE ContinueStagedApply(c) \/ AbortStagedApply(c) \/ ResolveHold(c)
    BY <2>2 DEF ContinueStagedApply, AbortStagedApply, ResolveHold, Claim, Abort, StartRollback
  <2>3. CASE HoldExpires(c) \/ OnHoldExpired(c) \/ ClearStage(c)
    BY <2>3 DEF HoldExpires, OnHoldExpired, ClearStage
  <2> QED
    BY <1>3, <2>1, <2>2, <2>3 DEF StagedStep
<1>4. CASE WindowStep(c)
  <2>1. CASE TimerCallback(c)
    BY <2>1 DEF TimerCallback, Abort, StartRollback
  <2> QED
    BY <1>4, <2>1 DEF WindowStep, Confirm, Rollback, StartRollback, TimerExpires
<1>5. CASE FireStep(c)
  BY <1>5 DEF FireStep, ObserveFinding, FireRead, RecordTriggerGet, RecordTriggerPut,
     FireRollback, FireFrame, Abort, StartRollback
<1>6. CASE RollbackStep
  BY <1>6 DEF RollbackStep, RestoreOne, RollbackPersist, RecoverPersist, Release
<1>7. CASE ArmAwaiting(c) \/ RecoverInterrupted(c) \/ RecoverHold(c)
  BY <1>7 DEF ArmAwaiting, RecoverInterrupted, RecoverHold
<1> QED
  BY <1>1, <1>2, <1>3, <1>4, <1>5, <1>6, <1>7 DEF StepOf

\* What a step does to a node timer.
LEMMA TimerMoves ==
    ASSUME TypeInv, [Next]_vars, NEW c \in Changesets, NEW n \in Nodes
    PROVE  TimerMove(c, n)
<1>0. "armed" \in TimerState /\ "cancelled" \in TimerState
  BY DEF TimerState
<1>1. ASSUME NEW d \in Changesets, StepOf(d) PROVE TimerMove(c, n)
  <2>1. CASE d # c
    BY <1>1, <2>1, Elsewhere DEF Still, TimerMove
  <2>2. ASSUME NEW m \in Nodes, ArmNode(c, m) PROVE TimerMove(c, n)
    <3>1. /\ pc[c] = "run" /\ <<"arm", m>> \in todo[c]
          /\ ntimer' = ntimer \/ ntimer' = [ntimer EXCEPT ![c][m] = "armed"]
      BY <2>2 DEF ArmNode, Running
    <3>2. CASE ntimer' = [ntimer EXCEPT ![c][m] = "armed"]
      BY <3>1, <3>2, <1>0, NodeTimerTypes DEF TimerMove
    <3> QED
      BY <3>1, <3>2 DEF TimerMove
  <2>3. ASSUME NEW m \in Nodes, CancelNodeTimer(c, m) PROVE TimerMove(c, n)
    <3>1. CASE ntimer[c][m] = "armed" /\ ntimer' = [ntimer EXCEPT ![c][m] = "cancelled"]
      BY <3>1, <1>0, NodeTimerTypes DEF TimerMove
    <3> QED
      BY <2>3, <3>1 DEF CancelNodeTimer, TimerMove
  <2>4. ASSUME NEW m \in Nodes, NodeTimerFires(c, m) PROVE TimerMove(c, n)
    <3>1. ntimer[c][m] = "armed" /\ m \in Resource
      BY <2>4 DEF NodeTimerFires, Resource
    <3>2. PICK o \in RestoreOutcome \ {"lost"} :
              /\ RestoredNode(m, snap[c][m], o)
              /\ ntimer' = [ntimer EXCEPT ![c][m] = IF o = "ok" THEN "rolled_back"
                                                    ELSE "rollback_failed"]
      BY <2>4 DEF NodeTimerFires
    <3>3. CASE o = "ok"
      <4>1. "rolled_back" \in TimerState /\ ntimer' = [ntimer EXCEPT ![c][m] = "rolled_back"]
        BY <3>2, <3>3 DEF TimerState
      <4>2. live'[m] = snap[c][m] /\ staged'[m] = None
        BY <3>1, <3>2, <3>3 DEF RestoredNode, TypeOK
      <4>3. /\ \A k \in Nodes : k # m => ntimer'[c][k] = ntimer[c][k]
            /\ ntimer'[c][m] = "rolled_back"
        BY <4>1, NodeTimerTypes
      <4> QED
        BY <3>1, <4>2, <4>3 DEF TimerMove
    <3>4. CASE o # "ok"
      <4>1. /\ "rollback_failed" \in TimerState
            /\ ntimer' = [ntimer EXCEPT ![c][m] = "rollback_failed"]
        BY <3>2, <3>4 DEF TimerState
      <4> QED
        BY <3>1, <4>1, NodeTimerTypes DEF TimerMove
    <3> QED
      BY <3>3, <3>4
  <2>5. CASE UNCHANGED ntimer
    BY <2>5 DEF TimerMove
  <2> QED
    BY <1>1, <2>1, <2>2, <2>3, <2>4, <2>5, TimersStill
<1>2. CASE Crash \/ Restart \/ StartupDone \/ UNCHANGED vars
  BY <1>2 DEF Crash, Restart, StartupDone, vars, TimerMove
<1> QED
  BY <1>1, <1>2, StepCases

\* A step of an executor, done or failed.
LEMMA StepMoves ==
    ASSUME TypeInv, NEW c \in Changesets, NEW k \in {"stage", "arm", "reload", "apply"},
           NEW r \in Resource, Running(c), <<k, r>> \in todo[c],
           StepDone(c, <<k, r>>) \/ StepFailed(c), UNCHANGED <<stage, mode>>,
           StepDone(c, <<k, r>>) /\ k = "stage" => staged'[r] = c,
           StepDone(c, <<k, r>>) /\ k = "arm" =>
               <<"stage", r>> \notin todo[c] /\ ntimer'[c][r] = "armed"
    PROVE  ExecMove(c)
<1>1. CASE StepFailed(c)
  <2>1. pc[c] = "run" /\ pc'[c] = "undo"
    BY <1>1 DEF StepFailed, Running, TypeOK
  <2> QED
    BY <2>1 DEF ExecMove
<1>2. CASE StepDone(c, <<k, r>>)
  <2>1. todo'[c] = todo[c] \ {<<k, r>>} /\ UNCHANGED pc
    BY <1>2 DEF StepDone, TypeOK
  <2>2. TodoMove(c)
    BY <1>2, <2>1 DEF TodoMove
  <2> QED
    BY <2>1, <2>2 DEF ExecMove
<1> QED
  BY <1>1, <1>2

\* A step that leaves the executor alone.
LEMMA ExecStill ==
    ASSUME NEW c, UNCHANGED <<pc[c], mode[c], todo[c]>>, stage'[c] \in {stage[c], "none"}
    PROVE  ExecMove(c)
BY DEF ExecMove, TodoMove

\* The apply starts and ends an executor.
LEMMA ApplyMoves ==
    ASSUME TypeInv, NEW c \in Changesets, ApplyStep(c)
    PROVE  ExecMove(c)
<1>1. CASE BeginApply(c) \/ GatesRefuse(c)
  BY <1>1, ExecStill DEF BeginApply, GatesRefuse
<1>2. CASE GatesPass(c)
  <2>1. InGates(c) /\ pc'[c] = "snapshot" /\ UNCHANGED stage
    BY <1>2 DEF GatesPass, InGates, TypeOK
  <2>2. PICK m \in {"all"} \cup (IF CanaryAllowed(c) THEN {"canary"} ELSE {}) :
            mode' = Set(mode, c, m)
    BY <1>2 DEF GatesPass
  <2>3. /\ mode'[c] \in {"all", "canary"}
        /\ mode'[c] = "canary" => Touches[c] \subseteq Nodes
    BY <2>2 DEF TypeOK, CanaryAllowed
  <2> QED
    BY <2>1, <2>3 DEF ExecMove
<1>3. CASE FinishFailed(c) \/ FinishAwaiting(c)
  <2>1. pc[c] # "idle" /\ pc'[c] = "idle" /\ UNCHANGED <<stage, mode>>
    BY <1>3 DEF FinishFailed, FinishAwaiting, TypeOK
  <2> QED
    BY <2>1 DEF ExecMove
<1> QED
  BY <1>1, <1>2, <1>3 DEF ApplyStep

\* The executor runs.
LEMMA RunMoves ==
    ASSUME TypeInv, NEW c \in Changesets, ExecutorStep(c)
    PROVE  ExecMove(c)
<1>0. Nodes \subseteq Resource
  BY DEF Resource
<1>1. CASE CaptureSnapshot(c)
  <2>1. /\ pc[c] = "snapshot" /\ pc'[c] \in {"seal", "fail"} /\ UNCHANGED <<stage, mode>>
    BY <1>1 DEF CaptureSnapshot, TypeOK
  <2> QED
    BY <2>1 DEF ExecMove
<1>2. CASE SealTicket(c)
  <2>1. /\ pc[c] = "seal" /\ pc'[c] = "run" /\ UNCHANGED <<stage, mode>>
        /\ todo'[c] = StepsOn(StageScope(c, mode[c]))
    BY <1>2 DEF SealTicket, TypeOK
  <2> QED
    BY <2>1 DEF ExecMove
<1>3. ASSUME NEW n \in Nodes, StageFile(c, n) PROVE ExecMove(c)
  <2>1. CASE staged' = Set(staged, n, c) /\ StepDone(c, <<"stage", n>>)
    <3>1. staged'[n] = c
      BY <2>1 DEF TypeOK
    <3> QED
      BY <1>0, <1>3, <2>1, <3>1, StepMoves DEF StageFile, ExecFrame
  <2>2. CASE StepFailed(c) /\ UNCHANGED staged
    <3>1. pc[c] = "run" /\ pc'[c] = "undo" /\ UNCHANGED <<stage, mode>>
      BY <1>3, <2>2 DEF StageFile, StepFailed, Running, TypeOK, ExecFrame
    <3> QED
      BY <3>1 DEF ExecMove
  <2> QED
    BY <1>3, <2>1, <2>2 DEF StageFile
<1>4. ASSUME NEW n \in Nodes, ArmNode(c, n) PROVE ExecMove(c)
  <2>1. PICK armed \in BOOLEAN, acked \in BOOLEAN :
            /\ acked => armed
            /\ ntimer' = IF armed THEN [ntimer EXCEPT ![c][n] = "armed"] ELSE ntimer
            /\ IF acked THEN StepDone(c, <<"arm", n>>) ELSE StepFailed(c)
    BY <1>4 DEF ArmNode
  <2>2. Running(c) /\ <<"arm", n>> \in todo[c] /\ <<"stage", n>> \notin todo[c]
    BY <1>4 DEF ArmNode
  <2>3. UNCHANGED <<stage, mode>>
    BY <1>4 DEF ArmNode, ExecFrame
  <2>4. CASE acked
    <3>1. ntimer' = [ntimer EXCEPT ![c][n] = "armed"] /\ StepDone(c, <<"arm", n>>)
      BY <2>1, <2>4
    <3>2. ntimer'[c][n] = "armed"
      <4>1. "armed" \in TimerState
        BY DEF TimerState
      <4> QED
        BY <3>1, <4>1, NodeTimerTypes
    <3> QED
      BY <1>0, <2>2, <2>3, <3>1, <3>2, StepMoves
  <2>5. CASE ~acked
    <3>1. pc[c] = "run" /\ pc'[c] = "undo"
      BY <2>1, <2>2, <2>5 DEF StepFailed, Running, TypeOK
    <3> QED
      BY <2>3, <3>1 DEF ExecMove
  <2> QED
    BY <2>4, <2>5
<1>5. ASSUME NEW n \in Nodes, Reload(c, n) PROVE ExecMove(c)
  BY <1>0, <1>5, StepMoves DEF Reload, ExecFrame
<1>6. ASSUME NEW r \in Resource, ApplyScope(c, r) PROVE ExecMove(c)
  BY <1>6, StepMoves DEF ApplyScope, ExecFrame
<1>7. ASSUME NEW r \in Resource, Undo(c, r) PROVE ExecMove(c)
  BY <1>7 DEF Undo, ExecFrame, ExecMove
<1>8. CASE RunDone(c)
  <2>1. PICK p \in {"holding", "clearDone", "await"} :
            pc' = Set(pc, c, p) /\ (p = "holding" => mode[c] = "canary")
    BY <1>8 DEF RunDone
  <2>2. pc[c] = "run" /\ UNCHANGED <<stage, mode>> /\ pc'[c] = p
    BY <1>8, <2>1 DEF RunDone, Running, TypeOK
  <2> QED
    BY <2>1, <2>2 DEF ExecMove
<1>9. CASE UndoDone(c)
  <2>1. pc[c] = "undo" /\ UNCHANGED <<stage, mode>> /\ pc'[c] \in {"clearFail", "fail"}
    BY <1>9 DEF UndoDone, TypeOK
  <2> QED
    BY <2>1 DEF ExecMove
<1> QED
  BY <1>1, <1>2, <1>3, <1>4, <1>5, <1>6, <1>7, <1>8, <1>9 DEF ExecutorStep

\* A promotion starts it again.
LEMMA PromotionMoves ==
    ASSUME TypeInv, NEW c \in Changesets, StagedStep(c)
    PROVE  ExecMove(c)
<1>a. ASSUME Claim(c) PROVE ExecMove(c)
  <2>1. Paused(c) /\ stage'[c] = "promoting" /\ mode'[c] = "rest"
    BY <1>a DEF Claim, TypeOK
  <2>2. PICK loaded \in StoreOk :
            /\ pc' = Set(pc, c, IF loaded THEN "run" ELSE "clearFail")
            /\ todo' = Set(todo, c, IF loaded THEN StepsOn(StageScope(c, "rest")) ELSE {})
    BY <1>a DEF Claim
  <2>3. \/ pc'[c] = "run" /\ todo'[c] = StepsOn(StageScope(c, "rest"))
        \/ pc'[c] = "clearFail"
    BY <2>2 DEF TypeOK
  <2> QED
    BY <2>1, <2>3 DEF ExecMove
<1>b. ASSUME NEW session, Abort(c, session) PROVE ExecMove(c)
  BY <1>b, ExecStill DEF Abort
<1>1. CASE HoldAfterCanary(c)
  <2>1. pc[c] = "holding" /\ pc'[c] = "idle" /\ UNCHANGED mode
    BY <1>1 DEF HoldAfterCanary, TypeOK
  <2>2. stage' = stage \/ stage' = Set(stage, c, "canary_hold")
    BY <1>1 DEF HoldAfterCanary
  <2>3. stage'[c] = stage[c] \/ stage'[c] = "canary_hold"
    BY <2>2 DEF TypeOK
  <2> QED
    BY <2>1, <2>3 DEF ExecMove
<1>2. CASE ContinueStagedApply(c)
  BY <1>2, <1>a DEF ContinueStagedApply
<1>3. CASE AbortStagedApply(c)
  BY <1>3, <1>b DEF AbortStagedApply
<1>4. CASE HoldExpires(c) \/ OnHoldExpired(c)
  BY <1>4, ExecStill DEF HoldExpires, OnHoldExpired
<1>5. CASE ResolveHold(c)
  <2>1. CASE UNCHANGED <<storeVars, worldVars, bootVars, lockVars, timer, callVars, execVars>>
    BY <2>1, ExecStill
  <2> QED
    BY <1>5, <2>1, <1>a, <1>b DEF ResolveHold
<1>6. CASE ClearStage(c)
  <2>1. stage'[c] \in {stage[c], "none"} /\ UNCHANGED <<mode, todo>>
    BY <1>6 DEF ClearStage, TypeOK
  <2>2. CASE UNCHANGED pc
    BY <2>1, <2>2, ExecStill
  <2>3. CASE pc[c] # "idle" /\ pc'[c] \in {"await", "fail"}
    BY <2>1, <2>3 DEF ExecMove
  <2> QED
    BY <1>6, <2>2, <2>3 DEF ClearStage, TypeOK
<1> QED
  BY <1>1, <1>2, <1>3, <1>4, <1>5, <1>6 DEF StagedStep

\* What a step does to an executor.
LEMMA ExecMoves ==
    ASSUME TypeInv, [Next]_vars, NEW c \in Changesets
    PROVE  ExecMove(c)
<1>1. ASSUME NEW d \in Changesets, StepOf(d) PROVE ExecMove(c)
  <2>1. CASE d # c
    BY <1>1, <2>1, Elsewhere, ExecStill DEF Still
  <2>2. CASE DraftStep(c) \/ EnvironmentStep(c)
    BY <2>2, ExecStill DEF DraftStep, Create, Approve, UpdateDraft, Discard, Validate, EditRead,
       EditPersist, EnvironmentStep, NodeTimerFires, TicketExpires
  <2>3. CASE WindowStep(c)
    <3>1. CASE TimerCallback(c)
      BY <3>1, ExecStill DEF TimerCallback, Abort
    <3> QED
      BY <2>3, <3>1, ExecStill DEF WindowStep, Confirm, CancelNodeTimer, Rollback, TimerExpires
  <2>4. CASE FireStep(c)
    BY <2>4, ExecStill DEF FireStep, ObserveFinding, FireRead, RecordTriggerGet, RecordTriggerPut,
       FireRollback, FireFrame, Abort
  <2>5. CASE RollbackStep
    BY <2>5, ExecStill DEF RollbackStep, RestoreOne, RollbackPersist, RecoverPersist, Release
  <2>6. CASE ArmAwaiting(c) \/ RecoverHold(c)
    BY <2>6, ExecStill DEF ArmAwaiting, RecoverHold
  <2>7. CASE RecoverInterrupted(c)
    <3>1. stage' = stage \/ stage' = Set(stage, c, "none")
      BY <2>7 DEF RecoverInterrupted
    <3>2. stage'[c] \in {stage[c], "none"} /\ UNCHANGED <<pc, mode, todo>>
      BY <2>7, <3>1 DEF RecoverInterrupted, TypeOK
    <3> QED
      BY <3>2, ExecStill
  <2> QED
    BY <1>1, <2>1, <2>2, <2>3, <2>4, <2>5, <2>6, <2>7, ApplyMoves, RunMoves, PromotionMoves DEF StepOf
<1>2. CASE Crash
  <2>1. pc'[c] = "idle" /\ mode'[c] = "all" /\ UNCHANGED stage
    BY <1>2 DEF Crash
  <2> QED
    BY <2>1 DEF ExecMove
<1>3. CASE Restart \/ StartupDone \/ UNCHANGED vars
  BY <1>3, ExecStill DEF Restart, StartupDone, vars
<1> QED
  BY <1>1, <1>2, <1>3, StepCases

-----------------------------------------------------------------------------
(* Where the configuration of a changeset can be. *)

\* A changeset gets a new trace only from its own executor.
LEMMA TraceGrows ==
    ASSUME TypeInv, [Next]_vars, NEW c \in Changesets, NEW r \in Resource, ~Trace(c, r), Trace(c, r)'
    PROVE  pc[c] = "run" /\ (<<"stage", r>> \in todo[c] \/ <<"apply", r>> \in todo[c])
<1>0. c # Base /\ c # None
  BY SettingsAssumption
<1>1. CASE live'[r] = c
  BY <1>1, WorldMoves DEF LiveMove, RestoredFrom, Trace
<1>2. CASE r \in Nodes /\ staged'[r] = c
  BY <1>0, <1>2, WorldMoves DEF StagedMove, RestoredFrom, Trace
<1>3. ASSUME NEW d \in Changesets, HasSnapshot(d)', snap'[d][r] = c
      PROVE  FALSE
  <2>1. CASE snap'[d] = snap[d]
    BY <1>3, <2>1 DEF Trace, HasSnapshot
  <2>2. CASE snap'[d] = [s \in Resource |-> IF s \in Touches[d] THEN live[s] ELSE Base]
    BY <1>0, <1>3, <2>2 DEF Trace
  <2> QED
    BY <2>1, <2>2, SnapMoves DEF SnapMove
<1> QED
  BY <1>1, <1>2, <1>3 DEF Trace

\* A snapshot that is there stays as it is.
LEMMA SnapshotKept ==
    ASSUME TypeInv, SerialInv, [Next]_vars, NEW c \in Changesets, HasSnapshot(c)
    PROVE  UNCHANGED snap[c]
<1>1. pc[c] # "snapshot"
  BY DEF SerialInv, SerialAt, AppliedOnce, Starting
<1> QED
  BY <1>1, SnapMoves DEF SnapMove

\* A trace is followed by a snapshot, and comes after it.
LEMMA TraceAfterSealStep ==
    ASSUME TypeInv, SerialInv, TraceInv, [Next]_vars, NEW c \in Changesets
    PROVE  TraceAfterSeal(c)'
<1> SUFFICES ASSUME NEW r \in Resource
             PROVE  /\ (Trace(c, r) \/ Armed(c, r))' =>
                           HasSnapshot(c)' /\ pc'[c] # "seal" /\ r \in Touches[c]
                    /\ HasSnapshot(c)' => snap'[c][r] # c
  BY DEF TraceAfterSeal
<1>0. c # Base /\ Nodes \subseteq Resource
  BY SettingsAssumption DEF Resource
<1>1. TraceAfterSeal(c) /\ StepsInScope(c)
  BY DEF TraceInv
<1>2. ASSUME (Trace(c, r) \/ Armed(c, r))'
      PROVE  HasSnapshot(c)' /\ pc'[c] # "seal" /\ r \in Touches[c]
  <2>1. CASE Trace(c, r) \/ Armed(c, r)
    <3>1. HasSnapshot(c) /\ pc[c] # "seal" /\ r \in Touches[c]
      BY <1>1, <2>1 DEF TraceAfterSeal
    <3>2. HasSnapshot(c)'
      BY <3>1, SnapshotKept DEF HasSnapshot
    <3>3. pc[c] # "snapshot"
      BY <3>1 DEF SerialInv, SerialAt, AppliedOnce, Starting
    <3>4. pc'[c] # "seal"
      BY <3>1, <3>3, ExecMoves DEF ExecMove
    <3> QED
      BY <3>1, <3>2, <3>4
  <2>2. CASE ~Trace(c, r) /\ ~Armed(c, r)
    <3>1. pc[c] = "run" /\ \E k \in {"stage", "arm", "apply"} : <<k, r>> \in todo[c]
      <4>1. CASE Trace(c, r)'
        BY <2>2, <4>1, TraceGrows
      <4>2. CASE Armed(c, r)'
        BY <2>2, <4>2, TimerMoves DEF Armed, TimerMove
      <4> QED
        BY <1>2, <4>1, <4>2
    <3>2. r \in StageScope(c, mode[c])
      BY <1>1, <3>1 DEF StepsInScope, StepKind
    <3>3. r \in Touches[c]
      BY <3>2 DEF StageScope
    <3>4. HasSnapshot(c)
      BY <3>1 DEF SnapshotInv, ExecutorHasSnapshot
    <3>5. HasSnapshot(c)'
      BY <3>4, SnapshotKept DEF HasSnapshot
    <3>6. pc'[c] # "seal"
      BY <3>1, ExecMoves DEF ExecMove
    <3> QED
      BY <3>3, <3>5, <3>6
  <2> QED
    BY <2>1, <2>2
<1>3. ASSUME HasSnapshot(c)' PROVE snap'[c][r] # c
  <2>1. CASE HasSnapshot(c)
    BY <1>1, <2>1, SnapshotKept DEF TraceAfterSeal
  <2>2. CASE ~HasSnapshot(c)
    <3>1. snap'[c] = [s \in Resource |-> IF s \in Touches[c] THEN live[s] ELSE Base]
      BY <1>3, <2>2, SnapMoves DEF SnapMove, HasSnapshot
    <3>2. live[r] # c
      BY <1>1, <2>2 DEF TraceAfterSeal, Trace
    <3> QED
      BY <1>0, <3>1, <3>2
  <2> QED
    BY <2>1, <2>2
<1> QED
  BY <1>2, <1>3

\* The steps of a stage are of its scope.
LEMMA StepsOnScope ==
    ASSUME NEW R, NEW k \in StepKind, NEW r, <<k, r>> \in StepsOn(R)
    PROVE  r \in R /\ (k = "apply" => r \notin Nodes)
BY DEF StepsOn, StepKind

\* What an executor has to do, and where the canary strategy is, follow the
\* stage it is in.
LEMMA StagedPlanStep ==
    ASSUME TypeInv, SerialInv, TraceInv, [Next]_vars, NEW c \in Changesets
    PROVE  StepsInScope(c)' /\ StagedPlan(c)'
<1>1. StepsInScope(c) /\ StagedPlan(c)
  BY DEF TraceInv
<1>2. InGates(c) => stage[c] = "none" /\ pc[c] = "idle"
  BY DEF SerialInv, SerialAt, AppliedOnce, GatesFirst, ActiveIsBegun, SnapshotInv, RowHasSnapshot
<1>3. StepsInScope(c)'
  <2> SUFFICES ASSUME pc'[c] = "run", NEW k \in StepKind, NEW r \in Resource, <<k, r>> \in todo'[c]
               PROVE  r \in StageScope(c, mode'[c]) /\ (k = "apply" => r \notin Nodes)
    BY DEF StepsInScope, StageScope
  <2>1. CASE pc[c] = "run" /\ UNCHANGED mode[c] /\ todo'[c] \subseteq todo[c]
    BY <1>1, <2>1 DEF StepsInScope
  <2>2. CASE todo'[c] = StepsOn(StageScope(c, mode'[c]))
    BY <2>2, StepsOnScope
  <2> QED
    BY <2>1, <2>2, ExecMoves DEF ExecMove, TodoMove
<1>4. StagedPlan(c)'
  <2>1. (stage[c] # "none" \/ mode[c] # "all")' => Touches[c] \subseteq Nodes
    BY <1>1, ExecMoves DEF ExecMove, StagedPlan, Paused
  <2>2. pc'[c] = "holding" => mode'[c] = "canary"
    BY <1>1, ExecMoves DEF ExecMove, StagedPlan
  <2>3. stage'[c] = "canary_hold" => pc'[c] = "idle"
    BY <1>1, <1>2, ExecMoves DEF ExecMove, StagedPlan
  <2> QED
    BY <2>1, <2>2, <2>3 DEF StagedPlan
<1> QED
  BY <1>3, <1>4

\* A canary apply stays on its canary until it is promoted.
LEMMA CanaryStep ==
    ASSUME TypeInv, SerialInv, TraceInv, [Next]_vars, NEW c \in Changesets
    PROVE  CanaryOnly(c)'
<1> SUFFICES ASSUME stage'[c] = "canary_hold" \/ (pc'[c] # "idle" /\ mode'[c] = "canary"),
                    NEW n \in Nodes \ Canary
             PROVE  ~Trace(c, n)' /\ ~Armed(c, n)'
  BY DEF CanaryOnly
<1>0. n \in Resource
  BY DEF Resource
<1>1. TraceAfterSeal(c) /\ StepsInScope(c) /\ StagedPlan(c) /\ CanaryOnly(c)
  BY DEF TraceInv
<1>2. \/ InGates(c)
      \/ stage[c] = "canary_hold"
      \/ pc[c] # "idle" /\ mode[c] = "canary"
  BY <1>1, ExecMoves DEF ExecMove, StagedPlan
<1>3. ~Trace(c, n) /\ ~Armed(c, n)
  <2>1. CASE InGates(c)
    <3>1. ~HasSnapshot(c)
      BY <2>1 DEF SerialInv, SerialAt, AppliedOnce, GatesFirst, ActiveIsBegun
    <3> QED
      BY <1>0, <1>1, <3>1 DEF TraceAfterSeal
  <2> QED
    BY <1>1, <1>2, <2>1 DEF CanaryOnly
<1>4. ASSUME pc[c] = "run", NEW k \in {"stage", "arm", "apply"}, <<k, n>> \in todo[c]
      PROVE  FALSE
  <2>1. ~InGates(c) /\ stage[c] # "canary_hold"
    BY <1>1, <1>4 DEF StagedPlan, SerialInv, SerialAt, AppliedOnce, GatesFirst, ActiveIsBegun
  <2>2. n \in StageScope(c, "canary")
    BY <1>0, <1>1, <1>2, <1>4, <2>1 DEF StepsInScope, StepKind
  <2> QED
    BY <2>2 DEF StageScope
<1>5. ~Trace(c, n)'
  BY <1>0, <1>3, <1>4, TraceGrows
<1>6. ~Armed(c, n)'
  BY <1>3, <1>4, TimerMoves DEF Armed, TimerMove
<1> QED
  BY <1>5, <1>6

\* A changeset leaves traces where and when its apply writes, and nowhere else.
LEMMA TraceInduction ==
    ASSUME SerialCalls = TRUE
    PROVE  Spec => []TraceInv
<1>1. Init => TraceInv
  <2> SUFFICES ASSUME Init, NEW c \in Changesets
               PROVE  TraceAfterSeal(c) /\ StepsInScope(c) /\ StagedPlan(c) /\ CanaryOnly(c)
    BY DEF TraceInv
  <2>1. \A r \in Resource : ~Trace(c, r) /\ ~Armed(c, r)
    BY SettingsAssumption DEF Init, Trace, Armed, HasSnapshot
  <2>2. ~HasSnapshot(c) /\ pc[c] = "idle" /\ stage[c] = "none" /\ mode[c] = "all"
    BY DEF Init, HasSnapshot
  <2> QED
    BY <2>1, <2>2 DEF TraceAfterSeal, StepsInScope, StagedPlan, CanaryOnly, Resource
<1>2. TypeInv /\ SerialInv /\ TraceInv /\ [Next]_vars => TraceInv'
  BY TraceAfterSealStep, StagedPlanStep, CanaryStep DEF TraceInv
<1> QED
  BY <1>1, <1>2, TypeInduction, SerialInduction, PTL DEF Spec

\* While a canary is held, and over every crash and restart during the hold,
\* no node outside the canary list runs, has staged or has a timer for the
\* changeset: the first stage of the executor is confined to the canary, and
\* no restore, retry or second apply brings its files elsewhere. For any
\* changesets, nodes, guards and store faults.
THEOREM PendingNodesUntouched ==
    ASSUME SerialCalls = TRUE
    PROVE  Spec => []PendingUntouched
<1>1. TraceInv => PendingUntouched
  BY DEF TraceInv, CanaryOnly, Trace, Armed, PendingUntouched
<1> QED
  BY <1>1, TraceInduction, PTL

-----------------------------------------------------------------------------
(* The nodes, while one executor runs at a time. *)

\* What a later changeset captured stays in its snapshot.
LEMMA CapturedKept ==
    ASSUME TypeInv, SerialInv, [Next]_vars, NEW c \in Changesets, NEW n \in Nodes, Captured(c, n)
    PROVE  Captured(c, n)'
<1>1. PICK d \in Changesets \ {c} : HasSnapshot(d) /\ snap[d][n] = c
  BY DEF Captured, HasSnapshot
<1>2. UNCHANGED snap[d]
  BY <1>1, SnapshotKept
<1> QED
  BY <1>1, <1>2 DEF Captured, HasSnapshot

\* A file that a restore brings back to a node was captured by another
\* changeset.
LEMMA RestoredIsCaptured ==
    ASSUME TypeInv, SerialInv, TraceInv, [Next]_vars, NEW c \in Changesets, NEW n \in Nodes,
           RestoredFrom(n, c)
    PROVE  Captured(c, n)'
<1>1. PICK e \in Changesets : HasSnapshot(e) /\ c = snap[e][n]
  BY DEF RestoredFrom
<1>2. e # c
  BY <1>1 DEF TraceInv, TraceAfterSeal, Resource
<1>3. Captured(c, n)
  BY <1>1, <1>2 DEF Captured, HasSnapshot
<1> QED
  BY <1>3, CapturedKept

\* A timer that restored its node leaves none of its changeset's files there.
LEMMA SafeKept ==
    ASSUME TypeInv, SerialInv, TraceInv, [Next]_vars, NEW c \in Changesets, NEW n \in Nodes,
           Safe(c, n), live'[n] = c \/ staged'[n] = c
    PROVE  Safe(c, n)'
<1>1. CASE Captured(c, n)
  BY <1>1, CapturedKept DEF Safe
<1>2. CASE ~Captured(c, n)
  <2>1. ASSUME ntimer[c][n] = "armed", live'[n] = snap[c][n], staged'[n] = None
        PROVE  FALSE
    <3>1. HasSnapshot(c)
      BY <2>1 DEF SnapshotInv, TimerHasSnapshot
    <3>2. snap[c][n] # c /\ c # None
      BY <3>1, SettingsAssumption DEF TraceInv, TraceAfterSeal, Resource
    <3> QED
      BY <2>1, <3>2
  <2>2. ntimer'[c][n] \in {"armed", "rollback_failed", "cancelled"}
    BY <1>2, <2>1, TimerMoves DEF TimerMove, Safe
  <2> QED
    BY <2>2 DEF Safe
<1> QED
  BY <1>1, <1>2

\* A node gets a changeset's file from a reload after the timer is armed, or
\* from a restore.
LEMMA ArmedStep ==
    ASSUME TypeInv, SerialInv, TraceInv, NodeInv, [Next]_vars
    PROVE  NodeNeverUnarmed'
<1> SUFFICES ASSUME NEW c \in Changesets, NEW n \in Nodes, live'[n] = c PROVE Safe(c, n)'
  BY DEF NodeNeverUnarmed, Safe, Captured
<1>0. n \in Resource
  BY DEF Resource
<1>1. CASE live[n] = c
  <2>1. Safe(c, n)
    BY <1>1 DEF NodeInv, NodeNeverUnarmed, Safe
  <2> QED
    BY <2>1, SafeKept
<1>2. CASE RestoredFrom(n, c)
  BY <1>2, RestoredIsCaptured DEF Safe
<1>3. ASSUME NEW d \in Changesets, pc[d] = "run", <<"reload", n>> \in todo[d],
             <<"stage", n>> \notin todo[d], <<"arm", n>> \notin todo[d], staged[n] = c
      PROVE  Safe(c, n)'
  <2>1. Safe(c, n)
    BY <1>3 DEF NodeInv, ReloadIsSafe
  <2> QED
    BY <2>1, SafeKept
<1>4. ASSUME NEW d \in Changesets, pc[d] = "run", <<"apply", n>> \in todo[d] PROVE FALSE
  BY <1>0, <1>4 DEF TraceInv, StepsInScope, StepKind
<1> QED
  BY <1>0, <1>1, <1>2, <1>3, <1>4, WorldMoves DEF LiveMove

\* The steps of a node are done in order.
LEMMA OrderStep ==
    ASSUME TypeInv, SerialInv, TraceInv, NodeInv, [Next]_vars
    PROVE  StagesBeforeArms'
<1> SUFFICES ASSUME NEW c \in Changesets, NEW n \in Nodes, pc'[c] = "run",
                    <<"stage", n>> \in todo'[c]
             PROVE  <<"arm", n>> \in todo'[c]
  BY DEF StagesBeforeArms
<1>1. CASE pc[c] = "run" /\ TodoMove(c)
  BY <1>1 DEF TodoMove, NodeInv, StagesBeforeArms
<1>2. ASSUME NEW R, todo'[c] = StepsOn(R) PROVE <<"arm", n>> \in todo'[c]
  <2>1. n \in R
    BY <1>2, StepsOnScope DEF StepKind
  <2> QED
    BY <1>2, <2>1 DEF StepsOn
<1> QED
  BY <1>1, <1>2, ExecMoves DEF ExecMove

\* What an executor is about to reload stays safe.
LEMMA ReloadStep ==
    ASSUME TypeInv, SerialInv, TraceInv, NodeInv, OneRun, [Next]_vars
    PROVE  ReloadIsSafe'
<1> SUFFICES ASSUME NEW c \in Changesets, NEW d \in Changesets, NEW n \in Nodes,
                    pc'[d] = "run", <<"reload", n>> \in todo'[d], <<"stage", n>> \notin todo'[d],
                    staged'[n] = c, c = d => <<"arm", n>> \notin todo'[d]
             PROVE  Safe(c, n)'
  BY DEF ReloadIsSafe, Safe, Captured
<1>0. c # None
  BY SettingsAssumption
<1>1. pc[d] = "run" /\ TodoMove(d)
  <2>1. ASSUME NEW R, todo'[d] = StepsOn(R) PROVE FALSE
    <3>1. n \in R
      BY <2>1, StepsOnScope DEF StepKind
    <3> QED
      BY <2>1, <3>1 DEF StepsOn
  <2> QED
    BY <2>1, ExecMoves DEF ExecMove
<1>2. <<"reload", n>> \in todo[d]
  BY <1>1 DEF TodoMove
\* d has not just staged the file: it would still have to arm the timer.
<1>3. <<"stage", n>> \notin todo[d]
  <2> SUFFICES ASSUME <<"stage", n>> \in todo[d] PROVE FALSE
    OBVIOUS
  <2>1. staged'[n] = d /\ todo'[d] = todo[d] \ {<<"stage", n>>}
    BY <1>1 DEF TodoMove
  <2>2. <<"arm", n>> \in todo[d]
    BY <1>1 DEF NodeInv, StagesBeforeArms
  <2> QED
    BY <2>1, <2>2
<1>4. CASE staged[n] = c /\ (c = d => <<"arm", n>> \notin todo[d])
  <2>1. Safe(c, n)
    BY <1>1, <1>2, <1>3, <1>4 DEF NodeInv, ReloadIsSafe
  <2> QED
    BY <2>1, SafeKept
<1>5. CASE c = d /\ <<"arm", n>> \in todo[d]
  <2>1. ntimer'[c][n] = "armed"
    BY <1>1, <1>5 DEF TodoMove
  <2> QED
    BY <2>1 DEF Safe
<1>6. CASE RestoredFrom(n, c)
  BY <1>6, RestoredIsCaptured DEF Safe
<1>7. CASE pc[c] = "run" /\ <<"stage", n>> \in todo[c]
  BY <1>1, <1>3, <1>7 DEF OneRun
<1> QED
  BY <1>0, <1>4, <1>5, <1>6, <1>7, WorldMoves DEF StagedMove

\* A node runs an unconfirmed file only with a timer of its own, as long as
\* executors run one at a time.
LEMMA NodeInduction ==
    ASSUME SerialCalls = TRUE
    PROVE  Spec /\ []OneRun => []NodeInv
<1>1. Init => NodeInv
  BY SettingsAssumption DEF Init, NodeInv, NodeNeverUnarmed, StagesBeforeArms, ReloadIsSafe, Resource
<1>2. TypeInv /\ SerialInv /\ TraceInv /\ OneRun /\ NodeInv /\ [Next]_vars => NodeInv'
  BY ArmedStep, OrderStep, ReloadStep DEF NodeInv
<1> QED
  BY <1>1, <1>2, TypeInduction, SerialInduction, TraceInduction, PTL DEF Spec

\* Where executors run one at a time: with a single changeset, and wherever
\* the single-applier lock covers the window.
LEMMA SingleRun ==
    ASSUME (\A c, d \in Changesets : c = d) \/ PlainSetting
    PROVE  Spec => []OneRun
<1>1. CASE \A c, d \in Changesets : c = d
  <2>1. OneRun
    BY <1>1 DEF OneRun
  <2> QED
    BY <2>1, PTL
<1>2. CASE PlainSetting
  <2>1. LockInv => OneRun
    BY DEF LockInv, ExecutorOwnsLock, OneRun
  <2> QED
    BY <1>2, <2>1, LockInduction, PTL
<1> QED
  BY <1>1, <1>2

\* The settings of the theorems about the nodes: a single changeset with any
\* canary, or any changesets applied in one pass.
OneAtATime == (\A c, d \in Changesets : c = d) \/ PlainSetting

\* A node that runs a changeset's file has a timer of that changeset that is
\* armed, failed to restore it, or was cancelled by a confirm, unless a later
\* changeset captured the file as its own pre-state. With a single changeset
\* that holds for every canary list, finding guard, store fault and crash:
\* nothing disarms a node but its own restore or a confirm.
THEOREM NodesArmed ==
    ASSUME SerialCalls = TRUE, OneAtATime
    PROVE  Spec => []NodeNeverUnarmed
<1>1. NodeInv => NodeNeverUnarmed
  BY DEF NodeInv
<1> QED
  BY <1>1, SingleRun, NodeInduction, PTL DEF OneAtATime

\* A node that runs an unconfirmed file has its own timer counting down to
\* the restore, or one that tried and failed: execStep arms it before the
\* reload, and Confirm's fan-out, the only thing that cancels it, starts after
\* the committed row is written. Without finding guards, whose triggered
\* rollbacks can write an old row over a committed one.
THEOREM UnconfirmedArmed ==
    ASSUME SerialCalls = TRUE, Guarded = {}, OneAtATime
    PROVE  Spec => []UnconfirmedIsArmed
<1>1. NodeNeverUnarmed /\ EndInv => UnconfirmedIsArmed
  BY DEF NodeNeverUnarmed, EndInv, EndAt, CancelledIsCommitted, UnconfirmedIsArmed
<1> QED
  BY <1>1, NodesArmed, EndInduction, PTL

-----------------------------------------------------------------------------
(* The scopes: what a step may do to a changeset that has some. *)

\* Its row.
RowMove(c) ==
    \/ UNCHANGED status[c]
    \/ ~Begun(c) /\ status'[c] # "rolled_back"
    \/ pc[c] # "idle" /\ pc'[c] = "idle" /\ status'[c] \in {"failed", "awaiting_confirm"}
    \/ status[c] = "awaiting_confirm" /\ status'[c] = "committed"
    \/ (RollingBack(c) \/ Recovering(c)) /\ status'[c] = "failed"
    \/ /\ RollingBack(c) /\ ~job.hard /\ job.todo = {}
       /\ status'[c] = "rolled_back"
       /\ UNCHANGED live

\* Its rollback, which starts with the whole plan and restores every scope
\* unless it fails.
UndoMove(c) ==
    RollingBack(c)' =>
        \/ /\ RollingBack(c)
           /\ job.hard => job'.hard
           /\ \A r \in Resource \ Nodes :
                  ~job'.hard /\ r \in job.todo \ job'.todo => live'[r] = snap[c][r]
        \/ status[c] = "awaiting_confirm" /\ (job'.hard \/ Touches[c] \subseteq job'.todo)

\* The daemon under its executor.
UpMove(c) == up = "up" => up' = "up" \/ pc'[c] = "idle"

RowMoves(c) == RowMove(c) /\ UndoMove(c) /\ UpMove(c)

\* A step that leaves the row, the section under applyMu and the daemon alone.
LEMMA RowStill ==
    ASSUME NEW c, UNCHANGED <<status[c], up>>, UNCHANGED job \/ ~RollingBack(c)'
    PROVE  RowMoves(c)
BY DEF RowMoves, RowMove, UndoMove, UpMove, RollingBack

\* The rollback of a window starts with all that the plan touches.
LEMMA RollbackStartMoves ==
    ASSUME NEW c \in Changesets, NEW session, status[c] = "awaiting_confirm",
           StartRollback(c, status[c], Touches[c], session, FALSE), UNCHANGED status
    PROVE  RowMoves(c)
<1>1. job'.hard \/ Touches[c] \subseteq job'.todo
  <2>1. PICK gw \in Gateways(c, session), loaded \in StoreOk :
            job' = [kind |-> "rollback", cs |-> c, copy |-> status[c],
                    todo |-> IF loaded THEN Touches[c] ELSE {}, hard |-> ~loaded,
                    gw |-> gw, clear |-> FALSE]
    BY DEF StartRollback
  <2>2. CASE loaded
    BY <2>1, <2>2
  <2>3. CASE ~loaded
    BY <2>1, <2>3
  <2> QED
    BY <2>2, <2>3
<1>2. UNCHANGED up
  BY DEF StartRollback
<1> QED
  BY <1>1, <1>2 DEF RowMoves, RowMove, UndoMove, UpMove

\* A draft operation and the ends of an apply.
LEMMA ApplyRow ==
    ASSUME SerialCalls = TRUE, TypeInv, NEW c \in Changesets, SerialAt(c), EndAt(c),
           DraftStep(c) \/ ApplyStep(c)
    PROVE  RowMoves(c)
<1> USE DEF RollingBack
<1>1. CASE DraftStep(c)
  <2>1. ~Begun(c)
    BY <1>1 DEF DraftStep, Create, Approve, UpdateDraft, Discard, Validate, EditPersist, Begun,
       BegunStatus, Absent, Editable, AllowedTransitions, SerialAt, AppliedOnce, NoEditOnceBegun
  <2>2. UNCHANGED <<job, up>>
    BY <1>1 DEF DraftStep, Create, Approve, UpdateDraft, Discard, Validate, EditRead, EditPersist
  <2>3. status'[c] # "rolled_back"
    <3>1. CASE Create(c)
      BY <3>1 DEF Create, TypeOK
    <3>2. CASE EditPersist(c)
      <4>1. status' = status \/ status' = Set(status, c, edit[c])
        BY <3>2 DEF EditPersist
      <4>2. edit[c] # "rolled_back"
        BY DEF SnapshotInv, EditShape, Absent
      <4> QED
        BY <4>1, <4>2, <2>1 DEF TypeOK, Begun, BegunStatus
    <3>3. CASE UNCHANGED status
      BY <3>3, <2>1 DEF Begun, BegunStatus
    <3> QED
      BY <1>1, <3>1, <3>2, <3>3 DEF DraftStep, Approve, UpdateDraft, Discard, Validate, EditRead
  <2>4. RowMove(c)
    BY <2>1, <2>3 DEF RowMove
  <2> QED
    BY <2>2, <2>4 DEF RowMoves, UndoMove, UpMove
<1>2. CASE BeginApply(c)
  <2>1. job'.kind = "apply" /\ UNCHANGED <<status, up>>
    BY <1>2 DEF BeginApply, NoJob
  <2> QED
    BY <2>1, RowStill
<1>3. CASE GatesRefuse(c) \/ GatesPass(c)
  <2>1. ~Begun(c) /\ Editable(job.copy)
    BY <1>3 DEF GatesRefuse, GatesPass, SerialAt, AppliedOnce, GatesFirst, InGates, SnapshotInv,
       JobShape
  <2>2. job'.kind = "idle" /\ status'[c] # "rolled_back" /\ UNCHANGED up
    <3>1. CASE GatesRefuse(c)
      BY <2>1, <3>1 DEF GatesRefuse, NoJob, TypeOK, Begun, BegunStatus
    <3>2. CASE GatesPass(c)
      BY <2>1, <3>2 DEF GatesPass, NoJob, TypeOK, Editable, Transition, AllowedTransitions
    <3> QED
      BY <1>3, <3>1, <3>2
  <2> QED
    BY <2>1, <2>2 DEF RowMoves, RowMove, UndoMove, UpMove
<1>4. CASE FinishFailed(c)
  <2>1. /\ pc[c] # "idle" /\ pc'[c] = "idle" /\ job'.kind = "release"
        /\ status'[c] = status[c] \/ status'[c] = "failed"
        /\ UNCHANGED up
    BY <1>4 DEF FinishFailed, NoJob, TypeOK
  <2> QED
    BY <2>1 DEF RowMoves, RowMove, UndoMove, UpMove
<1>5. CASE FinishAwaiting(c)
  <2>1. /\ pc[c] # "idle" /\ pc'[c] = "idle" /\ job.kind = "idle" /\ UNCHANGED <<up, job>>
        /\ status'[c] = status[c] \/ status'[c] = "awaiting_confirm"
    BY <1>5 DEF FinishAwaiting, Unlocked, TypeOK
  <2> QED
    BY <2>1 DEF RowMoves, RowMove, UndoMove, UpMove
<1> QED
  BY <1>1, <1>2, <1>3, <1>4, <1>5 DEF ApplyStep

\* A changeset with scopes is not in the canary strategy.
LEMMA StagedRow ==
    ASSUME TypeInv, NEW c \in Changesets, StagedPlan(c), HasScopes(c), StagedStep(c)
    PROVE  RowMoves(c)
<1>1. stage[c] = "none" /\ pc[c] # "holding"
  BY DEF StagedPlan, HasScopes
<1>2. ~Paused(c) /\ ~Abortable(c)
  BY <1>1 DEF Paused, Abortable
<1>3. UNCHANGED <<status, up, job>>
  BY <1>1, <1>2 DEF StagedStep, HoldAfterCanary, ContinueStagedApply, AbortStagedApply, Claim,
     Abort, HoldExpires, OnHoldExpired, ResolveHold, ClearStage
<1> QED
  BY <1>3, RowStill

\* The end of the window.
LEMMA WindowRow ==
    ASSUME TypeInv, NEW c \in Changesets, StagedPlan(c), HasScopes(c), WindowStep(c)
    PROVE  RowMoves(c)
<1>1. CASE Confirm(c)
  <2>1. status[c] = "awaiting_confirm" /\ UNCHANGED up
    BY <1>1 DEF Confirm, AwaitsConfirm
  <2>2. CASE UNCHANGED <<status, job>>
    BY <2>1, <2>2, RowStill
  <2>3. CASE /\ status' = Set(status, c, "committed")
             /\ job' = [NoJob EXCEPT !.kind = "release", !.cs = c, !.copy = "committed"]
    <3>1. status'[c] = "committed" /\ job'.kind = "release"
      BY <2>3 DEF NoJob, TypeOK
    <3> QED
      BY <2>1, <3>1 DEF RowMoves, RowMove, UndoMove, UpMove, RollingBack
  <2> QED
    BY <1>1, <2>2, <2>3 DEF Confirm
<1>2. ASSUME NEW n \in Nodes, CancelNodeTimer(c, n) PROVE RowMoves(c)
  BY <1>2, RowStill DEF CancelNodeTimer
<1>3. CASE Rollback(c)
  BY <1>3, RollbackStartMoves DEF Rollback, AwaitsConfirm
<1>4. CASE TimerExpires(c)
  BY <1>4, RowStill DEF TimerExpires
<1>5. CASE TimerCallback(c)
  <2>0. ~Abortable(c)
    BY DEF Abortable, StagedPlan, HasScopes
  <2>1. CASE AwaitsConfirm(c)
    <3>1. StartRollback(c, status[c], Touches[c], FALSE, FALSE) /\ UNCHANGED status
      BY <1>5, <2>1 DEF TimerCallback, AwaitsConfirm, Abortable
    <3> QED
      BY <2>1, <3>1, RollbackStartMoves DEF AwaitsConfirm
  <2>2. CASE ~AwaitsConfirm(c)
    BY <1>5, <2>0, <2>2, RowStill DEF TimerCallback
  <2> QED
    BY <2>1, <2>2
<1> QED
  BY <1>1, <1>2, <1>3, <1>4, <1>5 DEF WindowStep

\* The restores of a rollback, and its end.
LEMMA RollbackRow ==
    ASSUME TypeInv, NEW c \in Changesets, SerialAt(c), RollbackStep, job.cs = c
    PROVE  RowMoves(c)
<1> USE DEF RollingBack, Recovering
<1>1. CASE RestoreOne
  <2>1. PICK r \in job.todo : IF r \in Nodes THEN RestoreNode(r) ELSE RestoreScope(r)
    BY <1>1 DEF RestoreOne
  <2>2. job'.kind = job.kind /\ UNCHANGED <<status, up, snap>>
    BY <1>1, RestoreOneJob DEF RestoreOne
  <2>3. job'.todo = job.todo \ {r} /\ (job.hard => job'.hard)
    <3>0. \A x : job' = [job EXCEPT !.todo = @ \ {r}, !.hard = @ \/ x]
                 => job'.todo = job.todo \ {r} /\ (job.hard => job'.hard)
      BY DEF TypeOK, JobType
    <3>1. CASE r \in Nodes
      <4>1. PICK o \in RestoreOutcome, w \in BOOLEAN :
               job' = [job EXCEPT !.todo = @ \ {r}, !.hard = @ \/ (o # "ok" /\ Counts(w))]
        BY <2>1, <3>1 DEF RestoreNode
      <4> QED
        BY <3>0, <4>1
    <3>2. CASE r \notin Nodes
      <4>1. PICK o \in {"ok", "lost", "refused"} :
               job' = [job EXCEPT !.todo = @ \ {r}, !.hard = @ \/ (o # "ok" /\ Counts(FALSE))]
        BY <2>1, <3>2 DEF RestoreScope
      <4> QED
        BY <3>0, <4>1
    <3> QED
      BY <3>1, <3>2
  <2>4. ASSUME RollingBack(c), r \notin Nodes, ~job'.hard PROVE live'[r] = snap[c][r]
    <3>1. PICK o \in {"ok", "lost", "refused"} :
              /\ RestoredScope(r, snap[c][r], o)
              /\ job' = [job EXCEPT !.todo = @ \ {r}, !.hard = @ \/ (o # "ok" /\ Counts(FALSE))]
      BY <2>1, <2>4 DEF RestoreScope
    <3>2. o = "ok"
      BY <2>4, <3>1 DEF Counts, TypeOK, JobType
    <3>3. r \in Resource
      BY DEF TypeOK, JobType
    <3> QED
      BY <3>1, <3>2, <3>3 DEF RestoredScope, TypeOK
  <2>5. UndoMove(c)
    BY <2>2, <2>3, <2>4 DEF UndoMove
  <2> QED
    BY <2>2, <2>5 DEF RowMoves, RowMove, UpMove
<1>2. CASE RollbackPersist
  <2>1. RollingBack(c) /\ job.copy \in Window /\ job.todo = {} /\ UNCHANGED <<live, up>>
    BY <1>2 DEF RollbackPersist, SerialAt, AppliedOnce, JobOfBegun
  <2>2. /\ job'.kind = "release"
        /\ \/ status'[c] = status[c]
           \/ status'[c] = "failed"
           \/ status'[c] = "rolled_back" /\ ~job.hard
    BY <1>2, <2>1 DEF RollbackPersist, TypeOK, JobType, Transition, RollbackTarget, Window,
       AllowedTransitions
  <2> QED
    BY <2>1, <2>2 DEF RowMoves, RowMove, UndoMove, UpMove
<1>3. CASE RecoverPersist
  <2>1. /\ Recovering(c) /\ job'.kind = "releaseOwn" /\ UNCHANGED up
        /\ status'[c] = status[c] \/ status'[c] = "failed"
    BY <1>3 DEF RecoverPersist, TypeOK, JobType, Transition, SnapshotInv, JobShape,
       AllowedTransitions
  <2> QED
    BY <2>1 DEF RowMoves, RowMove, UndoMove, UpMove
<1>4. CASE Release
  <2>1. job'.kind = "idle" /\ UNCHANGED <<status, up>>
    BY <1>4 DEF Release, NoJob
  <2> QED
    BY <2>1, RowStill
<1> QED
  BY <1>1, <1>2, <1>3, <1>4 DEF RollbackStep

\* What a step does to a changeset with scopes, without finding guards.
LEMMA ScopeMoves ==
    ASSUME SerialCalls = TRUE, TypeInv, SerialInv, EndInv, TraceInv, [Next]_vars,
           NEW c \in Changesets, HasScopes(c)
    PROVE  RowMoves(c)
<1>0. SerialAt(c) /\ EndAt(c) /\ StagedPlan(c)
  BY DEF SerialInv, EndInv, TraceInv
<1>1. ASSUME NEW d \in Changesets, StepOf(d) PROVE RowMoves(c)
  <2>1. CASE d # c
    <3>1. Still(c) /\ UNCHANGED up
      BY <1>1, <2>1, Elsewhere, DaemonStill
    <3> QED
      BY <3>1, RowStill DEF Still, JobElsewhere, RollingBack
  <2>2. ~FireStep(c)
    <3>1. c \notin guards /\ fire[c].at = "none"
      BY <1>0 DEF EndAt, Unguarded, NoFire
    <3> QED
      BY <3>1 DEF FireStep, ObserveFinding, FireRead, RecordTriggerGet, RecordTriggerPut,
         FireRollback
  <2>3. CASE ExecutorStep(c) \/ EnvironmentStep(c)
    <3>1. UNCHANGED <<status, up, job>>
      BY <2>3 DEF ExecutorStep, CaptureSnapshot, SealTicket, StageFile, ArmNode, Reload,
         ApplyScope, Undo, RunDone, UndoDone, ExecFrame, EnvironmentStep, NodeTimerFires,
         TicketExpires
    <3> QED
      BY <3>1, RowStill
  <2>4. CASE ArmAwaiting(c) \/ RecoverHold(c)
    BY <2>4, RowStill DEF ArmAwaiting, RecoverHold
  <2>5. CASE RecoverInterrupted(c)
    <3>1. UNCHANGED <<status, up>> /\ job'.kind = "recover"
      BY <2>5 DEF RecoverInterrupted, NoJob
    <3> QED
      BY <3>1, RowStill DEF RollingBack
  <2> QED
    BY <1>0, <1>1, <2>1, <2>2, <2>3, <2>4, <2>5, ApplyRow, StagedRow, WindowRow, RollbackRow
       DEF StepOf
<1>2. CASE Crash
  <2>1. job'.kind = "idle" /\ pc'[c] = "idle" /\ UNCHANGED status
    BY <1>2 DEF Crash, NoJob
  <2> QED
    BY <2>1 DEF RowMoves, RowMove, UndoMove, UpMove, RollingBack
<1>3. CASE Restart \/ StartupDone
  <2>1. UNCHANGED <<status, job>> /\ up' # "down" /\ (up = "up" => up' = "up")
    BY <1>3 DEF Restart, StartupDone
  <2> QED
    BY <2>1 DEF RowMoves, RowMove, UndoMove, UpMove, RollingBack
<1>4. CASE UNCHANGED vars
  BY <1>4, RowStill DEF vars
<1> QED
  BY <1>1, <1>2, <1>3, <1>4, StepCases

-----------------------------------------------------------------------------
(* The scopes, while one changeset at a time is in its window. *)

\* A scope with a trace of c is of the plan of c, whose apply was begun.
LEMMA TracedScope ==
    ASSUME SerialInv, TraceInv, NEW c \in Changesets, NEW r \in Resource \ Nodes, Trace(c, r)
    PROVE  HasSnapshot(c) /\ HasScopes(c) /\ Begun(c) /\ r \in Touches[c]
<1>1. HasSnapshot(c) /\ r \in Touches[c]
  BY DEF TraceInv, TraceAfterSeal
<1>2. Begun(c)
  BY <1>1 DEF SerialInv, SerialAt, AppliedOnce, ActiveIsBegun
<1> QED
  BY <1>1, <1>2 DEF HasScopes

\* A changeset with scopes that failed or was confirmed stays so.
LEMMA Settled ==
    ASSUME SerialCalls = TRUE, TypeInv, SerialInv, EndInv, TraceInv, ScopeInv, [Next]_vars,
           NEW c \in Changesets, HasScopes(c), status[c] \in {"failed", "committed"}
    PROVE  UNCHANGED status[c]
<1>1. RowMove(c)
  BY ScopeMoves DEF RowMoves
<1>2. Begun(c)
  BY DEF Begun, BegunStatus
<1>3. pc[c] = "idle"
  BY DEF ScopeInv, ScopeExecutor
<1>4. ~RollingBack(c) /\ ~Recovering(c)
  BY DEF EndInv, EndAt, Unguarded, Window
<1> QED
  BY <1>1, <1>2, <1>3, <1>4 DEF RowMove

\* Nothing ends a window of a changeset with scopes under its executor.
LEMMA ScopeExecutorStep ==
    ASSUME SerialCalls = TRUE, TypeInv, SerialInv, SerialInv', EndInv, TraceInv, ScopeInv,
           [Next]_vars, NEW c \in Changesets
    PROVE  ScopeExecutor(c)'
<1> SUFFICES ASSUME HasScopes(c), pc'[c] # "idle"
             PROVE  up' = "up" /\ status'[c] = "applying" /\ ~RollingBack(c)'
  BY DEF ScopeExecutor, HasScopes
<1>1. RowMove(c) /\ UndoMove(c) /\ UpMove(c)
  BY ScopeMoves DEF RowMoves
<1>2. CASE pc[c] = "idle"
  <2>1. ~Paused(c)
    BY DEF TraceInv, StagedPlan, HasScopes, Paused
  <2>2. pc'[c] = "snapshot"
    BY <1>2, <2>1, ExecMoves DEF ExecMove
  <2> QED
    BY <2>2 DEF SerialInv, SerialAt, AppliedOnce, Starting
<1>3. CASE pc[c] # "idle"
  <2>1. up = "up" /\ status[c] = "applying" /\ ~RollingBack(c)
    BY <1>3 DEF ScopeInv, ScopeExecutor
  <2>2. ~Recovering(c) /\ Begun(c)
    BY <2>1 DEF SerialInv, SerialAt, AppliedOnce, JobOfBegun, Begun, BegunStatus
  <2>3. status'[c] = "applying"
    BY <1>1, <2>1, <2>2 DEF RowMove
  <2> QED
    BY <1>1, <2>1, <2>3 DEF UndoMove, UpMove
<1> QED
  BY <1>2, <1>3

\* A rollback that is not hard restores every scope of the plan, and nothing
\* brings the configuration back.
LEMMA ScopesRestoredStep ==
    ASSUME SerialCalls = TRUE, TypeInv, SerialInv, EndInv, EndInv', TraceInv, ScopeInv,
           [Next]_vars, NEW c \in Changesets
    PROVE  ScopesRestored(c)'
<1> SUFFICES ASSUME NEW r \in Resource \ Nodes, live'[r] = c,
                    \/ RollingBack(c)' /\ ~job'.hard /\ r \notin job'.todo
                    \/ status'[c] = "rolled_back"
             PROVE  FALSE
  BY DEF ScopesRestored
<1>0. r \in Resource
  OBVIOUS
<1>1. CASE live[r] = c
  <2>1. HasSnapshot(c) /\ HasScopes(c) /\ Begun(c) /\ r \in Touches[c]
    BY <1>1, TracedScope DEF Trace
  <2>2. RowMove(c) /\ UndoMove(c)
    BY <2>1, ScopeMoves DEF RowMoves
  <2>3. /\ status[c] # "rolled_back"
        /\ ~(RollingBack(c) /\ ~job.hard /\ r \notin job.todo)
    BY <1>1 DEF ScopeInv, ScopesRestored
  <2>4. CASE status'[c] = "rolled_back"
    BY <2>1, <2>2, <2>3, <2>4 DEF RowMove
  <2>5. CASE RollingBack(c)' /\ ~job'.hard /\ r \notin job'.todo
    <3>1. snap[c][r] # c
      BY <2>1 DEF TraceInv, TraceAfterSeal
    <3> QED
      BY <2>1, <2>2, <2>3, <2>5, <3>1 DEF UndoMove
  <2> QED
    BY <2>4, <2>5
<1>2. CASE RestoredFrom(r, c)
  <2>1. PICK e \in Changesets : HasSnapshot(e) /\ snap[e][r] = c
    BY <1>2 DEF RestoredFrom
  <2>2. status[c] \in {"failed", "committed"}
    BY <2>1 DEF ScopeInv, SnapshotIsSettled
  <2>3. HasScopes(c)
    BY <2>1, TracedScope DEF Trace
  <2>4. status'[c] \in {"failed", "committed"}
    BY <2>2, <2>3, Settled
  <2>5. ~RollingBack(c)'
    BY <2>4 DEF EndInv, EndAt, Unguarded, Window
  <2> QED
    BY <2>4, <2>5
<1>3. CASE pc[c] = "run" /\ <<"apply", r>> \in todo[c]
  <2>1. r \in Touches[c]
    BY <1>0, <1>3 DEF TraceInv, StepsInScope, StepKind, StageScope
  <2>2. HasScopes(c)
    BY <2>1 DEF HasScopes
  <2>3. status[c] = "applying" /\ ~RollingBack(c)
    BY <1>3, <2>2 DEF ScopeInv, ScopeExecutor
  <2>4. RowMove(c) /\ UndoMove(c)
    BY <2>2, ScopeMoves DEF RowMoves
  <2>5. Begun(c)
    BY <2>3 DEF Begun, BegunStatus
  <2> QED
    BY <2>3, <2>4, <2>5 DEF RowMove, UndoMove
<1> QED
  BY <1>0, <1>1, <1>2, <1>3, WorldMoves DEF LiveMove

\* A snapshot taken in one window holds nothing of another.
LEMMA SettledStep ==
    ASSUME SerialCalls = TRUE, TypeInv, SerialInv, EndInv, TraceInv, TraceInv', ScopeInv,
           OneInWindow, [Next]_vars, NEW c \in Changesets
    PROVE  SnapshotIsSettled(c)'
<1> SUFFICES ASSUME NEW d \in Changesets, NEW r \in Resource \ Nodes, HasSnapshot(d)',
                    snap'[d][r] = c
             PROVE  status'[c] \in {"failed", "committed"}
  BY DEF SnapshotIsSettled
<1>1. c # Base
  BY SettingsAssumption
<1>2. HasScopes(c) /\ status[c] \in {"failed", "committed"}
  <2>1. CASE snap'[d] = snap[d]
    <3>1. HasSnapshot(d) /\ snap[d][r] = c
      BY <2>1 DEF HasSnapshot
    <3> QED
      BY <3>1, TracedScope DEF Trace, ScopeInv, SnapshotIsSettled
  <2>2. CASE /\ pc[d] = "snapshot"
             /\ snap'[d] = [s \in Resource |-> IF s \in Touches[d] THEN live[s] ELSE Base]
    <3>1. live[r] = c
      BY <1>1, <2>2
    <3>2. HasScopes(c) /\ Begun(c)
      BY <3>1, TracedScope DEF Trace
    <3>3. c # d
      BY DEF TraceInv, TraceAfterSeal
    <3>4. status[d] = "applying"
      BY <2>2 DEF SerialInv, SerialAt, AppliedOnce, Starting
    <3>5. status[c] \notin Window
      BY <3>3, <3>4 DEF OneInWindow, Window
    <3>6. status[c] # "rolled_back"
      BY <3>1 DEF ScopeInv, ScopesRestored
    <3> QED
      BY <3>2, <3>5, <3>6 DEF Begun, BegunStatus, Window
  <2> QED
    BY <2>1, <2>2, SnapMoves DEF SnapMove
<1> QED
  BY <1>2, Settled

\* What is left of a changeset in the scopes, as long as one changeset at a
\* time is in its window.
LEMMA ScopeInduction ==
    ASSUME SerialCalls = TRUE, Guarded = {}
    PROVE  Spec /\ []OneInWindow => []ScopeInv
<1>1. Init => ScopeInv
  <2> SUFFICES ASSUME Init, NEW c \in Changesets
               PROVE  ScopeExecutor(c) /\ ScopesRestored(c) /\ SnapshotIsSettled(c)
    BY DEF ScopeInv
  <2>1. pc[c] = "idle" /\ status[c] = Absent /\ ~RollingBack(c) /\ \A d \in Changesets : ~HasSnapshot(d)
    BY DEF Init, RollingBack, NoJob, HasSnapshot
  <2> QED
    BY <2>1 DEF ScopeExecutor, ScopesRestored, SnapshotIsSettled, Absent
<1>2. /\ TypeInv /\ SerialInv /\ SerialInv' /\ EndInv /\ EndInv' /\ TraceInv /\ TraceInv'
      /\ OneInWindow /\ ScopeInv /\ [Next]_vars
      => ScopeInv'
  BY ScopeExecutorStep, ScopesRestoredStep, SettledStep DEF ScopeInv
<1> QED
  BY <1>1, <1>2, TypeInduction, SerialInduction, EndInduction, TraceInduction, PTL DEF Spec

\* Where one changeset at a time is in its window.
LEMMA SingleInWindow ==
    ASSUME OneAtATime
    PROVE  Spec => []OneInWindow
<1>1. CASE \A c, d \in Changesets : c = d
  <2>1. OneInWindow
    BY <1>1 DEF OneInWindow
  <2> QED
    BY <2>1, PTL
<1>2. CASE PlainSetting
  <2>1. LockInv => OneInWindow
    BY DEF LockInv
  <2> QED
    BY <1>2, <2>1, LockInduction, PTL
<1> QED
  BY <1>1, <1>2 DEF OneAtATime

\* A changeset reported as rolled_back left none of its configuration in a
\* scope, and a node that still runs it restores itself: doRollbackScopedLocked
\* starts with the whole plan, reports failed when a restore failed, and no
\* later undo or recovery of another changeset brings the configuration back.
\* Over any number of crashes, between any two restores; with a single
\* changeset also for store faults.
THEOREM RolledBackIsGone ==
    ASSUME SerialCalls = TRUE, Guarded = {}, OneAtATime
    PROVE  Spec => []RolledBackRestored
<1>1. UnconfirmedIsArmed /\ ScopeInv => RolledBackRestored
  BY DEF UnconfirmedIsArmed, ScopeInv, ScopesRestored, RolledBackRestored
<1> QED
  BY <1>1, UnconfirmedArmed, ScopeInduction, SingleInWindow, PTL

=============================================================================
