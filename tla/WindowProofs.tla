---------------------------- MODULE WindowProofs ----------------------------
(***************************************************************************)
(* The commit-confirm window of the change engine, for any set of          *)
(* changesets, nodes and scopes, any number of crashes, every canary list  *)
(* and clients that serialise their calls for a changeset: guards and      *)
(* sealed tickets end with their window, and no window and no hold is left *)
(* without a clock. The invariants are those of EngineInvariants.          *)
(*                                                                         *)
(* A step of the engine is a step of one changeset, or starts or stops the *)
(* daemon; Elsewhere says once that it leaves the others alone, so that an *)
(* invariant has to be shown for the changeset of the step only.           *)
(***************************************************************************)
EXTENDS EngineProofs

USE DEF TypeInv, Set, storeVars, worldVars, bootVars, lockVars, timerVars, callVars, execVars

-----------------------------------------------------------------------------
(* Steps and their changeset. *)

\* The steps of changeset c.
StepOf(c) ==
    \/ DraftStep(c)
    \/ ApplyStep(c)
    \/ ExecutorStep(c)
    \/ StagedStep(c)
    \/ WindowStep(c)
    \/ FireStep(c)
    \/ EnvironmentStep(c)
    \/ RollbackStep /\ job.cs = c
    \/ ArmAwaiting(c)
    \/ RecoverInterrupted(c)
    \/ RecoverHold(c)

\* The section under applyMu does not become or cease to be one of d.
JobElsewhere(d) ==
    \/ UNCHANGED job
    \/ /\ job.kind = "idle" \/ job.cs # d
       /\ job'.kind = "idle" \/ job'.cs # d

\* Everything the engine keeps of d is as it was.
Still(d) ==
    /\ UNCHANGED <<status[d], stage[d], ticket[d], snap[d], ntimer[d], timer[d], hold[d]>>
    /\ UNCHANGED <<fire[d], edit[d], fanout[d], pc[d], mode[d], todo[d], okSteps[d]>>
    /\ d \in guards <=> (d \in guards)'
    /\ d \in toArm <=> (d \in toArm)'
    /\ JobElsewhere(d)

\* Every step is of one changeset, or is a crash or a part of the startup.
LEMMA StepCases ==
    ASSUME TypeInv, [Next]_vars
    PROVE  \/ \E c \in Changesets : StepOf(c)
           \/ Crash \/ Restart \/ StartupDone
           \/ UNCHANGED vars
<1>1. CASE RollbackStep
  <2>1. job.kind # "idle"
    BY <1>1 DEF RollbackStep, RestoreOne, RollbackPersist, RecoverPersist, Release
  <2>2. job.cs \in Changesets
    BY <2>1 DEF SnapshotInv, JobShape
  <2> QED
    BY <1>1, <2>2 DEF StepOf
<1>2. CASE RecoveryStep
  BY <1>2 DEF RecoveryStep, StepOf
<1> QED
  BY <1>1, <1>2 DEF Next, StepOf

\* A restore changes the list of what is left to restore, and whether the
\* rollback is complete.
LEMMA RestoreOneJob ==
    ASSUME TypeInv, RestoreOne
    PROVE  /\ job'.kind = job.kind /\ job'.cs = job.cs /\ job'.copy = job.copy
           /\ \E r \in job.todo :
                  /\ IF r \in Nodes THEN RestoreNode(r) ELSE RestoreScope(r)
                  /\ job'.todo = job.todo \ {r}
<1>1. PICK r \in job.todo : IF r \in Nodes THEN RestoreNode(r) ELSE RestoreScope(r)
  BY DEF RestoreOne
<1>2. PICK h \in BOOLEAN : job' = [job EXCEPT !.todo = @ \ {r}, !.hard = h]
  <2>1. \A o, u : (job.hard \/ (o # "ok" /\ Counts(u))) \in BOOLEAN
    OBVIOUS
  <2> QED
    BY <1>1, <2>1 DEF RestoreNode, RestoreScope
<1> QED
  BY <1>1, <1>2 DEF TypeOK, JobType

\* A rollback starts under a free applyMu and is of c.
LEMMA RollbackElsewhere ==
    ASSUME TypeInv, NEW c \in Changesets, NEW copy, NEW scope, NEW session, NEW clear,
           StartRollback(c, copy, scope, session, clear), job.kind = "idle",
           NEW d \in Changesets, d # c
    PROVE  /\ JobElsewhere(d)
           /\ d \in guards <=> (d \in guards)'
           /\ UNCHANGED <<ticket[d], snap[d], ntimer[d], up, crashes, toArm>>
<1>1. job'.cs = c
  BY DEF StartRollback
<1> QED
  BY <1>1 DEF StartRollback, JobElsewhere, DisarmedBy, TypeOK

\* Only a crash and the startup move the daemon between its states.
LEMMA DaemonStill ==
    ASSUME NEW c \in Changesets, StepOf(c)
    PROVE  UNCHANGED <<up, crashes>>
<1>1. CASE DraftStep(c) \/ ApplyStep(c)
  BY <1>1 DEF DraftStep, Create, Approve, UpdateDraft, Discard, Validate, EditRead, EditPersist,
     ApplyStep, BeginApply, GatesRefuse, GatesPass, FinishFailed, FinishAwaiting
<1>2. CASE ExecutorStep(c) \/ EnvironmentStep(c)
  BY <1>2 DEF ExecutorStep, CaptureSnapshot, SealTicket, StageFile, ArmNode, Reload, ApplyScope,
     Undo, RunDone, UndoDone, ExecFrame, EnvironmentStep, NodeTimerFires, TicketExpires
<1>3. CASE StagedStep(c)
  <2>1. CASE HoldAfterCanary(c)
    BY <2>1 DEF HoldAfterCanary, StartRollback
  <2>2. CASE ContinueStagedApply(c) \/ AbortStagedApply(c) \/ ResolveHold(c)
    BY <2>2 DEF ContinueStagedApply, AbortStagedApply, ResolveHold, Claim, Abort, StartRollback
  <2>3. CASE HoldExpires(c) \/ OnHoldExpired(c) \/ ClearStage(c)
    BY <2>3 DEF HoldExpires, OnHoldExpired, ClearStage
  <2> QED
    BY <1>3, <2>1, <2>2, <2>3 DEF StagedStep
<1>4. CASE WindowStep(c)
  <2>1. CASE TimerCallback(c)
    BY <2>1 DEF TimerCallback, Abort, StartRollback
  <2> QED
    BY <1>4, <2>1 DEF WindowStep, Confirm, CancelNodeTimer, Rollback, StartRollback, TimerExpires
<1>5. CASE FireStep(c)
  BY <1>5 DEF FireStep, ObserveFinding, FireRead, RecordTriggerGet, RecordTriggerPut,
     FireRollback, FireFrame, Abort, StartRollback
<1>6. CASE RollbackStep
  BY <1>6 DEF RollbackStep, RestoreOne, RollbackPersist, RecoverPersist, Release
<1>7. CASE ArmAwaiting(c) \/ RecoverInterrupted(c) \/ RecoverHold(c)
  BY <1>7 DEF ArmAwaiting, RecoverInterrupted, RecoverHold
<1> QED
  BY <1>1, <1>2, <1>3, <1>4, <1>5, <1>6, <1>7 DEF StepOf

\* A step of one changeset leaves the others alone.
LEMMA Elsewhere ==
    ASSUME TypeInv, NEW c \in Changesets, StepOf(c), NEW d \in Changesets, d # c
    PROVE  Still(d)
<1> USE DEF TypeOK, Still, JobElsewhere
<1>1. CASE DraftStep(c)
  BY <1>1 DEF DraftStep, Create, Approve, UpdateDraft, Discard, Validate, EditRead, EditPersist
<1>2. CASE ApplyStep(c)
  <2>1. CASE BeginApply(c)
    <3>1. job.kind = "idle" /\ job'.cs = c
      BY <2>1 DEF BeginApply, NoJob, Unlocked
    <3> QED
      BY <2>1, <3>1 DEF BeginApply
  <2>4. CASE GatesRefuse(c)
    BY <2>4 DEF GatesRefuse, NoJob
  <2>5. CASE GatesPass(c)
    BY <2>5 DEF GatesPass, NoJob
  <2>2. CASE FinishFailed(c)
    BY <2>2 DEF FinishFailed, NoJob, Unlocked, DisarmedBy, StopTimer, StopHold
  <2>3. CASE FinishAwaiting(c)
    BY <2>3 DEF FinishAwaiting
  <2> QED
    BY <1>2, <2>1, <2>2, <2>3, <2>4, <2>5 DEF ApplyStep
<1>3. CASE ExecutorStep(c)
  <2>1. CASE CaptureSnapshot(c) \/ SealTicket(c) \/ RunDone(c) \/ UndoDone(c)
    BY <2>1 DEF CaptureSnapshot, SealTicket, RunDone, UndoDone
  <2>2. ASSUME NEW n \in Nodes, StageFile(c, n) \/ Reload(c, n)
        PROVE  Still(d)
    BY <2>2 DEF StageFile, Reload, StepDone, StepFailed, ExecFrame
  <2>3. ASSUME NEW n \in Nodes, ArmNode(c, n)
        PROVE  Still(d)
    BY <2>3 DEF ArmNode, StepDone, StepFailed, ExecFrame
  <2>4. ASSUME NEW r \in Resource, ApplyScope(c, r) \/ Undo(c, r)
        PROVE  Still(d)
    BY <2>4 DEF ApplyScope, Undo, StepDone, StepFailed, ExecFrame
  <2> QED
    BY <1>3, <2>1, <2>2, <2>3, <2>4 DEF ExecutorStep
<1>4. CASE StagedStep(c)
  <2>1. CASE HoldAfterCanary(c)
    <3>1. /\ JobElsewhere(d)
          /\ d \in guards <=> (d \in guards)'
          /\ UNCHANGED <<ticket[d], snap[d], ntimer[d], up, crashes, toArm>>
          /\ UNCHANGED <<stage[d], hold[d]>>
      <4>0. job.kind = "idle"
        BY <2>1 DEF HoldAfterCanary, Unlocked
      <4>1. CASE /\ StartRollback(c, "applying", StageScope(c, "canary"), FALSE, TRUE)
                 /\ UNCHANGED <<stage, hold>>
        <5>1. /\ JobElsewhere(d)
              /\ d \in guards <=> (d \in guards)'
              /\ UNCHANGED <<ticket[d], snap[d], ntimer[d], up, crashes, toArm>>
          BY <4>0, <4>1, RollbackElsewhere
        <5> QED
          BY <4>1, <5>1
      <4>2. CASE /\ UNCHANGED <<ticket, snap, worldVars, bootVars, lockVars, guards>>
                 /\ stage' = stage \/ stage' = Set(stage, c, "canary_hold")
                 /\ hold' = hold \/ hold' = Set(hold, c, "armed")
        BY <4>2
      <4> QED
        BY <2>1, <4>1, <4>2 DEF HoldAfterCanary
    <3>2. /\ UNCHANGED <<status[d], pc[d]>>
          /\ UNCHANGED <<timer, fire, edit, fanout, clearing, mode, todo, okSteps>>
      BY <2>1 DEF HoldAfterCanary
    <3> QED
      BY <3>1, <3>2
  <2>2. CASE ContinueStagedApply(c)
    BY <2>2 DEF ContinueStagedApply, Claim, StopHold
  <2>3. CASE AbortStagedApply(c)
    <3>1. /\ JobElsewhere(d)
          /\ d \in guards <=> (d \in guards)'
          /\ UNCHANGED <<ticket[d], snap[d], ntimer[d], up, crashes, toArm>>
      BY <2>3, RollbackElsewhere DEF AbortStagedApply, Abort, Unlocked
    <3> QED
      BY <2>3, <3>1 DEF AbortStagedApply, Abort, StopTimer, StopHold
  <2>4. CASE HoldExpires(c) \/ OnHoldExpired(c) \/ ClearStage(c)
    BY <2>4 DEF HoldExpires, OnHoldExpired, ClearStage
  <2>5. CASE ResolveHold(c)
    <3>1. CASE Claim(c)
      BY <2>5, <3>1 DEF ResolveHold, Claim
    <3>2. CASE Abort(c, FALSE) /\ StopTimer(c) /\ UNCHANGED fire
      <4>1. /\ JobElsewhere(d)
            /\ d \in guards <=> (d \in guards)'
            /\ UNCHANGED <<ticket[d], snap[d], ntimer[d], up, crashes, toArm>>
        BY <3>2, RollbackElsewhere DEF Abort, Unlocked
      <4> QED
        BY <2>5, <3>2, <4>1 DEF ResolveHold, Abort, StopTimer
    <3>3. CASE UNCHANGED <<storeVars, worldVars, bootVars, lockVars, timer, callVars, execVars>>
      BY <2>5, <3>3 DEF ResolveHold
    <3> QED
      BY <2>5, <3>1, <3>2, <3>3 DEF ResolveHold
  <2> QED
    BY <1>4, <2>1, <2>2, <2>3, <2>4, <2>5 DEF StagedStep
<1>5. CASE WindowStep(c)
  <2>1. CASE Confirm(c)
    <3>1. JobElsewhere(d) /\ UNCHANGED status[d]
      <4>1. CASE UNCHANGED <<status, job>>
        BY <4>1
      <4>2. CASE /\ status' = Set(status, c, "committed")
                 /\ job' = [NoJob EXCEPT !.kind = "release", !.cs = c, !.copy = "committed"]
        BY <2>1, <4>2 DEF Confirm, NoJob, Unlocked
      <4> QED
        BY <2>1, <4>1, <4>2 DEF Confirm
    <3> QED
      BY <2>1, <3>1 DEF Confirm, StopTimer, DisarmedBy
  <2>2. ASSUME NEW n \in Nodes, CancelNodeTimer(c, n)
        PROVE  Still(d)
    BY <2>2 DEF CancelNodeTimer
  <2>3. CASE Rollback(c)
    <3>1. /\ JobElsewhere(d)
          /\ d \in guards <=> (d \in guards)'
          /\ UNCHANGED <<ticket[d], snap[d], ntimer[d], up, crashes, toArm>>
      BY <2>3, RollbackElsewhere DEF Rollback, Unlocked
    <3> QED
      BY <2>3, <3>1 DEF Rollback, StopTimer
  <2>4. CASE TimerExpires(c)
    BY <2>4 DEF TimerExpires
  <2>5. CASE TimerCallback(c)
    <3>1. CASE AwaitsConfirm(c)
      <4>1. /\ StartRollback(c, status[c], Touches[c], FALSE, FALSE)
            /\ UNCHANGED <<status, stage, hold, edit, fanout, clearing, execVars, fire>>
        BY <2>5, <3>1 DEF TimerCallback, AwaitsConfirm, Abortable
      <4>2. /\ JobElsewhere(d)
            /\ d \in guards <=> (d \in guards)'
            /\ UNCHANGED <<ticket[d], snap[d], ntimer[d], up, crashes, toArm>>
        BY <2>5, <4>1, RollbackElsewhere DEF TimerCallback, Unlocked
      <4> QED
        BY <2>5, <4>1, <4>2 DEF TimerCallback
    <3>2. CASE Abortable(c)
      <4>1. Abort(c, FALSE) /\ StopHold(c) /\ UNCHANGED fire
        BY <2>5, <3>2 DEF TimerCallback, AwaitsConfirm, Abortable
      <4>2. /\ JobElsewhere(d)
            /\ d \in guards <=> (d \in guards)'
            /\ UNCHANGED <<ticket[d], snap[d], ntimer[d], up, crashes, toArm>>
        BY <4>1, RollbackElsewhere DEF Abort, Unlocked
      <4> QED
        BY <2>5, <4>1, <4>2 DEF TimerCallback, Abort, StopHold
    <3>3. CASE ~AwaitsConfirm(c) /\ ~Abortable(c)
      BY <2>5, <3>3 DEF TimerCallback
    <3> QED
      BY <3>1, <3>2, <3>3
  <2> QED
    BY <1>5, <2>1, <2>2, <2>3, <2>4, <2>5 DEF WindowStep
<1>6. CASE FireStep(c)
  <2>1. CASE ObserveFinding(c) \/ FireRead(c) \/ RecordTriggerGet(c) \/ RecordTriggerPut(c)
    BY <2>1 DEF ObserveFinding, FireRead, RecordTriggerGet, RecordTriggerPut, FireFrame
  <2>2. CASE FireRollback(c)
    <3>1. CASE Abort(c, FALSE) /\ StopTimer(c) /\ StopHold(c)
      <4>1. /\ JobElsewhere(d)
            /\ d \in guards <=> (d \in guards)'
            /\ UNCHANGED <<ticket[d], snap[d], ntimer[d], up, crashes, toArm>>
        BY <3>1, RollbackElsewhere DEF Abort, Unlocked
      <4> QED
        BY <2>2, <3>1, <4>1 DEF FireRollback, Abort, StopTimer, StopHold
    <3>2. CASE /\ UNCHANGED <<storeVars, worldVars, bootVars, lockVars, timerVars, guards, edit>>
               /\ UNCHANGED <<fanout, clearing, execVars>>
      BY <2>2, <3>2 DEF FireRollback
    <3>3. CASE /\ StopTimer(c)
               /\ StartRollback(c, "awaiting_confirm", Touches[c], FALSE, FALSE)
               /\ UNCHANGED <<status, stage, hold, edit, fanout, clearing, execVars>>
      <4>1. /\ JobElsewhere(d)
            /\ d \in guards <=> (d \in guards)'
            /\ UNCHANGED <<ticket[d], snap[d], ntimer[d], up, crashes, toArm>>
        BY <2>2, <3>3, RollbackElsewhere DEF FireRollback, Unlocked
      <4> QED
        BY <2>2, <3>3, <4>1 DEF FireRollback, StopTimer
    <3> QED
      BY <2>2, <3>1, <3>2, <3>3 DEF FireRollback
  <2> QED
    BY <1>6, <2>1, <2>2 DEF FireStep
<1>7. CASE EnvironmentStep(c)
  <2>1. ASSUME NEW n \in Nodes, NodeTimerFires(c, n)
        PROVE  Still(d)
    BY <2>1 DEF NodeTimerFires
  <2>2. CASE TicketExpires(c)
    BY <2>2 DEF TicketExpires
  <2> QED
    BY <1>7, <2>1, <2>2 DEF EnvironmentStep
<1>8. CASE RollbackStep /\ job.cs = c
  <2>1. CASE RestoreOne
    <3>1. job'.cs = job.cs
      BY <2>1, <1>8 DEF RestoreOne, RestoreNode, RestoreScope, JobType
    <3> QED
      BY <2>1, <1>8, <3>1 DEF RestoreOne
  <2>2. CASE RollbackPersist \/ RecoverPersist
    <3>1. job'.cs = job.cs
      BY <2>2 DEF RollbackPersist, RecoverPersist, JobType
    <3> QED
      BY <2>2, <1>8, <3>1 DEF RollbackPersist, RecoverPersist
  <2>3. CASE Release
    BY <2>3, <1>8 DEF Release, WipedTicket, CancelFanout, NoJob
  <2> QED
    BY <1>8, <2>1, <2>2, <2>3 DEF RollbackStep
<1>9. CASE ArmAwaiting(c) \/ RecoverHold(c)
  BY <1>9 DEF ArmAwaiting, RecoverHold
<1>10. CASE RecoverInterrupted(c)
  BY <1>10 DEF RecoverInterrupted, Interrupted, Arming, Unlocked, NoJob
<1> QED
  BY <1>1, <1>2, <1>3, <1>4, <1>5, <1>6, <1>7, <1>8, <1>9, <1>10 DEF StepOf

-----------------------------------------------------------------------------
(* One apply per changeset, its guard and its ticket. *)

\* SerialAt(d) is about what the engine keeps of d.
LEMMA SerialStill ==
    ASSUME NEW d \in Changesets, SerialAt(d), Still(d), UNCHANGED <<up, crashes>>
    PROVE  SerialAt(d)'
<1> USE DEF Still, JobElsewhere, Begun, InGates, RollingBack, Recovering, Releasing, HasSnapshot
<1>1. AppliedOnce(d)'
  BY DEF SerialAt, AppliedOnce, GatesFirst, NoEditOnceBegun, ActiveIsBegun, JobOfBegun,
     RowReadIsBegun, Starting
<1>2. GuardInWindow(d)' /\ TicketInWindow(d)'
  BY DEF SerialAt, GuardInWindow, TicketInWindow
<1> QED
  BY <1>1, <1>2 DEF SerialAt

\* A draft operation reads and writes rows no apply has taken.
LEMMA DraftSerial ==
    ASSUME SerialCalls = TRUE, TypeInv, TypeInv', NEW c \in Changesets, SerialAt(c),
           DraftStep(c)
    PROVE  SerialAt(c)'
<1> USE DEF SerialAt, Begun, BegunStatus, InGates, RollingBack, Recovering, Releasing, HasSnapshot
<1>1. CASE Create(c)
  <2>1. /\ status[c] = Absent /\ status'[c] \in {"draft", "requested"}
        /\ UNCHANGED <<stage, ticket, snap, bootVars, lockVars, callVars, execVars>>
    BY <1>1 DEF Create, TypeOK
  <2>2. AppliedOnce(c)'
    BY <2>1 DEF AppliedOnce, GatesFirst, NoEditOnceBegun, ActiveIsBegun, JobOfBegun,
       RowReadIsBegun, Starting, Absent
  <2> QED
    BY <2>1, <2>2 DEF GuardInWindow, TicketInWindow, Window, Absent
<1>2. CASE EditPersist(c)
  <2>1. edit[c] # Absent /\ edit'[c] = Absent
    BY <1>2 DEF EditPersist, TypeOK
  <2>2. ~Begun(c) /\ ~InGates(c)
    BY <2>1 DEF AppliedOnce, NoEditOnceBegun, GatesFirst
  <2>3. status'[c] = status[c] \/ status'[c] \in {"draft", "validated", "discarded"}
    BY <1>2, <2>1 DEF EditPersist, TypeOK, SnapshotInv, EditShape
  <2>4. ticket'[c] # "none" => ticket[c] # "none"
    BY <1>2 DEF EditPersist, TypeOK
  <2>5. UNCHANGED <<stage, snap, bootVars, lockVars, guards, fire, execVars>>
    BY <1>2 DEF EditPersist
  <2>6. AppliedOnce(c)'
    BY <2>1, <2>2, <2>3, <2>5 DEF AppliedOnce, GatesFirst, NoEditOnceBegun, ActiveIsBegun,
       JobOfBegun, RowReadIsBegun, Starting
  <2> QED
    BY <2>2, <2>3, <2>4, <2>5, <2>6 DEF GuardInWindow, TicketInWindow, Window
<1>3. ASSUME NEW s, MayEdit(c), ~Begun(c), EditRead(c, s)
      PROVE  SerialAt(c)'
  <2>1. job.cs # c
    BY <1>3 DEF MayEdit
  <2>2. UNCHANGED <<storeVars, bootVars, lockVars, guards, fire, execVars>>
    BY <1>3 DEF EditRead
  <2>3. AppliedOnce(c)'
    BY <1>3, <2>1, <2>2 DEF AppliedOnce, GatesFirst, NoEditOnceBegun, ActiveIsBegun,
       JobOfBegun, RowReadIsBegun, Starting
  <2> QED
    BY <2>2, <2>3 DEF GuardInWindow, TicketInWindow
<1> QED
  BY <1>1, <1>2, <1>3 DEF DraftStep, Approve, UpdateDraft, Discard, Validate, Editable,
     AllowedTransitions

\* The gates take a row no edit and no apply is at; the ends of the executor
\* write rows of its own changeset.
LEMMA ApplySerial ==
    ASSUME SerialCalls = TRUE, TypeInv, TypeInv', NEW c \in Changesets, SerialAt(c),
           ApplyStep(c)
    PROVE  SerialAt(c)'
<1> USE DEF SerialAt, Begun, BegunStatus, InGates, RollingBack, Recovering, Releasing, HasSnapshot
<1>1. CASE BeginApply(c)
  <2>1. /\ job.kind = "idle" /\ job'.kind = "apply" /\ job'.cs = c
        /\ up = "up" /\ edit[c] = Absent /\ status[c] \in {"draft", "validated"}
    BY <1>1 DEF BeginApply, Serving, Unlocked, Editable, NoJob
  <2>2. UNCHANGED <<storeVars, bootVars, callVars, execVars>>
    BY <1>1 DEF BeginApply
  <2>3. AppliedOnce(c)'
    BY <2>1, <2>2 DEF AppliedOnce, GatesFirst, NoEditOnceBegun, ActiveIsBegun, JobOfBegun,
       RowReadIsBegun, Starting
  <2> QED
    BY <2>1, <2>2, <2>3 DEF GuardInWindow, TicketInWindow
<1>2. CASE GatesRefuse(c)
  <2>1. /\ InGates(c) /\ job'.kind = "idle"
        /\ status'[c] = status[c] \/ status'[c] = "draft"
    BY <1>2 DEF GatesRefuse, TypeOK, NoJob
  <2>2. UNCHANGED <<stage, ticket, snap, bootVars, callVars, execVars>>
    BY <1>2 DEF GatesRefuse
  <2>3. AppliedOnce(c)'
    BY <2>1, <2>2 DEF AppliedOnce, GatesFirst, NoEditOnceBegun, ActiveIsBegun, JobOfBegun,
       RowReadIsBegun, Starting
  <2> QED
    BY <2>1, <2>2, <2>3 DEF AppliedOnce, GatesFirst, GuardInWindow, TicketInWindow, Window
<1>3. CASE GatesPass(c)
  <2>1. InGates(c) /\ Editable(job.copy)
    BY <1>3 DEF GatesPass, SnapshotInv, JobShape
  <2>2. job'.kind = "idle" /\ status'[c] = "applying" /\ pc'[c] = "snapshot"
    BY <1>3, <2>1 DEF GatesPass, Transition, AllowedTransitions, Editable, TypeOK, NoJob
  <2>3. UNCHANGED <<stage, ticket, snap, bootVars, callVars>>
    BY <1>3 DEF GatesPass
  <2>4. stage[c] = "none"
    BY <2>1 DEF AppliedOnce, GatesFirst, ActiveIsBegun, SnapshotInv, RowHasSnapshot
  <2>5. AppliedOnce(c)'
    BY <2>1, <2>2, <2>3, <2>4 DEF AppliedOnce, GatesFirst, NoEditOnceBegun, ActiveIsBegun,
       JobOfBegun, RowReadIsBegun, Starting
  <2> QED
    BY <2>1, <2>2, <2>3, <2>5 DEF AppliedOnce, GatesFirst, GuardInWindow, TicketInWindow, Window
<1>4. CASE FinishFailed(c)
  <2>1. /\ pc[c] = "fail" /\ pc'[c] = "idle" /\ job.kind = "idle"
        /\ job'.kind = "release" /\ job'.cs = c /\ c \notin guards'
        /\ status'[c] = status[c] \/ status'[c] = "failed"
    BY <1>4 DEF FinishFailed, Unlocked, TypeOK, NoJob, DisarmedBy
  <2>2. UNCHANGED <<stage, ticket, snap, bootVars, fire, edit>>
    BY <1>4 DEF FinishFailed
  <2>3. AppliedOnce(c)'
    BY <2>1, <2>2 DEF AppliedOnce, GatesFirst, NoEditOnceBegun, ActiveIsBegun, JobOfBegun,
       RowReadIsBegun, Starting
  <2> QED
    BY <2>1, <2>2, <2>3 DEF GuardInWindow, TicketInWindow
<1>5. CASE FinishAwaiting(c)
  <2>1. /\ pc[c] = "await" /\ pc'[c] = "idle" /\ job.kind = "idle"
        /\ status'[c] = status[c] \/ status'[c] = "awaiting_confirm"
    BY <1>5 DEF FinishAwaiting, Unlocked, TypeOK
  <2>2. UNCHANGED <<stage, ticket, snap, bootVars, job, guards, fire, edit>>
    BY <1>5 DEF FinishAwaiting
  <2>3. AppliedOnce(c)'
    BY <2>1, <2>2 DEF AppliedOnce, GatesFirst, NoEditOnceBegun, ActiveIsBegun, JobOfBegun,
       RowReadIsBegun, Starting
  <2> QED
    BY <2>1, <2>2, <2>3 DEF GuardInWindow, TicketInWindow, Window
<1> QED
  BY <1>1, <1>2, <1>3, <1>4, <1>5 DEF ApplyStep

\* The executor arms the guard and seals the ticket inside the window.
LEMMA ExecutorSerial ==
    ASSUME SerialCalls = TRUE, TypeInv, TypeInv', NEW c \in Changesets, SerialAt(c),
           ExecutorStep(c)
    PROVE  SerialAt(c)'
<1> USE DEF SerialAt, Begun, BegunStatus, InGates, RollingBack, Recovering, Releasing, HasSnapshot
<1>1. CASE CaptureSnapshot(c)
  <2>1. /\ pc[c] = "snapshot" /\ pc'[c] \in {"seal", "fail"}
        /\ c \in guards' => c \in guards \/ c \in Guarded
    BY <1>1 DEF CaptureSnapshot, TypeOK
  <2>2. UNCHANGED <<status, stage, ticket, bootVars, job, fire, edit>>
    BY <1>1 DEF CaptureSnapshot
  <2>3. status[c] = "applying" /\ up = "up" /\ fire[c].at = "none" /\ ~RollingBack(c)
    BY <2>1 DEF AppliedOnce, Starting
  <2>4. AppliedOnce(c)'
    BY <2>1, <2>2, <2>3 DEF AppliedOnce, GatesFirst, NoEditOnceBegun, ActiveIsBegun, JobOfBegun,
       RowReadIsBegun, Starting
  <2> QED
    BY <2>1, <2>2, <2>3, <2>4 DEF GuardInWindow, TicketInWindow, Window
<1>2. CASE SealTicket(c)
  <2>1. pc[c] = "seal" /\ pc'[c] = "run"
    BY <1>2 DEF SealTicket, TypeOK
  <2>2. UNCHANGED <<status, stage, snap, bootVars, job, guards, fire, edit>>
    BY <1>2 DEF SealTicket
  <2>3. status[c] = "applying" /\ fire[c].at # "put"
    BY <2>1 DEF AppliedOnce, Starting
  <2>4. AppliedOnce(c)'
    BY <2>1, <2>2, <2>3 DEF AppliedOnce, GatesFirst, NoEditOnceBegun, ActiveIsBegun, JobOfBegun,
       RowReadIsBegun, Starting
  <2> QED
    BY <2>2, <2>3, <2>4 DEF GuardInWindow, TicketInWindow, Window
<1>3. CASE \/ \E n \in Nodes : StageFile(c, n) \/ ArmNode(c, n) \/ Reload(c, n)
           \/ \E r \in Resource : ApplyScope(c, r) \/ Undo(c, r)
           \/ RunDone(c) \/ UndoDone(c)
  <2>1. pc[c] \in {"run", "undo"} /\ pc'[c] \notin {"idle", "snapshot", "seal"}
    <3>1. CASE Running(c) /\ \/ StepFailed(c)
                             \/ \E step : StepDone(c, step)
      BY <3>1 DEF Running, StepDone, StepFailed, TypeOK
    <3>2. CASE RunDone(c)
      <4>1. PICK p \in {"holding", "clearDone", "await"} : pc' = Set(pc, c, p)
        BY <3>2 DEF RunDone
      <4> QED
        BY <3>2, <4>1 DEF RunDone, Running, TypeOK
    <3>3. CASE UndoDone(c)
      <4>1. PICK p \in {"clearFail", "fail"} : pc' = Set(pc, c, p)
        BY <3>3 DEF UndoDone
      <4> QED
        BY <3>3, <4>1 DEF UndoDone, TypeOK
    <3>4. CASE \E r \in Resource : Undo(c, r)
      BY <3>4 DEF Undo
    <3> QED
      BY <1>3, <3>1, <3>2, <3>3, <3>4 DEF StageFile, ArmNode, Reload, ApplyScope
  <2>2. UNCHANGED <<storeVars, bootVars, job, guards, fire, edit>>
    BY <1>3 DEF StageFile, ArmNode, Reload, ApplyScope, Undo, RunDone, UndoDone, ExecFrame
  <2>3. AppliedOnce(c)'
    BY <2>1, <2>2 DEF AppliedOnce, GatesFirst, NoEditOnceBegun, ActiveIsBegun, JobOfBegun,
       RowReadIsBegun, Starting
  <2> QED
    BY <2>2, <2>3 DEF GuardInWindow, TicketInWindow
<1> QED
  BY <1>1, <1>2, <1>3 DEF ExecutorStep

\* The beginning of a rollback, for any caller: it disarms the guard, and may
\* drop an expired ticket.
LEMMA RollbackStartsSerial ==
    ASSUME TypeInv, NEW c \in Changesets, SerialAt(c), HasSnapshot(c), job.kind = "idle",
           NEW copy \in Window, NEW scope, NEW session, NEW clear,
           StartRollback(c, copy, scope, session, clear),
           status'[c] = status[c] \/ status'[c] = "applying", UNCHANGED edit,
           pc'[c] \notin {"snapshot", "seal"}, fire'[c] = fire[c] \/ fire'[c] = NoFire
    PROVE  SerialAt(c)'
<1> USE DEF SerialAt, Begun, BegunStatus, InGates, RollingBack, Recovering, Releasing, HasSnapshot
<1>1. /\ job'.kind = "rollback" /\ job'.cs = c /\ job'.copy \in Window
      /\ c \notin guards'
      /\ UNCHANGED <<snap, bootVars>>
  BY DEF StartRollback, DisarmedBy
<1>2. ticket'[c] # "none" => ticket[c] # "none"
  BY DEF StartRollback, TypeOK
<1>3. AppliedOnce(c)'
  BY <1>1 DEF AppliedOnce, GatesFirst, NoEditOnceBegun, ActiveIsBegun, JobOfBegun,
     RowReadIsBegun, Starting, NoFire
<1> QED
  BY <1>1, <1>2, <1>3 DEF GuardInWindow, TicketInWindow, Window, NoFire

\* An abort is of a changeset with a stage row.
LEMMA AbortSerial ==
    ASSUME TypeInv, NEW c \in Changesets, SerialAt(c), NEW session, Abort(c, session),
           fire'[c] = fire[c] \/ fire'[c] = NoFire
    PROVE  SerialAt(c)'
<1>1. HasSnapshot(c) /\ job.kind = "idle" /\ status[c] \in Window
  BY DEF Abort, Abortable, Unlocked, SnapshotInv, RowHasSnapshot, Window
<1>2. pc[c] \notin {"snapshot", "seal"}
  BY DEF Abort, Abortable, SerialAt, AppliedOnce, Starting
<1>3. /\ StartRollback(c, status[c], StageScope(c, "canary"), session, TRUE)
      /\ UNCHANGED <<status, edit, pc>>
  BY DEF Abort
<1> QED
  BY <1>1, <1>2, <1>3, RollbackStartsSerial

\* A promotion starts the executor past its snapshot and its ticket.
LEMMA ClaimSerial ==
    ASSUME TypeInv, NEW c \in Changesets, SerialAt(c), Claim(c)
    PROVE  SerialAt(c)'
<1> USE DEF SerialAt, Begun, BegunStatus, InGates, RollingBack, Recovering, Releasing, HasSnapshot
<1>1. /\ status[c] = "applying" /\ job.kind = "idle"
      /\ pc'[c] \in {"run", "clearFail"}
  BY DEF Claim, Paused, Unlocked, TypeOK
<1>2. UNCHANGED <<status, ticket, snap, bootVars, lockVars, guards, fire, edit>>
  BY DEF Claim
<1>3. AppliedOnce(c)'
  BY <1>1, <1>2 DEF AppliedOnce, GatesFirst, NoEditOnceBegun, ActiveIsBegun, JobOfBegun,
     RowReadIsBegun, Starting
<1> QED
  BY <1>1, <1>2, <1>3 DEF GuardInWindow, TicketInWindow

\* The canary strategy.
LEMMA StagedSerial ==
    ASSUME SerialCalls = TRUE, TypeInv, TypeInv', NEW c \in Changesets, SerialAt(c),
           StagedStep(c)
    PROVE  SerialAt(c)'
<1> USE DEF SerialAt, Begun, BegunStatus, InGates, RollingBack, Recovering, Releasing, HasSnapshot
<1>1. CASE HoldAfterCanary(c)
  <2>1. /\ pc[c] = "holding" /\ pc'[c] = "idle" /\ job.kind = "idle"
        /\ status'[c] = status[c] \/ status'[c] = "applying"
        /\ UNCHANGED <<fire, edit>>
    BY <1>1 DEF HoldAfterCanary, Unlocked, TypeOK
  <2>2. CASE StartRollback(c, "applying", StageScope(c, "canary"), FALSE, TRUE)
    <3>1. HasSnapshot(c)
      BY <2>1 DEF SnapshotInv, ExecutorHasSnapshot
    <3> QED
      BY <2>1, <2>2, <3>1, RollbackStartsSerial DEF Window
  <2>3. CASE UNCHANGED <<ticket, snap, bootVars, lockVars, guards>>
    <3>1. AppliedOnce(c)'
      BY <2>1, <2>3 DEF AppliedOnce, GatesFirst, NoEditOnceBegun, ActiveIsBegun, JobOfBegun,
         RowReadIsBegun, Starting
    <3> QED
      BY <2>1, <2>3, <3>1 DEF GuardInWindow, TicketInWindow, Window
  <2> QED
    BY <1>1, <2>2, <2>3 DEF HoldAfterCanary
<1>2. CASE ContinueStagedApply(c)
  BY <1>2, ClaimSerial DEF ContinueStagedApply
<1>3. CASE AbortStagedApply(c)
  BY <1>3, AbortSerial DEF AbortStagedApply
<1>4. CASE HoldExpires(c) \/ OnHoldExpired(c)
  <2>1. UNCHANGED <<storeVars, bootVars, lockVars, callVars, execVars>>
    BY <1>4 DEF HoldExpires, OnHoldExpired
  <2>2. AppliedOnce(c)'
    BY <2>1 DEF AppliedOnce, GatesFirst, NoEditOnceBegun, ActiveIsBegun, JobOfBegun,
       RowReadIsBegun, Starting
  <2> QED
    BY <2>1, <2>2 DEF GuardInWindow, TicketInWindow
<1>5. CASE ResolveHold(c)
  <2>1. CASE UNCHANGED <<storeVars, worldVars, bootVars, lockVars, timer, callVars, execVars>>
    <3>1. AppliedOnce(c)'
      BY <2>1 DEF AppliedOnce, GatesFirst, NoEditOnceBegun, ActiveIsBegun, JobOfBegun,
         RowReadIsBegun, Starting
    <3> QED
      BY <2>1, <3>1 DEF GuardInWindow, TicketInWindow
  <2> QED
    BY <1>5, <2>1, ClaimSerial, AbortSerial DEF ResolveHold
<1>6. CASE ClearStage(c)
  <2>1. /\ UNCHANGED <<status, ticket, snap, bootVars, lockVars, guards, fire, edit>>
        /\ stage'[c] = stage[c] \/ stage'[c] = "none"
        /\ pc'[c] = pc[c] \/ (pc[c] # "idle" /\ pc'[c] \in {"await", "fail"})
    BY <1>6 DEF ClearStage, TypeOK
  <2>2. AppliedOnce(c)'
    BY <2>1 DEF AppliedOnce, GatesFirst, NoEditOnceBegun, ActiveIsBegun, JobOfBegun,
       RowReadIsBegun, Starting
  <2> QED
    BY <2>1, <2>2 DEF GuardInWindow, TicketInWindow
<1> QED
  BY <1>1, <1>2, <1>3, <1>4, <1>5, <1>6 DEF StagedStep

\* The end of the window.
LEMMA WindowSerial ==
    ASSUME SerialCalls = TRUE, TypeInv, TypeInv', NEW c \in Changesets, SerialAt(c),
           WindowStep(c)
    PROVE  SerialAt(c)'
<1> USE DEF SerialAt, Begun, BegunStatus, InGates, RollingBack, Recovering, Releasing, HasSnapshot
<1>a. ASSUME AwaitsConfirm(c), Unlocked
      PROVE  /\ HasSnapshot(c) /\ job.kind = "idle" /\ status[c] \in Window
             /\ pc[c] \notin {"snapshot", "seal"}
  BY <1>a DEF AwaitsConfirm, Unlocked, SnapshotInv, RowHasSnapshot, Window, AppliedOnce, Starting
<1>1. CASE Confirm(c)
  <2>1. /\ status[c] = "awaiting_confirm" /\ c \notin guards' /\ job.kind = "idle"
        /\ UNCHANGED <<stage, ticket, snap, bootVars, fire, edit, execVars>>
    BY <1>1 DEF Confirm, AwaitsConfirm, Unlocked, DisarmedBy
  <2>2. \/ UNCHANGED <<status, job>>
        \/ status'[c] = "committed" /\ job'.kind = "release" /\ job'.cs = c
    <3>1. CASE UNCHANGED <<status, job>>
      BY <3>1
    <3>2. CASE /\ status' = Set(status, c, "committed")
               /\ job' = [NoJob EXCEPT !.kind = "release", !.cs = c, !.copy = "committed"]
      BY <3>2 DEF NoJob, TypeOK
    <3> QED
      BY <1>1, <3>1, <3>2 DEF Confirm
  <2>3. AppliedOnce(c)'
    BY <2>1, <2>2 DEF AppliedOnce, GatesFirst, NoEditOnceBegun, ActiveIsBegun, JobOfBegun,
       RowReadIsBegun, Starting
  <2> QED
    BY <2>1, <2>2, <2>3 DEF GuardInWindow, TicketInWindow, Window
<1>2. ASSUME NEW n \in Nodes, CancelNodeTimer(c, n) PROVE SerialAt(c)'
  <2>1. UNCHANGED <<storeVars, bootVars, lockVars, guards, fire, edit, execVars>>
    BY <1>2 DEF CancelNodeTimer
  <2>2. AppliedOnce(c)'
    BY <2>1 DEF AppliedOnce, GatesFirst, NoEditOnceBegun, ActiveIsBegun, JobOfBegun,
       RowReadIsBegun, Starting
  <2> QED
    BY <2>1, <2>2 DEF GuardInWindow, TicketInWindow
<1>3. CASE Rollback(c)
  BY <1>3, <1>a, RollbackStartsSerial DEF Rollback
<1>4. CASE TimerExpires(c)
  <2>1. UNCHANGED <<storeVars, bootVars, lockVars, callVars, execVars>>
    BY <1>4 DEF TimerExpires
  <2>2. AppliedOnce(c)'
    BY <2>1 DEF AppliedOnce, GatesFirst, NoEditOnceBegun, ActiveIsBegun, JobOfBegun,
       RowReadIsBegun, Starting
  <2> QED
    BY <2>1, <2>2 DEF GuardInWindow, TicketInWindow
<1>5. CASE TimerCallback(c)
  <2>1. CASE AwaitsConfirm(c)
    <3>1. /\ StartRollback(c, status[c], Touches[c], FALSE, FALSE)
          /\ UNCHANGED <<status, edit, fire, pc>>
      BY <1>5, <2>1 DEF TimerCallback, AwaitsConfirm, Abortable
    <3> QED
      BY <1>5, <2>1, <3>1, <1>a, RollbackStartsSerial DEF TimerCallback
  <2>2. CASE ~AwaitsConfirm(c) /\ Abortable(c)
    BY <1>5, <2>2, AbortSerial DEF TimerCallback
  <2>3. CASE ~AwaitsConfirm(c) /\ ~Abortable(c)
    <3>1. UNCHANGED <<storeVars, bootVars, lockVars, guards, edit, execVars, fire>>
      BY <1>5, <2>3 DEF TimerCallback
    <3>2. AppliedOnce(c)'
      BY <3>1 DEF AppliedOnce, GatesFirst, NoEditOnceBegun, ActiveIsBegun, JobOfBegun,
         RowReadIsBegun, Starting
    <3> QED
      BY <3>1, <3>2 DEF GuardInWindow, TicketInWindow
  <2> QED
    BY <2>1, <2>2, <2>3
<1> QED
  BY <1>1, <1>2, <1>3, <1>4, <1>5 DEF WindowStep

\* A finding claims the guard, and the triggered rollback writes back a row of
\* an apply that was begun.
LEMMA FireSerial ==
    ASSUME SerialCalls = TRUE, TypeInv, TypeInv', NEW c \in Changesets, SerialAt(c),
           FireStep(c)
    PROVE  SerialAt(c)'
<1> USE DEF SerialAt, Begun, BegunStatus, InGates, RollingBack, Recovering, Releasing, HasSnapshot
<1>1. CASE ObserveFinding(c)
  <2>1. c \in guards /\ c \notin guards' /\ fire'[c].at = "claimed"
    BY <1>1 DEF ObserveFinding, TypeOK, FireType
  <2>2. UNCHANGED <<storeVars, lockVars, bootVars, edit, execVars>>
    BY <1>1 DEF ObserveFinding, FireFrame
  <2>3. AppliedOnce(c)'
    BY <2>1, <2>2 DEF AppliedOnce, GatesFirst, NoEditOnceBegun, ActiveIsBegun, JobOfBegun,
       RowReadIsBegun, Starting
  <2> QED
    BY <2>1, <2>2, <2>3 DEF GuardInWindow, TicketInWindow
<1>2. CASE FireRead(c)
  <2>1. /\ fire[c].at = "claimed"
        /\ fire'[c].at \in {"none", "record"}
        /\ fire'[c].at = "record" => InWindow(c)
    BY <1>2 DEF FireRead, TypeOK, NoFire
  <2>2. UNCHANGED <<storeVars, lockVars, bootVars, guards, edit, execVars>>
    BY <1>2 DEF FireRead, FireFrame
  <2>3. AppliedOnce(c)'
    BY <2>1, <2>2 DEF AppliedOnce, GatesFirst, NoEditOnceBegun, ActiveIsBegun, JobOfBegun,
       RowReadIsBegun, Starting, InWindow
  <2> QED
    BY <2>1, <2>2, <2>3 DEF GuardInWindow, TicketInWindow
<1>3. CASE RecordTriggerGet(c)
  <2>1. fire[c].at = "record" /\ fire'[c].at = "put" /\ fire'[c].row = status[c]
    BY <1>3 DEF RecordTriggerGet, TypeOK, FireType
  <2>2. UNCHANGED <<storeVars, lockVars, bootVars, guards, edit, execVars>>
    BY <1>3 DEF RecordTriggerGet, FireFrame
  <2>3. AppliedOnce(c)'
    BY <2>1, <2>2 DEF AppliedOnce, GatesFirst, NoEditOnceBegun, ActiveIsBegun, JobOfBegun,
       RowReadIsBegun, Starting
  <2> QED
    BY <2>1, <2>2, <2>3 DEF GuardInWindow, TicketInWindow
<1>4. CASE RecordTriggerPut(c)
  <2>1. fire[c].at = "put" /\ fire'[c].at = "act" /\ status'[c] = fire[c].row
    BY <1>4 DEF RecordTriggerPut, TypeOK, FireType
  <2>2. UNCHANGED <<stage, ticket, snap, lockVars, bootVars, guards, edit, execVars>>
    BY <1>4 DEF RecordTriggerPut, FireFrame
  <2>3. AppliedOnce(c)'
    BY <2>1, <2>2 DEF AppliedOnce, GatesFirst, NoEditOnceBegun, ActiveIsBegun, JobOfBegun,
       RowReadIsBegun, Starting
  <2> QED
    BY <2>1, <2>2, <2>3 DEF GuardInWindow, TicketInWindow
<1>5. CASE FireRollback(c)
  <2>1. fire[c].at = "act" /\ fire'[c] = NoFire /\ job.kind = "idle"
    BY <1>5 DEF FireRollback, TypeOK, Unlocked
  <2>2. HasSnapshot(c) /\ pc[c] \notin {"snapshot", "seal"}
    BY <2>1 DEF SnapshotInv, FireHasSnapshot, AppliedOnce, Starting
  <2>3. CASE Abort(c, FALSE)
    BY <2>1, <2>3, AbortSerial
  <2>4. CASE UNCHANGED <<storeVars, bootVars, lockVars, guards, edit, execVars>>
    <3>1. AppliedOnce(c)'
      BY <2>1, <2>4 DEF AppliedOnce, GatesFirst, NoEditOnceBegun, ActiveIsBegun, JobOfBegun,
         RowReadIsBegun, Starting, NoFire
    <3> QED
      BY <2>1, <2>4, <3>1 DEF GuardInWindow, TicketInWindow, NoFire
  <2>5. CASE /\ StartRollback(c, "awaiting_confirm", Touches[c], FALSE, FALSE)
             /\ UNCHANGED <<status, edit, execVars>>
    BY <2>1, <2>2, <2>5, RollbackStartsSerial DEF Window
  <2> QED
    BY <1>5, <2>3, <2>4, <2>5 DEF FireRollback
<1> QED
  BY <1>1, <1>2, <1>3, <1>4, <1>5 DEF FireStep

\* The section that ends a window wipes the ticket before it lets go of it.
LEMMA RollbackSerial ==
    ASSUME SerialCalls = TRUE, TypeInv, TypeInv', CrashCounted,
           NEW c \in Changesets, SerialAt(c), RollbackStep, job.cs = c
    PROVE  SerialAt(c)'
<1> USE DEF SerialAt, Begun, BegunStatus, InGates, RollingBack, Recovering, Releasing, HasSnapshot
<1>1. CASE RestoreOne
  <2>1. job'.kind = job.kind /\ job'.cs = job.cs /\ job'.copy = job.copy
    BY <1>1, RestoreOneJob
  <2>2. UNCHANGED <<storeVars, bootVars, callVars, execVars>>
    BY <1>1 DEF RestoreOne
  <2>3. AppliedOnce(c)'
    BY <2>1, <2>2 DEF AppliedOnce, GatesFirst, NoEditOnceBegun, ActiveIsBegun, JobOfBegun,
       RowReadIsBegun, Starting
  <2> QED
    BY <2>1, <2>2, <2>3 DEF GuardInWindow, TicketInWindow
<1>2. CASE RollbackPersist
  <2>1. RollingBack(c) /\ job.copy \in Window /\ Begun(c)
    BY <1>2 DEF RollbackPersist, AppliedOnce, JobOfBegun
  <2>2. /\ job'.kind = "release" /\ job'.cs = c
        /\ status'[c] = status[c] \/ status'[c] \in {"failed", "rolled_back"}
    BY <1>2, <2>1 DEF RollbackPersist, TypeOK, JobType, Transition, RollbackTarget, Window,
       AllowedTransitions
  <2>3. UNCHANGED <<stage, ticket, snap, bootVars, callVars, execVars>>
    BY <1>2 DEF RollbackPersist
  <2>4. c \notin guards /\ pc[c] \notin {"snapshot", "seal"}
    BY <2>1 DEF AppliedOnce, Starting, GuardInWindow
  <2>5. AppliedOnce(c)'
    BY <2>1, <2>2, <2>3, <2>4 DEF AppliedOnce, GatesFirst, NoEditOnceBegun, ActiveIsBegun,
       JobOfBegun, RowReadIsBegun, Starting
  <2> QED
    BY <2>2, <2>3, <2>4, <2>5 DEF GuardInWindow, TicketInWindow
<1>3. CASE RecoverPersist
  <2>1. Recovering(c) /\ up = "arming" /\ crashes > 0 /\ Begun(c)
    BY <1>3 DEF RecoverPersist, AppliedOnce, JobOfBegun, CrashCounted
  <2>2. /\ job'.kind = "releaseOwn" /\ job'.cs = c
        /\ status'[c] = status[c] \/ status'[c] = "failed"
    BY <1>3 DEF RecoverPersist, TypeOK, JobType, Transition, SnapshotInv, JobShape,
       AllowedTransitions
  <2>3. UNCHANGED <<stage, ticket, snap, bootVars, callVars, execVars>>
    BY <1>3 DEF RecoverPersist
  <2>4. c \notin guards /\ pc[c] \notin {"snapshot", "seal"}
    BY <2>1 DEF AppliedOnce, Starting, GuardInWindow
  <2>5. AppliedOnce(c)'
    BY <2>1, <2>2, <2>3, <2>4 DEF AppliedOnce, GatesFirst, NoEditOnceBegun, ActiveIsBegun,
       JobOfBegun, RowReadIsBegun, Starting
  <2> QED
    BY <2>1, <2>2, <2>3, <2>4, <2>5 DEF GuardInWindow, TicketInWindow
<1>4. CASE Release
  <2>1. job'.kind = "idle" /\ ticket'[c] = "none"
    BY <1>4 DEF Release, NoJob, WipedTicket, TypeOK
  <2>2. UNCHANGED <<status, stage, snap, bootVars, guards, fire, edit, execVars>>
    BY <1>4 DEF Release
  <2>3. AppliedOnce(c)'
    BY <2>1, <2>2 DEF AppliedOnce, GatesFirst, NoEditOnceBegun, ActiveIsBegun, JobOfBegun,
       RowReadIsBegun, Starting
  <2> QED
    BY <2>1, <2>2, <2>3 DEF GuardInWindow, TicketInWindow
<1> QED
  BY <1>1, <1>2, <1>3, <1>4 DEF RollbackStep

\* Startup takes up the changesets in their window, one by one.
LEMMA ArmSerial ==
    ASSUME SerialCalls = TRUE, TypeInv, TypeInv', NEW c \in Changesets, SerialAt(c),
           ArmAwaiting(c) \/ RecoverInterrupted(c) \/ RecoverHold(c)
    PROVE  SerialAt(c)'
<1> USE DEF SerialAt, Begun, BegunStatus, InGates, RollingBack, Recovering, Releasing, HasSnapshot
<1>1. CASE ArmAwaiting(c) \/ RecoverHold(c)
  <2>1. UNCHANGED <<storeVars, up, crashes, job, callVars, execVars>>
    BY <1>1 DEF ArmAwaiting, RecoverHold
  <2>2. AppliedOnce(c)'
    BY <2>1 DEF AppliedOnce, GatesFirst, NoEditOnceBegun, ActiveIsBegun, JobOfBegun,
       RowReadIsBegun, Starting
  <2> QED
    BY <2>1, <2>2 DEF GuardInWindow, TicketInWindow
<1>2. CASE RecoverInterrupted(c)
  <2>1. /\ up = "arming" /\ job.kind = "idle" /\ status[c] = "applying"
        /\ job'.kind = "recover" /\ job'.cs = c
        /\ stage'[c] = stage[c] \/ stage'[c] = "none"
    <3>1. up = "arming" /\ job.kind = "idle" /\ status[c] = "applying"
      BY <1>2 DEF RecoverInterrupted, Interrupted, Arming, Unlocked
    <3>2. job'.kind = "recover" /\ job'.cs = c
      BY <1>2 DEF RecoverInterrupted, NoJob
    <3>3. stage'[c] = stage[c] \/ stage'[c] = "none"
      <4>1. stage' = stage \/ stage' = Set(stage, c, "none")
        BY <1>2 DEF RecoverInterrupted
      <4> QED
        BY <4>1 DEF TypeOK
    <3> QED
      BY <3>1, <3>2, <3>3
  <2>2. UNCHANGED <<status, ticket, snap, up, crashes, callVars, execVars>>
    BY <1>2 DEF RecoverInterrupted
  <2>3. AppliedOnce(c)'
    BY <2>1, <2>2 DEF AppliedOnce, GatesFirst, NoEditOnceBegun, ActiveIsBegun, JobOfBegun,
       RowReadIsBegun, Starting
  <2> QED
    BY <2>1, <2>2, <2>3 DEF GuardInWindow, TicketInWindow
<1> QED
  BY <1>1, <1>2

\* A step of a changeset keeps SerialAt of it.
LEMMA OwnSerial ==
    ASSUME SerialCalls = TRUE, TypeInv, TypeInv', SerialInv, NEW c \in Changesets, StepOf(c)
    PROVE  SerialAt(c)'
<1>1. CASE EnvironmentStep(c)
  <2>1. /\ UNCHANGED <<status, stage, snap, bootVars, lockVars, callVars, execVars>>
        /\ ticket'[c] # "none" => ticket[c] # "none"
    BY <1>1 DEF EnvironmentStep, NodeTimerFires, TicketExpires, TypeOK
  <2>2. AppliedOnce(c)'
    BY <2>1 DEF SerialInv, SerialAt, AppliedOnce, GatesFirst, NoEditOnceBegun, ActiveIsBegun,
       JobOfBegun, RowReadIsBegun, Starting, Begun, InGates, RollingBack, Recovering, HasSnapshot
  <2> QED
    BY <2>1, <2>2 DEF SerialInv, SerialAt, GuardInWindow, TicketInWindow, RollingBack, Releasing
<1> QED
  BY <1>1, DraftSerial, ApplySerial, ExecutorSerial, StagedSerial, WindowSerial, FireSerial,
     RollbackSerial, ArmSerial DEF StepOf, SerialInv

\* A crash and the parts of the startup that are of no changeset.
LEMMA DaemonSerial ==
    ASSUME TypeInv, TypeInv', SerialInv, Crash \/ Restart \/ StartupDone,
           NEW c \in Changesets
    PROVE  SerialAt(c)'
<1> USE DEF SerialInv, SerialAt, Begun, InGates, RollingBack, Recovering, Releasing, HasSnapshot
<1>1. CASE Crash
  <2>1. /\ job'.kind = "idle" /\ up' = "down" /\ crashes' > 0
        /\ guards' = {} /\ fire'[c].at = "none" /\ edit'[c] = Absent /\ pc'[c] = "idle"
        /\ UNCHANGED <<storeVars>>
    BY <1>1 DEF Crash, NoJob, NoFire, TypeOK
  <2>2. AppliedOnce(c)'
    BY <2>1 DEF AppliedOnce, GatesFirst, NoEditOnceBegun, ActiveIsBegun, JobOfBegun,
       RowReadIsBegun, Starting
  <2> QED
    BY <2>1, <2>2 DEF GuardInWindow, TicketInWindow
<1>2. CASE Restart
  <2>1. /\ up = "down" /\ up' = "arming"
        /\ UNCHANGED <<status, stage, snap, crashes, lockVars, callVars, execVars>>
        /\ ticket'[c] # "none" => ticket[c] # "none"
    BY <1>2 DEF Restart, TypeOK
  <2>2. AppliedOnce(c)'
    BY <2>1 DEF AppliedOnce, GatesFirst, NoEditOnceBegun, ActiveIsBegun, JobOfBegun,
       RowReadIsBegun, Starting
  <2> QED
    BY <2>1, <2>2 DEF GuardInWindow, TicketInWindow
<1>3. CASE StartupDone
  <2>1. /\ up = "arming" /\ up' = "up" /\ job.kind # "recover"
        /\ UNCHANGED <<storeVars, crashes, lockVars, callVars, execVars>>
    BY <1>3 DEF StartupDone
  <2>2. AppliedOnce(c)'
    BY <2>1 DEF AppliedOnce, GatesFirst, NoEditOnceBegun, ActiveIsBegun, JobOfBegun,
       RowReadIsBegun, Starting
  <2> QED
    BY <2>1, <2>2 DEF GuardInWindow, TicketInWindow
<1> QED
  BY <1>1, <1>2, <1>3

\* An apply is begun once per changeset; while it lasts its guard and its
\* ticket are in place, and no longer.
LEMMA SerialInduction ==
    ASSUME SerialCalls = TRUE
    PROVE  Spec => []SerialInv
<1>1. Init => SerialInv
  BY DEF Init, SerialInv, SerialAt, AppliedOnce, GatesFirst, NoEditOnceBegun, ActiveIsBegun,
     JobOfBegun, RowReadIsBegun, Starting, Begun, BegunStatus, InGates, RollingBack, Recovering,
     HasSnapshot, GuardInWindow, TicketInWindow, CrashCounted, NoJob, NoFire, Absent
<1>2. TypeInv /\ TypeInv' /\ SerialInv /\ [Next]_vars => SerialInv'
  <2> SUFFICES ASSUME TypeInv, TypeInv', SerialInv, [Next]_vars PROVE SerialInv'
    OBVIOUS
  <2>1. ASSUME NEW c \in Changesets, StepOf(c) PROVE SerialInv'
    <3>1. ASSUME NEW d \in Changesets, d # c PROVE SerialAt(d)'
      BY <2>1, <3>1, Elsewhere, DaemonStill, SerialStill DEF SerialInv
    <3>2. SerialAt(c)'
      BY <2>1, OwnSerial
    <3>3. CrashCounted'
      BY <2>1, DaemonStill DEF SerialInv, CrashCounted
    <3> QED
      BY <3>1, <3>2, <3>3 DEF SerialInv
  <2>2. CASE Crash \/ Restart \/ StartupDone
    <3>1. CrashCounted'
      BY <2>2 DEF Crash, Restart, StartupDone, SerialInv, CrashCounted, TypeOK
    <3> QED
      BY <2>2, <3>1, DaemonSerial DEF SerialInv
  <2>3. CASE UNCHANGED vars
    <3>1. CrashCounted' /\ \A d \in Changesets : Still(d)
      BY <2>3 DEF vars, SerialInv, CrashCounted, Still, JobElsewhere
    <3> QED
      BY <2>3, <3>1, SerialStill DEF SerialInv, vars
  <2> QED
    BY <2>1, <2>2, <2>3, StepCases
<1> QED
  BY <1>1, <1>2, TypeInduction, PTL DEF Spec

\* A finding-triggered guard never outlives its window: every write that ends
\* a window (finishFailedApply, Confirm, doRollbackScopedLocked, the recovery)
\* comes after the disarm, and no guard is armed again. For any changesets,
\* canaries, store faults and crashes.
THEOREM GuardsEnd ==
    ASSUME SerialCalls = TRUE
    PROVE  Spec => []GuardEndsWithWindow
<1>1. TypeInv /\ SerialInv => GuardEndsWithWindow
  BY DEF TypeOK, SerialInv, SerialAt, GuardInWindow, GuardEndsWithWindow
<1> QED
  BY <1>1, TypeInduction, SerialInduction, PTL

\* The sealed PVE ticket is in the store only inside the window, or until the
\* section that closed the window has wiped it; a crash between the two may
\* leave it. For any changesets, canaries, guards and store faults: a
\* triggered rollback that writes an old row back brings no ticket back.
THEOREM TicketsEnd ==
    ASSUME SerialCalls = TRUE
    PROVE  Spec => []TicketOnlyInWindow
<1>1. SerialInv => TicketOnlyInWindow
  BY DEF SerialInv, SerialAt, TicketInWindow, TicketOnlyInWindow, Releasing
<1> QED
  BY <1>1, SerialInduction, PTL

-----------------------------------------------------------------------------
(* The end of a window, without finding guards. *)

\* EndAt(d) is about what the engine keeps of d.
LEMMA EndStill ==
    ASSUME NEW d \in Changesets, EndAt(d), Still(d)
    PROVE  EndAt(d)'
<1> USE DEF Still, JobElsewhere, RollingBack, Recovering
<1>1. Unguarded(d)'
  BY DEF EndAt, Unguarded
<1>2. CancelledIsCommitted(d)'
  BY DEF EndAt, CancelledIsCommitted
<1> QED
  BY <1>1, <1>2 DEF EndAt

\* A changeset that is not committed has no cancelled timer, and none to cancel.
LEMMA NothingCancelled ==
    ASSUME NEW c \in Changesets, EndAt(c), status[c] # "committed"
    PROVE  /\ ~(job.kind \in {"release", "releaseOwn"} /\ job.cs = c /\ job.copy = "committed")
           /\ fanout[c] = {}
           /\ \A n \in Nodes : ntimer[c][n] # "cancelled"
BY DEF EndAt, CancelledIsCommitted

\* What a step of a changeset outside its committed state may do: it cancels
\* no node timer and starts no confirm.
LEMMA EndMoves ==
    ASSUME NEW c \in Changesets, EndAt(c), status[c] # "committed",
           c \notin guards', fire'[c] = NoFire, status'[c] # "committed",
           status'[c] = "awaiting_confirm" => pc'[c] = "idle",
           (RollingBack(c) \/ Recovering(c))' => status'[c] \in Window,
           ~(job'.kind \in {"release", "releaseOwn"} /\ job'.cs = c /\ job'.copy = "committed"),
           fanout'[c] = fanout[c],
           \A n \in Nodes : ntimer'[c][n] # "cancelled"
    PROVE  EndAt(c)'
<1>1. Unguarded(c)'
  BY DEF Unguarded
<1>2. CancelledIsCommitted(c)'
  BY NothingCancelled DEF CancelledIsCommitted
<1> QED
  BY <1>1, <1>2 DEF EndAt

\* Draft operations and the gates.
LEMMA DraftEnd ==
    ASSUME SerialCalls = TRUE, Guarded = {}, TypeInv, NEW c \in Changesets, SerialAt(c), EndAt(c),
           DraftStep(c)
    PROVE  EndAt(c)'
<1>1. ~Begun(c)
  BY DEF DraftStep, Create, Approve, UpdateDraft, Discard, Validate, EditPersist, Begun,
     BegunStatus, Absent, Editable, AllowedTransitions, SerialAt, AppliedOnce, NoEditOnceBegun
<1>2. /\ status'[c] \notin {"awaiting_confirm", "committed"}
      /\ UNCHANGED <<ntimer, job, guards, fire, fanout, pc>>
  <2>1. CASE Create(c)
    BY <2>1 DEF Create, TypeOK
  <2>2. CASE EditPersist(c)
    <3>1. status' = status \/ status' = Set(status, c, edit[c])
      BY <2>2 DEF EditPersist
    <3>2. edit[c] \notin {"awaiting_confirm", "committed"}
      BY DEF SnapshotInv, EditShape, Absent
    <3> QED
      BY <2>2, <3>1, <3>2, <1>1 DEF EditPersist, TypeOK, Begun, BegunStatus
  <2>3. CASE \E s : EditRead(c, s)
    BY <2>3, <1>1 DEF EditRead, Begun, BegunStatus
  <2> QED
    BY <2>1, <2>2, <2>3 DEF DraftStep, Approve, UpdateDraft, Discard, Validate
<1>3. ~RollingBack(c) /\ ~Recovering(c)
  BY <1>1 DEF SerialAt, AppliedOnce, JobOfBegun
<1>4. status[c] # "committed"
  BY <1>1 DEF Begun, BegunStatus
<1>5. ~(RollingBack(c) \/ Recovering(c))'
  BY <1>2, <1>3 DEF RollingBack, Recovering
<1> QED
  BY <1>2, <1>4, <1>5, NothingCancelled, EndMoves DEF EndAt, Unguarded

\* The gates pass, and the executor ends, outside the committed state.
LEMMA ApplyEnd ==
    ASSUME SerialCalls = TRUE, Guarded = {}, TypeInv, NEW c \in Changesets, SerialAt(c), EndAt(c),
           ApplyStep(c)
    PROVE  EndAt(c)'
<1> USE DEF RollingBack, Recovering
<1>1. CASE BeginApply(c)
  <2>1. status[c] \in {"draft", "validated"} /\ job'.kind = "apply"
    BY <1>1 DEF BeginApply, Editable, NoJob
  <2>2. UNCHANGED <<status, ntimer, guards, fire, fanout, pc>>
    BY <1>1 DEF BeginApply
  <2> QED
    BY <2>1, <2>2, NothingCancelled, EndMoves DEF EndAt, Unguarded
<1>2. CASE GatesRefuse(c)
  <2>1. ~Begun(c) /\ job'.kind = "idle" /\ (status'[c] = status[c] \/ status'[c] = "draft")
    BY <1>2 DEF GatesRefuse, SerialAt, AppliedOnce, GatesFirst, InGates, NoJob, TypeOK
  <2>2. UNCHANGED <<ntimer, guards, fire, fanout, pc>>
    BY <1>2 DEF GatesRefuse
  <2> QED
    BY <2>1, <2>2, NothingCancelled, EndMoves DEF EndAt, Unguarded, Begun, BegunStatus
<1>3. CASE GatesPass(c)
  <2>1. ~Begun(c) /\ Editable(job.copy)
    BY <1>3 DEF GatesPass, SerialAt, AppliedOnce, GatesFirst, InGates, SnapshotInv, JobShape
  <2>2. job'.kind = "idle" /\ status'[c] = "applying"
    BY <1>3, <2>1 DEF GatesPass, NoJob, TypeOK, Editable, Transition, AllowedTransitions
  <2>3. UNCHANGED <<ntimer, guards, fire, fanout>>
    BY <1>3 DEF GatesPass
  <2> QED
    BY <2>1, <2>2, <2>3, NothingCancelled, EndMoves DEF EndAt, Unguarded, Begun, BegunStatus
<1>4. CASE FinishFailed(c)
  <2>1. /\ pc[c] # "idle" /\ job'.kind = "release" /\ job'.copy = "draft"
        /\ status'[c] = status[c] \/ status'[c] = "failed"
    BY <1>4 DEF FinishFailed, NoJob, TypeOK
  <2>2. UNCHANGED <<ntimer, fire, fanout>> /\ guards' \subseteq guards
    BY <1>4 DEF FinishFailed, DisarmedBy
  <2> QED
    BY <2>1, <2>2, NothingCancelled, EndMoves DEF EndAt, Unguarded
<1>5. CASE FinishAwaiting(c)
  <2>1. /\ pc[c] # "idle" /\ pc'[c] = "idle" /\ job.kind = "idle"
        /\ status'[c] = status[c] \/ status'[c] = "awaiting_confirm"
    BY <1>5 DEF FinishAwaiting, Unlocked, TypeOK
  <2>2. UNCHANGED <<ntimer, job, guards, fire, fanout>>
    BY <1>5 DEF FinishAwaiting
  <2> QED
    BY <2>1, <2>2, NothingCancelled, EndMoves DEF EndAt, Unguarded
<1> QED
  BY <1>1, <1>2, <1>3, <1>4, <1>5 DEF ApplyStep

\* The executor arms node timers, and runs only for a changeset that is not
\* committed.
LEMMA ExecutorEnd ==
    ASSUME Guarded = {}, TypeInv, NEW c \in Changesets, EndAt(c), ExecutorStep(c)
    PROVE  EndAt(c)'
<1> USE DEF RollingBack, Recovering
<1>1. pc[c] # "idle"
  BY DEF ExecutorStep, CaptureSnapshot, SealTicket, StageFile, ArmNode, Reload, ApplyScope, Undo,
     RunDone, UndoDone, Running
<1>2. status[c] \notin {"awaiting_confirm", "committed"}
  BY <1>1 DEF EndAt, Unguarded
<1>3. UNCHANGED <<status, job, guards, fire, fanout>>
  BY DEF ExecutorStep, CaptureSnapshot, SealTicket, StageFile, ArmNode, Reload, ApplyScope, Undo,
     RunDone, UndoDone, ExecFrame
<1>4. \A n \in Nodes : ntimer'[c][n] # "cancelled"
  <2>1. CASE UNCHANGED ntimer
    BY <2>1, <1>2, NothingCancelled
  <2>2. ASSUME NEW n \in Nodes, ntimer' = [ntimer EXCEPT ![c][n] = "armed"]
        PROVE  \A m \in Nodes : ntimer'[c][m] # "cancelled"
    <3>1. "armed" \in TimerState
      BY DEF TimerState
    <3> QED
      BY <2>2, <3>1, <1>2, NothingCancelled, NodeTimerTypes
  <2> QED
    BY <2>1, <2>2 DEF ExecutorStep, CaptureSnapshot, SealTicket, StageFile, ArmNode, Reload,
       ApplyScope, Undo, RunDone, UndoDone
<1> QED
  BY <1>2, <1>3, <1>4, NothingCancelled, EndMoves DEF EndAt, Unguarded

\* A step that touches none of what EndAt is about.
LEMMA EndFrame ==
    ASSUME NEW c \in Changesets, EndAt(c), UNCHANGED <<status, job, guards, fire, fanout, pc, ntimer>>
    PROVE  EndAt(c)'
<1>1. Unguarded(c)'
  BY DEF EndAt, Unguarded, RollingBack, Recovering
<1>2. CancelledIsCommitted(c)'
  BY DEF EndAt, CancelledIsCommitted
<1> QED
  BY <1>1, <1>2 DEF EndAt

\* The beginning of a rollback, for any caller inside the window.
LEMMA RollbackStartsEnd ==
    ASSUME TypeInv, NEW c \in Changesets, EndAt(c), status[c] # "committed",
           NEW copy, NEW scope, NEW session, NEW clear,
           StartRollback(c, copy, scope, session, clear),
           status'[c] \in Window, status'[c] = "awaiting_confirm" => pc'[c] = "idle",
           UNCHANGED <<fire, fanout>>
    PROVE  EndAt(c)'
<1>1. job'.kind = "rollback" /\ guards' \subseteq guards /\ UNCHANGED ntimer
  BY DEF StartRollback, DisarmedBy
<1>2. status'[c] # "committed"
  BY DEF Window
<1> QED
  BY <1>1, <1>2, NothingCancelled, EndMoves DEF EndAt, Unguarded

\* An abort is of an applying changeset.
LEMMA AbortEnd ==
    ASSUME TypeInv, NEW c \in Changesets, EndAt(c), NEW session, Abort(c, session), UNCHANGED fire
    PROVE  EndAt(c)'
<1>1. /\ status[c] = "applying"
      /\ StartRollback(c, status[c], StageScope(c, "canary"), session, TRUE)
      /\ UNCHANGED <<status, fanout, pc>>
  BY DEF Abort, Abortable
<1> QED
  BY <1>1, RollbackStartsEnd DEF Window

\* The canary strategy starts from and leads to an applying changeset.
LEMMA StagedEnd ==
    ASSUME TypeInv, NEW c \in Changesets, EndAt(c), StagedStep(c)
    PROVE  EndAt(c)'
<1>a. ASSUME Claim(c) PROVE EndAt(c)'
  <2>1. status[c] = "applying" /\ UNCHANGED <<status, job, guards, fire, fanout, ntimer>>
    BY <1>a DEF Claim, Paused
  <2> QED
    BY <2>1, NothingCancelled, EndMoves DEF EndAt, Unguarded, RollingBack, Recovering
<1>1. CASE HoldAfterCanary(c)
  <2>1. /\ pc[c] = "holding" /\ pc'[c] = "idle" /\ job.kind = "idle"
        /\ status'[c] = status[c] \/ status'[c] = "applying"
        /\ UNCHANGED <<fire, fanout>>
    BY <1>1 DEF HoldAfterCanary, Unlocked, TypeOK
  <2>2. status[c] \notin {"awaiting_confirm", "committed"}
    BY <2>1 DEF EndAt, Unguarded
  <2>3. CASE /\ StartRollback(c, "applying", StageScope(c, "canary"), FALSE, TRUE)
             /\ status' = Set(status, c, "applying")
    <3>1. status'[c] = "applying"
      BY <2>3 DEF TypeOK
    <3> QED
      BY <2>1, <2>2, <2>3, <3>1, RollbackStartsEnd DEF Window
  <2>4. CASE UNCHANGED <<worldVars, lockVars, guards>>
    BY <2>1, <2>2, <2>4, NothingCancelled, EndMoves DEF EndAt, Unguarded, RollingBack, Recovering
  <2> QED
    BY <1>1, <2>3, <2>4 DEF HoldAfterCanary
<1>2. CASE ContinueStagedApply(c)
  BY <1>2, <1>a DEF ContinueStagedApply
<1>3. CASE AbortStagedApply(c)
  BY <1>3, AbortEnd DEF AbortStagedApply
<1>4. CASE HoldExpires(c) \/ OnHoldExpired(c)
  BY <1>4, EndFrame DEF HoldExpires, OnHoldExpired
<1>5. CASE ResolveHold(c)
  <2>1. CASE UNCHANGED <<storeVars, worldVars, bootVars, lockVars, timer, callVars, execVars>>
    BY <2>1, EndFrame
  <2> QED
    BY <1>5, <2>1, <1>a, AbortEnd DEF ResolveHold
<1>6. CASE ClearStage(c)
  <2>1. UNCHANGED <<status, job, guards, fire, fanout, ntimer>>
    BY <1>6 DEF ClearStage
  <2>2. CASE UNCHANGED pc
    BY <2>1, <2>2, EndFrame
  <2>3. CASE pc[c] # "idle"
    <3>1. status[c] \notin {"awaiting_confirm", "committed"}
      BY <2>3 DEF EndAt, Unguarded
    <3> QED
      BY <2>1, <3>1, NothingCancelled, EndMoves DEF EndAt, Unguarded, RollingBack, Recovering
  <2> QED
    BY <1>6, <2>2, <2>3 DEF ClearStage
<1> QED
  BY <1>1, <1>2, <1>3, <1>4, <1>5, <1>6 DEF StagedStep

\* Confirm alone leads to a committed changeset and to its fan-out.
LEMMA WindowEnd ==
    ASSUME TypeInv, NEW c \in Changesets, EndAt(c), WindowStep(c)
    PROVE  EndAt(c)'
<1>1. CASE Confirm(c)
  <2>1. /\ status[c] = "awaiting_confirm" /\ guards' \subseteq guards
        /\ UNCHANGED <<ntimer, fire, fanout, pc>>
    BY <1>1 DEF Confirm, AwaitsConfirm, DisarmedBy
  <2>2. CASE UNCHANGED <<status, job>>
    BY <2>1, <2>2, NothingCancelled, EndMoves DEF EndAt, Unguarded, RollingBack, Recovering
  <2>3. CASE /\ status' = Set(status, c, "committed")
             /\ job' = [NoJob EXCEPT !.kind = "release", !.cs = c, !.copy = "committed"]
    <3>1. status'[c] = "committed" /\ job'.kind = "release"
      BY <2>3 DEF NoJob, TypeOK
    <3>2. Unguarded(c)'
      BY <2>1, <3>1 DEF EndAt, Unguarded, RollingBack, Recovering
    <3> QED
      BY <3>1, <3>2 DEF EndAt, CancelledIsCommitted
  <2> QED
    BY <1>1, <2>2, <2>3 DEF Confirm
<1>2. ASSUME NEW n \in Nodes, CancelNodeTimer(c, n) PROVE EndAt(c)'
  <2>1. fanout[c] # {} /\ UNCHANGED <<status, job, guards, fire, pc>>
    BY <1>2 DEF CancelNodeTimer
  <2>2. status[c] = "committed"
    BY <2>1 DEF EndAt, CancelledIsCommitted
  <2>3. Unguarded(c)'
    BY <2>1 DEF EndAt, Unguarded, RollingBack, Recovering
  <2> QED
    BY <2>1, <2>2, <2>3 DEF EndAt, CancelledIsCommitted
<1>3. CASE Rollback(c)
  <2>1. status[c] = "awaiting_confirm" /\ pc[c] = "idle" /\ UNCHANGED <<status, fire, fanout, pc>>
    BY <1>3 DEF Rollback, AwaitsConfirm, EndAt, Unguarded
  <2> QED
    BY <1>3, <2>1, RollbackStartsEnd DEF Rollback, Window
<1>4. CASE TimerExpires(c)
  BY <1>4, EndFrame DEF TimerExpires
<1>5. CASE TimerCallback(c)
  <2>1. CASE AwaitsConfirm(c)
    <3>1. /\ StartRollback(c, status[c], Touches[c], FALSE, FALSE)
          /\ status[c] = "awaiting_confirm" /\ pc[c] = "idle"
          /\ UNCHANGED <<status, fire, fanout, pc>>
      BY <1>5, <2>1 DEF TimerCallback, AwaitsConfirm, Abortable, EndAt, Unguarded
    <3> QED
      BY <3>1, RollbackStartsEnd DEF Window
  <2>2. CASE ~AwaitsConfirm(c) /\ Abortable(c)
    BY <1>5, <2>2, AbortEnd DEF TimerCallback
  <2>3. CASE ~AwaitsConfirm(c) /\ ~Abortable(c)
    BY <1>5, <2>3, EndFrame DEF TimerCallback
  <2> QED
    BY <2>1, <2>2, <2>3
<1> QED
  BY <1>1, <1>2, <1>3, <1>4, <1>5 DEF WindowStep

\* A node timer that fires was not cancelled.
LEMMA EnvironmentEnd ==
    ASSUME TypeInv, NEW c \in Changesets, EndAt(c), EnvironmentStep(c)
    PROVE  EndAt(c)'
<1>1. ASSUME NEW n \in Nodes, NodeTimerFires(c, n) PROVE EndAt(c)'
  <2>1. UNCHANGED <<status, job, guards, fire, fanout, pc>>
    BY <1>1 DEF NodeTimerFires
  <2>2. PICK v \in {"rolled_back", "rollback_failed"} : ntimer' = [ntimer EXCEPT ![c][n] = v]
    BY <1>1 DEF NodeTimerFires
  <2>3. \A m \in Nodes : ntimer'[c][m] = "cancelled" => ntimer[c][m] = "cancelled"
    <3>1. v \in TimerState /\ v # "cancelled"
      BY DEF TimerState
    <3> QED
      BY <2>2, <3>1, NodeTimerTypes
  <2>4. Unguarded(c)'
    BY <2>1 DEF EndAt, Unguarded, RollingBack, Recovering
  <2> QED
    BY <2>1, <2>3, <2>4 DEF EndAt, CancelledIsCommitted
<1>2. CASE TicketExpires(c)
  BY <1>2, EndFrame DEF TicketExpires
<1> QED
  BY <1>1, <1>2 DEF EnvironmentStep

\* A rollback and a recovery end a window that nothing else ends meanwhile.
LEMMA RollbackEnd ==
    ASSUME TypeInv, NEW c \in Changesets, SerialAt(c), EndAt(c), RollbackStep, job.cs = c
    PROVE  EndAt(c)'
<1> USE DEF RollingBack, Recovering
<1>1. CASE RestoreOne
  <2>1. job'.kind = job.kind /\ job'.cs = job.cs /\ job'.copy = job.copy
    BY <1>1, RestoreOneJob
  <2>2. UNCHANGED <<status, ntimer, guards, fire, fanout, pc>>
    BY <1>1 DEF RestoreOne
  <2>3. status[c] \in Window
    BY <1>1 DEF RestoreOne, EndAt, Unguarded
  <2> QED
    BY <2>1, <2>2, <2>3, NothingCancelled, EndMoves DEF EndAt, Unguarded, Window
<1>2. CASE RollbackPersist \/ RecoverPersist
  <2>1. status[c] \in Window /\ job.copy \in Window
    BY <1>2 DEF RollbackPersist, RecoverPersist, EndAt, Unguarded, SerialAt, AppliedOnce,
       JobOfBegun, SnapshotInv, JobShape, Window
  <2>2. /\ job'.kind \in {"release", "releaseOwn"} /\ job'.copy = job.copy
        /\ UNCHANGED <<ntimer, guards, fire, fanout, pc>>
    BY <1>2 DEF RollbackPersist, RecoverPersist, TypeOK, JobType
  <2>3. status'[c] = status[c] \/ status'[c] \in {"failed", "rolled_back"}
    BY <1>2, <2>1 DEF RollbackPersist, RecoverPersist, TypeOK, Transition, RollbackTarget, Window,
       AllowedTransitions
  <2> QED
    BY <2>1, <2>2, <2>3, NothingCancelled, EndMoves DEF EndAt, Unguarded, Window
<1>3. CASE Release
  <2>1. job'.kind = "idle" /\ UNCHANGED <<status, ntimer, guards, fire, pc>>
    BY <1>3 DEF Release, NoJob
  <2>2. Unguarded(c)'
    BY <2>1 DEF EndAt, Unguarded
  <2>3. CASE job.copy = "committed"
    <3>1. status[c] = "committed"
      BY <1>3, <2>3 DEF Release, EndAt, CancelledIsCommitted
    <3> QED
      BY <2>1, <2>2, <3>1 DEF EndAt, CancelledIsCommitted
  <2>4. CASE job.copy # "committed"
    <3>1. UNCHANGED fanout
      BY <1>3, <2>4 DEF Release, CancelFanout
    <3> QED
      BY <2>1, <2>2, <3>1 DEF EndAt, CancelledIsCommitted
  <2> QED
    BY <2>3, <2>4
<1> QED
  BY <1>1, <1>2, <1>3 DEF RollbackStep

\* Startup leaves the rows to the sections it starts.
LEMMA ArmEnd ==
    ASSUME TypeInv, NEW c \in Changesets, EndAt(c),
           ArmAwaiting(c) \/ RecoverInterrupted(c) \/ RecoverHold(c)
    PROVE  EndAt(c)'
<1>1. CASE ArmAwaiting(c) \/ RecoverHold(c)
  BY <1>1, EndFrame DEF ArmAwaiting, RecoverHold
<1>2. CASE RecoverInterrupted(c)
  <2>1. status[c] = "applying" /\ UNCHANGED <<status, ntimer, guards, fire, fanout, pc>>
    BY <1>2 DEF RecoverInterrupted, Interrupted
  <2>2. job'.kind = "recover"
    BY <1>2 DEF RecoverInterrupted, NoJob
  <2> QED
    BY <2>1, <2>2, NothingCancelled, EndMoves DEF EndAt, Unguarded, Window
<1> QED
  BY <1>1, <1>2

\* Without finding guards a changeset has an executor only until its apply is
\* awaiting confirmation, a rollback meets no other end of its window, and a
\* node timer is cancelled only for a changeset that is and stays committed.
LEMMA EndInduction ==
    ASSUME SerialCalls = TRUE, Guarded = {}
    PROVE  Spec => []EndInv
<1>1. Init => EndInv
  BY DEF Init, EndInv, EndAt, Unguarded, CancelledIsCommitted, RollingBack, Recovering, NoJob,
     Absent
<1>2. TypeInv /\ SerialInv /\ EndInv /\ [Next]_vars => EndInv'
  <2> SUFFICES ASSUME TypeInv, SerialInv, EndInv, [Next]_vars PROVE EndInv'
    OBVIOUS
  <2>1. ASSUME NEW c \in Changesets, StepOf(c) PROVE EndInv'
    <3>1. ASSUME NEW d \in Changesets, d # c PROVE EndAt(d)'
      BY <2>1, <3>1, Elsewhere, EndStill DEF EndInv
    <3>2. SerialAt(c) /\ EndAt(c)
      BY DEF SerialInv, EndInv
    <3>3. ~FireStep(c)
      <4>1. c \notin guards /\ fire[c].at = "none"
        BY <3>2 DEF EndAt, Unguarded, NoFire
      <4> QED
        BY <4>1 DEF FireStep, ObserveFinding, FireRead, RecordTriggerGet, RecordTriggerPut,
           FireRollback
    <3>4. EndAt(c)'
      BY <2>1, <3>2, <3>3, DraftEnd, ApplyEnd, ExecutorEnd, StagedEnd, WindowEnd, EnvironmentEnd,
         RollbackEnd, ArmEnd DEF StepOf
    <3> QED
      BY <3>1, <3>4 DEF EndInv
  <2>2. CASE Crash
    <3> SUFFICES ASSUME NEW c \in Changesets PROVE EndAt(c)'
      BY DEF EndInv
    <3>1. /\ job'.kind = "idle" /\ guards' = {} /\ fire'[c] = NoFire /\ fanout'[c] = {}
          /\ pc'[c] = "idle" /\ UNCHANGED <<status, ntimer>>
      BY <2>2 DEF Crash, NoJob
    <3>2. Unguarded(c)'
      BY <3>1 DEF Unguarded, RollingBack, Recovering
    <3> QED
      BY <3>1, <3>2 DEF EndInv, EndAt, CancelledIsCommitted
  <2>3. CASE Restart \/ StartupDone \/ UNCHANGED vars
    BY <2>3, EndFrame DEF Restart, StartupDone, vars, EndInv
  <2> QED
    BY <2>1, <2>2, <2>3, StepCases
<1> QED
  BY <1>1, <1>2, TypeInduction, SerialInduction, PTL DEF Spec

-----------------------------------------------------------------------------
(* The clocks of a window and of a hold, with a store that works. *)

\* TimedAt(d) is about what the engine keeps of d and the daemon's state.
LEMMA TimedStill ==
    ASSUME NEW d \in Changesets, TimedAt(d), Still(d), UNCHANGED up
    PROVE  TimedAt(d)'
BY DEF TimedAt, Timed, Paused, Still, JobElsewhere, RollingBack

\* A step that touches none of what TimedAt is about.
LEMMA TimedFrame ==
    ASSUME NEW c \in Changesets, TimedAt(c), UNCHANGED <<status, stage, up, toArm, timer, hold, job>>
    PROVE  TimedAt(c)'
BY DEF TimedAt, Timed, Paused, RollingBack

\* Outside the window and the hold there is nothing to time.
LEMMA NothingTimed ==
    ASSUME NEW c, status'[c] # "awaiting_confirm",
           status'[c] # "applying" \/ stage'[c] # "canary_hold"
    PROVE  TimedAt(c)'
BY DEF TimedAt, Paused

\* A rollback that starts will end the window and the hold.
LEMMA RollbackTimes ==
    ASSUME NEW c, NEW copy, NEW scope, NEW session, NEW clear,
           StartRollback(c, copy, scope, session, clear)
    PROVE  TimedAt(c)'
BY DEF StartRollback, TimedAt, Timed, RollingBack

\* A draft operation stays outside the window.
LEMMA DraftTimed ==
    ASSUME SerialCalls = TRUE, TypeInv, NEW c \in Changesets, SerialAt(c), DraftStep(c)
    PROVE  TimedAt(c)'
<1>1. ~Begun(c)
  BY DEF DraftStep, Create, Approve, UpdateDraft, Discard, Validate, EditPersist, Begun,
     BegunStatus, Absent, Editable, AllowedTransitions, SerialAt, AppliedOnce, NoEditOnceBegun
<1>2. status'[c] \notin Window
  <2>1. CASE Create(c)
    BY <2>1 DEF Create, TypeOK, Window
  <2>2. CASE EditPersist(c)
    <3>1. status' = status \/ status' = Set(status, c, edit[c])
      BY <2>2 DEF EditPersist
    <3>2. edit[c] \notin Window
      BY DEF SnapshotInv, EditShape, Absent, Window
    <3> QED
      BY <3>1, <3>2, <1>1 DEF TypeOK, Begun, BegunStatus, Window
  <2>3. CASE UNCHANGED status
    BY <2>3, <1>1 DEF Begun, BegunStatus, Window
  <2> QED
    BY <2>1, <2>2, <2>3 DEF DraftStep, Approve, UpdateDraft, Discard, Validate, EditRead
<1> QED
  BY <1>2, NothingTimed DEF Window

\* The apply arms the timer with the row it writes.
LEMMA ApplyTimed ==
    ASSUME SerialCalls = TRUE, StoreFaults = FALSE, TypeInv, NEW c \in Changesets, SerialAt(c),
           TimedAt(c), ApplyStep(c)
    PROVE  TimedAt(c)'
<1>a. StoreOk = {TRUE}
  BY DEF StoreOk
<1>1. CASE BeginApply(c)
  <2>1. status[c] \in {"draft", "validated"} /\ UNCHANGED status
    BY <1>1 DEF BeginApply, Editable
  <2> QED
    BY <2>1, NothingTimed
<1>2. CASE GatesRefuse(c)
  <2>1. ~Begun(c) /\ (status'[c] = status[c] \/ status'[c] = "draft")
    BY <1>2 DEF GatesRefuse, SerialAt, AppliedOnce, GatesFirst, InGates, TypeOK
  <2> QED
    BY <2>1, NothingTimed DEF Begun, BegunStatus
<1>3. CASE GatesPass(c)
  <2>1. ~Begun(c) /\ Editable(job.copy) /\ UNCHANGED stage
    BY <1>3 DEF GatesPass, SerialAt, AppliedOnce, GatesFirst, InGates, SnapshotInv, JobShape
  <2>2. status'[c] = "applying"
    BY <1>3, <2>1 DEF GatesPass, TypeOK, Editable, Transition, AllowedTransitions
  <2>3. stage[c] = "none"
    BY <2>1 DEF SerialAt, AppliedOnce, ActiveIsBegun, SnapshotInv, RowHasSnapshot
  <2> QED
    BY <2>1, <2>2, <2>3, NothingTimed
<1>4. CASE FinishFailed(c)
  <2>1. status'[c] = "failed"
    BY <1>4, <1>a DEF FinishFailed, TypeOK
  <2> QED
    BY <2>1, NothingTimed
<1>5. CASE FinishAwaiting(c)
  <2>1. status'[c] = "awaiting_confirm" /\ timer'[c] = "armed"
    BY <1>5, <1>a DEF FinishAwaiting, TypeOK
  <2> QED
    BY <2>1 DEF TimedAt, Timed, Paused
<1> QED
  BY <1>1, <1>2, <1>3, <1>4, <1>5 DEF ApplyStep

\* A hold is armed with its row, and given up when the row is no hold's.
LEMMA StagedTimed ==
    ASSUME StoreFaults = FALSE, TypeInv, NEW c \in Changesets, TimedAt(c), StagedStep(c)
    PROVE  TimedAt(c)'
<1>a. StoreOk = {TRUE}
  BY DEF StoreOk
<1>b. ASSUME Claim(c) PROVE TimedAt(c)'
  <2>1. status'[c] = "applying" /\ stage'[c] = "promoting"
    BY <1>b DEF Claim, Paused, TypeOK
  <2> QED
    BY <2>1, NothingTimed
<1>c. ASSUME NEW session, Abort(c, session) PROVE TimedAt(c)'
  BY <1>c, RollbackTimes DEF Abort
<1>1. CASE HoldAfterCanary(c)
  <2>1. /\ status' = Set(status, c, "applying")
        /\ hold' = Set(hold, c, "armed")
    BY <1>1, <1>a DEF HoldAfterCanary
  <2>2. status'[c] = "applying" /\ hold'[c] = "armed"
    BY <2>1 DEF TypeOK
  <2> QED
    BY <2>2 DEF TimedAt, Timed
<1>2. CASE ContinueStagedApply(c)
  BY <1>2, <1>b DEF ContinueStagedApply
<1>3. CASE AbortStagedApply(c)
  BY <1>3, <1>c DEF AbortStagedApply
<1>4. CASE HoldExpires(c)
  <2>1. hold'[c] = "fired" /\ UNCHANGED <<status, stage, up, toArm, timer, job>>
    BY <1>4 DEF HoldExpires, TypeOK
  <2> QED
    BY <2>1 DEF TimedAt, Timed, Paused, RollingBack
<1>5. CASE OnHoldExpired(c)
  <2>1. /\ Paused(c) => hold'[c] = "resolving"
        /\ UNCHANGED <<status, stage, up, toArm, timer, job>>
    BY <1>5 DEF OnHoldExpired, TypeOK
  <2> QED
    BY <2>1 DEF TimedAt, Timed, Paused, RollingBack
<1>6. CASE ResolveHold(c)
  <2>1. CASE /\ ~Paused(c) \/ StoreFaults
             /\ UNCHANGED <<storeVars, worldVars, bootVars, lockVars, timer, callVars, execVars>>
    BY <2>1 DEF TimedAt, Timed, Paused, RollingBack
  <2> QED
    BY <1>6, <2>1, <1>b, <1>c DEF ResolveHold
<1>7. CASE ClearStage(c)
  <2>1. stage'[c] = "none" /\ UNCHANGED <<status, up, toArm, timer, job>>
    BY <1>7, <1>a DEF ClearStage, TypeOK
  <2> QED
    BY <2>1 DEF TimedAt, Timed, Paused, RollingBack
<1> QED
  BY <1>1, <1>2, <1>3, <1>4, <1>5, <1>6, <1>7 DEF StagedStep

\* A timer is stopped or spent only by what ends the window.
LEMMA WindowTimed ==
    ASSUME StoreFaults = FALSE, TypeInv, NEW c \in Changesets, TimedAt(c), WindowStep(c)
    PROVE  TimedAt(c)'
<1>1. CASE Confirm(c)
  <2>1. status' = Set(status, c, "committed")
    BY <1>1 DEF Confirm, StoreOk
  <2>2. status'[c] = "committed"
    BY <2>1 DEF TypeOK
  <2> QED
    BY <2>2, NothingTimed
<1>2. ASSUME NEW n \in Nodes, CancelNodeTimer(c, n) PROVE TimedAt(c)'
  BY <1>2, TimedFrame DEF CancelNodeTimer
<1>3. CASE Rollback(c)
  BY <1>3, RollbackTimes DEF Rollback
<1>4. CASE TimerExpires(c)
  <2>1. timer'[c] = "fired" /\ UNCHANGED <<status, stage, up, toArm, hold, job>>
    BY <1>4 DEF TimerExpires, TypeOK
  <2> QED
    BY <2>1 DEF TimedAt, Timed, Paused, RollingBack
<1>5. CASE TimerCallback(c)
  <2>1. CASE AwaitsConfirm(c)
    <3>1. StartRollback(c, status[c], Touches[c], FALSE, FALSE)
      BY <1>5, <2>1 DEF TimerCallback, AwaitsConfirm, Abortable
    <3> QED
      BY <3>1, RollbackTimes
  <2>2. CASE ~AwaitsConfirm(c) /\ Abortable(c)
    BY <1>5, <2>2, RollbackTimes DEF TimerCallback, Abort
  <2>3. CASE ~AwaitsConfirm(c) /\ ~Abortable(c)
    <3>1. UNCHANGED <<status, stage>>
      BY <1>5, <2>3 DEF TimerCallback
    <3> QED
      BY <2>3, <3>1, NothingTimed DEF AwaitsConfirm, Abortable
  <2> QED
    BY <2>1, <2>2, <2>3
<1> QED
  BY <1>1, <1>2, <1>3, <1>4, <1>5 DEF WindowStep

\* A rollback and a recovery write the end of the window.
LEMMA RollbackTimed ==
    ASSUME StoreFaults = FALSE, TypeInv, NEW c \in Changesets, SerialAt(c), TimedAt(c),
           RollbackStep, job.cs = c
    PROVE  TimedAt(c)'
<1>1. CASE RestoreOne
  <2>1. job'.kind = job.kind /\ job'.cs = job.cs
    BY <1>1, RestoreOneJob
  <2>2. UNCHANGED <<status, stage, up, toArm, timer, hold>>
    BY <1>1 DEF RestoreOne
  <2> QED
    BY <2>1, <2>2 DEF TimedAt, Timed, Paused, RollingBack
<1>2. CASE RollbackPersist \/ RecoverPersist
  <2>1. job.copy \in Window /\ (job.kind = "recover" => job.copy = "applying")
    BY <1>2 DEF RollbackPersist, RecoverPersist, SerialAt, AppliedOnce, JobOfBegun, RollingBack,
       SnapshotInv, JobShape, Window
  <2>2. status'[c] \in {"failed", "rolled_back"}
    BY <1>2, <2>1 DEF RollbackPersist, RecoverPersist, TypeOK, Transition, RollbackTarget, Window,
       AllowedTransitions, StoreOk
  <2> QED
    BY <2>2, NothingTimed
<1>3. CASE Release
  <2>1. job.kind # "rollback" /\ UNCHANGED <<status, stage, up, toArm, timer, hold>>
    BY <1>3 DEF Release
  <2> QED
    BY <2>1 DEF TimedAt, Timed, Paused, RollingBack
<1> QED
  BY <1>1, <1>2, <1>3 DEF RollbackStep

\* Startup arms what it takes off its list.
LEMMA ArmTimed ==
    ASSUME StoreFaults = FALSE, TypeInv, NEW c \in Changesets,
           ArmAwaiting(c) \/ RecoverInterrupted(c) \/ RecoverHold(c)
    PROVE  TimedAt(c)'
<1>1. CASE ArmAwaiting(c)
  <2>1. status[c] = "awaiting_confirm" /\ timer'[c] = "armed" /\ UNCHANGED <<status, stage>>
    BY <1>1 DEF ArmAwaiting, TypeOK
  <2> QED
    BY <2>1 DEF TimedAt, Timed, Paused
<1>2. CASE RecoverHold(c)
  <2>1. status[c] = "applying" /\ hold'[c] # "none" /\ UNCHANGED <<status, stage>>
    BY <1>2 DEF RecoverHold, Interrupted, TypeOK
  <2> QED
    BY <2>1 DEF TimedAt, Timed, Paused
<1>3. CASE RecoverInterrupted(c)
  <2>1. status[c] = "applying" /\ stage[c] # "canary_hold" /\ UNCHANGED status
    BY <1>3 DEF RecoverInterrupted, Interrupted
  <2>2. stage'[c] # "canary_hold"
    <3>1. stage' = stage \/ stage' = Set(stage, c, "none")
      BY <1>3 DEF RecoverInterrupted
    <3> QED
      BY <2>1, <3>1 DEF TypeOK
  <2> QED
    BY <2>1, <2>2, NothingTimed
<1> QED
  BY <1>1, <1>2, <1>3

\* Every window and every hold has its clock while the daemon runs.
LEMMA TimedInduction ==
    ASSUME SerialCalls = TRUE, StoreFaults = FALSE, Guarded = {}
    PROVE  Spec => []TimedInv
<1>1. Init => TimedInv
  BY DEF Init, TimedInv, TimedAt, Timed, Paused, Absent
<1>2. TypeInv /\ SerialInv /\ EndInv /\ TimedInv /\ [Next]_vars => TimedInv'
  <2> SUFFICES ASSUME TypeInv, SerialInv, EndInv, TimedInv, [Next]_vars PROVE TimedInv'
    OBVIOUS
  <2>1. ASSUME NEW c \in Changesets, StepOf(c) PROVE TimedInv'
    <3>1. ASSUME NEW d \in Changesets, d # c PROVE TimedAt(d)'
      BY <2>1, <3>1, Elsewhere, DaemonStill, TimedStill DEF TimedInv
    <3>2. SerialAt(c) /\ EndAt(c)
      BY DEF SerialInv, EndInv
    <3>t. TimedAt(c)
      BY DEF TimedInv
    <3>3. ~FireStep(c)
      <4>1. c \notin guards /\ fire[c].at = "none"
        BY <3>2 DEF EndAt, Unguarded, NoFire
      <4> QED
        BY <4>1 DEF FireStep, ObserveFinding, FireRead, RecordTriggerGet, RecordTriggerPut,
           FireRollback
    <3>4. ASSUME ExecutorStep(c) \/ EnvironmentStep(c) PROVE TimedAt(c)'
      <4>1. UNCHANGED <<status, stage, up, toArm, timer, hold, job>>
        BY <3>4 DEF ExecutorStep, CaptureSnapshot, SealTicket, StageFile, ArmNode, Reload,
           ApplyScope, Undo, RunDone, UndoDone, ExecFrame, EnvironmentStep, NodeTimerFires,
           TicketExpires
      <4> QED
        BY <3>t, <4>1, TimedFrame
    <3>5. TimedAt(c)'
      BY <2>1, <3>2, <3>t, <3>3, <3>4, DraftTimed, ApplyTimed, StagedTimed, WindowTimed,
         RollbackTimed, ArmTimed DEF StepOf
    <3> QED
      BY <3>1, <3>5 DEF TimedInv
  <2>2. CASE Crash
    BY <2>2 DEF Crash, TimedInv, TimedAt
  <2>3. CASE Restart
    BY <2>3 DEF Restart, TimedInv, TimedAt, Timed, Paused, Window
  <2>4. CASE StartupDone
    BY <2>4 DEF StartupDone, TimedInv, TimedAt, Timed, Paused, RollingBack
  <2>5. CASE UNCHANGED vars
    BY <2>5, TimedFrame DEF vars, TimedInv
  <2> QED
    BY <2>1, <2>2, <2>3, <2>4, <2>5, StepCases
<1> QED
  BY <1>1, <1>2, TypeInduction, SerialInduction, EndInduction, PTL DEF Spec

\* No window and no canary hold is left to an operator alone, over any number
\* of crashes and restarts at any point and for any changesets and canaries,
\* with a store that works and without finding guards (with either the code
\* leaves windows without a timer, which the findings record).
THEOREM WindowsTimed ==
    ASSUME SerialCalls = TRUE, StoreFaults = FALSE, Guarded = {}
    PROVE  Spec => []NeverUntimed
<1>1. TimedInv => NeverUntimed
  BY DEF TimedInv, TimedAt, Timed, NeverUntimed, WindowIsTimed, HoldIsTimed, RollingBack
<1> QED
  BY <1>1, TimedInduction, PTL

=============================================================================
