-------------------------- MODULE EngineInvariants --------------------------
(***************************************************************************)
(* The inductive invariants behind the theorems of EngineProofs, in a      *)
(* module of their own so that TLC checks them on the instances first.     *)
(***************************************************************************)
EXTENDS EngineProperties

-----------------------------------------------------------------------------
(* Snapshots. A restore writes back what the pre-apply snapshot holds, so
   every state from which one can start must have a snapshot. *)

HasSnapshot(c) == snap[c] # None

ExecutorHasSnapshot ==
    \A c \in Changesets :
        pc[c] \notin {"idle", "snapshot", "fail"} => HasSnapshot(c)

TimerHasSnapshot ==
    \A c \in Changesets, n \in Nodes : ntimer[c][n] = "armed" => HasSnapshot(c)

RowHasSnapshot ==
    \A c \in Changesets :
        status[c] = "awaiting_confirm" \/ stage[c] # "none" => HasSnapshot(c)

FireHasSnapshot ==
    \A c \in Changesets : fire[c].at \in {"record", "put", "act"} => HasSnapshot(c)

\* The section that holds applyMu: what it works on, and the row it copied.
JobShape ==
    /\ job.kind # "idle" => job.cs \in Changesets
    /\ job.kind = "apply" => Editable(job.copy)
    /\ job.kind = "rollback" => HasSnapshot(job.cs)
    /\ job.kind = "recover" =>
           job.copy = "applying" /\ (job.todo # {} => HasSnapshot(job.cs))

EditShape == \A c \in Changesets : edit[c] \in {Absent, "draft", "validated", "discarded"}

\* Nothing that restores a node or a scope runs without a pre-apply snapshot:
\* the executor's undo, a node's timer, every rollback of a window or a hold,
\* a triggered rollback half-way through its unlocked steps, the recovery.
SnapshotInv ==
    /\ ExecutorHasSnapshot
    /\ TimerHasSnapshot
    /\ RowHasSnapshot
    /\ FireHasSnapshot
    /\ JobShape
    /\ EditShape

-----------------------------------------------------------------------------
(* The single-applier lock, for applies in one pass without finding guards
   (Canary = {}, Guarded = {}), serial clients and a store that works. *)

\* What the canary strategy and the guards would use stays unused.
OnePass ==
    /\ guards = {}
    /\ clearing = {}
    /\ ~job.clear
    /\ \A c \in Changesets :
           /\ stage[c] = "none"
           /\ hold[c] = "none"
           /\ fire[c] = NoFire
           /\ mode[c] = "all"
           /\ pc[c] \notin {"holding", "clearDone", "clearFail"}

\* The executor's changeset is applying and holds the lock.
ExecutorOwnsLock ==
    \A c \in Changesets :
        pc[c] # "idle" => up = "up" /\ status[c] = "applying" /\ lockHeldBy = c

\* A pending edit is of a changeset that no apply has touched, and will move
\* its row along the status graph, if at all.
EditsOutsideWindow ==
    \A c \in Changesets :
        edit[c] # Absent =>
            /\ status[c] \in {"draft", "validated", "requested"}
            /\ job.cs # c
            /\ edit[c] = status[c] \/ <<status[c], edit[c]>> \in AllowedTransitions

\* One changeset at a time is in its window, whatever became of the lock.
OneInWindow ==
    \A c, d \in Changesets : status[c] \in Window /\ status[d] \in Window => c = d

\* Which section holds applyMu in which states of its changeset.
JobMatchesRow ==
    /\ job.kind = "apply" => up = "up" /\ status[job.cs] = job.copy /\ lockHeldBy = None
    /\ job.kind = "rollback" =>
           /\ status[job.cs] = "awaiting_confirm"
           /\ job.copy = "awaiting_confirm"
           /\ lockHeldBy = job.cs
    /\ job.kind = "recover" => up = "arming" /\ status[job.cs] = "applying" /\ lockHeldBy = None
    /\ job.kind = "release" => status[job.cs] \notin Window /\ lockHeldBy = job.cs
    /\ job.kind = "releaseOwn" => status[job.cs] \notin Window

\* The process that is down runs nothing and holds nothing.
DownIsIdle == up = "down" => job.kind = "idle" /\ lockHeldBy = None

\* During startup the lock of a window is still to be taken, or taken.
ArmingCovers ==
    up = "arming" =>
        \A c \in Changesets :
            /\ c \in toArm => lockHeldBy # c
            /\ status[c] \in Window =>
                   c \in toArm \/ lockHeldBy = c \/ (job.kind = "recover" /\ job.cs = c)

\* A running timer belongs to the lock's owner.
TimerOwnsLock ==
    \A c \in Changesets :
        timer[c] # "none" /\ status[c] = "awaiting_confirm" => lockHeldBy = c

\* The lock's owner is in its window, or its release is under way.
LockOwned ==
    \A c \in Changesets :
        lockHeldBy = c => status[c] \in Window \/ (job.kind = "release" /\ job.cs = c)

\* The lock covers exactly the window: LockCoversWindow and LockNotLeaked with
\* what carries them through the gates, the executor, the rollback of a
\* window, a crash and the startup that takes the lock again.
LockInv ==
    /\ OnePass
    /\ ExecutorOwnsLock
    /\ LockCoversWindow
    /\ EditsOutsideWindow
    /\ OneInWindow
    /\ JobMatchesRow
    /\ DownIsIdle
    /\ ArmingCovers
    /\ TimerOwnsLock
    /\ LockOwned

-----------------------------------------------------------------------------
(* An apply of a changeset is begun once, for clients that serialise their
   calls: what a draft operation writes never meets a row an apply has taken.
   From here on an invariant is a predicate of one changeset. *)

BegunStatus == {"applying", "awaiting_confirm", "committed", "rolled_back", "failed"}

Begun(c) == status[c] \in BegunStatus

InGates(c)     == job.kind = "apply" /\ job.cs = c
RollingBack(c) == job.kind = "rollback" /\ job.cs = c
Recovering(c)  == job.kind = "recover" /\ job.cs = c
Releasing(c)   == job.kind = "release" /\ job.cs = c

GatesFirst(c) == InGates(c) => up = "up" /\ ~Begun(c) /\ edit[c] = Absent

NoEditOnceBegun(c) == Begun(c) => edit[c] = Absent

\* An executor, a snapshot, a guard or a triggered rollback is of a changeset
\* whose apply was begun.
ActiveIsBegun(c) ==
    pc[c] # "idle" \/ HasSnapshot(c) \/ c \in guards \/ fire[c].at # "none" => Begun(c)

JobOfBegun(c) ==
    /\ RollingBack(c) => job.copy \in Window /\ Begun(c)
    /\ Recovering(c) => up = "arming" /\ Begun(c)

\* The row a triggered rollback will write back.
RowReadIsBegun(c) == fire[c].at = "put" => fire[c].row \in BegunStatus

\* Before its first step an apply is undisturbed.
Starting(c) ==
    /\ pc[c] \in {"snapshot", "seal"} =>
           /\ up = "up"
           /\ status[c] = "applying"
           /\ stage[c] = "none"
           /\ fire[c].at \in {"none", "claimed"}
           /\ ~RollingBack(c)
    /\ pc[c] = "snapshot" => ~HasSnapshot(c) /\ fire[c].at = "none" /\ c \notin guards

AppliedOnce(c) ==
    /\ GatesFirst(c)
    /\ NoEditOnceBegun(c)
    /\ ActiveIsBegun(c)
    /\ JobOfBegun(c)
    /\ RowReadIsBegun(c)
    /\ Starting(c)

\* A guard is armed inside the window, while nothing rolls its changeset back.
GuardInWindow(c) ==
    c \in guards =>
        status[c] \in Window /\ up = "up" /\ fire[c].at = "none" /\ ~RollingBack(c)

\* The ticket is in the store only inside the window, also when a triggered
\* rollback is about to write back the row of a window that was closed.
TicketInWindow(c) ==
    /\ ticket[c] # "none" => status[c] \in Window \/ Releasing(c) \/ crashes > 0
    /\ fire[c].at = "put" /\ fire[c].row \notin Window /\ ticket[c] # "none" =>
           Releasing(c) \/ crashes > 0

CrashCounted == up # "up" => crashes > 0

SerialAt(c) == AppliedOnce(c) /\ GuardInWindow(c) /\ TicketInWindow(c)

SerialInv == CrashCounted /\ \A c \in Changesets : SerialAt(c)

-----------------------------------------------------------------------------
(* The end of a window, without finding guards (Guarded = {}). *)

\* No guard, and so no triggered rollback; only an applying changeset, or one
\* aborted while it was promoted, has an executor.
Unguarded(c) ==
    /\ c \notin guards /\ fire[c] = NoFire
    /\ status[c] \in {"awaiting_confirm", "committed"} => pc[c] = "idle"
    /\ RollingBack(c) \/ Recovering(c) => status[c] \in Window

\* A node timer is cancelled only for a committed changeset, which stays so.
CancelledIsCommitted(c) ==
    \/ job.kind \in {"release", "releaseOwn"} /\ job.cs = c /\ job.copy = "committed"
    \/ fanout[c] # {}
    \/ \E n \in Nodes : ntimer[c][n] = "cancelled"
    => status[c] = "committed"

EndAt(c) == Unguarded(c) /\ CancelledIsCommitted(c)

EndInv == \A c \in Changesets : EndAt(c)

\* What will end a window or a hold, from the moment a daemon runs: startup
\* has still to look at it, its timer is armed or fired, or it is rolled back.
Timed(c, t) == (up = "arming" /\ c \in toArm) \/ t # "none" \/ RollingBack(c)

\* With a store that works.
TimedAt(c) ==
    up # "down" =>
        /\ status[c] = "awaiting_confirm" => Timed(c, timer[c])
        /\ Paused(c) => Timed(c, hold[c])

TimedInv == \A c \in Changesets : TimedAt(c)

-----------------------------------------------------------------------------
(* Where the configuration of a changeset can be. *)

\* r runs the configuration of c, has it staged, or would get it from a restore.
Trace(c, r) ==
    \/ live[r] = c
    \/ r \in Nodes /\ staged[r] = c
    \/ \E d \in Changesets : HasSnapshot(d) /\ snap[d][r] = c

Armed(c, r) == r \in Nodes /\ ntimer[c][r] # "none"

\* A changeset leaves traces only once its executor runs, on what it touches,
\* and its pre-apply snapshot holds nothing of its own.
TraceAfterSeal(c) ==
    \A r \in Resource :
        /\ Trace(c, r) \/ Armed(c, r) => HasSnapshot(c) /\ pc[c] # "seal" /\ r \in Touches[c]
        /\ HasSnapshot(c) => snap[c][r] # c

\* The steps of an executor are those of its stage.
StepsInScope(c) ==
    pc[c] = "run" =>
        \A k \in StepKind, r \in Resource :
            <<k, r>> \in todo[c] => r \in StageScope(c, mode[c]) /\ (k = "apply" => r \notin Nodes)

\* The canary strategy is for plans of interface files.
StagedPlan(c) ==
    /\ stage[c] # "none" \/ mode[c] # "all" => Touches[c] \subseteq Nodes
    /\ pc[c] = "holding" => mode[c] = "canary"
    /\ stage[c] = "canary_hold" => pc[c] = "idle"

\* Until it is promoted a canary apply leaves no trace outside its canary.
CanaryOnly(c) ==
    stage[c] = "canary_hold" \/ (pc[c] # "idle" /\ mode[c] = "canary") =>
        \A n \in Nodes \ Canary : ~Trace(c, n) /\ ~Armed(c, n)

TraceInv ==
    \A c \in Changesets :
        TraceAfterSeal(c) /\ StepsInScope(c) /\ StagedPlan(c) /\ CanaryOnly(c)

-----------------------------------------------------------------------------
(* The nodes, while one executor runs at a time. *)

OneRun == \A c, d \in Changesets : pc[c] = "run" /\ pc[d] = "run" => c = d

Safe(c, n) ==
    ntimer[c][n] \in {"armed", "rollback_failed", "cancelled"} \/ Captured(c, n)

\* A node's steps are taken in order.
StagesBeforeArms ==
    \A c \in Changesets, n \in Nodes :
        pc[c] = "run" /\ <<"stage", n>> \in todo[c] => <<"arm", n>> \in todo[c]

\* What the next reload of d puts on node n is safe to run, whoever staged it:
\* the own file once its timer is armed, any other file at any time.
ReloadIsSafe ==
    \A c, d \in Changesets, n \in Nodes :
        /\ pc[d] = "run"
        /\ <<"reload", n>> \in todo[d]
        /\ <<"stage", n>> \notin todo[d]
        /\ staged[n] = c
        /\ c = d => <<"arm", n>> \notin todo[d]
        => Safe(c, n)

NodeInv == NodeNeverUnarmed /\ StagesBeforeArms /\ ReloadIsSafe

-----------------------------------------------------------------------------
(* The scopes, while one changeset at a time is in its window. *)

\* A changeset with a part outside the interface files is applied in one pass.
HasScopes(c) == ~(Touches[c] \subseteq Nodes)

ScopeExecutor(c) ==
    HasScopes(c) /\ pc[c] # "idle" =>
        up = "up" /\ status[c] = "applying" /\ ~RollingBack(c)

\* The restores of a rollback done so far, and all of them at its end.
ScopesRestored(c) ==
    \A r \in Resource \ Nodes :
        \/ RollingBack(c) /\ ~job.hard /\ r \notin job.todo
        \/ status[c] = "rolled_back"
        => live[r] # c

\* What a snapshot holds of a scope is there to stay.
SnapshotIsSettled(c) ==
    \A d \in Changesets, r \in Resource \ Nodes :
        HasSnapshot(d) /\ snap[d][r] = c => status[c] \in {"failed", "committed"}

ScopeInv ==
    \A c \in Changesets : ScopeExecutor(c) /\ ScopesRestored(c) /\ SnapshotIsSettled(c)
=============================================================================
