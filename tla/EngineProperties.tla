-------------------------- MODULE EngineProperties --------------------------
(***************************************************************************)
(* What the change engine has to guarantee, and its fairness.              *)
(***************************************************************************)
EXTENDS ChangeEngine

-----------------------------------------------------------------------------
(* The single-applier lock. *)

\* While the daemon serves requests, a changeset between the start of its
\* apply and its terminal status holds the single-applier lock: beginApply
\* cannot start a second window, also after a restart has lost the lock,
\* which lives in memory only.
LockCoversWindow ==
    \A c \in Changesets :
        up = "up" /\ status[c] \in Window => lockHeldBy = c

\* The lock is never left with a changeset that has left its window: every
\* exit (finishFailedApply, Confirm, doRollbackScopedLocked) releases it, so
\* a later apply is not refused for ever.
LockNotLeaked ==
    \A c \in Changesets :
        lockHeldBy = c /\ job.kind = "idle" => status[c] \in Window

SW == INSTANCE SingleWindow WITH Changesets <- Changesets, status <- status

\* Seen from the changesets table, the engine implements SingleWindow: rows
\* move only along the status graph and one changeset is in its window at a
\* time, across crashes and restarts.
OneWindowAtATime == SW!Spec

-----------------------------------------------------------------------------
(* The nodes' own timers. *)

\* A later changeset took its pre-apply snapshot while n ran c's file.
Captured(c, n) ==
    \E d \in Changesets \ {c} : snap[d] # None /\ snap[d][n] = c

\* A node that runs an unconfirmed file has a timer of its own counting down
\* to the restore (or one that tried and failed): execStep arms the timer
\* before the reload and nothing but Confirm's fan-out cancels it, whatever
\* call fails and wherever the coordinator crashes. The exception is a file
\* that a later changeset found on the node and restored as its own pre-state.
UnconfirmedIsArmed ==
    \A c \in Changesets, n \in Nodes :
        live[n] = c /\ status[c] # "committed" =>
            ntimer[c][n] \in {"armed", "rollback_failed"} \/ Captured(c, n)

\* The same for a single changeset in the presence of findings-triggered
\* rollbacks and failing store writes, which can put a row back in its window
\* after its timers were cancelled.
NodeNeverUnarmed ==
    \A c \in Changesets, n \in Nodes :
        live[n] = c =>
            ntimer[c][n] \in {"armed", "rollback_failed", "cancelled"} \/ Captured(c, n)

\* A changeset reported as rolled_back left none of its configuration behind:
\* no scope runs it, and a node that does was unreachable and restores itself.
\* (doRollbackScopedLocked reports failed when a restore failed.)
RolledBackRestored ==
    \A c \in Changesets, r \in Resource :
        status[c] = "rolled_back" /\ live[r] = c =>
            /\ r \in Nodes
            /\ ntimer[c][r] \in {"armed", "rollback_failed"} \/ Captured(c, r)

-----------------------------------------------------------------------------
(* The window's clocks and credentials. *)

\* A changeset awaiting confirmation always has something that will end its
\* window unattended: an armed timer, its callback, or a rollback on its way.
WindowIsTimed ==
    \A c \in Changesets :
        up = "up" /\ status[c] = "awaiting_confirm" =>
            timer[c] # "none" \/ (job.kind = "rollback" /\ job.cs = c)

\* The sealed PVE ticket is at rest only inside the window: every way out
\* wipes it in the lock hold that persisted the status. A crash between the
\* two writes leaves it until it expires, hence the last disjunct.
TicketOnlyInWindow ==
    \A c \in Changesets :
        ticket[c] # "none" =>
            status[c] \in Window \/ (job.kind = "release" /\ job.cs = c) \/ crashes > 0

\* A paused canary always has something that will resolve the hold: its timer,
\* the timer's callback, or the rollback that is replacing it.
HoldIsTimed ==
    \A c \in Changesets :
        up = "up" /\ Paused(c) =>
            hold[c] # "none" \/ (job.kind = "rollback" /\ job.cs = c)

\* apply.go, apply_staged.go: no window and no hold is ever left to an operator
\* alone, over a crash and restart at any point.
NeverUntimed == WindowIsTimed /\ HoldIsTimed

\* While a canary is held no node outside it has been staged, armed or
\* reloaded for this changeset.
PendingUntouched ==
    \A c \in Changesets, n \in Nodes \ Canary :
        stage[c] = "canary_hold" =>
            live[n] # c /\ staged[n] # c /\ ntimer[c][n] = "none"

\* A finding-triggered guard never outlives the window it watches: every
\* terminal write comes after the disarm.
GuardEndsWithWindow == \A c \in guards : status[c] \in Window

-----------------------------------------------------------------------------
(* Progress. The daemon's goroutines run, its timers expire, and a supervisor
   restarts it; clients and nodes promise nothing. *)

Fairness ==
    /\ WF_vars(RollbackStep)
    /\ WF_vars(Restart)
    /\ WF_vars(StartupDone)
    /\ \A c \in Changesets :
           /\ WF_vars(GatesRefuse(c) \/ GatesPass(c))
           /\ WF_vars(ExecutorStep(c))
           /\ WF_vars(FinishFailed(c))
           /\ WF_vars(FinishAwaiting(c))
           /\ WF_vars(HoldAfterCanary(c))
           /\ WF_vars(HoldExpires(c))
           /\ WF_vars(OnHoldExpired(c))
           /\ WF_vars(ResolveHold(c))
           /\ WF_vars(ClearStage(c))
           /\ WF_vars(TimerExpires(c))
           /\ WF_vars(TimerCallback(c))
           /\ WF_vars(ArmAwaiting(c))
           /\ WF_vars(RecoverInterrupted(c))
           /\ WF_vars(RecoverHold(c))

FairSpec == Spec /\ Fairness

\* Every changeset that enters its window leaves it for a terminal status,
\* with no confirm from anybody and over daemon restarts.
Settles ==
    \A c \in Changesets : status[c] \in Window ~> status[c] \in Terminal

-----------------------------------------------------------------------------
(* Claims of the repository's comments and documents that the code does not
   keep. *)

\* "terminal historical records ... nothing may transition out of again"
\* (changeset.go, on the terminal statuses). A hold whose timer fired decides
\* outside applyMu and may abort while an operator's continue is promoting;
\* finishAwaitingConfirm then overwrites the rolled_back row.
TerminalIsFinal ==
    [][\A c \in Changesets : status[c] \in Terminal => status'[c] = status[c]]_vars

\* "A finding arriving after the window closes (confirmed, rolled back,
\* failed) triggers nothing" (docs/api.md). fireAutoRollback decides on a row
\* it read before it waited for applyMu.
RollbackOnlyInWindow ==
    [][job.kind = "idle" /\ job'.kind = "rollback" => status[job'.cs] \in Window]_vars

\* "The change is permanent" (changeset.go, on StatusCommitted): a committed
\* file whose own timer was cancelled leaves its node only for the apply or
\* the rollback of another changeset. The timer an earlier, rolled-back
\* changeset left armed on the node replaces it as well.
CommittedIsPermanent ==
    [][\A c \in Changesets, n \in Nodes :
           status[c] = "committed" /\ ntimer[c][n] = "cancelled" /\ live[n] = c /\ live'[n] # c =>
               \E d \in Changesets \ {c} : status[d] \in Window]_vars

\* "Interface-file, WireGuard, QoS and switch-port changes are undone by the
\* daemon itself and always revert unattended" (change-management.md). The
\* recovery of an apply that a crash interrupted restores the files only, and
\* reports the changeset as failed with the rest left as applied.
RecoveryUndoesDaemonScopes ==
    [][job.kind = "recover" /\ job'.kind = "releaseOwn" =>
           \A r \in Touches[job.cs] \cap DaemonScopes : live[r] # job.cs]_vars
=============================================================================
