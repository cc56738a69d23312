---------------------------- MODULE ChangeEngine ----------------------------
(***************************************************************************)
(* The change engine of one vnproxd (internal/change): the commit-confirm  *)
(* life of changesets, from draft to a terminal status, over a cluster     *)
(* whose nodes keep rollback timers of their own.                          *)
(***************************************************************************)
EXTENDS DraftEdits, ApplyExecutor, Recovery

-----------------------------------------------------------------------------
(* Apply. *)

\* Mutant: the lock is not looked at.
MutLockFree == TRUE

LockFree == lockHeldBy = None

\* beginApply up to its gates: the lock, the status, then revalidation and
\* the authorisation gates, all with applyMu held.
BeginApply(c) ==
    /\ Serving
    /\ Unlocked
    /\ SerialCalls => edit[c] = Absent
    /\ LockFree
    /\ Editable(status[c])
    /\ job' = [NoJob EXCEPT !.kind = "apply", !.cs = c, !.copy = status[c]]
    /\ UNCHANGED <<storeVars, worldVars, bootVars, lockHeldBy, timerVars, callVars, execVars>>

\* A blocking finding writes the row back as a draft; the approval, two-person,
\* SDN, peer and strategy gates and a failed write leave the row alone.
GatesRefuse(c) ==
    /\ job.kind = "apply" /\ job.cs = c
    /\ \/ status' = Set(status, c, "draft")
       \/ UNCHANGED status
    /\ job' = NoJob
    /\ UNCHANGED <<stage, ticket, snap, worldVars, bootVars, lockHeldBy, timerVars,
                   callVars, execVars>>

GatesPass(c) ==
    /\ job.kind = "apply" /\ job.cs = c
    /\ status' = Set(status, c, Transition(job.copy, "applying"))
    /\ lockHeldBy' = c
    /\ job' = NoJob
    /\ pc' = Set(pc, c, "snapshot")
    /\ \E m \in {"all"} \cup (IF CanaryAllowed(c) THEN {"canary"} ELSE {}) :
           mode' = Set(mode, c, m)
    /\ UNCHANGED <<stage, ticket, snap, worldVars, bootVars, timerVars, callVars, todo,
                   okSteps>>

\* finishFailedApply (after finishFailedStaged stopped the timers): disarm,
\* overwrite the row, then release.
FinishFailed(c) ==
    /\ Unlocked
    /\ pc[c] = "fail"
    /\ pc' = Set(pc, c, "idle")
    /\ guards' = DisarmedBy(c)
    /\ \E row \in StoreOk : status' = IF row THEN Set(status, c, "failed") ELSE status
    /\ job' = [NoJob EXCEPT !.kind = "release", !.cs = c]
    /\ IF mode[c] = "rest"
       THEN StopTimer(c) /\ StopHold(c)
       ELSE UNCHANGED timerVars
    /\ UNCHANGED <<stage, ticket, snap, worldVars, bootVars, lockHeldBy, fire, edit, fanout,
                   clearing, mode, todo, okSteps>>

\* finishAwaitingConfirm: a row that cannot be written leaves the changeset
\* applying, with no timer.
FinishAwaiting(c) ==
    /\ Unlocked
    /\ pc[c] = "await"
    /\ pc' = Set(pc, c, "idle")
    /\ \E row \in StoreOk :
           /\ status' = IF row THEN Set(status, c, "awaiting_confirm") ELSE status
           /\ timer' = IF row THEN Set(timer, c, "armed") ELSE timer
    /\ UNCHANGED <<stage, ticket, snap, worldVars, bootVars, lockVars, hold, callVars, mode,
                   todo, okSteps>>

-----------------------------------------------------------------------------
(* The end of the window. *)

AwaitsConfirm(c) == status[c] = "awaiting_confirm"

\* Mutant: the node timers are cancelled though the row was not written.
MutConfirm(c) ==
    /\ Serving
    /\ Unlocked
    /\ AwaitsConfirm(c)
    /\ guards' = DisarmedBy(c)
    /\ StopTimer(c)
    /\ \E row \in StoreOk : status' = IF row THEN Set(status, c, "committed") ELSE status
    /\ job' = [NoJob EXCEPT !.kind = "release", !.cs = c, !.copy = "committed"]
    /\ UNCHANGED <<stage, ticket, snap, worldVars, bootVars, lockHeldBy, hold, fire, edit,
                   fanout, clearing, execVars>>

\* The guard and the timer go before the row is written, and stay gone when
\* the write fails. The release wipes the ticket and starts the fan-out.
Confirm(c) ==
    /\ Serving
    /\ Unlocked
    /\ AwaitsConfirm(c)
    /\ guards' = DisarmedBy(c)
    /\ StopTimer(c)
    /\ \E row \in StoreOk :
           IF row
           THEN /\ status' = Set(status, c, "committed")
                /\ job' = [NoJob EXCEPT !.kind = "release", !.cs = c, !.copy = "committed"]
           ELSE UNCHANGED <<status, job>>
    /\ UNCHANGED <<stage, ticket, snap, worldVars, bootVars, lockHeldBy, hold, fire, edit,
                   fanout, clearing, execVars>>

\* cancelNodeTimers: an unreachable node keeps its timer. Nothing to cancel
\* where it fired already.
CancelNodeTimer(c, n) ==
    /\ up # "down"
    /\ n \in fanout[c]
    /\ fanout' = Set(fanout, c, fanout[c] \ {n})
    /\ \/ /\ ntimer[c][n] = "armed"
          /\ ntimer' = [ntimer EXCEPT ![c][n] = "cancelled"]
       \/ UNCHANGED ntimer
    /\ UNCHANGED <<storeVars, live, staged, bootVars, lockVars, timerVars, guards, fire,
                   edit, clearing, execVars>>

\* Rollback of a changeset awaiting confirmation, with or without a session.
Rollback(c) ==
    /\ Serving
    /\ Unlocked
    /\ AwaitsConfirm(c)
    /\ StopTimer(c)
    /\ \E session \in BOOLEAN : StartRollback(c, status[c], Touches[c], session, FALSE)
    /\ UNCHANGED <<status, stage, hold, fire, edit, fanout, clearing, execVars>>

\* The commit-confirm deadline passes.
TimerExpires(c) ==
    /\ up # "down"
    /\ timer[c] = "armed"
    /\ timer' = Set(timer, c, "fired")
    /\ UNCHANGED <<storeVars, worldVars, bootVars, lockVars, hold, callVars, execVars>>

\* autoRollback, the callback, which looks at the row again under applyMu: a
\* changeset still in a staged apply is aborted.
TimerCallback(c) ==
    /\ Unlocked
    /\ timer[c] = "fired"
    /\ timer' = Set(timer, c, "none")
    /\ CASE AwaitsConfirm(c) ->
               /\ StartRollback(c, status[c], Touches[c], FALSE, FALSE)
               /\ UNCHANGED <<status, stage, hold, edit, fanout, clearing, execVars>>
         [] Abortable(c) -> Abort(c, FALSE) /\ StopHold(c)
         [] OTHER ->
               UNCHANGED <<storeVars, worldVars, bootVars, lockVars, hold, guards, edit,
                           fanout, clearing, execVars>>
    /\ UNCHANGED fire

-----------------------------------------------------------------------------
(* What happens outside the daemon. *)

\* A node's own timer reaches its deadline: LocalTimerAgent.fire restores the
\* content recorded when it was armed.
NodeTimerFires(c, n) ==
    /\ ntimer[c][n] = "armed"
    /\ \E o \in RestoreOutcome \ {"lost"} :
           /\ RestoredNode(n, snap[c][n], o)
           /\ ntimer' = [ntimer EXCEPT ![c][n] = IF o = "ok" THEN "rolled_back"
                                                 ELSE "rollback_failed"]
    /\ UNCHANGED <<storeVars, bootVars, lockVars, timerVars, callVars, execVars>>

TicketExpires(c) ==
    /\ ticket[c] = "valid"
    /\ ticket' = Set(ticket, c, "expired")
    /\ UNCHANGED <<status, stage, snap, worldVars, bootVars, lockVars, timerVars, callVars,
                   execVars>>

-----------------------------------------------------------------------------

ApplyStep(c) ==
    \/ BeginApply(c)
    \/ GatesRefuse(c)
    \/ GatesPass(c)
    \/ FinishFailed(c)
    \/ FinishAwaiting(c)

WindowStep(c) ==
    \/ Confirm(c)
    \/ \E n \in Nodes : CancelNodeTimer(c, n)
    \/ Rollback(c)
    \/ TimerExpires(c)
    \/ TimerCallback(c)

EnvironmentStep(c) ==
    \/ \E n \in Nodes : NodeTimerFires(c, n)
    \/ TicketExpires(c)

Next ==
    \/ \E c \in Changesets :
           \/ DraftStep(c)
           \/ ApplyStep(c)
           \/ ExecutorStep(c)
           \/ StagedStep(c)
           \/ WindowStep(c)
           \/ FireStep(c)
           \/ EnvironmentStep(c)
    \/ RollbackStep
    \/ RecoveryStep

Spec == Init /\ [][Next]_vars
=============================================================================
