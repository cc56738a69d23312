---------------------------- MODULE RollbackPath ----------------------------
(***************************************************************************)
(* doRollbackScopedLocked of apply.go, the one function every rollback of  *)
(* an applied changeset goes through, and the ends of a window that share  *)
(* its shape: the status is persisted, then the sealed ticket is wiped and *)
(* the single-applier lock released, all under applyMu.                    *)
(*                                                                         *)
(* A caller hands it a copy of the changeset row; the function never reads *)
(* the row again.                                                          *)
(***************************************************************************)
EXTENDS EngineState

\* The gateway of the unattended paths is built from the sealed ticket, which
\* may fail; an expired ticket is wiped instead of used.
Unsealed(c) == IF ticket[c] = "valid" /\ NeedsTicket(c) THEN BOOLEAN ELSE {FALSE}

Gateways(c, session) == IF session THEN {TRUE} ELSE Unsealed(c)

\* Mutant: the guard is left armed.
MutDisarmedBy(c) == guards

\* The disarm every rollback starts with.
DisarmedBy(c) == guards \ {c}

\* The beginning of the function, up to the first restore. Without its
\* snapshot (a failed read) the changeset goes to failed, nothing restored.
StartRollback(c, copy, scope, session, clear) ==
    /\ \E gw \in Gateways(c, session), loaded \in StoreOk :
           job' = [kind |-> "rollback", cs |-> c, copy |-> copy,
                   todo |-> IF loaded THEN scope ELSE {}, hard |-> ~loaded,
                   gw |-> gw, clear |-> clear]
    /\ guards' = DisarmedBy(c)
    /\ ticket' = IF ~session /\ NeedsTicket(c) /\ ticket[c] = "expired"
                 THEN Set(ticket, c, "none") ELSE ticket
    /\ UNCHANGED <<snap, worldVars, bootVars, lockHeldBy>>

\* Whether a failed restore makes the rollback incomplete: the recovery of an
\* interrupted apply only logs it.
Counts(unreachable) == job.kind = "rollback" /\ ~unreachable

\* restoreAllDistributed: an unreachable node does not count as a failure of
\* the rollback, its own timer is left to restore it.
RestoreNode(n) ==
    \E o \in RestoreOutcome, unreachable \in BOOLEAN :
        /\ RestoredNode(n, snap[job.cs][n], o)
        /\ job' = [job EXCEPT !.todo = @ \ {n}, !.hard = @ \/ (o # "ok" /\ Counts(unreachable))]

\* restoreSDN and restoreFwState fail without a gateway; the daemon scopes
\* need none. A failed one makes the rollback incomplete.
RestoreScope(r) ==
    \E o \in {"ok", "lost", "refused"} :
        /\ (r \in PveScopes /\ ~job.gw) => o = "refused"
        /\ RestoredScope(r, snap[job.cs][r], o)
        /\ job' = [job EXCEPT !.todo = @ \ {r}, !.hard = @ \/ (o # "ok" /\ Counts(FALSE))]

RestoreOne ==
    /\ up # "down"
    /\ job.kind \in {"rollback", "recover"}
    /\ \E r \in job.todo : IF r \in Nodes THEN RestoreNode(r) ELSE RestoreScope(r)
    /\ UNCHANGED <<storeVars, ntimer, bootVars, lockHeldBy, timerVars, callVars, execVars>>

\* Mutant: an incomplete rollback is reported as complete.
MutRollbackTarget == "rolled_back"

RollbackTarget == IF job.hard THEN "failed" ELSE "rolled_back"

\* The transition is made on the caller's copy and the row is overwritten; a
\* failed write is ignored by what follows.
RollbackPersist ==
    /\ up # "down"
    /\ job.kind = "rollback"
    /\ job.todo = {}
    /\ \E row \in StoreOk :
           status' = IF row THEN Set(status, job.cs, Transition(job.copy, RollbackTarget))
                     ELSE status
    /\ job' = [job EXCEPT !.kind = "release"]
    /\ UNCHANGED <<stage, ticket, snap, worldVars, bootVars, lockHeldBy, timerVars,
                   callVars, execVars>>

\* The end of recoverInterruptedApply.
RecoverPersist ==
    /\ up # "down"
    /\ job.kind = "recover"
    /\ job.todo = {}
    /\ \E row \in StoreOk :
           status' = IF row THEN Set(status, job.cs, Transition(job.copy, "failed")) ELSE status
    /\ job' = [job EXCEPT !.kind = "releaseOwn"]
    /\ UNCHANGED <<stage, ticket, snap, worldVars, bootVars, lockHeldBy, timerVars,
                   callVars, execVars>>

\* Mutant: the lock is kept.
MutReleasedLock == lockHeldBy

\* The lock is released whoever holds it, except by the startup recovery.
ReleasedLock == IF job.kind = "release" \/ lockHeldBy = job.cs THEN None ELSE lockHeldBy

\* Mutant: only a confirm wipes the ticket.
MutWipedTicket == IF job.copy = "committed" THEN Set(ticket, job.cs, "none") ELSE ticket

WipedTicket == Set(ticket, job.cs, "none")

\* Mutant: every end of a window cancels the node timers.
MutCancelFanout == Set(fanout, job.cs, Affected(job.cs))

\* The nodes a Confirm goes on to cancel.
CancelFanout ==
    IF job.copy = "committed" THEN Set(fanout, job.cs, Affected(job.cs)) ELSE fanout

\* wipeRevertTicket, the lock, and the unlock of applyMu. A Confirm goes on
\* to cancel the node timers, an abort to delete its stage row.
Release ==
    /\ up # "down"
    /\ job.kind \in {"release", "releaseOwn"}
    /\ ticket' = WipedTicket
    /\ lockHeldBy' = ReleasedLock
    /\ fanout' = CancelFanout
    /\ clearing' = IF job.clear THEN clearing \cup {job.cs} ELSE clearing
    /\ job' = NoJob
    /\ UNCHANGED <<status, stage, snap, worldVars, bootVars, timerVars, guards, fire, edit,
                   execVars>>

RollbackStep == RestoreOne \/ RollbackPersist \/ RecoverPersist \/ Release
==============================================================================
