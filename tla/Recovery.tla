------------------------------ MODULE Recovery ------------------------------
(***************************************************************************)
(* A crash of the daemon and ArmPendingRollbacks (apply.go) at its next    *)
(* start, before the API is served: changesets awaiting confirmation are   *)
(* re-armed first, then interrupted applies and recorded holds resolved.   *)
(***************************************************************************)
EXTENDS AutoRollback

\* The process stops; the store, the nodes and their timers do not.
Crash ==
    /\ up # "down"
    /\ crashes < MaxCrashes
    /\ up' = "down"
    /\ crashes' = crashes + 1
    /\ toArm' = {}
    /\ job' = NoJob
    /\ lockHeldBy' = None
    /\ timer' = [c \in Changesets |-> "none"]
    /\ hold' = [c \in Changesets |-> "none"]
    /\ guards' = {}
    /\ fire' = [c \in Changesets |-> NoFire]
    /\ edit' = [c \in Changesets |-> Absent]
    /\ fanout' = [c \in Changesets |-> {}]
    /\ clearing' = {}
    /\ pc' = [c \in Changesets |-> "idle"]
    /\ mode' = [c \in Changesets |-> "all"]
    /\ todo' = [c \in Changesets |-> {}]
    /\ okSteps' = [c \in Changesets |-> {}]
    /\ UNCHANGED <<storeVars, worldVars>>

\* SweepExpiredRevertTickets, then the lists of changesets to re-arm.
Restart ==
    /\ up = "down"
    /\ up' = "arming"
    /\ toArm' = {c \in Changesets : status[c] \in Window}
    /\ ticket' = [c \in Changesets |-> IF ticket[c] = "expired" THEN "none" ELSE ticket[c]]
    /\ UNCHANGED <<status, stage, snap, worldVars, crashes, lockVars, timerVars, callVars,
                   execVars>>

Arming(c) == up = "arming" /\ c \in toArm /\ Unlocked

\* Mutant: the restart forgets the lock.
MutArmUnlocked(c) ==
    /\ Arming(c)
    /\ status[c] = "awaiting_confirm"
    /\ timer' = Set(timer, c, "armed")
    /\ toArm' = toArm \ {c}
    /\ UNCHANGED <<storeVars, worldVars, up, crashes, lockVars, hold, callVars, execVars>>

\* Mutant: the restart forgets the timer.
MutArmUntimed(c) ==
    /\ Arming(c)
    /\ status[c] = "awaiting_confirm"
    /\ lockHeldBy' = c
    /\ toArm' = toArm \ {c}
    /\ UNCHANGED <<storeVars, worldVars, up, crashes, job, timerVars, callVars, execVars>>

\* The lock is taken again and the timer armed for the persisted deadline.
ArmAwaiting(c) ==
    /\ Arming(c)
    /\ status[c] = "awaiting_confirm"
    /\ lockHeldBy' = c
    /\ timer' = Set(timer, c, "armed")
    /\ toArm' = toArm \ {c}
    /\ UNCHANGED <<storeVars, worldVars, up, crashes, job, hold, callVars, execVars>>

\* Mutant: a promotion cut short is nobody's to recover.
MutInterrupted(c) ==
    /\ Arming(c)
    /\ status[c] = "applying"
    /\ stage[c] # "promoting"

\* The second list is read once every changeset of the first is re-armed.
Interrupted(c) ==
    /\ Arming(c)
    /\ status[c] = "applying"
    /\ \A d \in toArm : status[d] # "awaiting_confirm"

\* What recoverInterruptedApply restores: the interface files, and the
\* ticket-scoped resources when a gateway can be built from the ticket.
RecoveryScope(c, gw) == Affected(c) \cup (IF gw THEN Touches[c] \cap PveScopes ELSE {})

\* recoverInterruptedApply, also for a staged apply that died while it was
\* promoting, whose stage row is deleted first, and for a hold whose stage
\* row cannot be read.
RecoverInterrupted(c) ==
    /\ Interrupted(c)
    /\ stage[c] # "canary_hold" \/ StoreFaults
    /\ \E deleted \in StoreOk :
           stage' = IF deleted /\ stage[c] = "promoting" THEN Set(stage, c, "none") ELSE stage
    /\ \E gw \in Unsealed(c), loaded \in StoreOk :
           job' = [NoJob EXCEPT !.kind = "recover", !.cs = c, !.copy = status[c], !.gw = gw,
                                !.todo = IF loaded /\ snap[c] # None
                                         THEN RecoveryScope(c, gw) ELSE {}]
    /\ toArm' = toArm \ {c}
    /\ UNCHANGED <<status, ticket, snap, worldVars, up, crashes, lockHeldBy, timerVars,
                   callVars, execVars>>

\* Mutant: a resumed hold has no timer.
MutRecoverHold(c) ==
    /\ Interrupted(c)
    /\ stage[c] = "canary_hold"
    /\ lockHeldBy' = c
    /\ toArm' = toArm \ {c}
    /\ UNCHANGED <<storeVars, worldVars, up, crashes, job, timerVars, callVars, execVars>>

\* A hold within its deadline resumes; one whose deadline has passed is
\* resolved at once, without taking the single-applier lock.
RecoverHold(c) ==
    /\ Interrupted(c)
    /\ stage[c] = "canary_hold"
    /\ \/ /\ lockHeldBy' = c
          /\ hold' = Set(hold, c, "armed")
       \/ /\ hold' = Set(hold, c, "resolving")
          /\ UNCHANGED lockHeldBy
    /\ toArm' = toArm \ {c}
    /\ UNCHANGED <<storeVars, worldVars, up, crashes, job, timer, callVars, execVars>>

\* An expired hold is resolved inside ArmPendingRollbacks, so startup ends
\* after the promotion or the abort it leads to.
StartupDone ==
    /\ up = "arming"
    /\ toArm = {}
    /\ job.kind # "recover" /\ job.kind # "releaseOwn"
    /\ \A c \in Changesets : pc[c] = "idle" /\ hold[c] # "resolving"
    /\ up' = "up"
    /\ UNCHANGED <<storeVars, worldVars, crashes, toArm, lockVars, timerVars, callVars,
                   execVars>>

RecoveryStep ==
    \/ Crash
    \/ Restart
    \/ \E c \in Changesets : ArmAwaiting(c) \/ RecoverInterrupted(c) \/ RecoverHold(c)
    \/ StartupDone
==============================================================================
