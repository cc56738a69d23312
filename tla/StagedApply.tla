----------------------------- MODULE StagedApply -----------------------------
(***************************************************************************)
(* The canary strategy of apply_staged.go: after the canary stage the      *)
(* apply pauses in a persisted hold, which a continue, an abort, the       *)
(* hold's timer or a restart ends. The remaining stage runs unlocked.      *)
(***************************************************************************)
EXTENDS RollbackPath

\* holdAfterCanary: the row, then the stage row, then the timer of the hold.
\* A row that cannot be written leaves everything as it is; a stage row that
\* cannot be written rolls the canary stage back at once.
HoldAfterCanary(c) ==
    /\ Unlocked
    /\ pc[c] = "holding"
    /\ pc' = Set(pc, c, "idle")
    /\ \E row, stageRow \in StoreOk :
           /\ status' = IF row THEN Set(status, c, "applying") ELSE status
           /\ IF ~row
              THEN UNCHANGED <<stage, ticket, snap, worldVars, bootVars, lockVars, hold, guards>>
              ELSE IF stageRow
              THEN /\ stage' = Set(stage, c, "canary_hold")
                   /\ hold' = Set(hold, c, "armed")
                   /\ UNCHANGED <<ticket, snap, worldVars, bootVars, lockVars, guards>>
              ELSE /\ StartRollback(c, "applying", StageScope(c, "canary"), FALSE, TRUE)
                   /\ UNCHANGED <<stage, hold>>
    /\ UNCHANGED <<timer, fire, edit, fanout, clearing, mode, todo, okSteps>>

StopTimer(c) == timer' = Set(timer, c, Stopped(timer[c]))
StopHold(c)  == hold' = Set(hold, c, Stopped(hold[c]))

Paused(c) == stage[c] = "canary_hold" /\ status[c] = "applying"

\* claimPauseLocked and the start of the second executor, whose log is seeded
\* with the canary stage's. A snapshot that cannot be read fails the apply.
Claim(c) ==
    /\ Unlocked
    /\ Paused(c)
    /\ stage' = Set(stage, c, "promoting")
    /\ mode' = Set(mode, c, "rest")
    /\ \E loaded \in StoreOk :
           /\ pc' = Set(pc, c, IF loaded THEN "run" ELSE "clearFail")
           /\ todo' = Set(todo, c, IF loaded THEN StepsOn(StageScope(c, "rest")) ELSE {})
    /\ okSteps' = Set(okSteps, c, StageScope(c, "canary"))
    /\ UNCHANGED <<status, ticket, snap, worldVars, bootVars, lockVars, timer, guards, fire,
                   edit, fanout, clearing>>

\* POST /changesets/{id}/continue.
ContinueStagedApply(c) ==
    /\ Serving
    /\ Claim(c)
    /\ StopHold(c)

Abortable(c) == stage[c] # "none" /\ status[c] = "applying"

\* abortStagedApply up to its restores: only the canary nodes are in scope.
Abort(c, session) ==
    /\ Unlocked
    /\ Abortable(c)
    /\ StartRollback(c, status[c], StageScope(c, "canary"), session, TRUE)
    /\ UNCHANGED <<status, stage, edit, fanout, clearing, execVars>>

\* POST /changesets/{id}/rollback of an applying changeset.
AbortStagedApply(c) ==
    /\ Serving
    /\ SerialCalls => pc[c] = "idle"
    /\ \E session \in BOOLEAN : Abort(c, session)
    /\ StopTimer(c)
    /\ StopHold(c)
    /\ UNCHANGED fire

\* The hold's deadline passes.
HoldExpires(c) ==
    /\ up # "down"
    /\ hold[c] = "armed"
    /\ hold' = Set(hold, c, "fired")
    /\ UNCHANGED <<storeVars, worldVars, bootVars, lockVars, timer, callVars, execVars>>

\* onHoldExpired looks at the hold under applyMu and decides after unlocking.
OnHoldExpired(c) ==
    /\ Unlocked
    /\ hold[c] = "fired"
    /\ hold' = Set(hold, c, IF Paused(c) THEN "resolving" ELSE "none")
    /\ UNCHANGED <<storeVars, worldVars, bootVars, lockVars, timer, callVars, execVars>>

\* resolveHold: promotion by a clean automatic gate, else an abort. Either
\* looks at the stage row again: a promotion is refused unless it still is a
\* hold, an abort only once the row is gone.
ResolveHold(c) ==
    /\ Unlocked
    /\ hold[c] = "resolving"
    /\ \/ Claim(c)
       \/ Abort(c, FALSE) /\ StopTimer(c) /\ UNCHANGED fire
       \/ /\ ~Paused(c) \/ StoreFaults
          /\ UNCHANGED <<storeVars, worldVars, bootVars, lockVars, timer, callVars, execVars>>
    /\ hold' = Set(hold, c, "none")

\* The clearStage of a promotion that succeeded, of one that failed
\* (finishFailedStaged), and of an abort.
ClearStage(c) ==
    /\ up # "down"
    /\ \E deleted \in StoreOk :
           stage' = IF deleted THEN Set(stage, c, "none") ELSE stage
    /\ \/ /\ pc[c] = "clearDone"
          /\ pc' = Set(pc, c, "await")
          /\ UNCHANGED clearing
       \/ /\ pc[c] = "clearFail"
          /\ pc' = Set(pc, c, "fail")
          /\ UNCHANGED clearing
       \/ /\ c \in clearing
          /\ clearing' = clearing \ {c}
          /\ UNCHANGED pc
    /\ UNCHANGED <<status, ticket, snap, worldVars, bootVars, lockVars, timerVars, guards,
                   fire, edit, fanout, mode, todo, okSteps>>

StagedStep(c) ==
    \/ HoldAfterCanary(c)
    \/ ContinueStagedApply(c)
    \/ AbortStagedApply(c)
    \/ HoldExpires(c)
    \/ OnHoldExpired(c)
    \/ ResolveHold(c)
    \/ ClearStage(c)
==============================================================================
