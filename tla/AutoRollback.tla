---------------------------- MODULE AutoRollback ----------------------------
(***************************************************************************)
(* Finding-triggered rollback (autorollback.go). A findings cycle claims   *)
(* the guard of a changeset it blames, then runs with no lock: it reads    *)
(* the row, records the trigger on it with an unlocked read-modify-write,  *)
(* and only then takes applyMu to roll back the copy it read.              *)
(***************************************************************************)
EXTENDS StagedApply

FireFrame == UNCHANGED <<worldVars, bootVars, edit, fanout, execVars>>

\* ObserveFindings: a new error finding attributed to c claims its guard.
ObserveFinding(c) ==
    /\ up # "down"
    /\ c \in guards
    /\ guards' = guards \ {c}
    /\ fire' = [fire EXCEPT ![c].at = "claimed"]
    /\ UNCHANGED <<storeVars, lockVars, timerVars, clearing>>
    /\ FireFrame

InWindow(c) == status[c] = "awaiting_confirm" \/ (status[c] = "applying" /\ stage[c] # "none")

\* The read that decides whether the window is still open.
FireRead(c) ==
    /\ up # "down"
    /\ fire[c].at = "claimed"
    /\ fire' = Set(fire, c,
                   IF InWindow(c)
                   THEN [at |-> "record", paused |-> stage[c] # "none", row |-> Absent]
                   ELSE NoFire)
    /\ UNCHANGED <<storeVars, lockVars, timerVars, guards, clearing>>
    /\ FireFrame

\* recordAutoRollbackTrigger: updateApplyLog reads the row ...
RecordTriggerGet(c) ==
    /\ up # "down"
    /\ fire[c].at = "record"
    /\ fire' = [fire EXCEPT ![c].at = "put", ![c].row = status[c]]
    /\ UNCHANGED <<storeVars, lockVars, timerVars, guards, clearing>>
    /\ FireFrame

\* ... and writes all of it back.
RecordTriggerPut(c) ==
    /\ up # "down"
    /\ fire[c].at = "put"
    /\ status' = Set(status, c, fire[c].row)
    /\ fire' = [fire EXCEPT ![c].at = "act", ![c].row = Absent]
    /\ UNCHANGED <<stage, ticket, snap, lockVars, timerVars, guards, clearing>>
    /\ FireFrame

\* AbortStagedApply for a paused changeset, refused when nothing is paused
\* any more; otherwise the rollback of the copy FireRead took.
FireRollback(c) ==
    /\ Unlocked
    /\ fire[c].at = "act"
    /\ fire' = Set(fire, c, NoFire)
    /\ \/ /\ fire[c].paused
          /\ Abort(c, FALSE)
          /\ StopTimer(c)
          /\ StopHold(c)
       \/ /\ fire[c].paused /\ ~Abortable(c)
          /\ UNCHANGED <<storeVars, worldVars, bootVars, lockVars, timerVars, guards, edit,
                         fanout, clearing, execVars>>
       \/ /\ ~fire[c].paused
          /\ StopTimer(c)
          /\ StartRollback(c, "awaiting_confirm", Touches[c], FALSE, FALSE)
          /\ UNCHANGED <<status, stage, hold, edit, fanout, clearing, execVars>>

FireStep(c) ==
    \/ ObserveFinding(c)
    \/ FireRead(c)
    \/ RecordTriggerGet(c)
    \/ RecordTriggerPut(c)
    \/ FireRollback(c)
==============================================================================
