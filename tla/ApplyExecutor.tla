---------------------------- MODULE ApplyExecutor ----------------------------
(***************************************************************************)
(* The unlocked part of ApplyWithOptions (apply.go) and the executor of    *)
(* apply_exec.go: snapshot, sealed ticket, the plan's steps one call at a  *)
(* time, and the best-effort undo after a failed step. A call to a node or *)
(* a scope may fail, and a failed call may have taken effect.              *)
(***************************************************************************)
EXTENDS EngineState

Running(c) == up # "down" /\ pc[c] = "run"

\* Mutant: an apply without a snapshot goes on.
MutCaptureSnapshot(c) ==
    /\ up # "down"
    /\ pc[c] = "snapshot"
    /\ guards' = IF c \in Guarded THEN guards \cup {c} ELSE guards
    /\ pc' = Set(pc, c, "seal")
    /\ snap' \in {snap, Set(snap, c,
                  [r \in Resource |-> IF r \in Touches[c] THEN live[r] ELSE Base])}
    /\ UNCHANGED <<status, stage, ticket, worldVars, bootVars, lockVars, timerVars, fire,
                   edit, fanout, clearing, mode, todo, okSteps>>

\* armAutoRollback, then captureSnapshotFull of the resources the plan
\* touches. A snapshot that cannot be captured fails the apply.
CaptureSnapshot(c) ==
    /\ up # "down"
    /\ pc[c] = "snapshot"
    /\ guards' = IF c \in Guarded THEN guards \cup {c} ELSE guards
    /\ \/ /\ snap' = Set(snap, c,
                         [r \in Resource |-> IF r \in Touches[c] THEN live[r] ELSE Base])
          /\ pc' = Set(pc, c, "seal")
       \/ /\ pc' = Set(pc, c, "fail")
          /\ UNCHANGED snap
    /\ UNCHANGED <<status, stage, ticket, worldVars, bootVars, lockVars, timerVars, fire,
                   edit, fanout, clearing, mode, todo, okSteps>>

\* sealRevertTicket before the first step; every failure leaves the apply
\* going without a ticket. Then newExecutor.
SealTicket(c) ==
    /\ up # "down"
    /\ pc[c] = "seal"
    /\ \E t \in IF NeedsTicket(c) THEN {"none", "valid"} ELSE {"none"} :
           ticket' = IF t = "none" THEN ticket ELSE Set(ticket, c, t)
    /\ pc' = Set(pc, c, "run")
    /\ todo' = Set(todo, c, StepsOn(StageScope(c, mode[c])))
    /\ okSteps' = Set(okSteps, c, {})
    /\ UNCHANGED <<status, stage, snap, worldVars, bootVars, lockVars, timerVars,
                   callVars, mode>>

\* Undo steps after a failed step: every node of the stages that ran, every
\* firewall ruleset of the plan, and the SDN and daemon scopes with a
\* completed step.
UndoSteps(c) ==
    {<<"undo", r>> : r \in IF mode[c] = "canary"
                           THEN StageScope(c, "canary")
                           ELSE Affected(c) \cup (Touches[c] \cap FwScopes)
                                   \cup (okSteps[c] \cap (SdnScopes \cup DaemonScopes))}

StepDone(c, step) ==
    /\ todo' = Set(todo, c, todo[c] \ {step})
    /\ okSteps' = IF step[1] \in {"reload", "apply"}
                  THEN Set(okSteps, c, okSteps[c] \cup {step[2]})
                  ELSE okSteps
    /\ UNCHANGED pc

StepFailed(c) ==
    /\ todo' = Set(todo, c, UndoSteps(c))
    /\ pc' = Set(pc, c, "undo")
    /\ UNCHANGED okSteps

ExecFrame == UNCHANGED <<storeVars, bootVars, lockVars, timerVars, callVars, mode>>

\* Per node the plan is stage then reload, and one node follows another.
NodeIdle(c) == \A n \in Nodes : <<"stage", n>> \in todo[c] \/ <<"reload", n>> \notin todo[c]

StageFile(c, n) ==
    /\ Running(c)
    /\ <<"stage", n>> \in todo[c]
    /\ NodeIdle(c)
    /\ \/ /\ staged' = Set(staged, n, c)
          /\ StepDone(c, <<"stage", n>>)
       \/ /\ StepFailed(c)
          /\ UNCHANGED staged
    /\ UNCHANGED <<live, ntimer>>
    /\ ExecFrame

\* ArmTimer on the node, before its reload: a timer that is not acknowledged
\* aborts the apply, though the node may have armed it.
ArmNode(c, n) ==
    /\ Running(c)
    /\ <<"arm", n>> \in todo[c]
    /\ <<"stage", n>> \notin todo[c]
    /\ \E armed, acked \in BOOLEAN :
           /\ acked => armed
           /\ ntimer' = IF armed THEN [ntimer EXCEPT ![c][n] = "armed"] ELSE ntimer
           /\ IF acked THEN StepDone(c, <<"arm", n>>) ELSE StepFailed(c)
    /\ UNCHANGED <<live, staged>>
    /\ ExecFrame

\* Mutant: the reload does not wait for the node's timer.
MutArmedFirst(c, n) == TRUE

ArmedFirst(c, n) == <<"arm", n>> \notin todo[c]

\* ReloadInterfaces moves the staged file into place; without one it fails.
Reload(c, n) ==
    /\ Running(c)
    /\ <<"reload", n>> \in todo[c]
    /\ <<"stage", n>> \notin todo[c]
    /\ ArmedFirst(c, n)
    /\ \E moved, acked \in BOOLEAN :
           /\ moved => staged[n] # None
           /\ acked => moved
           /\ live' = IF moved THEN Set(live, n, staged[n]) ELSE live
           /\ staged' = IF moved THEN Set(staged, n, None) ELSE staged
           /\ IF acked THEN StepDone(c, <<"reload", n>>) ELSE StepFailed(c)
    /\ UNCHANGED ntimer
    /\ ExecFrame

\* A firewall, SDN, QoS, tc mirror, WireGuard or switch step.
ApplyScope(c, r) ==
    /\ Running(c)
    /\ <<"apply", r>> \in todo[c]
    /\ NodeIdle(c)
    /\ \E written, acked \in BOOLEAN :
           /\ acked => written
           /\ live' = IF written THEN Set(live, r, c) ELSE live
           /\ IF acked THEN StepDone(c, <<"apply", r>>) ELSE StepFailed(c)
    /\ UNCHANGED <<staged, ntimer>>
    /\ ExecFrame

\* Where a stage whose steps all succeeded goes.
RunDone(c) ==
    /\ Running(c)
    /\ todo[c] = {}
    /\ pc' = Set(pc, c, CASE mode[c] = "canary" -> "holding"
                          [] mode[c] = "rest"   -> "clearDone"
                          [] OTHER              -> "await")
    /\ UNCHANGED <<storeVars, worldVars, bootVars, lockVars, timerVars, callVars, mode,
                   todo, okSteps>>

\* A node goes back to its snapshot only if its reload step succeeded;
\* otherwise its staged file is discarded.
UndoNode(c, n) ==
    IF n \in okSteps[c]
    THEN \E o \in RestoreOutcome : RestoredNode(n, snap[c][n], o)
    ELSE /\ \E v \in {None, staged[n]} : staged' = Set(staged, n, v)
         /\ UNCHANGED live

\* One action of rollbackAfterFailure; an error is logged and ignored.
Undo(c, r) ==
    /\ up # "down"
    /\ pc[c] = "undo"
    /\ <<"undo", r>> \in todo[c]
    /\ IF r \in Nodes
       THEN UndoNode(c, r)
       ELSE \E o \in {"ok", "refused"} : RestoredScope(r, snap[c][r], o)
    /\ todo' = Set(todo, c, todo[c] \ {<<"undo", r>>})
    /\ UNCHANGED <<ntimer, pc, okSteps>>
    /\ ExecFrame

UndoDone(c) ==
    /\ up # "down"
    /\ pc[c] = "undo"
    /\ todo[c] = {}
    /\ pc' = Set(pc, c, IF mode[c] = "rest" THEN "clearFail" ELSE "fail")
    /\ UNCHANGED <<storeVars, worldVars, bootVars, lockVars, timerVars, callVars, mode,
                   todo, okSteps>>

ExecutorStep(c) ==
    \/ CaptureSnapshot(c)
    \/ SealTicket(c)
    \/ \E n \in Nodes : StageFile(c, n) \/ ArmNode(c, n) \/ Reload(c, n)
    \/ \E r \in Resource : ApplyScope(c, r) \/ Undo(c, r)
    \/ RunDone(c)
    \/ UndoDone(c)
==============================================================================
