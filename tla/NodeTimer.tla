------------------------------ MODULE NodeTimer ------------------------------
(***************************************************************************)
(* A node's own rollback timers (LocalTimerAgent, localtimer.go), call by  *)
(* call: the node_timers row, the in-process timer, and the three          *)
(* goroutines that touch both: ArmTimer, CancelTimer and the timer's       *)
(* callback fire. They share a.mu for the timer map only, so their store   *)
(* accesses interleave. The coordinator is the environment: it arms a      *)
(* timer, reloads the node once the arming is acknowledged, and cancels.   *)
(***************************************************************************)
EXTENDS Naturals

CONSTANTS
    Keys,        \* (changeset, node) pairs with a timer on this node
    StoreFaults, \* an access to the node's store may fail
    MaxCrashes   \* bound on crashes of the node's daemon

ASSUME SettingsAssumption == StoreFaults \in BOOLEAN /\ MaxCrashes \in Nat

VARIABLES
    row,      \* node_timers.status
    timers,   \* a.timers and the goroutine of its callback
    arm,      \* ArmTimer: "idle", "persisted" (row written), "acked", "reloaded"
    cancel,   \* CancelTimer: "idle", "stopped" (timer stopped), "read" (row armed)
    reply,    \* the status the last CancelTimer returned
    cfg,      \* "pre" or "new" runs; "staged" is "pre" with the change staged
    up, crashes

vars == <<row, timers, arm, cancel, reply, cfg, up, crashes>>

RowStatus == {"none", "armed", "cancelled", "rolled_back", "rollback_failed"}

\* "fired" to "failed" are the steps of a callback that has started.
Timer == {"none", "armed", "fired", "restoring", "restored", "failed"}

TypeOK ==
    /\ row \in [Keys -> RowStatus]
    /\ timers \in [Keys -> Timer]
    /\ arm \in [Keys -> {"idle", "persisted", "acked", "reloaded"}]
    /\ cancel \in [Keys -> {"idle", "stopped", "read"}]
    /\ reply \in [Keys -> RowStatus]
    /\ cfg \in [Keys -> {"pre", "staged", "new"}]
    /\ up \in BOOLEAN
    /\ crashes \in 0..MaxCrashes

Init ==
    /\ row = [k \in Keys |-> "none"]
    /\ timers = [k \in Keys |-> "none"]
    /\ arm = [k \in Keys |-> "idle"]
    /\ cancel = [k \in Keys |-> "idle"]
    /\ reply = [k \in Keys |-> "none"]
    /\ cfg = [k \in Keys |-> "staged"]
    /\ up = TRUE
    /\ crashes = 0

StoreOk == IF StoreFaults THEN BOOLEAN ELSE {TRUE}

-----------------------------------------------------------------------------
(* ArmTimer: the row first, then the in-process timer and the answer. *)

ArmPersist(k) ==
    /\ up /\ row[k] = "none"
    /\ row' = [row EXCEPT ![k] = "armed"]
    /\ arm' = [arm EXCEPT ![k] = "persisted"]
    /\ UNCHANGED <<timers, cancel, reply, cfg, up, crashes>>

ArmRealTimer(k) ==
    /\ up /\ arm[k] = "persisted"
    /\ timers' = [timers EXCEPT ![k] = "armed"]
    /\ arm' = [arm EXCEPT ![k] = "acked"]
    /\ UNCHANGED <<row, cancel, reply, cfg, up, crashes>>

\* The coordinator's reload follows an acknowledged arm. A restore that came
\* first has removed the staged file, so the reload fails.
Reload(k) ==
    /\ up /\ arm[k] = "acked"
    /\ arm' = [arm EXCEPT ![k] = "reloaded"]
    /\ cfg' = [cfg EXCEPT ![k] = IF @ = "staged" THEN "new" ELSE @]
    /\ UNCHANGED <<row, timers, cancel, reply, up, crashes>>

-----------------------------------------------------------------------------
(* CancelTimer: stop the timer, read the row, resolve it if it is armed. A
   callback that has started is not stopped. A store error is returned to the
   coordinator, with the timer stopped already. *)

CancelStop(k) ==
    /\ up /\ cancel[k] = "idle" /\ arm[k] = "reloaded"
    /\ timers' = [timers EXCEPT ![k] = IF @ = "armed" THEN "none" ELSE @]
    /\ cancel' = [cancel EXCEPT ![k] = "stopped"]
    /\ UNCHANGED <<row, arm, reply, cfg, up, crashes>>

\* Mutant: an armed row is not resolved.
MutCancelRead(k) ==
    /\ up /\ cancel[k] = "stopped"
    /\ cancel' = [cancel EXCEPT ![k] = "idle"]
    /\ reply' = [reply EXCEPT ![k] = row[k]]
    /\ UNCHANGED <<row, timers, arm, cfg, up, crashes>>

CancelRead(k) ==
    /\ up /\ cancel[k] = "stopped"
    /\ \E got \in StoreOk :
           /\ cancel' = [cancel EXCEPT ![k] = IF got /\ row[k] = "armed" THEN "read" ELSE "idle"]
           /\ reply' = IF got /\ row[k] # "armed" THEN [reply EXCEPT ![k] = row[k]] ELSE reply
    /\ UNCHANGED <<row, timers, arm, cfg, up, crashes>>

\* Resolve is an UPDATE with no condition on the status it replaces.
CancelResolve(k) ==
    /\ up /\ cancel[k] = "read"
    /\ \E written \in StoreOk :
           /\ row' = IF written THEN [row EXCEPT ![k] = "cancelled"] ELSE row
           /\ reply' = IF written THEN [reply EXCEPT ![k] = "cancelled"] ELSE reply
    /\ cancel' = [cancel EXCEPT ![k] = "idle"]
    /\ UNCHANGED <<timers, arm, cfg, up, crashes>>

-----------------------------------------------------------------------------
(* fire: read the row, restore if it is armed, resolve it. *)

Expire(k) ==
    /\ up /\ timers[k] = "armed"
    /\ timers' = [timers EXCEPT ![k] = "fired"]
    /\ UNCHANGED <<row, arm, cancel, reply, cfg, up, crashes>>

FireRead(k) ==
    /\ up /\ timers[k] = "fired"
    /\ \E got \in StoreOk :
           timers' = [timers EXCEPT ![k] = IF got /\ row[k] = "armed" THEN "restoring" ELSE "none"]
    /\ UNCHANGED <<row, arm, cancel, reply, cfg, up, crashes>>

\* restore, a stage and a reload of the recorded content.
FireRestore(k) ==
    /\ up /\ timers[k] = "restoring"
    /\ \/ /\ cfg' = [cfg EXCEPT ![k] = "pre"]
          /\ timers' = [timers EXCEPT ![k] = "restored"]
       \/ /\ timers' = [timers EXCEPT ![k] = "failed"]
          /\ UNCHANGED cfg
    /\ UNCHANGED <<row, arm, cancel, reply, up, crashes>>

\* Mutant: a failed restore is recorded as done.
MutFireResolve(k) ==
    /\ up /\ timers[k] \in {"restored", "failed"}
    /\ row' = [row EXCEPT ![k] = "rolled_back"]
    /\ timers' = [timers EXCEPT ![k] = "none"]
    /\ UNCHANGED <<arm, cancel, reply, cfg, up, crashes>>

FireResolve(k) ==
    /\ up /\ timers[k] \in {"restored", "failed"}
    /\ \E written \in StoreOk :
           row' = IF ~written THEN row
                  ELSE [row EXCEPT ![k] = IF timers[k] = "restored" THEN "rolled_back"
                                          ELSE "rollback_failed"]
    /\ timers' = [timers EXCEPT ![k] = "none"]
    /\ UNCHANGED <<arm, cancel, reply, cfg, up, crashes>>

-----------------------------------------------------------------------------
(* A crash loses the timers and the calls; ArmPendingOnStartup re-arms every
   row still armed. *)

Crash ==
    /\ up /\ crashes < MaxCrashes
    /\ up' = FALSE
    /\ crashes' = crashes + 1
    /\ timers' = [k \in Keys |-> "none"]
    /\ arm' = [k \in Keys |-> IF arm[k] = "persisted" THEN "idle" ELSE arm[k]]
    /\ cancel' = [k \in Keys |-> "idle"]
    /\ UNCHANGED <<row, reply, cfg>>

\* Mutant: startup copies the row.
MutRearmedRow(k) == row[k]

\* Mutant: startup re-arms nothing.
MutRearmedNone(k) == "none"

Rearmed(k) == IF row[k] = "armed" THEN "armed" ELSE "none"

ArmPendingOnStartup ==
    /\ ~up
    /\ up' = TRUE
    /\ timers' = [k \in Keys |-> Rearmed(k)]
    /\ UNCHANGED <<row, arm, cancel, reply, cfg, crashes>>

Fire(k) == FireRead(k) \/ FireRestore(k) \/ FireResolve(k)

Next ==
    \/ \E k \in Keys :
           \/ ArmPersist(k) \/ ArmRealTimer(k) \/ Reload(k)
           \/ CancelStop(k) \/ CancelRead(k) \/ CancelResolve(k)
           \/ Expire(k) \/ Fire(k)
    \/ Crash
    \/ ArmPendingOnStartup

Spec == Init /\ [][Next]_vars

\* Timers expire, goroutines run, and the node's daemon comes back; nothing
\* obliges the coordinator to cancel.
FairSpec ==
    /\ Spec
    /\ WF_vars(ArmPendingOnStartup)
    /\ \A k \in Keys :
           /\ WF_vars(ArmRealTimer(k))
           /\ WF_vars(Expire(k))
           /\ WF_vars(Fire(k))
           /\ WF_vars(CancelRead(k) \/ CancelResolve(k))

-----------------------------------------------------------------------------

\* While the daemon runs, a row that says armed has something that will
\* resolve it: the in-process timer, its callback, or a call half-way through.
ArmedIsTimed ==
    \A k \in Keys :
        up /\ row[k] = "armed" =>
            timers[k] # "none" \/ arm[k] = "persisted" \/ cancel[k] # "idle"

\* A row that says rolled_back is the truth: the node runs what it ran before
\* the change. (The converse of a cancel is not: fire may restore the node
\* after CancelTimer answered "cancelled".)
RolledBackIsTrue ==
    \A k \in Keys : row[k] = "rolled_back" => cfg[k] = "pre"

\* Every armed timer is resolved, by a cancel or by the node restoring itself,
\* over crashes of the node's daemon.
ArmedResolves ==
    \A k \in Keys : row[k] = "armed" ~> row[k] # "armed"

\* The claim of fire's comment, that a timer cancelled in the meantime restores
\* nothing: once CancelTimer has answered so, the node keeps what it runs.
CancelledIsKept ==
    [][\A k \in Keys : reply[k] = "cancelled" => cfg'[k] = cfg[k]]_vars
=============================================================================
