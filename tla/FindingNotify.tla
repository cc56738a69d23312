---------------------------- MODULE FindingNotify ----------------------------
(***************************************************************************)
(* Notification of finding transitions (internal/findings/notify.go).      *)
(*                                                                         *)
(* Every cycle of the findings engine compares a snapshot of the findings  *)
(* with e.notified, the severity each finding was last notified at, and    *)
(* calls the notifier once per transition.  e.notified is memory and is    *)
(* replaced when the cycle ends.  The notifier is one alert rule, with or  *)
(* without a source filter; its receiver keeps what it was last told (a    *)
(* delivery whose bounded retries all fail is terminal and counts as told).*)
(* Severities are numbers, 1 info to 3 error; 0 is a finding that is not   *)
(* there.                                                                  *)
(***************************************************************************)
EXTENDS Naturals

CONSTANTS Findings,
          NotifyMin,      \* the severity from which findings are notified
          SourceFilter,   \* TRUE: the rule names the sources it wants
          MaxRestarts     \* bound on daemon restarts

NotifyAssumption ==
  /\ NotifyMin \in 1 .. 3
  /\ SourceFilter \in BOOLEAN
  /\ MaxRestarts \in Nat

VARIABLES present,      \* the severity of each finding, now
          suppressed,   \* the findings inside a maintenance window, now
          notified,     \* Engine.notified (0: no entry)
          at,           \* the cycle: "idle", "current" or "gone"
          snap,         \* the severities the cycle evaluates
          hushed,       \* the suppressed ones among them
          todo,         \* what the current loop has left
          next,         \* the map under construction
          told,         \* the severity the receiver was last told (0: none, or resolved)
          fired,        \* notifications since the snapshots last differed
          worse,        \* FALSE once "escalated" was said of a lower severity
          restarts

vars == <<present, suppressed, notified, at, snap, hushed, todo, next,
          told, fired, worse, restarts>>

cycle == <<at, snap, hushed, todo, next>>

Sev == 0 .. 3

TypeOK ==
  /\ present \in [Findings -> Sev] /\ suppressed \subseteq Findings
  /\ notified \in [Findings -> Sev]
  /\ at \in {"idle", "current", "gone"}
  /\ snap \in [Findings -> Sev] /\ hushed \subseteq Findings
  /\ todo \subseteq Findings /\ next \in [Findings -> Sev]
  /\ told \in [Findings -> Sev] /\ fired \in [Findings -> 0 .. 2]
  /\ worse \in BOOLEAN /\ restarts \in 0 .. MaxRestarts

Nothing == [f \in Findings |-> 0]

Init ==
  /\ present = Nothing /\ suppressed = {}
  /\ notified = Nothing
  /\ at = "idle" /\ snap = Nothing /\ hushed = {} /\ todo = {} /\ next = Nothing
  /\ told = Nothing /\ fired = Nothing /\ worse = TRUE
  /\ restarts = 0

-----------------------------------------------------------------------------
\* The condition behind a finding appears, changes severity or goes away.
Changes(f) ==
  /\ \E s \in Sev \ {present[f]} : present' = [present EXCEPT ![f] = s]
  /\ UNCHANGED <<suppressed, notified, cycle, told, fired, worse, restarts>>

\* A maintenance window of the finding's node opens or closes.
WindowTurns(f) ==
  /\ suppressed' = IF f \in suppressed THEN suppressed \ {f} ELSE suppressed \cup {f}
  /\ UNCHANGED <<present, notified, cycle, told, fired, worse, restarts>>

\* cycle computes the findings; evaluateNotifications starts its first loop.
CycleBegins ==
  /\ at = "idle"
  /\ at' = "current" /\ snap' = present /\ hushed' = suppressed
  /\ todo' = {f \in Findings : present[f] # 0}
  /\ next' = Nothing
  /\ fired' = [f \in Findings |-> IF present[f] = snap[f] THEN fired[f] ELSE 0]
  /\ UNCHANGED <<present, suppressed, notified, told, worse, restarts>>

\* fireNotification of a finding the cycle has at hand: the rule's filters
\* see its source and severity.
Fire(f) ==
  /\ told' = [told EXCEPT ![f] = snap[f]]
  /\ fired' = [fired EXCEPT ![f] = IF @ < 2 THEN @ + 1 ELSE @]

\* Variant: a suppressed finding is remembered at the severity it has now.
MutSuppressed(f) ==
  /\ f \in hushed
  /\ next' = [next EXCEPT ![f] = IF notified[f] # 0 THEN snap[f] ELSE 0]
  /\ UNCHANGED <<told, fired, worse>>

\* Variant: a suppressed finding is forgotten.
MutForget(f) ==
  /\ f \in hushed
  /\ UNCHANGED <<next, told, fired, worse>>

\* A finding in a maintenance window: what was notified before it is kept.
Suppressed(f) ==
  /\ f \in hushed
  /\ next' = [next EXCEPT ![f] = notified[f]]
  /\ UNCHANGED <<told, fired, worse>>

\* A finding below the threshold is not remembered.
BelowThreshold(f) ==
  /\ f \notin hushed /\ snap[f] < NotifyMin
  /\ UNCHANGED <<next, told, fired, worse>>

\* No entry: TransitionNew.
FiresNew(f) ==
  /\ f \notin hushed /\ snap[f] >= NotifyMin /\ notified[f] = 0
  /\ next' = [next EXCEPT ![f] = snap[f]]
  /\ Fire(f)
  /\ UNCHANGED worse

\* An entry with another severity: TransitionEscalated.
FiresEscalated(f) ==
  /\ f \notin hushed /\ snap[f] >= NotifyMin
  /\ notified[f] # 0 /\ notified[f] # snap[f]
  /\ next' = [next EXCEPT ![f] = snap[f]]
  /\ Fire(f)
  /\ worse' = (worse /\ snap[f] > notified[f])

\* An entry with this severity: nothing is said.
Unchanged(f) ==
  /\ f \notin hushed /\ snap[f] >= NotifyMin /\ notified[f] = snap[f]
  /\ next' = [next EXCEPT ![f] = notified[f]]
  /\ UNCHANGED <<told, fired, worse>>

Evaluate(f) ==
  /\ at = "current" /\ f \in todo
  /\ todo' = todo \ {f}
  /\ Suppressed(f) \/ BelowThreshold(f) \/ FiresNew(f) \/ FiresEscalated(f) \/ Unchanged(f)
  /\ UNCHANGED <<present, suppressed, notified, at, snap, hushed, restarts>>

\* The second loop: entries whose finding is not in the snapshot.
CurrentDone ==
  /\ at = "current" /\ todo = {}
  /\ at' = "gone"
  /\ todo' = {f \in Findings : notified[f] # 0 /\ snap[f] = 0}
  /\ UNCHANGED <<present, suppressed, notified, snap, hushed, next, told, fired, worse, restarts>>

\* TransitionResolved carries the id and the severity alone, so a rule with a
\* source filter does not match it (ruleMatches).
FiresResolved(f) ==
  /\ at = "gone" /\ f \in todo
  /\ todo' = todo \ {f}
  /\ told' = IF SourceFilter THEN told ELSE [told EXCEPT ![f] = 0]
  /\ UNCHANGED <<present, suppressed, notified, at, snap, hushed, next, fired, worse, restarts>>

CycleEnds ==
  /\ at = "gone" /\ todo = {}
  /\ at' = "idle" /\ notified' = next
  /\ UNCHANGED <<present, suppressed, snap, hushed, todo, next, told, fired, worse, restarts>>

\* The daemon restarts: what it notified is forgotten.
Restart ==
  /\ restarts < MaxRestarts
  /\ restarts' = restarts + 1
  /\ notified' = Nothing /\ at' = "idle" /\ todo' = {} /\ next' = Nothing
  /\ UNCHANGED <<present, suppressed, snap, hushed, told, fired, worse>>

Next ==
  \/ CycleBegins \/ CurrentDone \/ CycleEnds \/ Restart
  \/ \E f \in Findings : Changes(f) \/ WindowTurns(f) \/ Evaluate(f) \/ FiresResolved(f)

Spec == Init /\ [][Next]_vars

-----------------------------------------------------------------------------
(* Properties.                                                             *)

\* When a cycle has evaluated everything, the receiver was told every finding
\* at or above the threshold at the severity the cycle saw, one that escalated
\* inside a maintenance window included (evaluateNotifications: the entry of a
\* suppressed finding keeps the severity from before the window).
CycleTellsCurrent ==
  at = "gone" =>
    \A f \in Findings : snap[f] >= NotifyMin /\ f \notin hushed => told[f] = snap[f]

\* A finding whose severity stays what it was is notified once, not once per
\* cycle, whatever windows open and close over it.
OncePerCondition == \A f \in Findings : fired[f] <= 1

\* Both, the second unless the daemon restarts and forgets what it notified.
ReceiverIsTold == CycleTellsCurrent /\ (MaxRestarts = 0 => OncePerCondition)

\* The claim of TransitionEscalated: the finding is worse than it was.
EscalatedIsWorse == worse

\* The claim of TransitionResolved: a finding the receiver was told about and
\* that is no longer there is told resolved in that cycle.
GoneIsResolved ==
  at = "idle" => \A f \in Findings : snap[f] = 0 => told[f] = 0
=============================================================================
