----------------------------- MODULE Scheduler -----------------------------
(***************************************************************************)
(* Scheduled applies (schedule.go, store/changeschedules.go): schedule     *)
(* rows, the ticks that fire or expire them, cancels, acknowledgements and *)
(* reschedules, over the part of the change engine they meet (the apply    *)
(* lock, the changeset's status, the confirm deadline). A tick works on    *)
(* copies of the rows it listed and on the clock it read once; its fires   *)
(* take as long as the applies they start. Two goroutines tick: the        *)
(* scheduler loop and the re-arm of a promoted HA daemon.                  *)
(* The status "draft" stands for both editable statuses.                   *)
(***************************************************************************)
EXTENDS Integers, FiniteSets, Lifecycle

CONSTANTS
    Changesets,
    Tickers,         \* goroutines that call TickSchedules
    Windows,         \* the schedules clients ask for: [start, end, timeout, policy]
    ServiceTimeout,  \* the confirm timeout of an apply that names none
    MinTimeout,      \* MinConfirmTimeout
    MaxTimeout,      \* MaxConfirmTimeout
    MaxTime,         \* bound on the clock
    MaxCrashes,      \* bound on daemon crashes
    None

SettingsAssumption ==
    /\ ServiceTimeout \in Nat /\ MinTimeout \in Nat /\ MaxTimeout \in Nat
    /\ MinTimeout <= MaxTimeout /\ MaxTime \in Nat /\ MaxCrashes \in Nat
    /\ \A w \in Windows :
           /\ w.start \in Nat /\ w.end \in Nat /\ w.timeout \in Nat
           /\ w.start < w.end
           /\ w.policy \in {"skip", "applyImmediately"}
    /\ None \notin Windows /\ None \notin {"user", "schedule"}

VARIABLES
    now,      \* the clock
    status,   \* the changesets' statuses
    ops,      \* whether a changeset's operations touch a management path
    lock,     \* lockHeldBy
    apply,    \* the last apply of a changeset: who, when, on what, until when
    row,      \* changeset_schedules: the window and the row's status
    request,  \* a Schedule call past its checks and before its Upsert
    tick,     \* the ticks
    up, crashes

vars == <<now, status, ops, lock, apply, row, request, tick, up, crashes>>

RowStatus == {"none", "pending", "fired", "missed", "blocked", "failed", "cancelled"}

NoRow == [status |-> "none", win |-> None]
NoApply == [by |-> None, at |-> 0, ops |-> "plain", deadline |-> 0, win |-> None, missed |-> FALSE]
IdleTick == [pc |-> "idle", now |-> 0, todo |-> {}, cs |-> None, win |-> None,
             from |-> 0, missed |-> FALSE, timeout |-> 0, result |-> "none"]

TypeOK ==
    /\ now \in 0..MaxTime
    /\ status \in [Changesets -> Status]
    /\ ops \in [Changesets -> {"plain", "mgmt"}]
    /\ lock \in Changesets \cup {None}
    /\ \A c \in Changesets :
           /\ apply[c].by \in {None, "user", "schedule"}
           /\ row[c].status \in RowStatus
           /\ row[c].status # "none" <=> row[c].win \in Windows
           /\ request[c] \in Windows \cup {None}
    /\ \A t \in Tickers : tick[t].pc \in {"idle", "scan", "gate", "apply", "run", "resolve"}
    /\ up \in BOOLEAN
    /\ crashes \in 0..MaxCrashes

Init ==
    /\ now = 0
    /\ status = [c \in Changesets |-> "draft"]
    /\ ops = [c \in Changesets |-> "plain"]
    /\ lock = None
    /\ apply = [c \in Changesets |-> NoApply]
    /\ row = [c \in Changesets |-> NoRow]
    /\ request = [c \in Changesets |-> None]
    /\ tick = [t \in Tickers |-> IdleTick]
    /\ up = TRUE
    /\ crashes = 0

-----------------------------------------------------------------------------
(* Clients. *)

\* Schedule: every check, the freshly computed management path among them.
ScheduleCheck(c, w) ==
    /\ up /\ request[c] = None
    /\ Editable(status[c])
    /\ row[c].status # "pending"
    /\ ops[c] = "plain"
    /\ request' = [request EXCEPT ![c] = w]
    /\ UNCHANGED <<now, status, ops, lock, apply, row, tick, up, crashes>>

\* Upsert replaces whatever row there is.
ScheduleUpsert(c) ==
    /\ up /\ request[c] # None
    /\ row' = [row EXCEPT ![c] = [status |-> "pending", win |-> request[c]]]
    /\ request' = [request EXCEPT ![c] = None]
    /\ UNCHANGED <<now, status, ops, lock, apply, tick, up, crashes>>

\* CancelSchedule: refused unless the row is pending.
CancelSchedule(c) ==
    /\ up /\ row[c].status = "pending"
    /\ row' = [row EXCEPT ![c].status = "cancelled"]
    /\ UNCHANGED <<now, status, ops, lock, apply, request, tick, up, crashes>>

\* UpdateDraft: a draft may be edited while it is scheduled.
EditOps(c) ==
    /\ up /\ Editable(status[c])
    /\ ops' = [ops EXCEPT ![c] = IF @ = "plain" THEN "mgmt" ELSE "plain"]
    /\ UNCHANGED <<now, status, lock, apply, row, request, tick, up, crashes>>

Discard(c) ==
    /\ up /\ Editable(status[c])
    /\ status' = [status EXCEPT ![c] = "discarded"]
    /\ UNCHANGED <<now, ops, lock, apply, row, request, tick, up, crashes>>

\* clampConfirmTimeout, after the default for a timeout of exactly zero.
Clamped(d) ==
    LET asked == IF d = 0 THEN ServiceTimeout ELSE d
    IN  CASE asked < MinTimeout -> MinTimeout
          [] asked > MaxTimeout -> MaxTimeout
          [] OTHER -> asked

\* beginApply: one apply at a time, of an editable changeset, on the
\* operations stored now.
Begin(c, by, timeout, win, missed) ==
    /\ lock = None /\ Editable(status[c])
    /\ lock' = c
    /\ status' = [status EXCEPT ![c] = "applying"]
    /\ apply' = [apply EXCEPT ![c] =
                    [by |-> by, at |-> now, ops |-> ops[c], deadline |-> now + Clamped(timeout),
                     win |-> win, missed |-> missed]]

UserApply(c) ==
    /\ up
    /\ Begin(c, "user", ServiceTimeout, None, FALSE)
    /\ UNCHANGED <<now, ops, row, request, tick, up, crashes>>

\* The executor of an apply ends: the window opens or the apply failed.
Ran(c, ok) ==
    /\ status' = [status EXCEPT ![c] = IF ok THEN "awaiting_confirm" ELSE "failed"]
    /\ lock' = IF ok THEN lock ELSE None

UserApplyRan(c) ==
    /\ up /\ status[c] = "applying" /\ apply[c].by = "user"
    /\ \E ok \in BOOLEAN : Ran(c, ok)
    /\ UNCHANGED <<now, ops, apply, row, request, tick, up, crashes>>

\* Confirm, and AckSchedule, which is Confirm for the bearer of the token.
Confirm(c) ==
    /\ up /\ status[c] = "awaiting_confirm"
    /\ status' = [status EXCEPT ![c] = "committed"]
    /\ lock' = None
    /\ UNCHANGED <<now, ops, apply, row, request, tick, up, crashes>>

\* A manual rollback at any time, or the timer at the deadline.
RollBack(c) ==
    /\ up /\ status[c] = "awaiting_confirm"
    /\ status' = [status EXCEPT ![c] = "rolled_back"]
    /\ lock' = None
    /\ UNCHANGED <<now, ops, apply, row, request, tick, up, crashes>>

-----------------------------------------------------------------------------
(* TickSchedules and the fires it makes, one row after the other. *)

Due(w, at) == at >= w.start /\ at < w.end
Elapsed(w, at) == at >= w.end

\* Go on with the listed rows that are left.
Continue(t) == [IdleTick EXCEPT !.pc = IF tick[t].todo = {} THEN "idle" ELSE "scan",
                                !.now = tick[t].now, !.todo = tick[t].todo]

TickSchedules(t) ==
    LET pending == {c \in Changesets : row[c].status = "pending"} IN
    /\ up /\ tick[t].pc = "idle" /\ pending # {}
    /\ tick' = [tick EXCEPT ![t].pc = "scan",
                            ![t].now = now,
                            ![t].todo = {<<c, row[c].win>> : c \in pending}]
    /\ UNCHANGED <<now, status, ops, lock, apply, row, request, up, crashes>>

\* Mutant: a row is resolved whatever its status.
MutResolved(c, result) == [row EXCEPT ![c].status = result]

\* Resolve: UPDATE ... WHERE status = pending.
Resolved(c, result) == IF row[c].status = "pending" THEN [row EXCEPT ![c].status = result] ELSE row

\* Mutant: a missed window is left for the operator, and stays pending.
MutSkipMissed(t, c) ==
    /\ tick' = [tick EXCEPT ![t].todo = {p \in @ : p[1] # c},
                            ![t].pc = IF Cardinality(tick[t].todo) = 1 THEN "idle" ELSE "scan"]
    /\ UNCHANGED row

SkipMissed(t, c) ==
    /\ row' = Resolved(c, "missed")
    /\ tick' = [tick EXCEPT ![t].todo = {p \in @ : p[1] # c},
                            ![t].pc = IF Cardinality(tick[t].todo) = 1 THEN "idle" ELSE "scan"]

\* The oldest window first; the clock is the one read after the list.
TickNext(t) ==
    /\ up /\ tick[t].pc = "scan"
    /\ \E p \in tick[t].todo :
           LET c == p[1]  w == p[2]
               rest == tick[t].todo \ {p}
               fire(from, missed) ==
                   [tick EXCEPT ![t].pc = "gate", ![t].todo = rest, ![t].cs = c, ![t].win = w,
                                ![t].from = from, ![t].missed = missed]
           IN
           /\ \A q \in tick[t].todo : w.start <= q[2].start
           /\ \/ Due(w, tick[t].now) /\ tick' = fire(w.start, FALSE) /\ UNCHANGED row
              \/ /\ Elapsed(w, tick[t].now) /\ w.policy = "applyImmediately"
                 /\ tick' = fire(now, TRUE) /\ UNCHANGED row
              \/ Elapsed(w, tick[t].now) /\ w.policy = "skip" /\ SkipMissed(t, c)
              \/ /\ tick[t].now < w.start
                 /\ tick' = [tick EXCEPT ![t].todo = rest, ![t].pc = IF rest = {} THEN "idle" ELSE "scan"]
                 /\ UNCHANGED row
    /\ UNCHANGED <<now, status, ops, lock, apply, request, up, crashes>>

\* fireSchedule up to its call of Apply: a changeset that cannot be loaded
\* fails the row; a management path, a pre-flight veto or a plan that needs a
\* PVE session blocks it. A management path that cannot be computed does not.
FireGate(t) ==
    LET c == tick[t].cs  w == tick[t].win
        remaining == w.end - tick[t].from
        go(pc, result) == tick' = [tick EXCEPT ![t].pc = pc, ![t].result = result,
                                               ![t].timeout = IF w.timeout > remaining THEN remaining
                                                              ELSE w.timeout]
    IN
    /\ up /\ tick[t].pc = "gate"
    /\ \/ go("resolve", "failed")
       \/ go("resolve", "blocked")
       \/ \E known \in BOOLEAN : ~(known /\ ops[c] = "mgmt") /\ go("apply", "none")
    /\ UNCHANGED <<now, status, ops, lock, apply, row, request, up, crashes>>

\* Apply is refused (locked, not editable, a validation error) ...
FireRefused(t) ==
    /\ up /\ tick[t].pc = "apply"
    /\ tick' = [tick EXCEPT ![t].pc = "resolve", ![t].result = "blocked"]
    /\ UNCHANGED <<now, status, ops, lock, apply, row, request, up, crashes>>

\* ... or starts, with a deadline counted from now,
FireApply(t) ==
    /\ up /\ tick[t].pc = "apply"
    /\ Begin(tick[t].cs, "schedule", tick[t].timeout, tick[t].win, tick[t].missed)
    /\ tick' = [tick EXCEPT ![t].pc = "run"]
    /\ UNCHANGED <<now, ops, row, request, up, crashes>>

\* and returns an error when a step failed.
FireRan(t) ==
    /\ up /\ tick[t].pc = "run"
    /\ \E ok \in BOOLEAN :
           /\ Ran(tick[t].cs, ok)
           /\ tick' = [tick EXCEPT ![t].pc = "resolve", ![t].result = IF ok THEN "fired" ELSE "blocked"]
    /\ UNCHANGED <<now, ops, apply, row, request, up, crashes>>

\* Mutant: a refused apply is recorded as fired.
MutOutcome(t) == IF tick[t].result = "blocked" THEN "fired" ELSE tick[t].result

\* The status fireSchedule resolves its row with.
Outcome(t) == tick[t].result

FireResolve(t) ==
    /\ up /\ tick[t].pc = "resolve"
    /\ row' = Resolved(tick[t].cs, Outcome(t))
    /\ tick' = [tick EXCEPT ![t] = Continue(t)]
    /\ UNCHANGED <<now, status, ops, lock, apply, request, up, crashes>>

TickStep(t) == TickNext(t) \/ FireGate(t) \/ FireRefused(t) \/ FireApply(t) \/ FireRan(t) \/ FireResolve(t)

-----------------------------------------------------------------------------
(* Time, crashes and restarts. *)

Advance ==
    /\ now < MaxTime
    /\ now' = now + 1
    /\ UNCHANGED <<status, ops, lock, apply, row, request, tick, up, crashes>>

Crash ==
    /\ up /\ crashes < MaxCrashes
    /\ up' = FALSE
    /\ crashes' = crashes + 1
    /\ lock' = None
    /\ request' = [c \in Changesets |-> None]
    /\ tick' = [t \in Tickers |-> IdleTick]
    /\ UNCHANGED <<now, status, ops, apply, row>>

\* ArmPendingRollbacks: an interrupted apply has failed, a window is re-armed
\* with its lock. The eager tick of the startup is a tick like any other.
Restart ==
    /\ ~up
    /\ up' = TRUE
    /\ status' = [c \in Changesets |-> IF status[c] = "applying" THEN "failed" ELSE status[c]]
    /\ lock' = IF \E c \in Changesets : status[c] = "awaiting_confirm"
               THEN CHOOSE c \in Changesets : status[c] = "awaiting_confirm" ELSE None
    /\ UNCHANGED <<now, ops, apply, row, request, tick, crashes>>

Next ==
    \/ \E c \in Changesets :
           \/ \E w \in Windows : ScheduleCheck(c, w)
           \/ ScheduleUpsert(c) \/ CancelSchedule(c)
           \/ EditOps(c) \/ Discard(c)
           \/ UserApply(c) \/ UserApplyRan(c) \/ Confirm(c) \/ RollBack(c)
    \/ \E t \in Tickers : TickSchedules(t) \/ TickStep(t)
    \/ Advance \/ Crash \/ Restart

Spec == Init /\ [][Next]_vars

-----------------------------------------------------------------------------

\* A row that says fired tells the truth: the scheduler did apply the
\* changeset, also with a cancel, a reschedule or another tick in between.
FiredIsApplied ==
    \A c \in Changesets : row[c].status = "fired" => apply[c].by = "schedule"

\* A resolved row stays as it was resolved until the changeset is scheduled
\* again: of two ticks, or a tick and a cancel, the first one wins.
ResolvedOnce ==
    \A c \in Changesets :
        row[c].status \notin {"none", "pending"} =>
            row'[c] = row[c] \/ row'[c].status = "pending"

\* A pending row never outlasts its window for ever: it is fired, found
\* missed, or blocked, whatever fails and over restarts.
PendingResolves ==
    \A c \in Changesets : []<>(row[c].status # "pending")

-----------------------------------------------------------------------------
(* Claims of the documents and comments that the code does not keep. *)

\* "applies with a commit-confirm deadline of min(windowStart +
\* confirmTimeoutSec, windowEnd)" (docs/api.md). The timeout is cut to the
\* whole window and counted from the fire, which may come late in it.
DeadlineInsideWindow ==
    \A c \in Changesets :
        apply[c].by = "schedule" /\ ~apply[c].missed =>
            /\ apply[c].deadline <= apply[c].win.end
            /\ apply[c].deadline <= apply[c].win.start + Clamped(apply[c].win.timeout)

\* "fires right away with a freshly computed window (now ..
\* now+confirmTimeoutSec)" (docs/api.md). The timeout is cut to what is left
\* of the old window, nothing or less, and so becomes the service's default
\* or the least timeout there is.
MissedGetsFreshWindow ==
    \A c \in Changesets :
        apply[c].by = "schedule" /\ apply[c].missed =>
            apply[c].deadline = apply[c].at + Clamped(apply[c].win.timeout)

\* "a cancel racing a fire always loses cleanly" (schedule.go). The row is
\* pending until the apply has returned, so the cancel succeeds.
CancelledIsNotApplied ==
    \A c \in Changesets : row[c].status = "cancelled" => apply[c].by # "schedule"

\* "Any abort at fire time ... leaves the changeset in its pre-fire status
\* with zero steps executed" (docs/api.md). An apply that failed half-way, and
\* an applied row found pending after a crash, are reported the same.
BlockedIsUntouched ==
    \A c \in Changesets : row[c].status \in {"blocked", "missed"} => apply[c].by # "schedule"

\* "recomputes touchesMgmtPath fresh ... aborting if now true" (docs/api.md).
\* Apply reads the operations again after the check.
NoUnattendedMgmt ==
    \A c \in Changesets : apply[c].by = "schedule" => apply[c].ops = "plain"
=============================================================================
