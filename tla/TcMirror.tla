------------------------------ MODULE TcMirror ------------------------------
(***************************************************************************)
(* Traffic mirror sessions (internal/change/tcmirror_expiry.go,            *)
(* cmd/vnproxd/tcmirror.go, internal/store/tcmirror.go): the ops that      *)
(* start, re-bound and end a mirror, their undo, and the sweep that ends   *)
(* the overdue ones with a changeset of its own.                           *)
(*                                                                         *)
(* A session has an id and mirrors one source interface.  Rows of ended    *)
(* sessions stay, so several may name one source, and the tc commands see  *)
(* the source only.  Commands and rows are steps of their own, each of     *)
(* which may fail.  The change engine is reduced to what these ops see of  *)
(* it: one changeset of one op at a time, confirmed or undone, taken up    *)
(* again after a crash.                                                    *)
(***************************************************************************)
EXTENDS Naturals, Sequences, FiniteSets

CONSTANTS Sessions,     \* a sequence: the ids in the order of ORDER BY id
          Sources,      \* the interfaces that may be mirrored
          Ops,          \* the kinds of operator changesets, of AllOps
          Durations,    \* maxDurationSec an op may ask for
          Ceiling,      \* TcMirrorLimits.MaxDurationSec
          MaxSessions,  \* TcMirrorLimits.MaxConcurrentPerNode
          Rollbacks,    \* TRUE: a window may end without a confirmation
          FreshIds,     \* TRUE: operators never take an id twice
          TcFaults,     \* TRUE: tc commands may fail
          StoreFaults,  \* TRUE: calls of the store may fail
          MaxTime, MaxChanges, MaxCrashes

AllOps == {"create", "update", "delete", "other"}

Ids == {Sessions[i] : i \in DOMAIN Sessions}

TcMirrorAssumption ==
  /\ Sessions \in Seq(Ids) /\ Len(Sessions) # 0 /\ Sources # {} /\ Ops \subseteq AllOps
  /\ Durations \subseteq Nat \ {0} /\ Ceiling \in Nat /\ MaxSessions \in Nat \ {0}
  /\ {Rollbacks, FreshIds, TcFaults, StoreFaults} \subseteq BOOLEAN
  /\ {MaxTime, MaxChanges, MaxCrashes} \subseteq Nat

VARIABLES row,      \* tc_mirror_sessions
          tc,       \* what the kernel does for a source
          cs,       \* the changeset that holds the single-applier lock
          up,       \* the daemon runs
          due,      \* TickTcMirrorSessions: sessions not handled yet
          swept,    \* the sweep of this interval has started
          clock, changes, crashes

vars == <<row, tc, cs, up, due, swept, clock, changes, crashes>>

NoSource == CHOOSE i \in Sources : TRUE
NoRow == [st |-> "none", src |-> NoSource, start |-> 0, exp |-> 0]
NoCs  == [op |-> "none", s |-> Sessions[1], src |-> NoSource, by |-> "operator", dur |-> 0,
          phase |-> "idle", pre |-> [s \in Ids |-> NoRow], next |-> 1]

Idle      == cs.phase = "idle"
Undoing   == cs.phase \in {"list", "drop", "mark", "readd", "rebind"}
Active(s) == row[s].st = "active"
Set(f, x, v) == [f EXCEPT ![x] = v]

Rows == [st : {"none", "active", "stopped"}, src : Sources, start : 0 .. MaxTime, exp : 0 .. MaxTime]

TypeOK ==
  /\ row \in [Ids -> Rows]
  /\ tc \in [Sources -> {"clean", "bare", "live"}]
  /\ cs.op \in AllOps \cup {"none"} /\ cs.s \in Ids /\ cs.src \in Sources
  /\ cs.by \in {"operator", "sweep", "orphan"}
  /\ cs.phase \in {"idle", "exec", "record", "awaiting"} \/ Undoing
  /\ (cs.op = "none") = Idle
  /\ cs.pre \in [Ids -> Rows] /\ cs.next \in 1 .. Len(Sessions) + 1
  /\ due \in SUBSET Ids /\ {up, swept} \subseteq BOOLEAN
  /\ clock \in 0 .. MaxTime /\ changes \in 0 .. MaxChanges /\ crashes \in 0 .. MaxCrashes
  /\ ~up => due = {}

Init ==
  /\ row = [s \in Ids |-> NoRow]
  /\ tc = [i \in Sources |-> "clean"]
  /\ cs = NoCs
  /\ up = TRUE
  /\ due = {} /\ swept = FALSE
  /\ clock = 0 /\ changes = 0 /\ crashes = 0

-----------------------------------------------------------------------------
(* The tc commands of a session, and what they leave behind.               *)

\* RenderTC: `add` refuses a source that already has the qdisc; a failure
\* after the first command leaves the qdisc, after the second one filter.
Add(state) ==
  IF state = "clean"
  THEN {"live"} \cup (IF TcFaults THEN {"clean", "bare", "failed"} ELSE {})
  ELSE {"failed"}
Left(state, outcome) ==
  IF outcome # "failed" THEN outcome ELSE IF state = "clean" THEN "live" ELSE state

\* Variant: the filters go and the qdisc stays.
MutTeardown(state) == {IF state = "live" THEN "bare" ELSE state}

\* RenderTCTeardown, whose errors the callers ignore: it stops at the first
\* command that fails, which without a filter may be the first of all.
Teardown(state) ==
  CASE state = "clean" -> {"clean"}
    [] state = "bare"  -> {"bare", "clean"}
    [] state = "live"  -> {"clean"} \cup (IF TcFaults THEN {"live", "bare"} ELSE {})

-----------------------------------------------------------------------------
(* The changeset that carries an op.                                       *)

\* Variant: the ceiling on concurrent sessions is off by one.
MutAdmitted(op, src, dur) ==
  op = "create" =>
    /\ dur <= Ceiling /\ Cardinality({t \in Ids : Active(t)}) <= MaxSessions
    /\ \A t \in Ids : Active(t) => row[t].src # src

\* tcMirrorCapValidate, under the lock: only a create is held to it, and only
\* against active sessions.  No validator looks at the id.
Admitted(op, src, dur) ==
  op = "create" =>
    /\ dur <= Ceiling /\ Cardinality({t \in Ids : Active(t)}) < MaxSessions
    /\ \A t \in Ids : Active(t) => row[t].src # src

\* SnapshotTcMirror.
Snapshot == [s \in Ids |-> IF Active(s) THEN row[s] ELSE NoRow]

\* beginApply and the pre-apply snapshot.
Begin(op, s, src, by, dur) ==
  /\ up /\ Idle
  /\ Admitted(op, src, dur)
  /\ cs' = [op |-> op, s |-> s, src |-> src, by |-> by, dur |-> dur, next |-> 1, pre |-> Snapshot,
            phase |-> IF op = "other" THEN "awaiting" ELSE "exec"]

\* An operator applies a changeset.
Apply(op, s, src, dur) ==
  /\ changes < MaxChanges
  /\ clock + dur <= MaxTime
  /\ FreshIds /\ op = "create" => row[s].st = "none"
  /\ Begin(op, s, src, "operator", dur)
  /\ changes' = changes + 1
  /\ UNCHANGED <<row, tc, up, due, swept, clock, crashes>>

\* A step that fails succeeded for nobody, so nothing is restored; what it has
\* done so far stays.  A restore that fails is not taken up again.
Fail == cs' = NoCs

Running(op) == up /\ cs.phase = "exec" /\ cs.op = op

\* createSession: the commands on the source, then the row.
CreateExec ==
  /\ Running("create")
  /\ \E o \in Add(tc[cs.src]) :
        /\ tc' = Set(tc, cs.src, Left(tc[cs.src], o))
        /\ IF o = "live" THEN cs' = [cs EXCEPT !.phase = "record"] ELSE Fail
  /\ UNCHANGED <<row, up, due, swept, clock, changes, crashes>>

\* Variant: a session starts without a deadline within reach.
MutInsert(src, dur) == [st |-> "active", src |-> src, start |-> clock, exp |-> MaxTime + 1]

Insert(src, dur) == [st |-> "active", src |-> src, start |-> clock, exp |-> clock + dur]

\* The id is the primary key: of an ended session too.
CreateRecord ==
  /\ up /\ cs.phase = "record" /\ cs.op = "create"
  /\ \/ /\ row[cs.s].st = "none"
        /\ row' = Set(row, cs.s, Insert(cs.src, cs.dur))
        /\ cs' = [cs EXCEPT !.phase = "awaiting"]
     \/ /\ row[cs.s].st # "none" \/ StoreFaults
        /\ Fail /\ UNCHANGED row
  /\ UNCHANGED <<tc, up, due, swept, clock, changes, crashes>>

\* updateSession: the row only, counted from the start of the session.
Update ==
  /\ Running("update")
  /\ \/ /\ Active(cs.s)
        /\ row' = [row EXCEPT ![cs.s].exp = row[cs.s].start + cs.dur]
        /\ cs' = [cs EXCEPT !.phase = "awaiting"]
     \/ /\ ~Active(cs.s) \/ StoreFaults
        /\ Fail /\ UNCHANGED row
  /\ UNCHANGED <<tc, up, due, swept, clock, changes, crashes>>

\* deleteSession: the commands on the source of the row, active or ended,
\* whatever comes of them.
DeleteExec ==
  /\ Running("delete")
  /\ \/ /\ row[cs.s].st # "none"
        /\ \E o \in Teardown(tc[row[cs.s].src]) : tc' = Set(tc, row[cs.s].src, o)
        /\ cs' = [cs EXCEPT !.phase = "record"]
     \/ /\ row[cs.s].st = "none" \/ StoreFaults
        /\ Fail /\ UNCHANGED tc
  /\ UNCHANGED <<row, up, due, swept, clock, changes, crashes>>

\* Variant: a delete leaves the row active.
MutStop(s) == row

\* SetStatus.
Stop(s) == [row EXCEPT ![s].st = "stopped"]

\* Then the row; when that fails the session stays active.
DeleteRecord ==
  /\ up /\ cs.phase = "record" /\ cs.op = "delete"
  /\ \/ row' = Stop(cs.s) /\ cs' = [cs EXCEPT !.phase = "awaiting"]
     \/ StoreFaults /\ Fail /\ UNCHANGED row
  /\ UNCHANGED <<tc, up, due, swept, clock, changes, crashes>>

\* Confirm, of an operator or, at once, of the sweep.
Confirm ==
  /\ up /\ cs.phase = "awaiting"
  /\ cs' = NoCs
  /\ UNCHANGED <<row, tc, up, due, swept, clock, changes, crashes>>

\* A rollback by hand or at the deadline; the sweep confirms before either
\* unless a crash parts it from its changeset.
Rollback ==
  /\ up /\ cs.phase = "awaiting"
  /\ cs.by = "operator" => Rollbacks
  /\ cs.by # "sweep"
  /\ cs' = IF cs.op = "other" THEN NoCs ELSE [cs EXCEPT !.phase = "list"]
  /\ UNCHANGED <<row, tc, up, due, swept, clock, changes, crashes>>

\* RestoreTcMirror: the active sessions are listed.
RestoreList ==
  /\ up /\ cs.phase = "list"
  /\ \/ cs' = [cs EXCEPT !.phase = "drop"]
     \/ StoreFaults /\ Fail
  /\ UNCHANGED <<row, tc, up, due, swept, clock, changes, crashes>>

\* Variant: the undo takes a session that was there for one that was not.
MutUnwanted(s) == Active(s)

\* First half: the listed sessions the snapshot does not have, in order.
Unwanted(s) == Active(s) /\ cs.pre[s].st = "none"

\* The commands, whatever comes of them, ...
RestoreDrop(n) ==
  /\ up /\ cs.phase = "drop"
  /\ Unwanted(Sessions[n]) /\ \A m \in 1 .. n - 1 : ~Unwanted(Sessions[m])
  /\ LET i == row[Sessions[n]].src IN \E o \in Teardown(tc[i]) : tc' = Set(tc, i, o)
  /\ cs' = [cs EXCEPT !.phase = "mark", !.next = n]
  /\ UNCHANGED <<row, up, due, swept, clock, changes, crashes>>

\* ... then the row.
RestoreMark ==
  /\ up /\ cs.phase = "mark"
  /\ \/ row' = [row EXCEPT ![Sessions[cs.next]].st = "stopped"] /\ cs' = [cs EXCEPT !.phase = "drop"]
     \/ StoreFaults /\ Fail /\ UNCHANGED row
  /\ UNCHANGED <<tc, up, due, swept, clock, changes, crashes>>

RestoreDropped ==
  /\ up /\ cs.phase = "drop"
  /\ ~\E s \in Ids : Unwanted(s)
  /\ cs' = [cs EXCEPT !.phase = "readd", !.next = 1]
  /\ UNCHANGED <<row, tc, up, due, swept, clock, changes, crashes>>

Wanted(s) == cs.pre[s].st = "active"

\* Second half, in the order of the snapshot: the commands, ...
RestoreReadd ==
  /\ up /\ cs.phase = "readd"
  /\ cs.next <= Len(Sessions)
  /\ LET s == Sessions[cs.next]
         i == cs.pre[s].src
     IN IF Wanted(s)
        THEN \E o \in Add(tc[i]) :
               /\ tc' = Set(tc, i, Left(tc[i], o))
               /\ IF o = "live" THEN cs' = [cs EXCEPT !.phase = "rebind"] ELSE Fail
        ELSE cs' = [cs EXCEPT !.next = @ + 1] /\ UNCHANGED tc
  /\ UNCHANGED <<row, up, due, swept, clock, changes, crashes>>

\* ... then the row, inserted when it is gone and re-bound when it is active.
\* Get does not tell an error from no row; the insert that follows then fails.
RestoreRebind ==
  /\ up /\ cs.phase = "rebind"
  /\ LET s == Sessions[cs.next] IN
     \/ /\ row[s].st # "stopped"
        /\ row' = Set(row, s, IF Active(s) THEN [row[s] EXCEPT !.exp = cs.pre[s].exp] ELSE cs.pre[s])
        /\ cs' = [cs EXCEPT !.phase = "readd", !.next = @ + 1]
     \/ /\ row[s].st = "stopped" \/ StoreFaults
        /\ Fail /\ UNCHANGED row
  /\ UNCHANGED <<tc, up, due, swept, clock, changes, crashes>>

RestoreDone ==
  /\ up /\ cs.phase = "readd"
  /\ cs.next > Len(Sessions)
  /\ cs' = NoCs
  /\ UNCHANGED <<row, tc, up, due, swept, clock, changes, crashes>>

-----------------------------------------------------------------------------
(* The sweep.                                                              *)

\* Variant: only what falls due at this very tick.
MutDueForExpiry == {s \in Ids : Active(s) /\ row[s].exp = clock}

DueForExpiry == {s \in Ids : Active(s) /\ row[s].exp <= clock}

\* The list is read once per tick; without it the tick does nothing.
SweepStart ==
  /\ up /\ ~swept /\ due = {}
  /\ due' = DueForExpiry \/ (StoreFaults /\ due' = {})
  /\ swept' = TRUE
  /\ UNCHANGED <<row, tc, cs, up, clock, changes, crashes>>

Sweeping == up /\ cs.by = "sweep"

\* expireTcMirrorSession: a delete changeset of its own.
SweepExpire(s) ==
  /\ s \in due
  /\ Begin("delete", s, NoSource, "sweep", 0)
  /\ due' = due \ {s}
  /\ UNCHANGED <<row, tc, up, swept, clock, changes, crashes>>

\* The lock is held: tcMirrorExpireFailed, left to a later tick.
SweepRefused(s) ==
  /\ up /\ s \in due
  /\ ~Idle /\ ~Sweeping
  /\ due' = due \ {s}
  /\ UNCHANGED <<row, tc, cs, up, swept, clock, changes, crashes>>

-----------------------------------------------------------------------------
\* MaxTime bounds the deadlines too, that of a create under way included.
Elapses == clock < MaxTime /\ (cs.phase \in {"exec", "record"} => clock + cs.dur < MaxTime)

\* An interval of the sweep.  While the daemon runs the sweep of the last
\* interval has been through its list; when time has reached its bound the
\* sweep still goes on.
Tick ==
  /\ up => swept /\ due = {} /\ ~Sweeping
  /\ up \/ Elapses
  /\ clock' = IF Elapses THEN clock + 1 ELSE clock
  /\ swept' = FALSE
  /\ UNCHANGED <<row, tc, cs, up, due, changes, crashes>>

Crash ==
  /\ up /\ crashes < MaxCrashes
  /\ up' = FALSE /\ due' = {}
  /\ crashes' = crashes + 1
  /\ UNCHANGED <<row, tc, cs, swept, clock, changes>>

\* ArmPendingRollbacks, before the first sweep: recoverInterruptedApply fails
\* an apply that was cut short and leaves sessions and mirrors as they are; an
\* undo that was cut short is still awaiting_confirm, and its window goes on.
\* The sweep starts with an eager tick.
Restart ==
  /\ ~up
  /\ up' = TRUE /\ swept' = FALSE
  /\ cs' = IF cs.phase = "awaiting" \/ Undoing
           THEN [cs EXCEPT !.by = "orphan", !.phase = "awaiting", !.next = 1]
           ELSE NoCs
  /\ UNCHANGED <<row, tc, due, clock, changes, crashes>>

EngineStep ==
  \/ CreateExec \/ CreateRecord \/ Update \/ DeleteExec \/ DeleteRecord
  \/ RestoreList \/ RestoreMark \/ RestoreDropped \/ RestoreReadd \/ RestoreRebind \/ RestoreDone
  \/ \E n \in DOMAIN Sessions : RestoreDrop(n)
SweepStep == SweepStart \/ \E s \in Ids : SweepExpire(s) \/ SweepRefused(s)

\* What operators may ask for: only a start and a new bound have a duration,
\* only a start names a source.
Requests == {r \in Ops \X Ids \X Sources \X ({0} \cup Durations) :
               /\ (r[1] \in {"create", "update"}) = (r[4] # 0)
               /\ r[1] # "create" => r[3] = NoSource
               /\ r[1] = "other" => r[2] = Sessions[1]}

Next ==
  \/ \E r \in Requests : Apply(r[1], r[2], r[3], r[4])
  \/ EngineStep \/ Confirm \/ Rollback
  \/ SweepStep
  \/ Tick \/ Crash \/ Restart

Spec == Init /\ [][Next]_vars

-----------------------------------------------------------------------------
\* No order of creates, deletes, expiries and undos takes a node past
\* MaxConcurrentPerNode (tcMirrorCapValidate, rerun under the lock), ...
CapRespected == Cardinality({s \in Ids : Active(s)}) <= MaxSessions

\* ... or has two active sessions mirror one source.
OneSessionPerSource ==
  \A s, t \in Ids : Active(s) /\ Active(t) /\ row[s].src = row[t].src => s = t

\* With no changeset in progress a session whose row is active is mirrored,
\* unless an ended session has the same source: deleteSession, of an operator
\* or of the sweep, would have taken the mirror for that one's.
ActiveIsLive ==
  up /\ Idle => \A s \in Ids : Active(s) =>
    \/ tc[row[s].src] = "live"
    \/ \E t \in Ids : row[t].st = "stopped" /\ row[t].src = row[s].src

\* All three; the last as long as no store call fails and the daemon has not
\* died, either of which may come between the commands of a delete and its row.
MirrorsMatchRows ==
  /\ CapRespected /\ OneSessionPerSource
  /\ ~StoreFaults /\ crashes = 0 => ActiveIsLive

\* RestoreTcMirror goes through all sessions of the node: those the undone
\* changeset was not about keep their rows and, when mirrored, their mirrors.
Bystanders ==
  Undoing => \A s \in Ids \ {cs.s} :
    /\ row'[s] = row[s]
    /\ Active(s) /\ tc[row[s].src] = "live" => tc'[row[s].src] = "live"

\* A create whose undo gets to its second half, however that half ends and
\* however often the daemon died on the way, has no active session left and,
\* when tc works, no mirror.
CreateUndone ==
  cs.op = "create" /\ cs.phase \in {"readd", "rebind"} /\ cs'.phase = "idle" =>
    /\ row'[cs.s].st # "active"
    /\ ~TcFaults => tc'[cs.src] = "clean"

\* An overdue session is ended or bounded anew, however often the lock was
\* held when the sweep came by and wherever the daemon died.
DueIsEnded ==
  \A s \in Ids : []<>(Active(s) => row[s].exp > clock)

\* Every session that is active really is mirrored.
ActiveIsMirrored == up /\ Idle => \A s \in Ids : Active(s) => tc[row[s].src] = "live"

\* Every mirror on the node has an active row, without which nothing ends it.
MirrorIsBounded ==
  up /\ Idle => \A i \in Sources : tc[i] = "live" => \E s \in Ids : Active(s) /\ row[s].src = i

\* The undo puts back what the snapshot has, row and mirror alike.
UndoRestores ==
  [][Undoing /\ cs'.phase = "idle"
       => \A s \in Ids : Wanted(s) => row'[s] = cs.pre[s] /\ tc'[cs.pre[s].src] = "live"]_vars

\* A session outlives its bound by one interval of the sweep at most.
StopsInTime == \A s \in Ids : up /\ swept /\ Active(s) => clock <= row[s].exp + 1

\* The sweep ends sessions that are overdue when it ends them.
OnlyOverdueEnded ==
  [][Idle /\ cs'.by = "sweep" /\ Active(cs'.s) => row[cs'.s].exp <= clock]_vars

\* The bound of every session is within the configured ceiling.
WithinCeiling == \A s \in Ids : Active(s) => row[s].exp - row[s].start <= Ceiling
=============================================================================
