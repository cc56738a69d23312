------------------------------- MODULE HALease -------------------------------
(***************************************************************************)
(* Active/standby leadership of a pair of daemons (ha/manager.go,          *)
(* ha/transport.go, cmd/vnproxd/ha.go): the lease and its fencing term,    *)
(* the ticks that renew it, push it to the peer and promote, the handler   *)
(* of an incoming push (check, apply and record are three steps, the lock  *)
(* is not held between them), crashes and the start of a daemon.           *)
(* A request or its answer may be lost, and a request whose sender has     *)
(* given up may still be handled later. The daemons' clocks agree.         *)
(***************************************************************************)
EXTENDS Naturals

CONSTANTS
    Daemons,        \* the two instances
    Bootstrap,      \* the one configured with bootstrap = true
    None,
    TTL,            \* LeaseTTL, in renew intervals
    Margin,         \* FencingMargin, in renew intervals
    MaxDelay,       \* how long a push may take, and a late one still be handled
    GatherMayFail,  \* whether reading the rows to replicate may fail
    MaxTime,        \* bound on the clock
    MaxTerm,        \* bound on the terms
    MaxCrashes      \* bound on the crashes

TimingAssumption ==
    /\ TTL \in Nat \ {0} /\ Margin \in Nat /\ MaxDelay \in Nat
    /\ MaxTime \in Nat /\ MaxTerm \in Nat \ {0} /\ MaxCrashes \in Nat
    /\ GatherMayFail \in BOOLEAN
    /\ Bootstrap \in Daemons /\ None \notin Daemons
    /\ \E a, b \in Daemons : a # b /\ Daemons = {a, b}

VARIABLES
    now,       \* the clock, in renew intervals
    proc,      \* the processes: "down", "starting" (no manager yet) or "up"
    role,      \* role
    lease,     \* lease: the daemon's best knowledge of the lease
    observed,  \* observed: the lease of the last push it took
    lastOK,    \* lastPushOK
    disk,      \* the ha_lease row, None until the first write
    tick,      \* the tick under way and what it waits for
    net,       \* the pushes in flight or being handled
    crashes

vars == <<now, proc, role, lease, observed, lastOK, disk, tick, net, crashes>>

Peer(d) == CHOOSE p \in Daemons : p # d

Terms == 0..MaxTerm
Leases == [holder : Daemons \cup {None}, term : Terms, expires : 0..(MaxTime + TTL)]
NoLease == [holder |-> None, term |-> 0, expires |-> 0]
IdleTick == [pc |-> "idle", at |-> 0, ack |-> 0, done |-> 0]

TypeOK ==
    /\ now \in 0..MaxTime
    /\ proc \in [Daemons -> {"down", "starting", "up"}]
    /\ role \in [Daemons -> {"active", "standby"}]
    /\ lease \in [Daemons -> Leases]
    /\ observed \in [Daemons -> Leases]
    /\ lastOK \in [Daemons -> 0..MaxTime]
    /\ disk \in [Daemons -> Leases \cup {None}]
    /\ tick \in [Daemons -> [pc : {"idle", "renew", "push", "ack", "promote"}, at : 0..MaxTime,
                             ack : Terms, done : 0..(MaxTime + 1)]]
    /\ net \subseteq [from : Daemons, lease : Leases, at : 0..MaxTime,
                      stage : {"sent", "checked", "applied"}]
    /\ crashes \in 0..MaxCrashes

\* A fresh pair: nothing runs and no lease was ever written.
InitBoot ==
    /\ now = 0
    /\ proc = [d \in Daemons |-> "down"]
    /\ role = [d \in Daemons |-> "standby"]
    /\ lease = [d \in Daemons |-> NoLease]
    /\ observed = [d \in Daemons |-> NoLease]
    /\ lastOK = [d \in Daemons |-> 0]
    /\ disk = [d \in Daemons |-> None]
    /\ tick = [d \in Daemons |-> IdleTick]
    /\ net = {}
    /\ crashes = 0

\* A pair at work: the bootstrapped daemon leads, its first push was taken.
Init ==
    LET first == [holder |-> Bootstrap, term |-> 1, expires |-> TTL] IN
    /\ now = 0
    /\ proc = [d \in Daemons |-> "up"]
    /\ role = [d \in Daemons |-> IF d = Bootstrap THEN "active" ELSE "standby"]
    /\ lease = [d \in Daemons |-> first]
    /\ observed = [d \in Daemons |-> IF d = Bootstrap THEN NoLease ELSE first]
    /\ lastOK = [d \in Daemons |-> 0]
    /\ disk = [d \in Daemons |-> IF d = Bootstrap THEN first ELSE None]
    /\ tick = [d \in Daemons |-> IdleTick]
    /\ net = {}
    /\ crashes = 0

-----------------------------------------------------------------------------
(* Roles. *)

\* A write of the lease row may fail; it is only logged.
Saved(d, l) == {disk, [disk EXCEPT ![d] = l]}

\* promoteFrom and becomeActive: the lease at the next term, persisted, and a
\* grace period before the daemon would think itself isolated.
PromoteFrom(d, base) ==
    LET acquired == [holder |-> d, term |-> base + 1, expires |-> now + TTL] IN
    /\ base < MaxTerm
    /\ role' = [role EXCEPT ![d] = "active"]
    /\ lease' = [lease EXCEPT ![d] = acquired]
    /\ disk' \in Saved(d, acquired)
    /\ lastOK' = [lastOK EXCEPT ![d] = now]

\* demote: standby, with the newer term if there is one. observed stays.
Demote(d, newer) ==
    /\ role' = [role EXCEPT ![d] = "standby"]
    /\ lease' = [lease EXCEPT ![d] = IF role[d] = "active" /\ newer > @.term
                                     THEN [@ EXCEPT !.term = newer, !.holder = None] ELSE @]

Idle(d) == [tick[d] EXCEPT !.pc = "idle"]

\* The tick of this interval is still to come.
MayTick(d) == proc[d] = "up" /\ tick[d].pc = "idle" /\ tick[d].done <= now

Ticked(d) == [tick[d] EXCEPT !.done = now + 1, !.at = now]

-----------------------------------------------------------------------------
(* Ticks of the active daemon. *)

\* Tick reads the role ...
TickAsActive(d) ==
    /\ MayTick(d) /\ role[d] = "active"
    /\ tick' = [tick EXCEPT ![d] = [Ticked(d) EXCEPT !.pc = "renew"]]
    /\ UNCHANGED <<now, proc, role, lease, observed, lastOK, disk, net, crashes>>

\* ... and tickActive renews whatever lease the daemon knows by then, persists
\* it, gathers the rows and pushes them. Gather's error ends the tick.
TickActive(d) ==
    LET renewed == [lease[d] EXCEPT !.expires = now + TTL] IN
    /\ proc[d] = "up" /\ tick[d].pc = "renew"
    /\ lease' = [lease EXCEPT ![d] = renewed]
    /\ disk' \in Saved(d, renewed)
    /\ \/ /\ tick' = [tick EXCEPT ![d].pc = "push"]
          /\ net' = net \cup {[from |-> d, lease |-> renewed, at |-> now, stage |-> "sent"]}
       \/ /\ GatherMayFail
          /\ tick' = [tick EXCEPT ![d] = Idle(d)]
          /\ UNCHANGED net
    /\ UNCHANGED <<now, proc, role, observed, lastOK, crashes>>

\* Mutant: an isolated active stays active.
MutIsolated(d) == FALSE

\* No push was answered for a whole TTL.
Isolated(d) == tick[d].at >= lastOK[d] + TTL

\* handlePushFailure: no connection, no answer in time, or an error answer.
HandlePushFailure(d) ==
    /\ proc[d] = "up" /\ tick[d].pc = "push"
    /\ IF Isolated(d) THEN Demote(d, 0) ELSE UNCHANGED <<role, lease>>
    /\ tick' = [tick EXCEPT ![d] = Idle(d)]
    /\ UNCHANGED <<now, proc, observed, lastOK, disk, net, crashes>>

Superseded(d) == tick[d].ack > lease[d].term

\* handlePushAck: a newer term ends this daemon's leadership.
HandlePushAck(d) ==
    /\ proc[d] = "up" /\ tick[d].pc = "ack"
    /\ lastOK' = [lastOK EXCEPT ![d] = tick[d].at]
    /\ IF Superseded(d) THEN Demote(d, tick[d].ack) ELSE UNCHANGED <<role, lease>>
    /\ tick' = [tick EXCEPT ![d] = Idle(d)]
    /\ UNCHANGED <<now, proc, observed, disk, net, crashes>>

-----------------------------------------------------------------------------
(* Ticks of the standby. *)

\* Mutant: the standby does not wait for the fencing margin.
MutExpired(d) == now > observed[d].expires

\* Mutant: only a daemon that held the observed lease promotes.
MutExpiredOwn(d) == now > observed[d].expires + Margin /\ observed[d].holder = d

\* The observed lease ran out and the fencing margin passed.
Expired(d) == now > observed[d].expires + Margin

\* tickStandby reads the highest term it knows ...
TickStandby(d) ==
    /\ MayTick(d) /\ role[d] = "standby"
    /\ tick' = [tick EXCEPT ![d] =
                    IF Expired(d)
                    THEN [Ticked(d) EXCEPT !.pc = "promote",
                                           !.ack = IF observed[d].term > lease[d].term
                                                   THEN observed[d].term ELSE lease[d].term]
                    ELSE Ticked(d)]
    /\ UNCHANGED <<now, proc, role, lease, observed, lastOK, disk, net, crashes>>

\* ... and takes the lock again to acquire the lease one term above it.
Promote(d) ==
    /\ proc[d] = "up" /\ tick[d].pc = "promote"
    /\ PromoteFrom(d, tick[d].ack)
    /\ tick' = [tick EXCEPT ![d] = Idle(d)]
    /\ UNCHANGED <<now, proc, observed, net, crashes>>

-----------------------------------------------------------------------------
(* Receive, at the peer of the sender. *)

\* The answer reaches a sender that still waits for it.
Answered(m, term) ==
    LET s == m.from IN
    IF proc[s] = "up" /\ tick[s].pc = "push" /\ tick[s].at = m.at
    THEN [tick EXCEPT ![s].pc = "ack", ![s].ack = term] ELSE tick

\* The sender's term is behind, or another daemon's at the term led here.
Stale(d, m) ==
    \/ m.lease.term < lease[d].term
    \/ role[d] = "active" /\ m.lease.term = lease[d].term /\ m.lease.holder # d

ReceiveCheck(m) ==
    LET d == Peer(m.from) IN
    /\ m.stage = "sent" /\ proc[d] = "up"
    /\ IF Stale(d, m)
       THEN tick' = Answered(m, lease[d].term) /\ net' = net \ {m}
       ELSE net' = (net \ {m}) \cup {[m EXCEPT !.stage = "checked"]} /\ UNCHANGED tick
    /\ UNCHANGED <<now, proc, role, lease, observed, lastOK, disk, crashes>>

\* The rows are written without the lock.
ReceiveApply(m) ==
    /\ m.stage = "checked" /\ proc[Peer(m.from)] = "up"
    /\ net' = (net \ {m}) \cup {[m EXCEPT !.stage = "applied"]}
    /\ UNCHANGED <<now, proc, role, lease, observed, lastOK, disk, tick, crashes>>

\* The lease is the latest observation; a newer term is adopted, in memory.
ReceiveRecord(m) ==
    LET d == Peer(m.from)
        newer == m.lease.term > lease[d].term
        term == IF newer THEN m.lease.term ELSE lease[d].term
    IN
    /\ m.stage = "applied" /\ proc[d] = "up"
    /\ observed' = [observed EXCEPT ![d] = m.lease]
    /\ lease' = [lease EXCEPT ![d] = IF newer THEN m.lease ELSE @]
    /\ role' = [role EXCEPT ![d] = IF newer THEN "standby" ELSE @]
    /\ tick' = Answered(m, term)
    /\ net' = net \ {m}
    /\ UNCHANGED <<now, proc, lastOK, disk, crashes>>

\* A request is lost, or its handler fails.
Lose(m) ==
    /\ net' = net \ {m}
    /\ UNCHANGED <<now, proc, role, lease, observed, lastOK, disk, tick, crashes>>

-----------------------------------------------------------------------------
(* Processes and time. *)

Crash(d) ==
    /\ proc[d] = "up" /\ crashes < MaxCrashes
    /\ proc' = [proc EXCEPT ![d] = "down"]
    /\ role' = [role EXCEPT ![d] = "standby"]
    /\ lease' = [lease EXCEPT ![d] = NoLease]
    /\ observed' = [observed EXCEPT ![d] = NoLease]
    /\ tick' = [tick EXCEPT ![d] = IdleTick]
    /\ net' = {m \in net : m.from = d}
    /\ crashes' = crashes + 1
    /\ UNCHANGED <<now, lastOK, disk>>

\* The daemon starts: the change engine recovers interrupted applies, re-arms
\* and ticks its schedules before there is a manager, and while there is none
\* the leader guard answers yes.
BeginStart(d) ==
    /\ proc[d] = "down"
    /\ proc' = [proc EXCEPT ![d] = "starting"]
    /\ UNCHANGED <<now, role, lease, observed, lastOK, disk, tick, net, crashes>>

\* Start: resume an own valid lease, observe any other, bootstrap, or wait.
Start(d) ==
    /\ proc[d] = "starting"
    /\ proc' = [proc EXCEPT ![d] = "up"]
    /\ tick' = [tick EXCEPT ![d] = [IdleTick EXCEPT !.done = now + 1]]
    /\ \/ /\ disk[d] # None /\ disk[d].holder = d /\ now <= disk[d].expires
          /\ lease' = [lease EXCEPT ![d] = disk[d]]
          /\ role' = [role EXCEPT ![d] = "active"]
          /\ lastOK' = [lastOK EXCEPT ![d] = now]
          /\ UNCHANGED <<observed, disk>>
       \/ /\ disk[d] # None /\ ~(disk[d].holder = d /\ now <= disk[d].expires)
          /\ lease' = [lease EXCEPT ![d] = disk[d]]
          /\ observed' = [observed EXCEPT ![d] = disk[d]]
          /\ UNCHANGED <<role, lastOK, disk>>
       \/ /\ disk[d] = None /\ d = Bootstrap
          /\ PromoteFrom(d, 0)
          /\ UNCHANGED observed
       \/ /\ disk[d] = None /\ d # Bootstrap
          /\ observed' = [observed EXCEPT ![d] = [NoLease EXCEPT !.expires = now + TTL]]
          /\ UNCHANGED <<role, lease, lastOK, disk>>
    /\ UNCHANGED <<now, net, crashes>>

\* The ticker fires once an interval unless a push is still under way; a push
\* is answered, or given up, and a late request handled, within MaxDelay.
Advance ==
    /\ now < MaxTime
    /\ \A d \in Daemons :
           proc[d] = "up" =>
               CASE tick[d].pc = "idle" -> tick[d].done > now
                 [] tick[d].pc \in {"push", "ack"} -> now < tick[d].at + MaxDelay
                 [] OTHER -> FALSE
    /\ \A m \in net : now < m.at + MaxDelay
    /\ now' = now + 1
    /\ UNCHANGED <<proc, role, lease, observed, lastOK, disk, tick, net, crashes>>

Tick(d) ==
    \/ TickAsActive(d) \/ TickActive(d)
    \/ HandlePushFailure(d) \/ HandlePushAck(d)
    \/ TickStandby(d) \/ Promote(d)

Handle ==
    \E m \in net : ReceiveCheck(m) \/ ReceiveApply(m) \/ ReceiveRecord(m) \/ Lose(m)

Next ==
    \/ \E d \in Daemons : Tick(d) \/ Crash(d) \/ BeginStart(d) \/ Start(d)
    \/ Handle
    \/ Advance

Spec == Init /\ [][Next]_vars

-----------------------------------------------------------------------------

Leads(d) == proc[d] = "up" /\ role[d] = "active"

\* The first handover is safe: while the bootstrapped daemon leads at term 1
\* no other daemon leads, whatever is lost or late. The standby promotes only
\* when the active must have found itself isolated.
FirstLeaderFenced ==
    \A d \in Daemons : Leads(d) /\ lease[d].term = 1 => ~Leads(Peer(d))

\* "an isolated active that cannot confirm its lease with the peer for a whole
\* lease TTL self-demotes" (architecture.md): no daemon leads longer after its
\* last answered push than the TTL and the time the failing pushes take. It
\* holds as long as Gather works; a tick whose Gather fails ends before the
\* check.
IsolatedStepsDown ==
    \A d \in Daemons : Leads(d) => now <= lastOK[d] + TTL + 2 * MaxDelay

\* When the active dies the standby takes over.
FailoverHappens ==
    \A d \in Daemons :
        (proc[d] = "down" /\ now + TTL + Margin + MaxDelay + 2 <= MaxTime)
            ~> (Leads(Peer(d)) \/ proc[d] # "down")

\* A fresh pair gets a leader: whichever daemon comes up, alone or not, one
\* of the pair leads in the end.
LeaderEmerges ==
    (now + TTL + Margin + 2 <= MaxTime /\ \E d \in Daemons : proc[d] = "up")
        ~> (\E d \in Daemons : Leads(d))

\* Two leaders at different terms do not last. One comes back with a lease of
\* its own that it left behind, just when the other promotes itself; then the
\* older term's pushes are answered with the newer term, the newer one's make
\* the older adopt it, and who gets no answer for a TTL steps down.
OlderLeaderYields ==
    LET Outranked(d) == Leads(d) /\ Leads(Peer(d)) /\ lease[d].term < lease[Peer(d)].term
    IN  (now + TTL + 2 * MaxDelay <= MaxTime /\ \E d \in Daemons : Outranked(d))
            ~> (\A d \in Daemons : ~Outranked(d))

\* The two together: stepping down needs a Gather that works, the fence also
\* daemons that stay up and a margin of three times what a push may take.
LeaderIsFenced ==
    ~GatherMayFail =>
        /\ IsolatedStepsDown
        /\ MaxCrashes = 0 /\ 3 * MaxDelay <= Margin + 1 => FirstLeaderFenced

-----------------------------------------------------------------------------
(* Claims of the documents and comments that the code does not keep. *)

\* "two daemons can never both drive the same changeset" (architecture.md). An
\* isolated active that stepped down knows no lease but its own old one, so
\* its next tick promotes it again, to the term the standby promotes itself
\* to, and neither takes the other's pushes.
SingleLeader == \A d \in Daemons : Leads(d) => ~Leads(Peer(d))

\* "exactly one daemon in a fresh pair is configured to bootstrap, so a
\* first-boot pair never both claim term 1" (manager.go). A standby that has
\* waited a TTL and the margin for the other daemon promotes itself to term 1.
TermOneClaimedOnce ==
    ~ \A d \in Daemons : disk[d] # None /\ disk[d].holder = d /\ disk[d].term = 1

\* "Promote to a strictly-higher term than anything observed" (manager.go).
\* The term is read, and the lock released, before the promotion: a push taken
\* in between has the term the daemon then claims for itself.
PromotesHigher ==
    [][\A d \in Daemons :
           ~Leads(d) /\ Leads(d)' /\ proc[d] = "up" => lease'[d].term > observed[d].term]_vars

\* A starting daemon has no manager yet and may drive what it finds.
Drives(d) == proc[d] = "starting" \/ Leads(d)

\* "Two vnproxd instances must NEVER both drive the same changeset's commit-
\* confirm/rollback" (ha.go). A restarted standby recovers interrupted applies
\* and fires schedules before the leader guard is set.
SingleDriver == \A d \in Daemons : Leads(d) => ~Drives(Peer(d))

\* "internal/ha calls this ... when adopting a newer term observed from the
\* peer" (haleases.go). Receive adopts the term in memory only.
AdoptedTermIsDurable ==
    \A d \in Daemons : proc[d] = "up" /\ lease[d].holder = Peer(d) =>
        disk[d] # None /\ disk[d].term = lease[d].term

\* "the Manager only calls Apply for a batch whose sender term is
\* current-or-newer" (replicate.go). The handler may be promoted past the batch
\* between the check and the write.
StaleNeverApplied ==
    [][\A m \in net :
           m.stage = "checked" /\ [m EXCEPT !.stage = "applied"] \in net' =>
               m.lease.term >= lease[Peer(m.from)].term]_vars
=============================================================================
