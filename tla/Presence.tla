------------------------------- MODULE Presence -------------------------------
(***************************************************************************)
(* Advisory entity locks and presence (internal/presence) over the         *)
(* entity_locks table (internal/store/entitylocks.go) and the connection   *)
(* life cycle the websocket hub reports (internal/topology/hub.go).        *)
(*                                                                         *)
(* Service.mu guards the connection registry only. Stage reads and writes  *)
(* the lock of each ref in two statements with nothing held in between; a  *)
(* closing connection leaves mu before it broadcasts and before it         *)
(* releases its session's locks.                                           *)
(***************************************************************************)
EXTENDS FiniteSets, Naturals

CONSTANTS
    Sessions,       \* login sessions, one operator each
    Conns,          \* websocket connections
    Refs,           \* entities
    Drafts,         \* changesets
    None,
    TTL,            \* Service.ttl
    MaxTime,        \* bound: the clock
    LastStage       \* bound: no staging request starts after it

PresenceAssumption ==
    /\ TTL \in Nat \ {0} /\ MaxTime \in Nat /\ LastStage \in Nat
    /\ IsFiniteSet(Conns) /\ IsFiniteSet(Sessions)
    /\ None \notin Nat \cup Sessions \cup [session : Sessions, viewing : BOOLEAN]

VARIABLES
    clock,
    locks,      \* entity_locks: per ref None or [cs, session, expires]
    discarded,  \* drafts that are gone
    stage,      \* Stage in progress, per session; since is a history: who
                \* wrote the lock after this request read it
    sweep,      \* Locks in progress: the now it read, or None
    conns,      \* Service.conns: per connection None or [session, viewing]
    opened,     \* connections that have been opened (ids are not reused)
    sessions,   \* Service.sessions: live connections per session
    busy,       \* per connection what its goroutine has left to do outside mu:
                \* the count to send and the session to release, or None each
    shown       \* the count of viewers the last event sent carried

lockVars == <<locks, discarded, stage, sweep>>
connVars == <<conns, opened, sessions, busy, shown>>
vars == <<clock, lockVars, connVars>>

Free == [at |-> "idle", cs |-> None, todo |-> {}, ref |-> None, now |-> 0,
         override |-> FALSE, took |-> None, since |-> {}]

-----------------------------------------------------------------------------
(* Stage. *)

Held(l, now) == l # None /\ l.expires > now

\* handleUpdateChangeset: UpdateDraft has just succeeded on a live draft.
Stage(s, d, refs, override) ==
    /\ stage[s].at = "idle"
    /\ clock <= LastStage
    /\ d \notin discarded
    /\ stage' = [stage EXCEPT ![s] = [Free EXCEPT !.at = "get", !.cs = d, !.todo = refs,
                                                  !.now = clock, !.override = override]]
    /\ UNCHANGED <<clock, locks, discarded, sweep, connVars>>

\* Mutant: a lock is one's own when it was taken for the same draft.
MutStageGet(s) ==
    /\ stage[s].at = "get"
    /\ \E r \in stage[s].todo :
           LET other == Held(locks[r], stage[s].now) /\ locks[r].cs # stage[s].cs
           IN  IF other /\ ~stage[s].override
               THEN stage' = [stage EXCEPT ![s].todo = @ \ {r}]
               ELSE stage' = [stage EXCEPT ![s].at = "upsert", ![s].ref = r,
                                           ![s].took = IF other THEN locks[r].session
                                                       ELSE None]
    /\ UNCHANGED <<clock, locks, discarded, sweep, connVars>>

\* The read of the next ref: another's unexpired lock is left alone, or taken
\* over (and audited) when the caller asked for it.
StageGet(s) ==
    /\ stage[s].at = "get"
    /\ \E r \in stage[s].todo :
           LET other == Held(locks[r], stage[s].now) /\ locks[r].session # s
           IN  IF other /\ ~stage[s].override
               THEN stage' = [stage EXCEPT ![s].todo = @ \ {r}]
               ELSE stage' = [stage EXCEPT ![s].at = "upsert", ![s].ref = r,
                                           ![s].took = IF other THEN locks[r].session
                                                       ELSE None]
    /\ UNCHANGED <<clock, locks, discarded, sweep, connVars>>

\* The requests after s wrote the lock of r: it goes on to its next ref, and
\* those that have read this one and not written it yet are overtaken.
Written(s, r) ==
    [t \in Sessions |->
        IF t = s
        THEN [stage[s] EXCEPT !.at = "get", !.todo = @ \ {r}, !.ref = None,
                              !.took = None, !.since = {}]
        ELSE IF stage[t].at = "upsert" /\ stage[t].ref = r
             THEN [stage[t] EXCEPT !.since = @ \cup {s}] ELSE stage[t]]

\* Mutant: the time to live is added in the wrong unit.
MutStageUpsert(s) ==
    /\ stage[s].at = "upsert"
    /\ LET r == stage[s].ref
       IN  /\ locks' = [locks EXCEPT ![r] = [cs |-> stage[s].cs, session |-> s,
                                              expires |-> stage[s].now + 1000 * TTL]]
           /\ stage' = Written(s, r)
    /\ UNCHANGED <<clock, discarded, sweep, connVars>>

\* The write; the expiry is counted from the start of the request.
StageUpsert(s) ==
    /\ stage[s].at = "upsert"
    /\ LET r == stage[s].ref
       IN  /\ locks' = [locks EXCEPT ![r] = [cs |-> stage[s].cs, session |-> s,
                                              expires |-> stage[s].now + TTL]]
           /\ stage' = Written(s, r)
    /\ UNCHANGED <<clock, discarded, sweep, connVars>>

\* Every ref is done, or a store error ended the loop.
StageDone(s) ==
    /\ stage[s].at # "idle"
    /\ stage' = [stage EXCEPT ![s] = Free]
    /\ UNCHANGED <<clock, locks, discarded, sweep, connVars>>

-----------------------------------------------------------------------------
(* The ways a lock is freed. *)

\* Locks lists the rows and deletes the expired ones in a second statement.
LocksList ==
    /\ sweep = None
    /\ \E r \in Refs : locks[r] # None /\ locks[r].expires <= clock
    /\ sweep' = clock
    /\ UNCHANGED <<clock, locks, discarded, stage, connVars>>

\* Mutant: the rows that will have expired by the next sweep go too.
MutDeleteExpired ==
    /\ sweep # None
    /\ locks' = [r \in Refs |-> IF locks[r] # None /\ locks[r].expires <= sweep + TTL
                                THEN None ELSE locks[r]]
    /\ sweep' = None
    /\ UNCHANGED <<clock, discarded, stage, connVars>>

DeleteExpired ==
    /\ sweep # None
    /\ locks' = [r \in Refs |-> IF locks[r] # None /\ locks[r].expires <= sweep
                                THEN None ELSE locks[r]]
    /\ sweep' = None
    /\ UNCHANGED <<clock, discarded, stage, connVars>>

\* handleDiscardChangeset: the draft goes first, its locks after it; when
\* that delete fails they stay.
Discard(d) ==
    /\ d \notin discarded
    /\ discarded' = discarded \cup {d}
    /\ \E ok \in BOOLEAN :
           locks' = [r \in Refs |-> IF ok /\ locks[r] # None /\ locks[r].cs = d
                                    THEN None ELSE locks[r]]
    /\ UNCHANGED <<clock, stage, sweep, connVars>>

-----------------------------------------------------------------------------
(* The connection registry. *)

Viewers(cs) == {cs[k].session : k \in {j \in Conns : cs[j] # None /\ cs[j].viewing}}

Count(cs) == Cardinality(Viewers(cs))
Rest == [send |-> None, release |-> None]

ConnOpened(k, s) ==
    /\ k \notin opened
    /\ opened' = opened \cup {k}
    /\ conns' = [conns EXCEPT ![k] = [session |-> s, viewing |-> FALSE]]
    /\ sessions' = [sessions EXCEPT ![s] = @ + 1]
    /\ UNCHANGED <<clock, lockVars, busy, shown>>

\* A subscribe message that adds or drops the scope: the count is taken under
\* mu and sent after the unlock.
ConnTopics(k) ==
    /\ conns[k] # None
    /\ busy[k] = Rest
    /\ conns' = [conns EXCEPT ![k].viewing = ~@]
    /\ busy' = [busy EXCEPT ![k].send = Count(conns')]
    /\ UNCHANGED <<clock, lockVars, opened, sessions, shown>>

Last(k) == sessions[conns[k].session] = 1

ConnClosed(k) ==
    /\ conns[k] # None
    /\ busy[k] = Rest
    /\ conns' = [conns EXCEPT ![k] = None]
    /\ sessions' = [sessions EXCEPT ![conns[k].session] = @ - 1]
    /\ busy' = [busy EXCEPT ![k] =
           [send |-> IF conns[k].viewing THEN Count(conns') ELSE None,
            release |-> IF Last(k) THEN conns[k].session ELSE None]]
    /\ UNCHANGED <<clock, lockVars, opened, shown>>

Broadcast(k) ==
    /\ busy[k].send # None
    /\ shown' = busy[k].send
    /\ busy' = [busy EXCEPT ![k].send = None]
    /\ UNCHANGED <<clock, lockVars, conns, opened, sessions>>

\* ReleaseSession after the last connection; a failed delete is logged.
ReleaseSession(k) ==
    /\ busy[k].send = None /\ busy[k].release # None
    /\ busy' = [busy EXCEPT ![k] = Rest]
    /\ \E ok \in BOOLEAN :
           locks' = [r \in Refs |-> IF ok /\ locks[r] # None
                                       /\ locks[r].session = busy[k].release
                                    THEN None ELSE locks[r]]
    /\ UNCHANGED <<clock, discarded, stage, sweep, conns, opened, sessions, shown>>

-----------------------------------------------------------------------------
Tick ==
    /\ clock < MaxTime
    /\ clock' = clock + 1
    /\ UNCHANGED <<lockVars, connVars>>

Init ==
    /\ clock = 0
    /\ locks = [r \in Refs |-> None]
    /\ discarded = {}
    /\ stage = [s \in Sessions |-> Free]
    /\ sweep = None
    /\ conns = [k \in Conns |-> None]
    /\ opened = {}
    /\ sessions = [s \in Sessions |-> 0]
    /\ busy = [k \in Conns |-> Rest]
    /\ shown = 0

StageStep(s) ==
    \/ \E d \in Drafts, refs \in (SUBSET Refs) \ {{}}, o \in BOOLEAN : Stage(s, d, refs, o)
    \/ StageGet(s)
    \/ StageUpsert(s)
    \/ StageDone(s)

ConnStep(k) ==
    \/ \E s \in Sessions : ConnOpened(k, s)
    \/ ConnTopics(k)
    \/ ConnClosed(k)
    \/ Broadcast(k)
    \/ ReleaseSession(k)

Next ==
    \/ \E s \in Sessions : StageStep(s)
    \/ \E k \in Conns : ConnStep(k)
    \/ \E d \in Drafts : Discard(d)
    \/ LocksList
    \/ DeleteExpired
    \/ Tick

Spec == Init /\ [][Next]_vars

-----------------------------------------------------------------------------
(* What the locks promise. *)

\* Types, and the registry's count per session is its live connections.
TypeOK ==
    /\ clock \in 0..MaxTime
    /\ \A r \in Refs : locks[r] # None =>
           /\ locks[r].session \in Sessions /\ locks[r].cs \in Drafts
           /\ locks[r].expires \in 0..(clock + TTL)
    /\ \A s \in Sessions :
           sessions[s] = Cardinality({k \in Conns : conns[k] # None /\ conns[k].session = s})
    /\ shown \in 0..Cardinality(Sessions)

\* Stage overwrites the unexpired lock of another session only when the answer
\* and the audit log name that session, or when that session wrote the lock
\* while the request was between its read and its write, with no transaction
\* around the two.
NoSilentTakeover ==
    \A s \in Sessions, r \in Refs :
        /\ stage[s].at = "upsert" /\ stage[s].ref = r /\ locks'[r] # locks[r]
        /\ locks'[r] # None /\ locks'[r].session = s
        /\ Held(locks[r], clock) /\ locks[r].session # s
        => stage[s].took = locks[r].session \/ locks[r].session \in stage[s].since

\* The strict form: only a lock the request has read, and names.
EveryTakeoverNamed ==
    [][\A s \in Sessions, r \in Refs :
           /\ stage[s].at = "upsert" /\ stage[s].ref = r /\ locks'[r] # locks[r]
           /\ locks'[r] # None /\ locks'[r].session = s
           /\ Held(locks[r], clock) /\ locks[r].session # s
           => stage[s].took = locks[r].session]_vars

\* The sweep of expired rows never frees a lock that is still held, one
\* renewed or taken over since the rows were listed included.
SweepKeepsHeld ==
    sweep # None /\ sweep' = None
        => \A r \in Refs : Held(locks[r], clock) => locks'[r] = locks[r]

\* A session keeps its locks while it has a live connection: only the close
\* of its last one releases them.
ConnectedKeepsLocks ==
    [][\A k \in Conns : busy[k].release # None /\ busy'[k].release = None =>
           \A r \in Refs :
               /\ locks[r] # None /\ locks[r].session = busy[k].release
               /\ sessions[busy[k].release] > 0
               => locks'[r] = locks[r]]_vars

\* Once the events in flight are out, subscribers have the number of people
\* who are looking.
ShownIsCount == (\A k \in Conns : busy[k].send = None) => shown = Count(conns)

\* A lock left behind by a discarded draft (the delete failed, or a staging
\* request was still running) ends by its expiry.
StrandedLockExpires ==
    \A r \in Refs, d \in Drafts :
        []<>(d \in discarded /\ locks[r] # None /\ locks[r].cs = d => locks[r].expires <= clock)
==============================================================================
