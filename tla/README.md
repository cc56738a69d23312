# Verification of vnprox

vnprox plans, applies and rolls back network changes on Proxmox VE clusters. The
part that must not be wrong is its change engine (`internal/change`): it rewrites
the network configuration of the machines it talks through, so an operator may
lose the cluster with one apply. Its answer is commit-confirm: an applied
changeset that nobody confirms in time is undone, by the daemon and, on each
node, by a timer of the node's own. Around the engine stand the services through
which changes are asked for (review, schedules, drafts, git) and the ones that
run by themselves (leadership and replication, retention, captures, alerts,
exports). These modules model the engine, the timers and those services, check
them with TLC and prove the central facts with TLAPS.

## The system

| Part | State | Operations | Hard because |
|---|---|---|---|
| Changeset rows (`changeset.go`, `service.go`) | status, plan, apply log | create, request, approve, update, validate, discard | no lock between the read and the write of a row |
| Apply (`apply.go`, `apply_exec.go`, `apply_plan.go`, `apply_snapshot.go`) | `lockHeldBy`, snapshot, steps done | gates, snapshot, steps, undo | unlocked while it runs; each call can fail, or succeed and lose its answer |
| Window (`apply.go`, `apply_distributed.go`, `reverticket.go`) | confirm timer, sealed ticket | confirm, rollback, timeout, cancel fan-out | a timer callback that started cannot be stopped; nodes may be unreachable |
| Canary apply (`apply_staged.go`) | stage row, hold timer | hold, continue, abort, expire | decisions taken outside `applyMu` |
| Finding-triggered rollback (`autorollback.go`) | guards | arm, observe, fire | reads and writes the row with no lock |
| Startup (`apply.go`, `apply_staged.go`) | rows left by the dead process | re-arm, recover | the lock, the timers and the guards are in memory only |
| Node timers (`localtimer.go`, `store/nodetimers.go`) | `node_timers` row, process timer | arm, cancel, fire, re-arm | three goroutines share only the timer map |
| Scheduler (`schedule.go`) | schedule row | tick, fire, ack, cancel | deadlines cut to the window, crash between apply and resolve |
| Review gates (`review.go`, `twoperson.go`, `freeze_override.go`, `sdnforeign.go`) | decision, sign-offs, overrides, comments | comment, decide, sign off, break glass, edit, apply | each is a row of its own, written by requests that hold no lock over their checks |
| Presence (`internal/presence`) | locks of entities, connections | stage, sweep, release, connect | a lock is read and written in two statements; its take-over races its owner and the sweep |
| Git sync (`gitsync/service.go`, `propose.go`) | last revision and plan, one open draft; branch and request on the host | poll, stage, discard; propose, compensate | people edit the draft between polls; a call may take effect and lose its answer |
| Traffic mirrors (`cmd/vnproxd/tcmirror.go`) | session row, tc filters | create, update, delete, undo, sweep | commands and row are written apart; the commands see the interface, not the session; it ends by deadline while the change that made it may still be undone |
| Packet capture (`internal/capture`) | session row, process, file, on coordinator and peer | start, stop, sync, sweep | the process outlives the daemon that knows its handle |
| HA leadership (`ha/manager.go`) | lease, role, term on disk | tick, push, receive, promote, demote | partitions, delayed answers, equal terms |
| HA replication (`ha/replicate.go`) | the standby's copy of every table | gather, apply, prune | table by table on both sides, while clients write |
| Snapshots and retention (`snapshot`, `store/retention.go`) | snapshot rows, blobs, references | capture, prune, pin | retention between the statements of a capture |
| Restore (`backup/restore.go`, `store/runtimelock.go`) | store, log, asides, staging directory, runtime lock | check, stage, move aside, install, undo | a crash between two renames, a daemon that starts meanwhile |
| Peer client (`peer/breaker.go`, `coalesce.go`, `client.go`) | breaker, shared reads | request, answer, time out, share | a probe that never settles, a cached failure |
| Alerts (`findings/notify.go`, `quiethours.go`, `flush.go`) | what was told, pending queue | cycle, defer, flush | quiet hours over midnight, rules that change, restarts |
| SIEM export (`internal/siemexport`) | ring buffer, sender, counters | append, send, drop, close | a full buffer and a send in flight |
| Websocket hub (`topology/hub.go`) | connections, topics, bounded queues | accept, subscribe, broadcast, write, close | broadcasts visit a copied set of connections while clients come, go and subscribe |

The API and the scheduler call the engine, and the gates are asked in `beginApply`;
git sync stages drafts like a user; the engine takes its pre-apply snapshot from
the snapshot store and its tc steps write mirror sessions; HA fences what the
engine and the scheduler do unattended and copies their rows; the engine calls nodes through
peers, PVE with a user's ticket, and the host for daemon-owned scopes (QoS, tc
mirrors, WireGuard, switch ports). The findings engine calls `ObserveFindings`
once per cycle. Everything the engine must remember is in SQLite; `applyMu`
serialises the sections that decide. PROJECT.json lists all components,
the ones not modelled with the reason, and the hazards with their source lines.

What makes each part correct: one changeset in its window at a time, and the lock
neither lost nor leaked; no node running an unconfirmed file without a timer that
will restore it; a reported rollback that is true; every window and hold ended by
somebody; a credential that does not outlive its window; a canary that touches
the canary only; a guard that does not outlive the window it watches. For the
services: what is applied was approved, endorsed and scheduled as it stands, and
once; one draft and one request per revision and changeset; a mirror or a capture
that runs is known to somebody who ends it; one leader at a time, whose standby
holds what an undo needs; no snapshot reclaimed that an open window would restore;
an alert or an event neither lost nor told twice; a restored store that is one
store, with the previous one kept; and everything that waits is
served in the end.

## Modules

| Module | Models |
|---|---|
| `Lifecycle` | status graph of `changeset.go` |
| `SingleWindow` | abstract specification: rows move along the graph, one window at a time |
| `EngineState` | constants, variables, types, plans, and what handlers share |
| `DraftEdits` | draft operations: a read, then a write of the whole row |
| `ApplyExecutor` | snapshot, ticket, steps, undo |
| `RollbackPath` | `doRollbackScopedLocked` and the release that ends every window |
| `StagedApply` | canary hold, promotion, abort |
| `AutoRollback` | finding-triggered rollback |
| `Recovery` | crash and `ArmPendingRollbacks` |
| `ChangeEngine` | gates, ends of an apply, window, environment; composes all of the above |
| `EngineProperties` | properties, fairness, refinement |
| `EngineInvariants` | the inductive invariants of the engine |
| `EngineProofs`, `WindowProofs`, `NodeProofs` | theorems about the engine: types, snapshots, lock and refinement; guards, tickets and timers; what nodes and scopes run |
| `NodeTimer`, `NodeTimerProofs` | a node's timers call by call, and theorems about them |
| `MCChangeEngine` | plans for the model-checked instances |
| `Scheduler` | `schedule.go`: schedule, cancel, ack, the tick and its fires, with the apply it starts |
| `ReviewGates` | comments, decision, sign-offs, break-glass, freeze override, SDN acknowledgement, statement by statement |
| `Presence` | locks of staged entities, the sweep, the connection registry |
| `GitSync`, `GitPropose` | the poll loop and its draft; a proposal and its compensation |
| `TcMirror` | mirror sessions, the interfaces they share over time, command by command and row by row: their undo, the sweep, the ceilings, failing stores, restarts |
| `Capture` | capture sessions on the coordinator and on a peer |
| `HALease`, `HAReplication` | leadership; copying the store |
| `SnapshotStore`, `SnapshotProofs` | captures and retention; theorems |
| `StoreRestore` | the restore of a backup, rename by rename, with the daemon's lock |
| `PeerClient` | breaker and coalesced reads |
| `FindingNotify`, `AlertSchedule` | transitions that are told; deferral, quiet hours, flush |
| `SIEMExport`, `SIEMExportProofs` | the event buffer and its sender; theorems |
| `EventHub` | connections of `/api/ws`, subscriptions, broadcasts |
| `MCChangeControl` | scheduler, review gates, presence, git, mirrors, in two or three settings each |
| `MCBackground` | captures, HA, snapshots, restore, peer client, alerts, export, websocket hub, in their settings |
| `MCProgress` | liveness of the services, with their fairness |
| `ControlProofs` | theorems about scheduler, review gates, presence, proposals and mirrors |
| `ServiceProofs` | theorems about restore, git sync, peer client, leadership, replication, websocket hub, captures and alerts |

### State and actions

A configuration is named by the changeset that wrote it (`Base` before any): the
properties ask who wrote what runs, not what it says. A resource is a node (its
interfaces file), a firewall or SDN scope (both need a PVE ticket), or a daemon
scope. `status`, `stage`, `ticket`, `snap` are the coordinator's rows; `live`,
`staged`, `ntimer` are the cluster; the rest is memory that `Crash` clears.

A section under `applyMu` that makes calls is several steps: `job` is the section
that holds the mutex, with the copy of the row its caller handed it. The code
overwrites the row from that copy and never reads it again, and so does the
model. Sections that make no call are single actions guarded by `Unlocked`. The
executor of a changeset runs unlocked, one call per step, with its place in `pc`.
A call takes effect or not, and answers or not, independently where the code can
meet both. Draft operations are a read (`edit` holds the status to be written)
and a later write.

Time is abstract: a timer may expire at any moment after it is armed, which
covers every ratio of the deadlines. Order among resources is arbitrary where the
plan's order does not matter.

### Abstractions

- the two reads of `fireAutoRollback` (row, stage row) are one step;
- a node restore is a stage and a reload with four outcomes, taken as one step;
- the unlock and relock that `Rollback` and `autoRollback` do before an abort is
  left out, because the abort checks the row again;
- the apply log, including its rewrite after the cancel fan-out, is left out: no
  property is about it. So are IPAM bookkeeping and audit;
- a canary apply is for plans of interface files only;
- in the engine's modules the single daemon leads (no HA fence).

### The services

Each service is a module of its own with its own state: a database statement, a
call to another machine and a section under a mutex is a step; what several
goroutines do interleaves at those steps. A crash drops what is in memory and
keeps the rows. Calls fail, and where the code can meet it, take effect and lose
their answer. Content is reduced to what a property tells apart: the ops of a
changeset to a few kinds, a spec in git to a function from keys to values, a
snapshot to its blob, a finding to its severity.

The services do not share state with one another, apart from the engine's rows.
Where they use the engine, its outcome is a free choice of the service's module
(an apply may succeed, fail, or be cut off by a crash), so a service is checked
against more engines than this one. The three composite modules put them side by
side: `service` chooses one service in one setting, its variables move and the
others stay. A step of the daemon is a step of one service and a stutter of the
rest, so for properties of one service's state this loses no behaviour, and
every invariant below is checked of each service alone. Deadlines are counters
with the proportions of the configured ones: what matters is which expires first.

## Runs

Bounds are in the configurations; every run exhausts its state space.

| Run | Instance | Shows |
|---|---|---|
| `core` | 2 changesets on one node, one with a firewall ruleset, 1 crash | types, the lock, the node timers, the truth of `rolled_back`, the ticket, the refinement of `SingleWindow` |
| `canary` | canary apply on 2 nodes, 1 crash, fairness | `NeverUntimed`: windows and holds are timed; pending nodes untouched, every window ends |
| `findings` | guarded canary apply on 2 nodes | node timers and guards under unlocked rollbacks, `SnapshotInv` |
| `faults` | canary apply on 2 nodes, 1 crash, store failures | node timers and `rolled_back` survive a failing store |
| `node_timer` | 2 timers, 1 crash, fairness | armed rows are timed and resolve, `rolled_back` is true |
| `control` | the settings of `MCChangeControl` | what was applied was approved, endorsed and scheduled; one draft, one request; mirrors match their rows; cleaning up takes nothing of somebody else's; what is settled stays settled |
| `background` | the settings of `MCBackground` | captures stay reachable; the leader is fenced; the standby can take over; undo data is kept; a restore never mixes two stores; peers are spared; receivers are told; no event is lost |
| `progress` | the settings of `MCProgress`, fairness | what waits is served, leadership settles, leftovers go |
| `hold_race` | canary apply on 2 nodes | violation: a terminal row goes back to `awaiting_confirm` |
| `late_finding` | one guarded changeset | violation: a committed changeset is rolled back |
| `leftover_timer` | 2 changesets on one node | violation: a committed file is replaced by a timer left behind |
| `crash_recovery` | a node and a QoS scope, 1 crash | violation: recovery leaves the QoS part applied |

Two changesets suffice for what the lock, the shared node and the single mutex
can get wrong, since each hazard involves one changeset or a pair; two nodes are
the least a canary needs. One crash puts a restart at every point of every
handler; a second one during startup meets a state a first one also reaches,
because startup changes rows only through handlers that already ran. The theorems
below do not rest on these bounds. `CHECK_DEADLOCK FALSE`: an engine whose
changesets are all settled has nothing to do, and the changesets are finite; the
services stop likewise when their bounded requests are used up.

### Properties of the services

A property of a composite run is the conjunction of a service's properties in the
settings named; each part is stated with its comment in the service's module. An
invariant with a setting named holds there; its module's composite of the same name
makes that setting a condition, and the run checks it in every setting of the service.

| Property | Parts |
|---|---|
| `FiredIsApplied` | `Scheduler!FiredIsApplied`, two tickers and a crash (`SC`), two changesets and one lock (`SL`) |
| `AppliedWasSanctioned` | `ReviewGates`: `AppliedWasApproved`, `AppliedWasEndorsed`, `DecisionIsCurrent`, `NoOrphanComments` with three people, two sign-offs and requests one at a time (`RG`); `OverridesArePinned` with overlapping requests (`RO`) |
| `DraftFollowsRef` | `GitSync`: `OneOpenDraft`, `StagedFromGood` with edits by people, signatures required, a restart (`GS`) |
| `ProposalIsWhole` | `GitPropose`: `OneRequest` with failing calls and lost answers (`GP`); `BothOrNeither` with failing calls (`GC`) |
| `MirrorsMatchRows` | `TcMirror`: `CapRespected`, `OneSessionPerSource` with two sessions on two sources, room for one and failing tc (`TM`), with room for both, a failing store, a crash and tc that fails (`TB`) or works (`TU`); `ActiveIsLive` in `TM`, where the store works and nothing dies |
| `CleanupKeepsOthers` | `Presence`: `NoSilentTakeover` with two operators whose requests overlap (`PO`), `SweepKeepsHeld` (`PR`, `PO`); `GitPropose!ReviewSurvives`; `TcMirror!Bystanders` (`TM`, `TB`, `TU`) |
| `OutcomesHold` | `Scheduler!ResolvedOnce`; `ReviewGates!RetractedNotCounted`; `GitSync!PlanIsStaged` (`GU`, nobody edits the draft); `TcMirror!CreateUndone` with failing tc (`TM`, `TB`) and with a failing store and a crash (`TB`, `TU`; where tc works, no mirror is left either) |
| `CapturesAreKept` | `Capture`: `LiveIsReachable`, `PurgedHasNoFile` with every fault and a restart (`CP`); `StopFindsLive` with a working store and two restarts (`CS`) |
| `LeaderIsFenced` | `HALease`: `FirstLeaderFenced`, `IsolatedStepsDown` with delays and loss, three terms, no crash (`HL`) |
| `StandbyCanTakeOver` | `HAReplication`: `CompletePassRestorable`, `CompletePassMirrors`, with a standby that keeps its blobs (`HR`) and one whose retention deletes orphans (`HP`) |
| `UndoIsKept` | `SnapshotStore`: `OfferIsKept` (`SM`), `InFlightRestorable` with a window longer than the retention (`SF`) |
| `StoreIsOneStore` | `StoreRestore`: `NeverMixed`, `PreviousKept`, a restore that fails or dies anywhere and is tried again (`SR`), also when files cannot be put back (`SU`) |
| `PeerIsSpared` | `PeerClient`: `OneUpstream`, `AnswerIsFresh`, `FailureOnlyToWaiters`, three readers with cancelled contexts (`PC`); `OneProbe`, `HalfOpenHasProbe`, three callers (`PB`) |
| `ReceiverIsTold` | `FindingNotify`: `CycleTellsCurrent`, `OncePerCondition` (`FN`, `FF`); `AlertSchedule`: `QuietEndIsFirstOutside`, `UrgentIsNotHeld` for every pair of quiet hours of a short day (`AS`) |
| `FeedIsWhole` | `SIEMExport`: `Accounted`, `NewestKept` with more events than room, failing sends, a shutdown (`SX`), a restart (`SG`); `FeedIsExact` when nothing is lost (`SD`); `EventHub`: `NoDuplicate`, `SubscriberIsServed`, a client that subscribes anew during broadcasts with a queue for one event (`EH`), two clients with and without the scope (`ET`) |
| `NothingIsLost` | `AlertSchedule!DeferredNotDropped`; `SIEMExport!OnceInOrder`; `StoreRestore!FailedLeavesStore` (`SR`) |
| `WaitingIsServed` | `Scheduler!PendingResolves`; `PeerClient`: `WaiterAnswered`, `HalfOpenResolves`; `GitSync!Handled` again and again; `AlertSchedule!HeldIsFlushed`; `SIEMExport!EventuallyAttempted`; `EventHub!BroadcastEnds` with a client that may never read |
| `LeadershipSettles` | `HALease`: `FailoverHappens` after a crash and `OlderLeaderYields` when the crashed leader is back with the lease it left behind just as the other promotes itself; `LeaderEmerges` at the first start |
| `LeftoversGo` | `SnapshotStore!OrphansReclaimed`; `Presence!StrandedLockExpires`; `Capture!RowedFileExpires`; `TcMirror!DueIsEnded` over a crash; no mirror live for ever |

The settings are chosen so that each hazard meets its least instance. Two
goroutines or daemons, or two people and a third whose sign-off counts, suffice
where the hazard is one of them acting between two steps of another; two
changesets or drafts where a lock or a reference passes from one to the other;
one more session or event than fits where a limit is the matter. Clocks run past
the longest deadline of the setting. Where a property holds in one setting only,
the other is among the claims below.

The four violation runs state what a comment or a document of the repository
says; PROJECT.json quotes the lines. In `hold_race` the hold's callback has
checked the row and unlocked, a continue claims the hold and starts promoting,
the callback's abort is accepted since a `promoting` row is abortable, and the
promotion's end overwrites the row. In `late_finding` a finding has claimed its
guard and read the row before the confirm. In `leftover_timer` a changeset ends
`rolled_back` or `failed`, its node timer is not cancelled, and a later changeset
commits first. In `crash_recovery` the daemon dies after the QoS step.

### Fairness

`FairSpec` assumes weak fairness of what the daemon does by itself: goroutines run
on, timers expire, startup proceeds, a supervisor restarts the process. A client
need not confirm, continue or abort, and no call to a node or to PVE need
succeed. `Settles` therefore says that a window ends with no help from outside.
In `NodeTimer` the same holds for a node's daemon; the coordinator need not
cancel. Crashes are bounded by `MaxCrashes`, without which nothing would progress.

`MCProgress` states fairness by kind of step, for the one service that moves.
Weak fairness of `Clocks`: time passes. Of `Worker` and `Partner`: the loops,
callbacks and requests of the service go on, and a supervisor restarts a crashed
daemon. Of `Others`: a push is handled or lost, a window is confirmed or undone,
which the engine's `Settles` shows. Strong fairness of `Retried`: a file that
cannot be removed, or a ref that cannot be fetched, succeeds in the end when it
is tried for ever. Within one service a disjunction only joins steps that follow
each other in one goroutine.

### Settings

`SerialCalls`: clients issue one call at a time for a changeset. Draft operations
take no lock, so without it a late write of a draft overwrites an applying row
(see the hazards). `StoreFaults`: store accesses may fail. Liveness and the
"is timed" properties assume a working store: the code gives up the timer
when it cannot write the row.

### Claims the code does not keep

Beside the four violation runs, these are stated in the modules as properties of
what a comment or a document says, and TLC refutes each in the setting given with
it. To see a counterexample, check that module with those constants and that
property; a property listed here that a run also checks holds in the run's setting.

**`ChangeEngine`**

- `WindowIsTimed` (`change/apply.go:499`). Confirm cancels the timer before it persists the committed row and does not re-arm it when the write fails; docs/features/change-management.md:77 says "if connectivity broke, rollback happens server-side at the deadline". Setting: `Changesets = {c1}, Canary = {}, Guarded = {}, SerialCalls = TRUE, StoreFaults = TRUE, MaxCrashes = 0`.
- `LockCoversWindow` (`change/apply_staged.go:921`). recoverStagedApply resolves an expired hold without setting lockHeldBy, so a second apply is not refused while it runs; change/apply_errors.go:11 says "returned by Apply when another changeset is already in flight (status applying or awaiting_confirm) cluster-wide". Setting: `Changesets = {c1}, Canary = {n1}, Guarded = {}, SerialCalls = TRUE, StoreFaults = FALSE, MaxCrashes = 1`.
- `OneWindowAtATime` (`change/service.go:776`). Draft operations and beginApply's refusal path write the status computed from an earlier read with an unconditional UPDATE; change/changeset.go:58 says "committed/rolled_back/failed/discarded are all terminal historical records (audit trail, time-machine snapshots) that nothing may transition out of again". Setting: `Changesets = {c1}, Canary = {}, Guarded = {}, SerialCalls = FALSE, StoreFaults = FALSE, MaxCrashes = 0`.
- `TerminalIsFinal` (`change/autorollback.go:387`). recordAutoRollbackTrigger reads the row and writes it back whole without applyMu; a confirm in between is overwritten by `awaiting_confirm`. change/changeset.go:59 says of terminal rows that "nothing may transition out of" them. Setting: that of `late_finding`.

**`Scheduler`**

- `DeadlineInsideWindow` (`change/schedule.go:480`). fireSchedule cuts the timeout to windowEnd - windowStart and Apply counts it from the moment of the fire, so a tick late in the window gives a deadline past windowEnd. docs/api.md:302 says it "applies with a commit-confirm deadline of `min(windowStart + confirmTimeoutSec, windowEnd)`". Setting: `Changesets = {c1}, Tickers = {loop}, Windows = {[start |-> 1, end |-> 3, timeout |-> 2, policy |-> skip]}, MaxTime = 3, MaxCrashes = 0`.
- `MissedGetsFreshWindow` (`change/schedule.go:505`). handleMissedWindow fires with effectiveStart = now, past windowEnd, so the timeout is cut to zero or a negative time, which Apply turns into its own default or into MinConfirmTimeout. docs/api.md:304 says applyImmediately "fires right away with a freshly computed window (`now .. now+confirmTimeoutSec`)". Setting: `Changesets = {c1}, Tickers = {loop}, Windows = {[start |-> 0, end |-> 1, timeout |-> 2, policy |-> applyImmediately]}, MaxTime = 3, MaxCrashes = 0`.
- `CancelledIsNotApplied` (`change/schedule.go:491`). The row stays pending until the apply has returned, so a cancel during the apply succeeds and is answered 204 while the change is made. schedule.go:322 says "a cancel racing a fire always loses cleanly". Setting: `Changesets = {c1}, Tickers = {loop}, Windows = {[start |-> 1, end |-> 3, timeout |-> 2, policy |-> skip]}, MaxTime = 3, MaxCrashes = 0`.
- `BlockedIsUntouched` (`change/schedule.go:486`). Every error of Apply is resolved as blocked, the ones of a step that failed after others ran included; after a crash the pending row of an applied changeset is blocked or missed. docs/api.md:302 says "Any abort at fire time (... or the apply call itself failing) leaves the changeset in its pre-fire status with zero steps executed". Setting: `Changesets = {c1}, Tickers = {loop}, Windows = {[start |-> 1, end |-> 3, timeout |-> 2, policy |-> skip]}, MaxTime = 3, MaxCrashes = 1`.
- `NoUnattendedMgmt` (`change/schedule.go:464`). fireSchedule checks the operations it read and Apply reads them again, with no lock in between, so a draft edited meanwhile is applied on the management path; an error computing the path is ignored as well. docs/api.md:302 says the scheduler "recomputes `touchesMgmtPath` fresh (never the value from schedule time — aborting if now true)". Setting: `Changesets = {c1}, Tickers = {loop}, Windows = {[start |-> 1, end |-> 3, timeout |-> 2, policy |-> skip]}, MaxTime = 3, MaxCrashes = 0`.

**`ReviewGates`**

- `AppliedWasApproved` (`change/service.go:739`). UpdateDraft writes the edited row at service.go:721 and clears the decision two statements later without applyMu, so beginApply can read the new ops with the old decision; change/review.go:22 says "invalidates both a stale StatusValidated (back to draft) and a stale approval decision (cleared outright)". Setting: `Users = {ann, bob}, Approvals = 1, OneAtATime = FALSE, LoggedFaults = FALSE, MaxRequests = 4`.
- `DecisionIsCurrent` (`change/review.go:370`). ReviewApprove stores its decision without the ops it read, so one that overlaps an edit lands after the clear and stands for the new ops; store/changesetapprovals.go:74 says "an approval decision was made against a specific set of ops and must never silently carry over to a materially different changeset". Setting: `Users = {ann, bob}, Approvals = 1, OneAtATime = FALSE, LoggedFaults = FALSE, MaxRequests = 3`.
- `NoOrphanComments` (`change/review.go:227`). AddComment checks the op and inserts in two statements, and an edit in between removes the op and cleans up first; change/review.go:140 says "a comment must never attach to an op that doesn't exist". Setting: `Users = {ann, bob}, Approvals = 1, OneAtATime = FALSE, LoggedFaults = FALSE, MaxRequests = 3`.
- `DecisionIsCurrent` (`change/review.go:303`). clearApproval only logs a failed delete and UpdateDraft answers success with the new ops stored (the statements run under the request's context); change/service.go:728 says "any prior review-approval decision (made against the old ops) is cleared, requiring a fresh decision against the new ones". Setting: `Users = {ann, bob}, Approvals = 1, OneAtATime = TRUE, LoggedFaults = TRUE, MaxRequests = 4`.
- `RetractedNotCounted` (`change/twoperson.go:348`). withdrawSignoff only logs a failed delete and ReviewReject answers success; change/review.go:410 says "approved and has now rejected must stop counting toward the distinct-approver requirement". Setting: `Users = {ann, bob, cyd}, Approvals = 2, OneAtATime = TRUE, LoggedFaults = TRUE, MaxRequests = 5`.

**`Presence`**

- `EveryTakeoverNamed` (`presence/locks.go:205`). Stage reads the lock and writes it in two statements, so of two sessions that stage a free entity at once the second to write takes the lock of the first, which it has not seen and does not name; store/entitylocks.go:83 says "(internal/presence.Service, which refuses to overwrite an unexpired lock held by someone else unless the caller explicitly overrode it and the override was audited)". Setting: `Sessions = {s1, s2}, Conns = {}, Drafts = {d1, d2}, TTL = 1, MaxTime = 3, LastStage = 1`.
- `ConnectedKeepsLocks` (`presence/presence.go:151`). ConnClosed leaves mu before it releases the session, which may have reconnected by then; presence/doc.go:37 says "A dropped WebSocket connection releases every lock its session holds once that session has no live connections left". Setting: `Sessions = {s1, s2}, Conns = {k1, k2}, Drafts = {d1, d2}, TTL = 1, MaxTime = 3, LastStage = 1`.
- `ShownIsCount` (`presence/presence.go:112`). ConnTopics and ConnClosed take the count under mu and send it after the unlock, in any order; presence/presence.go:51 says "Count is the number of distinct people present — the only thing the `presence.changed` WS event ever carries". Setting: `Sessions = {s1, s2}, Conns = {k1, k2}, Drafts = {d1, d2}, TTL = 1, MaxTime = 3, LastStage = 1`.

**`GitSync`**

- `PlanIsStaged` (`gitsync/service.go:426`). The fingerprint is that of the last plan, not of the draft, which a human may have edited since. gitsync/service.go:427 says "Same plan, already reflected in the open draft: no write.". Setting: `Human = {edit}, RequireSigned = FALSE, FetchFails = TRUE, MaxRevs = 3, MaxDrafts = 3, MaxHuman = 2, MaxRestarts = 0`.
- `DivergenceIsDrafted` (`gitsync/service.go:332`). A revision that was reconciled once is not planned again, whatever becomes of the cluster or of the draft. gitsync/doc.go:9 says "Divergence between the repository and the live cluster is resolved by **opening a draft changeset a human reviews**". Setting: `Human = {drift}, RequireSigned = FALSE, FetchFails = TRUE, MaxRevs = 3, MaxDrafts = 3, MaxHuman = 2, MaxRestarts = 0`.
- `IssueIsTrue` (`gitsync/service.go:335`). An unchanged revision returns before notePlan, so status and issue keep naming the draft after it was applied or discarded. gitsync/service.go:86 says "render: the last fetched sha, the last plan, and why the current draft exists.". Setting: `Human = {apply}, RequireSigned = FALSE, FetchFails = TRUE, MaxRevs = 3, MaxDrafts = 3, MaxHuman = 2, MaxRestarts = 0`.
- `RewriteChanges` (`gitsync/service.go:171`). lastRev and lastPlanFP live in memory, so the first cycle after a restart rewrites the open draft with the ops it has, and with it what a human changed or approved. gitsync/service.go:169 says "lastPlanFP fingerprints the op list currently reflected in the open draft, so a re-plan producing the same ops does not rewrite it.". Setting: `Human = {edit}, RequireSigned = FALSE, FetchFails = TRUE, MaxRevs = 3, MaxDrafts = 3, MaxHuman = 2, MaxRestarts = 1`.

**`GitPropose`**

- `BothOrNeither` (`gitsync/propose.go:361`). The compensating DeleteBranch runs with the context of the request, so when that is what ended the proposal the branch stays. gitsync/propose.go:49 says "Any failure after a branch we created deletes that branch before returning.". Setting: `Changesets = {c1, c2}, Faults = {cancel}, CallFaults = 1, MaxCalls = 4`.
- `BothOrNeither` (`gitsync/propose.go:347`). A create or an open whose answer is lost is taken for one that did not happen. gitsync/propose.go:51 says "either the branch and the pull request both exist, or neither does.". Setting: `Changesets = {c1, c2}, Faults = {lost}, CallFaults = 1, MaxCalls = 4`.
- `MergeKeepsOthers` (`gitsync/propose.go:335`). The document is rendered from what readBase fetched and committed on a branch that starts at a commit resolved later; a commit to the file in between is part of the branch and missing from its content, so the request reverts it. gitsync/propose.go:430 says "the proposed document must plan, against live state, to exactly the base document's plan plus this changeset's ops". Setting: `Changesets = {c1, c2}, Faults = {}, CallFaults = 0, MaxCalls = 4`.

**`TcMirror`**

- `MirrorIsBounded` (`cmd/vnproxd/tcmirror.go:224`). RestoreTcMirror adds the mirror again and then calls UpdateDuration, which matches active rows only; the row of the undone delete is stopped, so the restore fails with the mirror live and nothing that ever ends it. change/tcmirror_expiry.go:56 says "There is no window in which an orphaned mirror silently duplicates traffic indefinitely". Setting: `Sessions = <<a, b>>, Sources = {x, y}, Ops = {create, delete}, Durations = {1, 2}, Ceiling = 2, MaxSessions = 2, Rollbacks = TRUE, FreshIds = TRUE, TcFaults = FALSE, StoreFaults = FALSE, MaxTime = 3, MaxChanges = 4, MaxCrashes = 0`.
- `MirrorIsBounded` (`cmd/vnproxd/tcmirror.go:135`). createSession runs the tc commands before Insert, whose primary key refuses the id of an earlier session, active or ended; a failed step is not restored, so the mirror stays without an active row. tcmirror/doc.go:27 says "maximum duration that the session cannot outlive". Setting: `Sessions = <<a, b>>, Sources = {x, y}, Ops = {create, update, delete, other}, Durations = {1, 2}, Ceiling = 2, MaxSessions = 2, Rollbacks = FALSE, FreshIds = FALSE, TcFaults = FALSE, StoreFaults = FALSE, MaxTime = 3, MaxChanges = 4, MaxCrashes = 0`.
- `MirrorIsBounded` (`cmd/vnproxd/tcmirror.go:135`). A daemon that dies between the tc commands and Insert leaves a mirror without a row. At the next start recoverInterruptedApply (change/apply.go:1054) fails the changeset and restores no mirror session, and the sweep looks at rows only. tcmirror/doc.go:27 says "maximum duration that the session cannot outlive". Setting: `Sessions = <<a, b>>, Sources = {x, y}, Ops = {create}, Durations = {1, 2}, Ceiling = 2, MaxSessions = 2, Rollbacks = FALSE, FreshIds = TRUE, TcFaults = FALSE, StoreFaults = FALSE, MaxTime = 3, MaxChanges = 4, MaxCrashes = 1`.
- `UndoRestores` (`cmd/vnproxd/tcmirror.go:215`). RestoreTcMirror runs `tc qdisc add` for every session of the snapshot, also for one that is still live, for which it fails, and returns before the bound is put back. change/apply_seams.go:123 says "RestoreTcMirror reconciles node's session set back to a SnapshotTcMirror output". Setting: `Sessions = <<a, b>>, Sources = {x, y}, Ops = {create, update}, Durations = {1, 2}, Ceiling = 2, MaxSessions = 2, Rollbacks = TRUE, FreshIds = TRUE, TcFaults = FALSE, StoreFaults = FALSE, MaxTime = 3, MaxChanges = 4, MaxCrashes = 0`.
- `StopsInTime` (`change/tcmirror_expiry.go:162`). The sweep's Apply is refused while any changeset is applying or awaits confirmation, tick after tick. change/tcmirror_expiry.go:57 says "the longest it can outlive its bound is one missed sweep interval". Setting: `Sessions = <<a, b>>, Sources = {x, y}, Ops = {create, other}, Durations = {1, 2}, Ceiling = 2, MaxSessions = 2, Rollbacks = TRUE, FreshIds = TRUE, TcFaults = FALSE, StoreFaults = FALSE, MaxTime = 3, MaxChanges = 4, MaxCrashes = 0`.
- `OnlyOverdueEnded` (`change/tcmirror_expiry.go:126`). The list is read once and each session is deleted without looking at its row again, although an update may have been confirmed since. change/tcmirror_expiry.go:112 says "TickTcMirrorSessions expires every active tc.mirror session whose expires_at has passed". Setting: `Sessions = <<a, b>>, Sources = {x, y}, Ops = {create, update, delete, other}, Durations = {1, 2}, Ceiling = 2, MaxSessions = 2, Rollbacks = FALSE, FreshIds = TRUE, TcFaults = FALSE, StoreFaults = FALSE, MaxTime = 3, MaxChanges = 4, MaxCrashes = 0`.
- `WithinCeiling` (`change/validate_safety.go:826`). tcMirrorCapValidate skips every op that is not a create. change/validate_codes.go:526 says "codeTcMirrorDurationCap flags a tc.mirror.create/update whose maxDurationSec exceeds the server-configured ceiling". Setting: `Sessions = <<a, b>>, Sources = {x, y}, Ops = {create, update, delete, other}, Durations = {1, 3}, Ceiling = 2, MaxSessions = 2, Rollbacks = FALSE, FreshIds = TRUE, TcFaults = FALSE, StoreFaults = FALSE, MaxTime = 3, MaxChanges = 4, MaxCrashes = 0`.
- `ActiveIsMirrored` (`cmd/vnproxd/tcmirror.go:157`). deleteSession looks at no status and RenderTCTeardown works on the interface: with a created on x and ended, then b created on x, a second delete of a tears down the mirror of b, whose row stays active. tcmirror/session.go:76 says "a source interface's clsact qdisc is owned exclusively by its one mirror session". Setting: `Sessions = <<a, b>>, Sources = {x}, Ops = {create, delete}, Durations = {1, 2}, Ceiling = 2, MaxSessions = 2, Rollbacks = FALSE, FreshIds = TRUE, TcFaults = FALSE, StoreFaults = FALSE, MaxTime = 3, MaxChanges = 4, MaxCrashes = 0`.
- `ActiveIsMirrored` (`cmd/vnproxd/tcmirror.go:165`). A SetStatus that fails after the teardown, in a delete or (`:206`) in an undo, leaves the row active and the mirror gone. change/apply_seams.go:123 says "RestoreTcMirror reconciles node's session set back to a SnapshotTcMirror output". Setting: `Sessions = <<a>>, Sources = {x}, Ops = {create}, Durations = {1, 2}, Ceiling = 2, MaxSessions = 2, Rollbacks = TRUE, FreshIds = TRUE, TcFaults = FALSE, StoreFaults = TRUE, MaxTime = 3, MaxChanges = 4, MaxCrashes = 0`.
- `MirrorIsBounded` (`cmd/vnproxd/tcmirror.go:135`). An Insert that fails after the commands fails the create with its mirror live; a failed step is not restored, and without a row the sweep never ends it. tcmirror/doc.go:27 says "maximum duration that the session cannot outlive". Setting: `Sessions = <<a>>, Sources = {x}, Ops = {create}, Durations = {1, 2}, Ceiling = 2, MaxSessions = 2, Rollbacks = FALSE, FreshIds = TRUE, TcFaults = FALSE, StoreFaults = TRUE, MaxTime = 3, MaxChanges = 4, MaxCrashes = 0`.

**`Capture`**

- `FileExpires` (`capture/coordinator.go:208`). startOne and StartLocalSpec write the row, which is all Sweep goes by, after Agent.Start created the file; a restart in between leaves it for ever. capture/doc.go:30 says "An auto-purge sweep (Coordinator.Sweep / RunSweepLoop) deletes files past their retention age on the same tick-cadence pattern internal/metrics' ring pruning uses, including files orphaned by a daemon restart mid-capture". Setting: `Sessions = {l}, Remotes = {}, Faults = {}, Overlap = TRUE, MaxCrashes = 1`.
- `TerminalIsFinal` (`capture/coordinator.go:509`). applyLive upserts the whole row its caller read before the stop; capture/session.go:26 says "Terminal reports whether s is a state a capture never leaves". Setting: `Sessions = {l}, Remotes = {}, Faults = {}, Overlap = TRUE, MaxCrashes = 0`.
- `StoppedBeforeCap` (`capture/coordinator.go:287`). StopLocal does not look at the status it read, and stopLocalProc makes up a stopped result with no counts when the process is gone; capture/session.go:14 says "the capture was explicitly stopped by an operator before any cap was hit". Setting: `Sessions = {r}, Remotes = {r}, Faults = {}, Overlap = FALSE, MaxCrashes = 0`.
- `NeverUnlinkActive` (`capture/coordinator.go:551`). stopLocalProc deletes the handle and releases the mutex before it stops the process, so Sweep may find no process and remove the file; capture/coordinator.go:540 says "Stop any still-live process for a purged capture first, so we never unlink a file being actively written". Setting: `Sessions = {l}, Remotes = {}, Faults = {}, Overlap = TRUE, MaxCrashes = 0`.
- `StopReachesMember` (`capture/coordinator.go:391`). A failed Remote.Stop is recorded as stopped, a terminal status no later stop or poll revisits; capture/doc.go:50 says "Stopping the group stops every member". Setting: `Sessions = {r}, Remotes = {r}, Faults = {net}, Overlap = FALSE, MaxCrashes = 0`.
- `ErrorCapturesNothing` (`capture/coordinator.go:204`). startOne records error whenever the call to the peer fails, its lost answer included; capture/session.go:17 says "the capture failed to start or errored while running". Setting: `Sessions = {r}, Remotes = {r}, Faults = {net}, Overlap = FALSE, MaxCrashes = 0`.

**`HALease`**

- `SingleLeader` (`ha/manager.go:355`). demote leaves observed as it was, and the daemon that led has observed nothing since it was promoted: its next tickStandby finds an old lease expired and promotes it again, to the term the standby promotes itself to; a push of an equal term is treated as stale by both. docs/architecture.md:524 says "so two daemons can never both drive the same changeset". Setting: `TTL = 2, Margin = 2, MaxDelay = 1, GatherMayFail = FALSE, MaxTime = 8, MaxTerm = 3, MaxCrashes = 0`.
- `TermOneClaimedOnce` (`ha/manager.go:170`). A daemon without bootstrap that hears nothing for a lease TTL and the margin promotes itself from term 0 to term 1, and the bootstrapping daemon started later claims term 1 too. manager.go:48 says "exactly one daemon in a fresh pair is configured to bootstrap, so a first-boot pair never both claim term 1". Setting: `TTL = 2, Margin = 2, MaxDelay = 1, GatherMayFail = FALSE, MaxTime = 8, MaxTerm = 3, MaxCrashes = 0`.
- `IsolatedStepsDown` (`ha/manager.go:230`). tickActive returns when Gather fails, before the push whose failure is what self-demotion counts, and it has renewed its lease by then. docs/architecture.md:520 says "an isolated active that cannot confirm its lease with the peer for a whole lease TTL self-demotes (fail-safe)". Setting: `TTL = 2, Margin = 2, MaxDelay = 1, GatherMayFail = TRUE, MaxTime = 8, MaxTerm = 3, MaxCrashes = 0`.
- `SingleDriver` (`cmd/vnproxd/server.go:1328`). ArmPendingRollbacks (line 1299) and TickSchedules (line 1328) run before haGuard.set (line 1342), and a guard without a manager answers leader = true, so a restarted standby drives its replicated changesets. ha.go:12 says "Two vnproxd instances must NEVER both drive the same changeset's commit-confirm/rollback". Setting: `TTL = 2, Margin = 2, MaxDelay = 1, GatherMayFail = FALSE, MaxTime = 8, MaxTerm = 3, MaxCrashes = 1`.
- `AdoptedTermIsDurable` (`ha/manager.go:408`). Receive and demote adopt a newer term in memory only. store/haleases.go:69 says "internal/ha calls this on every renew ..., on promotion ..., and when adopting a newer term observed from the peer". Setting: `TTL = 2, Margin = 2, MaxDelay = 1, GatherMayFail = FALSE, MaxTime = 8, MaxTerm = 3, MaxCrashes = 0`.
- `PromotesHigher` (`ha/manager.go:304`). tickStandby reads the term and releases the lock before promoteFrom takes it again; a push received in between adopts the term that is then claimed, and no later push of either daemon is accepted by the other. manager.go:295 says "Promote to a strictly-higher term than anything observed.". Setting: `TTL = 1, Margin = 1, MaxDelay = 0, GatherMayFail = FALSE, MaxTime = 6, MaxTerm = 4, MaxCrashes = 0`.
- `StaleNeverApplied` (`ha/manager.go:398`). Receive checks the term under the lock and applies the batch after releasing it, so a tick may promote the daemon in between. replicate.go:82 says "the Manager only calls Apply for a batch whose sender term is current-or-newer (the fencing check)". Setting: `TTL = 2, Margin = 2, MaxDelay = 1, GatherMayFail = FALSE, MaxTime = 8, MaxTerm = 3, MaxCrashes = 0`.

**`HAReplication`**

- `PromotedCanRollBack` (`ha/replicate.go:217`). Apply writes the changesets first and each table in its own statements, so a pass that stops leaves an awaiting_confirm changeset without its snapshot; becomeActive does not look. replicate.go:21 says "a standby that promotes must be able to complete an in-flight changeset's rollback from the byte-exact pre-apply files". Setting: `Tables = {changeset}, StandbyPrunes = FALSE, MaxAudit = 2`.
- `ReplicatedSnapshotIsWhole` (`ha/replicate.go:253`). applySnapshot takes a snapshot row that exists as complete; one whose InsertFiles failed stays without references, and the standby's own retention deletes its blob. replicate.go:249 says "Snapshots are immutable, so an already-present id is left untouched". Setting: `Tables = {changeset}, StandbyPrunes = TRUE, MaxAudit = 2`.
- `ResolvedScheduleIsNotPending` (`ha/replicate.go:138`). Gather sends pending schedules only, so the standby keeps a resolved one as pending and fires it when it is promoted. ha.go:28 says "Only the current lease-term holder ever executes a rollback/apply-completion decision" and "No double-apply". Setting: `Tables = {schedule}, StandbyPrunes = FALSE, MaxAudit = 2`.
- `TokenExpiryReplicates` (`store/apitokens.go:148`). The upsert names every column but expires_at. apitokens.go:142 says it "fully overwrites the existing row with the same id — the id-preserving write T-1704's HA replication uses to mirror the active's api_tokens onto the standby verbatim". Setting: `Tables = {token}, StandbyPrunes = FALSE, MaxAudit = 2`.
- `AuditReplicates` (`store/audit.go:326`). Ids are given out by each store; entries the standby wrote itself occupy ids of the active's, which are then ignored, and the answered high-water mark skips the rest. audit.go:320 says "the standby's copy therefore converges to the active's". Setting: `Tables = {audit}, StandbyPrunes = FALSE, MaxAudit = 2`.
- `HoldSurvivesFailover` (`ha/replicate.go:130`). changeset_apply_stages is not part of a batch, so the promoted daemon finds an applying changeset without a hold and recovers it as an interrupted apply. cmd/vnproxd/ha.go:40 says "a demoted daemon must also stop driving canary holds; the promoted one re-arms them from the store via ReArm above". Setting: `Tables = {changeset}, StandbyPrunes = FALSE, MaxAudit = 2`.

**`SnapshotStore`**

- `OfferIsKept` (`store/snapshots.go:258`). The pin counts from the time the snapshot was taken, the rollback window from the commit (apply.go:606), so a change committed late in its window loses its restore point early. snapshots.go:239 says "so a shorter configured retention can never delete a committed changeset's restore point before that window closes". Setting: `Changesets = {c1}, Contents = {x, y}, KeepDays = 1, PinDays = 1, KeepNewest = 1, Capturers = {}, FlightDays = 1, MaxTime = 4, MaxSnaps = 3`.
- `NoHoleInHistory` (`change/apply_snapshot.go:505`). persistSnapshot inserts the row before the references, without a transaction; when InsertFiles fails the row stays, the next captures find it equal and skip, and PruneOrphans deletes its blob. snapshots_scheduled.go:111 says "Skipping a capture because we could not read the previous one would turn a transient store hiccup into a hole in the history.". Setting: `Changesets = {c1}, Contents = {x, y}, KeepDays = 1, PinDays = 1, KeepNewest = 1, Capturers = {scheduled}, FlightDays = 1, MaxTime = 3, MaxSnaps = 3`.

**`PeerClient`**

- `HalfOpenResolves` (`peer/client.go:281`). Client.do returns between breaker.allow and the request (NewRequestWithContext, generateNonce) without recordSuccess or recordFailure, so a probe that fails there leaves the breaker half-open and every later call is refused. peer/breaker.go:62 says "further callers are told to back off until the probe resolves (recordSuccess/recordFailure).". Setting: `Callers = {a}, Readers = {}, Outcomes = {answer, silence}, Cancels = FALSE, LocalFaults = TRUE, Threshold = 2, Reset = 3, Timeout = 2, TTL = 2, MaxCalls = 5, MaxTime = 7`.
- `OneProbe` (`peer/breaker.go:85`). recordFailure takes any failure in the half-open state for the probe's. A client whose RequestTimeout (two minutes, cmd/vnproxd/server.go:1566) exceeds the reset timeout (15 s) still has requests out from before the breaker opened. peer/breaker.go:22 says "allows exactly one half-open probe". Setting: `Callers = {a, b, c}, Readers = {}, Outcomes = {silence}, Cancels = FALSE, LocalFaults = FALSE, Threshold = 2, Reset = 1, Timeout = 3, TTL = 2, MaxCalls = 5, MaxTime = 4`.
- `OpenMeansUnreachable` (`peer/client.go:299`). Client.do records a breaker failure for every error of httpClient.Do, the cancellation of the caller's own context included. peer/client.go:215 says "the breaker tracks reachability, not application-level correctness.". Setting: `Callers = {a, b}, Readers = {}, Outcomes = {answer}, Cancels = TRUE, LocalFaults = FALSE, Threshold = 2, Reset = 3, Timeout = 2, TTL = 2, MaxCalls = 5, MaxTime = 7`.
- `CancelHurtsOnlyItself` (`peer/client.go:508`). The closure of Neighbors runs with the first caller's ctx, whose cancellation fails the shared request for everybody. peer/client.go:501 says "a coalesced read that outlives the first caller's ctx must still complete for the callers still waiting on it". Setting: `Callers = {a, b}, Readers = {a, b}, Outcomes = {answer}, Cancels = TRUE, LocalFaults = FALSE, Threshold = 2, Reset = 3, Timeout = 2, TTL = 2, MaxCalls = 5, MaxTime = 7`.

**`FindingNotify`**

- `OncePerCondition` (`findings/notify.go:55`). e.notified starts empty, so the first cycle after a restart fires new for every finding that is still there; findings/notify.go:8 says "Engine tracks the last-notified severity per finding id (e.notified) precisely so a steady-state breach across N cycles produces exactly one notification, not N". Setting: `Findings = {f1}, SourceFilter = FALSE, MaxRestarts = 1`.
- `EscalatedIsWorse` (`findings/notify.go:94`). The case tests prevSev != f.Severity, which a fall in severity satisfies too; findings/notify.go:5 says "a notification fires once per finding *transition* (new finding appears, or an existing finding's severity worsens into the notify threshold)". Setting: `Findings = {f1}, SourceFilter = FALSE, MaxRestarts = 0`.
- `GoneIsResolved` (`findings/notify.go:87`). The branch below the threshold keeps no entry, and the loop over prev skips what is still present, so nothing is left to resolve when the finding goes; findings/notify.go:29 says "TransitionResolved: a finding that had previously been notified about is no longer present this cycle". Setting: `Findings = {f1}, SourceFilter = FALSE, MaxRestarts = 0`.
- `GoneIsResolved` (`findings/notify.go:109`). The resolved finding is built from id and severity alone and ruleMatches compares an empty source; findings/notify.go:29 says "TransitionResolved: a finding that had previously been notified about is no longer present this cycle". Setting: `Findings = {f1}, SourceFilter = TRUE, MaxRestarts = 0`.

**`AlertSchedule`**

- `QuietIsQuiet` (`findings/flush.go:66`). Flush asks Due and the rule's Enabled flag and never QuietHours.Contains; docs/api.md:1638 says "define a daily window during which this rule's deliveries are **deferred, not dropped**" and findings/schedule.go:93 says "A window an operator set to protect their night wins over a coalescing window they set to reduce noise". Setting: `Events = {e1}, Day = 4, QuietHours = {<<2, 1>>}, DigestWindow = 2, Bypass = TRUE, Faults = {}, RuleTurns = FALSE`.
- `DigestWaitsItsWindow` (`findings/schedule.go:133`). PendingFlushAt also reports the flush time of rows whose batch Flush has already read, and the new event inherits a time that has passed; docs/api.md:1639 says "coalesces every event arriving within that many seconds **of the first one** into a single delivery". Setting: `Events = {e1, e2}, Day = 4, QuietHours = {NoQuiet}, DigestWindow = 2, Bypass = TRUE, Faults = {}, RuleTurns = FALSE`.

**`SIEMExport`**

- `LossIsCounted` (`siemexport/exporter.go:243`). Run returns on cancellation with events still in the buffer, which neither dropped nor the observer hears of. siemexport/doc.go:41 says "the missing half is never silent: every drop (buffer-full eviction or a failed send) increments Exporter.Stats().Dropped". Setting: `Auditors = {a}, Findings = {f}, Capacity = 2, SendFails = TRUE, Shutdowns = TRUE, MaxEvents = 2, MaxRestarts = 1`.
- `FeedIsExact` (`cmd/vnproxd/siemexport.go:108`). The tracker starts with an empty snapshot, so what resolved while the daemon was down is not exported and what is still there is exported as new again. siemexport/doc.go:81 says "so every finding that ever appears, changes severity, or resolves is exported". Setting: `Auditors = {a}, Findings = {f}, Capacity = 2, SendFails = FALSE, Shutdowns = FALSE, MaxEvents = 2, MaxRestarts = 1`.

**`NodeTimer`**

- `CancelledIsKept` (`change/localtimer.go:153`). fire has read the armed row when CancelTimer resolves it and answers `cancelled`, and restores the node all the same. change/localtimer.go:145 says "if the row is still armed (not cancelled in the meantime), restore node". Setting: `Keys = {k1}, StoreFaults = FALSE, MaxCrashes = 0`.

**`StoreRestore`**

- `NoSwapUnderDaemon` (`backup/restore.go:160`). The runtime lock is tried and dropped before the archive is read, so a daemon that starts during the extraction or the migration opens the store that is then moved away. docs/security.md:138 says "It refuses to run against a live daemon". Setting: `MaxRuns = 2, Crashes = FALSE, UndoFails = FALSE, Race = TRUE, Extras = {config}`.
- `NeverMixed` (`backup/restore.go:375`). In the same race the daemon creates a log between the rename of the old one and the install, and the restored store is then opened beside it. backup/restore.go:45 says of the sidecars that they "must move with it". Setting: `MaxRuns = 2, Crashes = FALSE, UndoFails = FALSE, Race = TRUE, Extras = {config}`.
- `LogIsKept` (`backup/restore.go:375`). A restore that dies after the store and before its log was moved leaves the log beside no store; the daemon that starts next makes a new store, and SQLite removes the log with the last transactions of the one that lies aside. backup/restore.go:26 says "an operator running a disaster recovery wants the previous state recoverable by hand too". Setting: `MaxRuns = 2, Crashes = TRUE, UndoFails = FALSE, Race = FALSE, Extras = {config}`.
- `FailedChangesNothing` (`backup/restore.go:303`). A chmod, a config file or a key that fails after the swap ends the restore with an error and the new store in place. docs/deployment.md:682 says "If anything fails at any point, the live store is untouched". Setting: `MaxRuns = 2, Crashes = FALSE, UndoFails = FALSE, Race = FALSE, Extras = {config}`.


## Proofs

All for arbitrary constants: sets of changesets, nodes and scopes, plans, buffer
capacities, retention periods, and any number of crashes.

**Types and snapshots** (`EngineProofs`). `TypeOK` is not inductive: a restore
writes `snap[c][r]`, which is a configuration only if `c` has a snapshot. So the
induction carries `SnapshotInv`: the executor past its capture, an armed node
timer, an `awaiting_confirm` row, a stage row, a triggered rollback that saw the
window open and the section under `applyMu` each imply a snapshot. A stage row
survives its hold and a triggered rollback survives its window, which is why both
need a conjunct of their own. Nothing is assumed of clients, store or strategy.
`TypeCorrect` and `RestoresHaveSnapshot` follow.

**The lock** (`EngineProofs`). In `PlainSetting` (one-pass applies, no guards,
serial clients, a working store) `LockInv` is inductive. `LockCoversWindow` alone
is not: a crash drops the lock, so `ArmingCovers` says that during startup every
row in its window is still to be armed, armed, or being recovered, and `OneInWindow`
that there is one such row even while nobody holds the lock; `JobMatchesRow` ties
the copy a section holds to the row, so that the release that does not look whose
lock it drops is seen to drop its own; `EditsOutsideWindow` keeps pending draft
writes away from applies. `LockCovers`, `LockReleased` and the refinement
`ImplementsSingleWindow` follow. The setting is needed: with canary applies an
expired hold is promoted at startup without the lock, with guards a late rollback
releases the lock of another changeset.

**The shape of an engine proof.** A step of the engine is a step of one changeset.
`WindowProofs` therefore states once what a step of one changeset may do to
it (the moves lemmas) and that it leaves the rows, timers and guards of the
others alone (`Elsewhere`), and every induction below is over the few kinds of
moves and not over the actions.

**Guards, tickets, timers** (`WindowProofs`). `SerialInv` needs only `SerialCalls`:
for each changeset, an apply starts once and no draft write is pending once it
has (`AppliedOnce`), a guard is armed only in its window (`GuardInWindow`), a ticket
is stored only there or until the section that closed the window wiped it, unless
a crash came between (`TicketInWindow`). Canary lists, guards, store faults
and crashes are arbitrary. The triggered rollback that writes an old copy of
the row back is why `SerialInv` follows the row a fire has read: the copy is of a row
already applied. `GuardsEnd` and `TicketsEnd` follow. Without guards, `EndInv` adds that a
node timer is cancelled only for a committed changeset. With a working store as
well, `TimedInv` says that each window and each hold has the startup pass ahead
of it, a timer, or the rollback that runs; `WindowsTimed` follows. Its hypotheses are
needed: with a failing store or a triggered rollback the code leaves windows
without a timer (see the claims).

**What runs where** (`NodeProofs`). `TraceInv` follows the trace of a changeset:
it runs, is staged or would be restored only after its snapshot is sealed, only
on what it touches, and before the promotion only on the canary.
`PendingNodesUntouched` follows, with `SerialCalls` alone. `NodeInv` says that a
file is staged before its timer is armed, and that what the next reload puts on
a node is safe to run whoever staged it: the own file once its timer is armed, any
other file at any time. It needs that one executor runs at a time (`OneRun`). That is so with a single changeset, in every setting,
and in `PlainSetting`, from `LockInv`; `OneAtATime` is the disjunction.
`NodesArmed` follows, and with `EndInv` `UnconfirmedArmed`. `ScopeInv` adds for
firewall, SDN and daemon scopes that a rollback has restored every scope it has
passed, and that a snapshot holds of a scope only what failed or committed;
`RolledBackIsGone` follows. With canaries or guards and several changesets two executors can run
(the lock claims), which TLC covers on the instances of the runs.

**Node timers** (`NodeTimerProofs`). `RolledBackTruth` holds over crashes and
store faults; `ArmedIsCovered` needs a working store, because `CancelTimer` stops
the timer before it touches the row.

**Event export** (`SIEMExportProofs`). `ExportInv` is `Accounted` (the events
appended are the ones sent, dropped, held or being sent), `NewestKept` (the buffer
holds the latest numbers without a gap) and `InOrder` (the event in the sender's
hands is later than what arrived and earlier than what is held), with types.
`InOrder` rests on `NewestKept`, which gives the number of the event that the
sender takes. `EventsAccounted`, `NewestStay` and `DeliveredOnceInOrder` follow
for every capacity, with failing sends, shutdown and restarts. `HeldInv` adds the bound on
the buffer, that the sender has an event while it sends, and that each run of the
daemon delivers no more events than it numbered; `ExportTypesHold` follows. `FeedWhole` states `FeedIsWhole`: for its
third part, that an exporter at rest which lost nothing has left the far end with
the tracker's own picture, `FeedInv` says that, as long as
nothing was dropped, the latest transition of a finding says what the tracker last
saw, wherever it is: still to be appended, in the buffer, in hand or delivered
(`Latest`).

**Snapshots** (`SnapshotProofs`). `WindowRestorable` states `InFlightRestorable`: a
changeset that awaits its confirmation has its snapshot and the blob its restore
reads. The induction (`RestorableInv`) carries that a capture which inserted its
row refers to that row and no other (`OwnRow`), that a reference keeps its blob
(`BlobKept`), that a changeset is captured once before its change (`OnePre`), by an
apply that owns it (`ApplyOwned`), and that from the end of the capture to the end
of the window the snapshot is there with its reference (`PreStays`). `UndoStays` states
`UndoIsKept`, which adds that the offer to roll back a committed changeset is kept:
`OfferInv` bounds the days between the snapshot and the commit by the two halves of
a flight. The part holds when snapshots are kept
for at least the two halves of a flight and the pin together, a condition of the
property itself. `SnapshotTypes` includes that no file reference outlives its snapshot.

**Requests for changes** (`ControlProofs`).

- *Scheduler.* `FiredRowsApplied` states `FiredIsApplied`. A tick works on a copy of
  the row it listed, so the induction (`ScheduleInv`) follows the tick: one that runs
  or is about to write `fired` has an apply by the schedule behind it
  (`FireIsApplied`), and such an apply ends the changeset's time as a draft, so that
  no later one replaces it (`ScheduledIsFinal`). `RowsResolvedOnce` (an action property)
  and `ScheduleTypes` follow, for any number of tickers and crashes.
- *Review gates.* `AppliesSanctioned` states `AppliedWasSanctioned`. Its first part, that
  overrides and acknowledgements are pinned to the ops they were given for, is
  proved for overlapping requests (`OverridesPinned`), with `GatesSoFar`: what a request
  at each place has read and passed. The rest holds for requests one at a time and
  clearings that do not fail (`OneAtATime`, no `LoggedFaults`), which are conditions
  of the property: approval, edit and apply hold no lock over their checks (see the
  claims). `SerialInv` says then which of decision, sign-offs and comments a request
  in the middle has still to clear. `RetractionsNotCounted` needs only that the
  withdrawal does not fail (`RetractInv`).
- *Proposals.* `ProposalsWhole` states `ProposalIsWhole`. `ProposeInv`: a call about
  to open a request has seen that there is none and only it could have opened one since
  (`OpenIsFresh`), and a call that started with a request under review has created no
  branch and so has none to take back (`ReviewIsKept`, `OwnBranch`);
  `OneRequest` and the action property `ReviewKeepsBranch` follow for any faults.
  `CleanInv`, for answers that arrive and one failing call per proposal at most,
  says which of branch and request exist at each place.
- *Mirrors.* `MirrorMoves` says once what a step may do to commands, rows and
  changeset; the inductions are over these moves. `RoomInv`: an admitted create
  still has room, and its source to itself, when it writes its row, over any crashes
  and failing calls; `CapRespected` and `OneSessionPerSource` follow. `SnapInv`: the
  snapshot of a changeset has the rows of now of every session but its own, so the
  undo drops and re-binds only that one. `LiveInv`, while the store works and the
  daemon lives: an active row has its mirror, its own delete has just taken it, or an
  ended session has the same source. `RowsMatchMirrors` states `MirrorsMatchRows`;
  the action property `UndoSparesOthers` needs that no two active sessions share a
  source. `UndoInv` follows an undone create to the end of the first half; `UndoneCreatesGone`
  (action) holds for reused ids, failing stores and crashes. None has a hypothesis
  beside `TcMirrorAssumption`; what does not hold is among the claims.
- *Presence.* `SweepSparesHeld` holds for any overlap, because the sweep's delete
  checks the expiry again. `TakeoversNamed` does too: `NamedInv` says of a request
  between its read and its write that whoever holds the lock now is the holder it
  read or wrote since (`WrittenRecords`); the latter is the race the code leaves open
  (the claim `EveryTakeoverNamed`). `RegistryInv` (the count of a session is the number of its
  open connections) gives `PresenceTypes`.

**Services** (`ServiceProofs`).

- *Restore.* `KeptInv`: the names no restore has used are free, and between the
  move of the store and the install the live path holds nothing of the node's
  (`LiveIsSpare`), so a daemon that starts there makes an empty store that may be
  replaced. `OwnStoreKept` follows with failing undos, deaths and racing daemons.
  `LogInv` (a log is beside its own store or beside none, also once both are aside)
  gives `LogsMatchStores` and the action property `FailureUndone`; both assume that
  no daemon starts in the middle (`Race = FALSE`), and the second that
  files can be moved back (`UndoFails = FALSE`): without them the claims fail.
  `StoresStayApart` joins the two invariants.
- *Git sync.* `DraftInv`: no draft is opened behind a cycle that has listed them, and
  the plan of a cycle comes from a good revision. `OneDraft`, `DraftsFromGood`, joined in
  `DraftsFollow`. `PlansAreStaged` (action) needs that people do not edit the draft: the
  remembered plan is then the one in the draft, so a cycle that writes nothing may.
- *Peer client.* `ReadInv`: the in-flight entry belongs to the one caller that
  works, and is no older than its request. `OneReadAtPeer` and `FailuresNotCached`
  hold for all settings; `ReadsAreFresh` assumes `Timeout <= TTL`, which the defaults
  (5 s each) meet with nothing to spare. `ProbeInv`: a probe is out for at most the timeout and a breaker
  that opened meanwhile opened after it left; `OneProbeAtATime` assumes
  `Timeout < Reset` (5 s and 15 s). A client given two minutes
  (`cmd/vnproxd/server.go:1566`) meets neither. `HalfOpenIsProbed` assumes that a request does
  not fail before it is sent (the claim `HalfOpenResolves`). `PeersAreSpared` joins them,
  each part under its condition.
- *Leadership.* `StepDownInv` bounds, for each place a tick can be in, the time
  since the last answered push; `IsolatedLeaderStepsDown` holds for any timing and
  any crashes, but needs `GatherMayFail = FALSE`: a tick whose Gather fails ends before
  the check. `FenceInv` relates what the standby has observed to the leader's last
  answer; `FirstLeaseIsFenced` needs `3 * MaxDelay <= Margin + 1`, which the default
  margin of three renew intervals meets for pushes of up to one interval, and no
  restarts: a leader that restarts within its lease counts the TTL afresh.
  `LeadersAreFenced` joins them.
- *Replication.* `ReplInv`: a batch that carries a window carries the snapshot and
  the blob its rollback reads, because Gather reads changesets first.
  `RefsInduction`: on the standby a reference keeps its blob, because retention deletes
  only what nothing refers to. `CompletePassIsMirror` and `CompletePassCanUndo` follow, the latter
  for standbys with and without retention; `StandbysCanTakeOver` joins them. A snapshot
  that an earlier pass left without references is the exception (see the claims).
- *Websocket hub.* `HubInv`: what a connection got, has in hand and has queued are
  events broadcast, each once (`Tidy`); a broadcast's event is with nobody it has
  still to visit, a client between its two checks did not keep the event's own
  topic, and two broadcasts have different events (`CastInv`, `CastsDiffer`).
  `NoEventTwice` and `NobodyPassedOver` follow for any connections,
  goroutines and queue lengths.
- *Captures.* `CapturesInv` has for each session where its process, its handle, its
  file and its row can be: a process that runs is registered, in the hands of a start
  that will register it, or of a stop or a sweep that will end it (`Reachable`); a handle is the handle of a process (`Handles`); a purged row, and
  every copy of one that a call may write back, is of a file that is gone (`NoFile`). `StoredInv`, while the store
  takes every write, adds what the row says. `CapturesKept` states `CapturesAreKept`.
- *Alerts.* `ToldInv`: what the next cycle compares with is what the receiver was told,
  the old entry of a finding the cycle has not come to and the new one after that; `CyclesTell` states `ReceiverIsTold` of the notifier. For the queue,
  `HeldRight` states it for every quiet window, also one over midnight, with the end
  of quiet hours as the least number of minutes that leads outside (`LeastNatural`),
  and `UrgentInv`: an error that bypasses them waits for its digest
  at most, queued or on its way to the queue. `HeldNotDropped`
  (action) rests on `BatchInv`: the batch a flush will clear was tried, or its rule is gone.

Each service also has its types proved (`RestoreTypes`, `GitTypes`, `ClientTypes`,
`LeaseTypes`, `ReplicationTypes`, `HubTypes`, `CaptureTypes`, `NotifyTypes`, `AlertTypes`). The
`TypeOK` of a module is more than ranges where the code relies on more: the audit ids
of a log stay within what was written, an entry is not dated in the future, a
draft that is named exists, a counter of failures is bounded by the calls.

In the runs `control` and `background` a property is a conjunction over the settings of
the services; the invariant of the same name in a service's module is the one a theorem
states for all settings. Where part of it needs a setting, that is a hypothesis
inside the invariant, so that the theorem says in which settings the part holds.
`CleanupKeepsOthers`, `OutcomesHold` and `NothingIsLost` are conjunctions of action
properties, each of which is a theorem by itself.

Assumptions on constants: each module names the ones it needs (`RetentionAssumption`,
`SIEMExportAssumption`, `PlanAssumption`, `ScopesDisjoint`, `SettingsAssumption`,
`ReviewAssumption` and so on), mostly that bounds are numbers, that `None` is none of
the values it stands beside, and that plans name resources. TLC evaluates them in the
runs (`SettingsAreLegal` for the settings of the services). In `ControlProofs` and `ServiceProofs`, which instantiate several services, they are the
hypotheses of the theorems; `HubSetting` says that `None` is no connection.

Only model-checked: all liveness (`Settles`, `ArmedResolves` and the run `progress`), since
liveness under fairness is outside the prover's reach, as are ENABLED, RECURSIVE
operators and induction over data; and the engine's node and scope properties for
several changesets with canaries or guards, where two executors can run at once.
Every other safety property that a run checks is a theorem, for all constants in the
settings named.

## Not modelled

Validation and policy, the interfaces file model, simulation, firewall resolution,
IPAM and the checks of the findings engine compute verdicts from data, with no
protocol: where a verdict decides, it is a free choice of the model. The HTTP API,
the command line, the MCP server and the web client decode requests around the
modelled calls. Inventory, topology and federation read other systems. Creating and checking
archives computes data. Request signing between peers, the formats and connections of the event sinks, and the
encryption of snapshots are left out of the modelled components.

## Plan

1. Proofs: the node and scope properties for several changesets with canaries, from an
   invariant that bounds what two executors can do to the same node.
2. A run without `SerialCalls`, and `Reconcile` with the apply log's node timers.
3. A module for the lifetime of sessions (`internal/auth`).
