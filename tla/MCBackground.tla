---------------------------- MODULE MCBackground ----------------------------
(***************************************************************************)
(* The services that work behind the change engine, for TLC: packet        *)
(* capture, the lease of the two daemons and the replication between them, *)
(* the snapshot store, the restore of a backup, the client of the peers,   *)
(* and what becomes of events (notification, held alerts, the export to a  *)
(* SIEM, the websocket hub). As in MCChangeControl they share no state,    *)
(* and every behaviour is of one service in one setting.                   *)
(***************************************************************************)
EXTENDS Naturals, FiniteSets

CONSTANTS None

VARIABLE service  \* the service, and its setting, a behaviour is about

VARIABLES row, mirror, captureProc, procs, file, aged, start, stop, sync,
          sweep, captureCrashes
VARIABLES leaseNow, leaseProc, role, lease, leaseObserved, lastOK, disk, tick,
          net, leaseCrashes
VARIABLES active, standby, pass, cursor, complete, fresh, leader
VARIABLES snapshotNow, live, status, snapshotAt, blobs, snaps, refs, writer,
          prune, snapshotCount
VARIABLES db, wal, extra, run, runs, before, ended, daemon, mixed
VARIABLES peerNow, brk, trust, cache, call, cancelled, begun, unanswered
VARIABLES present, suppressed, notified, notifyAt, snap, hushed, notifyTodo,
          next, told, fired, worse, notifyRestarts
VARIABLES clock, quiet, on, pend, left, sev, age, tried, notify, flush
VARIABLES buf, wake, sender, sent, dropped, appended, caller, prev,
          siemObserved, siemTodo, stopping, far, siemGot, last, siemRestarts
VARIABLES conn, ws, topics, queue, out, hubGot, lost, cast, sunk, hubCount,
          changes

captureVars == <<row, mirror, captureProc, procs, file, aged, start, stop,
                 sync, sweep, captureCrashes>>
leaseVars == <<leaseNow, leaseProc, role, lease, leaseObserved, lastOK, disk,
               tick, net, leaseCrashes>>
replicaVars == <<active, standby, pass, cursor, complete, fresh, leader>>
snapshotVars == <<snapshotNow, live, status, snapshotAt, blobs, snaps, refs,
                  writer, prune, snapshotCount>>
restoreVars == <<db, wal, extra, run, runs, before, ended, daemon, mixed>>
peerVars == <<peerNow, brk, trust, cache, call, cancelled, begun, unanswered>>
notifyVars == <<present, suppressed, notified, notifyAt, snap, hushed,
                notifyTodo, next, told, fired, worse, notifyRestarts>>
alertVars == <<clock, quiet, on, pend, left, sev, age, tried, notify, flush>>
siemVars == <<buf, wake, sender, sent, dropped, appended, caller, prev,
              siemObserved, siemTodo, stopping, far, siemGot, last,
              siemRestarts>>
hubVars == <<conn, ws, topics, queue, out, hubGot, lost, cast, sunk, hubCount,
             changes>>

vars == <<service, captureVars, leaseVars, replicaVars, snapshotVars,
          restoreVars, peerVars, notifyVars, alertVars, siemVars, hubVars>>

-----------------------------------------------------------------------------
\* A capture on a peer; the network, the agent, the store and the file system
\* fail, one restart.
CP == INSTANCE Capture WITH
  Sessions <- {"r"}, Remotes <- {"r"},
  Faults <- {"net", "agent", "store", "unlink"}, Overlap <- TRUE,
  MaxCrashes <- 1, proc <- captureProc, crashes <- captureCrashes

\* The store works; two restarts.
CS == INSTANCE Capture WITH
  Sessions <- {"r"}, Remotes <- {"r"}, Faults <- {"net", "agent", "unlink"},
  Overlap <- TRUE, MaxCrashes <- 2, proc <- captureProc,
  crashes <- captureCrashes

\* Two daemons, a network that delays and loses, no crash.
HL == INSTANCE HALease WITH
  Daemons <- {"a", "b"}, Bootstrap <- "a", MaxTerm <- 3, TTL <- 2,
  Margin <- 2, MaxDelay <- 1, GatherMayFail <- FALSE, MaxTime <- 6,
  MaxCrashes <- 0, now <- leaseNow, proc <- leaseProc,
  observed <- leaseObserved, crashes <- leaseCrashes

\* Changesets and tokens; the standby keeps its blobs.
HR == INSTANCE HAReplication WITH
  Tables <- {"changeset", "token"}, StandbyPrunes <- FALSE, MaxAudit <- 2

\* Changesets, schedules and audit; the standby deletes orphaned blobs.
HP == INSTANCE HAReplication WITH
  Tables <- {"changeset", "schedule", "audit"}, StandbyPrunes <- TRUE,
  MaxAudit <- 1

\* Snapshots by hand beside those of an apply.
SM == INSTANCE SnapshotStore WITH
  Changesets <- {"c1"}, PinDays <- 1, KeepNewest <- 1, MaxSnaps <- 2,
  Contents <- {"x", "y"}, KeepDays <- 3, Capturers <- {"manual"},
  FlightDays <- 1, MaxTime <- 3, now <- snapshotNow, at <- snapshotAt,
  count <- snapshotCount

\* Scheduled snapshots; a changeset in flight for longer than snapshots are
\* kept.
SF == INSTANCE SnapshotStore WITH
  Changesets <- {"c1"}, PinDays <- 1, KeepNewest <- 1, MaxSnaps <- 2,
  Contents <- {"x"}, KeepDays <- 1, Capturers <- {"scheduled"},
  FlightDays <- 2, MaxTime <- 2, now <- snapshotNow, at <- snapshotAt,
  count <- snapshotCount

\* A restore that fails or dies anywhere and is tried again; files can be put
\* back.
SR == INSTANCE StoreRestore WITH
  MaxRuns <- 2, Crashes <- TRUE, UndoFails <- FALSE, Race <- FALSE,
  Extras <- {"config"}

\* The same, and putting a file back may fail.
SU == INSTANCE StoreRestore WITH
  MaxRuns <- 2, Crashes <- TRUE, UndoFails <- TRUE, Race <- FALSE,
  Extras <- {}

\* Three goroutines share reads, with cancelled contexts.
PC == INSTANCE PeerClient WITH
  Callers <- {"a", "b", "c"}, Readers <- {"a", "b", "c"},
  Outcomes <- {"answer", "refusal", "silence"}, Cancels <- TRUE,
  LocalFaults <- FALSE, Threshold <- 2, Reset <- 3, Timeout <- 2, TTL <- 2,
  MaxCalls <- 3, MaxTime <- 3, now <- peerNow

\* Three goroutines call a peer that goes silent and returns.
PB == INSTANCE PeerClient WITH
  Callers <- {"a", "b", "c"}, Readers <- {},
  Outcomes <- {"answer", "silence"}, Cancels <- FALSE, LocalFaults <- FALSE,
  Threshold <- 2, Reset <- 3, Timeout <- 2, TTL <- 2, MaxCalls <- 4,
  MaxTime <- 4, now <- peerNow

\* One finding, and maintenance windows that open and close.
FN == INSTANCE FindingNotify WITH
  Findings <- {"f1"}, NotifyMin <- 2, SourceFilter <- FALSE, MaxRestarts <- 0,
  at <- notifyAt, todo <- notifyTodo, restarts <- notifyRestarts

\* A rule that names its sources, one restart.
FF == INSTANCE FindingNotify WITH
  Findings <- {"f1"}, NotifyMin <- 2, SourceFilter <- TRUE, MaxRestarts <- 1,
  at <- notifyAt, todo <- notifyTodo, restarts <- notifyRestarts

\* Two events, every window of a short day, a failing store, restarts.
AS == INSTANCE AlertSchedule WITH
  Events <- {"e1", "e2"}, Day <- 4,
  QuietHours <- {w \in (0 .. 3) \X (0 .. 3) : w[1] # w[2]}, DigestWindow <- 2,
  Bypass <- TRUE, Faults <- {"store", "restart"}, RuleTurns <- TRUE

\* More events than the buffer holds, failing sends, a shutdown.
SX == INSTANCE SIEMExport WITH
  Auditors <- {"a"}, Findings <- {"f"}, Capacity <- 2, SendFails <- TRUE,
  Shutdowns <- TRUE, MaxEvents <- 4, MaxRestarts <- 0,
  observed <- siemObserved, todo <- siemTodo, got <- siemGot,
  restarts <- siemRestarts

\* The same with room for one event, and a restart.
SG == INSTANCE SIEMExport WITH
  Auditors <- {"a"}, Findings <- {"f"}, Capacity <- 1, SendFails <- TRUE,
  Shutdowns <- TRUE, MaxEvents <- 2, MaxRestarts <- 1,
  observed <- siemObserved, todo <- siemTodo, got <- siemGot,
  restarts <- siemRestarts

\* Sends succeed and the daemon stays up.
SD == INSTANCE SIEMExport WITH
  Auditors <- {"a"}, Findings <- {"f"}, Capacity <- 2, SendFails <- FALSE,
  Shutdowns <- FALSE, MaxEvents <- 4, MaxRestarts <- 0,
  observed <- siemObserved, todo <- siemTodo, got <- siemGot,
  restarts <- siemRestarts

\* A client with the automation scope that subscribes anew; its queue holds
\* one event.
EH == INSTANCE EventHub WITH
  Conns <- {"k1"}, Automation <- {"k1"}, Tokened <- {"k1"}, Senders <- {"s"},
  Room <- 1, MaxEvents <- 2, MaxSubscribes <- 3, got <- hubGot,
  count <- hubCount

\* Two clients, one of them without the scope.
ET == INSTANCE EventHub WITH
  Conns <- {"k1", "k2"}, Automation <- {"k1"}, Tokened <- {"k1"},
  Senders <- {"s"}, Room <- 1, MaxEvents <- 1, MaxSubscribes <- 2,
  got <- hubGot, count <- hubCount

ASSUME SettingsAreLegal ==
  /\ CP!CaptureAssumption
  /\ CS!CaptureAssumption
  /\ HL!TimingAssumption
  /\ HR!ReplicationAssumption
  /\ HP!ReplicationAssumption
  /\ SM!RetentionAssumption
  /\ SF!RetentionAssumption
  /\ PC!PeerClientAssumption
  /\ PB!PeerClientAssumption
  /\ FN!NotifyAssumption
  /\ FF!NotifyAssumption
  /\ AS!ScheduleAssumption
  /\ SX!SIEMExportAssumption
  /\ SG!SIEMExportAssumption
  /\ SD!SIEMExportAssumption
  /\ SR!RestoreAssumption
  /\ SU!RestoreAssumption
  /\ EH!HubAssumption
  /\ ET!HubAssumption

-----------------------------------------------------------------------------
\* The services share no state: what one does, the others do not see.
CaptureOnly == UNCHANGED <<service, leaseVars, replicaVars, snapshotVars,
                           restoreVars, peerVars, notifyVars, alertVars,
                           siemVars, hubVars>>
LeaseOnly == UNCHANGED <<service, captureVars, replicaVars, snapshotVars,
                         restoreVars, peerVars, notifyVars, alertVars,
                         siemVars, hubVars>>
ReplicaOnly == UNCHANGED <<service, captureVars, leaseVars, snapshotVars,
                           restoreVars, peerVars, notifyVars, alertVars,
                           siemVars, hubVars>>
SnapshotOnly == UNCHANGED <<service, captureVars, leaseVars, replicaVars,
                            restoreVars, peerVars, notifyVars, alertVars,
                            siemVars, hubVars>>
RestoreOnly == UNCHANGED <<service, captureVars, leaseVars, replicaVars,
                           snapshotVars, peerVars, notifyVars, alertVars,
                           siemVars, hubVars>>
PeerOnly == UNCHANGED <<service, captureVars, leaseVars, replicaVars,
                        snapshotVars, restoreVars, notifyVars, alertVars,
                        siemVars, hubVars>>
NotifyOnly == UNCHANGED <<service, captureVars, leaseVars, replicaVars,
                          snapshotVars, restoreVars, peerVars, alertVars,
                          siemVars, hubVars>>
AlertOnly == UNCHANGED <<service, captureVars, leaseVars, replicaVars,
                         snapshotVars, restoreVars, peerVars, notifyVars,
                         siemVars, hubVars>>
SiemOnly == UNCHANGED <<service, captureVars, leaseVars, replicaVars,
                        snapshotVars, restoreVars, peerVars, notifyVars,
                        alertVars, hubVars>>
HubOnly == UNCHANGED <<service, captureVars, leaseVars, replicaVars,
                       snapshotVars, restoreVars, peerVars, notifyVars,
                       alertVars, siemVars>>

Init ==
  /\ service \in {"capture", "stored", "lease", "tables", "pruned", "snapshots",
                  "flight", "reads", "breaker", "notify", "filtered", "alerts",
                  "siem", "restarted", "feed", "restore", "stuck", "hub", "clients"}
  /\ CP!Init
  /\ HL!Init
  /\ HR!Init
  /\ IF service = "flight" THEN SF!Init ELSE SM!Init
  /\ service # "snapshots" => live = "x"
  /\ IF service = "breaker" THEN PB!Init ELSE PC!Init
  /\ FN!Init
  /\ AS!Init
  /\ service # "alerts" => quiet = <<0, 1>>
  /\ SX!Init
  /\ IF service = "stuck" THEN SU!Init ELSE SR!Init
  /\ service \notin {"restore", "stuck"} => wal[SR!Live] = None
  /\ IF service = "clients" THEN ET!Init ELSE EH!Init

Next ==
  \/ service = "capture" /\ CP!Next /\ CaptureOnly
  \/ service = "stored" /\ CS!Next /\ CaptureOnly
  \/ service = "lease" /\ HL!Next /\ LeaseOnly
  \/ service = "tables" /\ HR!Next /\ ReplicaOnly
  \/ service = "pruned" /\ HP!Next /\ ReplicaOnly
  \/ service = "snapshots" /\ SM!Next /\ SnapshotOnly
  \/ service = "flight" /\ SF!Next /\ SnapshotOnly
  \/ service = "reads" /\ PC!Next /\ PeerOnly
  \/ service = "breaker" /\ PB!Next /\ PeerOnly
  \/ service = "notify" /\ FN!Next /\ NotifyOnly
  \/ service = "filtered" /\ FF!Next /\ NotifyOnly
  \/ service = "alerts" /\ AS!Next /\ AlertOnly
  \/ service = "siem" /\ SX!Next /\ SiemOnly
  \/ service = "restarted" /\ SG!Next /\ SiemOnly
  \/ service = "feed" /\ SD!Next /\ SiemOnly
  \/ service = "restore" /\ SR!Next /\ RestoreOnly
  \/ service = "stuck" /\ SU!Next /\ RestoreOnly
  \/ service = "hub" /\ EH!Next /\ HubOnly
  \/ service = "clients" /\ ET!Next /\ HubOnly

Spec == Init /\ [][Next]_vars

-----------------------------------------------------------------------------
\* Every part of the state has its type, whatever service runs.
TypeOK ==
  /\ service = "capture" => CP!TypeOK
  /\ service = "stored" => CS!TypeOK
  /\ service = "lease" => HL!TypeOK
  /\ service = "tables" => HR!TypeOK
  /\ service = "pruned" => HP!TypeOK
  /\ service = "snapshots" => SM!TypeOK
  /\ service = "flight" => SF!TypeOK
  /\ service = "reads" => PC!TypeOK
  /\ service = "breaker" => PB!TypeOK
  /\ service = "notify" => FN!TypeOK
  /\ service = "filtered" => FF!TypeOK
  /\ service = "alerts" => AS!TypeOK
  /\ service = "siem" => SX!TypeOK
  /\ service = "restarted" => SG!TypeOK
  /\ service = "feed" => SD!TypeOK
  /\ service = "restore" => SR!TypeOK
  /\ service = "stuck" => SU!TypeOK
  /\ service = "hub" => EH!TypeOK
  /\ service = "clients" => ET!TypeOK

\* capture/coordinator.go: a capture that runs is known to somebody who can stop
\* it, whatever fails; a row that says purged has no file left; with a store that
\* works, a running capture with a registered handle has a running row, so a stop
\* finds it.
CapturesAreKept ==
  /\ service = "capture" => CP!CapturesAreKept
  /\ service = "stored" => CS!CapturesAreKept

\* ha/manager.go: while the first leader leads, the other daemon does not, and a
\* leader that hears nothing steps down before the other may promote itself.
LeaderIsFenced ==
  service = "lease" => HL!LeaderIsFenced

\* ha/replicate.go: after a complete pass that nobody overtook, the standby holds
\* the active's rows and can undo what is in flight.
StandbyCanTakeOver ==
  /\ service = "tables" => HR!StandbyCanTakeOver
  /\ service = "pruned" => HP!StandbyCanTakeOver

\* store/retention.go: a changeset in flight keeps what its undo needs, however
\* old it gets, and what the manual rollback offers can be loaded.
UndoIsKept ==
  /\ service = "snapshots" => SM!UndoIsKept
  /\ service = "flight" => SF!UndoIsKept

\* backup/restore.go: wherever a restore fails or dies, and however often it is
\* tried again, no log is replayed over a store it does not belong to, and the
\* node's own store is never overwritten.
StoreIsOneStore ==
  /\ service = "restore" => SR!StoreIsOneStore
  /\ service = "stuck" => SU!StoreIsOneStore

\* peer/coalesce.go, breaker.go: one request for a shared read is on the wire at
\* most, an answer handed out is no older than the cache's lifetime, and a failure
\* goes to those who waited for it and to nobody who comes later; a half-open
\* breaker has one probe out, which will settle it.
PeerIsSpared ==
  /\ service = "reads" => PC!PeerIsSpared
  /\ service = "breaker" => PB!PeerIsSpared

\* findings/notify.go, quiethours.go, schedule.go: after a cycle the receiver was
\* told the severity of every finding it should know of, and once for each
\* condition; an alert is held to the first minute outside quiet hours, and one
\* that bypasses them no longer than the digest window.
ReceiverIsTold ==
  /\ service = "notify" => FN!ReceiverIsTold
  /\ service = "filtered" => FF!ReceiverIsTold
  /\ service = "alerts" => AS!ReceiverIsTold

\* siemexport/exporter.go, cmd/vnproxd/siemexport.go: every event is sent, counted
\* as dropped, or still held; under pressure the oldest are given up; with
\* nothing lost, the far end that has all events has the state of every finding.
\* topology/hub.go: no client gets an event twice, and none that keeps a topic by
\* which it wants the event is passed over, also when it subscribes anew in the
\* middle of a broadcast.
FeedIsWhole ==
  /\ service = "siem" => SX!FeedIsWhole
  /\ service = "restarted" => SG!FeedIsWhole
  /\ service = "feed" => SD!FeedIsWhole
  /\ service = "hub" => EH!FeedIsWhole
  /\ service = "clients" => ET!FeedIsWhole

\* findings/flush.go, siemexport/exporter.go, backup/restore.go: a held alert
\* leaves the queue only after an attempt to deliver it, or because its rule is
\* gone; no exported event arrives twice or after a later one; a restore that gives
\* up before it has installed the new store leaves the old one and its log in
\* place.
NothingIsLost ==
  [][/\ service = "alerts" => AS!DeferredNotDropped
     /\ service = "siem" => SX!OnceInOrder
     /\ service = "restarted" => SG!OnceInOrder
     /\ service = "restore" => SR!FailedLeavesStore]_vars
=============================================================================
