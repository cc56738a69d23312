----------------------------- MODULE MCProgress -----------------------------
(***************************************************************************)
(* What the services do in the end, for TLC: liveness under the fairness   *)
(* that their loops, timers and supervisors give them. As in               *)
(* MCChangeControl, every behaviour is of one service in one setting;      *)
(* fairness is of that service, since the others never move.               *)
(***************************************************************************)
EXTENDS Naturals, FiniteSets

CONSTANTS None, Unparsed

VARIABLE service  \* the service, and its setting, a behaviour is about

VARIABLES scheduleNow, scheduleStatus, ops, lock, apply, scheduleRow, request,
          scheduleTick, scheduleUp, scheduleCrashes
VARIABLES leaseNow, leaseProc, role, lease, leaseObserved, lastOK, disk,
          leaseTick, net, leaseCrashes
VARIABLES snapshotNow, snapshotLive, snapshotStatus, at, blobs, snaps, refs,
          writer, prune, snapshotCount
VARIABLES presenceClock, locks, discarded, stage, presenceSweep, conns,
          opened, sessions, busy, shown
VARIABLES captureRow, mirror, captureProc, procs, file, aged, start, stop,
          sync, captureSweep, captureCrashes
VARIABLES alertClock, quiet, on, pend, left, sev, age, tried, notify, flush
VARIABLES peerNow, brk, trust, cache, call, cancelled, begun, unanswered
VARIABLES buf, wake, sender, sent, dropped, appended, caller, prev,
          siemObserved, todo, stopping, far, siemGot, last, siemRestarts
VARIABLES mirrorRow, tc, cs, mirrorUp, due, swept, mirrorClock, mirrorChanges,
          mirrorCrashes
VARIABLES revs, syncLive, drafts, poll, lastRev, lastPlan, issue, staged,
          actions, syncRestarts
VARIABLES conn, ws, topics, queue, out, hubGot, lost, cast, sunk, hubCount,
          hubChanges

scheduleVars == <<scheduleNow, scheduleStatus, ops, lock, apply, scheduleRow,
                  request, scheduleTick, scheduleUp, scheduleCrashes>>
leaseVars == <<leaseNow, leaseProc, role, lease, leaseObserved, lastOK, disk,
               leaseTick, net, leaseCrashes>>
snapshotVars == <<snapshotNow, snapshotLive, snapshotStatus, at, blobs, snaps,
                  refs, writer, prune, snapshotCount>>
presenceVars == <<presenceClock, locks, discarded, stage, presenceSweep,
                  conns, opened, sessions, busy, shown>>
captureVars == <<captureRow, mirror, captureProc, procs, file, aged, start,
                 stop, sync, captureSweep, captureCrashes>>
alertVars == <<alertClock, quiet, on, pend, left, sev, age, tried, notify,
               flush>>
peerVars == <<peerNow, brk, trust, cache, call, cancelled, begun, unanswered>>
siemVars == <<buf, wake, sender, sent, dropped, appended, caller, prev,
              siemObserved, todo, stopping, far, siemGot, last, siemRestarts>>
mirrorVars == <<mirrorRow, tc, cs, mirrorUp, due, swept, mirrorClock,
                mirrorChanges, mirrorCrashes>>
syncVars == <<revs, syncLive, drafts, poll, lastRev, lastPlan, issue, staged,
              actions, syncRestarts>>
hubVars == <<conn, ws, topics, queue, out, hubGot, lost, cast, sunk, hubCount,
             hubChanges>>

vars == <<service, scheduleVars, leaseVars, snapshotVars, presenceVars,
          captureVars, alertVars, peerVars, siemVars, mirrorVars, syncVars,
          hubVars>>

-----------------------------------------------------------------------------
\* A window that opens at once and one that opens later; the confirm timeout is
\* longer than what a late fire leaves of either.
Immediate == [start |-> 0, end |-> 1, timeout |-> 2, policy |-> "applyImmediately"]
Later == [start |-> 1, end |-> 2, timeout |-> 2, policy |-> "skip"]

\* One changeset, a window that opens later.
SC == INSTANCE Scheduler WITH
  Changesets <- {"c1"}, Tickers <- {"loop"}, Windows <- {Later},
  ServiceTimeout <- 3, MinTimeout <- 1, MaxTimeout <- 3, MaxTime <- 2,
  MaxCrashes <- 0, now <- scheduleNow, status <- scheduleStatus,
  row <- scheduleRow, tick <- scheduleTick, up <- scheduleUp,
  crashes <- scheduleCrashes

\* One daemon may crash and come back; the margin is less than a renew
\* interval.
HF == INSTANCE HALease WITH
  Daemons <- {"a", "b"}, Bootstrap <- "a", MaxTerm <- 2, TTL <- 1,
  Margin <- 0, MaxDelay <- 0, GatherMayFail <- FALSE, MaxTime <- 3,
  MaxCrashes <- 1, now <- leaseNow, proc <- leaseProc,
  observed <- leaseObserved, tick <- leaseTick, crashes <- leaseCrashes

\* Two daemons that have never run; the same margin.
HB == INSTANCE HALease WITH
  Daemons <- {"a", "b"}, Bootstrap <- "a", MaxTerm <- 2, TTL <- 1,
  Margin <- 0, MaxDelay <- 0, GatherMayFail <- FALSE, MaxTime <- 3,
  MaxCrashes <- 0, now <- leaseNow, proc <- leaseProc,
  observed <- leaseObserved, tick <- leaseTick, crashes <- leaseCrashes

\* Scheduled snapshots and their retention.
SF == INSTANCE SnapshotStore WITH
  Changesets <- {"c1"}, PinDays <- 1, KeepNewest <- 1, MaxSnaps <- 2,
  Contents <- {"x"}, KeepDays <- 1, Capturers <- {"scheduled"},
  FlightDays <- 2, MaxTime <- 2, now <- snapshotNow, live <- snapshotLive,
  status <- snapshotStatus, count <- snapshotCount

\* Two operators stage on one bridge and go away.
PR == INSTANCE Presence WITH
  Sessions <- {"s1", "s2"}, Conns <- {}, Refs <- {"bridge"}, Drafts <- {"d1"},
  TTL <- 1, MaxTime <- 2, LastStage <- 1, clock <- presenceClock,
  sweep <- presenceSweep

\* A capture on a peer; its file may resist removal.
CP == INSTANCE Capture WITH
  Sessions <- {"r"}, Remotes <- {"r"}, Faults <- {"unlink"}, Overlap <- TRUE,
  MaxCrashes <- 0, row <- captureRow, proc <- captureProc,
  sweep <- captureSweep, crashes <- captureCrashes

\* An event in a night of quiet hours.
AS == INSTANCE AlertSchedule WITH
  Events <- {"e1"}, Day <- 3, QuietHours <- {<<2, 1>>}, DigestWindow <- 2,
  Bypass <- FALSE, Faults <- {}, RuleTurns <- TRUE, clock <- alertClock

\* Two goroutines share reads of a peer that goes silent.
PC == INSTANCE PeerClient WITH
  Callers <- {"a", "b"}, Readers <- {"a", "b"},
  Outcomes <- {"answer", "silence"}, Cancels <- FALSE, LocalFaults <- FALSE,
  Threshold <- 2, Reset <- 3, Timeout <- 2, TTL <- 2, MaxCalls <- 3,
  MaxTime <- 3, now <- peerNow

\* An auditor and one finding; sends succeed.
SX == INSTANCE SIEMExport WITH
  Auditors <- {"a"}, Findings <- {"f"}, Capacity <- 2, SendFails <- FALSE,
  Shutdowns <- FALSE, MaxEvents <- 3, MaxRestarts <- 0,
  observed <- siemObserved, got <- siemGot, restarts <- siemRestarts

\* Two sessions on one source, undone or confirmed, one crash.
TS == INSTANCE TcMirror WITH
  Sessions <- <<"a", "b">>, Durations <- {1, 2}, Ceiling <- 2,
  MaxSessions <- 2, Sources <- {"eth0"},
  Ops <- {"create", "update", "delete", "other"}, Rollbacks <- TRUE,
  FreshIds <- TRUE, TcFaults <- FALSE, StoreFaults <- FALSE, MaxTime <- 2,
  MaxChanges <- 2, MaxCrashes <- 1, row <- mirrorRow, up <- mirrorUp,
  clock <- mirrorClock, changes <- mirrorChanges, crashes <- mirrorCrashes

\* Every window is confirmed.
TC == INSTANCE TcMirror WITH
  Sessions <- <<"a", "b">>, Durations <- {1, 2}, Ceiling <- 2,
  MaxSessions <- 2, Sources <- {"eth0"},
  Ops <- {"create", "update", "delete", "other"}, Rollbacks <- FALSE,
  FreshIds <- TRUE, TcFaults <- FALSE, StoreFaults <- FALSE, MaxTime <- 3,
  MaxChanges <- 2, MaxCrashes <- 0, row <- mirrorRow, up <- mirrorUp,
  clock <- mirrorClock, changes <- mirrorChanges, crashes <- mirrorCrashes

\* One key; people apply, discard and cause drift; fetches fail; one restart.
GS == INSTANCE GitSync WITH
  Keys <- {"k1"}, Vals <- {1, 2}, Human <- {"apply", "discard", "drift"},
  RequireSigned <- FALSE, FetchFails <- TRUE, MaxRevs <- 3, MaxDrafts <- 4,
  MaxHuman <- 1, MaxRestarts <- 1, live <- syncLive, restarts <- syncRestarts

\* One client that may never read, whose queue holds one event.
EH == INSTANCE EventHub WITH
  Conns <- {"k1"}, Automation <- {"k1"}, Tokened <- {}, Senders <- {"s"},
  Room <- 1, MaxEvents <- 2, MaxSubscribes <- 1, got <- hubGot,
  count <- hubCount, changes <- hubChanges

ASSUME SettingsAreLegal ==
  /\ SC!SettingsAssumption
  /\ HF!TimingAssumption
  /\ HB!TimingAssumption
  /\ SF!RetentionAssumption
  /\ PR!PresenceAssumption
  /\ CP!CaptureAssumption
  /\ AS!ScheduleAssumption
  /\ PC!PeerClientAssumption
  /\ SX!SIEMExportAssumption
  /\ TS!TcMirrorAssumption
  /\ TC!TcMirrorAssumption
  /\ GS!GitSyncAssumption
  /\ EH!HubAssumption

-----------------------------------------------------------------------------
\* The services share no state: what one does, the others do not see.
ScheduleOnly == UNCHANGED <<service, leaseVars, snapshotVars, presenceVars,
                            captureVars, alertVars, peerVars, siemVars,
                            mirrorVars, syncVars, hubVars>>
LeaseOnly == UNCHANGED <<service, scheduleVars, snapshotVars, presenceVars,
                         captureVars, alertVars, peerVars, siemVars,
                         mirrorVars, syncVars, hubVars>>
SnapshotOnly == UNCHANGED <<service, scheduleVars, leaseVars, presenceVars,
                            captureVars, alertVars, peerVars, siemVars,
                            mirrorVars, syncVars, hubVars>>
PresenceOnly == UNCHANGED <<service, scheduleVars, leaseVars, snapshotVars,
                            captureVars, alertVars, peerVars, siemVars,
                            mirrorVars, syncVars, hubVars>>
CaptureOnly == UNCHANGED <<service, scheduleVars, leaseVars, snapshotVars,
                           presenceVars, alertVars, peerVars, siemVars,
                           mirrorVars, syncVars, hubVars>>
AlertOnly == UNCHANGED <<service, scheduleVars, leaseVars, snapshotVars,
                         presenceVars, captureVars, peerVars, siemVars,
                         mirrorVars, syncVars, hubVars>>
PeerOnly == UNCHANGED <<service, scheduleVars, leaseVars, snapshotVars,
                        presenceVars, captureVars, alertVars, siemVars,
                        mirrorVars, syncVars, hubVars>>
SiemOnly == UNCHANGED <<service, scheduleVars, leaseVars, snapshotVars,
                        presenceVars, captureVars, alertVars, peerVars,
                        mirrorVars, syncVars, hubVars>>
MirrorOnly == UNCHANGED <<service, scheduleVars, leaseVars, snapshotVars,
                          presenceVars, captureVars, alertVars, peerVars,
                          siemVars, syncVars, hubVars>>
SyncOnly == UNCHANGED <<service, scheduleVars, leaseVars, snapshotVars,
                        presenceVars, captureVars, alertVars, peerVars,
                        siemVars, mirrorVars, hubVars>>
HubOnly == UNCHANGED <<service, scheduleVars, leaseVars, snapshotVars,
                       presenceVars, captureVars, alertVars, peerVars,
                       siemVars, mirrorVars, syncVars>>

Init ==
  /\ service \in {"schedule", "failover", "boot", "retention", "presence", "capture",
                  "alerts", "peer", "siem", "mirror", "stops", "gitsync", "hub"}
  /\ SC!Init
  /\ IF service = "boot" THEN HB!InitBoot ELSE HF!Init
  /\ SF!Init
  /\ PR!Init
  /\ CP!Init
  /\ AS!Init
  /\ PC!Init
  /\ SX!Init
  /\ TS!Init
  /\ GS!Init
  /\ service # "gitsync" => syncLive = [k \in {"k1"} |-> 1]
  /\ EH!Init

Next ==
  \/ service = "schedule" /\ SC!Next /\ ScheduleOnly
  \/ service = "failover" /\ HF!Next /\ LeaseOnly
  \/ service = "boot" /\ HB!Next /\ LeaseOnly
  \/ service = "retention" /\ SF!Next /\ SnapshotOnly
  \/ service = "presence" /\ PR!Next /\ PresenceOnly
  \/ service = "capture" /\ CP!Next /\ CaptureOnly
  \/ service = "alerts" /\ AS!Next /\ AlertOnly
  \/ service = "peer" /\ PC!Next /\ PeerOnly
  \/ service = "siem" /\ SX!Next /\ SiemOnly
  \/ service = "mirror" /\ TS!Next /\ MirrorOnly
  \/ service = "stops" /\ TC!Next /\ MirrorOnly
  \/ service = "gitsync" /\ GS!Next /\ SyncOnly
  \/ service = "hub" /\ EH!Next /\ HubOnly

Spec == Init /\ [][Next]_vars

\* Fairness is stated by kind of step. One service moves in a behaviour, so
\* fairness of a disjunction over services is fairness of each of them; within a
\* service a disjunction joins steps of one goroutine that follow each other.

\* Time passes.
Clocks ==
  \/ service = "schedule" /\ SC!Advance /\ ScheduleOnly
  \/ service = "failover" /\ HF!Advance /\ LeaseOnly
  \/ service = "boot" /\ HB!Advance /\ LeaseOnly
  \/ service = "presence" /\ PR!Tick /\ PresenceOnly
  \/ service = "alerts" /\ AS!Tick /\ AlertOnly
  \/ service = "mirror" /\ TS!Tick /\ MirrorOnly
  \/ service = "stops" /\ TC!Tick /\ MirrorOnly

\* The goroutine a service is about goes on: the tick of the scheduler, the
\* first daemon and its supervisor, the retention loop, a staging request, the
\* sweep of captures, the flush of alerts, a caller whose requests end at
\* http.Client.Timeout, the sender of events, the engine and its supervisor, the
\* poll of the ref, a broadcast.
Worker ==
  \/ service = "schedule" /\ (SC!TickSchedules("loop") \/ SC!TickStep("loop")) /\ ScheduleOnly
  \/ service = "failover" /\ (HF!Tick("a") \/ HF!Start("a")) /\ LeaseOnly
  \/ service = "boot" /\ (HB!Tick("a") \/ HB!Start("a")) /\ LeaseOnly
  \/ service = "retention" /\ SF!Prune /\ SnapshotOnly
  \/ service = "presence" /\ PR!StageDone("s1") /\ PresenceOnly
  \/ service = "capture" /\ (CP!SweepBegin("r") \/ CP!SweepTake("r")
                               \/ CP!SweepHalt("r") \/ CP!SweepMark("r")) /\ CaptureOnly
  \/ service = "alerts" /\ (AS!FlushBegins \/ AS!FlushDelivers
                              \/ AS!FlushDiscards \/ AS!FlushClears) /\ AlertOnly
  \/ service = "peer" /\ PC!Step("a") /\ PeerOnly
  \/ service = "siem" /\ SX!Run /\ SiemOnly
  \/ service = "mirror" /\ (TS!EngineStep \/ TS!Restart) /\ MirrorOnly
  \/ service = "stops" /\ TC!EngineStep /\ MirrorOnly
  \/ service = "gitsync" /\ GS!Cycle /\ SyncOnly
  \/ service = "hub" /\ EH!CastStep("s") /\ HubOnly

\* The second one goes on: the other daemon, the sweep of blobs, the other
\* operator, a start that writes its row, the other caller, a producer that
\* wakes the sender, the sweep of sessions.
Partner ==
  \/ service = "failover" /\ (HF!Tick("b") \/ HF!Start("b")) /\ LeaseOnly
  \/ service = "boot" /\ (HB!Tick("b") \/ HB!Start("b")) /\ LeaseOnly
  \/ service = "retention" /\ SF!PruneOrphans /\ SnapshotOnly
  \/ service = "presence" /\ PR!StageDone("s2") /\ PresenceOnly
  \/ service = "capture" /\ (CP!StartRegister("r") \/ CP!StartWrite("r")) /\ CaptureOnly
  \/ service = "peer" /\ PC!Step("b") /\ PeerOnly
  \/ service = "siem" /\ SX!Signal("a") /\ SiemOnly
  \/ service = "mirror" /\ TS!SweepStep /\ MirrorOnly
  \/ service = "stops" /\ TC!SweepStep /\ MirrorOnly

\* What others do in time: a push is handled or lost, a capture of files goes on
\* or fails, the finding tracker wakes the sender, a window is confirmed or
\* undone.
Others ==
  \/ service = "failover" /\ HF!Handle /\ LeaseOnly
  \/ service = "boot" /\ HB!Handle /\ LeaseOnly
  \/ service = "retention" /\ SF!CaptureStep("scheduled") /\ SnapshotOnly
  \/ service = "siem" /\ SX!Signal("tracker") /\ SiemOnly
  \/ service = "mirror" /\ (TS!Confirm \/ TS!Rollback) /\ MirrorOnly
  \/ service = "stops" /\ TC!Confirm /\ MirrorOnly

\* What fails is tried again, and does not fail for ever: the removal of a
\* file, the fetch of the ref.
Retried ==
  \/ service = "capture" /\ CP!SweepRemove("r") /\ CaptureOnly
  \/ service = "gitsync" /\ (GS!Skip \/ GS!Plan) /\ SyncOnly

FairSpec ==
  /\ Spec
  /\ WF_vars(Clocks) /\ WF_vars(Worker) /\ WF_vars(Partner) /\ WF_vars(Others)
  /\ SF_vars(Retried)

-----------------------------------------------------------------------------
\* schedule.go, peer, gitsync/service.go, findings/flush.go, siemexport, hub.go:
\* what waits is served. A pending schedule is fired, found missed or blocked; who
\* waits for another's request is answered; a half-open breaker closes or opens; a
\* good head of the ref is gone through with; a held alert is flushed; every event
\* appended is sent or given up; a broadcast ends, whatever clients do not read.
WaitingIsServed ==
  /\ SC!PendingResolves
  /\ PC!WaiterAnswered
  /\ PC!HalfOpenResolves
  /\ \A r \in 1 .. 3 : []<>(service = "gitsync" => GS!Handled(r))
  /\ AS!HeldIsFlushed
  /\ SX!EventuallyAttempted
  /\ EH!BroadcastEnds

\* ha/manager.go: after the leader dies, somebody leads again; when it comes back
\* with its old lease just as the other takes over, one of the two steps down;
\* two daemons started for the first time get a leader.
LeadershipSettles ==
  /\ service = "failover" => HF!FailoverHappens /\ HF!OlderLeaderYields
  /\ service = "boot" => HB!LeaderEmerges

\* store/retention.go, presence/locks.go, capture/coordinator.go, tcmirror.go:
\* nothing is left behind for ever. A blob nothing refers to is reclaimed; the
\* lock of a discarded draft expires; the file of a session with a row goes once
\* it is old; an overdue mirror session is ended or bounded anew, wherever the
\* daemon died; and where every window is confirmed and nothing fails, no mirror
\* runs for ever.
LeftoversGo ==
  /\ SF!OrphansReclaimed
  /\ PR!StrandedLockExpires
  /\ CP!RowedFileExpires
  /\ TS!DueIsEnded
  /\ \A i \in {"eth0"} : []<>(service = "stops" => tc[i] # "live")
=============================================================================
