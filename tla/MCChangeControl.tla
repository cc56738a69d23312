--------------------------- MODULE MCChangeControl --------------------------
(***************************************************************************)
(* The services through which people and documents ask for changes to the  *)
(* network, for TLC: the scheduler, the review gates, the locks of drafts, *)
(* the sync from git and the proposals to it, and the mirror sessions.     *)
(* They share no state with each other, so a behaviour of the daemon, seen *)
(* by one of them, is a behaviour of that one alone: every behaviour here  *)
(* is of one service in one setting, and the others stay as they started.  *)
(***************************************************************************)
EXTENDS Naturals, FiniteSets

CONSTANTS None, Unparsed

VARIABLE service  \* the service, and its setting, a behaviour is about

VARIABLES now, status, ops, lock, apply, scheduleRow, request, tick,
          scheduleUp, scheduleCrashes
VARIABLES reviewRow, comments, approval, signoffs, breakGlass, freezeOver,
          ack, foreign, req, applyMu, applied, retracted, started
VARIABLES presenceClock, locks, discarded, stage, sweep, conns, opened,
          sessions, busy, shown
VARIABLES revs, live, drafts, poll, lastRev, lastPlan, issue, staged, actions,
          restarts
VARIABLES main, branch, requests, settled, recorded, call, faults, calls
VARIABLES mirrorRow, tc, cs, mirrorUp, due, swept, mirrorClock, changes,
          mirrorCrashes

scheduleVars == <<now, status, ops, lock, apply, scheduleRow, request, tick,
                  scheduleUp, scheduleCrashes>>
reviewVars == <<reviewRow, comments, approval, signoffs, breakGlass,
                freezeOver, ack, foreign, req, applyMu, applied, retracted,
                started>>
presenceVars == <<presenceClock, locks, discarded, stage, sweep, conns,
                  opened, sessions, busy, shown>>
syncVars == <<revs, live, drafts, poll, lastRev, lastPlan, issue, staged,
              actions, restarts>>
proposeVars == <<main, branch, requests, settled, recorded, call, faults,
                 calls>>
mirrorVars == <<mirrorRow, tc, cs, mirrorUp, due, swept, mirrorClock, changes,
                mirrorCrashes>>

vars == <<service, scheduleVars, reviewVars, presenceVars, syncVars,
          proposeVars, mirrorVars>>

-----------------------------------------------------------------------------
\* A window that opens at once and one that opens later; the confirm timeout is
\* longer than what a late fire leaves of either.
Immediate == [start |-> 0, end |-> 1, timeout |-> 2, policy |-> "applyImmediately"]
Later == [start |-> 1, end |-> 2, timeout |-> 2, policy |-> "skip"]

\* Two goroutines tick, windows open now and later, one crash.
SC == INSTANCE Scheduler WITH
  Changesets <- {"c1"}, Tickers <- {"loop", "rearm"},
  Windows <- {Immediate, Later}, ServiceTimeout <- 3, MinTimeout <- 1,
  MaxTimeout <- 3, MaxTime <- 1, MaxCrashes <- 1, row <- scheduleRow,
  up <- scheduleUp, crashes <- scheduleCrashes

\* Two changesets compete for the single-applier lock, one crash.
SL == INSTANCE Scheduler WITH
  Changesets <- {"c1", "c2"}, Tickers <- {"loop"}, Windows <- {Immediate},
  ServiceTimeout <- 3, MinTimeout <- 1, MaxTimeout <- 3, MaxTime <- 0,
  MaxCrashes <- 1, row <- scheduleRow, up <- scheduleUp,
  crashes <- scheduleCrashes

\* Three people, two sign-offs, one request at a time.
RG == INSTANCE ReviewGates WITH
  Users <- {"ann", "bob", "cyd"}, Approvals <- 2, OneAtATime <- TRUE,
  LoggedFaults <- FALSE, MaxRequests <- 4, Author <- "ann", Approvers <- {},
  AllowSelfApproval <- FALSE, Required <- TRUE, Ops <- {"plain", "guarded"},
  ProtectedOps <- {"guarded"}, FrozenOps <- {"plain"}, SDNOps <- {"guarded"},
  Entries <- {"zone"}, row <- reviewRow

\* Two people whose requests overlap.
RO == INSTANCE ReviewGates WITH
  Users <- {"ann", "bob"}, Approvals <- 1, OneAtATime <- FALSE,
  LoggedFaults <- FALSE, MaxRequests <- 4, Author <- "ann", Approvers <- {},
  AllowSelfApproval <- FALSE, Required <- TRUE, Ops <- {"plain", "guarded"},
  ProtectedOps <- {"guarded"}, FrozenOps <- {"plain"}, SDNOps <- {},
  Entries <- {}, row <- reviewRow

\* An operator on two connections, which end while requests are under way.
PR == INSTANCE Presence WITH
  Sessions <- {"s1"}, Conns <- {"k1", "k2"}, Refs <- {"bridge"},
  Drafts <- {"d1", "d2"}, TTL <- 1, MaxTime <- 1, LastStage <- 0,
  clock <- presenceClock

\* Two operators whose requests overlap, one connection; locks expire and are
\* swept.
PO == INSTANCE Presence WITH
  Sessions <- {"s1", "s2"}, Conns <- {"k1"}, Refs <- {"bridge"},
  Drafts <- {"d1"}, TTL <- 1, MaxTime <- 1, LastStage <- 1,
  clock <- presenceClock

\* Signed commits required, drafts edited by hand, one restart.
GS == INSTANCE GitSync WITH
  Keys <- {"k1", "k2"}, Vals <- {1, 2},
  Human <- {"edit", "apply", "discard", "drift"}, RequireSigned <- TRUE,
  FetchFails <- TRUE, MaxRevs <- 3, MaxDrafts <- 3, MaxHuman <- 1,
  MaxRestarts <- 1

\* Nobody edits the draft that the sync stages.
GU == INSTANCE GitSync WITH
  Keys <- {"k1", "k2"}, Vals <- {1, 2},
  Human <- {"apply", "discard", "drift"}, RequireSigned <- FALSE,
  FetchFails <- TRUE, MaxRevs <- 2, MaxDrafts <- 3, MaxHuman <- 1,
  MaxRestarts <- 1

\* Two changesets proposed, calls to the host that fail or lose their answer.
GP == INSTANCE GitPropose WITH
  Changesets <- {"c1", "c2"}, Others <- {"o1"}, Faults <- {"fail", "lost"},
  CallFaults <- 2, MaxCalls <- 3

\* No call takes effect and loses its answer, and one may fail.
GC == INSTANCE GitPropose WITH
  Changesets <- {"c1", "c2"}, Others <- {"o1"}, Faults <- {"fail"},
  CallFaults <- 1, MaxCalls <- 3

\* Two sessions on two sources, room for one, tc commands that fail.
TM == INSTANCE TcMirror WITH
  Sessions <- <<"a", "b">>, Durations <- {1}, Ceiling <- 2, MaxSessions <- 1,
  Sources <- {"eth0", "eth1"}, Ops <- {"create", "update", "delete", "other"},
  Rollbacks <- TRUE, FreshIds <- FALSE, TcFaults <- TRUE,
  StoreFaults <- FALSE, MaxTime <- 2, MaxChanges <- 3, MaxCrashes <- 0,
  row <- mirrorRow, up <- mirrorUp, clock <- mirrorClock,
  crashes <- mirrorCrashes

\* Two sessions side by side; tc and the store fail, a crash.
TB == INSTANCE TcMirror WITH
  Sessions <- <<"a", "b">>, Durations <- {1}, Ceiling <- 2, MaxSessions <- 2,
  Sources <- {"eth0", "eth1"}, Ops <- {"create", "update", "delete", "other"},
  Rollbacks <- TRUE, FreshIds <- FALSE, TcFaults <- TRUE, StoreFaults <- TRUE,
  MaxTime <- 1, MaxChanges <- 3, MaxCrashes <- 1, row <- mirrorRow,
  up <- mirrorUp, clock <- mirrorClock, crashes <- mirrorCrashes

\* Two sessions, calls of the store that fail, a crash; tc works.
TU == INSTANCE TcMirror WITH
  Sessions <- <<"a", "b">>, Durations <- {1}, Ceiling <- 2, MaxSessions <- 2,
  Sources <- {"eth0", "eth1"}, Ops <- {"create", "update", "delete", "other"},
  Rollbacks <- TRUE, FreshIds <- FALSE, TcFaults <- FALSE,
  StoreFaults <- TRUE, MaxTime <- 1, MaxChanges <- 3, MaxCrashes <- 1,
  row <- mirrorRow, up <- mirrorUp, clock <- mirrorClock,
  crashes <- mirrorCrashes

ASSUME SettingsAreLegal ==
  /\ SC!SettingsAssumption
  /\ SL!SettingsAssumption
  /\ RG!ReviewAssumption
  /\ RO!ReviewAssumption
  /\ PR!PresenceAssumption
  /\ PO!PresenceAssumption
  /\ GS!GitSyncAssumption
  /\ GU!GitSyncAssumption
  /\ GP!GitProposeAssumption
  /\ GC!GitProposeAssumption
  /\ TM!TcMirrorAssumption
  /\ TB!TcMirrorAssumption
  /\ TU!TcMirrorAssumption

-----------------------------------------------------------------------------
\* The services share no state: what one does, the others do not see.
ScheduleOnly == UNCHANGED <<service, reviewVars, presenceVars, syncVars,
                            proposeVars, mirrorVars>>
ReviewOnly == UNCHANGED <<service, scheduleVars, presenceVars, syncVars,
                          proposeVars, mirrorVars>>
PresenceOnly == UNCHANGED <<service, scheduleVars, reviewVars, syncVars,
                            proposeVars, mirrorVars>>
SyncOnly == UNCHANGED <<service, scheduleVars, reviewVars, presenceVars,
                        proposeVars, mirrorVars>>
ProposeOnly == UNCHANGED <<service, scheduleVars, reviewVars, presenceVars,
                           syncVars, mirrorVars>>
MirrorOnly == UNCHANGED <<service, scheduleVars, reviewVars, presenceVars,
                          syncVars, proposeVars>>

Init ==
  /\ service \in {"schedule", "lock", "review", "overlap", "presence", "staging",
                  "gitsync", "unedited", "propose", "clean", "mirror", "failing", "undo"}
  /\ IF service = "lock" THEN SL!Init ELSE SC!Init
  /\ IF service = "overlap" THEN RO!Init ELSE RG!Init
  /\ service \notin {"review", "overlap"} => reviewRow.ops = {"plain"} /\ foreign = {}
  /\ IF service = "staging" THEN PO!Init ELSE PR!Init
  /\ GS!Init
  /\ service \notin {"gitsync", "unedited"} => live = [k \in {"k1", "k2"} |-> 1]
  /\ GP!Init
  /\ IF service \in {"undo", "failing"} THEN TU!Init ELSE TM!Init

Next ==
  \/ service = "schedule" /\ SC!Next /\ ScheduleOnly
  \/ service = "lock" /\ SL!Next /\ ScheduleOnly
  \/ service = "review" /\ RG!Next /\ ReviewOnly
  \/ service = "overlap" /\ RO!Next /\ ReviewOnly
  \/ service = "presence" /\ PR!Next /\ PresenceOnly
  \/ service = "staging" /\ PO!Next /\ PresenceOnly
  \/ service = "gitsync" /\ GS!Next /\ SyncOnly
  \/ service = "unedited" /\ GU!Next /\ SyncOnly
  \/ service = "propose" /\ GP!Next /\ ProposeOnly
  \/ service = "clean" /\ GC!Next /\ ProposeOnly
  \/ service = "mirror" /\ TM!Next /\ MirrorOnly
  \/ service = "failing" /\ TB!Next /\ MirrorOnly
  \/ service = "undo" /\ TU!Next /\ MirrorOnly

Spec == Init /\ [][Next]_vars

-----------------------------------------------------------------------------
\* Every part of the state has its type, whatever service runs.
TypeOK ==
  /\ service = "schedule" => SC!TypeOK
  /\ service = "lock" => SL!TypeOK
  /\ service = "review" => RG!TypeOK
  /\ service = "overlap" => RO!TypeOK
  /\ service = "presence" => PR!TypeOK
  /\ service = "staging" => PO!TypeOK
  /\ service = "gitsync" => GS!TypeOK
  /\ service = "unedited" => GU!TypeOK
  /\ service = "propose" => GP!TypeOK
  /\ service = "clean" => GC!TypeOK
  /\ service = "mirror" => TM!TypeOK
  /\ service = "failing" => TB!TypeOK
  /\ service = "undo" => TU!TypeOK

\* schedule.go: a row that says fired stands for an apply the schedule made,
\* also when two goroutines tick or the daemon dies in between.
FiredIsApplied ==
  /\ service = "schedule" => SC!FiredIsApplied
  /\ service = "lock" => SL!FiredIsApplied

\* review.go, twoperson.go, freeze_override.go: with requests one at a time,
\* what was applied is what an approver looked at, and every sign-off that let a
\* protected op through was for it; between requests an approval is of the ops in
\* the row and no comment hangs on an op that is gone. An override lets through
\* the ops it was given for, also when the requests of two people overlap.
AppliedWasSanctioned ==
  /\ service = "review" => RG!AppliedWasSanctioned
  /\ service = "overlap" => RO!AppliedWasSanctioned

\* gitsync/service.go: the sync keeps one open draft, whatever people and
\* restarts do to it, and what a draft nobody edited asks for stood in a commit
\* that was parsed and, where required, signed.
DraftFollowsRef ==
  /\ service = "gitsync" => GS!DraftFollowsRef
  /\ service = "unedited" => GU!DraftFollowsRef

\* gitsync/propose.go: a changeset has one open request at most, however often
\* it is proposed and whichever calls fail or lose their answer; between
\* proposals branch and request both exist or neither does, except what
\* reviewers settled.
ProposalIsWhole ==
  /\ service = "propose" => GP!ProposalIsWhole
  /\ service = "clean" => GC!ProposalIsWhole

\* cmd/vnproxd/tcmirror.go, validate_safety.go: whatever fails or dies, no more
\* sessions are active than the limit allows and no two on one source; and with a
\* store that works and no crash, what a row calls active is mirrored while no
\* apply is under way, unless an ended session has the same source, whose delete
\* takes the mirror away.
MirrorsMatchRows ==
  /\ service = "mirror" => TM!MirrorsMatchRows
  /\ service = "failing" => TB!MirrorsMatchRows
  /\ service = "undo" => TU!MirrorsMatchRows

\* presence/locks.go, gitsync/propose.go, tcmirror.go: taking over, sweeping,
\* giving up and undoing take nothing that somebody else still holds. Nobody's
\* lock passes to another operator unless the answer to that operator names
\* whose it was, or it was taken after that operator's request had read it; the
\* sweep frees no lock renewed after it read the clock; giving
\* up a proposal leaves a branch under review alone; undoing one session's change
\* touches no other session.
CleanupKeepsOthers ==
  [][/\ service = "presence" => PR!SweepKeepsHeld
     /\ service = "staging" => PO!NoSilentTakeover /\ PO!SweepKeepsHeld
     /\ service = "propose" => GP!ReviewSurvives
     /\ service = "mirror" => TM!Bystanders
     /\ service = "failing" => TB!Bystanders
     /\ service = "undo" => TU!Bystanders]_vars

\* schedule.go, twoperson.go, gitsync/service.go, tcmirror.go: a step that
\* settles something has settled it. A schedule is resolved once; a sign-off
\* whose owner rejected since does not count; a cycle that goes through with a
\* revision leaves its plan in the draft; a create whose undo got past its first
\* half has no active session left and, when tc works, mirrors nothing, however
\* the second half ends.
OutcomesHold ==
  [][/\ service = "schedule" => SC!ResolvedOnce
     /\ service = "lock" => SL!ResolvedOnce
     /\ service = "review" => RG!RetractedNotCounted
     /\ service = "unedited" => GU!PlanIsStaged
     /\ service = "mirror" => TM!CreateUndone
     /\ service = "failing" => TB!CreateUndone
     /\ service = "undo" => TU!CreateUndone]_vars
=============================================================================
