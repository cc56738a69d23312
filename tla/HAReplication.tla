---------------------------- MODULE HAReplication ----------------------------
(***************************************************************************)
(* What the active daemon replicates to its standby (ha/replicate.go, the  *)
(* Upsert methods of the store): a pass reads the tables one after the     *)
(* other while clients go on writing, and the standby writes what it was   *)
(* sent table by table. Either half may stop anywhere; the next pass       *)
(* starts over. The standby is a daemon of its own: it serves logins and   *)
(* runs retention. When the active dies the standby leads with its copy.   *)
(***************************************************************************)
EXTENDS Naturals, FiniteSets

CONSTANTS
    Tables,          \* what clients write: "changeset", "schedule", "token", "audit"
    StandbyPrunes,   \* whether the standby's retention deletes orphaned blobs
    MaxAudit         \* bound on the audit entries of a daemon

ReplicationAssumption ==
    /\ Tables \subseteq {"changeset", "schedule", "token", "audit"}
    /\ StandbyPrunes \in BOOLEAN /\ MaxAudit \in Nat

VARIABLES
    active,    \* the active's store
    standby,   \* the standby's store
    pass,      \* the replication pass: its step, its batch
    cursor,    \* auditCursor: the standby's highest audit id, as last answered
    complete,  \* whether the last pass was applied to the end
    fresh,     \* whether clients left the active alone since that pass began
    leader     \* who leads

vars == <<active, standby, pass, cursor, complete, fresh, leader>>

\* One changeset with its canary hold, pre-apply snapshot row, file references
\* and blob; its schedule; one API token; the audit log.
Store == [cs : {"draft", "applying", "awaiting_confirm", "committed", "rolled_back", "failed"},
          hold : BOOLEAN, snap : BOOLEAN, refs : BOOLEAN, blob : BOOLEAN,
          sched : {"none", "pending", "fired", "cancelled"},
          token : {"none", "expiring", "eternal", "revoked"},
          audit : SUBSET ((1..(2 * MaxAudit)) \X {"active", "standby"})]

EmptyStore == [cs |-> "draft", hold |-> FALSE, snap |-> FALSE, refs |-> FALSE, blob |-> FALSE,
               sched |-> "none", token |-> "none", audit |-> {}]

Idle == [pc |-> "idle", batch |-> EmptyStore]

GatherSteps == {"changesets", "rows", "snapshots"}
ApplySteps == {"apply changesets", "apply blobs", "apply snapshot", "apply files", "apply rows", "apply audit"}

TypeOK ==
    /\ active \in Store /\ standby \in Store
    /\ pass \in [pc : {"idle"} \cup GatherSteps \cup ApplySteps, batch : Store]
    /\ cursor \in 0..(2 * MaxAudit)
    /\ complete \in BOOLEAN /\ fresh \in BOOLEAN
    /\ leader \in {"active", "standby"}

Init ==
    /\ active = EmptyStore /\ standby = EmptyStore
    /\ pass = Idle
    /\ cursor = 0
    /\ complete = FALSE /\ fresh = FALSE
    /\ leader = "active"

InFlight(cs) == cs \in {"applying", "awaiting_confirm", "committed"}

MaxId(log) == IF log = {} THEN 0 ELSE CHOOSE i \in {e[1] : e \in log} : \A e \in log : e[1] <= i

Appended(log, who) == log \cup {<<MaxId(log) + 1, who>>}

-----------------------------------------------------------------------------
(* The daemons' own writes. *)

Write(store) ==
    /\ leader = "active"
    /\ active' = store
    /\ fresh' = FALSE
    /\ UNCHANGED <<standby, pass, cursor, complete, leader>>

\* The apply's steps on the store: its row, its snapshot, a canary hold, the
\* window and its end.
ChangesetStep ==
    /\ "changeset" \in Tables
    /\ \/ active.cs = "draft" /\ Write([active EXCEPT !.cs = "applying"])
       \/ /\ active.cs = "applying" /\ ~active.snap
          /\ Write([active EXCEPT !.snap = TRUE, !.refs = TRUE, !.blob = TRUE])
       \/ /\ active.cs = "applying" /\ active.snap /\ ~active.hold
          /\ Write([active EXCEPT !.hold = TRUE])
       \/ /\ active.cs = "applying" /\ active.snap
          /\ Write([active EXCEPT !.cs = "awaiting_confirm", !.hold = FALSE])
       \/ /\ active.cs = "awaiting_confirm"
          /\ \E end \in {"committed", "rolled_back"} : Write([active EXCEPT !.cs = end])

ScheduleStep ==
    /\ "schedule" \in Tables
    /\ \/ active.sched \in {"none", "cancelled"} /\ Write([active EXCEPT !.sched = "pending"])
       \/ /\ active.sched = "pending"
          /\ \E end \in {"fired", "cancelled"} : Write([active EXCEPT !.sched = end])

TokenStep ==
    /\ "token" \in Tables
    /\ \/ /\ active.token = "none"
          /\ \E kind \in {"expiring", "eternal"} : Write([active EXCEPT !.token = kind])
       \/ active.token \in {"expiring", "eternal"} /\ Write([active EXCEPT !.token = "revoked"])

AuditStep ==
    /\ "audit" \in Tables /\ MaxId(active.audit) < MaxAudit
    /\ Write([active EXCEPT !.audit = Appended(active.audit, "active")])

\* A login at the standby.
StandbyAudit ==
    /\ "audit" \in Tables /\ leader = "active" /\ MaxId(standby.audit) < MaxAudit
    /\ standby' = [standby EXCEPT !.audit = Appended(standby.audit, "standby")]
    /\ UNCHANGED <<active, pass, cursor, complete, fresh, leader>>

\* PruneOrphans on the standby.
StandbyPrune ==
    /\ StandbyPrunes /\ standby.blob /\ ~standby.refs
    /\ standby' = [standby EXCEPT !.blob = FALSE]
    /\ UNCHANGED <<active, pass, cursor, complete, fresh, leader>>

-----------------------------------------------------------------------------
(* Gather: the changesets, then the schedules and tokens, then the snapshots *)
(* of the changesets read first, then the audit entries past the cursor.     *)

GatherChangesets ==
    /\ leader = "active" /\ pass.pc = "idle"
    /\ pass' = [pc |-> "rows", batch |-> [EmptyStore EXCEPT !.cs = active.cs]]
    /\ complete' = FALSE /\ fresh' = TRUE
    /\ UNCHANGED <<active, standby, cursor, leader>>

GatherRows ==
    /\ leader = "active" /\ pass.pc = "rows"
    /\ pass' = [pass EXCEPT !.pc = "snapshots",
                            !.batch.sched = IF active.sched = "pending" THEN "pending" ELSE "none",
                            !.batch.token = active.token]
    /\ UNCHANGED <<active, standby, cursor, complete, fresh, leader>>

\* Mutant: a window that is open needs no snapshot.
MutNeedsSnapshot(cs) == cs \in {"applying", "committed"}

NeedsSnapshot(cs) == InFlight(cs)

GatherSnapshots ==
    LET carried == NeedsSnapshot(pass.batch.cs) /\ active.snap IN
    /\ leader = "active" /\ pass.pc = "snapshots"
    /\ pass' = [pass EXCEPT !.pc = "apply changesets",
                            !.batch.snap = carried, !.batch.refs = carried, !.batch.blob = carried,
                            !.batch.audit = {e \in active.audit : e[1] > cursor}]
    /\ UNCHANGED <<active, standby, cursor, complete, fresh, leader>>

-----------------------------------------------------------------------------
(* Apply on the standby, in the order of the foreign keys. *)

ApplyStep(from, to, store) ==
    /\ leader = "active" /\ pass.pc = from
    /\ standby' = store
    /\ pass' = [pass EXCEPT !.pc = to]
    /\ UNCHANGED <<active, cursor, complete, fresh, leader>>

\* Mutant: a changeset the standby has already is not overwritten.
MutApplyChangesets == ApplyStep("apply changesets", "apply blobs", standby)

ApplyChangesets ==
    ApplyStep("apply changesets", "apply blobs", [standby EXCEPT !.cs = pass.batch.cs])

ApplyBlobs ==
    ApplyStep("apply blobs", "apply snapshot", [standby EXCEPT !.blob = @ \/ pass.batch.blob])

\* applySnapshot: a row that is there already is taken as complete.
ApplySnapshot ==
    LET there == standby.snap \/ ~pass.batch.snap IN
    ApplyStep("apply snapshot", IF there THEN "apply rows" ELSE "apply files",
              [standby EXCEPT !.snap = @ \/ pass.batch.snap])

\* InsertFiles, whose foreign key wants the blob.
ApplyFiles ==
    /\ standby.blob
    /\ ApplyStep("apply files", "apply rows", [standby EXCEPT !.refs = TRUE])

\* Schedules and tokens. The token's upsert has no expires_at.
ApplyRows ==
    LET token == IF pass.batch.token = "expiring" THEN "eternal" ELSE pass.batch.token
    IN  ApplyStep("apply rows", "apply audit",
                  [standby EXCEPT !.sched = IF pass.batch.sched = "pending" THEN "pending" ELSE @,
                                  !.token = IF pass.batch.token = "none" THEN @ ELSE token])

\* UpsertReplicated, by id; then the answer with the highest id.
ApplyAudit ==
    LET log == standby.audit \cup
                   {e \in pass.batch.audit : \A f \in standby.audit : f[1] # e[1]}
    IN
    /\ leader = "active" /\ pass.pc = "apply audit"
    /\ standby' = [standby EXCEPT !.audit = log]
    /\ cursor' = MaxId(log)
    /\ complete' = TRUE
    /\ pass' = Idle
    /\ UNCHANGED <<active, fresh, leader>>

\* A read or a write fails, or the connection does.
PassFails ==
    /\ pass.pc # "idle"
    /\ pass' = Idle
    /\ UNCHANGED <<active, standby, cursor, complete, fresh, leader>>

-----------------------------------------------------------------------------
(* Failover. *)

\* The active is dead: what the standby has is what there is. Its re-arm
\* takes an applying changeset without a hold for an interrupted apply.
Promote ==
    /\ leader = "active"
    /\ leader' = "standby"
    /\ pass' = Idle
    /\ standby' = IF standby.cs = "applying" /\ ~standby.hold
                  THEN [standby EXCEPT !.cs = "failed"] ELSE standby
    /\ UNCHANGED <<active, cursor, complete, fresh>>

Next ==
    \/ ChangesetStep \/ ScheduleStep \/ TokenStep \/ AuditStep
    \/ StandbyAudit \/ StandbyPrune
    \/ GatherChangesets \/ GatherRows \/ GatherSnapshots
    \/ ApplyChangesets \/ ApplyBlobs \/ ApplySnapshot \/ ApplyFiles \/ ApplyRows \/ ApplyAudit
    \/ PassFails \/ Promote

Spec == Init /\ [][Next]_vars

-----------------------------------------------------------------------------

Restorable(store) == store.snap /\ store.blob

\* Whatever clients wrote while the pass was reading and however many passes
\* stopped halfway before: once one is applied to its end the standby has the
\* snapshot of every window it knows of, and what the undo restores, unless its
\* own retention took that for an orphan, which it does only where a pass
\* stopped between the snapshot and its references.
CompletePassRestorable ==
    complete /\ standby.cs = "awaiting_confirm" =>
        standby.snap /\ (standby.refs \/ ~StandbyPrunes => Restorable(standby))

\* A complete pass over a store nobody wrote to leaves the standby with the
\* active's changesets and tokens, revocations included.
CompletePassMirrors ==
    complete /\ fresh /\ leader = "active" =>
        /\ standby.cs = active.cs
        /\ active.token \in {"eternal", "revoked"} => standby.token = active.token
        /\ active.sched = "pending" => standby.sched = "pending"

\* The two together.
StandbyCanTakeOver == CompletePassMirrors /\ CompletePassRestorable

-----------------------------------------------------------------------------
(* Claims of the documents and comments that the code does not keep. *)

\* "a standby that promotes must be able to complete an in-flight changeset's
\* rollback from the byte-exact pre-apply files" (replicate.go). A pass that
\* stops between the changesets and their snapshots leaves a window without.
PromotedCanRollBack ==
    leader = "standby" /\ standby.cs = "awaiting_confirm" => Restorable(standby)

\* "Snapshots are immutable, so an already-present id is left untouched"
\* (replicate.go). A row whose references could not be inserted is taken as
\* present by every later pass, and retention deletes its blob.
ReplicatedSnapshotIsWhole ==
    complete /\ standby.cs = "awaiting_confirm" /\ standby.snap => standby.blob

\* "On promotion the new active re-arms every timer from the persisted
\* deadline" (ha.go) of the schedules replicated to it. Only pending schedules
\* are sent, so one that was fired or cancelled stays pending on the standby.
ResolvedScheduleIsNotPending ==
    complete /\ fresh /\ standby.sched = "pending" => active.sched = "pending"

\* "fully overwrites the existing row with the same id ... verbatim"
\* (apitokens.go). The upsert leaves the expiry out.
TokenExpiryReplicates ==
    complete /\ fresh /\ active.token = "expiring" => standby.token = "expiring"

\* "the standby's copy therefore converges to the active's" (audit.go). Ids
\* the standby gave to its own entries hide the active's entries.
AuditReplicates ==
    complete /\ fresh => {e \in active.audit : e[2] = "active"} \subseteq standby.audit

\* "the promoted one re-arms them from the store via ReArm" (cmd/vnproxd/ha.go)
\* of canary holds. The rows that record a hold are not replicated.
HoldSurvivesFailover ==
    complete /\ fresh /\ leader = "standby" /\ active.hold => standby.cs = "applying"
=============================================================================
