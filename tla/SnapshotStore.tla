---------------------------- MODULE SnapshotStore ----------------------------
(***************************************************************************)
(* Snapshots, their content-addressed blobs and retention                  *)
(* (change/apply_snapshot.go, snapshots_scheduled.go, snapshots_service.go,*)
(* store/snapshots.go, store/blobs.go, store/retention.go). A capture puts *)
(* a blob, inserts the snapshot row and then the reference that keeps the  *)
(* blob alive, in separate statements, beside a retention pass that        *)
(* deletes old snapshots and then every unreferenced blob. The database    *)
(* checks the reference's foreign key. Time is in days.                    *)
(***************************************************************************)
EXTENDS Naturals, FiniteSets

CONSTANTS
    Changesets,
    Contents,    \* what a node's file may hold
    None,
    KeepDays,    \* retention of snapshots
    PinDays,     \* SnapshotPinDays, also the manual rollback window
    KeepNewest,  \* scheduled snapshots kept
    Capturers,   \* who takes snapshots beside the applies: "manual", "scheduled"
    FlightDays,  \* how long a changeset stays applying, or awaiting confirmation
    MaxTime,     \* bound on the clock
    MaxSnaps     \* bound on the snapshots taken

RetentionAssumption ==
    /\ KeepDays \in Nat \ {0} /\ PinDays \in Nat \ {0} /\ KeepNewest \in Nat \ {0}
    /\ FlightDays \in Nat /\ Capturers \subseteq {"manual", "scheduled"}
    /\ MaxTime \in Nat /\ MaxSnaps \in Nat
    /\ None \notin Changesets \cup Contents

VARIABLES
    now,
    live,     \* the content of the captured file
    status,   \* the changesets' statuses
    at,       \* their updated_at
    blobs,    \* the blobs table
    snaps,    \* the snapshots table
    refs,     \* the snapshots that have their snapshot_files rows
    writer,   \* the captures under way: of an apply, a person, the schedule
    prune,    \* whether a retention pass has yet to delete orphaned blobs
    count     \* ids given out

vars == <<now, live, status, at, blobs, snaps, refs, writer, prune, count>>

Writers == {"apply", "post"} \cup Capturers
IdleWriter == [pc |-> "idle", cs |-> None, content |-> None, id |-> 0]

TypeOK ==
    /\ now \in 0..MaxTime
    /\ live \in Contents
    /\ status \in [Changesets -> {"draft", "applying", "awaiting_confirm", "committed",
                                  "rolled_back", "failed"}]
    /\ at \in [Changesets -> 0..MaxTime]
    /\ blobs \subseteq Contents
    /\ snaps \subseteq [id : 1..MaxSnaps, cs : Changesets \cup {None}, kind : {"pre", "post", "manual", "scheduled"},
                        taken : 0..MaxTime, content : Contents]
    /\ refs \subseteq {s.id : s \in snaps}
    /\ \A w \in Writers : writer[w].pc \in {"idle", "put", "row", "refs", "done"}
    /\ prune \in BOOLEAN
    /\ count \in 0..MaxSnaps

Init ==
    /\ now = 0
    /\ live \in Contents
    /\ status = [c \in Changesets |-> "draft"]
    /\ at = [c \in Changesets |-> 0]
    /\ blobs = {} /\ snaps = {} /\ refs = {}
    /\ writer = [w \in Writers |-> IdleWriter]
    /\ prune = FALSE
    /\ count = 0

-----------------------------------------------------------------------------
(* captureSnapshot and persistSnapshot, statement by statement. *)

Kind(w) == IF w = "apply" THEN "pre" ELSE w

\* An apply takes the single-applier lock and its row says applying.
BeginApply(c) ==
    /\ status[c] = "draft"
    /\ \A d \in Changesets : status[d] \notin {"applying", "awaiting_confirm"}
    /\ status' = [status EXCEPT ![c] = "applying"]
    /\ at' = [at EXCEPT ![c] = now]
    /\ writer' = [writer EXCEPT !["apply"] = [IdleWriter EXCEPT !.pc = "put", !.cs = c]]
    /\ UNCHANGED <<now, live, blobs, snaps, refs, prune, count>>

BeginCapture(w) ==
    /\ w \in Capturers /\ writer[w].pc = "idle"
    /\ writer' = [writer EXCEPT ![w].pc = "put"]
    /\ UNCHANGED <<now, live, status, at, blobs, snaps, refs, prune, count>>

\* ReadInterfaces and Put: INSERT OR IGNORE by content.
Put(w) ==
    /\ writer[w].pc = "put"
    /\ blobs' = blobs \cup {live}
    /\ writer' = [writer EXCEPT ![w].pc = "row", ![w].content = live]
    /\ UNCHANGED <<now, live, status, at, snaps, refs, prune, count>>

\* The newest snapshot of a set.
Newest(set) == CHOOSE s \in set : \A t \in set : t.id <= s.id

Scheduled == {s \in snaps : s.kind = "scheduled"}

\* matchesLatestScheduled.
Unchanged(w) ==
    w = "scheduled" /\ Scheduled # {} /\ Newest(Scheduled).content = writer[w].content

InsertRow(w) ==
    /\ writer[w].pc = "row"
    /\ ~Unchanged(w)
    /\ count < MaxSnaps
    /\ count' = count + 1
    /\ snaps' = snaps \cup {[id |-> count + 1, cs |-> writer[w].cs, kind |-> Kind(w),
                             taken |-> now, content |-> writer[w].content]}
    /\ writer' = [writer EXCEPT ![w].pc = "refs", ![w].id = count + 1]
    /\ UNCHANGED <<now, live, status, at, blobs, refs, prune>>

\* An unchanged cluster records nothing.
SkipRow(w) ==
    /\ writer[w].pc = "row" /\ Unchanged(w)
    /\ writer' = [writer EXCEPT ![w] = IdleWriter]
    /\ UNCHANGED <<now, live, status, at, blobs, snaps, refs, prune, count>>

\* Mutant: no foreign key on snapshot_files.sha256.
MutReferable(w) == TRUE

\* The foreign keys of a snapshot_files row: the blob and the snapshot exist.
Referable(w) ==
    /\ writer[w].content \in blobs
    /\ \E s \in snaps : s.id = writer[w].id

InsertFiles(w) ==
    /\ writer[w].pc = "refs" /\ Referable(w)
    /\ refs' = refs \cup {writer[w].id}
    /\ writer' = [writer EXCEPT ![w].pc = "done"]
    /\ UNCHANGED <<now, live, status, at, blobs, snaps, prune, count>>

\* Any statement may fail; the rows already inserted stay. An apply fails
\* with its capture, the others only report it.
CaptureFails(w) ==
    /\ writer[w].pc \in {"put", "row", "refs"}
    /\ writer' = [writer EXCEPT ![w] = IdleWriter]
    /\ status' = IF w = "apply" THEN [status EXCEPT ![writer[w].cs] = "failed"] ELSE status
    /\ at' = IF w = "apply" THEN [at EXCEPT ![writer[w].cs] = now] ELSE at
    /\ UNCHANGED <<now, live, blobs, snaps, refs, prune, count>>

\* The scheduled capture prunes to the newest ones, and leaves the blobs.
Captured(w) ==
    LET kept == {s \in Scheduled : Cardinality({t \in Scheduled : t.id > s.id}) < KeepNewest}
        left == IF w = "scheduled" THEN (snaps \ Scheduled) \cup kept ELSE snaps
    IN
    /\ w # "apply" /\ writer[w].pc = "done"
    /\ snaps' = left
    /\ refs' = refs \cap {s.id : s \in left}
    /\ writer' = [writer EXCEPT ![w] = IdleWriter]
    /\ UNCHANGED <<now, live, status, at, blobs, prune, count>>

-----------------------------------------------------------------------------
(* The life of a changeset around its snapshots. *)

CapturedPre(c) == writer["apply"].pc = "done" /\ writer["apply"].cs = c

\* The plan runs and the window opens.
Execute(c) ==
    /\ status[c] = "applying" /\ CapturedPre(c)
    /\ \E content \in Contents : live' = content
    /\ status' = [status EXCEPT ![c] = "awaiting_confirm"]
    /\ at' = [at EXCEPT ![c] = now]
    /\ writer' = [writer EXCEPT !["apply"] = IdleWriter]
    /\ UNCHANGED <<now, blobs, snaps, refs, prune, count>>

\* Confirm commits, and captures the result.
Confirm(c) ==
    /\ status[c] = "awaiting_confirm" /\ writer["post"].pc = "idle"
    /\ status' = [status EXCEPT ![c] = "committed"]
    /\ at' = [at EXCEPT ![c] = now]
    /\ writer' = [writer EXCEPT !["post"] = [IdleWriter EXCEPT !.pc = "put", !.cs = c]]
    /\ UNCHANGED <<now, live, blobs, snaps, refs, prune, count>>

\* loadPreSnapshot and hydrateFiles: the newest "pre" row and its blob.
PreSnaps(c) == {s \in snaps : s.cs = c /\ s.kind = "pre"}
Loadable(c) == PreSnaps(c) # {} /\ Newest(PreSnaps(c)).content \in blobs

Rollback(c) ==
    /\ status[c] = "awaiting_confirm" /\ Loadable(c)
    /\ live' = Newest(PreSnaps(c)).content
    /\ status' = [status EXCEPT ![c] = "rolled_back"]
    /\ at' = [at EXCEPT ![c] = now]
    /\ UNCHANGED <<now, blobs, snaps, refs, writer, prune, count>>

\* Somebody edits the file.
Edit ==
    /\ \E content \in Contents \ {live} : live' = content
    /\ UNCHANGED <<now, status, at, blobs, snaps, refs, writer, prune, count>>

-----------------------------------------------------------------------------
(* SnapshotRetention. *)

\* A snapshot of a changeset in flight, or committed and young enough.
Pinned(s) ==
    /\ s.cs # None
    /\ \/ status[s.cs] \in {"applying", "awaiting_confirm"}
       \/ status[s.cs] = "committed" /\ s.taken + PinDays >= now

Expired(s) == s.taken + KeepDays < now /\ ~Pinned(s)

\* Prune, one transaction.
Prune ==
    /\ ~prune
    /\ snaps' = {s \in snaps : ~Expired(s)}
    /\ refs' = refs \cap {s.id : s \in snaps'}
    /\ prune' = TRUE
    /\ UNCHANGED <<now, live, status, at, blobs, writer, count>>

\* Mutant: the references of a closed changeset do not count.
MutReferenced ==
    {s.content : s \in {t \in snaps :
        t.id \in refs /\ (t.cs # None => status[t.cs] \in {"applying", "awaiting_confirm"})}}

Referenced == {s.content : s \in {t \in snaps : t.id \in refs}}

\* Mutant: a blob any snapshot row names is kept.
MutPruneOrphans ==
    /\ prune
    /\ blobs' = blobs \cap {s.content : s \in snaps}
    /\ prune' = FALSE
    /\ UNCHANGED <<now, live, status, at, snaps, refs, writer, count>>

\* PruneOrphans, one statement.
PruneOrphans ==
    /\ prune
    /\ blobs' = blobs \cap Referenced
    /\ prune' = FALSE
    /\ UNCHANGED <<now, live, status, at, snaps, refs, writer, count>>

Advance ==
    /\ now < MaxTime
    /\ \A c \in Changesets : status[c] \in {"applying", "awaiting_confirm"} => now < at[c] + FlightDays
    /\ now' = now + 1
    /\ UNCHANGED <<live, status, at, blobs, snaps, refs, writer, prune, count>>

CaptureStep(w) == Put(w) \/ InsertRow(w) \/ SkipRow(w) \/ InsertFiles(w) \/ CaptureFails(w) \/ Captured(w)

Next ==
    \/ \E c \in Changesets : BeginApply(c) \/ Execute(c) \/ Confirm(c) \/ Rollback(c)
    \/ \E w \in Writers : BeginCapture(w) \/ CaptureStep(w)
    \/ Edit \/ Prune \/ PruneOrphans \/ Advance

Spec == Init /\ [][Next]_vars

-----------------------------------------------------------------------------

\* Whatever retention deletes between the statements of a capture, a change
\* that may still be rolled back can be: its window never opens without the
\* blob its restore needs, and the blob stays as long as the window.
InFlightRestorable ==
    \A c \in Changesets : status[c] = "awaiting_confirm" => Loadable(c)

\* The offer to roll a committed changeset back is kept: as long as it
\* stands, the snapshot and its blob are there.
OfferIsKept ==
    \A c \in Changesets :
        status[c] = "committed" /\ now <= at[c] + PinDays => Loadable(c)

\* Both; the second when a snapshot is kept for longer than a changeset may be
\* in flight, applying and then awaiting its confirmation, and still be offered.
UndoIsKept ==
    /\ InFlightRestorable
    /\ FlightDays + FlightDays + PinDays <= KeepDays => OfferIsKept

\* Retention reclaims space: a blob no snapshot refers to is deleted in the
\* end, unless a snapshot comes to refer to it.
OrphansReclaimed ==
    \A b \in Contents : []<>(b \in blobs => b \in Referenced)

-----------------------------------------------------------------------------
(* A claim of a comment that the code does not keep. *)

\* "Skipping a capture because we could not read the previous one would turn a
\* transient store hiccup into a hole in the history"
\* (snapshots_scheduled.go). A capture whose references could not be inserted
\* leaves its row, which the next captures match and skip, while retention
\* deletes the blob.
NoHoleInHistory ==
    [][\A w \in Writers \cap {"scheduled"} :
           writer[w].pc = "row" /\ writer'[w].pc = "idle" /\ Unchanged(w) =>
               Newest(Scheduled).id \in refs \/ Newest(Scheduled).content \in blobs']_vars
=============================================================================
