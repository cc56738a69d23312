--------------------------- MODULE SnapshotProofs ---------------------------
(***************************************************************************)
(* A changeset that awaits its confirmation can be rolled back, whatever   *)
(* retention deletes between the statements of its capture: for any number *)
(* of changesets, contents and capturers, and for any retention period.    *)
(* Then the offer to undo a committed changeset, and the types of the      *)
(* tables with their foreign key.                                          *)
(***************************************************************************)
EXTENDS SnapshotStore, TLAPS

Statuses == {"draft", "applying", "awaiting_confirm", "committed", "rolled_back", "failed"}

Files == Contents \cup {None}

\* Ids are given out once, in order.
Rows ==
  /\ count \in Nat
  /\ \A s \in snaps : s.id \in Nat /\ s.id <= count /\ s.content \in Files
  /\ \A i \in refs : i \in Nat /\ i <= count

WriterTypes ==
  /\ live \in Files
  /\ writer \in [Writers -> [pc : {"idle", "put", "row", "refs", "done"},
                             cs : Changesets \cup {None}, content : Files, id : Nat]]

\* A capture that has inserted its row refers to that row and no other.
OwnRow ==
  \A w \in Writers :
    /\ writer[w].id <= count
    /\ writer[w].pc \in {"refs", "done"} =>
         \A s \in snaps : s.id = writer[w].id =>
           /\ s.content = writer[w].content
           /\ w = "apply" => s.kind = "pre" /\ s.cs = writer[w].cs

\* A reference keeps its blob.
BlobKept == \A s \in snaps : s.id \in refs => s.content \in blobs

\* A changeset is captured once before its change.
OnePre ==
  /\ \A s, t \in snaps : s.kind = "pre" /\ t.kind = "pre" /\ s.cs = t.cs => s = t
  /\ \A s \in snaps : s.kind = "pre" => s.cs \in Changesets /\ status[s.cs] # "draft"
  /\ writer["apply"].pc \in {"put", "row"} =>
       \A s \in snaps : s.kind = "pre" => s.cs # writer["apply"].cs

\* The capture of an apply belongs to a changeset that is applying.
ApplyOwned ==
  /\ status \in [Changesets -> Statuses]
  /\ writer["apply"].pc # "idle" =>
       writer["apply"].cs \in Changesets /\ status[writer["apply"].cs] = "applying"

HasPre(c) == \E s \in snaps : s.id \in refs /\ s.kind = "pre" /\ s.cs = c

\* From the end of its capture to the end of its window a changeset has its
\* snapshot, with the reference that keeps the blob.
PreStays ==
  /\ writer["apply"].pc = "done" => HasPre(writer["apply"].cs)
  /\ \A c \in Changesets : status[c] = "awaiting_confirm" => HasPre(c)

\* The inductive invariant.
RestorableInv == Rows /\ WriterTypes /\ OwnRow /\ BlobKept /\ OnePre /\ ApplyOwned /\ PreStays

\* "apply" is a writer and no capturer beside the applies has its name.
LEMMA Names ==
  ASSUME RetentionAssumption
  PROVE  /\ "apply" \in Writers /\ "post" \in Writers /\ "apply" \notin Capturers
         /\ \A w \in Writers : w # "apply" => Kind(w) # "pre"
  BY DEF RetentionAssumption, Writers, Kind

\* The newest of the rows of one changeset is its one row, whose blob is kept.
LEMMA NewestIsKept ==
  ASSUME RestorableInv, NEW c \in Changesets, status[c] = "awaiting_confirm"
  PROVE  Loadable(c) /\ Newest(PreSnaps(c)) \in snaps
<1>1. PICK s \in snaps : s.id \in refs /\ s.kind = "pre" /\ s.cs = c
  BY DEF RestorableInv, PreStays, HasPre
<1>2. s \in PreSnaps(c) /\ \A t \in PreSnaps(c) : t = s
  BY <1>1 DEF PreSnaps, RestorableInv, OnePre
<1>3. s.id \in Nat /\ s.content \in blobs
  BY <1>1 DEF RestorableInv, Rows, BlobKept
<1>4. \E x \in PreSnaps(c) : \A t \in PreSnaps(c) : t.id <= x.id
  BY <1>2, <1>3
<1>5. Newest(PreSnaps(c)) \in PreSnaps(c)
  BY <1>4 DEF Newest
<1> QED
  BY <1>2, <1>3, <1>5 DEF Loadable, PreSnaps

\* Both retention passes and the schedule's own pruning only take rows away,
\* and none that a changeset in flight was captured in.
LEMMA ShrinkKeeps ==
  ASSUME RestorableInv, snaps' \subseteq snaps, refs' = refs \cap {s.id : s \in snaps'},
         \A s \in snaps : s.kind = "pre" /\ status[s.cs] \in {"applying", "awaiting_confirm"}
                          => s \in snaps',
         WriterTypes', UNCHANGED <<status, blobs, count>>,
         \A w \in Writers : writer'[w] = writer[w] \/ (w # "apply" /\ writer'[w] = IdleWriter),
         "apply" \in Writers
  PROVE  RestorableInv'
<1>1. Rows'
  BY DEF RestorableInv, Rows
<1>2. OwnRow'
  BY <1>1 DEF RestorableInv, OwnRow, IdleWriter, Rows
<1>3. BlobKept'
  BY DEF RestorableInv, BlobKept
<1>4. writer'["apply"] = writer["apply"]
  OBVIOUS
<1>5. OnePre'
  BY <1>4 DEF RestorableInv, OnePre
<1>6. ApplyOwned'
  BY <1>4 DEF RestorableInv, ApplyOwned
<1>7. ASSUME NEW c \in Changesets, status[c] \in {"applying", "awaiting_confirm"}, HasPre(c)
      PROVE  HasPre(c)'
  BY <1>7 DEF HasPre
<1>8. PreStays'
  BY <1>4, <1>7 DEF RestorableInv, PreStays, ApplyOwned
<1> QED
  BY <1>1, <1>2, <1>3, <1>5, <1>6, <1>8 DEF RestorableInv

\* Prune spares what is in flight.
LEMMA PruneKeeps ==
  ASSUME RetentionAssumption, RestorableInv, Prune
  PROVE  RestorableInv'
<1>1. snaps' \subseteq snaps /\ refs' = refs \cap {s.id : s \in snaps'}
  BY DEF Prune
<1>2. ASSUME NEW s \in snaps, s.kind = "pre", status[s.cs] \in {"applying", "awaiting_confirm"}
      PROVE  s \in snaps'
  BY <1>2 DEF Prune, Expired, Pinned, RestorableInv, OnePre, RetentionAssumption
<1>3. UNCHANGED <<live, status, blobs, count, writer>>
  BY DEF Prune
<1>4. WriterTypes'
  BY <1>3 DEF RestorableInv, WriterTypes
<1> QED
  BY <1>1, <1>2, <1>3, <1>4, ShrinkKeeps, Names

\* The end of a capture: the schedule's prunes scheduled rows only.
LEMMA CapturedKeeps ==
  ASSUME RetentionAssumption, RestorableInv, NEW w \in Writers, Captured(w)
  PROVE  RestorableInv'
<1> DEFINE kept == {s \in Scheduled : Cardinality({t \in Scheduled : t.id > s.id}) < KeepNewest}
           left == IF w = "scheduled" THEN (snaps \ Scheduled) \cup kept ELSE snaps
<1>1. w # "apply" /\ snaps' = left /\ refs' = refs \cap {s.id : s \in left}
  BY DEF Captured
<1>2. left \subseteq snaps /\ \A s \in snaps : s.kind = "pre" => s \in left
  BY DEF Scheduled
<1> HIDE DEF left
<1>3. UNCHANGED <<live, status, blobs, count>> /\ writer' = [writer EXCEPT ![w] = IdleWriter]
  BY DEF Captured
<1>4. WriterTypes'
  BY <1>3 DEF RestorableInv, WriterTypes, IdleWriter, Files
<1>5. \A v \in Writers : writer'[v] = writer[v] \/ (v # "apply" /\ writer'[v] = IdleWriter)
  BY <1>1, <1>3 DEF RestorableInv, WriterTypes
<1> QED
  BY <1>1, <1>2, <1>3, <1>4, <1>5, ShrinkKeeps, Names

\* PruneOrphans leaves every blob that is referred to.
LEMMA OrphansKeeps ==
  ASSUME RestorableInv, PruneOrphans
  PROVE  RestorableInv'
<1>1. UNCHANGED <<live, status, snaps, refs, writer, count>> /\ blobs' = blobs \cap Referenced
  BY DEF PruneOrphans
<1>2. BlobKept'
  BY <1>1 DEF Referenced, RestorableInv, BlobKept
<1> QED
  BY <1>1, <1>2 DEF RestorableInv, Rows, WriterTypes, OwnRow, OnePre, ApplyOwned, PreStays, HasPre

\* A row gets the next id, which neither a reference nor a capture has.
LEMMA InsertRowKeeps ==
  ASSUME RetentionAssumption, RestorableInv, NEW w \in Writers, InsertRow(w)
  PROVE  RestorableInv'
<1> DEFINE row == [id |-> count + 1, cs |-> writer[w].cs, kind |-> Kind(w),
                   taken |-> now, content |-> writer[w].content]
<1>1. /\ snaps' = snaps \cup {row} /\ count' = count + 1
      /\ writer' = [writer EXCEPT ![w].pc = "refs", ![w].id = count + 1]
      /\ writer[w].pc = "row" /\ UNCHANGED <<live, status, blobs, refs>>
  BY DEF InsertRow
<1>2. /\ row.id = count + 1 /\ row.cs = writer[w].cs /\ row.kind = Kind(w)
      /\ row.content = writer[w].content
  OBVIOUS
<1> HIDE DEF row
<1>3. /\ writer'[w].pc = "refs" /\ writer'[w].id = count + 1
      /\ writer'[w].cs = writer[w].cs /\ writer'[w].content = writer[w].content
      /\ \A v \in Writers : v # w => writer'[v] = writer[v]
  BY <1>1 DEF RestorableInv, WriterTypes
<1>4. count \in Nat /\ \A v \in Writers : writer[v].id \in Nat /\ writer[v].id <= count
  BY DEF RestorableInv, Rows, WriterTypes, OwnRow
<1>5. Rows'
  BY <1>1, <1>2, <1>4 DEF RestorableInv, Rows, WriterTypes
<1>6. WriterTypes'
  BY <1>1, <1>4 DEF RestorableInv, WriterTypes
<1>7. OwnRow'
  <2> SUFFICES ASSUME NEW v \in Writers
               PROVE  /\ writer'[v].id <= count'
                      /\ writer'[v].pc \in {"refs", "done"} =>
                           \A s \in snaps' : s.id = writer'[v].id =>
                             /\ s.content = writer'[v].content
                             /\ v = "apply" => s.kind = "pre" /\ s.cs = writer'[v].cs
    BY DEF OwnRow
  <2>1. CASE v = w
    <3>1. \A s \in snaps' : s.id = count + 1 => s = row
      BY <1>1, <1>4 DEF RestorableInv, Rows
    <3>2. count + 1 <= count'
      BY <1>1, <1>4
    <3> QED
      BY <1>2, <1>3, <2>1, <3>1, <3>2 DEF Kind
  <2>2. CASE v # w
    <3>1. writer'[v] = writer[v]
      BY <1>3, <2>2
    <3>2. writer[v].id \in Nat /\ writer[v].id <= count /\ count' = count + 1
      BY <1>1, <1>4
    <3>3. writer[v].id <= count'
      BY <1>4, <3>2
    <3>4. \A s \in snaps' : s.id = writer[v].id => s \in snaps
      BY <1>1, <1>2, <1>4, <3>2
    <3> QED
      BY <3>1, <3>3, <3>4 DEF RestorableInv, OwnRow
  <2> QED
    BY <2>1, <2>2
<1>8. BlobKept'
  BY <1>1, <1>2, <1>4 DEF RestorableInv, Rows, BlobKept
<1>9. OnePre'
  <2>1. CASE w = "apply"
    BY <1>1, <1>2, <1>3, <2>1, Names DEF RestorableInv, OnePre, ApplyOwned, Kind
  <2>2. CASE w # "apply"
    BY <1>1, <1>2, <1>3, <2>2, Names DEF RestorableInv, OnePre
  <2> QED
    BY <2>1, <2>2
<1>10. ApplyOwned'
  BY <1>1, <1>3, Names DEF RestorableInv, ApplyOwned
<1>11. PreStays'
  <2>1. \A c : HasPre(c) => HasPre(c)'
    BY <1>1 DEF HasPre
  <2> QED
    BY <1>1, <1>3, <2>1, Names DEF RestorableInv, PreStays
<1> QED
  BY <1>5, <1>6, <1>7, <1>8, <1>9, <1>10, <1>11 DEF RestorableInv

\* The foreign keys: a reference is to a row and a blob that are there.
LEMMA InsertFilesKeeps ==
  ASSUME RetentionAssumption, RestorableInv, NEW w \in Writers, InsertFiles(w)
  PROVE  RestorableInv'
<1>1. /\ writer[w].pc = "refs" /\ refs' = refs \cup {writer[w].id}
      /\ writer' = [writer EXCEPT ![w].pc = "done"]
      /\ UNCHANGED <<live, status, blobs, snaps, count>>
  BY DEF InsertFiles
<1>2. PICK s \in snaps : s.id = writer[w].id /\ writer[w].content \in blobs
  BY DEF InsertFiles, Referable
<1>3. /\ writer'[w].pc = "done" /\ writer'[w].id = writer[w].id
      /\ writer'[w].cs = writer[w].cs /\ writer'[w].content = writer[w].content
      /\ \A v \in Writers : v # w => writer'[v] = writer[v]
  BY <1>1 DEF RestorableInv, WriterTypes
<1>4. Rows'
  BY <1>1, <1>2 DEF RestorableInv, Rows
<1>5. WriterTypes'
  BY <1>1 DEF RestorableInv, WriterTypes
<1>6. OwnRow'
  BY <1>1, <1>3 DEF RestorableInv, OwnRow
<1>7. BlobKept'
  BY <1>1, <1>2 DEF RestorableInv, OwnRow, BlobKept
<1>8. OnePre' /\ ApplyOwned'
  BY <1>1, <1>3, Names DEF RestorableInv, OnePre, ApplyOwned
<1>9. PreStays'
  <2>1. \A c : HasPre(c) => HasPre(c)'
    BY <1>1 DEF HasPre
  <2>2. CASE w = "apply"
    <3>1. s.kind = "pre" /\ s.cs = writer[w].cs /\ s.id \in refs'
      BY <1>1, <1>2, <2>2 DEF RestorableInv, OwnRow
    <3>2. HasPre(writer["apply"].cs)'
      BY <1>1, <1>3, <2>2, <3>1 DEF HasPre
    <3> QED
      BY <1>1, <2>1, <3>2 DEF RestorableInv, PreStays
  <2>3. CASE w # "apply"
    <3>1. writer'["apply"] = writer["apply"]
      BY <1>3, <2>3, Names
    <3> QED
      BY <1>1, <2>1, <3>1 DEF RestorableInv, PreStays
  <2> QED
    BY <2>2, <2>3
<1> QED
  BY <1>4, <1>5, <1>6, <1>7, <1>8, <1>9 DEF RestorableInv

\* What a step leaves true that inserts nothing, deletes nothing, and moves
\* captures and statuses as the changeset's life does.
LEMMA LifeKeeps ==
  ASSUME RetentionAssumption, RestorableInv, UNCHANGED <<snaps, refs, count>>,
         blobs \subseteq blobs', WriterTypes', ApplyOwned',
         \A w \in Writers : writer'[w] = writer[w] \/ (writer'[w].pc \in {"idle", "put", "row"}
                                                         /\ writer'[w].id <= count),
         \A c \in Changesets : status'[c] = "draft" => status[c] = "draft",
         writer'["apply"].pc \in {"put", "row"} =>
           \/ writer["apply"].pc \in {"put", "row"} /\ writer'["apply"].cs = writer["apply"].cs
           \/ status[writer'["apply"].cs] = "draft",
         \A c \in Changesets : status'[c] = "awaiting_confirm" =>
           status[c] = "awaiting_confirm" \/ CapturedPre(c)
  PROVE  RestorableInv'
<1>1. Rows' /\ BlobKept'
  BY DEF RestorableInv, Rows, BlobKept
<1>2. OwnRow'
  BY DEF RestorableInv, OwnRow
<1>3. OnePre'
  BY DEF RestorableInv, OnePre
<1>4. \A c : HasPre(c)' <=> HasPre(c)
  BY DEF HasPre
<1>5. PreStays'
  BY <1>4, Names DEF RestorableInv, PreStays, CapturedPre
<1> QED
  BY <1>1, <1>2, <1>3, <1>5 DEF RestorableInv

\* The actions that LifeKeeps is about.
LEMMA LifeSteps ==
  ASSUME RetentionAssumption, RestorableInv,
         \/ \E c \in Changesets : BeginApply(c) \/ Execute(c) \/ Confirm(c) \/ Rollback(c)
         \/ \E w \in Writers : BeginCapture(w) \/ Put(w) \/ SkipRow(w) \/ CaptureFails(w)
         \/ Edit \/ Advance \/ UNCHANGED vars
  PROVE  RestorableInv'
<1> USE Names
<1> USE DEF RestorableInv, WriterTypes, Files
<1>1. \A w \in Writers : writer[w].id \in Nat /\ writer[w].id <= count /\ 0 <= count
  BY DEF Rows, OwnRow
<1>2. ASSUME NEW c \in Changesets, BeginApply(c)
      PROVE  RestorableInv'
  <2>1. WriterTypes'
    BY <1>2 DEF BeginApply, IdleWriter
  <2>2. ApplyOwned'
    BY <1>2 DEF BeginApply, IdleWriter, ApplyOwned, Statuses
  <2> QED
    BY <1>1, <1>2, <2>1, <2>2, LifeKeeps DEF BeginApply, IdleWriter, ApplyOwned
<1>3. ASSUME NEW c \in Changesets, Execute(c)
      PROVE  RestorableInv'
  <2>1. WriterTypes'
    BY <1>3 DEF Execute, IdleWriter
  <2>2. ApplyOwned'
    BY <1>3 DEF Execute, IdleWriter, ApplyOwned, Statuses
  <2> QED
    BY <1>1, <1>3, <2>1, <2>2, LifeKeeps DEF Execute, IdleWriter, ApplyOwned
<1>4. ASSUME NEW c \in Changesets, Confirm(c)
      PROVE  RestorableInv'
  <2>1. WriterTypes'
    BY <1>4 DEF Confirm, IdleWriter
  <2>2. ApplyOwned'
    BY <1>4 DEF Confirm, IdleWriter, ApplyOwned, Statuses
  <2> QED
    BY <1>1, <1>4, <2>1, <2>2, LifeKeeps DEF Confirm, IdleWriter, ApplyOwned
<1>5. ASSUME NEW c \in Changesets, Rollback(c)
      PROVE  RestorableInv'
  <2>0. live' \in Files
    BY <1>5, NewestIsKept DEF Rollback, Rows
  <2>1. WriterTypes'
    BY <1>5, <2>0 DEF Rollback
  <2>2. ApplyOwned'
    BY <1>5 DEF Rollback, ApplyOwned, Statuses
  <2> QED
    BY <1>1, <1>5, <2>1, <2>2, LifeKeeps DEF Rollback, ApplyOwned
<1>6. ASSUME NEW w \in Writers, BeginCapture(w)
      PROVE  RestorableInv'
  <2>1. WriterTypes'
    BY <1>6 DEF BeginCapture
  <2>2. ApplyOwned'
    BY <1>6 DEF BeginCapture, ApplyOwned
  <2> QED
    BY <1>1, <1>6, <2>1, <2>2, LifeKeeps DEF BeginCapture
<1>7. ASSUME NEW w \in Writers, Put(w)
      PROVE  RestorableInv'
  <2>1. WriterTypes'
    BY <1>7 DEF Put
  <2>2. ApplyOwned'
    BY <1>7 DEF Put, ApplyOwned
  <2> QED
    BY <1>1, <1>7, <2>1, <2>2, LifeKeeps DEF Put
<1>8. ASSUME NEW w \in Writers, SkipRow(w)
      PROVE  RestorableInv'
  <2>1. WriterTypes'
    BY <1>8 DEF SkipRow, IdleWriter
  <2>2. ApplyOwned'
    BY <1>8 DEF SkipRow, IdleWriter, ApplyOwned
  <2> QED
    BY <1>1, <1>8, <2>1, <2>2, LifeKeeps DEF SkipRow, IdleWriter
<1>9. ASSUME NEW w \in Writers, CaptureFails(w)
      PROVE  RestorableInv'
  <2>1. WriterTypes'
    BY <1>9 DEF CaptureFails, IdleWriter
  <2>2. ApplyOwned'
    BY <1>9 DEF CaptureFails, IdleWriter, ApplyOwned, Statuses
  <2> QED
    BY <1>1, <1>9, <2>1, <2>2, LifeKeeps DEF CaptureFails, IdleWriter, ApplyOwned
<1>10. CASE Edit \/ Advance \/ UNCHANGED vars
  <2>1. UNCHANGED <<status, blobs, snaps, refs, writer, count>> /\ live' \in Files
    BY <1>10 DEF Edit, Advance, vars
  <2> QED
    BY <2>1 DEF Rows, OwnRow, BlobKept, OnePre, ApplyOwned, PreStays, HasPre
<1> QED
  BY <1>2, <1>3, <1>4, <1>5, <1>6, <1>7, <1>8, <1>9, <1>10

\* The invariant holds of the empty store.
LEMMA RestorableStarts == ASSUME RetentionAssumption, Init PROVE RestorableInv
  BY DEF Init, RestorableInv, Rows, WriterTypes, OwnRow, BlobKept, OnePre, ApplyOwned, PreStays,
         HasPre, IdleWriter, Files, Statuses, Writers

\* Every step keeps it.
LEMMA RestorableSteps == ASSUME RetentionAssumption, RestorableInv, [Next]_vars PROVE RestorableInv'
<1>1. CASE Prune
  BY <1>1, PruneKeeps
<1>2. CASE PruneOrphans
  BY <1>2, OrphansKeeps
<1>3. CASE \E w \in Writers : InsertRow(w) \/ InsertFiles(w) \/ Captured(w)
  BY <1>3, InsertRowKeeps, InsertFilesKeeps, CapturedKeeps
<1>4. CASE \/ \E c \in Changesets : BeginApply(c) \/ Execute(c) \/ Confirm(c) \/ Rollback(c)
           \/ \E w \in Writers : BeginCapture(w) \/ Put(w) \/ SkipRow(w) \/ CaptureFails(w)
           \/ Edit \/ Advance \/ UNCHANGED vars
  BY <1>4, LifeSteps
<1> QED
  BY <1>1, <1>2, <1>3, <1>4 DEF Next, CaptureStep

\* Whatever retention deletes, and whenever, a window that is open can be
\* undone: its snapshot and the blob its restore reads (loadPreSnapshot,
\* hydrateFiles) are there.
THEOREM WindowRestorable ==
  ASSUME RetentionAssumption
  PROVE  Spec => []InFlightRestorable
<1>1. Init => RestorableInv
  BY RestorableStarts
<1>2. RestorableInv /\ [Next]_vars => RestorableInv'
  BY RestorableSteps
<1>3. RestorableInv => InFlightRestorable
  BY NewestIsKept DEF InFlightRestorable
<1> QED
  BY <1>1, <1>2, <1>3, PTL DEF Spec

-----------------------------------------------------------------------------
(* The offer to roll a committed changeset back. *)

Days ==
  /\ now \in Nat /\ at \in [Changesets -> Nat]
  /\ \A c \in Changesets : at[c] <= now
  /\ \A s \in snaps : s.taken \in Nat

\* How old the snapshot of a changeset can be: one flight for the apply, one for
\* the window.
Flight(c) ==
  /\ status[c] \in {"applying", "awaiting_confirm"} => now <= at[c] + FlightDays
  /\ \A s \in snaps : s.kind = "pre" /\ s.cs = c =>
       /\ status[c] = "applying" => at[c] <= s.taken
       /\ status[c] = "awaiting_confirm" => at[c] <= s.taken + FlightDays
       /\ status[c] = "committed" => at[c] <= s.taken + FlightDays + FlightDays

\* A committed changeset has its snapshot as long as the offer stands.
Offered(c) == status[c] = "committed" /\ now <= at[c] + PinDays => HasPre(c)

OfferInv ==
  /\ RestorableInv /\ Days
  /\ \A c \in Changesets : Flight(c)
  /\ FlightDays + FlightDays + PinDays <= KeepDays => \A c \in Changesets : Offered(c)

\* The row of a capture is dated today, and its changeset is applying.
LEMMA InsertRowDates ==
  ASSUME RetentionAssumption, OfferInv, NEW w \in Writers, InsertRow(w), RestorableInv'
  PROVE  OfferInv'
<1> DEFINE row == [id |-> count + 1, cs |-> writer[w].cs, kind |-> Kind(w),
                   taken |-> now, content |-> writer[w].content]
<1>1. snaps' = snaps \cup {row} /\ writer[w].pc = "row" /\ UNCHANGED <<now, status, at, refs>>
  BY DEF InsertRow
<1>2. row.cs = writer[w].cs /\ row.kind = Kind(w) /\ row.taken = now
  OBVIOUS
<1> HIDE DEF row
<1>3. Days'
  BY <1>1, <1>2 DEF OfferInv, Days
<1>4. ASSUME NEW c \in Changesets PROVE Flight(c)' /\ (Offered(c) => Offered(c)')
  <2>1. row.kind = "pre" /\ row.cs = c => status[c] = "applying"
    BY <1>1, <1>2, Names DEF OfferInv, RestorableInv, ApplyOwned
  <2>2. Flight(c)'
    BY <1>1, <1>2, <2>1 DEF OfferInv, Days, Flight
  <2> QED
    BY <1>1, <2>2 DEF Offered, HasPre
<1> QED
  BY <1>3, <1>4 DEF OfferInv

\* Prune spares the snapshot that an offer needs: it is not old enough.
LEMMA PruneDates ==
  ASSUME RetentionAssumption, OfferInv, Prune, RestorableInv'
  PROVE  OfferInv'
<1>1. snaps' = {s \in snaps : ~Expired(s)} /\ refs' = refs \cap {s.id : s \in snaps'} /\ UNCHANGED <<now, status, at>>
  BY DEF Prune
<1>2. Days'
  BY <1>1 DEF OfferInv, Days
<1>3. ASSUME NEW c \in Changesets PROVE Flight(c)'
  BY <1>1 DEF OfferInv, Flight
<1>4. ASSUME FlightDays + FlightDays + PinDays <= KeepDays, NEW c \in Changesets, Offered(c) PROVE Offered(c)'
  <2> SUFFICES ASSUME status[c] = "committed", now <= at[c] + PinDays PROVE HasPre(c)'
    BY <1>1 DEF Offered
  <2>1. PICK s \in snaps : s.id \in refs /\ s.kind = "pre" /\ s.cs = c
    BY <1>4 DEF Offered, HasPre
  <2>2. /\ at[c] <= s.taken + FlightDays + FlightDays /\ s.taken \in Nat /\ at[c] \in Nat /\ now \in Nat
        /\ FlightDays \in Nat /\ PinDays \in Nat /\ KeepDays \in Nat
    BY <2>1 DEF OfferInv, Days, Flight, RetentionAssumption
  <2>3. now <= s.taken + KeepDays
    BY <1>4, <2>2
  <2>4. s \in snaps'
    BY <1>1, <2>2, <2>3 DEF Expired
  <2> QED
    BY <1>1, <2>1, <2>4 DEF HasPre
<1> QED
  BY <1>2, <1>3, <1>4 DEF OfferInv

\* The schedule prunes no snapshot of a changeset.
LEMMA CapturedDates ==
  ASSUME RetentionAssumption, OfferInv, NEW w \in Writers, Captured(w), RestorableInv'
  PROVE  OfferInv'
<1> DEFINE kept == {s \in Scheduled : Cardinality({t \in Scheduled : t.id > s.id}) < KeepNewest}
           left == IF w = "scheduled" THEN (snaps \ Scheduled) \cup kept ELSE snaps
<1>1. snaps' = left /\ refs' = refs \cap {s.id : s \in left} /\ UNCHANGED <<now, status, at>>
  BY DEF Captured
<1>2. left \subseteq snaps /\ \A s \in snaps : s.kind = "pre" => s \in left
  BY DEF Scheduled
<1> HIDE DEF left
<1>3. Days'
  BY <1>1, <1>2 DEF OfferInv, Days
<1>4. ASSUME NEW c \in Changesets PROVE Flight(c)' /\ (Offered(c) => Offered(c)')
  BY <1>1, <1>2 DEF OfferInv, Flight, Offered, HasPre
<1> QED
  BY <1>3, <1>4 DEF OfferInv

\* The other steps: a changeset moves on, or a day passes.
LEMMA OfferSteps ==
  ASSUME RetentionAssumption, OfferInv, [Next]_vars
  PROVE  OfferInv'
<1>0. RestorableInv' /\ FlightDays \in Nat /\ PinDays \in Nat /\ KeepDays \in Nat
  BY RestorableSteps DEF OfferInv, RetentionAssumption
<1>1. ASSUME UNCHANGED <<now, status, at, snaps>>, refs \subseteq refs' PROVE OfferInv'
  BY <1>0, <1>1 DEF OfferInv, Days, Flight, Offered, HasPre
<1>2. ASSUME NEW c \in Changesets, UNCHANGED <<now, snaps, refs>>, at' = [at EXCEPT ![c] = now],
             NEW st \in Statuses, status' = [status EXCEPT ![c] = st],
             st = "applying" => status[c] = "draft",
             st = "awaiting_confirm" => status[c] = "applying",
             st = "committed" => status[c] = "awaiting_confirm"
      PROVE  OfferInv'
  <2>0. status \in [Changesets -> Statuses] /\ at \in [Changesets -> Nat] /\ now \in Nat
    BY DEF OfferInv, RestorableInv, ApplyOwned, Days
  <2>1. /\ status'[c] = st /\ at'[c] = now
        /\ \A d \in Changesets : d # c => status'[d] = status[d] /\ at'[d] = at[d]
    BY <1>2, <2>0
  <2>2. Days'
    BY <1>2, <2>0 DEF OfferInv, Days
  <2>3. Flight(c)'
    <3>1. /\ status[c] \in {"applying", "awaiting_confirm"} => now <= at[c] + FlightDays
          /\ \A s \in snaps : s.kind = "pre" /\ s.cs = c =>
               /\ s.taken \in Nat /\ at[c] \in Nat
               /\ status[c] # "draft"
               /\ status[c] = "applying" => at[c] <= s.taken
               /\ status[c] = "awaiting_confirm" => at[c] <= s.taken + FlightDays
      BY <2>0 DEF OfferInv, Days, Flight, RestorableInv, OnePre
    <3> QED
      BY <1>0, <1>2, <2>0, <2>1, <3>1 DEF Flight
  <2>4. ASSUME NEW d \in Changesets, d # c PROVE Flight(d)' /\ (Offered(d) => Offered(d)')
    <3>1. Flight(d)
      BY DEF OfferInv
    <3> QED
      BY <1>2, <2>1, <2>4, <3>1 DEF Flight, Offered, HasPre
  <2>5. Offered(c)'
    <3>1. st = "committed" => HasPre(c)
      BY <1>2 DEF OfferInv, RestorableInv, PreStays
    <3> QED
      BY <1>2, <2>1, <3>1 DEF Offered, HasPre
  <2> QED
    BY <1>0, <2>2, <2>3, <2>4, <2>5 DEF OfferInv
<1>3. CASE Advance
  <2>1. /\ now' = now + 1 /\ UNCHANGED <<status, at, snaps, refs>>
        /\ \A c \in Changesets : status[c] \in {"applying", "awaiting_confirm"} => now < at[c] + FlightDays
    BY <1>3 DEF Advance
  <2>2. Days'
    BY <2>1 DEF OfferInv, Days
  <2>3. ASSUME NEW c \in Changesets PROVE Flight(c)' /\ (Offered(c) => Offered(c)')
    <3>1. now \in Nat /\ at[c] \in Nat /\ Flight(c)
      BY DEF OfferInv, Days
    <3> QED
      BY <1>0, <2>1, <3>1 DEF Flight, Offered, HasPre
  <2> QED
    BY <1>0, <2>2, <2>3 DEF OfferInv
<1>4. ASSUME NEW c \in Changesets, BeginApply(c) \/ Execute(c) \/ Confirm(c) \/ Rollback(c) PROVE OfferInv'
  <2>1. CASE BeginApply(c)
    BY <1>2, <2>1 DEF BeginApply, Statuses
  <2>2. CASE Execute(c)
    BY <1>2, <2>2 DEF Execute, Statuses
  <2>3. CASE Confirm(c)
    BY <1>2, <2>3 DEF Confirm, Statuses
  <2>4. CASE Rollback(c)
    BY <1>2, <2>4 DEF Rollback, Statuses
  <2> QED
    BY <1>4, <2>1, <2>2, <2>3, <2>4
<1>5. ASSUME NEW w \in Writers, CaptureFails(w) PROVE OfferInv'
  <2>1. CASE w = "apply"
    <3>1. writer[w].cs \in Changesets
      BY <1>5, <2>1 DEF CaptureFails, OfferInv, RestorableInv, ApplyOwned
    <3> QED
      BY <1>2, <1>5, <2>1, <3>1 DEF CaptureFails, Statuses
  <2>2. CASE w # "apply"
    BY <1>1, <1>5, <2>2 DEF CaptureFails
  <2> QED
    BY <2>1, <2>2
<1>6. ASSUME NEW w \in Writers, BeginCapture(w) \/ Put(w) \/ SkipRow(w) \/ InsertFiles(w) PROVE OfferInv'
  BY <1>1, <1>6 DEF BeginCapture, Put, SkipRow, InsertFiles
<1>7. CASE Edit \/ PruneOrphans \/ UNCHANGED vars
  BY <1>1, <1>7 DEF Edit, PruneOrphans, vars
<1> QED
  BY <1>0, <1>3, <1>4, <1>5, <1>6, <1>7, InsertRowDates, PruneDates, CapturedDates DEF Next, CaptureStep

\* A snapshot that is there with its reference can be loaded: it is the only one
\* of its changeset.
LEMMA HasPreLoads == ASSUME RestorableInv, NEW c \in Changesets, HasPre(c) PROVE Loadable(c)
<1>1. PICK s \in snaps : s.id \in refs /\ s.kind = "pre" /\ s.cs = c
  BY DEF HasPre
<1>2. s \in PreSnaps(c) /\ \A t \in PreSnaps(c) : t = s
  BY <1>1 DEF PreSnaps, RestorableInv, OnePre
<1>3. s.id \in Nat /\ s.content \in blobs
  BY <1>1 DEF RestorableInv, Rows, BlobKept
<1>4. \E x \in PreSnaps(c) : \A t \in PreSnaps(c) : t.id <= x.id
  BY <1>2, <1>3
<1>5. Newest(PreSnaps(c)) \in PreSnaps(c)
  BY <1>4 DEF Newest
<1> QED
  BY <1>2, <1>3, <1>5 DEF Loadable

\* What is in flight can be undone; and when snapshots are kept for at least
\* the two halves of a flight and the pin together, the offer to roll a committed
\* changeset back is kept for as long as it stands (SnapshotRetention, Prune).
THEOREM UndoStays == ASSUME RetentionAssumption PROVE Spec => []UndoIsKept
<1>1. Init => OfferInv
  <2> SUFFICES ASSUME Init PROVE OfferInv
    OBVIOUS
  <2>1. RestorableInv
    BY RestorableStarts
  <2> QED
    BY <2>1 DEF Init, OfferInv, Days, Flight, Offered
<1>2. OfferInv /\ [Next]_vars => OfferInv'
  BY OfferSteps
<1>3. OfferInv => UndoIsKept
  <2> SUFFICES ASSUME OfferInv PROVE UndoIsKept
    OBVIOUS
  <2>1. InFlightRestorable
    BY NewestIsKept DEF OfferInv, InFlightRestorable
  <2>2. FlightDays + FlightDays + PinDays <= KeepDays => OfferIsKept
    BY HasPreLoads DEF OfferInv, Offered, OfferIsKept
  <2> QED
    BY <2>1, <2>2 DEF UndoIsKept
<1> QED
  BY <1>1, <1>2, <1>3, PTL DEF Spec

-----------------------------------------------------------------------------
(* The types of the tables. *)

SnapRows == [id : 1 .. MaxSnaps, cs : Changesets \cup {None}, kind : {"pre", "post", "manual", "scheduled"},
             taken : 0 .. MaxTime, content : Contents]

\* A capture past its Put knows the content it stored.
ContentKnown == \A w \in Writers : writer[w].pc \in {"row", "refs", "done"} => writer[w].content \in Contents

StoreTypes == TypeOK /\ RestorableInv /\ ContentKnown

\* A row has its type, whoever captures.
LEMMA InsertRowTyped ==
  ASSUME RetentionAssumption, StoreTypes, NEW w \in Writers, InsertRow(w)
  PROVE  snaps' \subseteq SnapRows /\ refs' \subseteq {s.id : s \in snaps'}
<1> DEFINE row == [id |-> count + 1, cs |-> writer[w].cs, kind |-> Kind(w),
                   taken |-> now, content |-> writer[w].content]
<1>1. snaps' = snaps \cup {row} /\ refs' = refs /\ writer[w].pc = "row" /\ count < MaxSnaps
  BY DEF InsertRow
<1>2. count + 1 \in 1 .. MaxSnaps /\ now \in 0 .. MaxTime /\ writer[w].content \in Contents
  BY <1>1 DEF StoreTypes, TypeOK, ContentKnown, RetentionAssumption
<1>3. writer[w].cs \in Changesets \cup {None} /\ Kind(w) \in {"pre", "post", "manual", "scheduled"}
  BY DEF StoreTypes, RestorableInv, WriterTypes, Kind, Writers, RetentionAssumption
<1>4. row \in SnapRows
  BY <1>2, <1>3 DEF SnapRows
<1> HIDE DEF row
<1> QED
  BY <1>1, <1>4 DEF StoreTypes, TypeOK, SnapRows

\* What the writers hold after a step is what WriterTypes says, and what they
\* stored is a content.
LEMMA ContentStays ==
  ASSUME RetentionAssumption, StoreTypes, [Next]_vars
  PROVE  ContentKnown'
<1>0. /\ writer \in [Writers -> [pc : {"idle", "put", "row", "refs", "done"},
                                 cs : Changesets \cup {None}, content : Files, id : Nat]]
      /\ live \in Contents /\ ContentKnown /\ "apply" \in Writers /\ "post" \in Writers
  BY Names DEF StoreTypes, TypeOK, RestorableInv, WriterTypes
<1>1. ASSUME NEW w \in Writers, NEW r, writer' = [writer EXCEPT ![w] = r], r.pc \in {"idle", "put"} PROVE ContentKnown'
  BY <1>0, <1>1 DEF ContentKnown
<1>2. ASSUME NEW c \in Changesets, BeginApply(c) \/ Execute(c) \/ Confirm(c) \/ Rollback(c) PROVE ContentKnown'
  <2> DEFINE r == [IdleWriter EXCEPT !.pc = "put", !.cs = c]
  <2>0. r.pc = "put" /\ IdleWriter.pc = "idle"
    BY DEF IdleWriter
  <2>1. CASE BeginApply(c)
    BY <1>0, <1>1, <2>0, <2>1 DEF BeginApply
  <2>2. CASE Execute(c)
    BY <1>0, <1>1, <2>0, <2>2 DEF Execute
  <2>3. CASE Confirm(c)
    BY <1>0, <1>1, <2>0, <2>3 DEF Confirm
  <2>4. CASE Rollback(c)
    BY <1>0, <2>4 DEF Rollback, ContentKnown
  <2> QED
    BY <1>2, <2>1, <2>2, <2>3, <2>4
<1>3. ASSUME NEW w \in Writers, BeginCapture(w) \/ SkipRow(w) \/ CaptureFails(w) \/ Captured(w) PROVE ContentKnown'
  BY <1>0, <1>3 DEF BeginCapture, SkipRow, CaptureFails, Captured, IdleWriter, ContentKnown
<1>4. ASSUME NEW w \in Writers, Put(w) \/ InsertRow(w) \/ InsertFiles(w) PROVE ContentKnown'
  BY <1>0, <1>4 DEF Put, InsertRow, InsertFiles, ContentKnown
<1>5. CASE Edit \/ Prune \/ PruneOrphans \/ Advance \/ UNCHANGED vars
  BY <1>0, <1>5 DEF Edit, Prune, PruneOrphans, Advance, vars, ContentKnown
<1> QED
  BY <1>2, <1>3, <1>4, <1>5 DEF Next, CaptureStep

\* The tables have their types, and every file reference is to a snapshot that
\* is there (the foreign key of snapshot_files), for every retention setting.
THEOREM SnapshotTypes == ASSUME RetentionAssumption PROVE Spec => []TypeOK
<1>1. Init => StoreTypes
  <2> SUFFICES ASSUME Init PROVE StoreTypes
    OBVIOUS
  <2>1. RestorableInv
    BY RestorableStarts
  <2>2. \A w \in Writers : writer[w].pc = "idle"
    BY DEF Init, IdleWriter
  <2>3. TypeOK
    <3>1. now \in 0 .. MaxTime /\ count \in 0 .. MaxSnaps /\ at \in [Changesets -> 0 .. MaxTime]
      BY DEF Init, RetentionAssumption
    <3>2. status \in [Changesets -> Statuses] /\ prune \in BOOLEAN /\ live \in Contents
      BY DEF Init, Statuses
    <3> QED
      BY <2>2, <3>1, <3>2 DEF Init, TypeOK, Statuses
  <2>4. ContentKnown
    BY <2>2 DEF ContentKnown
  <2> QED
    BY <2>1, <2>3, <2>4 DEF StoreTypes
<1>2. StoreTypes /\ [Next]_vars => StoreTypes'
  <2> SUFFICES ASSUME StoreTypes, [Next]_vars PROVE StoreTypes'
    OBVIOUS
  <2>1. RestorableInv' /\ ContentKnown'
    BY RestorableSteps, ContentStays DEF StoreTypes
  <2>2. \A w \in Writers : writer'[w].pc \in {"idle", "put", "row", "refs", "done"}
    BY <2>1 DEF RestorableInv, WriterTypes
  <2>3. status' \in [Changesets -> Statuses]
    BY <2>1 DEF RestorableInv, ApplyOwned
  <2>4. now' \in 0 .. MaxTime /\ at' \in [Changesets -> 0 .. MaxTime] /\ prune' \in BOOLEAN /\ count' \in 0 .. MaxSnaps
    <3>0. /\ now \in 0 .. MaxTime /\ at \in [Changesets -> 0 .. MaxTime] /\ prune \in BOOLEAN /\ count \in 0 .. MaxSnaps
          /\ MaxTime \in Nat /\ MaxSnaps \in Nat
      BY DEF StoreTypes, TypeOK, RetentionAssumption
    <3>1. ASSUME NEW c \in Changesets, BeginApply(c) \/ Execute(c) \/ Confirm(c) \/ Rollback(c)
          PROVE  /\ now' \in 0 .. MaxTime /\ at' \in [Changesets -> 0 .. MaxTime]
                 /\ prune' \in BOOLEAN /\ count' \in 0 .. MaxSnaps
      BY <3>0, <3>1 DEF BeginApply, Execute, Confirm, Rollback
    <3>2. ASSUME NEW w \in Writers, BeginCapture(w) \/ CaptureStep(w)
          PROVE  /\ now' \in 0 .. MaxTime /\ at' \in [Changesets -> 0 .. MaxTime]
                 /\ prune' \in BOOLEAN /\ count' \in 0 .. MaxSnaps
      BY <3>0, <3>2 DEF BeginCapture, CaptureStep, Put, InsertRow, SkipRow, InsertFiles, CaptureFails, Captured
    <3>3. CASE Prune \/ PruneOrphans
      <4>1. UNCHANGED <<now, at, count>> /\ prune' \in BOOLEAN
        BY <3>3 DEF Prune, PruneOrphans
      <4> QED
        BY <3>0, <4>1
    <3>4. CASE Edit \/ Advance \/ UNCHANGED vars
      BY <3>0, <3>4 DEF Edit, Advance, vars
    <3> QED
      BY <3>1, <3>2, <3>3, <3>4 DEF Next
  <2>5. live' \in Contents /\ blobs' \subseteq Contents
    <3>0. live \in Contents /\ blobs \subseteq Contents
      BY DEF StoreTypes, TypeOK
    <3>1. ASSUME NEW c \in Changesets, Rollback(c) PROVE live' \in Contents /\ blobs' = blobs
      <4>1. Newest(PreSnaps(c)) \in snaps
        BY <3>1, NewestIsKept DEF StoreTypes, Rollback
      <4>2. \A s \in snaps : s.content \in Contents
        BY DEF StoreTypes, TypeOK
      <4> QED
        BY <3>1, <4>1, <4>2 DEF Rollback
    <3>2. ASSUME NEW c \in Changesets, BeginApply(c) \/ Execute(c) \/ Confirm(c) PROVE live' \in Contents /\ blobs' = blobs
      BY <3>0, <3>2 DEF BeginApply, Execute, Confirm
    <3>3. ASSUME NEW w \in Writers, BeginCapture(w) \/ CaptureStep(w) PROVE live' = live /\ blobs' \subseteq Contents
      BY <3>0, <3>3 DEF BeginCapture, CaptureStep, Put, InsertRow, SkipRow, InsertFiles, CaptureFails, Captured
    <3>4. CASE Edit \/ Prune \/ PruneOrphans \/ Advance \/ UNCHANGED vars
      BY <3>0, <3>4 DEF Edit, Prune, PruneOrphans, Advance, vars
    <3> QED
      BY <3>0, <3>1, <3>2, <3>3, <3>4 DEF Next
  <2>6. snaps' \subseteq SnapRows /\ refs' \subseteq {s.id : s \in snaps'}
    <3>0. snaps \subseteq SnapRows /\ refs \subseteq {s.id : s \in snaps}
      BY DEF StoreTypes, TypeOK, SnapRows
    <3>1. ASSUME UNCHANGED <<snaps, refs>> PROVE snaps' \subseteq SnapRows /\ refs' \subseteq {s.id : s \in snaps'}
      BY <3>0, <3>1
    <3>2. ASSUME snaps' \subseteq snaps, refs' = refs \cap {s.id : s \in snaps'}
          PROVE  snaps' \subseteq SnapRows /\ refs' \subseteq {s.id : s \in snaps'}
      BY <3>0, <3>2
    <3>3. ASSUME NEW c \in Changesets, BeginApply(c) \/ Execute(c) \/ Confirm(c) \/ Rollback(c) PROVE UNCHANGED <<snaps, refs>>
      BY <3>3 DEF BeginApply, Execute, Confirm, Rollback
    <3>4. ASSUME NEW w \in Writers, BeginCapture(w) \/ Put(w) \/ SkipRow(w) \/ CaptureFails(w) PROVE UNCHANGED <<snaps, refs>>
      BY <3>4 DEF BeginCapture, Put, SkipRow, CaptureFails
    <3>5. ASSUME NEW w \in Writers, InsertFiles(w) PROVE snaps' \subseteq SnapRows /\ refs' \subseteq {s.id : s \in snaps'}
      BY <3>0, <3>5 DEF InsertFiles, Referable
    <3>6. ASSUME NEW w \in Writers, Captured(w) PROVE snaps' \subseteq SnapRows /\ refs' \subseteq {s.id : s \in snaps'}
      <4> DEFINE kept == {s \in Scheduled : Cardinality({t \in Scheduled : t.id > s.id}) < KeepNewest}
                 left == IF w = "scheduled" THEN (snaps \ Scheduled) \cup kept ELSE snaps
      <4>1. snaps' = left /\ refs' = refs \cap {s.id : s \in left}
        BY <3>6 DEF Captured
      <4>2. left \subseteq snaps
        BY DEF Scheduled
      <4> HIDE DEF left
      <4> QED
        BY <3>2, <4>1, <4>2
    <3>7. CASE Prune
      BY <3>2, <3>7 DEF Prune
    <3>8. CASE Edit \/ PruneOrphans \/ Advance \/ UNCHANGED vars
      BY <3>1, <3>8 DEF Edit, PruneOrphans, Advance, vars
    <3> QED
      BY <3>1, <3>3, <3>4, <3>5, <3>6, <3>7, <3>8, InsertRowTyped DEF Next, CaptureStep
  <2>7. TypeOK'
    BY <2>2, <2>3, <2>4, <2>5, <2>6 DEF TypeOK, Statuses, SnapRows
  <2> QED
    BY <2>1, <2>7 DEF StoreTypes
<1>3. StoreTypes => TypeOK
  BY DEF StoreTypes
<1> QED
  BY <1>1, <1>2, <1>3, PTL DEF Spec

=============================================================================
