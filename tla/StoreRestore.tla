----------------------------- MODULE StoreRestore -----------------------------
(***************************************************************************)
(* backup/restore.go: a command line process replaces the daemon's store   *)
(* by the one of an archive, by renames within one directory, while the    *)
(* store may fail to move, the process may die between any two renames,    *)
(* and the operator may try again. A store is named by where its history   *)
(* comes from; a write-ahead log by the store it belongs to. What SQLite   *)
(* does with the two when it opens them is external.                       *)
(***************************************************************************)
EXTENDS Naturals, Sequences

CONSTANTS None,
          MaxRuns,    \* restores the operator starts
          Crashes,    \* the process may die between two steps
          UndoFails,  \* a rename that puts a file back may fail
          Race,       \* a daemon may start while a restore runs
          Extras      \* files beside the store that are restored with it

RestoreAssumption ==
  /\ MaxRuns \in Nat
  /\ {Crashes, UndoFails, Race} \subseteq BOOLEAN

VARIABLES
  db,      \* place -> the store there: the live path, the staging directory, the asides
  wal,     \* place -> the store whose log lies there
  extra,   \* extra file -> [here, aside]: whose content the node has
  run,     \* the restore under way: [at, stamp, moved, todo]
  runs,    \* restores started
  before,  \* the live store and its log when the restore started
  ended,   \* how the last restore ended
  daemon,  \* [at, store]: the daemon and the store it has open
  mixed    \* a store was opened beside the log of another

vars == <<db, wal, extra, run, runs, before, ended, daemon, mixed>>

Stamps == 1 .. MaxRuns
Live == <<"live", 0>>
Staging == <<"stage", 0>>

\* Mutant: every restore moves the store aside to the same name.
MutAside(i) == <<"aside", 1>>

\* plan.PreRestorePath: the name holds the time of the restore.
Aside(i) == <<"aside", i>>

Places == {Live, Staging} \cup {Aside(i) : i \in Stamps}

Node == <<"node", 0>>
Fresh == <<"fresh", 0>>
Stores == {Node, Fresh} \cup {<<"archive", i>> : i \in Stamps}

Idle == [at |-> "idle", stamp |-> None, moved |-> <<>>, todo |-> {}]

TypeOK ==
  /\ db \in [Places -> Stores \cup {None}]
  /\ wal \in [Places -> Stores \cup {None}]
  /\ extra \in [Extras -> [here : {"node", "archive", None}, aside : {"node", "archive", None}]]
  /\ run.at \in {"idle", "stage", "db", "wal", "install", "chmod", "undo", "extra", "write"}
  /\ runs \in 0 .. MaxRuns
  /\ ended \in {"none", "refused", "failed", "late", "died", "done"}
  /\ daemon.at \in {"down", "locked", "up"}
  /\ mixed \in BOOLEAN

\* A node whose daemon has written to its store; the daemon is down, and was
\* stopped, which empties the log, or was killed, which leaves it.
Init ==
  /\ db = [p \in Places |-> IF p = Live THEN Node ELSE None]
  /\ wal \in {[p \in Places |-> IF p = Live THEN w ELSE None] : w \in {Node, None}}
  /\ extra = [e \in Extras |-> [here |-> "node", aside |-> None]]
  /\ run = Idle
  /\ runs = 0
  /\ before = [db |-> None, wal |-> None]
  /\ ended = "none"
  /\ daemon = [at |-> "down", store |-> None]
  /\ mixed = FALSE

-----------------------------------------------------------------------------
\* The restore returns: the deferred removal of the staging directory is part
\* of it.
Return(how) ==
  /\ run' = Idle
  /\ ended' = how
  /\ db' = [db EXCEPT ![Staging] = None]
  /\ UNCHANGED <<runs, before, daemon>>

\* RuntimeLockHeld and addrInUse: the lock is tried and dropped again.
DaemonSeen == daemon.at # "down"

\* Restore up to the liveness check. The name of the aside holds the second it
\* was started in; restores are at least a second apart.
Begin ==
  /\ run.at = "idle" /\ runs < MaxRuns
  /\ runs' = runs + 1
  /\ before' = [db |-> db[Live], wal |-> wal[Live]]
  /\ IF DaemonSeen
       THEN run' = run /\ ended' = "refused"
       ELSE run' = [Idle EXCEPT !.at = "stage", !.stamp = runs + 1] /\ ended' = ended
  /\ UNCHANGED <<db, wal, extra, daemon, mixed>>

\* Validation, extraction, migration of the staged copy, removal of its
\* sidecars: everything that is decided before the live store is touched.
Stage ==
  /\ run.at = "stage"
  /\ \/ /\ db' = [db EXCEPT ![Staging] = <<"archive", run.stamp>>]
        /\ run' = [run EXCEPT !.at = "db"]
        /\ UNCHANGED <<runs, before, ended, daemon>>
     \/ Return("failed")
  /\ UNCHANGED <<wal, extra, mixed>>

\* Mutant: the sidecars stay where they are.
MutMoveAside(part, next) ==
  /\ run.at = part
  /\ LET there == IF part = "db" THEN db[Live] ELSE wal[Live] IN
     IF there = None \/ part = "wal"
       THEN /\ run' = [run EXCEPT !.at = next]
            /\ UNCHANGED <<db, wal, runs, before, ended, daemon>>
       ELSE /\ run' = [run EXCEPT !.at = next, !.moved = Append(@, part)]
            /\ db' = [db EXCEPT ![Aside(run.stamp)] = db[Live], ![Live] = None] /\ wal' = wal
            /\ UNCHANGED <<runs, before, ended, daemon>>
  /\ UNCHANGED <<extra, mixed>>

\* moveAsideStore, one file of its loop: what is not there is passed over, and
\* a rename that fails undoes the ones before it.
MoveAside(part, next) ==
  /\ run.at = part
  /\ LET there == IF part = "db" THEN db[Live] ELSE wal[Live] IN
     IF there = None
       THEN /\ run' = [run EXCEPT !.at = next]
            /\ UNCHANGED <<db, wal, runs, before, ended, daemon>>
       ELSE \/ /\ run' = [run EXCEPT !.at = next, !.moved = Append(@, part)]
               /\ IF part = "db"
                    THEN db' = [db EXCEPT ![Aside(run.stamp)] = there, ![Live] = None] /\ wal' = wal
                    ELSE wal' = [wal EXCEPT ![Aside(run.stamp)] = there, ![Live] = None] /\ db' = db
               /\ UNCHANGED <<runs, before, ended, daemon>>
            \/ /\ run' = [run EXCEPT !.at = "undo"]
               /\ UNCHANGED <<db, wal, runs, before, ended, daemon>>
  /\ UNCHANGED <<extra, mixed>>

\* Mutant: what was moved aside is not put back when the install fails.
MutInstall ==
  /\ run.at = "install"
  /\ \/ /\ db' = [db EXCEPT ![Live] = db[Staging], ![Staging] = None]
        /\ run' = [run EXCEPT !.at = "chmod"]
        /\ UNCHANGED <<runs, before, ended, daemon>>
     \/ Return("failed")
  /\ UNCHANGED <<wal, extra, mixed>>

\* swapStore: the rename that installs the staged store. A rename replaces what
\* is at its destination.
Install ==
  /\ run.at = "install"
  /\ \/ /\ db' = [db EXCEPT ![Live] = db[Staging], ![Staging] = None]
        /\ run' = [run EXCEPT !.at = "chmod"]
     \/ db' = db /\ run' = [run EXCEPT !.at = "undo"]
  /\ UNCHANGED <<wal, extra, runs, before, ended, daemon, mixed>>

\* undoMoveAside, last moved first; a rename that fails is logged and passed
\* over.
Undo ==
  /\ run.at = "undo"
  /\ IF run.moved = <<>>
       THEN Return("failed") /\ wal' = wal
       ELSE LET part == run.moved[Len(run.moved)] IN
            /\ run' = [run EXCEPT !.moved = SubSeq(@, 1, Len(@) - 1)]
            /\ \/ IF part = "db"
                    THEN db' = [db EXCEPT ![Live] = db[Aside(run.stamp)], ![Aside(run.stamp)] = None] /\ wal' = wal
                    ELSE wal' = [wal EXCEPT ![Live] = wal[Aside(run.stamp)], ![Aside(run.stamp)] = None] /\ db' = db
               \/ UndoFails /\ UNCHANGED <<db, wal>>
            /\ UNCHANGED <<runs, before, ended, daemon>>
  /\ UNCHANGED <<extra, mixed>>

\* The mode of the installed store and the sync of the directory; a chmod that
\* fails ends the restore with the new store in place.
Chmod ==
  /\ run.at = "chmod"
  /\ \/ /\ run' = [run EXCEPT !.at = "extra", !.todo = Extras]
        /\ UNCHANGED <<db, runs, before, ended, daemon>>
     \/ Return("late")
  /\ UNCHANGED <<wal, extra, mixed>>

\* installAside up to the rename of the file that is there. The files are taken
\* one after the other.
ExtraAside ==
  /\ run.at = "extra"
  /\ IF run.todo = {}
       THEN Return("done") /\ extra' = extra
       ELSE \E e \in run.todo :
            \/ /\ run' = [run EXCEPT !.at = "write", !.todo = {e}, !.moved = <<run.todo \ {e}>>]
               /\ extra' = [extra EXCEPT ![e] = IF @.here = None THEN @
                                                ELSE [here |-> None, aside |-> @.here]]
               /\ UNCHANGED <<db, runs, before, ended, daemon>>
            \/ Return("late") /\ extra' = extra
  /\ UNCHANGED <<wal, mixed>>

\* installAside from the read of the staged file, which the archive need not
\* hold, to the write of the new one.
ExtraWrite ==
  /\ run.at = "write"
  /\ \/ /\ extra' = [e \in Extras |-> IF e \in run.todo THEN [extra[e] EXCEPT !.here = "archive"]
                                                        ELSE extra[e]]
        /\ run' = [run EXCEPT !.at = "extra", !.todo = run.moved[1], !.moved = <<>>]
        /\ UNCHANGED <<db, runs, before, ended, daemon>>
     \/ Return("late") /\ extra' = extra
  /\ UNCHANGED <<wal, mixed>>

\* The process dies: nothing is undone and the staging directory stays.
Crash ==
  /\ Crashes /\ run.at # "idle"
  /\ run' = Idle
  /\ ended' = "died"
  /\ UNCHANGED <<db, wal, extra, runs, before, daemon, mixed>>

RestoreStep ==
  \/ Stage \/ MoveAside("db", "wal") \/ MoveAside("wal", "install") \/ Install \/ Undo
  \/ Chmod \/ ExtraAside \/ ExtraWrite

-----------------------------------------------------------------------------
\* AcquireRuntimeLock: held until the daemon ends.
DaemonLocks ==
  /\ daemon.at = "down"
  /\ Race \/ run.at = "idle"
  /\ daemon' = [daemon EXCEPT !.at = "locked"]
  /\ UNCHANGED <<db, wal, extra, run, runs, before, ended, mixed>>

\* store.Open. SQLite replays the log it finds beside the store, deletes the
\* one it finds beside no store, and the migration writes to a log.
DaemonOpens ==
  /\ daemon.at = "locked"
  /\ LET s == IF db[Live] = None THEN Fresh ELSE db[Live] IN
     /\ db' = [db EXCEPT ![Live] = s]
     /\ mixed' = (mixed \/ (db[Live] # None /\ wal[Live] \notin {None, s}))
     /\ wal' = [wal EXCEPT ![Live] = s]
     /\ daemon' = [at |-> "up", store |-> s]
  /\ UNCHANGED <<extra, run, runs, before, ended>>

\* The daemon stops, and its last connection puts the log into the store, or is
\* killed.
DaemonEnds ==
  /\ daemon.at # "down"
  /\ \/ wal' = wal
     \/ /\ daemon.at = "up" /\ wal[Live] = daemon.store
        /\ wal' = [wal EXCEPT ![Live] = None]
  /\ daemon' = [at |-> "down", store |-> None]
  /\ UNCHANGED <<db, extra, run, runs, before, ended, mixed>>

Next ==
  \/ Begin \/ RestoreStep \/ Crash
  \/ DaemonLocks \/ DaemonOpens \/ DaemonEnds

Spec == Init /\ [][Next]_vars

-----------------------------------------------------------------------------
\* No log is ever replayed over a store it does not belong to, wherever an
\* earlier restore died or failed, and however often it is tried again.
NeverMixed == ~mixed

\* The node's own store is never overwritten: it is in place or under the name
\* it was moved aside to.
PreviousKept == \E p \in Places \ {Staging} : db[p] = Node

\* The two together; a daemon that starts in the middle of a restore is the
\* only one that may replay a log over another store.
StoreIsOneStore == PreviousKept /\ (~Race => NeverMixed)

\* A restore that gives up before the new store is installed leaves the store
\* and its log as it found them, as long as files can be moved back.
FailedLeavesStore ==
  ended' = "failed" /\ run.at # "idle" /\ run'.at = "idle" =>
    before = [db |-> db'[Live], wal |-> wal'[Live]]

\* No store is moved or replaced under a daemon that has it open.
NoSwapUnderDaemon ==
  daemon.at = "up" /\ daemon'.at = "up" => db'[Live] = db[Live]

\* The previous state can be put together again by hand: the log of the node's
\* store is not lost while the store lies aside.
LogIsKept ==
  (\E i \in Stamps : db[Aside(i)] = Node) /\ (\E p \in Places : wal[p] = Node)
    => (\E p \in Places : wal'[p] = Node)

\* A restore that failed did not change the node.
FailedChangesNothing ==
  ended' = "late" /\ run'.at = "idle" /\ run.at # "idle" =>
    /\ before.db = db'[Live]
    /\ \A e \in Extras : extra'[e].here # None
=============================================================================
