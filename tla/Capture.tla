------------------------------- MODULE Capture -------------------------------
(***************************************************************************)
(* Packet capture (internal/capture/coordinator.go): sessions started,     *)
(* stopped, polled and purged by calls that overlap.                       *)
(*                                                                         *)
(* A session is captured on one node, its owner: the coordinating daemon   *)
(* itself, or a peer (Remotes), which then keeps a row of its own while    *)
(* the coordinator keeps another one for the same session.  Every call     *)
(* reads a row, works on the live process outside the mutex, and writes    *)
(* the whole row back; the mutex covers only the map of live processes.    *)
(* A call over a group treats its sessions one after the other from rows   *)
(* read at the start; sessions share nothing else, so the model gives      *)
(* every session one call slot of each kind, whose row was read when the   *)
(* call began.  Packet and byte counts are left out: a poll of a running   *)
(* capture may or may not find them changed.                               *)
(***************************************************************************)
EXTENDS Naturals, FiniteSets

CONSTANTS Sessions,     \* the sessions of the groups that may be started
          Remotes,      \* the sessions a peer captures
          Faults,       \* what may go wrong: a subset of AllFaults
          Overlap,      \* TRUE: calls on one session may overlap
          MaxCrashes    \* bound on daemon restarts

AllFaults == {"net", "agent", "store", "unlink"}

CaptureAssumption ==
  /\ Remotes \subseteq Sessions
  /\ Faults \subseteq AllFaults
  /\ Overlap \in BOOLEAN
  /\ MaxCrashes \in Nat

VARIABLES row,      \* the owner's capture_sessions row: its status, or "none"
          mirror,   \* the coordinator's row of a session a peer captures
          proc,     \* the capture process itself
          procs,    \* Coordinator.procs: the sessions with a registered handle
          file,     \* the sessions whose .pcap file is on the owner's disk
          aged,     \* the sessions past their retention window
          start,    \* the call that starts the session
          stop,     \* a StopGroup or StopLocal under way
          sync,     \* a Get, List or StatusLocal under way
          sweep,    \* the retention sweep at work on the session
          crashes

rows  == <<row, mirror>>
live  == <<proc, procs, file, aged>>
calls == <<start, stop, sync, sweep>>
vars  == <<row, mirror, proc, procs, file, aged, start, stop, sync, sweep, crashes>>

Status == {"running", "completed", "stopped", "error", "purged"}

\* Status.Terminal.
Terminal(st) == st \in {"completed", "stopped", "error", "purged"}

Vias == {"owner", "coordinator"}

TypeOK ==
  /\ row \in [Sessions -> Status \cup {"none"}]
  /\ mirror \in [Sessions -> Status \cup {"none"}]
  /\ proc \in [Sessions -> {"none", "running", "completed", "stopped"}]
  /\ procs \subseteq Sessions
  /\ file \subseteq Sessions
  /\ aged \subseteq Sessions
  /\ start \in [Sessions -> [at : {"new", "register", "write", "answer", "end"},
                             via : Vias, res : Status]]
  /\ stop \in [Sessions -> [at : {"idle", "send", "take", "halt", "write", "answer"},
                            via : Vias, res : Status]]
  /\ sync \in [Sessions -> [at : {"idle", "send", "look", "result", "write", "drop", "answer"},
                            via : Vias, old : Status, res : Status]]
  /\ sweep \in [Sessions -> {"idle", "take", "halt", "remove", "mark"}]
  /\ crashes \in 0 .. MaxCrashes

IdleStop == [at |-> "idle", via |-> "owner", res |-> "running"]
IdleSync == [at |-> "idle", via |-> "owner", old |-> "running", res |-> "running"]

\* Who asks for a session: its coordinator, which for a local session is the
\* owner; a peer's own operators may also list and stop what it captures.
Caller(s) == IF s \in Remotes THEN "coordinator" ELSE "owner"

Init ==
  /\ row = [s \in Sessions |-> "none"]
  /\ mirror = [s \in Sessions |-> "none"]
  /\ proc = [s \in Sessions |-> "none"]
  /\ procs = {} /\ file = {} /\ aged = {}
  /\ start = [s \in Sessions |-> [at |-> "new", via |-> Caller(s), res |-> "running"]]
  /\ stop = [s \in Sessions |-> IdleStop]
  /\ sync = [s \in Sessions |-> IdleSync]
  /\ sweep = [s \in Sessions |-> "idle"]
  /\ crashes = 0

Quiet(s) ==
  /\ start[s].at \in {"new", "end"}
  /\ stop[s].at = "idle" /\ sync[s].at = "idle" /\ sweep[s] = "idle"

MayBegin(s) == Overlap \/ Quiet(s)

\* Store.Upsert of the owner's row: an error is logged and the call goes on.
Upsert(s, st) ==
  \/ row' = [row EXCEPT ![s] = st]
  \/ "store" \in Faults /\ UNCHANGED row

\* The same on the coordinator, for its row of a peer's session.
UpsertMirror(s, st) ==
  \/ mirror' = [mirror EXCEPT ![s] = st]
  \/ "store" \in Faults /\ UNCHANGED mirror

-----------------------------------------------------------------------------
(* Start: startOne, startLocal and, on a peer, StartLocalSpec.             *)

\* Agent.Start creates the file and begins to capture, or fails, with or
\* without the file on disk; a request to a peer may never arrive.
StartAgent(s) ==
  /\ start[s].at = "new" /\ MayBegin(s)
  /\ \/ /\ proc' = [proc EXCEPT ![s] = "running"]
        /\ file' = file \cup {s}
        /\ start' = [start EXCEPT ![s].at = "register"]
     \/ /\ "agent" \in Faults
        /\ file' \in {file, file \cup {s}}
        /\ start' = [start EXCEPT ![s].at = "write", ![s].res = "error"]
        /\ UNCHANGED proc
     \/ /\ "net" \in Faults /\ s \in Remotes
        /\ start' = [start EXCEPT ![s].at = "answer", ![s].res = "error"]
        /\ UNCHANGED <<proc, file>>
  /\ UNCHANGED <<row, mirror, procs, aged, stop, sync, sweep, crashes>>

\* The handle goes into procs and its first Result is taken.
StartRegister(s) ==
  /\ start[s].at = "register"
  /\ procs' = procs \cup {s}
  /\ start' = [start EXCEPT ![s].at = "write", ![s].res = proc[s]]
  /\ UNCHANGED <<rows, proc, file, aged, stop, sync, sweep, crashes>>

\* The owner's row is written once the process runs, not before.
StartWrite(s) ==
  /\ start[s].at = "write"
  /\ Upsert(s, start[s].res)
  /\ start' = [start EXCEPT ![s].at = IF start[s].via = "coordinator" THEN "answer" ELSE "end"]
  /\ UNCHANGED <<mirror, live, stop, sync, sweep, crashes>>

\* A peer's answer reaches startOne, which writes the coordinator's row: the
\* status in the answer, or error when none came.
StartAnswer(s) ==
  /\ start[s].at = "answer"
  /\ \/ UpsertMirror(s, start[s].res)
     \/ "net" \in Faults /\ UpsertMirror(s, "error")
  /\ start' = [start EXCEPT ![s].at = "end"]
  /\ UNCHANGED <<row, live, stop, sync, sweep, crashes>>

-----------------------------------------------------------------------------
(* StopGroup, StopLocal.                                                   *)

\* StopGroup on the owner skips a terminal row.
StopBegin(s) ==
  /\ stop[s].at = "idle" /\ MayBegin(s)
  /\ row[s] # "none" /\ ~Terminal(row[s])
  /\ stop' = [stop EXCEPT ![s] = [IdleStop EXCEPT !.at = "take"]]
  /\ UNCHANGED <<rows, live, start, sync, sweep, crashes>>

\* StopGroup on the coordinator looks at its own row of the session.
StopBeginRemote(s) ==
  /\ s \in Remotes
  /\ stop[s].at = "idle" /\ MayBegin(s)
  /\ mirror[s] # "none" /\ ~Terminal(mirror[s])
  /\ stop' = [stop EXCEPT ![s] = [IdleStop EXCEPT !.at = "send", !.via = "coordinator"]]
  /\ UNCHANGED <<rows, live, start, sync, sweep, crashes>>

\* The peer's StopLocal reads its row and asks nothing of its status; an
\* unknown session, like a lost request, is an error the coordinator answers
\* itself with a stopped result.
StopSend(s) ==
  /\ stop[s].at = "send"
  /\ \/ /\ row[s] # "none"
        /\ stop' = [stop EXCEPT ![s].at = "take"]
     \/ /\ row[s] = "none" \/ "net" \in Faults
        /\ stop' = [stop EXCEPT ![s].at = "answer", ![s].res = "stopped"]
  /\ UNCHANGED <<rows, live, start, sync, sweep, crashes>>

\* stopLocalProc takes the handle under the mutex; without one the result is
\* made up.
StopTake(s) ==
  /\ stop[s].at = "take"
  /\ procs' = procs \ {s}
  /\ stop' = [stop EXCEPT ![s] = IF s \in procs THEN [@ EXCEPT !.at = "halt"]
                                 ELSE [@ EXCEPT !.at = "write", !.res = "stopped"]]
  /\ UNCHANGED <<rows, proc, file, aged, start, sync, sweep, crashes>>

\* Process.Stop: a capture that ended at a cap keeps that result.
Halted(st) == IF st = "running" THEN "stopped" ELSE st

\* Process.Stop is called after the mutex is released.
StopHalt(s) ==
  /\ stop[s].at = "halt"
  /\ proc' = [proc EXCEPT ![s] = Halted(@)]
  /\ stop' = [stop EXCEPT ![s].at = "write", ![s].res = Halted(proc[s])]
  /\ UNCHANGED <<rows, procs, file, aged, start, sync, sweep, crashes>>

\* applyStop and the write of the row.
StopWrite(s) ==
  /\ stop[s].at = "write"
  /\ Upsert(s, stop[s].res)
  /\ stop' = [stop EXCEPT ![s] = IF @.via = "coordinator" THEN [@ EXCEPT !.at = "answer"]
                                 ELSE IdleStop]
  /\ UNCHANGED <<mirror, live, start, sync, sweep, crashes>>

\* The coordinator records what the peer answered, and "stopped" when the
\* answer was lost.
StopAnswer(s) ==
  /\ stop[s].at = "answer"
  /\ \/ UpsertMirror(s, stop[s].res)
     \/ "net" \in Faults /\ UpsertMirror(s, "stopped")
  /\ stop' = [stop EXCEPT ![s] = IdleStop]
  /\ UNCHANGED <<row, live, start, sync, sweep, crashes>>

-----------------------------------------------------------------------------
(* sync, syncLocal and applyLive, behind Get, List and StatusLocal.        *)

SyncBegin(s) ==
  /\ sync[s].at = "idle" /\ MayBegin(s)
  /\ row[s] # "none"
  /\ sync' = [sync EXCEPT ![s] = [IdleSync EXCEPT !.at = "look", !.old = row[s]]]
  /\ UNCHANGED <<rows, live, start, stop, sweep, crashes>>

\* The coordinator polls a peer only for a row that is not terminal.
SyncBeginRemote(s) ==
  /\ s \in Remotes
  /\ sync[s].at = "idle" /\ MayBegin(s)
  /\ mirror[s] # "none" /\ ~Terminal(mirror[s])
  /\ sync' = [sync EXCEPT ![s] = [IdleSync EXCEPT !.at = "send", !.via = "coordinator"]]
  /\ UNCHANGED <<rows, live, start, stop, sweep, crashes>>

SyncSend(s) ==
  /\ sync[s].at = "send"
  /\ \/ /\ row[s] # "none"
        /\ sync' = [sync EXCEPT ![s].at = "look", ![s].old = row[s]]
     \/ /\ row[s] = "none" \/ "net" \in Faults
        /\ sync' = [sync EXCEPT ![s] = IdleSync]
  /\ UNCHANGED <<rows, live, start, stop, sweep, crashes>>

\* The end of syncLocal, with the status the caller is given.
SyncEnd(s, st) ==
  sync' = [sync EXCEPT ![s] = IF @.via = "coordinator"
                              THEN [@ EXCEPT !.at = "answer", !.res = st]
                              ELSE IdleSync]

SyncLook(s) ==
  /\ sync[s].at = "look"
  /\ IF s \in procs THEN sync' = [sync EXCEPT ![s].at = "result"]
                    ELSE SyncEnd(s, sync[s].old)
  /\ UNCHANGED <<rows, live, start, stop, sweep, crashes>>

\* Process.Result through the handle, which may have been stopped meanwhile.
SyncResult(s) ==
  /\ sync[s].at = "result"
  /\ sync' = [sync EXCEPT ![s].at = "write", ![s].res = proc[s]]
  /\ UNCHANGED <<rows, live, start, stop, sweep, crashes>>

\* Variant: a running capture past its window reads as completed.
MutReconciled(s) ==
  IF sync[s].res = "running" /\ s \in aged THEN "completed" ELSE sync[s].res

\* applyLive: a running result leaves the status of the copy as it was read.
Reconciled(s) == IF sync[s].res # "running" THEN sync[s].res ELSE sync[s].old

\* Variant: the handle is dropped whatever the result was.
MutSyncWrite(s) ==
  /\ sync[s].at = "write"
  /\ \/ Upsert(s, Reconciled(s))
     \/ sync[s].res = sync[s].old /\ UNCHANGED row
  /\ sync' = [sync EXCEPT ![s].at = "drop"]
  /\ UNCHANGED <<mirror, live, start, stop, sweep, crashes>>

\* applyLive writes the row read when the call began, if anything changed.
SyncWrite(s) ==
  /\ sync[s].at = "write"
  /\ \/ Upsert(s, Reconciled(s))
     \/ sync[s].res = sync[s].old /\ UNCHANGED row
  /\ IF Terminal(sync[s].res)
     THEN sync' = [sync EXCEPT ![s].at = "drop"]
     ELSE SyncEnd(s, Reconciled(s))
  /\ UNCHANGED <<mirror, live, start, stop, sweep, crashes>>

\* A capture that ended by itself loses its handle.
SyncDrop(s) ==
  /\ sync[s].at = "drop"
  /\ procs' = procs \ {s}
  /\ SyncEnd(s, sync[s].res)
  /\ UNCHANGED <<rows, proc, file, aged, start, stop, sweep, crashes>>

\* applyLive on the coordinator's copy, which was running when it was read.
SyncAnswer(s) ==
  /\ sync[s].at = "answer"
  /\ \/ UpsertMirror(s, sync[s].res)
     \/ /\ sync[s].res = "running" \/ "net" \in Faults
        /\ UNCHANGED mirror
  /\ sync' = [sync EXCEPT ![s] = IdleSync]
  /\ UNCHANGED <<row, live, start, stop, sweep, crashes>>

-----------------------------------------------------------------------------
(* Sweep, on the owner.                                                    *)

\* Variant: a row still marked running is left to its capture.
MutSweepBegin(s) ==
  /\ sweep[s] = "idle" /\ MayBegin(s)
  /\ row[s] \notin {"none", "purged", "running"} /\ s \in aged
  /\ sweep' = [sweep EXCEPT ![s] = "take"]
  /\ UNCHANGED <<rows, live, start, stop, sync, crashes>>

SweepBegin(s) ==
  /\ sweep[s] = "idle" /\ MayBegin(s)
  /\ row[s] \notin {"none", "purged"} /\ s \in aged
  /\ sweep' = [sweep EXCEPT ![s] = "take"]
  /\ UNCHANGED <<rows, live, start, stop, sync, crashes>>

SweepTake(s) ==
  /\ sweep[s] = "take"
  /\ procs' = procs \ {s}
  /\ sweep' = [sweep EXCEPT ![s] = IF s \in procs THEN "halt" ELSE "remove"]
  /\ UNCHANGED <<rows, proc, file, aged, start, stop, sync, crashes>>

SweepHalt(s) ==
  /\ sweep[s] = "halt"
  /\ proc' = [proc EXCEPT ![s] = Halted(@)]
  /\ sweep' = [sweep EXCEPT ![s] = "remove"]
  /\ UNCHANGED <<rows, procs, file, aged, start, stop, sync, crashes>>

SweepRemove(s) ==
  /\ sweep[s] = "remove"
  /\ file' = file \ {s}
  /\ sweep' = [sweep EXCEPT ![s] = "mark"]
  /\ UNCHANGED <<rows, proc, procs, aged, start, stop, sync, crashes>>

\* Variant: a failed removal is logged and the row marked all the same.
MutSweepRemoveFails(s) ==
  /\ "unlink" \in Faults
  /\ sweep[s] = "remove"
  /\ sweep' = [sweep EXCEPT ![s] = "mark"]
  /\ UNCHANGED <<rows, live, start, stop, sync, crashes>>

\* A failed removal is left to the next sweep.
SweepRemoveFails(s) ==
  /\ "unlink" \in Faults
  /\ sweep[s] = "remove"
  /\ sweep' = [sweep EXCEPT ![s] = "idle"]
  /\ UNCHANGED <<rows, live, start, stop, sync, crashes>>

SweepMark(s) ==
  /\ sweep[s] = "mark"
  /\ Upsert(s, "purged")
  /\ sweep' = [sweep EXCEPT ![s] = "idle"]
  /\ UNCHANGED <<mirror, live, start, stop, sync, crashes>>

-----------------------------------------------------------------------------
(* The environment: caps, the clock, daemons that restart.                 *)

\* The process stops itself at a duration, byte or packet cap.
HitsCap(s) ==
  /\ proc[s] = "running"
  /\ proc' = [proc EXCEPT ![s] = "completed"]
  /\ UNCHANGED <<rows, procs, file, aged, calls, crashes>>

Ages(s) ==
  /\ start[s].at \in {"answer", "end"} /\ s \notin aged
  /\ aged' = aged \cup {s}
  /\ UNCHANGED <<rows, proc, procs, file, calls, crashes>>

\* The owner restarts, after StopAll or without it: the handles and the calls
\* it ran are gone, its rows and files stay; a coordinator that waited for its
\* answer gets an error.
OwnerRestarts(s) ==
  /\ start[s].at # "new"
  /\ proc' = [proc EXCEPT ![s] = IF @ = "running" THEN "stopped" ELSE @]
  /\ procs' = procs \ {s}
  /\ start' = [start EXCEPT ![s] =
       IF @.at \in {"register", "write"} /\ @.via = "coordinator"
       THEN [@ EXCEPT !.at = "answer", !.res = "error"]
       ELSE IF @.at = "answer" THEN @ ELSE [@ EXCEPT !.at = "end"]]
  /\ stop' = [stop EXCEPT ![s] =
       IF @.at \in {"take", "halt", "write"}
       THEN IF @.via = "coordinator" THEN [@ EXCEPT !.at = "answer", !.res = "stopped"]
                                     ELSE IdleStop
       ELSE @]
  /\ sync' = [sync EXCEPT ![s] = IF @.at \in {"send", "answer"} THEN @ ELSE IdleSync]
  /\ sweep' = [sweep EXCEPT ![s] = "idle"]
  /\ UNCHANGED <<rows, file, aged>>

\* The coordinator of a peer's session restarts: what the peer does for it
\* goes on, and nobody waits for the answer.
CoordinatorRestarts(s) ==
  /\ s \in Remotes /\ start[s].at # "new"
  /\ start' = [start EXCEPT ![s] = IF @.at = "answer" THEN [@ EXCEPT !.at = "end"]
                                   ELSE [@ EXCEPT !.via = "owner"]]
  /\ stop' = [stop EXCEPT ![s] = IF @.at \in {"send", "answer"} THEN IdleStop
                                 ELSE [@ EXCEPT !.via = "owner"]]
  /\ sync' = [sync EXCEPT ![s] = IF @.at \in {"send", "answer"} THEN IdleSync
                                 ELSE [@ EXCEPT !.via = "owner"]]
  /\ UNCHANGED <<rows, live, sweep>>

Restart(s) ==
  /\ crashes < MaxCrashes
  /\ crashes' = crashes + 1
  /\ OwnerRestarts(s) \/ CoordinatorRestarts(s)

-----------------------------------------------------------------------------
StartStep(s) == StartAgent(s) \/ StartRegister(s) \/ StartWrite(s) \/ StartAnswer(s)

StopStep(s) ==
  \/ StopSend(s) \/ StopTake(s) \/ StopHalt(s) \/ StopWrite(s) \/ StopAnswer(s)

SyncStep(s) ==
  \/ SyncSend(s) \/ SyncLook(s) \/ SyncResult(s)
  \/ SyncWrite(s) \/ SyncDrop(s) \/ SyncAnswer(s)

SweepStep(s) ==
  SweepBegin(s) \/ SweepTake(s) \/ SweepHalt(s) \/ SweepRemove(s) \/ SweepMark(s)

Next ==
  \E s \in Sessions :
    \/ StartStep(s)
    \/ StopBegin(s) \/ StopBeginRemote(s) \/ StopStep(s)
    \/ SyncBegin(s) \/ SyncBeginRemote(s) \/ SyncStep(s)
    \/ SweepStep(s) \/ SweepRemoveFails(s)
    \/ HitsCap(s) \/ Ages(s) \/ Restart(s)

Spec == Init /\ [][Next]_vars

-----------------------------------------------------------------------------
(* Properties.                                                             *)

\* No capture escapes the coordinator: a process that runs is in procs, where
\* stop, sweep and StopAll find it, or the call that took it out is about to
\* stop it (coordinator.go: startLocal, stopLocalProc, syncLocal, Sweep).
LiveIsReachable ==
  \A s \in Sessions :
    proc[s] = "running" => \/ s \in procs
                           \/ start[s].at = "register"
                           \/ stop[s].at = "halt"
                           \/ sweep[s] = "halt"

\* StopGroup skips terminal rows, so a capture that runs must have a row that
\* says so, whatever polls, stops and sweeps wrote it last.
StopFindsLive ==
  \A s \in Sessions :
    proc[s] = "running" /\ s \in procs /\ start[s].at # "write" => row[s] = "running"

\* A row says purged only when the file is gone (Sweep marks after it removes,
\* and a removal that failed marks nothing).
PurgedHasNoFile == \A s \in Sessions : row[s] = "purged" => s \notin file

\* The three together; the second, while the store takes every write.
CapturesAreKept ==
  /\ LiveIsReachable
  /\ PurgedHasNoFile
  /\ "store" \notin Faults => StopFindsLive

\* Every file a row names is removed some time after its retention window,
\* across restarts, failed removals and calls that rewrite the row.
RowedFileExpires ==
  \A s \in Sessions :
    []<>(s \in aged /\ row[s] # "none" => s \notin file)

\* The claim of doc.go that the sweep deletes every file past its retention,
\* the ones a restart orphaned in the middle of a capture included.
FileExpires == \A s \in Sessions : (s \in file /\ s \in aged) ~> s \notin file

\* The claim of Status.Terminal: a capture never leaves a terminal state (but
\* for the purge of its file).
TerminalIsFinal ==
  [][\A s \in Sessions : Terminal(row[s]) => row'[s] \in {row[s], "purged"}
                                             /\ (row[s] = "purged" => row'[s] = "purged")]_vars

\* The claim of StatusStopped: stopped by an operator before any cap was hit.
StoppedBeforeCap == \A s \in Sessions : row[s] = "stopped" => proc[s] # "completed"

\* The claim of Sweep: the file of a capture that is being written is never
\* unlinked.
NeverUnlinkActive ==
  [][\A s \in Sessions : s \in file \ file' => proc[s] # "running"]_vars

\* The claim of doc.go that stopping a group stops every member: a session
\* the coordinator calls stopped captures nothing.
StopReachesMember == \A s \in Sessions : mirror[s] = "stopped" => proc[s] # "running"

\* The claim of StatusError: the capture failed to start or failed while it
\* ran, so it captures nothing.
ErrorCapturesNothing == \A s \in Sessions : mirror[s] = "error" => proc[s] # "running"

=============================================================================
