----------------------------- MODULE SIEMExport -----------------------------
(***************************************************************************)
(* The export of the audit log and of the findings stream to a SIEM        *)
(* (internal/siemexport, cmd/vnproxd/siemexport.go): a bounded buffer that *)
(* any goroutine appends to, one sender that drains it, and the tracker    *)
(* that turns the findings of a cycle into transitions.                    *)
(*                                                                         *)
(* An event is its number, in the order of the appends, and what it says:  *)
(* an audit row, or the state a finding has moved to.  far is what the far *)
(* end makes of the transitions it received.                               *)
(***************************************************************************)
EXTENDS Naturals, Sequences, FiniteSets

CONSTANTS Auditors,   \* goroutines that append audit rows
          Findings,   \* finding ids
          Capacity,   \* Exporter.capacity
          SendFails,  \* TRUE: Sink.Send may fail
          Shutdowns,  \* TRUE: the daemon may be told to stop
          MaxEvents, MaxRestarts

SIEMExportAssumption ==
  /\ Capacity \in Nat \ {0}
  /\ SendFails \in BOOLEAN /\ Shutdowns \in BOOLEAN
  /\ MaxEvents \in Nat /\ MaxRestarts \in Nat
  /\ "audit" \notin Findings

VARIABLES buf,       \* Exporter.buf
          wake,      \* the wake channel holds a token
          sender,    \* Run: where it is and the event it holds
          sent, dropped,
          appended,  \* history: events appended since the start
          caller,    \* producers between the append and the wake-up
          prev,      \* siemFindingsTracker.prev
          observed,  \* history: a cycle was observed since the start
          todo,      \* transitions of the cycle not exported yet
          stopping,  \* the daemon's context is cancelled
          far,       \* the state of every finding as the far end knows it
          got, last, \* history: events received, and the latest one's number
          restarts

exporter == <<buf, wake, sent, dropped, appended>>
remote   == <<far, got, last>>
vars == <<buf, wake, sender, sent, dropped, appended, caller, prev, observed, todo,
          stopping, far, got, last, restarts>>

Producers == Auditors \cup {"tracker"}
States    == {"none", "warning", "error"}
Texts     == {<<"audit", "none">>} \cup (Findings \X States)
Events    == [n : 1 .. MaxEvents, text : Texts]
NoEvent   == [n |-> 0, text |-> <<"audit", "none">>]

TypeOK ==
  /\ buf \in Seq(Events) /\ Len(buf) <= Capacity
  /\ wake \in BOOLEAN
  /\ sender \in [at : {"loop", "empty", "wait", "send", "backoff", "stopped"}, ev : Events \cup {NoEvent}]
  /\ sent \in 0 .. MaxEvents /\ dropped \in 0 .. MaxEvents
  /\ appended \in 0 .. MaxEvents
  /\ caller \subseteq Producers
  /\ prev \in [Findings -> States] /\ far \in [Findings -> States]
  /\ todo \subseteq Findings \X States
  /\ stopping \in BOOLEAN /\ observed \in BOOLEAN
  /\ got \in 0 .. MaxEvents * (MaxRestarts + 1) /\ last \in 0 .. MaxEvents
  /\ restarts \in 0 .. MaxRestarts

Unseen == [f \in Findings |-> "none"]

Init ==
  /\ buf = << >> /\ wake = FALSE
  /\ sender = [at |-> "loop", ev |-> NoEvent]
  /\ sent = 0 /\ dropped = 0 /\ appended = 0
  /\ caller = {} /\ prev = Unseen /\ observed = FALSE /\ todo = {} /\ stopping = FALSE
  /\ far = Unseen /\ got = 0 /\ last = 0 /\ restarts = 0

-----------------------------------------------------------------------------
(* enqueue: the append, under the lock, and the wake-up after it.          *)

\* Variant: a full buffer refuses the new event.
MutAdmit(ev) ==
  IF Len(buf) >= Capacity
  THEN buf' = buf /\ dropped' = dropped + 1
  ELSE buf' = Append(buf, ev) /\ UNCHANGED dropped

\* Variant: the buffer is full one event too late.
MutAdmitLate(ev) ==
  IF Len(buf) > Capacity
  THEN buf' = Append(Tail(buf), ev) /\ dropped' = dropped + 1
  ELSE buf' = Append(buf, ev) /\ UNCHANGED dropped

\* Variant: the eviction is not counted.
MutAdmitSilently(ev) ==
  /\ buf' = Append(IF Len(buf) >= Capacity THEN Tail(buf) ELSE buf, ev)
  /\ UNCHANGED dropped

\* A full buffer loses its oldest event to the new one.
Admit(ev) ==
  IF Len(buf) >= Capacity
  THEN buf' = Append(Tail(buf), ev) /\ dropped' = dropped + 1
  ELSE buf' = Append(buf, ev) /\ UNCHANGED dropped

Enqueue(p, text) ==
  /\ p \notin caller /\ appended < MaxEvents
  /\ Admit([n |-> appended + 1, text |-> text])
  /\ appended' = appended + 1
  /\ caller' = caller \cup {p}
  /\ UNCHANGED <<wake, sender, sent, prev, observed, stopping, remote, restarts>>

ExportAudit(p) == Enqueue(p, <<"audit", "none">>) /\ UNCHANGED todo

\* The transitions of one cycle leave in the order of a map's iteration.
ExportFinding ==
  \E t \in todo : Enqueue("tracker", t) /\ todo' = todo \ {t}

\* Variant: the channel has no buffer, so only a sender already waiting hears.
MutSignalled == wake \/ sender.at = "wait"

\* The wake channel keeps one token.
Signalled == TRUE

Signal(p) ==
  /\ p \in caller
  /\ wake' = Signalled
  /\ caller' = caller \ {p}
  /\ UNCHANGED <<buf, sender, sent, dropped, appended, prev, observed, todo, stopping, remote, restarts>>

\* Variant: a change of severity is not a transition.
MutTransitions(cur) ==
  {<<f, cur[f]>> : f \in {g \in Findings : (cur[g] = "none") # (prev[g] = "none")}}

\* New, of another severity, or resolved.
Transitions(cur) == {<<f, cur[f]>> : f \in {g \in Findings : cur[g] # prev[g]}}

\* observe: the findings of one cycle, after those of the cycle before.
Observe(cur) ==
  /\ todo = {} /\ "tracker" \notin caller
  /\ Cardinality(Transitions(cur)) <= MaxEvents - appended
  /\ prev' = cur /\ observed' = TRUE
  /\ todo' = Transitions(cur)
  /\ UNCHANGED <<exporter, sender, caller, stopping, remote, restarts>>

-----------------------------------------------------------------------------
(* Run.                                                                    *)

At(place) == [sender EXCEPT !.at = place]

Dequeue ==
  /\ sender.at = "loop" /\ buf # << >>
  /\ sender' = [at |-> "send", ev |-> Head(buf)]
  /\ buf' = Tail(buf)
  /\ UNCHANGED <<wake, sent, dropped, appended, caller, prev, observed, todo, stopping, remote, restarts>>

\* The buffer was empty; the lock is released before the sender waits.
Starve ==
  /\ sender.at = "loop" /\ buf = << >>
  /\ sender' = At("empty")
  /\ UNCHANGED <<exporter, caller, prev, observed, todo, stopping, remote, restarts>>

Park ==
  /\ sender.at = "empty"
  /\ sender' = At("wait")
  /\ UNCHANGED <<exporter, caller, prev, observed, todo, stopping, remote, restarts>>

Wake ==
  /\ sender.at = "wait" /\ wake
  /\ wake' = FALSE
  /\ sender' = At("loop")
  /\ UNCHANGED <<buf, sent, dropped, appended, caller, prev, observed, todo, stopping, remote, restarts>>

Received ==
  /\ got' = got + 1 /\ last' = sender.ev.n
  /\ far' = [f \in Findings |-> IF sender.ev.text[1] = f THEN sender.ev.text[2] ELSE far[f]]

Sent ==
  /\ sender.at = "send"
  /\ Received
  /\ sent' = sent + 1
  /\ sender' = [at |-> "loop", ev |-> NoEvent]
  /\ UNCHANGED <<buf, wake, dropped, appended, caller, prev, observed, todo, stopping, restarts>>

\* Variant: the event goes back to a buffer that has nothing newer.
MutSendFailed ==
  /\ sender.at = "send" /\ (SendFails \/ stopping)
  /\ \/ Received
     \/ UNCHANGED remote
  /\ sender' = [at |-> "backoff", ev |-> NoEvent]
  /\ IF buf = << >> THEN buf' = <<sender.ev>> /\ UNCHANGED dropped
                    ELSE dropped' = dropped + 1 /\ UNCHANGED buf
  /\ UNCHANGED <<wake, sent, appended, caller, prev, observed, todo, stopping, restarts>>

\* A failed Send, whose event may have arrived: counted, not tried again.
SendFailed ==
  /\ sender.at = "send" /\ (SendFails \/ stopping)
  /\ \/ Received
     \/ UNCHANGED remote
  /\ dropped' = dropped + 1
  /\ sender' = [at |-> "backoff", ev |-> NoEvent]
  /\ UNCHANGED <<buf, wake, sent, appended, caller, prev, observed, todo, stopping, restarts>>

Resume ==
  /\ sender.at = "backoff"
  /\ sender' = At("loop")
  /\ UNCHANGED <<exporter, caller, prev, observed, todo, stopping, remote, restarts>>

-----------------------------------------------------------------------------
Shutdown ==
  /\ Shutdowns /\ ~stopping
  /\ stopping' = TRUE
  /\ UNCHANGED <<exporter, sender, caller, prev, observed, todo, remote, restarts>>

\* Run returns from one of its waits and closes the sink.
Stop ==
  /\ stopping /\ sender.at \in {"wait", "backoff"}
  /\ sender' = At("stopped")
  /\ UNCHANGED <<exporter, caller, prev, observed, todo, stopping, remote, restarts>>

\* The daemon starts again, or dies and starts again: nothing was kept.
Restart ==
  /\ restarts < MaxRestarts
  /\ restarts' = restarts + 1
  /\ buf' = << >> /\ wake' = FALSE
  /\ sender' = [at |-> "loop", ev |-> NoEvent]
  /\ sent' = 0 /\ dropped' = 0 /\ appended' = 0 /\ last' = 0
  /\ caller' = {} /\ prev' = Unseen /\ observed' = FALSE /\ todo' = {} /\ stopping' = FALSE
  /\ UNCHANGED <<far, got>>

Run == Dequeue \/ Starve \/ Park \/ Wake \/ Sent \/ SendFailed \/ Resume \/ Stop

Next ==
  \/ \E p \in Auditors : ExportAudit(p)
  \/ ExportFinding
  \/ \E p \in Producers : Signal(p)
  \/ \E cur \in [Findings -> States] : Observe(cur)
  \/ Run \/ Shutdown \/ Restart

Spec == Init /\ [][Next]_vars

-----------------------------------------------------------------------------
\* The counters account for every event: it was sent, counted as dropped, is
\* in the buffer or in the sender's hands.
Accounted ==
  appended = sent + dropped + Len(buf) + (IF sender.at = "send" THEN 1 ELSE 0)

\* The far end sees no event twice and none before an earlier one, across
\* evictions, failed sends whose event arrived, and producers that overlap.
OnceInOrder == got' > got => last' > last

\* Under pressure it is the past that is given up: the buffer holds the
\* latest events without a gap.
NewestKept ==
  \A i \in 1 .. Len(buf) : buf[i].n = appended - Len(buf) + i

\* No wake-up is lost: whatever is in the buffer is taken from it or evicted.
EventuallyAttempted ==
  \A n \in 1 .. MaxEvents :
    []<>(\A i \in 1 .. Len(buf) : buf[i].n # n)

\* Once everything is out and nothing was lost, the far end's picture of the
\* findings is that of the last cycle: each appearance, change of severity and
\* resolution was exported.
FeedIsExact ==
  /\ todo = {} /\ buf = << >> /\ sender.at \in {"loop", "empty", "wait"}
  /\ dropped = 0 /\ observed
  => far = prev

\* The three together; the last, as long as no restart forgets what was said.
FeedIsWhole == Accounted /\ NewestKept /\ (MaxRestarts = 0 => FeedIsExact)

\* The missing half is never silent: the exporter does not stop before every
\* event was sent or counted as dropped.
LossIsCounted == [][sender.at # "stopped" /\ sender'.at = "stopped" => buf = << >>]_vars
=============================================================================
