------------------------------ MODULE EventHub ------------------------------
(***************************************************************************)
(* topology/hub.go: the connections of /api/ws, their topics and bounded   *)
(* queues, and the broadcasts of the daemon's goroutines. A broadcast      *)
(* copies the set of connections under the hub's mutex and visits them     *)
(* without it, so connections come, go and subscribe anew meanwhile.       *)
(* Events are numbered in the order their broadcasts began. What a         *)
(* connection does for presence is in Presence.                            *)
(***************************************************************************)
EXTENDS Naturals, Sequences

CONSTANTS None, Conns,
          Automation,  \* connections whose session has the automation scope
          Tokened,     \* connections a bearer token opened
          Senders,     \* goroutines that broadcast
          Room,        \* wsSendQueueSize
          MaxEvents, MaxSubscribes

HubAssumption ==
  /\ Automation \subseteq Conns /\ Tokened \subseteq Conns
  /\ Room \in Nat \ {0} /\ MaxEvents \in Nat /\ MaxSubscribes \in Nat

VARIABLES
  conn,    \* connection -> "none", "open" (in the hub's set) or "gone"
  ws,      \* connection -> its socket is open
  topics,  \* connection -> the topics it is subscribed to
  queue,   \* connection -> its outbound channel
  out,     \* connection -> the event its write loop has in hand
  got,     \* connection -> the events that reached the client
  lost,    \* connection -> the events dropped because the channel was full
  cast,    \* sender -> the broadcast under way
  sunk,    \* the events handed to the sink of webhooks
  count,   \* events broadcast
  changes  \* subscriptions made

vars == <<conn, ws, topics, queue, out, got, lost, cast, sunk, count, changes>>
connVars == <<conn, ws, topics, queue, out, got, lost>>

Topics == {"topology", "changesets", "events"}

\* eventsSourceTopics, and the topic itself.
FeedsEvents(t) == t \in {"changesets", "events"}

\* The topics by which an event of topic t reaches a connection.
Covers(t) == IF FeedsEvents(t) THEN {t, "events"} ELSE {t}

NoCast == [at |-> "idle", topic |-> None, ev |-> 0, todo |-> {}, cur |-> None,
           visited |-> {}, held |-> [c \in Conns |-> {}]]

TypeOK ==
  /\ conn \in [Conns -> {"none", "open", "gone"}]
  /\ ws \in [Conns -> BOOLEAN]
  /\ topics \in [Conns -> SUBSET Topics]
  /\ \A c \in Conns :
       /\ queue[c] \in Seq(1 .. MaxEvents) /\ got[c] \in Seq(1 .. MaxEvents)
       /\ out[c] \in 0 .. MaxEvents /\ lost[c] \subseteq 1 .. MaxEvents
  /\ \A s \in Senders :
       /\ cast[s].at \in {"idle", "next", "events", "sink"}
       /\ cast[s].todo \subseteq Conns /\ cast[s].cur \in Conns \cup {None}
  /\ sunk \in Seq(1 .. MaxEvents)
  /\ count \in 0 .. MaxEvents /\ changes \in 0 .. MaxSubscribes

Init ==
  /\ conn = [c \in Conns |-> "none"]
  /\ ws = [c \in Conns |-> FALSE]
  /\ topics = [c \in Conns |-> {}]
  /\ queue = [c \in Conns |-> <<>>]
  /\ out = [c \in Conns |-> 0]
  /\ got = [c \in Conns |-> <<>>]
  /\ lost = [c \in Conns |-> {}]
  /\ cast = [s \in Senders |-> NoCast]
  /\ sunk = <<>>
  /\ count = 0 /\ changes = 0

-----------------------------------------------------------------------------
\* ServeWS up to h.add.
Accept(c) ==
  /\ conn[c] = "none"
  /\ conn' = [conn EXCEPT ![c] = "open"]
  /\ ws' = [ws EXCEPT ![c] = TRUE]
  /\ UNCHANGED <<topics, queue, out, got, lost, cast, sunk, count, changes>>

\* readLoop and setTopics: a subscribe message replaces the set of topics, but
\* for the events topic without the scope.
Subscribe(c, asked) ==
  /\ conn[c] = "open" /\ ws[c] /\ changes < MaxSubscribes
  /\ LET T == IF c \in Automation THEN asked ELSE asked \ {"events"} IN
     /\ topics' = [topics EXCEPT ![c] = T]
     /\ cast' = [s \in Senders |-> [cast[s] EXCEPT !.held[c] = @ \cap T]]
  /\ changes' = changes + 1
  /\ UNCHANGED <<conn, ws, queue, out, got, lost, sunk, count>>

\* The client closes, or the connection breaks.
Disconnect(c) ==
  /\ ws[c]
  /\ ws' = [ws EXCEPT ![c] = FALSE]
  /\ UNCHANGED <<conn, topics, queue, out, got, lost, cast, sunk, count, changes>>

\* CloseByTokenID: every connection of the token that is in the set.
CloseByTokenID ==
  /\ \E c \in Tokened : conn[c] = "open" /\ ws[c]
  /\ ws' = [c \in Conns |-> ws[c] /\ ~(c \in Tokened /\ conn[c] = "open")]
  /\ UNCHANGED <<conn, topics, queue, out, got, lost, cast, sunk, count, changes>>

\* The read loop finds the socket closed, the write loop is cancelled, and the
\* connection leaves the set; what is in its channel is never read.
Remove(c) ==
  /\ conn[c] = "open" /\ ~ws[c]
  /\ conn' = [conn EXCEPT ![c] = "gone"]
  /\ out' = [out EXCEPT ![c] = 0]
  /\ UNCHANGED <<ws, topics, queue, got, lost, cast, sunk, count, changes>>

\* writeLoop: takes the next event from the channel.
Take(c) ==
  /\ conn[c] = "open" /\ out[c] = 0 /\ queue[c] # <<>>
  /\ out' = [out EXCEPT ![c] = Head(queue[c])]
  /\ queue' = [queue EXCEPT ![c] = Tail(@)]
  /\ UNCHANGED <<conn, ws, topics, got, lost, cast, sunk, count, changes>>

\* writeLoop: the write succeeds, or fails, at the latest after wsWriteTimeout;
\* the library closes the socket of a write that failed.
Write(c) ==
  /\ out[c] # 0
  /\ \/ ws[c] /\ got' = [got EXCEPT ![c] = Append(@, out[c])] /\ out' = [out EXCEPT ![c] = 0] /\ ws' = ws
     \/ ws' = [ws EXCEPT ![c] = FALSE] /\ UNCHANGED <<got, out>>
  /\ UNCHANGED <<conn, topics, queue, lost, cast, sunk, count, changes>>

-----------------------------------------------------------------------------
\* Mutant: the send waits for room in the channel.
MutEnqueue(c, ev) ==
  /\ Len(queue[c]) < Room
  /\ queue' = [queue EXCEPT ![c] = Append(@, ev)] /\ lost' = lost

\* enqueue: an event for which there is no room is dropped.
Enqueue(c, ev) ==
  IF Len(queue[c]) < Room
    THEN queue' = [queue EXCEPT ![c] = Append(@, ev)] /\ lost' = lost
    ELSE lost' = [lost EXCEPT ![c] = @ \cup {ev}] /\ queue' = queue

\* Broadcast: the connections are copied under the mutex.
Broadcast(s, t) ==
  /\ cast[s].at = "idle" /\ count < MaxEvents
  /\ count' = count + 1
  /\ cast' = [cast EXCEPT ![s] = [at |-> "next", topic |-> t, ev |-> count + 1,
       todo |-> {c \in Conns : conn[c] = "open"}, cur |-> None, visited |-> {},
       held |-> [c \in Conns |-> IF conn[c] = "open" THEN topics[c] \cap Covers(t) ELSE {}]]]
  /\ UNCHANGED <<conn, ws, topics, queue, out, got, lost, sunk, changes>>

\* Mutant: a connection that got the event by its topic gets it as an event too.
MutVisit(s, c) ==
  LET b == cast[s] IN
  /\ b.at = "next" /\ c \in b.todo
  /\ IF b.topic \in topics[c] THEN Enqueue(c, b.ev) ELSE UNCHANGED <<queue, lost>>
  /\ cast' = [cast EXCEPT ![s] = [b EXCEPT !.todo = @ \ {c},
       !.at = "events", !.cur = c]]
  /\ UNCHANGED <<conn, ws, topics, out, got, sunk, count, changes>>

\* Mutant: who is not subscribed to the topic itself is passed over.
MutVisitOnce(s, c) ==
  LET b == cast[s] IN
  /\ b.at = "next" /\ c \in b.todo
  /\ IF b.topic \in topics[c] THEN Enqueue(c, b.ev) ELSE UNCHANGED <<queue, lost>>
  /\ cast' = [cast EXCEPT ![s].todo = @ \ {c}, ![s].visited = @ \cup {c}]
  /\ UNCHANGED <<conn, ws, topics, out, got, sunk, count, changes>>

\* The first check of a connection, with the send it leads to: what the client
\* subscribes between the two does not matter to either.
Visit(s, c) ==
  LET b == cast[s]
      direct == b.topic \in topics[c]
      again == FeedsEvents(b.topic) /\ b.topic # "events" /\ ~direct
  IN
  /\ b.at = "next" /\ c \in b.todo
  /\ IF direct THEN Enqueue(c, b.ev) ELSE UNCHANGED <<queue, lost>>
  /\ cast' = [cast EXCEPT ![s] = [b EXCEPT !.todo = @ \ {c},
       !.at = IF again THEN "events" ELSE "next", !.cur = IF again THEN c ELSE None,
       !.visited = IF again THEN @ ELSE @ \cup {c}]]
  /\ UNCHANGED <<conn, ws, topics, out, got, sunk, count, changes>>

\* The second check: does it want the event by the events topic.
VisitEvents(s) ==
  LET b == cast[s] IN
  /\ b.at = "events"
  /\ IF "events" \in topics[b.cur] THEN Enqueue(b.cur, b.ev) ELSE UNCHANGED <<queue, lost>>
  /\ cast' = [cast EXCEPT ![s].at = "next", ![s].cur = None, ![s].visited = @ \cup {b.cur}]
  /\ UNCHANGED <<conn, ws, topics, out, got, sunk, count, changes>>

\* The end of Broadcast: what feeds the events topic goes to the sink.
Sink(s) ==
  /\ cast[s].at = "next" /\ cast[s].todo = {}
  /\ sunk' = IF FeedsEvents(cast[s].topic) THEN Append(sunk, cast[s].ev) ELSE sunk
  /\ cast' = [cast EXCEPT ![s] = NoCast]
  /\ UNCHANGED <<conn, ws, topics, queue, out, got, lost, count, changes>>

CastStep(s) == (\E c \in Conns : Visit(s, c)) \/ VisitEvents(s) \/ Sink(s)

Next ==
  \/ \E c \in Conns : Accept(c) \/ Disconnect(c) \/ Remove(c) \/ Take(c) \/ Write(c)
  \/ \E c \in Conns, T \in SUBSET Topics : Subscribe(c, T)
  \/ CloseByTokenID
  \/ \E s \in Senders, t \in Topics : Broadcast(s, t)
  \/ \E s \in Senders : CastStep(s)

Spec == Init /\ [][Next]_vars

-----------------------------------------------------------------------------
\* What a connection got or still will get, in order.
Stream(c) == got[c] \o (IF out[c] = 0 THEN <<>> ELSE <<out[c]>>) \o queue[c]

\* No client gets an event twice, also when it is subscribed to an event's
\* topic and to events, or subscribes anew in the middle of a broadcast.
NoDuplicate ==
  \A c \in Conns : \A i, j \in 1 .. Len(Stream(c)) : Stream(c)[i] = Stream(c)[j] => i = j

\* A broadcast passes over no connection that keeps a topic by which it wants
\* the event: it is in its stream, or dropped because the client is slow, or
\* the connection ended.
SubscriberIsServed ==
  \A s \in Senders : \A c \in cast[s].visited :
    cast[s].held[c] # {} /\ ws[c] =>
      \/ cast[s].ev \in lost[c]
      \/ \E i \in 1 .. Len(Stream(c)) : Stream(c)[i] = cast[s].ev

\* No client gets more than it asked for, and none less.
FeedIsWhole == NoDuplicate /\ SubscriberIsServed

\* A broadcast ends, whatever clients do not read.
BroadcastEnds == \A s \in Senders : []<>(cast[s].at = "idle")
=============================================================================
