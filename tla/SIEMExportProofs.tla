-------------------------- MODULE SIEMExportProofs --------------------------
(***************************************************************************)
(* The exporter's promises for every capacity, number of producers and of  *)
(* restarts: its counters account for every event, the buffer keeps the    *)
(* latest events, the far end sees none twice or out of order, and once    *)
(* nothing was lost it has the tracker's own picture of the findings. The  *)
(* last two parts carry more of the state: its types, and where the latest *)
(* transition of a finding is.                                             *)
(***************************************************************************)
EXTENDS SIEMExport, TLAPS

\* What the counters and the buffer are, as far as the promises depend on it.
ExportTypes ==
  /\ buf \in Seq(Events)
  /\ appended \in Nat /\ sent \in Nat /\ dropped \in Nat
  /\ last \in Nat /\ got \in Nat
  /\ sender.at \in {"loop", "empty", "wait", "send", "backoff", "stopped"}
  /\ todo \subseteq Findings \X States

\* The event in the sender's hands is later than what arrived and earlier than
\* what is in the buffer.
InOrder ==
  /\ last + Len(buf) <= appended
  /\ sender.at = "send" =>
       /\ sender.ev.n \in Nat
       /\ last < sender.ev.n
       /\ sender.ev.n + Len(buf) <= appended

\* The inductive invariant. NewestKept gives the number of the event that
\* Dequeue takes, on which InOrder rests.
ExportInv == ExportTypes /\ Accounted /\ NewestKept /\ InOrder

\* An append leaves what is there in its place.
LEMMA AppendKeeps ==
  ASSUME NEW S, NEW s \in Seq(S), NEW e \in S, NEW i \in 1 .. Len(s)
  PROVE  Append(s, e)[i] = s[i]
  OBVIOUS

\* Evicting the oldest moves every other event one place forward.
LEMMA Shifted ==
  ASSUME NEW S, NEW s \in Seq(S), NEW e \in S, NEW i \in Nat, 0 < i, i < Len(s)
  PROVE  Append(Tail(s), e)[i] = s[i + 1]
<1>1. Tail(s) \in Seq(S) /\ Len(Tail(s)) = Len(s) - 1 /\ Len(s) \in Nat
  OBVIOUS
<1>2. Tail(s)[i] = s[i + 1]
  OBVIOUS
<1>3. i \in 1 .. Len(Tail(s))
  BY <1>1
<1>4. Append(Tail(s), e)[i] = Tail(s)[i]
  BY AppendKeeps, <1>1, <1>3
<1> QED
  BY <1>2, <1>4

\* enqueue: the new event goes to the end, and what it displaces is the oldest.
LEMMA AdmitKeeps ==
  ASSUME SIEMExportAssumption, ExportInv,
         NEW p, NEW text \in Texts, Enqueue(p, text), todo' \subseteq Findings \X States
  PROVE  ExportInv'
<1> DEFINE ev == [n |-> appended + 1, text |-> text]
<1>1. ev \in Events /\ ev.n = appended + 1
  BY DEF Enqueue, Events, ExportInv, ExportTypes, SIEMExportAssumption
<1>2. CASE Len(buf) >= Capacity
  <2>1. buf # << >> /\ Len(buf) \in Nat /\ Len(buf) > 0
    BY <1>2 DEF ExportInv, ExportTypes, SIEMExportAssumption
  <2>2. buf' = Append(Tail(buf), ev) /\ dropped' = dropped + 1 /\ appended' = appended + 1
    BY <1>2 DEF Enqueue, Admit
  <2>3. Tail(buf) \in Seq(Events) /\ Len(Tail(buf)) = Len(buf) - 1
    BY <2>1 DEF ExportInv, ExportTypes
  <2>4. buf' \in Seq(Events) /\ Len(buf') = Len(buf)
    BY <1>1, <2>1, <2>2, <2>3
  <2>5. ExportTypes'
    BY <2>2, <2>4 DEF ExportInv, ExportTypes, Enqueue, remote
  <2>6. Accounted'
    BY <2>2, <2>4 DEF ExportInv, ExportTypes, Accounted, Enqueue
  <2>7. NewestKept'
    <3> SUFFICES ASSUME NEW i \in 1 .. Len(buf')
                 PROVE  buf'[i].n = appended' - Len(buf') + i
      BY DEF NewestKept
    <3>1. CASE i = Len(buf)
      BY <1>1, <2>1, <2>2, <2>3, <2>4, <3>1 DEF ExportInv, ExportTypes
    <3>2. CASE i < Len(buf)
      <4> HIDE DEF ev
      <4>0. i \in Nat /\ 0 < i /\ buf \in Seq(Events)
        BY <2>1, <2>4 DEF ExportInv, ExportTypes
      <4>1. buf'[i] = buf[i + 1]
        BY Shifted, <1>1, <2>2, <3>2, <4>0
      <4>2. buf[i + 1].n = appended - Len(buf) + (i + 1)
        BY <2>1, <2>4, <3>2 DEF ExportInv, NewestKept
      <4>3. appended - Len(buf) + (i + 1) = appended' - Len(buf') + i
        BY <2>1, <2>2, <2>4 DEF ExportInv, ExportTypes
      <4> QED
        BY <4>1, <4>2, <4>3
    <3> QED
      BY <2>1, <2>4, <3>1, <3>2
  <2>8. InOrder'
    BY <2>1, <2>2, <2>4 DEF ExportInv, ExportTypes, InOrder, Enqueue, remote
  <2> QED
    BY <2>5, <2>6, <2>7, <2>8 DEF ExportInv
<1>3. CASE ~(Len(buf) >= Capacity)
  <2>1. buf' = Append(buf, ev) /\ dropped' = dropped /\ appended' = appended + 1
    BY <1>3 DEF Enqueue, Admit
  <2>2. buf' \in Seq(Events) /\ Len(buf') = Len(buf) + 1 /\ Len(buf) \in Nat
    BY <1>1, <2>1 DEF ExportInv, ExportTypes
  <2>3. ExportTypes'
    BY <2>1, <2>2 DEF ExportInv, ExportTypes, Enqueue, remote
  <2>4. Accounted'
    BY <2>1, <2>2 DEF ExportInv, ExportTypes, Accounted, Enqueue
  <2>5. NewestKept'
    <3> SUFFICES ASSUME NEW i \in 1 .. Len(buf')
                 PROVE  buf'[i].n = appended' - Len(buf') + i
      BY DEF NewestKept
    <3>1. CASE i = Len(buf) + 1
      BY <1>1, <2>1, <2>2, <3>1 DEF ExportInv, ExportTypes
    <3>2. CASE i <= Len(buf)
      <4>1. buf'[i] = buf[i] /\ buf[i].n = appended - Len(buf) + i
        BY <2>1, <2>2, <3>2 DEF ExportInv, ExportTypes, NewestKept
      <4> QED
        BY <2>1, <2>2, <4>1 DEF ExportInv, ExportTypes
    <3> QED
      BY <2>2, <3>1, <3>2
  <2>6. InOrder'
    BY <2>1, <2>2 DEF ExportInv, ExportTypes, InOrder, Enqueue, remote
  <2> QED
    BY <2>3, <2>4, <2>5, <2>6 DEF ExportInv
<1> QED
  BY <1>2, <1>3

\* The sender takes the oldest event: later than all that arrived, earlier than
\* all that stays.
LEMMA DequeueKeeps ==
  ASSUME ExportInv, Dequeue
  PROVE  ExportInv'
<1>1. buf \in Seq(Events) /\ buf # << >> /\ Len(buf) \in Nat /\ Len(buf) > 0
  BY DEF ExportInv, ExportTypes, Dequeue
<1>2. buf' \in Seq(Events) /\ Len(buf') = Len(buf) - 1
  BY <1>1 DEF Dequeue
<1>3. sender.at = "loop" /\ sender'.at = "send" /\ sender'.ev = buf[1]
  BY <1>1 DEF Dequeue
<1>4. buf[1].n = appended - Len(buf) + 1
  BY <1>1 DEF ExportInv, NewestKept
<1>5. UNCHANGED <<sent, dropped, appended, last, got, todo>>
  BY DEF Dequeue, remote
<1>6. ExportTypes'
  BY <1>2, <1>3, <1>5 DEF ExportInv, ExportTypes
<1>7. Accounted'
  BY <1>1, <1>2, <1>3, <1>5 DEF ExportInv, ExportTypes, Accounted
<1>8. NewestKept'
  <2> SUFFICES ASSUME NEW i \in 1 .. Len(buf')
               PROVE  buf'[i].n = appended' - Len(buf') + i
    BY DEF NewestKept
  <2>1. buf'[i] = buf[i + 1]
    BY <1>1, <1>2 DEF Dequeue
  <2>2. buf[i + 1].n = appended - Len(buf) + (i + 1)
    BY <1>1, <1>2 DEF ExportInv, NewestKept
  <2>3. appended - Len(buf) + (i + 1) = appended' - Len(buf') + i
    BY <1>1, <1>2, <1>5 DEF ExportInv, ExportTypes
  <2> QED
    BY <2>1, <2>2, <2>3
<1>9. InOrder'
  <2>1. sender'.ev.n = appended - Len(buf) + 1
    BY <1>3, <1>4
  <2>2. last + Len(buf) <= appended
    BY DEF ExportInv, InOrder
  <2> QED
    BY <1>1, <1>2, <1>5, <2>1, <2>2 DEF ExportInv, ExportTypes, InOrder
<1> QED
  BY <1>6, <1>7, <1>8, <1>9 DEF ExportInv

\* Both ends of a send: the event is counted once, and what arrived is behind
\* everything that is still in the buffer.
LEMMA SendKeeps ==
  ASSUME ExportInv, Sent \/ SendFailed
  PROVE  ExportInv' /\ OnceInOrder
<1>1. sender.at = "send" /\ sender'.at \in {"loop", "backoff"}
  BY DEF Sent, SendFailed
<1>2. UNCHANGED <<buf, appended, todo>>
  BY DEF Sent, SendFailed
<1>3. \/ got' = got + 1 /\ last' = sender.ev.n
      \/ got' = got /\ last' = last
  BY DEF Sent, SendFailed, Received, remote
<1>4. \/ sent' = sent + 1 /\ dropped' = dropped
      \/ sent' = sent /\ dropped' = dropped + 1
  BY DEF Sent, SendFailed
<1>5. sender.ev.n \in Nat /\ last < sender.ev.n /\ sender.ev.n + Len(buf) <= appended
  BY <1>1 DEF ExportInv, InOrder
<1>6. ExportTypes'
  BY <1>1, <1>2, <1>3, <1>4, <1>5 DEF ExportInv, ExportTypes
<1>7. Accounted'
  BY <1>1, <1>2, <1>4 DEF ExportInv, ExportTypes, Accounted
<1>8. NewestKept'
  BY <1>2 DEF ExportInv, NewestKept
<1>9. InOrder'
  BY <1>1, <1>2, <1>3, <1>5 DEF ExportInv, ExportTypes, InOrder
<1>10. OnceInOrder
  BY <1>3, <1>5 DEF ExportInv, ExportTypes, OnceInOrder
<1> QED
  BY <1>6, <1>7, <1>8, <1>9, <1>10 DEF ExportInv

\* What a step that touches neither the buffer nor a send leaves true.
LEMMA QuietKeeps ==
  ASSUME ExportInv, UNCHANGED <<buf, sent, dropped, appended, got, last>>,
         sender'.at = "send" <=> sender.at = "send",
         sender'.at \in {"loop", "empty", "wait", "send", "backoff", "stopped"},
         sender'.ev = sender.ev, todo' \subseteq Findings \X States
  PROVE  ExportInv' /\ OnceInOrder
<1>1. ExportTypes'
  BY DEF ExportInv, ExportTypes
<1>2. Accounted' /\ NewestKept'
  BY DEF ExportInv, Accounted, NewestKept
<1>3. InOrder'
  BY DEF ExportInv, InOrder
<1>4. OnceInOrder
  BY DEF ExportInv, ExportTypes, OnceInOrder
<1> QED
  BY <1>1, <1>2, <1>3, <1>4 DEF ExportInv

\* A restart empties the buffer and starts the numbers over.
LEMMA RestartKeeps ==
  ASSUME ExportInv, Restart
  PROVE  ExportInv' /\ OnceInOrder
<1>1. buf' = << >> /\ Len(buf') = 0 /\ buf' \in Seq(Events)
  BY DEF Restart
<1>2. /\ sent' = 0 /\ dropped' = 0 /\ appended' = 0 /\ last' = 0 /\ got' = got
      /\ sender'.at = "loop" /\ todo' = {}
  BY DEF Restart
<1>3. ExportTypes' /\ Accounted' /\ InOrder'
  BY <1>1, <1>2 DEF ExportInv, ExportTypes, Accounted, InOrder
<1>4. NewestKept'
  BY <1>1 DEF NewestKept
<1>5. OnceInOrder
  BY <1>2 DEF ExportInv, ExportTypes, OnceInOrder
<1> QED
  BY <1>3, <1>4, <1>5 DEF ExportInv

\* Every step keeps the invariant, and delivers nothing twice or out of order.
LEMMA StepKeeps ==
  ASSUME SIEMExportAssumption, ExportInv, [Next]_vars
  PROVE  ExportInv' /\ [OnceInOrder]_vars
<1>1. todo \subseteq Findings \X States /\ ExportTypes
  BY DEF ExportInv, ExportTypes
<1>2. ASSUME NEW p \in Auditors, ExportAudit(p)
      PROVE  ExportInv' /\ OnceInOrder
  <2>1. <<"audit", "none">> \in Texts
    BY DEF Texts
  <2>2. ExportInv'
    BY AdmitKeeps, <1>1, <1>2, <2>1 DEF ExportAudit
  <2> QED
    BY <1>1, <1>2, <2>2 DEF ExportAudit, Enqueue, remote, OnceInOrder, ExportTypes
<1>3. CASE ExportFinding
  <2>1. PICK t \in todo : Enqueue("tracker", t) /\ todo' = todo \ {t}
    BY <1>3 DEF ExportFinding
  <2>2. t \in Texts /\ todo' \subseteq Findings \X States
    BY <1>1, <2>1 DEF Texts
  <2>3. ExportInv'
    BY AdmitKeeps, <2>1, <2>2
  <2> QED
    BY <1>1, <2>1, <2>3 DEF Enqueue, remote, OnceInOrder, ExportTypes
<1>4. ASSUME NEW p \in Producers, Signal(p)
      PROVE  ExportInv' /\ OnceInOrder
  BY QuietKeeps, <1>1, <1>4 DEF Signal, remote, ExportTypes
<1>5. ASSUME NEW cur \in [Findings -> States], Observe(cur)
      PROVE  ExportInv' /\ OnceInOrder
  <2>1. todo' \subseteq Findings \X States
    BY <1>5 DEF Observe, Transitions
  <2> QED
    BY QuietKeeps, <1>1, <1>5, <2>1 DEF Observe, exporter, remote, ExportTypes
<1>6. CASE Dequeue
  BY DequeueKeeps, <1>1, <1>6 DEF Dequeue, remote, OnceInOrder, ExportTypes
<1>7. CASE Sent \/ SendFailed
  BY SendKeeps, <1>7
<1>8. CASE Starve \/ Park \/ Wake \/ Resume \/ Stop
  <2>1. /\ UNCHANGED <<buf, sent, dropped, appended, got, last, todo>>
        /\ sender.at \in {"loop", "empty", "wait", "backoff"}
    BY <1>8 DEF Starve, Park, Wake, Resume, Stop, exporter, remote
  <2>2. PICK place \in {"empty", "wait", "loop", "stopped"} : sender' = At(place)
    BY <1>8 DEF Starve, Park, Wake, Resume, Stop
  <2> QED
    BY QuietKeeps, <1>1, <2>1, <2>2 DEF At
<1>9. CASE Shutdown
  BY QuietKeeps, <1>1, <1>9 DEF Shutdown, exporter, remote, ExportTypes
<1>10. CASE Restart
  BY RestartKeeps, <1>10
<1>11. CASE UNCHANGED vars
  BY QuietKeeps, <1>1, <1>11 DEF vars, ExportTypes
<1> QED
  BY <1>2, <1>3, <1>4, <1>5, <1>6, <1>7, <1>8, <1>9, <1>10, <1>11 DEF Next, Run

\* The exporter's counters (Stats) always add up: each event appended was sent,
\* was counted as dropped, is in the buffer or is being sent.
THEOREM EventsAccounted ==
  ASSUME SIEMExportAssumption
  PROVE  Spec => []Accounted
<1>1. Init => ExportInv
  BY DEF Init, ExportInv, ExportTypes, Accounted, NewestKept, InOrder
<1>2. ExportInv /\ [Next]_vars => ExportInv'
  BY StepKeeps
<1>3. ExportInv => Accounted
  BY DEF ExportInv
<1> QED
  BY <1>1, <1>2, <1>3, PTL DEF Spec

\* Eviction (enqueue on a full buffer) only ever costs the oldest events.
THEOREM NewestStay ==
  ASSUME SIEMExportAssumption
  PROVE  Spec => []NewestKept
<1>1. Init => ExportInv
  BY DEF Init, ExportInv, ExportTypes, Accounted, NewestKept, InOrder
<1>2. ExportInv /\ [Next]_vars => ExportInv'
  BY StepKeeps
<1>3. ExportInv => NewestKept
  BY DEF ExportInv
<1> QED
  BY <1>1, <1>2, <1>3, PTL DEF Spec

\* Whatever sends fail, events that arrive arrive once and in order.
THEOREM DeliveredOnceInOrder ==
  ASSUME SIEMExportAssumption
  PROVE  Spec => [][OnceInOrder]_vars
<1>1. Init => ExportInv
  BY DEF Init, ExportInv, ExportTypes, Accounted, NewestKept, InOrder
<1>2. ExportInv /\ [Next]_vars => ExportInv'
  BY StepKeeps
<1>3. ExportInv /\ [Next]_vars => [OnceInOrder]_vars
  BY StepKeeps
<1> QED
  BY <1>1, <1>2, <1>3, PTL DEF Spec

-----------------------------------------------------------------------------
(* The types of the whole state. *)

\* The sender holds an event while it sends; every run of the daemon delivers at
\* most as many events as it numbered.
HeldInv ==
  /\ ExportInv
  /\ Len(buf) <= Capacity /\ appended <= MaxEvents
  /\ wake \in BOOLEAN /\ stopping \in BOOLEAN /\ observed \in BOOLEAN
  /\ sender \in [at : {"loop", "empty", "wait", "send", "backoff", "stopped"}, ev : Events \cup {NoEvent}]
  /\ sender.at = "send" => sender.ev \in Events
  /\ caller \subseteq Producers
  /\ prev \in [Findings -> States] /\ far \in [Findings -> States]
  /\ restarts \in 0 .. MaxRestarts
  /\ got <= MaxEvents * restarts + last

\* A product grows with its factor.
LEMMA ProductGrows ==
  ASSUME NEW m \in Nat, NEW a \in Nat, NEW b \in Nat, a <= b
  PROVE  m * a \in Nat /\ m * b \in Nat /\ m * a <= m * b /\ m * (a + 1) = m * a + m
  OBVIOUS

\* The counters and the buffer settle what is left of TypeOK.
LEMMA TypesFromParts ==
  ASSUME SIEMExportAssumption, HeldInv
  PROVE  TypeOK
<1>1. /\ appended \in Nat /\ sent \in Nat /\ dropped \in Nat /\ last \in Nat /\ got \in Nat /\ Len(buf) \in Nat
      /\ MaxEvents \in Nat /\ MaxRestarts \in Nat /\ buf \in Seq(Events) /\ todo \subseteq Findings \X States
  BY DEF HeldInv, ExportInv, ExportTypes, SIEMExportAssumption
<1>2. sent \in 0 .. MaxEvents /\ dropped \in 0 .. MaxEvents
  BY <1>1 DEF HeldInv, ExportInv, Accounted
<1>3. last \in 0 .. MaxEvents
  BY <1>1 DEF HeldInv, ExportInv, InOrder
<1>4. got \in 0 .. MaxEvents * (MaxRestarts + 1)
  <2>1. restarts + 1 \in Nat /\ MaxRestarts + 1 \in Nat /\ restarts + 1 <= MaxRestarts + 1 /\ restarts \in Nat
    BY <1>1 DEF HeldInv
  <2>2. MaxEvents * (restarts + 1) <= MaxEvents * (MaxRestarts + 1) /\ MaxEvents * (MaxRestarts + 1) \in Nat
    BY <1>1, <2>1, ProductGrows
  <2>3. MaxEvents * (restarts + 1) = MaxEvents * restarts + MaxEvents /\ MaxEvents * restarts \in Nat
    BY <1>1, <2>1, ProductGrows
  <2>4. PICK x \in Nat, y \in Nat : x = MaxEvents * restarts /\ y = MaxEvents * (MaxRestarts + 1) /\ x + MaxEvents <= y
    BY <2>2, <2>3
  <2>5. got <= x + last /\ last <= MaxEvents
    BY <1>3, <2>4 DEF HeldInv
  <2>6. got \in 0 .. y
    BY <1>1, <2>4, <2>5
  <2> QED
    BY <2>4, <2>6
<1> QED
  BY <1>1, <1>2, <1>3, <1>4 DEF HeldInv, TypeOK

\* The sender's record after each kind of step.
LEMMA SenderMoves ==
  ASSUME HeldInv, NEW place \in {"loop", "empty", "wait", "send", "backoff", "stopped"}
  PROVE  /\ At(place) \in [at : {"loop", "empty", "wait", "send", "backoff", "stopped"}, ev : Events \cup {NoEvent}]
         /\ At(place).at = place
         /\ [at |-> place, ev |-> NoEvent] \in
              [at : {"loop", "empty", "wait", "send", "backoff", "stopped"}, ev : Events \cup {NoEvent}]
<1>1. sender \in [at : {"loop", "empty", "wait", "send", "backoff", "stopped"}, ev : Events \cup {NoEvent}]
  BY DEF HeldInv
<1>2. PICK S : S = Events \cup {NoEvent} /\ NoEvent \in S
  OBVIOUS
<1> QED
  BY <1>1, <1>2 DEF At

\* Every step keeps the types.
LEMMA HeldSteps ==
  ASSUME SIEMExportAssumption, HeldInv, [Next]_vars
  PROVE  HeldInv'
<1> DEFINE Records == [at : {"loop", "empty", "wait", "send", "backoff", "stopped"}, ev : Events \cup {NoEvent}]
<1>0. /\ ExportInv /\ ExportInv' /\ TypeOK /\ MaxEvents \in Nat /\ MaxRestarts \in Nat /\ Capacity \in Nat \ {0}
      /\ sender \in Records /\ appended \in Nat /\ got \in Nat /\ last \in Nat /\ restarts \in 0 .. MaxRestarts
      /\ MaxEvents * restarts \in Nat
  <2>1. MaxEvents \in Nat /\ restarts \in Nat
    BY DEF SIEMExportAssumption, HeldInv
  <2>2. MaxEvents * restarts \in Nat
    BY <2>1, ProductGrows
  <2> QED
    BY <2>2, StepKeeps, TypesFromParts DEF HeldInv, SIEMExportAssumption, ExportInv, ExportTypes
<1> HIDE DEF Records
<1>1. ASSUME sender' \in Records, (sender'.at = "send" => sender'.ev \in Events), Len(buf') <= Capacity,
             appended' <= MaxEvents, wake' \in BOOLEAN, caller' \subseteq Producers, prev' \in [Findings -> States],
             far' \in [Findings -> States], stopping' \in BOOLEAN, observed' \in BOOLEAN,
             restarts' \in 0 .. MaxRestarts, got' <= MaxEvents * restarts' + last'
      PROVE  HeldInv'
  BY <1>0, <1>1 DEF HeldInv, Records
<1>2. /\ (sender.at = "send" => sender.ev \in Events) /\ Len(buf) <= Capacity /\ appended <= MaxEvents /\ wake \in BOOLEAN
      /\ caller \subseteq Producers /\ prev \in [Findings -> States] /\ far \in [Findings -> States]
      /\ stopping \in BOOLEAN /\ observed \in BOOLEAN /\ got <= MaxEvents * restarts + last
      /\ buf \in Seq(Events)
  BY <1>0 DEF HeldInv, ExportInv, ExportTypes
<1>3. ASSUME NEW p \in Producers, NEW text \in Texts, Enqueue(p, text) PROVE HeldInv'
  <2>1. Len(buf') <= Capacity
    <3> DEFINE ev == [n |-> appended + 1, text |-> text]
    <3>1. ev \in Events
      BY <1>0, <1>3 DEF Enqueue, Events
    <3>2. \/ buf' = Append(Tail(buf), ev) /\ Len(buf) >= Capacity
          \/ buf' = Append(buf, ev) /\ Len(buf) < Capacity
      BY <1>0, <1>2, <1>3 DEF Enqueue, Admit
    <3> HIDE DEF ev
    <3>3. CASE buf' = Append(Tail(buf), ev) /\ Len(buf) >= Capacity
      <4>1. buf # << >> /\ Tail(buf) \in Seq(Events) /\ Len(Tail(buf)) = Len(buf) - 1
        BY <1>0, <1>2, <3>3
      <4> QED
        BY <1>2, <3>1, <3>3, <4>1
    <3>4. CASE buf' = Append(buf, ev) /\ Len(buf) < Capacity
      BY <1>0, <1>2, <3>1, <3>4
    <3> QED
      BY <3>2, <3>3, <3>4
  <2>2. /\ UNCHANGED <<wake, sender, prev, observed, stopping, far, got, last, restarts>>
        /\ appended' = appended + 1 /\ appended < MaxEvents /\ caller' \subseteq Producers
    BY <1>2, <1>3 DEF Enqueue, remote
  <2> QED
    BY <1>0, <1>1, <1>2, <2>1, <2>2
<1>4. ASSUME NEW p \in Auditors, ExportAudit(p) PROVE HeldInv'
  BY <1>3, <1>4 DEF ExportAudit, Producers, Texts
<1>5. CASE ExportFinding
  <2>1. PICK t \in todo : Enqueue("tracker", t)
    BY <1>5 DEF ExportFinding
  <2>2. t \in Texts
    BY <1>0, <2>1 DEF TypeOK, Texts
  <2> QED
    BY <1>3, <2>1, <2>2 DEF Producers
<1>6. ASSUME NEW p \in Producers, Signal(p) PROVE HeldInv'
  <2>1. /\ UNCHANGED <<buf, sender, appended, prev, observed, stopping, far, got, last, restarts>>
        /\ wake' \in BOOLEAN /\ caller' \subseteq Producers
    BY <1>2, <1>6 DEF Signal, Signalled, remote
  <2> QED
    BY <1>0, <1>1, <1>2, <2>1
<1>7. ASSUME NEW cur \in [Findings -> States], Observe(cur) PROVE HeldInv'
  <2>1. /\ UNCHANGED <<buf, wake, sender, appended, caller, stopping, far, got, last, restarts>>
        /\ prev' \in [Findings -> States] /\ observed' \in BOOLEAN
    BY <1>7 DEF Observe, exporter, remote
  <2> QED
    BY <1>0, <1>1, <1>2, <2>1
<1>8. CASE Dequeue
  <2>1. Head(buf) \in Events /\ Len(buf') <= Capacity
    <3>1. buf # << >> /\ buf' = Tail(buf)
      BY <1>8 DEF Dequeue
    <3> QED
      BY <1>0, <1>2, <3>1
  <2>2. sender' = [at |-> "send", ev |-> Head(buf)]
    BY <1>8 DEF Dequeue
  <2>3. sender' \in Records /\ sender'.ev \in Events
    BY <2>1, <2>2 DEF Records
  <2>4. UNCHANGED <<wake, appended, caller, prev, observed, stopping, far, got, last, restarts>>
    BY <1>8 DEF Dequeue, remote
  <2> QED
    BY <1>0, <1>1, <1>2, <2>1, <2>3, <2>4
<1>9. CASE Sent \/ SendFailed
  <2>1. /\ sender.at = "send" /\ sender.ev \in Events
        /\ UNCHANGED <<buf, wake, appended, caller, prev, observed, stopping, restarts>>
    BY <1>2, <1>9 DEF Sent, SendFailed
  <2>2. sender' \in Records /\ sender'.at # "send"
    BY <1>9, SenderMoves DEF Sent, SendFailed, Records
  <2>3. far' \in [Findings -> States]
    <3>1. CASE Received
      <4>1. sender.ev.text \in Texts
        BY <2>1 DEF Events
      <4>2. \A f \in Findings : sender.ev.text[1] = f => sender.ev.text[2] \in States
        BY <4>1 DEF Texts, States
      <4> QED
        BY <1>2, <3>1, <4>2 DEF Received
    <3>2. CASE UNCHANGED remote
      BY <1>2, <3>2 DEF remote
    <3> QED
      BY <1>9, <3>1, <3>2 DEF Sent, SendFailed
  <2>4. got' <= MaxEvents * restarts' + last'
    <3>1. \/ got' = got + 1 /\ last' = sender.ev.n
          \/ got' = got /\ last' = last
      BY <1>9 DEF Sent, SendFailed, Received, remote
    <3>2. sender.ev.n \in Nat /\ last < sender.ev.n
      BY <1>0, <2>1 DEF ExportInv, InOrder
    <3>3. PICK x \in Nat : x = MaxEvents * restarts
      BY <1>0
    <3>4. got' <= x + last'
      BY <1>0, <1>2, <3>1, <3>2, <3>3
    <3> QED
      BY <2>1, <3>3, <3>4
  <2> QED
    BY <1>0, <1>1, <1>2, <2>1, <2>2, <2>3, <2>4
<1>10. CASE Starve \/ Park \/ Wake \/ Resume \/ Stop
  <2>1. /\ UNCHANGED <<buf, appended, caller, prev, observed, stopping, far, got, last, restarts>> /\ wake' \in BOOLEAN
        /\ \E place \in {"empty", "wait", "loop", "stopped"} : sender' = At(place)
    BY <1>2, <1>10 DEF Starve, Park, Wake, Resume, Stop, exporter, remote
  <2>2. sender' \in Records /\ sender'.at # "send"
    BY <2>1, SenderMoves DEF Records
  <2> QED
    BY <1>0, <1>1, <1>2, <2>1, <2>2
<1>11. CASE Shutdown
  <2>1. UNCHANGED <<buf, wake, sender, appended, caller, prev, observed, far, got, last, restarts>> /\ stopping' \in BOOLEAN
    BY <1>11 DEF Shutdown, exporter, remote
  <2> QED
    BY <1>0, <1>1, <1>2, <2>1
<1>12. CASE Restart
  <2>1. /\ buf' = << >> /\ wake' = FALSE /\ sender' = [at |-> "loop", ev |-> NoEvent] /\ appended' = 0 /\ last' = 0
        /\ caller' = {} /\ prev' = Unseen /\ observed' = FALSE /\ stopping' = FALSE /\ far' = far /\ got' = got
        /\ restarts < MaxRestarts /\ restarts' = restarts + 1
    BY <1>12 DEF Restart
  <2>2. sender' \in Records /\ sender'.at # "send"
    BY <2>1, SenderMoves DEF Records
  <2>3. got' <= MaxEvents * restarts' + last'
    <3>1. restarts \in Nat /\ last <= MaxEvents
      BY <1>0 DEF TypeOK
    <3>2. MaxEvents * (restarts + 1) = MaxEvents * restarts + MaxEvents
      BY <1>0, <3>1, ProductGrows
    <3>3. PICK x \in Nat : x = MaxEvents * restarts
      BY <1>0
    <3>4. got <= x + MaxEvents
      BY <1>0, <1>2, <3>1, <3>3
    <3> QED
      BY <1>0, <2>1, <3>2, <3>3, <3>4
  <2>4. prev' \in [Findings -> States]
    BY <2>1 DEF Unseen, States
  <2>5. Len(buf') <= Capacity /\ restarts' \in 0 .. MaxRestarts /\ appended' <= MaxEvents
    BY <1>0, <2>1
  <2> QED
    BY <1>1, <1>2, <2>1, <2>2, <2>3, <2>4, <2>5
<1>13. CASE UNCHANGED vars
  BY <1>0, <1>1, <1>2, <1>13 DEF vars
<1> QED
  BY <1>4, <1>5, <1>6, <1>7, <1>8, <1>9, <1>10, <1>11, <1>12, <1>13 DEF Next, Run

\* The buffer is empty and nothing was numbered.
LEMMA HeldStarts == ASSUME SIEMExportAssumption, Init PROVE HeldInv
<1>1. ExportInv
  BY DEF Init, ExportInv, ExportTypes, Accounted, NewestKept, InOrder
<1>2. got <= MaxEvents * restarts + last /\ Len(buf) <= Capacity /\ restarts \in 0 .. MaxRestarts /\ appended <= MaxEvents
  BY DEF Init, SIEMExportAssumption
<1>3. sender \in [at : {"loop", "empty", "wait", "send", "backoff", "stopped"}, ev : Events \cup {NoEvent}] /\ sender.at = "loop"
  <2> DEFINE S == Events \cup {NoEvent}
  <2>1. NoEvent \in S
    OBVIOUS
  <2> HIDE DEF S
  <2>2. sender \in [at : {"loop", "empty", "wait", "send", "backoff", "stopped"}, ev : S] /\ sender.at = "loop"
    BY <2>1 DEF Init
  <2> QED
    BY <2>2 DEF S
<1>4. /\ wake \in BOOLEAN /\ caller \subseteq Producers /\ prev \in [Findings -> States] /\ far \in [Findings -> States]
      /\ stopping \in BOOLEAN /\ observed \in BOOLEAN
  BY DEF Init, Unseen, States
<1> QED
  BY <1>1, <1>2, <1>3, <1>4 DEF HeldInv

\* The buffer never exceeds its capacity, and every counter and number stays
\* within what was appended (Exporter).
THEOREM ExportTypesHold == ASSUME SIEMExportAssumption PROVE Spec => []TypeOK
<1>1. Init => HeldInv
  BY HeldStarts
<1>2. HeldInv /\ [Next]_vars => HeldInv'
  BY HeldSteps
<1>3. HeldInv => TypeOK
  BY TypesFromParts
<1> QED
  BY <1>1, <1>2, <1>3, PTL DEF Spec

-----------------------------------------------------------------------------
(* The far end's picture of the findings. *)

\* The transition of f is among those not exported yet, is in the buffer, is in
\* the sender's hands.
Awaits(f) == \E st \in States : <<f, st>> \in todo
InBuf(f)  == \E i \in 1 .. Len(buf) : buf[i].text[1] = f
InHand(f) == sender.at = "send" /\ sender.ev.text[1] = f

\* The latest event of the buffer about f says what the tracker last saw.
LastSays(f) ==
  \A i \in 1 .. Len(buf) :
    buf[i].text[1] = f /\ (\A j \in 1 .. Len(buf) : i < j => buf[j].text[1] # f) => buf[i].text[2] = prev[f]

\* Wherever the latest transition of f is, it says what the tracker last saw.
Latest(f) ==
  /\ \A st \in States : <<f, st>> \in todo => st = prev[f]
  /\ ~Awaits(f) => LastSays(f)
  /\ ~Awaits(f) /\ ~InBuf(f) => IF InHand(f) THEN sender.ev.text[2] = prev[f] ELSE far[f] = prev[f]

\* As long as nothing was lost.
FeedInv == dropped = 0 => \A f \in Findings : Latest(f)

\* An event that goes to a buffer with room.
LEMMA EnqueueLatest ==
  ASSUME HeldInv, NEW f \in Findings, Latest(f), NEW p, NEW text, Enqueue(p, text), dropped' = 0, dropped = 0,
         \/ text[1] # f /\ Awaits(f)' = Awaits(f)
         \/ text[1] = f /\ text[2] = prev[f],
         todo' \subseteq todo
  PROVE  Latest(f)'
<1> DEFINE ev == [n |-> appended + 1, text |-> text]
<1>0. buf \in Seq(Events) /\ Len(buf) \in Nat /\ ev.text = text
  BY DEF HeldInv, ExportInv, ExportTypes
<1> HIDE DEF ev
<1>1. buf' = Append(buf, ev) /\ prev' = prev /\ far' = far /\ sender' = sender
  BY DEF Enqueue, Admit, remote, ev
<1>2. Len(buf') = Len(buf) + 1 /\ buf'[Len(buf) + 1] = ev /\ \A i \in 1 .. Len(buf) : buf'[i] = buf[i]
  <2>1. PICK S : buf \in Seq(S) /\ ev \in S
    <3>1. buf \in Seq(Events \cup {ev}) /\ ev \in Events \cup {ev}
      BY <1>0
    <3> QED
      BY <3>1
  <2> QED
    BY <1>0, <1>1, <2>1
<1>3. \A st \in States : (<<f, st>> \in todo)' => st = prev'[f]
  BY <1>1 DEF Latest
<1>4. CASE text[1] # f /\ Awaits(f)' = Awaits(f)
  <2>1. InBuf(f)' = InBuf(f)
    <3>1. InBuf(f)' => InBuf(f)
      <4>1. ASSUME NEW i \in 1 .. Len(buf'), buf'[i].text[1] = f PROVE InBuf(f)
        <5>1. i # Len(buf) + 1
          BY <1>0, <1>2, <1>4, <4>1
        <5>2. i \in 1 .. Len(buf)
          BY <1>0, <1>2, <5>1
        <5> QED
          BY <1>2, <4>1, <5>2 DEF InBuf
      <4> QED
        BY <4>1 DEF InBuf
    <3>2. InBuf(f) => InBuf(f)'
      <4>1. ASSUME NEW i \in 1 .. Len(buf), buf[i].text[1] = f PROVE InBuf(f)'
        <5>1. i \in 1 .. Len(buf') /\ buf'[i].text[1] = f
          BY <1>0, <1>2, <4>1
        <5> QED
          BY <5>1 DEF InBuf
      <4> QED
        BY <4>1 DEF InBuf
    <3> QED
      BY <3>1, <3>2 DEF InBuf
  <2>2. ASSUME ~Awaits(f) PROVE LastSays(f)'
    <3>1. ASSUME NEW i \in 1 .. Len(buf'), buf'[i].text[1] = f,
                 \A j \in 1 .. Len(buf') : i < j => buf'[j].text[1] # f
          PROVE  buf'[i].text[2] = prev'[f]
      <4>1. i # Len(buf) + 1
        BY <1>0, <1>2, <1>4, <3>1
      <4>2. i \in 1 .. Len(buf) /\ buf'[i] = buf[i]
        BY <1>0, <1>2, <4>1
      <4>3. ASSUME NEW j \in 1 .. Len(buf), i < j PROVE buf[j].text[1] # f
        <5>1. j \in 1 .. Len(buf') /\ buf'[j] = buf[j]
          BY <1>0, <1>2
        <5> QED
          BY <3>1, <4>3, <5>1
      <4>4. LastSays(f)
        BY <2>2 DEF Latest
      <4> QED
        BY <1>1, <3>1, <4>2, <4>3, <4>4 DEF LastSays
    <3> QED
      BY <3>1 DEF LastSays
  <2>3. InHand(f)' = InHand(f)
    BY <1>1 DEF InHand
  <2> QED
    BY <1>1, <1>3, <1>4, <2>1, <2>2, <2>3 DEF Latest
<1>5. CASE text[1] = f /\ text[2] = prev[f]
  <2>0. Len(buf) + 1 \in 1 .. Len(buf')
    BY <1>0, <1>2
  <2>1. InBuf(f)'
    BY <1>0, <1>2, <1>5, <2>0 DEF InBuf
  <2>2. LastSays(f)'
    <3>1. ASSUME NEW i \in 1 .. Len(buf'), buf'[i].text[1] = f,
                 \A j \in 1 .. Len(buf') : i < j => buf'[j].text[1] # f
          PROVE  buf'[i].text[2] = prev'[f]
      <4>1. ~(i < Len(buf) + 1)
        BY <1>0, <1>2, <1>5, <2>0, <3>1
      <4>2. i = Len(buf) + 1
        BY <1>0, <1>2, <4>1
      <4> QED
        BY <1>0, <1>1, <1>2, <1>5, <4>2
    <3> QED
      BY <3>1 DEF LastSays
  <2> QED
    BY <1>3, <2>1, <2>2 DEF Latest
<1> QED
  BY <1>4, <1>5

\* The event that leaves the buffer is, for its finding, the earliest.
LEMMA DequeueLatest ==
  ASSUME HeldInv, NEW f \in Findings, Latest(f), Dequeue
  PROVE  Latest(f)'
<1>0. /\ buf \in Seq(Events) /\ Len(buf) \in Nat /\ buf # << >> /\ sender.at = "loop"
      /\ sender' = [at |-> "send", ev |-> Head(buf)] /\ buf' = Tail(buf) /\ todo' = todo /\ prev' = prev /\ far' = far
  BY DEF Dequeue, HeldInv, ExportInv, ExportTypes, remote
<1>1. /\ Len(buf) >= 1 /\ Head(buf) = buf[1] /\ Len(buf') = Len(buf) - 1
      /\ \A i \in 1 .. Len(buf') : buf'[i] = buf[i + 1]
  BY <1>0
<1>2. Awaits(f)' = Awaits(f)
  BY <1>0 DEF Awaits
<1>3. ASSUME NEW i \in 2 .. Len(buf), buf[i].text[1] = f PROVE InBuf(f)'
  <2>1. i - 1 \in 1 .. Len(buf') /\ (i - 1) + 1 = i
    BY <1>0, <1>1
  <2>2. buf'[i - 1] = buf[i]
    BY <1>1, <2>1
  <2> QED
    BY <1>3, <2>1, <2>2 DEF InBuf
<1>4. ASSUME ~Awaits(f) PROVE LastSays(f)'
  <2>1. ASSUME NEW i \in 1 .. Len(buf'), buf'[i].text[1] = f,
               \A j \in 1 .. Len(buf') : i < j => buf'[j].text[1] # f
        PROVE  buf'[i].text[2] = prev'[f]
    <3>1. i + 1 \in 1 .. Len(buf) /\ buf'[i] = buf[i + 1]
      BY <1>0, <1>1
    <3>2. ASSUME NEW j \in 1 .. Len(buf), i + 1 < j PROVE buf[j].text[1] # f
      <4>1. j - 1 \in 1 .. Len(buf') /\ i < j - 1 /\ (j - 1) + 1 = j
        BY <1>0, <1>1, <3>1, <3>2
      <4>2. buf'[j - 1] = buf[j]
        BY <1>1, <4>1
      <4> QED
        BY <2>1, <4>1, <4>2
    <3>3. LastSays(f)
      BY <1>4 DEF Latest
    <3> QED
      BY <1>0, <2>1, <3>1, <3>2, <3>3 DEF LastSays
  <2> QED
    BY <2>1 DEF LastSays
<1>5. sender'.at = "send" /\ sender'.ev = buf[1]
  BY <1>0, <1>1
<1>6. ASSUME ~Awaits(f), ~InBuf(f)'
      PROVE  IF InHand(f)' THEN sender'.ev.text[2] = prev'[f] ELSE far'[f] = prev'[f]
  <2>1. CASE buf[1].text[1] = f
    <3>1. 1 \in 1 .. Len(buf) /\ \A j \in 1 .. Len(buf) : 1 < j => j \in 2 .. Len(buf)
      BY <1>0, <1>1
    <3>2. \A j \in 1 .. Len(buf) : 1 < j => buf[j].text[1] # f
      BY <1>3, <1>6, <3>1
    <3>3. LastSays(f)
      BY <1>6 DEF Latest
    <3>4. buf[1].text[2] = prev[f]
      BY <2>1, <3>1, <3>2, <3>3 DEF LastSays
    <3> QED
      BY <1>0, <1>5, <2>1, <3>4 DEF InHand
  <2>2. CASE buf[1].text[1] # f
    <3>1. ~InBuf(f)
      <4>1. ASSUME NEW i \in 1 .. Len(buf), buf[i].text[1] = f PROVE FALSE
        <5>1. i \in 2 .. Len(buf)
          <6>1. i # 1
            BY <2>2, <4>1
          <6> QED
            BY <1>0, <6>1
        <5> QED
          BY <1>3, <1>6, <4>1, <5>1
      <4> QED
        BY <4>1 DEF InBuf
    <3>2. ~InHand(f) /\ ~InHand(f)'
      BY <1>0, <1>5, <2>2 DEF InHand
    <3> QED
      BY <1>0, <1>6, <3>1, <3>2 DEF Latest
  <2> QED
    BY <2>1, <2>2
<1> QED
  BY <1>0, <1>2, <1>4, <1>6 DEF Latest

\* A step that leaves buffer, transitions and far end alone, and sends nothing.
LEMMA QuietLatest ==
  ASSUME NEW f \in Findings, Latest(f), UNCHANGED <<buf, todo, prev, far>>, InHand(f)' = InHand(f), sender'.ev = sender.ev
  PROVE  Latest(f)'
<1>1. Awaits(f)' = Awaits(f) /\ InBuf(f)' = InBuf(f) /\ LastSays(f)' = LastSays(f)
  BY DEF Awaits, InBuf, LastSays
<1> QED
  BY <1>1 DEF Latest

\* Every step keeps the far end's picture, as long as nothing is lost or forgotten.
LEMMA FeedSteps ==
  ASSUME SIEMExportAssumption, MaxRestarts = 0, HeldInv, FeedInv, [Next]_vars
  PROVE  FeedInv'
<1>0. SUFFICES ASSUME dropped' = 0, NEW f \in Findings PROVE Latest(f)'
  BY DEF FeedInv
<1>1. dropped \in Nat /\ sender.at \in {"loop", "empty", "wait", "send", "backoff", "stopped"}
  BY DEF HeldInv, ExportInv, ExportTypes
<1>2. ASSUME NEW p, NEW text, Enqueue(p, text) PROVE dropped = 0
  BY <1>0, <1>1, <1>2 DEF Enqueue, Admit
<1>3. ASSUME dropped = 0 PROVE Latest(f)
  BY <1>3 DEF FeedInv
<1>4. ASSUME NEW p \in Auditors, ExportAudit(p) PROVE Latest(f)'
  <2>1. Enqueue(p, <<"audit", "none">>) /\ todo' = todo
    BY <1>4 DEF ExportAudit
  <2>2. Awaits(f)' = Awaits(f)
    BY <2>1 DEF Awaits
  <2>3. <<"audit", "none">>[1] # f
    BY DEF SIEMExportAssumption
  <2>4. dropped = 0 /\ Latest(f) /\ todo' \subseteq todo
    BY <1>2, <1>3, <2>1
  <2> QED
    BY <1>0, <2>1, <2>2, <2>3, <2>4, EnqueueLatest
<1>5. ASSUME ExportFinding PROVE Latest(f)'
  <2>1. PICK t \in todo : Enqueue("tracker", t) /\ todo' = todo \ {t}
    BY <1>5 DEF ExportFinding
  <2>2. dropped = 0 /\ Latest(f) /\ todo' \subseteq todo
    BY <1>2, <1>3, <2>1
  <2>3. PICK g \in Findings, st \in States : t = <<g, st>>
    BY DEF HeldInv, ExportInv, ExportTypes
  <2>4. CASE g = f
    <3>1. t[1] = f /\ t[2] = prev[f]
      BY <2>2, <2>3, <2>4 DEF Latest
    <3> QED
      BY <1>0, <2>1, <2>2, <3>1, EnqueueLatest
  <2>5. CASE g # f
    <3>1. t[1] # f
      BY <2>3, <2>5
    <3>2. Awaits(f)' = Awaits(f)
      BY <2>1, <2>3, <2>5 DEF Awaits
    <3> QED
      BY <1>0, <2>1, <2>2, <3>1, <3>2, EnqueueLatest
  <2> QED
    BY <2>4, <2>5
<1>6. ASSUME NEW p \in Producers, Signal(p) PROVE Latest(f)'
  BY <1>0, <1>3, <1>6, QuietLatest DEF Signal, remote, InHand
<1>7. ASSUME NEW cur \in [Findings -> States], Observe(cur) PROVE Latest(f)'
  <2>1. /\ todo = {} /\ prev' = cur /\ todo' = Transitions(cur) /\ UNCHANGED <<buf, dropped, sender, far>>
    BY <1>7 DEF Observe, exporter, remote
  <2>2. Latest(f) /\ ~Awaits(f)
    BY <1>0, <1>3, <2>1 DEF Awaits
  <2>3. \A st \in States : <<f, st>> \in todo' => st = cur[f]
    BY <2>1 DEF Transitions
  <2>4. CASE cur[f] # prev[f]
    <3>1. <<f, cur[f]>> \in todo' /\ cur[f] \in States
      BY <2>1, <2>4 DEF Transitions
    <3>2. Awaits(f)'
      BY <3>1 DEF Awaits
    <3> QED
      BY <2>1, <2>3, <3>2 DEF Latest
  <2>5. CASE cur[f] = prev[f]
    <3>1. prev'[f] = prev[f]
      BY <2>1, <2>5
    <3>2. LastSays(f)' = LastSays(f) /\ InBuf(f)' = InBuf(f) /\ InHand(f)' = InHand(f)
      BY <2>1, <3>1 DEF LastSays, InBuf, InHand
    <3> QED
      BY <2>1, <2>2, <2>3, <3>1, <3>2 DEF Latest
  <2> QED
    BY <2>4, <2>5
<1>8. CASE Dequeue
  BY <1>0, <1>3, <1>8, DequeueLatest DEF Dequeue
<1>9. ASSUME NEW place \in {"loop", "empty", "wait", "backoff", "stopped"}, sender.at # "send", sender' = At(place),
             UNCHANGED <<buf, dropped, todo, prev, far>>
      PROVE  Latest(f)'
  <2>1. sender'.at = place /\ sender'.ev = sender.ev
    BY <1>9 DEF At, HeldInv
  <2>2. InHand(f)' = InHand(f)
    BY <1>9, <2>1 DEF InHand
  <2> QED
    BY <1>0, <1>3, <1>9, <2>1, <2>2, QuietLatest
<1>10. CASE Starve \/ Park \/ Wake \/ Resume \/ Stop
  BY <1>9, <1>10 DEF Starve, Park, Wake, Resume, Stop, exporter, remote
<1>11. CASE Sent
  <2>1. /\ sender.at = "send" /\ UNCHANGED <<buf, dropped, todo, prev>> /\ sender'.at = "loop"
        /\ far' = [g \in Findings |-> IF sender.ev.text[1] = g THEN sender.ev.text[2] ELSE far[g]]
    BY <1>11 DEF Sent, Received
  <2>2. Latest(f)
    BY <1>0, <1>3, <2>1
  <2>3. Awaits(f)' = Awaits(f) /\ LastSays(f)' = LastSays(f) /\ InBuf(f)' = InBuf(f)
    BY <2>1 DEF Awaits, LastSays, InBuf
  <2>4. ~InHand(f)' /\ far'[f] = IF InHand(f) THEN sender.ev.text[2] ELSE far[f]
    BY <2>1 DEF InHand
  <2> QED
    BY <2>1, <2>2, <2>3, <2>4 DEF Latest
<1>12. CASE SendFailed
  BY <1>0, <1>1, <1>12 DEF SendFailed
<1>13. CASE Shutdown
  BY <1>0, <1>3, <1>13, QuietLatest DEF Shutdown, exporter, remote, InHand
<1>14. CASE Restart
  BY <1>14 DEF Restart, HeldInv
<1>15. CASE UNCHANGED vars
  BY <1>0, <1>3, <1>15, QuietLatest DEF vars, InHand
<1> QED
  BY <1>4, <1>5, <1>6, <1>7, <1>8, <1>10, <1>11, <1>12, <1>13, <1>14, <1>15 DEF Next, Run

\* FeedIsWhole: the counters account for every event, the buffer holds the newest
\* without a gap, and, as long as nothing was dropped or forgotten in a restart,
\* an exporter at rest has left the far end with the tracker's own picture.
THEOREM FeedWhole == ASSUME SIEMExportAssumption PROVE Spec => []FeedIsWhole
<1>1. Init => HeldInv /\ (MaxRestarts = 0 => FeedInv)
  <2>1. ASSUME Init PROVE FeedInv
    <3>1. ASSUME NEW f \in Findings PROVE Latest(f)
      BY <2>1 DEF Init, Latest, Awaits, InBuf, InHand, LastSays, Unseen
    <3> QED
      BY <3>1 DEF FeedInv
  <2> QED
    BY <2>1, HeldStarts
<1>2. HeldInv /\ (MaxRestarts = 0 => FeedInv) /\ [Next]_vars => HeldInv' /\ (MaxRestarts = 0 => FeedInv')
  BY HeldSteps, FeedSteps
<1>3. ASSUME HeldInv, MaxRestarts = 0 => FeedInv PROVE FeedIsWhole
  <2>1. ASSUME FeedInv, todo = {}, buf = << >>, sender.at \in {"loop", "empty", "wait"}, dropped = 0 PROVE far = prev
    <3>1. ASSUME NEW f \in Findings PROVE far[f] = prev[f]
      <4>1. ~Awaits(f) /\ ~InBuf(f) /\ ~InHand(f)
        BY <2>1 DEF Awaits, InBuf, InHand
      <4> QED
        BY <2>1, <4>1 DEF FeedInv, Latest
    <3>2. far \in [Findings -> States] /\ prev \in [Findings -> States]
      BY <1>3 DEF HeldInv
    <3> QED
      BY <3>1, <3>2
  <2>2. MaxRestarts = 0 => FeedIsExact
    BY <1>3, <2>1 DEF FeedIsExact
  <2> QED
    BY <1>3, <2>2 DEF FeedIsWhole, HeldInv, ExportInv
<1> QED
  <2>1. (HeldInv /\ (MaxRestarts = 0 => FeedInv)) => FeedIsWhole
    BY <1>3
  <2>2. (HeldInv /\ (MaxRestarts = 0 => FeedInv)) /\ [Next]_vars => (HeldInv /\ (MaxRestarts = 0 => FeedInv))'
    BY <1>2
  <2> QED
    BY <1>1, <2>1, <2>2, PTL DEF Spec

=============================================================================
