---------------------------- MODULE AlertSchedule ----------------------------
(***************************************************************************)
(* Deferred alert delivery (internal/findings: Scheduler.Decide, Notify,   *)
(* Flush) for one alert rule with quiet hours and a digest window.         *)
(*                                                                         *)
(* Notify decides for each event whether it goes out now or is queued in   *)
(* alert_pending with a flush time; the flush loop delivers what is due as *)
(* one batch and deletes it by id.  The two run side by side and the queue *)
(* is all they share.  The clock is the wall clock of the rule's zone, a   *)
(* day of Day minutes; flush times are kept as the minutes left, and an    *)
(* event id is free again when its event is gone.  The retries of one      *)
(* delivery are one step that ends in success or in the terminal failure,  *)
(* which Notify and Flush treat alike.  Daylight saving is left out.       *)
(***************************************************************************)
EXTENDS Naturals, FiniteSets, FiniteSetsExt

CONSTANTS Events,        \* the events that may be under way at one time
          Day,           \* minutes in a day
          QuietHours,    \* the quiet windows the rule may have: <<start, end>>
          DigestWindow,  \* minutes, 0 for none
          Bypass,        \* BypassQuietHoursOnError
          Faults,        \* a subset of {"store", "restart"}
          RuleTurns      \* TRUE: the operator disables and enables the rule

NoQuiet == <<0, 0>>

ScheduleAssumption ==
  /\ Day \in Nat \ {0} /\ DigestWindow \in Nat
  /\ QuietHours \subseteq (0 .. Day - 1) \X (0 .. Day - 1)
  /\ \A w \in QuietHours : w[1] # w[2]     \* QuietHours.Validate
  /\ Events # {}
  /\ Faults \subseteq {"store", "restart"}
  /\ Bypass \in BOOLEAN /\ RuleTurns \in BOOLEAN

VARIABLES clock,     \* minutes past midnight
          quiet,     \* the rule's quiet hours
          on,        \* the rule is enabled
          pend,      \* alert_pending: the events queued
          left,      \* minutes until an event's flush time
          sev,       \* severity
          age,       \* minutes since the event fired, up to DigestWindow
          tried,     \* the queued events some delivery was attempted of
          notify,    \* the Notify call under way
          flush      \* the Flush call under way

vars == <<clock, quiet, on, pend, left, sev, age, tried, notify, flush>>

queue == <<pend, left, sev, age, tried>>

Severity == {"warning", "error"}

TypeOK ==
  /\ clock \in 0 .. Day - 1
  /\ quiet \in QuietHours \cup {NoQuiet}
  /\ on \in BOOLEAN
  /\ pend \subseteq Events /\ tried \subseteq pend
  /\ left \in [Events -> Nat] /\ age \in [Events -> 0 .. DigestWindow]
  /\ sev \in [Events -> Severity]
  /\ notify \in [at : {"idle", "decide", "join", "add", "deliver"},
                 e : Events, flushAt : Nat]
  /\ flush \in [at : {"idle", "deliver", "clear"}, batch : SUBSET Events, gone : BOOLEAN]

IdleNotify == [at |-> "idle", e |-> CHOOSE e \in Events : TRUE, flushAt |-> 0]
IdleFlush == [at |-> "idle", batch |-> {}, gone |-> FALSE]

Init ==
  /\ clock = 0 /\ quiet \in QuietHours /\ on = TRUE
  /\ pend = {} /\ tried = {}
  /\ left = [e \in Events |-> 0] /\ age = [e \in Events |-> 0]
  /\ sev = [e \in Events |-> "warning"]
  /\ notify = IdleNotify /\ flush = IdleFlush

-----------------------------------------------------------------------------
(* QuietHours.                                                             *)

\* Variant: the end belongs to the window.
MutContains(t) ==
  /\ quiet # NoQuiet
  /\ IF quiet[1] < quiet[2] THEN t >= quiet[1] /\ t <= quiet[2]
                            ELSE t >= quiet[1] \/ t <= quiet[2]

\* QuietHours.Contains.
Contains(t) ==
  /\ quiet # NoQuiet
  /\ IF quiet[1] < quiet[2] THEN t >= quiet[1] /\ t < quiet[2]
                            ELSE t >= quiet[1] \/ t < quiet[2]

\* QuietHours.NextEnd, as the minutes from t: today's end if it is still to
\* come, else tomorrow's.
NextEnd(t) == IF quiet[2] > t THEN quiet[2] - t ELSE quiet[2] + Day - t

-----------------------------------------------------------------------------
(* Notify and Scheduler.Decide.                                            *)

Bypasses(s) == Bypass /\ s = "error"

\* A transition of a finding that matches the rule.
NotifyBegins(e) ==
  /\ notify.at = "idle" /\ on
  /\ e \notin pend \cup flush.batch
  /\ \E s \in Severity : sev' = [sev EXCEPT ![e] = s]
  /\ age' = [age EXCEPT ![e] = 0]
  /\ notify' = [at |-> "decide", e |-> e, flushAt |-> 0]
  /\ UNCHANGED <<clock, quiet, on, pend, left, tried, flush>>

\* Variant: the digest window is asked first.
MutDecide ==
  /\ notify.at = "decide"
  /\ notify' = [notify EXCEPT
       !.at = IF Contains(clock) THEN "add"
              ELSE IF DigestWindow > 0 THEN "join" ELSE "deliver",
       !.flushAt = IF Contains(clock) THEN NextEnd(clock) ELSE DigestWindow]
  /\ UNCHANGED <<clock, quiet, on, queue, flush>>

\* Decide: quiet hours, unless bypassed; then the digest window; else now.
Decide ==
  LET held == Contains(clock) /\ ~Bypasses(sev[notify.e]) IN
  /\ notify.at = "decide"
  /\ notify' = [notify EXCEPT
       !.at = IF held THEN "add" ELSE IF DigestWindow > 0 THEN "join" ELSE "deliver",
       !.flushAt = IF held THEN NextEnd(clock) ELSE DigestWindow]
  /\ UNCHANGED <<clock, quiet, on, queue, flush>>

\* PendingFlushAt: the digest joins the earliest flush time already queued.
Join ==
  /\ notify.at = "join"
  /\ \/ notify' = [notify EXCEPT
                     !.at = "add", !.flushAt = Min({@} \cup {left[e] : e \in pend})]
     \/ /\ "store" \in Faults
        /\ notify' = [notify EXCEPT !.at = "deliver"]
  /\ UNCHANGED <<clock, quiet, on, queue, flush>>

\* hold: the event is queued; when that fails it is delivered at once.
Hold ==
  /\ notify.at = "add"
  /\ \/ /\ pend' = pend \cup {notify.e}
        /\ left' = [left EXCEPT ![notify.e] = notify.flushAt]
        /\ notify' = IdleNotify
     \/ /\ "store" \in Faults
        /\ notify' = [notify EXCEPT !.at = "deliver"]
        /\ UNCHANGED <<pend, left>>
  /\ UNCHANGED <<clock, quiet, on, sev, age, tried, flush>>

\* deliverWithRetry, until it succeeds or the attempts are spent.
DeliverNow ==
  /\ notify.at = "deliver"
  /\ notify' = IdleNotify
  /\ UNCHANGED <<clock, quiet, on, queue, flush>>

-----------------------------------------------------------------------------
(* Flush.                                                                  *)

Due == {e \in pend : left[e] = 0}

\* Due reads the batch of the rule.
FlushBegins ==
  /\ flush.at = "idle" /\ Due # {}
  /\ flush' = [at |-> "deliver", batch |-> Due, gone |-> FALSE]
  /\ UNCHANGED <<clock, quiet, on, queue, notify>>

\* One delivery for the batch, successful or not.
FlushDelivers ==
  /\ flush.at = "deliver" /\ on
  /\ tried' = tried \cup flush.batch
  /\ flush' = [flush EXCEPT !.at = "clear"]
  /\ UNCHANGED <<clock, quiet, on, pend, left, sev, age, notify>>

\* Variant: the batch of a disabled rule is left in the queue.
MutFlushDiscards ==
  /\ flush.at = "deliver" /\ ~on
  /\ flush' = IdleFlush
  /\ UNCHANGED <<clock, quiet, on, queue, notify>>

\* The rule was disabled meanwhile: its batch is discarded.
FlushDiscards ==
  /\ flush.at = "deliver" /\ ~on
  /\ flush' = [flush EXCEPT !.at = "clear", !.gone = TRUE]
  /\ UNCHANGED <<clock, quiet, on, queue, notify>>

\* Variant: Clear deletes whatever the rule has queued.
MutFlushClears ==
  /\ flush.at = "clear"
  /\ pend' = {} /\ tried' = {}
  /\ flush' = IdleFlush
  /\ UNCHANGED <<clock, quiet, on, left, sev, age, notify>>

\* Clear deletes the ids of the batch; if that fails they stay queued.
FlushClears ==
  /\ flush.at = "clear"
  /\ pend' = pend \ flush.batch /\ tried' = tried \ flush.batch
  /\ flush' = IdleFlush
  /\ UNCHANGED <<clock, quiet, on, left, sev, age, notify>>

FlushClearFails ==
  /\ "store" \in Faults
  /\ flush.at = "clear"
  /\ flush' = IdleFlush
  /\ UNCHANGED <<clock, quiet, on, queue, notify>>

-----------------------------------------------------------------------------
(* The clock, the operator, a restart.                                     *)

Tick ==
  /\ clock' = (clock + 1) % Day
  /\ left' = [e \in Events |-> IF left[e] > 0 THEN left[e] - 1 ELSE 0]
  /\ notify' = [notify EXCEPT !.flushAt = IF notify.at \in {"join", "add"} /\ @ > 0 THEN @ - 1 ELSE @]
  /\ age' = [e \in Events |-> IF age[e] < DigestWindow THEN age[e] + 1 ELSE age[e]]
  /\ UNCHANGED <<quiet, on, pend, sev, tried, flush>>

RuleTurned ==
  /\ RuleTurns
  /\ on' = ~on
  /\ UNCHANGED <<clock, quiet, queue, notify, flush>>

\* The queue survives, the calls under way do not (the engine notifies a
\* finding that is still there as new after a restart).
Restart ==
  /\ "restart" \in Faults
  /\ notify' = IdleNotify /\ flush' = IdleFlush
  /\ UNCHANGED <<clock, quiet, on, queue>>

Next ==
  \/ \E e \in Events : NotifyBegins(e)
  \/ Decide \/ Join \/ Hold \/ DeliverNow
  \/ FlushBegins \/ FlushDelivers \/ FlushDiscards \/ FlushClears \/ FlushClearFails
  \/ Tick \/ RuleTurned \/ Restart

Spec == Init /\ [][Next]_vars

-----------------------------------------------------------------------------
(* Properties.                                                             *)

\* The end of quiet hours is right for every window and every minute of the
\* day: from a minute inside, NextEnd is the first later minute outside.
QuietEndIsFirstOutside ==
  Contains(clock) =>
    /\ NextEnd(clock) \in 1 .. Day
    /\ ~Contains((clock + NextEnd(clock)) % Day)
    /\ \A k \in 0 .. NextEnd(clock) - 1 : Contains((clock + k) % Day)

\* Deferred, not dropped: an event leaves the queue only when a delivery of it
\* was attempted or its rule was found disabled, whatever arrived, failed or
\* restarted while the batch was on its way.
DeferredNotDropped ==
  \A e \in pend \ pend' : e \in flush.batch /\ (e \in tried \/ flush.gone)

\* A bypassing error is never held longer than the digest window, even when it
\* joins a queue that waits for the end of quiet hours.
UrgentIsNotHeld ==
  \A e \in pend : Bypasses(sev[e]) => left[e] <= DigestWindow

\* Both: an alert is held to the right minute, and no longer than it may be.
ReceiverIsTold == QuietEndIsFirstOutside /\ UrgentIsNotHeld

\* Nothing stays queued for ever: however many events arrive meanwhile, and
\* whatever becomes of the rule.
HeldIsFlushed == \A e \in Events : []<>(e \notin pend)

\* The claim of api.md: during quiet hours deliveries are deferred; but for
\* the errors that bypass them, no batch goes out then.
QuietIsQuiet ==
  [][flush.at = "deliver" /\ flush'.at = "clear" /\ on /\ Contains(clock)
       => \A e \in flush.batch : Bypasses(sev[e])]_vars

\* The claim of api.md that the events within one digest window of the first
\* are one delivery: a batch goes out only when its window is over.
DigestWaitsItsWindow ==
  [][flush.at = "deliver" /\ flush'.at = "clear" /\ on
       => \E e \in flush.batch : age[e] >= DigestWindow]_vars
=============================================================================
