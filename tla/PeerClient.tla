----------------------------- MODULE PeerClient -----------------------------
(***************************************************************************)
(* The client side of the peer transport (internal/peer): the circuit      *)
(* breaker of one peer (breaker.go), the request that goes through it      *)
(* (Client.do) and the short-lived cache in front of the coalesced reads   *)
(* (coalesce.go), used by callers that overlap.                            *)
(*                                                                         *)
(* One peer and one cache key: breakers and keys are independent of each   *)
(* other.  Every critical section is one step; time passes only while      *)
(* requests are on the wire, for at most Timeout (http.Client.Timeout,     *)
(* which covers the body).  What is read is abstracted to the moment the   *)
(* request was issued, which is how old the code takes the data to be.     *)
(* A closed entry never changes, so the waiters are answered in the step   *)
(* that closes it and only the current entry of the key is kept.           *)
(***************************************************************************)
EXTENDS Naturals

CONSTANTS Callers,      \* goroutines that call the client
          Readers,      \* those that call a coalesced read
          Outcomes,     \* how the peer may treat a request
          Cancels,      \* TRUE: a caller's context may be cancelled
          LocalFaults,  \* TRUE: a request may fail before it is sent
          Threshold, Reset, Timeout, TTL,
          MaxCalls, MaxTime

AllOutcomes == {"answer", "refusal", "silence", "untrusted"}

PeerClientAssumption ==
  /\ Readers \subseteq Callers
  /\ Outcomes \subseteq AllOutcomes
  /\ Cancels \in BOOLEAN /\ LocalFaults \in BOOLEAN
  /\ Threshold \in Nat \ {0} /\ Reset \in Nat \ {0}
  /\ Timeout \in Nat \ {0} /\ TTL \in Nat \ {0}
  /\ MaxCalls \in Nat /\ MaxTime \in Nat

VARIABLES now,
          brk,        \* the peer's circuitBreaker
          trust,      \* peerStatusStore: the last verdict
          cache,      \* resultCache.entries[key]: the current cacheEntry
          call,       \* what every caller is doing
          cancelled,  \* callers whose context is cancelled
          begun,      \* calls made so far
          unanswered  \* history: some request really got no answer

vars == <<now, brk, trust, cache, call, cancelled, begun, unanswered>>

Fails == {"unreachable", "untrusted", "cancelled", "error", "local"}
Working == {"allow", "refused", "sent", "status", "decode", "finish"}

Idle == [at |-> "idle", began |-> 0, probe |-> FALSE,
         res |-> "none", age |-> 0, via |-> "none"]

TypeOK ==
  /\ now \in 0 .. MaxTime
  /\ brk \in [state : {"closed", "open", "halfopen"}, openedAt : 0 .. MaxTime,
              fails : 0 .. MaxCalls]
  /\ trust \in {"none", "ok", "unreachable", "untrusted"}
  /\ cache \in [at : {"none", "flight", "ready"}, start : 0 .. MaxTime,
                res : Fails \cup {"none", "ok"}, expires : 0 .. MaxTime + TTL]
  /\ call \in [Callers -> [at : Working \cup {"idle", "wait", "done"},
                           began : 0 .. MaxTime, probe : BOOLEAN, res : Fails \cup {"none", "ok"},
                           age : 0 .. MaxTime, via : {"none", "own", "hit", "wait"}]]
  /\ cancelled \subseteq Callers
  /\ begun \in 0 .. MaxCalls
  /\ unanswered \in BOOLEAN

Init ==
  /\ now = 0
  /\ brk = [state |-> "closed", openedAt |-> 0, fails |-> 0]
  /\ trust = "none"
  /\ cache = [at |-> "none", start |-> 0, res |-> "none", expires |-> 0]
  /\ call = [c \in Callers |-> Idle]
  /\ cancelled = {} /\ begun = 0 /\ unanswered = FALSE

-----------------------------------------------------------------------------
(* resultCache.do                                                          *)

\* Its owning call returned and the result may still be handed out.
Fresh == cache.at = "ready" /\ cache.expires > now

\* Variant: a call that is still running after the ttl is not waited for.
MutInFlight == cache.at = "flight" /\ now < cache.start + TTL

\* Its owning call has not returned.
InFlight == cache.at = "flight"

MayBegin(c) == call[c].at = "idle" /\ begun < MaxCalls /\ begun' = begun + 1

\* A call that bypasses the cache: every method but Neighbors and DHCPLeases.
Direct(c) ==
  /\ c \notin Readers /\ MayBegin(c)
  /\ call' = [call EXCEPT ![c] = [Idle EXCEPT !.at = "allow", !.via = "own"]]
  /\ UNCHANGED <<now, brk, trust, cache, cancelled, unanswered>>

\* A completed result that is still within ttl is reused.
Hit(c) ==
  /\ c \in Readers /\ MayBegin(c) /\ Fresh
  /\ call' = [call EXCEPT ![c] = [Idle EXCEPT !.at = "done", !.via = "hit",
                                    !.res = cache.res, !.age = now - cache.start]]
  /\ UNCHANGED <<now, brk, trust, cache, cancelled, unanswered>>

\* A call in flight is waited for, whenever it started.
Wait(c) ==
  /\ c \in Readers /\ MayBegin(c) /\ InFlight
  /\ call' = [call EXCEPT ![c] = [Idle EXCEPT !.at = "wait", !.via = "wait"]]
  /\ UNCHANGED <<now, brk, trust, cache, cancelled, unanswered>>

\* Otherwise the caller owns a new entry, which replaces the old one.
Own(c) ==
  /\ c \in Readers /\ MayBegin(c) /\ ~InFlight /\ ~Fresh
  /\ cache' = [at |-> "flight", start |-> now, res |-> "none", expires |-> 0]
  /\ call' = [call EXCEPT ![c] = [Idle EXCEPT !.at = "allow", !.via = "own"]]
  /\ UNCHANGED <<now, brk, trust, cancelled, unanswered>>

\* Variant: the ttl counts from the completion of the call.
MutExpiry(res) == IF res = "ok" THEN now + TTL ELSE cache.start

\* Variant: a failure is kept for the ttl like a result.
MutExpiryFail(res) == cache.start + TTL

\* A result is fresh until ttl after the call started; a failure never is.
Expiry(res) == cache.start + (IF res = "ok" THEN TTL ELSE 0)

\* Variant: the channel is closed only for a result.
MutReleased(res) == IF res = "ok" THEN {w \in Readers : call[w].at = "wait"} ELSE {}

\* The callers blocked on the entry; their own contexts play no part.
Released(res) == {w \in Readers : call[w].at = "wait"}

\* fn returned in a coalesced read: the entry is closed and its waiters return.
FinishRead(c) ==
  /\ c \in Readers /\ call[c].at = "finish"
  /\ LET res == call[c].res IN
     /\ cache' = [cache EXCEPT !.at = "ready", !.res = res, !.expires = Expiry(res)]
     /\ call' = [w \in Callers |->
                   IF w = c \/ w \in Released(res)
                   THEN [Idle EXCEPT !.at = "done", !.via = call[w].via, !.res = res,
                                     !.age = now - cache.start]
                   ELSE call[w]]
  /\ UNCHANGED <<now, brk, trust, cancelled, begun, unanswered>>

FinishDirect(c) ==
  /\ c \notin Readers /\ call[c].at = "finish"
  /\ call' = [call EXCEPT ![c] = [Idle EXCEPT !.at = "done", !.via = "own", !.res = call[c].res]]
  /\ UNCHANGED <<now, brk, trust, cache, cancelled, begun, unanswered>>

Return(c) ==
  /\ call[c].at = "done"
  /\ call' = [call EXCEPT ![c] = Idle]
  /\ cancelled' = cancelled \ {c}
  /\ UNCHANGED <<now, brk, trust, cache, begun, unanswered>>

-----------------------------------------------------------------------------
(* circuitBreaker and Client.do                                            *)

\* Variant: half-open lets further callers through.
MutMayPass == brk.state # "open" \/ now - brk.openedAt >= Reset

MayPass ==
  \/ brk.state = "closed"
  \/ brk.state = "open" /\ now - brk.openedAt >= Reset

\* allow() and, past it, the request: an open breaker becomes half-open and
\* this call is its probe.
Allow(c) ==
  /\ call[c].at = "allow" /\ MayPass
  /\ brk' = [brk EXCEPT !.state = IF @ = "open" THEN "halfopen" ELSE @]
  /\ \/ call' = [call EXCEPT ![c] = [@ EXCEPT !.at = "sent", !.began = now,
                                             !.probe = brk.state # "closed"]]
     \/ LocalFaults   \* building the request or its nonce failed
        /\ call' = [call EXCEPT ![c] = [@ EXCEPT !.at = "finish", !.res = "local"]]
  /\ UNCHANGED <<now, trust, cache, cancelled, begun, unanswered>>

Refuse(c) ==
  /\ call[c].at = "allow" /\ ~MayPass
  /\ call' = [call EXCEPT ![c] = [@ EXCEPT !.at = "refused"]]
  /\ UNCHANGED <<now, brk, trust, cache, cancelled, begun, unanswered>>

\* The fast failure repeats the last verdict if that was "untrusted".
Report(c) ==
  /\ call[c].at = "refused"
  /\ call' = [call EXCEPT ![c] = [@ EXCEPT !.at = "finish",
                !.res = IF trust = "untrusted" THEN "untrusted" ELSE "unreachable"]]
  /\ UNCHANGED <<now, brk, trust, cache, cancelled, begun, unanswered>>

RecordSuccess == brk' = [brk EXCEPT !.state = "closed", !.fails = 0]

\* Variant: a failed probe is only counted, as in the closed state.
MutRecordFailure ==
  brk' = IF brk.state = "closed" /\ brk.fails + 1 >= Threshold
         THEN [state |-> "open", openedAt |-> now, fails |-> brk.fails + 1]
         ELSE [brk EXCEPT !.fails = @ + 1]

RecordFailure ==
  brk' = IF brk.state = "halfopen" \/ brk.fails + 1 >= Threshold
         THEN [state |-> "open", openedAt |-> now, fails |-> brk.fails + 1]
         ELSE [brk EXCEPT !.fails = @ + 1]

\* Any HTTP response counts as success, whatever it says.
Answered(c) ==
  /\ call[c].at = "sent"
  /\ \E out \in Outcomes \cap {"answer", "refusal"} :
       call' = [call EXCEPT ![c] = [@ EXCEPT !.at = "status",
                  !.res = IF out = "answer" THEN "ok" ELSE "error"]]
  /\ RecordSuccess
  /\ UNCHANGED <<now, trust, cache, cancelled, begun, unanswered>>

\* httpClient.Do failed: no answer in time, no connection, no trust.
Unanswered(c) ==
  /\ call[c].at = "sent"
  /\ \E out \in Outcomes \cap {"silence", "untrusted"} :
       call' = [call EXCEPT ![c] = [@ EXCEPT !.at = "status",
                  !.res = IF out = "untrusted" THEN "untrusted" ELSE "unreachable"]]
  /\ RecordFailure
  /\ unanswered' = TRUE
  /\ UNCHANGED <<now, trust, cache, cancelled, begun>>

\* The same return when the caller's own context ended.
Abandoned(c) ==
  /\ call[c].at = "sent" /\ c \in cancelled
  /\ call' = [call EXCEPT ![c] = [@ EXCEPT !.at = "status", !.res = "cancelled"]]
  /\ RecordFailure
  /\ UNCHANGED <<now, trust, cache, cancelled, begun, unanswered>>

\* statuses.record, outside the breaker's lock.
Verdict(res) ==
  CASE res \in {"ok", "error"} -> "ok"
    [] res = "untrusted" -> "untrusted"
    [] OTHER -> "unreachable"

RecordStatus(c) ==
  /\ call[c].at = "status"
  /\ trust' = Verdict(call[c].res)
  /\ call' = [call EXCEPT ![c] = [@ EXCEPT !.at = IF trust' = "ok" THEN "decode" ELSE "finish"]]
  /\ UNCHANGED <<now, brk, cache, cancelled, begun, unanswered>>

\* decodeInto: the body, which the same deadline and context bound.
Decode(c) ==
  /\ call[c].at = "decode"
  /\ \/ call' = [call EXCEPT ![c] = [@ EXCEPT !.at = "finish"]]
     \/ /\ c \in cancelled \/ "silence" \in Outcomes
        /\ call' = [call EXCEPT ![c] = [@ EXCEPT !.at = "finish", !.res = "error"]]
  /\ UNCHANGED <<now, brk, trust, cache, cancelled, begun, unanswered>>

-----------------------------------------------------------------------------
\* The caller goes away: its request is torn down by its context.
Cancel(c) ==
  /\ Cancels /\ call[c].at \notin {"idle", "done"} /\ c \notin cancelled
  /\ cancelled' = cancelled \cup {c}
  /\ UNCHANGED <<now, brk, trust, cache, call, begun, unanswered>>

OnWire(c) ==
  \/ call[c].at \in {"idle", "done"}
  \/ call[c].at \in {"sent", "decode"} /\ now - call[c].began < Timeout
  \/ call[c].at = "wait"

Tick ==
  /\ now < MaxTime
  /\ \A c \in Callers : OnWire(c)
  /\ now' = now + 1
  /\ UNCHANGED <<brk, trust, cache, call, cancelled, begun, unanswered>>

Step(c) ==
  \/ Allow(c) \/ Refuse(c) \/ Report(c)
  \/ Answered(c) \/ Unanswered(c) \/ Abandoned(c)
  \/ RecordStatus(c) \/ Decode(c) \/ FinishRead(c) \/ FinishDirect(c)

Next ==
  \/ Tick
  \/ \E c \in Callers :
       \/ Direct(c) \/ Hit(c) \/ Wait(c) \/ Own(c)
       \/ Step(c) \/ Return(c) \/ Cancel(c)

Spec == Init /\ [][Next]_vars

-----------------------------------------------------------------------------
\* What a reader is handed was requested at most ttl ago, however slow the
\* peer was and whether the reader made the call, waited for it or came later
\* (resultCache's comment: ttl bounds how stale the returned data may be).
AnswerIsFresh ==
  \A c \in Readers : call[c].at = "done" /\ call[c].res = "ok" => call[c].age <= TTL

\* Readers of one key never have two requests at the peer at the same time:
\* an in-flight call is waited for even when it outlasts the ttl.
OneUpstream ==
  \A c, d \in Readers : call[c].at \in Working /\ call[d].at \in Working => c = d

\* A failed read reaches only the caller that made it and those who waited
\* for it; whoever comes later triggers a fresh attempt.
FailureOnlyToWaiters ==
  \A c \in Readers : call[c].at = "done" /\ call[c].res # "ok" => call[c].via # "hit"

\* c's request is the probe of a breaker that was open.
Probing(c) == call[c].at = "sent" /\ call[c].probe

\* An open breaker lets one probe through at a time, whatever earlier requests
\* to the peer come back with while the probe is out.
OneProbe == \A c, d \in Callers : Probing(c) /\ Probing(d) => c = d

\* A half-open breaker is waiting for a probe that is on the wire.
HalfOpenHasProbe ==
  brk.state = "halfopen" => \E c \in Callers : Probing(c)

\* All of them, under what each rests on: a request is given up before the
\* entry it fills would expire, and before the breaker it probes lets the next
\* one through; a probe fails on the wire and not on the way to it.
PeerIsSpared ==
  /\ OneUpstream /\ FailureOnlyToWaiters
  /\ Timeout <= TTL => AnswerIsFresh
  /\ Timeout < Reset => OneProbe
  /\ ~LocalFaults => HalfOpenHasProbe

\* Whoever waits for another caller's read is answered.
WaiterAnswered == \A c \in Readers : []<>(call[c].at # "wait")

\* A half-open breaker is resolved by its probe, one way or the other.
HalfOpenResolves == []<>(brk.state # "halfopen")

\* The breaker leaves the closed state only for a peer that failed to answer.
OpenMeansUnreachable == brk.state # "closed" => unanswered

\* A read that outlives the context of the caller that started it still
\* completes for the callers waiting on it.
CancelHurtsOnlyItself ==
  \A c \in Callers : call[c].at = "done" /\ call[c].res = "cancelled" => c \in cancelled
=============================================================================
