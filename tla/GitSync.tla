------------------------------- MODULE GitSync -------------------------------
(***************************************************************************)
(* The git-backed spec sync (internal/gitsync/service.go): a poll loop     *)
(* that reads the spec of a repository, plans it against live state and    *)
(* opens or rewrites the one draft changeset a human reviews.              *)
(*                                                                         *)
(* A spec gives every entity a value, live state has one too, and a plan   *)
(* is the set of differences.  Humans work on the drafts while a cycle is  *)
(* under way.                                                              *)
(***************************************************************************)
EXTENDS Naturals, Sequences, FiniteSets

CONSTANTS Keys, Vals,     \* entities and their values
          Unparsed,       \* a document that does not parse
          Human,          \* what humans may do, of HumanOps
          RequireSigned,  \* require_signed_commits
          FetchFails,     \* TRUE: the remote may not answer
          MaxRevs, MaxDrafts, MaxHuman, MaxRestarts

HumanOps == {"edit", "apply", "discard", "drift"}

GitSyncAssumption ==
  /\ Human \subseteq HumanOps
  /\ {RequireSigned, FetchFails} \subseteq BOOLEAN
  /\ Unparsed \notin [Keys -> Vals]
  /\ {MaxRevs, MaxDrafts, MaxHuman, MaxRestarts} \subseteq Nat /\ MaxRevs > 0

VARIABLES revs,      \* the revisions of the ref, the last one its head
          live,      \* the state of the cluster
          drafts,    \* changesets of origin gitsync, in the order of creation
          poll,      \* sync: where it is, what it fetched, planned and found
          lastRev, lastPlan,
          issue,     \* the draft the divergence issue names
          staged,    \* history: revisions a cycle went through with
          actions, restarts

memory == <<lastRev, lastPlan, issue>>
vars == <<revs, live, drafts, poll, lastRev, lastPlan, issue, staged, actions, restarts>>

Specs == [Keys -> Vals]
Plans == {p \in SUBSET (Keys \X Vals) : \A o1, o2 \in p : o1[1] = o2[1] => o1 = o2}
Docs  == [doc : Specs \cup {Unparsed}, signed : BOOLEAN]
Idle  == [at |-> "idle", rev |-> 0, ops |-> {}, open |-> 0]
head  == Len(revs)

TypeOK ==
  /\ revs \in Seq(Docs) /\ head <= MaxRevs
  /\ live \in Specs
  /\ drafts \in Seq([st : {"draft", "applied", "discarded"}, ops : Plans, edited : BOOLEAN])
  /\ Len(drafts) <= MaxDrafts
  /\ poll \in [at : {"idle", "fetched", "planned", "listed"}, rev : 0 .. MaxRevs, ops : Plans,
               open : 0 .. MaxDrafts]
  /\ lastRev \in 0 .. MaxRevs /\ lastPlan \in Plans \cup {{<<>>}}
  /\ issue \in 0 .. MaxDrafts
  /\ staged \subseteq 1 .. MaxRevs
  /\ actions \in 0 .. MaxHuman /\ restarts \in 0 .. MaxRestarts

\* No plan has this fingerprint: lastPlanFP is empty at the start.
NoPlan == {<<>>}

Init ==
  /\ \E s \in Specs : live = s /\ revs = <<[doc |-> s, signed |-> TRUE]>>
  /\ drafts = <<>>
  /\ poll = Idle
  /\ lastRev = 0 /\ lastPlan = NoPlan /\ issue = 0
  /\ staged = {} /\ actions = 0 /\ restarts = 0

-----------------------------------------------------------------------------
(* What the sync works with.                                               *)

Verified(r) == RequireSigned => revs[r].signed
Parses(r)   == revs[r].doc # Unparsed
Good(r)     == Verified(r) /\ Parses(r)

\* spec.Import: what takes the cluster from its state to the spec.
Import(s, state) == {<<k, s[k]>> : k \in {j \in Keys : s[j] # state[j]}}

\* Variant: a draft that is edited no longer counts.
MutOpen(d) == drafts[d].st = "draft" /\ ~drafts[d].edited

\* openSyncChangeset: the newest editable draft.
Open(d) == drafts[d].st = "draft"
OpenDraft == IF \E d \in DOMAIN drafts : Open(d)
             THEN CHOOSE d \in DOMAIN drafts : Open(d) /\ \A e \in DOMAIN drafts : Open(e) => e <= d
             ELSE 0

-----------------------------------------------------------------------------
(* The repository and the humans.                                          *)

Push(doc, signed) ==
  /\ head < MaxRevs
  /\ revs' = Append(revs, [doc |-> doc, signed |-> signed])
  /\ UNCHANGED <<live, drafts, poll, memory, staged, actions, restarts>>

Act(kind) == kind \in Human /\ actions < MaxHuman /\ actions' = actions + 1

Edit(d, ops) ==
  /\ Act("edit") /\ Open(d)
  /\ drafts' = [drafts EXCEPT ![d].ops = ops, ![d].edited = TRUE]
  /\ UNCHANGED <<revs, live, poll, memory, staged, restarts>>

\* The values a changeset leaves behind.
Overlay(state, ops) ==
  [k \in Keys |-> IF \E v \in Vals : <<k, v>> \in ops
                  THEN CHOOSE v \in Vals : <<k, v>> \in ops ELSE state[k]]

Apply(d) ==
  /\ Act("apply") /\ Open(d)
  /\ drafts' = [drafts EXCEPT ![d].st = "applied"]
  /\ live' = Overlay(live, drafts[d].ops)
  /\ UNCHANGED <<revs, poll, memory, staged, restarts>>

Discard(d) ==
  /\ Act("discard") /\ Open(d)
  /\ drafts' = [drafts EXCEPT ![d].st = "discarded"]
  /\ UNCHANGED <<revs, live, poll, memory, staged, restarts>>

\* The cluster changes by other means.
Drift(k, v) ==
  /\ Act("drift") /\ live[k] # v
  /\ live' = [live EXCEPT ![k] = v]
  /\ UNCHANGED <<revs, drafts, poll, memory, staged, restarts>>

-----------------------------------------------------------------------------
(* A cycle of sync.                                                        *)

Fetch ==
  /\ poll.at = "idle"
  /\ poll' = [Idle EXCEPT !.at = "fetched", !.rev = head]
  /\ UNCHANGED <<revs, live, drafts, memory, staged, actions, restarts>>

\* onFetchError: an issue of its own and the next cycle.
FetchFailed ==
  /\ FetchFails /\ poll.at = "fetched"
  /\ poll' = Idle
  /\ UNCHANGED <<revs, live, drafts, memory, staged, actions, restarts>>

\* Variant: the signature is not looked at.
MutRefused == ~Parses(poll.rev)

\* verifySignature and spec.Parse: nothing further runs.
Refused == ~Verified(poll.rev) \/ ~Parses(poll.rev)

\* revAlreadyReconciled.
Unchanged == lastRev # 0 /\ lastRev = poll.rev

Skip ==
  /\ poll.at = "fetched"
  /\ Refused \/ Unchanged
  /\ poll' = Idle
  /\ UNCHANGED <<revs, live, drafts, memory, staged, actions, restarts>>

Plan ==
  /\ poll.at = "fetched"
  /\ ~Refused /\ ~Unchanged
  /\ poll' = [poll EXCEPT !.at = "planned", !.ops = Import(revs[poll.rev].doc, live)]
  /\ UNCHANGED <<revs, live, drafts, memory, staged, actions, restarts>>

List ==
  /\ poll.at = "planned"
  /\ poll' = [poll EXCEPT !.at = "listed", !.open = OpenDraft]
  /\ UNCHANGED <<revs, live, drafts, memory, staged, actions, restarts>>

\* Variant: the revision counts as reconciled whatever becomes of the draft.
MutRemember(done) == lastRev' = poll.rev /\ lastPlan' = poll.ops

\* rememberRev, once the draft is written or need not be.
Remember(done) ==
  IF done THEN lastRev' = poll.rev /\ lastPlan' = poll.ops ELSE UNCHANGED <<lastRev, lastPlan>>

\* notePlan: the issue, and the draft it names.
Note(d) == issue' = IF poll.ops = {} THEN 0 ELSE d

\* Variant: the plan is added to what the draft has.
MutRewritten(old, ops) == old \cup ops

\* UpdateDraft replaces the ops.
Rewritten(old, ops) == ops

Staged(done) == staged' = IF done THEN staged \cup {poll.rev} ELSE staged

\* reconcile: an empty plan leaves the open draft alone.
Converged ==
  /\ poll.at = "listed" /\ poll.ops = {}
  /\ Remember(TRUE) /\ Note(poll.open) /\ Staged(TRUE)
  /\ poll' = Idle
  /\ UNCHANGED <<revs, live, drafts, actions, restarts>>

Create ==
  /\ poll.at = "listed" /\ poll.ops # {} /\ poll.open = 0
  /\ Len(drafts) < MaxDrafts
  /\ drafts' = Append(drafts, [st |-> "draft", ops |-> poll.ops, edited |-> FALSE])
  /\ Remember(TRUE) /\ Note(Len(drafts) + 1) /\ Staged(TRUE)
  /\ poll' = Idle
  /\ UNCHANGED <<revs, live, actions, restarts>>

\* The plan is the one remembered: no write.
Keep ==
  /\ poll.at = "listed" /\ poll.ops # {} /\ poll.open # 0
  /\ poll.ops = lastPlan
  /\ Remember(TRUE) /\ Note(poll.open) /\ Staged(TRUE)
  /\ poll' = Idle
  /\ UNCHANGED <<revs, live, drafts, actions, restarts>>

\* UpdateDraft, refused when the draft has been closed since it was listed.
Update ==
  /\ poll.at = "listed" /\ poll.ops # {} /\ poll.open # 0
  /\ poll.ops # lastPlan
  /\ IF Open(poll.open)
     THEN /\ drafts' = [drafts EXCEPT ![poll.open].ops = Rewritten(@, poll.ops),
                                      ![poll.open].edited = FALSE]
          /\ Note(poll.open)
     ELSE UNCHANGED <<drafts, issue>>
  /\ Remember(Open(poll.open)) /\ Staged(Open(poll.open))
  /\ poll' = Idle
  /\ UNCHANGED <<revs, live, actions, restarts>>

\* The daemon restarts; what the sync remembers is in memory only.
Restart ==
  /\ restarts < MaxRestarts
  /\ restarts' = restarts + 1
  /\ poll' = Idle
  /\ lastRev' = 0 /\ lastPlan' = NoPlan /\ issue' = 0
  /\ UNCHANGED <<revs, live, drafts, staged, actions>>

Reconcile == Converged \/ Create \/ Keep \/ Update
Cycle == Fetch \/ FetchFailed \/ Skip \/ Plan \/ List \/ Reconcile

HumanStep ==
  \/ \E d \in DOMAIN drafts : Apply(d) \/ Discard(d) \/ \E k \in Keys, v \in Vals : Edit(d, {<<k, v>>})
  \/ \E k \in Keys, v \in Vals : Drift(k, v)

Next ==
  \/ \E d \in Specs \cup {Unparsed}, s \in BOOLEAN : (RequireSigned \/ s) /\ Push(d, s)
  \/ HumanStep
  \/ Cycle
  \/ Restart

Spec == Init /\ [][Next]_vars

-----------------------------------------------------------------------------
\* Whatever humans do between the list and the write, there is one draft of
\* the sync to review and not two (openSyncChangeset, reconcile).
OneOpenDraft == \A d, e \in DOMAIN drafts : drafts[d].st = "draft" /\ drafts[e].st = "draft" => d = e

\* Every op the sync staged is in a revision that was signed as required and
\* parsed, though the draft was written by several cycles.
StagedFromGood ==
  \A d \in DOMAIN drafts : ~drafts[d].edited =>
     \A op \in drafts[d].ops : \E r \in 1 .. head : Good(r) /\ revs[r].doc[op[1]] = op[2]

\* The sync keeps one draft, and what stands in it unedited came from good
\* revisions.
DraftFollowsRef == OneOpenDraft /\ StagedFromGood

\* A cycle that goes through with a revision leaves its plan, and nothing
\* else, in the draft it found or opened, unless a human closed that draft.
PlanIsStaged ==
  Reconcile /\ poll.ops # {} /\ poll.rev \in staged' =>
    LET d == IF poll.open = 0 THEN Len(drafts') ELSE poll.open
    IN  drafts'[d].st = "draft" => drafts'[d].ops = poll.ops

\* Revision r is not the head, or no good one, or a cycle went through with it.
Handled(r) == head = r /\ Good(r) => r \in staged

\* A divergence between the repository and the cluster leads to a draft.
DivergenceIsDrafted ==
  \A r \in 1 .. MaxRevs :
    (head = r /\ Good(r) /\ live # revs[r].doc)
      ~> (head # r \/ live = revs[r].doc \/ OpenDraft # 0)

\* The divergence issue does not outlast the draft it names.
IssueIsTrue == \A d \in 1 .. MaxDrafts : issue = d ~> (issue # d \/ Open(d))

\* A plan the open draft already has is not written again.
RewriteChanges ==
  [][\A d \in DOMAIN drafts : Reconcile /\ drafts'[d] # drafts[d] => drafts'[d].ops # drafts[d].ops]_vars
=============================================================================
