----------------------------- MODULE GitPropose -----------------------------
(***************************************************************************)
(* Proposing a changeset as a pull request (internal/gitsync/propose.go,   *)
(* and adopt.go, which publishes in the same way): the document is read    *)
(* and rendered, then a branch, a commit and a request are written with    *)
(* one host call each, and a branch the call created is taken back when a  *)
(* later call fails.                                                       *)
(*                                                                         *)
(* A document is the set of edits it contains.  Reviewers merge and close  *)
(* requests and others commit to the ref meanwhile.                        *)
(***************************************************************************)
EXTENDS Naturals, FiniteSets

CONSTANTS Changesets, Others,  \* edits: of changesets, and commits by others
          Faults,              \* of FaultKinds
          CallFaults,          \* how many host calls of a proposal may fail
          MaxCalls

FaultKinds == {"fail", "lost", "cancel"}

GitProposeAssumption ==
  /\ Changesets # {} /\ Changesets \cap Others = {}
  /\ Faults \subseteq FaultKinds
  /\ CallFaults \in Nat /\ MaxCalls \in Nat

VARIABLES main,      \* the document at the ref
          branch,    \* branch of a changeset: absent, or where it started and its file
          requests,  \* open requests of a changeset
          settled,   \* history: a reviewer has merged or closed one of them
          recorded,  \* changeset_proposals
          call,      \* the proposal that holds Proposer.mu
          faults, calls

host == <<main, branch, requests, settled>>
vars == <<main, branch, requests, settled, recorded, call, faults, calls>>

Docs     == SUBSET (Changesets \cup Others)
NoBranch == [exists |-> FALSE, base |-> {}, file |-> {}]
NoCall   == [at |-> "idle", c |-> CHOOSE c \in Changesets : TRUE, content |-> {}, sha |-> {},
             created |-> FALSE, found |-> FALSE, cancelled |-> FALSE, review |-> FALSE]

TypeOK ==
  /\ main \in Docs
  /\ branch \in [Changesets -> [exists : BOOLEAN, base : Docs, file : Docs]]
  /\ \A c \in Changesets : ~branch[c].exists => branch[c] = NoBranch
  /\ requests \in [Changesets -> Nat]
  /\ settled \subseteq Changesets /\ recorded \subseteq Changesets
  /\ call \in [at : {"idle", "resolve", "head", "create", "commit", "find", "open", "abandon"},
               c : Changesets, content : Docs, sha : Docs, created : BOOLEAN, found : BOOLEAN,
               cancelled : BOOLEAN, review : BOOLEAN]
  /\ call.at = "idle" => call = NoCall
  /\ faults \in 0 .. CallFaults /\ calls \in 0 .. MaxCalls

Init ==
  /\ main = {}
  /\ branch = [c \in Changesets |-> NoBranch]
  /\ requests = [c \in Changesets |-> 0]
  /\ settled = {} /\ recorded = {}
  /\ call = NoCall
  /\ faults = 0 /\ calls = 0

-----------------------------------------------------------------------------
(* Host calls.  A call works; or fails; or works and its answer is lost;   *)
(* or fails as all later ones, the request of the user being gone.         *)

Works  == ~call.cancelled /\ UNCHANGED faults
Errs   == \/ call.cancelled /\ UNCHANGED faults
          \/ {"fail", "cancel"} \cap Faults # {} /\ faults < CallFaults /\ faults' = faults + 1
Loses  == "lost" \in Faults /\ ~call.cancelled /\ faults < CallFaults /\ faults' = faults + 1

Cancelled == \/ call.cancelled
             \/ "cancel" \in Faults /\ "fail" \notin Faults

\* Variant: a branch left by a request that was settled counts as one of this
\* call.
MutAbandon ==
  call' = IF call.created \/ call.c \in settled
          THEN [call EXCEPT !.at = "abandon", !.cancelled = Cancelled] ELSE NoCall

\* Where a failed call leads: the compensation, for a branch of this call.
Abandon ==
  call' = IF call.created THEN [call EXCEPT !.at = "abandon", !.cancelled = Cancelled] ELSE NoCall

At(step) == call.at = step
Goto(step) == call' = [call EXCEPT !.at = step]

-----------------------------------------------------------------------------
(* Propose.                                                                *)

\* The lock, the changeset, readBase and verifyRoundTrip: an edit the
\* document already has is nothing to propose.
Propose(c) ==
  /\ At("idle") /\ calls < MaxCalls
  /\ c \notin main
  /\ call' = [NoCall EXCEPT !.at = "resolve", !.c = c, !.content = main \cup {c},
                            !.review = requests[c] > 0 /\ branch[c].exists]
  /\ calls' = calls + 1 /\ faults' = 0
  /\ UNCHANGED <<host, recorded>>

ResolveRef ==
  /\ At("resolve")
  /\ \/ Works /\ call' = [call EXCEPT !.at = "head", !.sha = main]
     \/ Errs /\ call' = NoCall
  /\ UNCHANGED <<host, recorded, calls>>

BranchHead ==
  /\ At("head")
  /\ \/ Works /\ Goto(IF branch[call.c].exists THEN "commit" ELSE "create")
     \/ Errs /\ call' = NoCall
  /\ UNCHANGED <<host, recorded, calls>>

Created == [branch EXCEPT ![call.c] = [exists |-> TRUE, base |-> call.sha, file |-> call.sha]]

CreateBranch ==
  /\ At("create")
  /\ \/ Works /\ branch' = Created /\ call' = [call EXCEPT !.at = "commit", !.created = TRUE]
     \/ Errs /\ call' = NoCall /\ UNCHANGED branch
     \/ Loses /\ call' = NoCall /\ branch' = Created
  /\ UNCHANGED <<main, requests, settled, recorded, calls>>

\* ReadFile and, unless the branch has the content, CommitFile.
CommitFile ==
  /\ At("commit")
  /\ LET b == branch[call.c]
         committed == [branch EXCEPT ![call.c].file = call.content]
     IN  \/ Works /\ b.exists /\ branch' = committed /\ Goto("find")
         \/ Works /\ ~b.exists /\ Abandon /\ UNCHANGED branch
         \/ Errs /\ Abandon /\ UNCHANGED branch
         \/ Loses /\ b.exists /\ Abandon /\ branch' = committed
  /\ UNCHANGED <<main, requests, settled, recorded, calls>>

\* Variant: every proposal opens a request.
MutFindOpen == FALSE

FindOpen == requests[call.c] > 0

FindOpenPullRequest ==
  /\ At("find")
  /\ \/ Works /\ call' = [call EXCEPT !.at = "open", !.found = FindOpen]
     \/ Errs /\ Abandon
  /\ UNCHANGED <<host, recorded, calls>>

\* record: a failed write of the row is logged only.
Record == recorded' \in {recorded \cup {call.c}, recorded}

UpdatePullRequest ==
  /\ At("open") /\ call.found
  /\ \/ Works /\ call' = NoCall /\ Record
     \/ (Errs \/ Loses) /\ Abandon /\ UNCHANGED recorded
  /\ UNCHANGED <<host, calls>>

\* The host refuses a request without a branch; a second one it may take.
OpenPullRequest ==
  /\ At("open") /\ ~call.found
  /\ LET accepted == branch[call.c].exists
         opened   == [requests EXCEPT ![call.c] = @ + 1]
     IN  \/ Works /\ accepted /\ requests' = opened /\ call' = NoCall /\ Record
         \/ Works /\ ~accepted /\ Abandon /\ UNCHANGED <<requests, recorded>>
         \/ Errs /\ Abandon /\ UNCHANGED <<requests, recorded>>
         \/ Loses /\ accepted /\ requests' = opened /\ Abandon /\ UNCHANGED recorded
  /\ UNCHANGED <<main, branch, settled, calls>>

\* Variant: the compensation is forgotten.
MutDeleted == branch

Deleted == [branch EXCEPT ![call.c] = NoBranch]

\* A host may close the requests of a branch that is deleted.
DeleteBranch ==
  /\ At("abandon")
  /\ \/ /\ Works \/ Loses
        /\ branch' = Deleted
        /\ requests' \in {requests, [requests EXCEPT ![call.c] = 0]}
     \/ Errs /\ UNCHANGED <<branch, requests>>
  /\ call' = NoCall
  /\ UNCHANGED <<main, settled, recorded, calls>>

-----------------------------------------------------------------------------
(* The repository.                                                         *)

\* Once it is settled a request is no longer the one a call started with.
Settle(c) ==
  /\ settled' = settled \cup {c}
  /\ call' = IF call.c = c THEN [call EXCEPT !.review = FALSE] ELSE call

\* A merge carries over what the branch changed since it started.
Merge(c) ==
  /\ requests[c] > 0 /\ branch[c].exists
  /\ main' = (main \ (branch[c].base \ branch[c].file)) \cup (branch[c].file \ branch[c].base)
  /\ requests' = [requests EXCEPT ![c] = @ - 1]
  /\ branch' \in {branch, [branch EXCEPT ![c] = NoBranch]}
  /\ Settle(c)
  /\ UNCHANGED <<recorded, faults, calls>>

Close(c) ==
  /\ requests[c] > 0
  /\ requests' = [requests EXCEPT ![c] = @ - 1]
  /\ Settle(c)
  /\ UNCHANGED <<main, branch, recorded, faults, calls>>

Commit(o) ==
  /\ o \notin main
  /\ main' = main \cup {o}
  /\ UNCHANGED <<branch, requests, settled, recorded, call, faults, calls>>

Next ==
  \/ \E c \in Changesets : Propose(c) \/ Merge(c) \/ Close(c)
  \/ ResolveRef \/ BranchHead \/ CreateBranch \/ CommitFile
  \/ FindOpenPullRequest \/ UpdatePullRequest \/ OpenPullRequest \/ DeleteBranch
  \/ \E o \in Others : Commit(o)

Spec == Init /\ [][Next]_vars

-----------------------------------------------------------------------------
\* However often a changeset is proposed and whichever calls fail or lose
\* their answer, it has one open request at most (publish).
OneRequest == \A c \in Changesets : requests[c] <= 1

\* A branch that was under review when the proposal started is not deleted
\* by its compensation.
ReviewSurvives ==
  At("abandon") /\ call.review /\ requests[call.c] > 0
    => branch'[call.c].exists = branch[call.c].exists

\* Between proposals branch and request both exist or neither does, except
\* what reviewers have settled.
BothOrNeither ==
  At("idle") => \A c \in Changesets \ settled : branch[c].exists = (requests[c] > 0)

\* One request at most, and branch and request together where every answer
\* arrives and one call of a proposal fails at most.
ProposalIsWhole ==
  /\ OneRequest
  /\ Faults \subseteq {"fail"} /\ CallFaults <= 1 => BothOrNeither

\* Merging a proposal undoes nobody's commit.
MergeKeepsOthers ==
  [][\A c \in Changesets : Merge(c) => main \subseteq main']_vars
=============================================================================
