----------------------------- MODULE ReviewGates -----------------------------
(***************************************************************************)
(* The review gates in front of an apply (internal/change/review.go,       *)
(* twoperson.go, freeze_override.go, apply_sdn_foreign.go) for one         *)
(* changeset: the requests that edit, validate, review and apply it, each  *)
(* as the sequence of store statements its handler runs.                   *)
(*                                                                         *)
(* Only beginApply holds a mutex (applyMu), and only against another       *)
(* beginApply: every other handler reads the row, decides, and writes in   *)
(* separate statements. The statements run under the request's context, so *)
(* a client that goes away makes the rest of them fail; the ones whose     *)
(* error is only logged are the ones that take \E ok \in Logged.           *)
(***************************************************************************)
EXTENDS FiniteSets, Naturals

CONSTANTS
    Users,              \* principals with netWrite
    Author,             \* the changeset's author
    Approvers,          \* [changesets] approvers, {} for anyone
    AllowSelfApproval,  \* [changesets] allow_self_approval
    Required,           \* [changesets] approval_required
    Ops,                \* op ids an edit may put in the changeset
    ProtectedOps,       \* the ops that match the declared protected class
    Approvals,          \* distinct sign-offs that class asks for
    FrozenOps,          \* the ops a freeze-tagged policy rule denies today
    SDNOps,             \* the ops that make the plan touch SDN
    Entries,            \* pending SDN entries somebody else may stage in PVE
    None,               \* no row
    OneAtATime,         \* TRUE: a request starts only when none is running
    LoggedFaults,       \* TRUE: a statement whose error is logged may fail
    MaxRequests         \* bound: requests started

ReviewAssumption ==
    /\ Author \in Users
    /\ Approvers \subseteq Users
    /\ ProtectedOps \subseteq Ops /\ FrozenOps \subseteq Ops /\ SDNOps \subseteq Ops
    /\ Approvals \in Nat /\ MaxRequests \in Nat
    /\ IsFiniteSet(Users)
    /\ None \notin Users /\ \A s \in SUBSET Ops : None # s
    /\ {OneAtATime, LoggedFaults} \subseteq BOOLEAN

VARIABLES
    row,        \* changesets: [ops, status]
    comments,   \* changeset_comments: the ops with a comment attached
    approval,   \* changeset_approvals: [status, by, of]; "of" is the ops the
                \* reviewer was looking at, which the table does not store
    signoffs,   \* changeset_signoffs: per user the ops endorsed, or None
    breakGlass, \* changeset_break_glass: the fingerprint of the ops, or None
    freezeOver, \* changeset_freeze_override: likewise
    ack,        \* changeset_sdn_pending_acks: the entries acknowledged
    foreign,    \* what PVE reports pending now
    req,        \* the request each user has running
    applyMu,    \* the user whose beginApply holds applyMu, or None
    applied,    \* what the last apply to pass the gates went by
    retracted,  \* users whose latest decision is a rejection
    started     \* requests started

tables == <<comments, approval, signoffs, breakGlass, freezeOver, ack>>
history == <<applied, retracted>>
vars == <<row, tables, foreign, req, applyMu, history, started>>

Idle == [at |-> "idle", ops |-> {}, new |-> {}, status |-> "draft"]
NoDecision == [status |-> "none", by |-> None, of |-> None]
Logged == IF LoggedFaults THEN BOOLEAN ELSE {TRUE}
Editable(s) == s \in {"draft", "validated"}
NotApplied == [ops |-> None, approval |-> NoDecision, signers |-> {},
               endorsed |-> {}, glass |-> None, freeze |-> None,
               pending |-> {}, acked |-> {}]

-----------------------------------------------------------------------------
(* A request starts with Service.Get; what it goes on with is what it read. *)

Begin(u, at, new) ==
    /\ req[u] = Idle
    /\ started < MaxRequests
    /\ OneAtATime => \A v \in Users : req[v] = Idle
    /\ started' = started + 1
    /\ req' = [req EXCEPT ![u] = [at |-> at, ops |-> row.ops, new |-> new,
                                  status |-> row.status]]

Goto(u, at) == req' = [req EXCEPT ![u].at = at]
Done(u) == req' = [req EXCEPT ![u] = Idle]

-----------------------------------------------------------------------------
(* UpdateDraft: the row, then the comments, the decision, the              *)
(* acknowledgement and the sign-offs, one statement each.                  *)

UpdateDraft(u, ops) ==
    /\ Editable(row.status)
    /\ Begin(u, "edit", ops)
    /\ UNCHANGED <<row, tables, foreign, applyMu, history>>

EditRow(u) ==
    /\ req[u].at = "edit"
    /\ row' = [ops |-> req[u].new, status |-> "draft"]
    /\ Goto(u, "cleanup")
    /\ UNCHANGED <<tables, foreign, applyMu, history, started>>

\* Mutant: the difference of the op ids is taken the wrong way round.
MutCleanup(u) ==
    /\ req[u].at = "cleanup"
    /\ comments' = comments \ (req[u].new \ req[u].ops)
    /\ Goto(u, "clearApproval")
    /\ UNCHANGED <<row, approval, signoffs, breakGlass, freezeOver, ack, foreign, applyMu,
                   history, started>>

cleanupOrphanedComments(u) ==
    /\ req[u].at = "cleanup"
    /\ \E ok \in Logged :
           comments' = IF ok THEN comments \ (req[u].ops \ req[u].new) ELSE comments
    /\ Goto(u, "clearApproval")
    /\ UNCHANGED <<row, approval, signoffs, breakGlass, freezeOver, ack, foreign, applyMu,
                   history, started>>

\* Mutant: the decision on a changeset that was still a draft is kept.
MutClearApproval(u) ==
    /\ req[u].at = "clearApproval"
    /\ approval' = IF req[u].status = "validated" THEN NoDecision ELSE approval
    /\ Goto(u, "clearAck")
    /\ UNCHANGED <<row, comments, signoffs, breakGlass, freezeOver, ack, foreign, applyMu,
                   history, started>>

clearApproval(u) ==
    /\ req[u].at = "clearApproval"
    /\ \E ok \in Logged : approval' = IF ok THEN NoDecision ELSE approval
    /\ Goto(u, "clearAck")
    /\ UNCHANGED <<row, comments, signoffs, breakGlass, freezeOver, ack, foreign, applyMu,
                   history, started>>

clearSDNPendingAck(u) ==
    /\ req[u].at = "clearAck"
    /\ \E ok \in Logged : ack' = IF ok THEN {} ELSE ack
    /\ Goto(u, "clearSignoffs")
    /\ UNCHANGED <<row, comments, approval, signoffs, breakGlass, freezeOver, foreign,
                   applyMu, history, started>>

\* Mutant: an edit takes back the editor's own endorsement only.
MutClearSignoffs(u) ==
    /\ req[u].at = "clearSignoffs"
    /\ signoffs' = [signoffs EXCEPT ![u] = None]
    /\ Done(u)
    /\ UNCHANGED <<row, comments, approval, breakGlass, freezeOver, ack, foreign, applyMu,
                   history, started>>

clearSignoffs(u) ==
    /\ req[u].at = "clearSignoffs"
    /\ \E ok \in Logged : signoffs' = IF ok THEN [v \in Users |-> None] ELSE signoffs
    /\ Done(u)
    /\ UNCHANGED <<row, comments, approval, breakGlass, freezeOver, ack, foreign, applyMu,
                   history, started>>

-----------------------------------------------------------------------------
(* Validate writes back the whole row it read, with the status the findings *)
(* give it: a freeze-tagged deny blocks unless its override is for these    *)
(* ops, and any other rule may block too.                                   *)

\* Mutant: the override's fingerprint is not compared.
MutOverridden(ops) == freezeOver # None

Overridden(ops) == freezeOver # None /\ freezeOver = ops

Blocked(ops, other) == other \/ (ops \cap FrozenOps # {} /\ ~Overridden(ops))

Validate(u) ==
    /\ Editable(row.status)
    /\ Begin(u, "validate", {})
    /\ UNCHANGED <<row, tables, foreign, applyMu, history>>

ValidateWrite(u) ==
    /\ req[u].at = "validate"
    /\ \E other \in BOOLEAN :
           row' = [ops |-> req[u].ops,
                   status |-> IF Blocked(req[u].ops, other) THEN "draft" ELSE "validated"]
    /\ Done(u)
    /\ UNCHANGED <<tables, foreign, applyMu, history, started>>

-----------------------------------------------------------------------------
(* Comments and decisions. *)

AddComment(u, op) ==
    /\ op \in row.ops
    /\ Begin(u, "comment", {op})
    /\ UNCHANGED <<row, tables, foreign, applyMu, history>>

CommentInsert(u) ==
    /\ req[u].at = "comment"
    /\ comments' = comments \cup req[u].new
    /\ Done(u)
    /\ UNCHANGED <<row, approval, signoffs, breakGlass, freezeOver, ack, foreign, applyMu,
                   history, started>>

Allowed(u) == Approvers = {} \/ u \in Approvers

ReviewApprove(u) ==
    /\ AllowSelfApproval \/ u # Author
    /\ Allowed(u)
    /\ Begin(u, "approve", {})
    /\ UNCHANGED <<row, tables, foreign, applyMu, history>>

ApproveUpsert(u) ==
    /\ req[u].at = "approve"
    /\ approval' = [status |-> "approved", by |-> u, of |-> req[u].ops]
    /\ retracted' = retracted \ {u}
    /\ Goto(u, "signoff")
    /\ UNCHANGED <<row, comments, signoffs, breakGlass, freezeOver, ack, foreign, applyMu,
                   applied, started>>

recordSignoff(u) ==
    /\ req[u].at = "signoff"
    /\ \E ok \in Logged :
           signoffs' = IF ok THEN [signoffs EXCEPT ![u] = req[u].ops] ELSE signoffs
    /\ Done(u)
    /\ UNCHANGED <<row, comments, approval, breakGlass, freezeOver, ack, foreign, applyMu,
                   history, started>>

ReviewReject(u) ==
    /\ Allowed(u)
    /\ Begin(u, "reject", {})
    /\ UNCHANGED <<row, tables, foreign, applyMu, history>>

RejectUpsert(u) ==
    /\ req[u].at = "reject"
    /\ approval' = [status |-> "rejected", by |-> u, of |-> req[u].ops]
    /\ Goto(u, "withdraw")
    /\ UNCHANGED <<row, comments, signoffs, breakGlass, freezeOver, ack, foreign, applyMu,
                   history, started>>

\* Mutant: a rejection leaves the rejecter's endorsement.
MutWithdraw(u) ==
    /\ req[u].at = "withdraw"
    /\ retracted' = retracted \cup {u}
    /\ Done(u)
    /\ UNCHANGED <<row, comments, approval, signoffs, breakGlass, freezeOver, ack, foreign,
                   applyMu, applied, started>>

\* The rejecter has been answered once the request is done.
withdrawSignoff(u) ==
    /\ req[u].at = "withdraw"
    /\ \E ok \in Logged :
           signoffs' = IF ok THEN [signoffs EXCEPT ![u] = None] ELSE signoffs
    /\ retracted' = retracted \cup {u}
    /\ Done(u)
    /\ UNCHANGED <<row, comments, approval, breakGlass, freezeOver, ack, foreign, applyMu,
                   applied, started>>

-----------------------------------------------------------------------------
(* The reasoned overrides are pinned to the ops they were invoked for. *)

InvokeBreakGlass(u) ==
    /\ Begin(u, "glass", {})
    /\ UNCHANGED <<row, tables, foreign, applyMu, history>>

BreakGlassUpsert(u) ==
    /\ req[u].at = "glass"
    /\ breakGlass' = req[u].ops
    /\ Done(u)
    /\ UNCHANGED <<row, comments, approval, signoffs, freezeOver, ack, foreign, applyMu,
                   history, started>>

InvokeFreezeOverride(u) ==
    /\ Begin(u, "freeze", {})
    /\ UNCHANGED <<row, tables, foreign, applyMu, history>>

FreezeUpsert(u) ==
    /\ req[u].at = "freeze"
    /\ freezeOver' = req[u].ops
    /\ Done(u)
    /\ UNCHANGED <<row, comments, approval, signoffs, breakGlass, ack, foreign, applyMu,
                   history, started>>

\* The live read of PVE; no entry is read for a plan without SDN ops.
AcknowledgeSDNForeignPending(u) ==
    /\ Begin(u, "ack", IF row.ops \cap SDNOps # {} THEN foreign ELSE {})
    /\ UNCHANGED <<row, tables, foreign, applyMu, history>>

AckUpsert(u) ==
    /\ req[u].at = "ack"
    /\ ack' = req[u].new
    /\ Done(u)
    /\ UNCHANGED <<row, comments, approval, signoffs, breakGlass, freezeOver, foreign,
                   applyMu, history, started>>

-----------------------------------------------------------------------------
(* beginApply: the gates in their order, on the ops it read. *)

Refuse(u) ==
    /\ Done(u)
    /\ applyMu' = None

\* lockHeldBy: a changeset that passed the gates keeps the single-applier
\* lock until its window ends, which is not modelled here.
LockFree == applied.ops = None

ApplyRead(u) ==
    /\ applyMu = None
    /\ LockFree
    /\ Editable(row.status)
    /\ Begin(u, "isApproved", {})
    /\ applyMu' = u
    /\ applied' = NotApplied
    /\ UNCHANGED <<row, tables, foreign, retracted>>

\* Mutant: any decision on record opens the gate.
MutIsApproved(u) ==
    /\ req[u].at = "isApproved"
    /\ IF Required => approval # NoDecision
       THEN /\ applied' = [applied EXCEPT !.approval = approval]
            /\ Goto(u, "revalidate")
            /\ UNCHANGED applyMu
       ELSE Refuse(u) /\ UNCHANGED applied
    /\ UNCHANGED <<row, tables, foreign, retracted, started>>

isApproved(u) ==
    /\ req[u].at = "isApproved"
    /\ IF Required => approval.status = "approved"
       THEN /\ applied' = [applied EXCEPT !.approval = approval]
            /\ Goto(u, "revalidate")
            /\ UNCHANGED applyMu
       ELSE Refuse(u) /\ UNCHANGED applied
    /\ UNCHANGED <<row, tables, foreign, retracted, started>>

\* A blocking finding sends the row it read back to draft.
Revalidate(u) ==
    /\ req[u].at = "revalidate"
    /\ \E other \in BOOLEAN :
           IF Blocked(req[u].ops, other)
           THEN /\ row' = [ops |-> req[u].ops, status |-> "draft"]
                /\ Refuse(u)
                /\ UNCHANGED applied
           ELSE /\ applied' = [applied EXCEPT !.freeze = freezeOver]
                /\ Goto(u, "twoPerson")
                /\ UNCHANGED <<row, applyMu>>
    /\ UNCHANGED <<tables, foreign, retracted, started>>

signoffPrincipals == {v \in Users : signoffs[v] # None}

enforceTwoPerson(u) ==
    /\ req[u].at = "twoPerson"
    /\ IF \/ req[u].ops \cap ProtectedOps = {}
          \/ Cardinality(signoffPrincipals) >= Approvals
          \/ breakGlass # None /\ breakGlass = req[u].ops
       THEN /\ applied' = [applied EXCEPT !.signers = signoffPrincipals,
                               !.endorsed = {signoffs[v] : v \in signoffPrincipals},
                               !.glass = breakGlass]
            /\ Goto(u, "foreign")
            /\ UNCHANGED applyMu
       ELSE Refuse(u) /\ UNCHANGED applied
    /\ UNCHANGED <<row, tables, foreign, retracted, started>>

isSDNForeignPendingCovered(pending) == pending = {} \/ pending \subseteq ack

ForeignGate(u) ==
    /\ req[u].at = "foreign"
    /\ LET pending == IF req[u].ops \cap SDNOps # {} THEN foreign ELSE {}
       IN  IF isSDNForeignPendingCovered(pending)
           THEN /\ applied' = [applied EXCEPT !.pending = pending, !.acked = ack]
                /\ Goto(u, "persist")
                /\ UNCHANGED applyMu
           ELSE Refuse(u) /\ UNCHANGED applied
    /\ UNCHANGED <<row, tables, foreign, retracted, started>>

\* The row becomes applying with the ops the gates looked at; the executor
\* takes over (ApplyExecutor).
ApplyPersist(u) ==
    /\ req[u].at = "persist"
    /\ row' = [ops |-> req[u].ops, status |-> "applying"]
    /\ applied' = [applied EXCEPT !.ops = req[u].ops]
    /\ Refuse(u)
    /\ UNCHANGED <<tables, foreign, retracted, started>>

-----------------------------------------------------------------------------
\* Somebody stages or applies SDN changes in PVE itself.
ForeignEdit ==
    /\ foreign' \in SUBSET Entries
    /\ foreign' # foreign
    /\ UNCHANGED <<row, tables, req, applyMu, history, started>>

Init ==
    /\ row \in [ops : (SUBSET Ops) \ {{}}, status : {"draft"}]
    /\ comments = {}
    /\ approval = NoDecision
    /\ signoffs = [u \in Users |-> None]
    /\ breakGlass = None
    /\ freezeOver = None
    /\ ack = {}
    /\ foreign \in SUBSET Entries
    /\ req = [u \in Users |-> Idle]
    /\ applyMu = None
    /\ applied = NotApplied
    /\ retracted = {}
    /\ started = 0

ReviewStep(u) ==
    \/ \E op \in Ops : AddComment(u, op)
    \/ CommentInsert(u)
    \/ ReviewApprove(u)
    \/ ApproveUpsert(u)
    \/ recordSignoff(u)
    \/ ReviewReject(u)
    \/ RejectUpsert(u)
    \/ withdrawSignoff(u)

EditStep(u) ==
    \/ \E ops \in SUBSET Ops : UpdateDraft(u, ops)
    \/ EditRow(u)
    \/ cleanupOrphanedComments(u)
    \/ clearApproval(u)
    \/ clearSDNPendingAck(u)
    \/ clearSignoffs(u)
    \/ Validate(u)
    \/ ValidateWrite(u)

OverrideStep(u) ==
    \/ InvokeBreakGlass(u)
    \/ BreakGlassUpsert(u)
    \/ InvokeFreezeOverride(u)
    \/ FreezeUpsert(u)
    \/ AcknowledgeSDNForeignPending(u)
    \/ AckUpsert(u)

ApplyStep(u) ==
    \/ ApplyRead(u)
    \/ isApproved(u)
    \/ Revalidate(u)
    \/ enforceTwoPerson(u)
    \/ ForeignGate(u)
    \/ ApplyPersist(u)

Next ==
    \/ \E u \in Users : ReviewStep(u) \/ EditStep(u) \/ OverrideStep(u) \/ ApplyStep(u)
    \/ ForeignEdit

Spec == Init /\ [][Next]_vars

-----------------------------------------------------------------------------
(* What the gates promise. *)

Decision == [status : {"none", "approved", "rejected"}, by : Users \cup {None},
             of : {None} \cup SUBSET Ops]

TypeOK ==
    /\ row \in [ops : SUBSET Ops, status : {"draft", "validated", "applying"}]
    /\ comments \subseteq Ops
    /\ approval \in Decision
    /\ signoffs \in [Users -> {None} \cup SUBSET Ops]
    /\ {breakGlass, freezeOver} \subseteq {None} \cup SUBSET Ops
    /\ ack \subseteq Entries /\ foreign \subseteq Entries
    /\ applyMu \in Users \cup {None}
    /\ \A u \in Users : req[u].at \in {"isApproved", "revalidate", "twoPerson", "foreign",
                                       "persist"} => applyMu = u
    /\ applied.approval \in Decision
    /\ retracted \subseteq Users

Passed == applied.ops # None
Quiet == \A u \in Users : req[u] = Idle
NeedsTwoPersons == Passed /\ applied.ops \cap ProtectedOps # {}

\* Where approval is required, the ops that reach the nodes are the ops an
\* entitled reviewer approved: editing a draft clears the decision made on
\* the old ops before beginApply can read it.
AppliedWasApproved ==
    Passed /\ Required =>
        /\ applied.approval.status = "approved"
        /\ applied.approval.of = applied.ops
        /\ Allowed(applied.approval.by)
        /\ AllowSelfApproval \/ applied.approval.by # Author

\* A changeset of a protected class reaches the nodes with enough distinct
\* principals' endorsement of exactly its ops, or under a break-glass
\* override invoked for them.
AppliedWasEndorsed ==
    NeedsTwoPersons /\ applied.glass # applied.ops =>
        /\ Cardinality(applied.signers) >= Approvals
        /\ applied.endorsed \subseteq {applied.ops}

\* Whoever approved and then rejected is not counted by enforceTwoPerson.
RetractedNotCounted ==
    \A u \in Users :
        req[u].at = "twoPerson" /\ req'[u].at = "foreign"
            => applied'.signers \cap retracted = {}

\* Between requests, a recorded approval is of the ops in the row.
DecisionIsCurrent ==
    Quiet /\ approval.status = "approved" => approval.of = row.ops

\* Between requests, no comment hangs on an op the changeset no longer has.
NoOrphanComments == Quiet => comments \subseteq row.ops

\* However requests overlap and whatever clearing fails, an override counts
\* for the ops it was invoked for and no others, and no pending SDN entry is
\* swept in that no acknowledgement on record covers.
OverridesArePinned ==
    Passed =>
        /\ applied.ops \cap FrozenOps # {} => applied.freeze = applied.ops
        /\ NeedsTwoPersons /\ Cardinality(applied.signers) < Approvals
               => applied.glass = applied.ops
        /\ applied.pending \subseteq applied.acked

\* The whole of it, as far as the requests allow: the overrides always, the
\* decisions and endorsements when requests do not overlap and no clearing fails.
AppliedWasSanctioned ==
    /\ OverridesArePinned
    /\ OneAtATime /\ ~LoggedFaults =>
           AppliedWasApproved /\ AppliedWasEndorsed /\ DecisionIsCurrent /\ NoOrphanComments
==============================================================================
