----------------------------- MODULE EngineState -----------------------------
(***************************************************************************)
(* State of the change engine (internal/change): the rows it persists, the *)
(* configuration its nodes and scopes run, and the memory of the daemon    *)
(* that a crash loses.                                                     *)
(*                                                                         *)
(* A configuration is identified by the changeset that wrote it, or Base.  *)
(* A resource is a node (its interfaces file), a firewall ruleset, the SDN *)
(* configuration (both written with a user's PVE ticket), or a daemon      *)
(* scope (QoS shapes, tc mirrors, WireGuard, switch ports), which the      *)
(* daemon writes by itself.                                                *)
(***************************************************************************)
EXTENDS Lifecycle, Naturals, FiniteSets

CONSTANTS
    Changesets, Nodes, FwScopes, SdnScopes, DaemonScopes,
    Touches,      \* Touches[c]: the resources the plan of c writes
    Canary,       \* the canary node list an apply may ask for
    Guarded,      \* changesets applied with autoRollbackOnError
    SerialCalls,  \* clients issue one call at a time for a changeset
    StoreFaults,  \* a store read or write may fail
    MaxCrashes,   \* bound on daemon crashes
    Base, None

Resource  == Nodes \cup FwScopes \cup SdnScopes \cup DaemonScopes
PveScopes == FwScopes \cup SdnScopes
Version   == Changesets \cup {Base}

ASSUME PlanAssumption ==
    /\ Touches \in [Changesets -> SUBSET Resource]
    /\ Canary \subseteq Nodes
    /\ Guarded \subseteq Changesets

ASSUME ScopesDisjoint ==
    /\ Nodes \cap (PveScopes \cup DaemonScopes) = {}
    /\ PveScopes \cap DaemonScopes = {}

ASSUME SettingsAssumption ==
    /\ SerialCalls \in BOOLEAN
    /\ StoreFaults \in BOOLEAN
    /\ MaxCrashes \in Nat
    /\ Base \notin Changesets
    /\ None \notin Changesets \cup {Base}
    /\ None \notin [Resource -> Version]

VARIABLES
    \* the coordinator's store
    status,      \* changesets.status
    stage,       \* changeset_apply_stages.state, "none" without a row
    ticket,      \* the sealed revert ticket of the row
    snap,        \* the pre-apply snapshot, None before it is captured
    \* the cluster
    live,        \* the configuration each resource runs
    staged,      \* the staged interfaces file of each node
    ntimer,      \* node_timers.status of each changeset on each node
    \* the daemon process
    up,          \* "down", "arming" (ArmPendingRollbacks) or "up" (serving)
    crashes,
    toArm,       \* changesets ArmPendingRollbacks has not handled yet
    job,         \* the section under applyMu that spans several steps
    lockHeldBy,  \* the single-applier lock
    timer,       \* commit-confirm timers: "fired" is a callback not yet run
    hold,        \* canary-hold timers; "resolving" is past its locked check
    guards,      \* armed finding-triggered rollback guards
    fire,        \* fireAutoRollback calls
    edit,        \* the status an unlocked draft operation is about to write
    fanout,      \* nodes whose timer a Confirm still has to cancel
    clearing,    \* aborts that still have to delete their stage row
    pc, mode, todo, okSteps  \* the executor of each changeset

storeVars  == <<status, stage, ticket, snap>>
worldVars  == <<live, staged, ntimer>>
bootVars   == <<up, crashes, toArm>>
lockVars   == <<job, lockHeldBy>>
timerVars  == <<timer, hold>>
callVars   == <<guards, fire, edit, fanout, clearing>>
execVars   == <<pc, mode, todo, okSteps>>
vars == <<storeVars, worldVars, bootVars, lockVars, timerVars, callVars, execVars>>

-----------------------------------------------------------------------------
(* Plans. *)

Affected(c)    == Touches[c] \cap Nodes
NeedsTicket(c) == Touches[c] \cap PveScopes # {}

\* Steps of a plan. A reload step is two calls, "arm" then "reload"; "undo"
\* steps are what rollbackAfterFailure does after a failed step.
StepKind == {"stage", "arm", "reload", "apply", "undo"}

StepsOn(R) ==
    {<<k, n>> : k \in {"stage", "arm", "reload"}, n \in R \cap Nodes}
        \cup {<<"apply", r>> : r \in R \ Nodes}

\* Mutant: the canary stage runs the whole plan.
MutStageScope(c, m) == IF m = "rest" THEN Touches[c] \ Canary ELSE Touches[c]

\* canaryStageIndexes: the nodes (and so the steps) of a stage.
StageScope(c, m) ==
    CASE m = "canary" -> Touches[c] \cap Canary
      [] m = "rest"   -> Touches[c] \ Canary
      [] OTHER        -> Touches[c]

\* validateApplyStrategy for a plan of interface files: at least two affected
\* nodes, and the canary list names some of them and not all.
CanaryAllowed(c) ==
    /\ Touches[c] \subseteq Nodes
    /\ Canary # {}
    /\ Canary \subseteq Affected(c)
    /\ Canary # Affected(c)

-----------------------------------------------------------------------------
(* Types. *)

JobKind  == {"idle", "apply", "rollback", "recover", "release", "releaseOwn"}
JobType  == [kind : JobKind, cs : Changesets \cup {None}, copy : Status,
             todo : SUBSET Resource, hard : BOOLEAN, gw : BOOLEAN, clear : BOOLEAN]
NoJob    == [kind |-> "idle", cs |-> None, copy |-> "draft",
             todo |-> {}, hard |-> FALSE, gw |-> FALSE, clear |-> FALSE]

FireType == [at : {"none", "claimed", "record", "put", "act"},
             paused : BOOLEAN, row : Status \cup {Absent}]
NoFire   == [at |-> "none", paused |-> FALSE, row |-> Absent]

TimerState == {"none", "armed", "cancelled", "rolled_back", "rollback_failed"}

Pc == {"idle", "snapshot", "seal", "run", "undo", "clearDone", "clearFail",
       "await", "holding", "fail"}

TypeOK ==
    /\ status \in [Changesets -> Status \cup {Absent}]
    /\ stage \in [Changesets -> {"none", "canary_hold", "promoting"}]
    /\ ticket \in [Changesets -> {"none", "valid", "expired"}]
    /\ snap \in [Changesets -> [Resource -> Version] \cup {None}]
    /\ live \in [Resource -> Version]
    /\ staged \in [Nodes -> Version \cup {None}]
    /\ ntimer \in [Changesets -> [Nodes -> TimerState]]
    /\ up \in {"down", "arming", "up"}
    /\ crashes \in 0..MaxCrashes
    /\ toArm \in SUBSET Changesets
    /\ job \in JobType
    /\ lockHeldBy \in Changesets \cup {None}
    /\ timer \in [Changesets -> {"none", "armed", "fired"}]
    /\ hold \in [Changesets -> {"none", "armed", "fired", "resolving"}]
    /\ guards \in SUBSET Changesets
    /\ fire \in [Changesets -> FireType]
    /\ edit \in [Changesets -> Status \cup {Absent}]
    /\ fanout \in [Changesets -> SUBSET Nodes]
    /\ clearing \in SUBSET Changesets
    /\ pc \in [Changesets -> Pc]
    /\ mode \in [Changesets -> {"all", "canary", "rest"}]
    /\ todo \in [Changesets -> SUBSET (StepKind \X Resource)]
    /\ okSteps \in [Changesets -> SUBSET Resource]

Init ==
    /\ status = [c \in Changesets |-> Absent]
    /\ stage = [c \in Changesets |-> "none"]
    /\ ticket = [c \in Changesets |-> "none"]
    /\ snap = [c \in Changesets |-> None]
    /\ live = [r \in Resource |-> Base]
    /\ staged = [n \in Nodes |-> None]
    /\ ntimer = [c \in Changesets |-> [n \in Nodes |-> "none"]]
    /\ up = "up"
    /\ crashes = 0
    /\ toArm = {}
    /\ job = NoJob
    /\ lockHeldBy = None
    /\ timer = [c \in Changesets |-> "none"]
    /\ hold = [c \in Changesets |-> "none"]
    /\ guards = {}
    /\ fire = [c \in Changesets |-> NoFire]
    /\ edit = [c \in Changesets |-> Absent]
    /\ fanout = [c \in Changesets |-> {}]
    /\ clearing = {}
    /\ pc = [c \in Changesets |-> "idle"]
    /\ mode = [c \in Changesets |-> "all"]
    /\ todo = [c \in Changesets |-> {}]
    /\ okSteps = [c \in Changesets |-> {}]

-----------------------------------------------------------------------------
(* What several handlers share. *)

\* applyMu is free and the process runs.
Unlocked == up # "down" /\ job.kind = "idle"

\* The daemon serves API calls only once startup recovery is over.
Serving == up = "up"

\* Outcomes of one store access.
StoreOk == IF StoreFaults THEN BOOLEAN ELSE {TRUE}

Set(f, c, v) == [f EXCEPT ![c] = v]

\* Mutant: a stopped timer stays in the map.
MutStopped(t) == IF t = "armed" THEN "stopped" ELSE t

\* cancelTimerLocked and cancelHoldTimerLocked: Stop has no effect on a timer
\* whose callback was already started.
Stopped(t) == IF t = "armed" THEN "none" ELSE t

\* Outcomes of restoreNode, a stage call followed by a reload call: done;
\* done but its answer lost; staged and the reload failed; nothing done.
RestoreOutcome == {"ok", "lost", "stuck", "refused"}

RestoredNode(n, v, o) ==
    /\ live' = IF o \in {"ok", "lost"} THEN Set(live, n, v) ELSE live
    /\ staged' = CASE o \in {"ok", "lost"} -> Set(staged, n, None)
                   [] o = "stuck"          -> Set(staged, n, v)
                   [] OTHER                -> staged

\* One call that writes a scope's pre-apply state back: it may fail, and a
\* failed call may have taken effect.
RestoredScope(r, v, o) ==
    /\ live' = IF o \in {"ok", "lost"} THEN Set(live, r, v) ELSE live
    /\ UNCHANGED staged
==============================================================================
