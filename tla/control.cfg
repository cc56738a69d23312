SPECIFICATION Spec
CONSTANTS
  None = None
  Unparsed = Unparsed
INVARIANTS
  TypeOK FiredIsApplied AppliedWasSanctioned DraftFollowsRef ProposalIsWhole
  MirrorsMatchRows
PROPERTIES
  CleanupKeepsOthers OutcomesHold
\* Clocks, requests, revisions and calls are bounded.
CHECK_DEADLOCK FALSE
