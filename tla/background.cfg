SPECIFICATION Spec
CONSTANT
  None = None
INVARIANTS
  TypeOK CapturesAreKept LeaderIsFenced StandbyCanTakeOver UndoIsKept
  StoreIsOneStore PeerIsSpared ReceiverIsTold FeedIsWhole
PROPERTIES
  NothingIsLost
\* Clocks, calls, events and restarts are bounded.
CHECK_DEADLOCK FALSE
