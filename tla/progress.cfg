SPECIFICATION FairSpec
CONSTANTS
  None = None
  Unparsed = Unparsed
PROPERTIES
  WaitingIsServed LeadershipSettles LeftoversGo
\* Clocks, calls, events and revisions are bounded.
CHECK_DEADLOCK FALSE
