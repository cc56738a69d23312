SPECIFICATION Spec
CONSTANTS
    c1 = c1  c2 = c2  n1 = n1  n2 = n2  fw = fw  qos = qos
    Changesets = {c1, c2}
    Nodes = {n1}
    FwScopes = {fw}
    SdnScopes = {}
    DaemonScopes = {}
    Touches <- SharedNode
    Canary = {}
    Guarded = {}
    SerialCalls = TRUE
    StoreFaults = FALSE
    MaxCrashes = 1
    Base = Base
    None = None
CHECK_DEADLOCK FALSE
INVARIANTS
    TypeOK
    LockCoversWindow
    LockNotLeaked
    UnconfirmedIsArmed
    RolledBackRestored
    TicketOnlyInWindow
PROPERTY
    OneWindowAtATime
