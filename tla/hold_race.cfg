SPECIFICATION Spec
CONSTANTS
    c1 = c1  c2 = c2  n1 = n1  n2 = n2  fw = fw  qos = qos
    Changesets = {c1}
    Nodes = {n1, n2}
    FwScopes = {}
    SdnScopes = {}
    DaemonScopes = {}
    Touches <- TwoNodes
    Canary = {n1}
    Guarded = {}
    SerialCalls = TRUE
    StoreFaults = FALSE
    MaxCrashes = 0
    Base = Base
    None = None
CHECK_DEADLOCK FALSE
PROPERTY
    TerminalIsFinal
