SPECIFICATION Spec
CONSTANTS
    c1 = c1  c2 = c2  n1 = n1  n2 = n2  fw = fw  qos = qos
    Changesets = {c1}
    Nodes = {n1}
    FwScopes = {}
    SdnScopes = {}
    DaemonScopes = {qos}
    Touches <- NodeAndQos
    Canary = {}
    Guarded = {}
    SerialCalls = TRUE
    StoreFaults = FALSE
    MaxCrashes = 1
    Base = Base
    None = None
CHECK_DEADLOCK FALSE
PROPERTY
    RecoveryUndoesDaemonScopes
