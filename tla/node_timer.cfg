SPECIFICATION FairSpec
CONSTANTS
    Keys = {k1, k2}
    StoreFaults = FALSE
    MaxCrashes = 2
CHECK_DEADLOCK FALSE
INVARIANTS
    TypeOK
    ArmedIsTimed
    RolledBackIsTrue
PROPERTY
    ArmedResolves
