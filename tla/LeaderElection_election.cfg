SPECIFICATION FairSpec
CONSTANTS
    Instances = {i1, i2}
    Sessions = {s1, s2}
    None = None
    MaxCrashes = 1
    MaxExpiries = 1
    MaxErrors = 1
INVARIANTS
    TypeOK
    LeaderHoldsLock
    SplitBrainNeedsExpiry
    OneEnqueuer
    ElectionInv
PROPERTIES
    ImplementsLeadership
    LeaderElected
CHECK_DEADLOCK FALSE
