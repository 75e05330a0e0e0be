SPECIFICATION FairSpec
CONSTANTS
    Instances = {i1, i2}
    Validates = {v1, v2}
    Verifies = {w1}
    None = None
    Cleans = {TRUE, FALSE}
    MaxFaults = 1
INVARIANTS
    TypeOK
    SecondChainNeedsRace
    ChainLostOnlyByFailure
PROPERTIES
    RoundsRecur
CHECK_DEADLOCK FALSE
