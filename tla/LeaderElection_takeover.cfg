SPECIFICATION FairSpec
CONSTANTS
    Instances = {i1, i2}
    Sessions = {s1, s2, s3}
    None = None
    MaxCrashes = 1
    MaxExpiries = 0
    MaxErrors = 0
PROPERTIES
    AnotherTakesOver
CHECK_DEADLOCK FALSE
