SPECIFICATION FairSpec
CONSTANTS
    TTL = 3
    Skew = 1
    None = None
INVARIANTS
    TypeOK
    LookupsFresh
    OneRequest
PROPERTIES
    MapRefreshed
CHECK_DEADLOCK FALSE
