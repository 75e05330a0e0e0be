SPECIFICATION FairSpec
CONSTANTS
    Relays = {r1, r2}
    ChunkSize = 1
    Retries = 2
    MaxStarts = 2
    MaxMessages = 5
INVARIANTS
    TypeOK
    RepeatedOnlyIfUnknown
    ToldOnce
PROPERTIES
    ImplementsSubmission
    EveryRoundEnds
CHECK_DEADLOCK FALSE
