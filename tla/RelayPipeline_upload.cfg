SPECIFICATION FairSpec
CONSTANTS
    Rounds = {k1}
    Scheduled = {k1}
    Relays = {f1, f2}
    Banned = {}
    HwRelays = {f2}
    Addresses = {a1}
    Dummy = Dummy
    Blank = Blank
    None = None
    BatchSize = 1
    ChunkSize = 1
    MaxRetries = 2
    MaxAttempts = 1
    MaxInterruptions = 1
    MaxBoots = 1
    RoundsFitInterval = TRUE
INVARIANTS
    FlawlessRoundRegisters
    UploadsBounded
    FlawlessRoundPublishes
PROPERTIES
    RoundsEnd
CHECK_DEADLOCK FALSE
