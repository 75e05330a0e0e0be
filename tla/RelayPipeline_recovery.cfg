SPECIFICATION Spec
CONSTANTS
    Rounds = {k1}
    Scheduled = {k1}
    Relays = {f1}
    Banned = {}
    HwRelays = {f1}
    Addresses = {a1, a2}
    Dummy = Dummy
    Blank = Blank
    None = None
    BatchSize = 1
    ChunkSize = 1
    MaxRetries = 1
    MaxAttempts = 1
    MaxInterruptions = 1
    MaxBoots = 0
    RoundsFitInterval = TRUE
SYMMETRY MCSymmetry
INVARIANTS
    RecoveryFindsRelays
CHECK_DEADLOCK FALSE
