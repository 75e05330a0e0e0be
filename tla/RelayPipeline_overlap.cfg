SPECIFICATION Spec
CONSTANTS
    Rounds = {k1, k2}
    Scheduled = {k1, k2}
    Relays = {f1}
    Banned = {}
    HwRelays = {}
    Addresses = {a1, a2}
    Dummy = Dummy
    Blank = Blank
    None = None
    BatchSize = 1
    ChunkSize = 1
    MaxRetries = 1
    MaxAttempts = 1
    MaxInterruptions = 0
    MaxBoots = 1
    RoundsFitInterval = TRUE
SYMMETRY MCSymmetry
INVARIANTS
    EveryCertificateListed
CHECK_DEADLOCK FALSE
