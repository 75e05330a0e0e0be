SPECIFICATION Spec
CONSTANTS
    Rounds = {k1, k2, d1}
    Scheduled = {k1, k2}
    Relays = {f1}
    Banned = {}
    HwRelays = {}
    Addresses = {a1, a2}
    Dummy = Dummy
    Blank = Blank
    None = None
    BatchSize = 1
    ChunkSize = 1
    MaxRetries = 0
    MaxAttempts = 1
    MaxInterruptions = 1
    MaxBoots = 0
    RoundsFitInterval = TRUE
SYMMETRY MCSymmetry
INVARIANTS
    TypeOK
    CertificatesCarryListedAddress
    RoundsInv
    RelaysKeptUntilPersisted
    UploadsBounded
PROPERTIES
    SubmitsOnlyUnregistered
CHECK_DEADLOCK FALSE
