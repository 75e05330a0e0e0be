SPECIFICATION Spec
CONSTANTS
    Relays = {f1, f2}
    Offers <- Listed
    Serials = {"a1", "a2"}
    Known = {"a1"}
    Verifiers = {v1, v2}
    None = None
    MaxRounds = 2
SYMMETRY Interchangeable
INVARIANTS
    TypeOK
PROPERTIES
    ImplementsLedger
    OnlyIncompleteInfoBlocks
CHECK_DEADLOCK FALSE
