SPECIFICATION Spec
CONSTANTS
    Relays = {f1, f2}
    Offers <- Listed
    Serials = {"a1", "a2"}
    Known = {"a1"}
    Verifiers = {v1}
    None = None
    MaxRounds = 1
INVARIANTS
    OneRelayPerDevice
CHECK_DEADLOCK FALSE
