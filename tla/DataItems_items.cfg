SPECIFICATION Spec
CONSTANTS
    GroupBase = 4
    IntLimit = 8
    ReadGroups = 2
    Small = 5
    MaxTagBytes = 16
    Thrown = Thrown
    None = None
    SigLength = 2
    IdLength = 2
    CountLength = 2
    SizeLength = 2
    MaxItems = 2
    Options <- MCOptions
    Owner <- MCOwner
    Signature <- MCSignature
    Id <- MCId
INVARIANTS
    TypeOK
    ItemReadsBack
    ItemVerifies
    RefusedOnlyIfTooLong
    BundleReadsBack
CHECK_DEADLOCK FALSE
