SPECIFICATION Spec
CONSTANTS
    Cards <- MixedCards
    Unit <- EmmcUnit
    Cyls <- EmmcCyls
    OldTables <- NewOrDefault
    OldLen <- SmallSlots
    Polls = 2
    MaxFaults = 2
INVARIANTS
    TypeOK
    MountNesting
    TargetIdleAtPartitioning
    RepartitionInForce
    SuccessIntact
PROPERTIES
    OnlyVerifiedImagesWritten
    UpdateConfined
