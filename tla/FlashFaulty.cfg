SPECIFICATION Spec
CONSTANTS
    Cards <- FaultyCards
    Unit <- EmmcUnit
    Cyls <- EmmcCyls
    OldTables <- NewOrDefault
    OldLen <- SmallSlots
    Polls = 2
    MaxFaults = 1
INVARIANTS
    SuccessIntact
