SPECIFICATION PatientSpec
CONSTANTS
    Cards <- ShrinkOnly
    Unit <- EmmcUnit
    Cyls <- EmmcCyls
    OldTables <- NewOrDefault
    OldLen <- SmallSlots
    Polls = 2
    MaxFaults = 2
PROPERTIES
    EveryRunEnds
    Recovers
