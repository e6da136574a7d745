SPECIFICATION Spec
CONSTANTS
    Cards <- SetupAndUpdate
    Unit <- EmmcUnit
    Cyls <- EmmcCyls
    OldTables <- DefaultOnly
    OldLen <- SmallSlots
    Polls = 2
    MaxFaults = 1
PROPERTIES
    SuccessSurvivesReboot
