\* Three runs of fdisk with five layouts on a device of three-track cylinders.
SPECIFICATION Spec
CONSTANTS
    Heads = 3
    Track = 2
    Cyls = 11
    Layouts <- Variants
    MaximumParts = 9
    MaxSessions = 3
INVARIANTS RecordsApart ReadBack TornFromPlans
CHECK_DEADLOCK FALSE
