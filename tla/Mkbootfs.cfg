SPECIFICATION Spec
CONSTANTS
    Arguments <- Packings
    Names <- NameSeq
    NameLen <- Lengths
    MaxFiles = 5
    MaxFaults = 2
INVARIANTS Complete Readable Reproducible DiesForCause
CHECK_DEADLOCK FALSE
