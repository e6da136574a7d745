SPECIFICATION Spec
CONSTANTS
    MaxCyls = 16
    SizeSet = {0, 1, 4}
INVARIANTS
    PlanRealised
    NoOverlap
    OvercommitOutcome
PROPERTIES
    Terminates
CHECK_DEADLOCK FALSE
