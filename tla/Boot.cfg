\* A display that comes up early, late or never.
SPECIFICATION Spec
CONSTANTS
    Traces <- ShortTraces
    Rows = 4
    QueueLen = 2
INVARIANTS NothingLost FailureOnScreen
PROPERTY OutcomeReached
CHECK_DEADLOCK FALSE
