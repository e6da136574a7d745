SPECIFICATION Spec
CONSTANTS
    Inittabs <- OneTab
    FirstTab <- Shipped
    Daemons = {"rcS"}
    Pids = {1, 2, 3, 4, 5, 6, 7}
    Signals = {"HUP", "INT", "TSTP", "TERM"}
    MaxSignals = 3
    MaxErrors = 1
INVARIANTS ShellWaitsForSysinit
PROPERTIES Respawned HaltCarriedOut
CHECK_DEADLOCK FALSE
