SPECIFICATION Spec
CONSTANTS
    Inittabs <- Reloaded
    FirstTab <- Full
    Daemons = {}
    Pids = {1, 2, 3, 4, 5, 6, 7, 8, 9, 10}
    Signals = {"HUP", "TSTP", "QUIT", "TERM"}
    MaxSignals = 2
    MaxErrors = 1
INVARIANTS PidsTrue InittabInForce ShutdownOnce ShutdownComplete
CHECK_DEADLOCK FALSE
