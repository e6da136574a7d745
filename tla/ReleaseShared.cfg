\* Two runs of mkrelease.sh for one output directory, sources rebuilt under them.
SPECIFICATION Spec
CONSTANTS
    Runs = {"r1", "r2"}
    Option <- TwoRuns
    SourceSets <- AllSources
    OldUpdate = {TRUE, FALSE}
    MaxBuilds = 3
    MaxFaults = 1
INVARIANTS AcceptedIsOneBuild OneRun
CHECK_DEADLOCK FALSE
