SPECIFICATION FairSpec
CONSTANTS
    Runners = {r1, r2}
    MaxTasks = 2
    MaxFaults = 1
    Anomalies = {}
INVARIANTS
    DispatchedOnce
    RunningIsCovered
PROPERTIES
    TerminalStays
    NeverBlocked
CHECK_DEADLOCK FALSE
