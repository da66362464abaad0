SPECIFICATION FairSpec
CONSTANTS
    Handlers = {h1}
    Reconcilers = {r1}
    Upstream = {"comment", "data", "done"}
    MaxAttempts = 2
    AttemptBound = 2
    MaxFrames = 2
    MaxFaults = 1
INVARIANTS
    SuccessIsKept
    
PROPERTIES
    StartedIsFinalised
CHECK_DEADLOCK FALSE
