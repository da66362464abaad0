SPECIFICATION FairReplaySpec
CONSTANTS
    Handlers = {h1}
    Reconcilers = {r1}
    Clients = {c1}
    Upstream = {"comment", "data", "done"}
    MaxAttempts = 2
    AttemptBound = 2
    MaxFrames = 2
    MaxFaults = 0
INVARIANTS
    GapFree
    
PROPERTIES
    CompletedIsReplayed
CHECK_DEADLOCK FALSE
