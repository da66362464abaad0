SPECIFICATION Spec
CONSTANTS
    Handlers = {h1, h2}
    Reconcilers = {r1}
    Upstream = {"data", "done"}
    MaxAttempts = 1
    AttemptBound = 2
    MaxFrames = 2
    MaxFaults = 0
SYMMETRY Symmetry
INVARIANTS
    CommittedPrefix
    CompletedIsTerminated
PROPERTIES
    CommittedIsForever
CHECK_DEADLOCK FALSE
