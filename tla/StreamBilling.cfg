SPECIFICATION FairSpec
CONSTANTS
    Workers = {w1, w2}
    Estimate = 1
    Raised = 2
    Actuals = {1, 3}
    MaxFaults = 2
INVARIANTS
    
    OneOutcome
PROPERTIES
    ResolutionStays
    UnresolvedIsResolved
CHECK_DEADLOCK FALSE
