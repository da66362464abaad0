SPECIFICATION FairSpec
CONSTANTS
    Script <- MCMixed
    MaxRequests = 1
    MaxStored = 3
    MaxMounts = 2

    
PROPERTIES
    EveryGenerationEnds
    
CHECK_DEADLOCK FALSE
