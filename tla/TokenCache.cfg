SPECIFICATION FairSpec
CONSTANTS
    Writers = {w1, w2}
    Readers = {r1}
    MaxTries = 3
    FaultSets <- MCFaultSets
    MaxFaults = 2
PROPERTIES
    Linearizable
    CommittedIsPublished
