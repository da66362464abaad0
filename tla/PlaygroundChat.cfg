SPECIFICATION Spec
CONSTANTS
    Script <- MCShort
    MaxRequests = 2
    MaxStored = 3
    MaxMounts = 2
INVARIANTS
    AtMostOneRequest
    BufferIsArmed
    NoForeignText
    NoSpinnerLeft
    
    ReloadIsSettled
CHECK_DEADLOCK FALSE
