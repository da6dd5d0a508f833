CONSTANTS
    MaxInputs = 2
    MaxTurns = 2
    MaxCrashes = 1
    MaxCalls = 1
    Orderly = TRUE
SPECIFICATION Spec
CONSTRAINT Followed
INVARIANTS
    QueueSafe
    
    
CHECK_DEADLOCK FALSE
