CONSTANTS
    MaxInputs = 2
    MaxTurns = 2
    MaxCrashes = 0
    MaxCalls = 1
    Orderly = TRUE
SPECIFICATION Spec
INVARIANTS
    NeverStuck
CHECK_DEADLOCK FALSE
