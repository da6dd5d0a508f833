CONSTANTS
    MaxTurns = 1
    MaxCrashes = 2
SPECIFICATION Spec
INVARIANTS
    StaleRunsReconciled
CHECK_DEADLOCK FALSE
