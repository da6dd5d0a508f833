CONSTANTS
    MaxTurns = 2
    MaxCrashes = 2
SPECIFICATION FairSpec
INVARIANTS
    HostSafe
PROPERTIES
    HostKeeps
    CancellationsSettle
    InterruptionsEnd
CHECK_DEADLOCK FALSE
