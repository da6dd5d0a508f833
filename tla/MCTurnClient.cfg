CONSTANTS
    load = load
    use = use
    Inputs = {i1}
    Calls = {load, use}
    Loads = {load}
    Dynamic = {use}
    Operation <- MCOperation
    MaxExecutions = 3
    MaxAttempts = 2
    MaxFaults = 3
SPECIFICATION FairSpec
INVARIANTS
    EndsWithRun
    ReplayHarmless
PROPERTIES
    EndsUnlessLost
CHECK_DEADLOCK FALSE
