CONSTANTS
    MaxExec = 2
    MaxDeltas = 0
    MaxCopies = 2
    Inputs = {i1}
    Batches = {b1}
    Cancels = {TRUE}
    NoRef = NoRef
SPECIFICATION FairSpec
PROPERTIES
    ExecutionsSettle
    ExecutionsMoveForward
CHECK_DEADLOCK FALSE
