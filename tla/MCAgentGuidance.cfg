CONSTANTS
    MaxExec = 2
    MaxDeltas = 1
    MaxCopies = 1
    Inputs = {i1, i2}
    Batches = {b1}
    Cancels = {TRUE}
    NoRef = NoRef
SPECIFICATION Spec
SYMMETRY Symmetry
INVARIANTS
    GuidanceHeard
    GuidanceInOrder
PROPERTIES
    StreamsSealed
    ImplementsLifecycle
CHECK_DEADLOCK FALSE
