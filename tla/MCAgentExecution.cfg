CONSTANTS
    MaxExec = 3
    MaxDeltas = 0
    MaxCopies = 1
    Inputs = {i1}
    Batches = {b1, b2}
    Cancels = {TRUE, FALSE}
    NoRef = NoRef
SPECIFICATION Spec
SYMMETRY Symmetry
INVARIANTS
    RequestsSafe
    IdleRunCanContinue
    OneOutcome
    ToolBatches
    StreamTellsNext
PROPERTIES
    EndedRunIsFenced
CHECK_DEADLOCK FALSE
