SPECIFICATION Spec
CONSTANTS
    MaxLines = 3
    PipeSize = 1
    HandlerFails = TRUE
    Orderly = TRUE
    Signals = FALSE
INVARIANTS
    NilMeansAllHandled
    SurvivorsAreKilled
PROPERTIES
    CanceledRunReturns
    ReadersEnd
CHECK_DEADLOCK FALSE
