SPECIFICATION Spec
CONSTANTS
    MaxLines = 2
    PipeSize = 1
    HandlerFails = TRUE
    Orderly = FALSE
    Signals = FALSE
PROPERTIES
    CanceledRunReturns
CHECK_DEADLOCK FALSE
