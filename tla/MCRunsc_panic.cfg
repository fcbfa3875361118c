SPECIFICATION Spec
CONSTANTS
    MaxLines = 2
    PipeSize = 1
    HandlerFails = TRUE
    Orderly = TRUE
    Signals = TRUE
INVARIANTS
    KillSucceeds
CHECK_DEADLOCK FALSE
