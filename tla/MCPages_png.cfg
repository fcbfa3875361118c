SPECIFICATION Spec
CONSTANTS
    v1 = v1
    v2 = v2
    MaxPages = 2
    DocIsPNG = TRUE
    Viewers <- OneViewer
    Requests <- OneThree
    MaxPreview = 2
    Fits = 2
INVARIANTS
    OutputIsPages
CHECK_DEADLOCK FALSE
