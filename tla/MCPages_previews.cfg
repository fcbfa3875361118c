SPECIFICATION Spec
CONSTANTS
    v1 = v1
    v2 = v2
    MaxPages = 2
    DocIsPNG = FALSE
    Viewers <- TwoViewers
    Requests <- OneThree
    MaxPreview = 2
    Fits = 2
INVARIANTS
    TypeOK
    OutputIsPages
    PreviewLacksLastAtMost
PROPERTIES
    NotesAreKept
    PagesAreNoted
CHECK_DEADLOCK FALSE
