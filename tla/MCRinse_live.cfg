SPECIFICATION Spec
CONSTANTS
    post = post
    rest = rest
    delete = delete
    get = get
    ui = ui
    closer = closer
    Scheduler = Scheduler
    MaxJobs = 2
    Posters <- NoOne
    RestPosters <- Rests
    Deleters <- NoOne
    Downloaders <- Gets
    Clickers <- NoOne
    Closers <- Closes
    Limits <- One
    CleanupSec = 1
    TimeoutSec = 0
    CleanupGotten = TRUE
INVARIANTS
    ListedResultIsThere
    ClosedServerIsEmpty
PROPERTIES
    CleanupWaits
    WaitingJobStarts
    ClosedJobIsRemoved
    StoppedJobIsCleanedUp
CHECK_DEADLOCK FALSE
