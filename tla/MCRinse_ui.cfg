SPECIFICATION SafeSpec
CONSTANTS
    post = post
    rest = rest
    delete = delete
    get = get
    ui = ui
    closer = closer
    Scheduler = Scheduler
    MaxJobs = 2
    Posters <- Forms
    RestPosters <- NoOne
    Deleters <- Dels
    Downloaders <- NoOne
    Clickers <- Clicks
    Closers <- Closes
    Limits <- One
    CleanupSec = 1
    TimeoutSec = 1
    CleanupGotten = TRUE
INVARIANTS
    NoOrphans
CHECK_DEADLOCK FALSE
