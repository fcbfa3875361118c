SPECIFICATION SafeSpec
CONSTANTS
    post = post
    rest = rest
    delete = delete
    get = get
    ui = ui
    closer = closer
    Scheduler = Scheduler
    MaxJobs = 3
    Posters <- Forms
    RestPosters <- NoOne
    Deleters <- Dels
    Downloaders <- NoOne
    Clickers <- NoOne
    Closers <- Closes
    Limits <- OneTwo
    CleanupSec <- Never
    TimeoutSec = 1
    CleanupGotten = TRUE
INVARIANTS
    TypeOK
    StartRespectsLimit
    StartInOrder
    LaunchNotClosed
PROPERTIES
    ImplementsLifecycle
    ImplementsQueue
CHECK_DEADLOCK FALSE
