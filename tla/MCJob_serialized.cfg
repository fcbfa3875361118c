SPECIFICATION Spec
CONSTANTS
    Ui = Ui
    Scheduler = Scheduler
    Handler = Handler
    Worker = Worker
    Watchdog = Watchdog
    Starters <- MCStarters
    Closers <- MCClosers
    MaxTimeSec = 1
    TimeoutSec = 1
    Serialized = TRUE
    Orderly = TRUE
INVARIANTS
    StopReachesWorker
    OneRemover
PROPERTIES
    
    ImplementsLifecycle
CHECK_DEADLOCK FALSE
