SPECIFICATION Spec
CONSTANTS
    Ui = Ui
    Scheduler = Scheduler
    Handler = Handler
    Worker = Worker
    Watchdog = Watchdog
    Starters <- MCStarters
    Closers <- MCClosers
    MaxTimeSec = 1
    TimeoutSec = 1
    Serialized = FALSE
    Orderly = TRUE
INVARIANTS
    TypeOK
    OneLaunch
    WorkerOwnsState
    ClosedJobHasRemover
    FailedJobTellsWhy
PROPERTIES
    OutcomeIsFinal
    StartedJobStops
    ClosedJobIsRemoved
CHECK_DEADLOCK FALSE
