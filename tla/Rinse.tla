------------------------------- MODULE Rinse -------------------------------
(***************************************************************************)
(* The job list of the service (rinser/rinse.go) and every goroutine that  *)
(* works on it: the handlers that post, delete and download jobs, the      *)
(* background task that starts and cleans up jobs, the Start and Stop      *)
(* buttons of the user interface, and Rinse.Close.                         *)
(*                                                                         *)
(* AddJob and runTasks hold Rinse.mu while they read the state of one job  *)
(* after the other, each under its own job.mu, and then call Start: that   *)
(* is one step per job read.  Jobs themselves are as coarse as the list    *)
(* can tell; Job.tla has their inside.                                     *)
(***************************************************************************)
EXTENDS Naturals, Integers, Sequences, FiniteSets

CONSTANTS
    MaxJobs,      \* bound: how many jobs are ever posted
    Posters,      \* goroutines in handlePost
    RestPosters,  \* goroutines in RESTPOSTJobs
    Deleters,     \* goroutines in RESTDELETEJobsUUID
    Downloaders,  \* goroutines in RESTGETJobsUUIDRinsed
    Clickers,     \* goroutines in uiJobButton.JawsClick
    Scheduler,    \* the goroutine of runBackgroundTasks
    Closers,      \* goroutines that call Rinse.Close
    Limits,       \* the values maxConcurrent may be set to
    CleanupSec,   \* Job.CleanupSec of every job
    TimeoutSec,   \* Job.TimeoutSec of every job
    CleanupGotten \* Job.CleanupGotten of every job

Goroutines == Posters \union RestPosters \union Deleters \union Downloaders
                \union Clickers \union Closers \union {Scheduler}

\* Jobs are numbered in the order NewJob makes them.
Jobs == 1 .. MaxJobs

NoJob == 0

ASSUME BoundAssumption == MaxJobs \in Nat /\ Limits \subseteq Nat \ {0} /\ Limits # {}

\* "free" is nobody, and runBackgroundTasks does not call Rinse.Close.
ASSUME GoroutineAssumption ==
    "free" \notin Goroutines /\ Scheduler \notin Closers

ASSUME SettingsAssumption ==
    CleanupSec \in Int /\ TimeoutSec \in Int /\ CleanupGotten \in BOOLEAN

VARIABLES
    jobs,          \* Rinse.jobs
    pages,         \* the jobs that pages of the user interface show: all that
                   \*   were listed, for a page may be stale
    serverClosed,  \* Rinse.closed
    maxConcurrent, \* Rinse.maxConcurrent
    mu,            \* who holds Rinse.mu across several steps, or "free"
    scan,          \* the local variables of the loop over jobs under Rinse.mu
    pc,            \* what each goroutine does next
    cur,           \* the job it does it to
    todo,          \* the jobs it has yet to remove or close
    state,         \* Job.state: "none" before NewJob; "active" is any state
                   \*   from JobStarting to JobEnding
    cancelFn,      \* is Job.cancelFn set?
    closed,        \* Job.closed
    stopped,       \* Job.stopped: "zero", "recent", or "old" past CleanupSec
    worker,        \* the goroutine of Job.process
    watchdog,      \* the goroutine of Job.watchProgress
    files          \* Job.Workdir: "none", "present" or "removed"

listVars == <<jobs, pages, serverClosed, maxConcurrent>>
lockVars == <<mu, scan>>
goVars   == <<pc, cur, todo>>
jobVars  == <<state, cancelFn, closed, stopped, worker, watchdog, files>>
vars     == <<listVars, lockVars, goVars, jobVars>>

Listed == {jobs[i] : i \in DOMAIN jobs}

Running == {j \in Listed : state[j] = "active"}

NoScan == [pos |-> 1, running |-> 0, next |-> NoJob]

\* Taking and leaving Rinse.mu for a loop over the jobs.
Lock(t) == mu = "free" /\ mu' = t /\ UNCHANGED scan

Unlock == mu' = "free" /\ scan' = NoScan

Goto(t, label) == pc' = [pc EXCEPT ![t] = label]

\* The goroutine is through with its job: it turns to the next one it has to
\* remove or close, or is done.
TurnTo(t, rest) ==
    /\ todo' = [todo EXCEPT ![t] = IF rest = <<>> THEN <<>> ELSE Tail(rest)]
    /\ cur' = [cur EXCEPT ![t] = IF rest = <<>> THEN NoJob ELSE Head(rest)]
    /\ Goto(t, IF rest = <<>> THEN "idle"
               ELSE IF t \in Closers THEN "close" ELSE "unlist")

Finish(t) == TurnTo(t, todo[t])

Take(t, j, label) ==
    /\ cur' = [cur EXCEPT ![t] = j]
    /\ Goto(t, label)
    /\ UNCHANGED todo

Init ==
    /\ jobs = <<>>
    /\ pages = {}
    /\ serverClosed = FALSE
    /\ maxConcurrent \in Limits
    /\ mu = "free"
    /\ scan = NoScan
    /\ pc = [t \in Goroutines |-> "idle"]
    /\ cur = [t \in Goroutines |-> NoJob]
    /\ todo = [t \in Goroutines |-> <<>>]
    /\ state = [j \in Jobs |-> "none"]
    /\ cancelFn = [j \in Jobs |-> FALSE]
    /\ closed = [j \in Jobs |-> FALSE]
    /\ stopped = [j \in Jobs |-> "zero"]
    /\ worker = [j \in Jobs |-> "none"]
    /\ watchdog = [j \in Jobs |-> "none"]
    /\ files = [j \in Jobs |-> "none"]

-----------------------------------------------------------------------------
(* Posting a job                                                           *)

\* NewJob: the job has its directories and is known to its handler alone.
NewJob(t, j) ==
    /\ pc[t] = "idle"
    /\ t \in Posters \union RestPosters
    /\ state[j] = "none"
    /\ \A k \in Jobs : k < j => state[k] # "none"
    /\ state' = [state EXCEPT ![j] = "new"]
    /\ files' = [files EXCEPT ![j] = "present"]
    /\ Take(t, j, "adding")
    /\ UNCHANGED <<listVars, lockVars, cancelFn, closed, stopped, worker,
                   watchdog>>

\* Mutation: no handler closes the job.
OnlyAnswer(t) == Finish(t)

\* handlePost closes the job it cannot add; RESTPOSTJobs only answers.
GiveUp(t) ==
    IF t \in Posters THEN Take(t, cur[t], "close") ELSE Finish(t)

UploadFails(t) ==
    /\ pc[t] = "adding"
    /\ GiveUp(t)
    /\ UNCHANGED <<listVars, lockVars, jobVars>>

\* Mutation: AddJob does not look at Rinse.closed.
AcceptsAlways(j) == j \notin Listed

Accepts(j) == ~serverClosed /\ j \notin Listed

\* AddJob up to its call of nextJobLocked.
AddJob(t) ==
    /\ pc[t] = "adding"
    /\ mu = "free"
    /\ \/ /\ Accepts(cur[t])
          /\ jobs' = Append(jobs, cur[t])
          /\ pages' = pages \union {cur[t]}
          /\ Lock(t)
          /\ Goto(t, "scan")
          /\ UNCHANGED <<cur, todo>>
       \/ /\ ~Accepts(cur[t])
          /\ GiveUp(t)
          /\ UNCHANGED <<jobs, pages, lockVars>>
    /\ UNCHANGED <<serverClosed, maxConcurrent, jobVars>>

-----------------------------------------------------------------------------
(* The loop over the jobs under Rinse.mu, and Start                        *)

\* runTasks takes the lock.
Tick ==
    /\ pc[Scheduler] = "idle"
    /\ ~serverClosed
    /\ Lock(Scheduler)
    /\ Goto(Scheduler, "scan")
    /\ UNCHANGED <<listVars, cur, todo, jobVars>>

\* Mutation: jobs that stopped a while ago are not due.
CleanupMissed(j) == CleanupSec >= 0 /\ stopped[j] = "zero"

\* Mutation: jobs are due as soon as they stop.
CleanupHurries(j) == CleanupSec >= 0

\* A stopped job is due when Job.stopped is older than CleanupSec.  The zero
\* time is older than anything.
CleanupDue(j) == CleanupSec >= 0 /\ stopped[j] \in {"zero", "old"}

\* Mutation: the last job that waits is picked.
PickLast(j) == j

\* The first job that waits is picked.
Pick(j) == IF scan.next = NoJob THEN j ELSE scan.next

\* One turn of the loop.  nextJobLocked gives up on the first job too many.
ScanJob(t) ==
    /\ pc[t] = "scan"
    /\ scan.pos <= Len(jobs)
    /\ LET j == jobs[scan.pos] IN
       \/ /\ state[j] = "new"
          /\ scan' = [scan EXCEPT !.pos = @ + 1, !.next = Pick(j)]
          /\ UNCHANGED todo
       \/ /\ state[j] \in {"finished", "failed"}
          /\ scan' = [scan EXCEPT !.pos = @ + 1]
          /\ todo' = IF t = Scheduler /\ CleanupDue(j)
                     THEN [todo EXCEPT ![t] = Append(@, j)] ELSE todo
       \/ /\ state[j] = "active"
          /\ scan' = IF t # Scheduler /\ scan.running + 1 >= maxConcurrent
                     THEN [pos |-> Len(jobs) + 1, running |-> scan.running + 1,
                           next |-> NoJob]
                     ELSE [scan EXCEPT !.pos = @ + 1, !.running = @ + 1]
          /\ UNCHANGED todo
    /\ UNCHANGED <<listVars, mu, pc, cur, jobVars>>

\* Mutations: the limit is off by one, either way.
ScanPicksOneMore == scan.next # NoJob /\ scan.running <= maxConcurrent
ScanPicksOneLess == scan.next # NoJob /\ scan.running + 1 < maxConcurrent

ScanPicks == scan.next # NoJob /\ scan.running < maxConcurrent

\* Mutation: the lock is released before Start, as MaybeStartJob would.
ScanEndsUnlocked(t) ==
    /\ pc[t] = "scan" /\ scan.pos > Len(jobs) /\ ScanPicks
    /\ Goto(t, "start")
    /\ mu' = "free"
    /\ UNCHANGED <<listVars, scan, cur, todo, jobVars>>

\* The loop is over and there is a job to start.
ScanEnds(t) ==
    /\ pc[t] = "scan"
    /\ scan.pos > Len(jobs)
    /\ ScanPicks
    /\ Goto(t, "start")
    /\ UNCHANGED <<listVars, lockVars, cur, todo, jobVars>>

\* The loop is over and there is none: the lock is released.
ScanEndsIdle(t) ==
    /\ pc[t] = "scan"
    /\ scan.pos > Len(jobs)
    /\ ~ScanPicks
    /\ Unlock
    /\ Finish(t)
    /\ UNCHANGED <<listVars, jobVars>>

\* transition(New, Starting) in Start, called under Rinse.mu.
StartNext(t) ==
    /\ pc[t] = "start"
    /\ \/ /\ state[scan.next] = "new"
          /\ state' = [state EXCEPT ![scan.next] = "active"]
          /\ Take(t, scan.next, "launch")
          /\ UNCHANGED lockVars
       \/ /\ state[scan.next] # "new"
          /\ Unlock
          /\ Finish(t)
          /\ UNCHANGED state
    /\ UNCHANGED <<listVars, cancelFn, closed, stopped, worker, watchdog,
                   files>>

\* The rest of Start; AddJob and runTasks then release Rinse.mu.
Launch(t) ==
    /\ pc[t] = "launch"
    /\ cancelFn' = [cancelFn EXCEPT ![cur[t]] = TRUE]
    /\ worker' = [worker EXCEPT ![cur[t]] = "run"]
    /\ watchdog' = [watchdog EXCEPT ![cur[t]] = "wait"]
    /\ IF mu = t THEN Unlock ELSE UNCHANGED lockVars
    /\ Finish(t)
    /\ UNCHANGED <<listVars, state, closed, stopped, files>>

-----------------------------------------------------------------------------
(* Removing jobs                                                           *)

\* RESTDELETEJobsUUID finds the job in the list.
Delete(t, j) ==
    /\ pc[t] = "idle"
    /\ t \in Deleters
    /\ mu = "free"
    /\ j \in Listed
    /\ Take(t, j, "unlist")
    /\ UNCHANGED <<listVars, lockVars, jobVars>>

\* The button of a job on a page, which may be gone from the list by now.
Click(t, j) ==
    /\ pc[t] = "idle"
    /\ t \in Clickers
    /\ j \in pages
    /\ \/ /\ state[j] = "new"
          /\ state' = [state EXCEPT ![j] = "active"]
          /\ Take(t, j, "launch")
       \/ /\ state[j] # "new"
          /\ Take(t, j, "unlist")
          /\ UNCHANGED state
    /\ UNCHANGED <<listVars, lockVars, cancelFn, closed, stopped, worker,
                   watchdog, files>>

\* Mutation: the job stays in the list.
WithJob(j) == jobs

\* Mutation: the last job fills the gap.
SwappedOut(j) ==
    IF j \in Listed
    THEN LET n == CHOOSE i \in DOMAIN jobs : jobs[i] = j
         IN  [i \in 1 .. Len(jobs) - 1 |-> IF i = n THEN jobs[Len(jobs)] ELSE jobs[i]]
    ELSE jobs

\* slices.DeleteFunc.  AddJob sees to it that a job is in the list once.
WithoutJob(j) ==
    IF j \in Listed
    THEN LET n == CHOOSE i \in DOMAIN jobs : jobs[i] = j
         IN  [i \in 1 .. Len(jobs) - 1 |-> IF i < n THEN jobs[i] ELSE jobs[i + 1]]
    ELSE jobs

\* The locked section of RemoveJob.
Unlist(t) ==
    /\ pc[t] = "unlist"
    /\ mu = "free"
    /\ jobs' = WithoutJob(cur[t])
    /\ Goto(t, "close")
    /\ UNCHANGED <<pages, serverClosed, maxConcurrent, lockVars, cur, todo, jobVars>>

\* Mutation: the files are not left to the worker.
LeftToNobody(j) == closed[j]

\* Job.Close leaves the files to the worker it cancels, or to whoever closed
\* the job before.
LeftToOthers(j) == cancelFn[j] \/ closed[j]

\* Job.Close
CloseJob(t) ==
    /\ pc[t] = "close"
    /\ closed' = [closed EXCEPT ![cur[t]] = TRUE]
    /\ IF LeftToOthers(cur[t])
       THEN Finish(t)
       ELSE Take(t, cur[t], "remove")
    /\ UNCHANGED <<listVars, lockVars, state, cancelFn, stopped, worker,
                   watchdog, files>>

\* removeAll, called by Close.  Here it removes the directory in one step; that
\* it may fail, which is logged and no more, is in Job.tla (RemoveDirFails).
RemoveAll(t) ==
    /\ pc[t] = "remove"
    /\ files' = [files EXCEPT ![cur[t]] = "removed"]
    /\ Finish(t)
    /\ UNCHANGED <<listVars, lockVars, state, cancelFn, closed, stopped, worker,
                   watchdog>>

\* Rinse.Close empties the list and closes each job it held.
CloseServer(t) ==
    /\ pc[t] = "idle"
    /\ ~serverClosed
    /\ mu = "free"
    /\ serverClosed' = TRUE
    /\ jobs' = <<>>
    /\ TurnTo(t, jobs)
    /\ UNCHANGED <<pages, maxConcurrent, lockVars, jobVars>>

-----------------------------------------------------------------------------
(* Downloading                                                             *)

Find(t, j) ==
    /\ pc[t] = "idle"
    /\ t \in Downloaders
    /\ mu = "free"
    /\ j \in Listed
    /\ Take(t, j, "found")
    /\ UNCHANGED <<listVars, lockVars, jobVars>>

\* The state of the job and its result file decide between 200 and an error.
OpenResult(t) ==
    /\ pc[t] = "found"
    /\ IF state[cur[t]] = "finished" /\ files[cur[t]] = "present"
       THEN Take(t, cur[t], "copying")
       ELSE Finish(t)
    /\ UNCHANGED <<listVars, lockVars, jobVars>>

\* The whole file was copied to the client: downloaded.
Downloaded(t) ==
    /\ pc[t] = "copying"
    /\ IF CleanupGotten THEN Take(t, cur[t], "unlist") ELSE Finish(t)
    /\ UNCHANGED <<listVars, lockVars, jobVars>>

\* The client went away, or the file could not be read.
CopyFails(t) ==
    /\ pc[t] = "copying"
    /\ Finish(t)
    /\ UNCHANGED <<listVars, lockVars, jobVars>>

-----------------------------------------------------------------------------
(* Workers, watchdogs, settings, time                                      *)

\* The last transition of process, or its error path.
WorkerEnds(j) ==
    /\ worker[j] = "run"
    /\ \E result \in {"finished", "failed"} :
           state' = [state EXCEPT ![j] = result]
    /\ worker' = [worker EXCEPT ![j] = "ended"]
    /\ UNCHANGED <<listVars, lockVars, goVars, cancelFn, closed, stopped,
                   watchdog, files>>

\* Mutations: processDone never, or always, removes the files.
WorkerForgets(j) == "exited"
WorkerHurries(j) == "remove"

\* What processDone does after its locked section.
AfterDone(j) == IF closed[j] THEN "remove" ELSE "exited"

\* processDone
ProcessDone(j) ==
    /\ worker[j] = "ended"
    /\ stopped' = [stopped EXCEPT ![j] = "recent"]
    /\ cancelFn' = [cancelFn EXCEPT ![j] = FALSE]
    /\ worker' = [worker EXCEPT ![j] = AfterDone(j)]
    /\ UNCHANGED <<listVars, lockVars, goVars, state, closed, watchdog, files>>

WorkerRemoves(j) ==
    /\ worker[j] = "remove"
    /\ worker' = [worker EXCEPT ![j] = "exited"]
    /\ files' = [files EXCEPT ![j] = "removed"]
    /\ UNCHANGED <<listVars, lockVars, goVars, state, cancelFn, closed, stopped,
                   watchdog>>

\* The watchdog closes its job, which may have stopped since it looked.  When
\* it exits it takes no more steps, so its exit is not modelled.
WatchdogCloses(j) ==
    /\ watchdog[j] = "wait"
    /\ TimeoutSec > 0
    /\ closed' = [closed EXCEPT ![j] = TRUE]
    /\ watchdog' = [watchdog EXCEPT ![j] =
                       IF LeftToOthers(j) THEN "wait" ELSE "remove"]
    /\ UNCHANGED <<listVars, lockVars, goVars, state, cancelFn, stopped, worker,
                   files>>

WatchdogRemoves(j) ==
    /\ watchdog[j] = "remove"
    /\ watchdog' = [watchdog EXCEPT ![j] = "wait"]
    /\ files' = [files EXCEPT ![j] = "removed"]
    /\ UNCHANGED <<listVars, lockVars, goVars, state, cancelFn, closed, stopped,
                   worker>>

\* CleanupSec goes by after processDone.  Below zero it never does.
StoppedAges(j) ==
    /\ CleanupSec >= 0
    /\ stopped[j] = "recent"
    /\ stopped' = [stopped EXCEPT ![j] = "old"]
    /\ UNCHANGED <<listVars, lockVars, goVars, state, cancelFn, closed, worker,
                   watchdog, files>>

\* Mutation: values below one are not refused.
SetMaxConcurrentUnchecked(n) ==
    /\ mu = "free"
    /\ maxConcurrent' = n - 1
    /\ UNCHANGED <<jobs, pages, serverClosed, lockVars, goVars, jobVars>>

\* uiMaxConcurrent.JawsSet, which refuses values below one.
SetMaxConcurrent(n) ==
    /\ mu = "free"
    /\ maxConcurrent' = n
    /\ UNCHANGED <<jobs, pages, serverClosed, lockVars, goVars, jobVars>>

-----------------------------------------------------------------------------
\* What a goroutine does on its own accord.
Request ==
    \/ \E t \in Goroutines, j \in Jobs :
           NewJob(t, j) \/ Delete(t, j) \/ Click(t, j) \/ Find(t, j)
    \/ \E t \in Closers : CloseServer(t)
    \/ \E n \in Limits \ {maxConcurrent} : SetMaxConcurrent(n)

\* What it must take Rinse.mu for.
Locking(t) == AddJob(t) \/ Unlist(t)

\* What it goes on to do.
Continue(t) ==
    \/ UploadFails(t)
    \/ ScanJob(t) \/ ScanEnds(t) \/ ScanEndsIdle(t) \/ StartNext(t) \/ Launch(t)
    \/ CloseJob(t) \/ RemoveAll(t)
    \/ OpenResult(t) \/ Downloaded(t) \/ CopyFails(t)

JobStep(j) ==
    \/ WorkerEnds(j) \/ ProcessDone(j) \/ WorkerRemoves(j)
    \/ WatchdogRemoves(j)

Next ==
    \/ Request
    \/ Tick
    \/ \E t \in Goroutines : Locking(t) \/ Continue(t)
    \/ \E j \in Jobs : JobStep(j) \/ WatchdogCloses(j) \/ StoppedAges(j)

SafeSpec == Init /\ [][Next]_vars

\* Goroutines are scheduled and a mutex is not withheld from a goroutine that
\* waits for it for ever (the starvation mode of sync.Mutex); the ticks of the
\* background task go on until the server closes; a worker ends, at the latest
\* when its deadline is over, which takes containers that are orderly
\* (StartedJobStops in Job.tla); time passes.  Nobody has to send a request.
Fairness ==
    /\ \A t \in Goroutines : SF_vars(Locking(t)) /\ WF_vars(Continue(t))
    /\ SF_vars(Tick)
    /\ \A j \in Jobs : WF_vars(JobStep(j)) /\ WF_vars(StoppedAges(j))

Spec == SafeSpec /\ Fairness

-----------------------------------------------------------------------------
(* Properties                                                              *)

\* Every variable stays in its range.
TypeOK ==
    /\ jobs \in Seq(Jobs)
    /\ pages \subseteq Jobs
    /\ serverClosed \in BOOLEAN
    /\ maxConcurrent \in Limits
    /\ mu \in Goroutines \union {"free"}
    /\ scan \in [pos : Nat \ {0}, running : Nat, next : Jobs \union {NoJob}]
    /\ pc \in [Goroutines -> {"idle", "adding", "scan", "start", "launch",
                               "unlist", "close", "remove", "found", "copying"}]
    /\ cur \in [Goroutines -> Jobs \union {NoJob}]
    /\ todo \in [Goroutines -> Seq(Jobs)]
    /\ state \in [Jobs -> {"none", "new", "active", "finished", "failed"}]
    /\ cancelFn \in [Jobs -> BOOLEAN]
    /\ closed \in [Jobs -> BOOLEAN]
    /\ stopped \in [Jobs -> {"zero", "recent", "old"}]
    /\ worker \in [Jobs -> {"none", "run", "ended", "remove", "exited"}]
    /\ watchdog \in [Jobs -> {"none", "wait", "remove"}]
    /\ files \in [Jobs -> {"none", "present", "removed"}]

\* The counts the loop made are older than the Start they lead to.  When a job
\* is about to be started, fewer than maxConcurrent listed jobs run all the
\* same, because under Rinse.mu jobs can only stop (rinse.go:220-245,
\* 392-409).  The Start button is not bound by the limit.
StartRespectsLimit ==
    \A t \in Goroutines :
        pc[t] = "start" /\ Clickers = {} => Cardinality(Running) < maxConcurrent

\* Jobs are started in the order they were added: no job before the one that
\* is about to be started is waiting (rinse.go:226-229, 395-398).
StartInOrder ==
    \A t \in Goroutines :
        pc[t] = "start" =>
            \A i, k \in DOMAIN jobs :
                i < k /\ jobs[k] = scan.next => state[jobs[i]] # "new"

\* What Job.tla assumes with Serialized: nobody closes a job while AddJob or
\* runTasks launches it, and they do not launch a closed job
\* (rinse.go:240-244, 437-439, 445-451).
LaunchNotClosed ==
    \A t \in Goroutines :
        pc[t] = "launch" /\ Clickers = {} => ~closed[cur[t]]

\* Goroutine t still has to close or remove job j.
Handles(t, j) ==
    \/ cur[t] = j /\ pc[t] \in {"adding", "unlist", "close", "remove"}
    \/ j \in {todo[t][i] : i \in DOMAIN todo[t]}

\* No working directory is forgotten: files on disk belong to a listed job, or
\* some goroutine has yet to add, close or remove the job, or its worker will
\* remove them when it is done (handlepost.go:89-100, rinse.go:339-350,
\* 445-451).  RESTPOSTJobs does not close a job it could not add.
NoOrphans ==
    \A j \in Jobs :
        files[j] = "present" /\ RestPosters = {} =>
            \/ j \in Listed
            \/ \E t \in Goroutines : Handles(t, j)
            \/ closed[j] /\ worker[j] \in {"run", "ended", "remove"}
            \/ closed[j] /\ \E t \in Goroutines : pc[t] = "launch" /\ cur[t] = j
            \/ watchdog[j] = "remove"

\* A finished job in the list still has its result: whoever removes files has
\* taken the job from the list before.  Only the watchdog does not.
ListedResultIsThere ==
    \A j \in Listed :
        state[j] = "finished" /\ TimeoutSec <= 0 => files[j] = "present"

\* A closed server has no jobs: AddJob that was under way when Rinse.Close ran
\* cannot put a job back (rinse.go:339-350, 424-443).
ClosedServerIsEmpty == serverClosed => jobs = <<>>

\* The background task takes a job for cleanup when CleanupSec has gone by since
\* it stopped, and in one case at once: in the instant between its last
\* transition and processDone its state says that it stopped and Job.stopped
\* does not say when (rinse.go:230-235, jobprocess.go:95-102).
CleanupWaits ==
    [][\A j \in Jobs :
          pc[Scheduler] = "scan" /\ todo'[Scheduler] = Append(todo[Scheduler], j) =>
              stopped[j] = "old" \/ worker[j] = "ended"]_vars

\* A job that waits in the list is started or taken off it (runTasks,
\* AddJob); a slot that becomes free is not lost.
WaitingJobStarts ==
    \A j \in Jobs :
        j \in Listed /\ state[j] = "new" ~> state[j] # "new" \/ j \notin Listed

\* A job that was taken off the list has its files removed in the end, whoever
\* else removes it meanwhile (RemoveJob, Job.Close, processDone).  It is about
\* orderly containers and removals without an error: for others see
\* ClosedJobIsRemoved in Job.tla.
ClosedJobIsRemoved == \A j \in Jobs : closed[j] ~> files[j] = "removed"

\* A job that stopped is cleaned up by the background task, unless CleanupSec is
\* negative (rinse.go:230-257), under the conditions of ClosedJobIsRemoved.
StoppedJobIsCleanedUp ==
    CleanupSec >= 0 =>
        \A j \in Jobs : stopped[j] # "zero" ~> files[j] = "removed"

\* Every job of the list implements the lifecycle of a job, in its strict form
\* when nobody uses the Start button.
Life(j) == INSTANCE JobLifecycle WITH
    Serialized <- Clickers = {},
    phase  <- IF state[j] \in {"none", "new"} THEN "new"
              ELSE IF stopped[j] # "zero" THEN "stopped" ELSE "running",
    closed <- closed[j],
    files  <- IF files[j] = "removed" THEN "removed" ELSE "present"

ImplementsLifecycle ==
    /\ \A j \in Jobs : Life(j)!Init
    /\ [][\A j \in Jobs : [Life(j)!Next]_(Life(j)!vars)]_vars

\* The list is a queue: jobs enter it once, keep their order, and start in
\* their turn and within the limit, in spite of the steps it takes to read
\* them.  The Start button does not ask whose turn it is (rinse.go:215-250,
\* 339-350, 390-451).
Queue == INSTANCE JobQueue WITH
    InTurn <- Clickers = {},
    queue  <- jobs,
    seen   <- pages,
    open   <- ~serverClosed,
    limit  <- maxConcurrent,
    phase  <- [j \in Jobs |->
                  IF state[j] \in {"none", "new"} THEN "waiting"
                  ELSE IF state[j] = "active" THEN "running" ELSE "stopped"]

ImplementsQueue == Queue!Spec

=============================================================================
