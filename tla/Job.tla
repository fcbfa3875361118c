-------------------------------- MODULE Job --------------------------------
(***************************************************************************)
(* One rinse job (rinser/job.go, rinser/jobprocess.go) and every goroutine *)
(* that touches it: callers of Job.Start, callers of Job.Close, the        *)
(* worker goroutine (Job.process) and the watchdog goroutine               *)
(* (Job.watchProgress).                                                    *)
(*                                                                         *)
(* Each section the code runs under job.mu is one step; what it does       *)
(* outside the lock (reading a context, calling cancel, overwriting files, *)
(* deleting the directory, running a container) is a step of its own.      *)
(* The worker's stages differ only in which failures they let through, so  *)
(* one set of stage actions stands for all nine.                           *)
(***************************************************************************)
EXTENDS Integers

CONSTANTS
    Starters,    \* goroutines that may call Start on this job
    Closers,     \* goroutines that may call Close on this job
    Worker,      \* the goroutine of Job.process
    Watchdog,    \* the goroutine of Job.watchProgress
    MaxTimeSec,  \* Job.MaxTimeSec
    TimeoutSec,  \* Job.TimeoutSec
    Serialized,  \* do all callers of Start and Close go through Rinse.jobs?
    Orderly      \* do containers keep stdout open, and their lines short, until
                 \* they exit? (Orderly of Runsc.tla)

ASSUME ThreadAssumption ==
    /\ Worker # Watchdog
    /\ Worker \notin Starters \union Closers
    /\ Watchdog \notin Starters \union Closers

ASSUME SecondsAssumption == MaxTimeSec \in Int /\ TimeoutSec \in Int

\* AddJob and runTasks call Start on a listed job and hold Rinse.mu until it
\* returns; RemoveJob and Rinse.Close take the job off the list under Rinse.mu
\* before they call Close.  The Start button of the user interface does
\* neither (uijobbutton.go:14-15): with it, Serialized is FALSE.
ASSUME SerializedAssumption == Serialized \in BOOLEAN

ASSUME OrderlyAssumption == Orderly \in BOOLEAN

Threads == Starters \union Closers \union {Worker, Watchdog}

\* type JobState
JobNew            == 0
JobStarting       == 1
JobDownload       == 2
JobExtractMeta    == 3
JobDetectLanguage == 4
JobDocToPdf       == 5
JobPdfToImages    == 6
JobTesseract      == 7
JobEnding         == 8
JobFinished       == 9
JobFailed         == 10

JobState == JobNew .. JobFailed

Errors == {"none", "noProgress", "canceled", "deadlineExceeded", "stageFailed"}

VARIABLES
    state,     \* Job.state
    errstate,  \* Job.errstate
    error,     \* Job.Error
    closed,    \* Job.closed
    cancelFn,  \* is Job.cancelFn set?
    done,      \* Job.Done, Job.stopped is set and StoppedCh is closed
    progress,  \* is Job.progress "recent", or "old": past Job.TimeoutSec?
    ctx,       \* the context made by Start
    stage,     \* where Job.process is: the last state it moved the job to
    procErr,   \* the local variable err of Job.process
    pc,        \* what each goroutine does next
    dir,       \* is Job.Workdir on disk?
    content,   \* what the files below it hold; "late" is what a container
               \* wrote that was killed, but had not ended, when its stage did
    survivor,  \* is there such a container?
    scrubErr,  \* did a file resist being overwritten?
    removeErr  \* did the removal of Job.Workdir that ended last fail?

jobVars  == <<state, errstate, error, closed, cancelFn, done, progress>>
diskVars == <<dir, content, survivor, scrubErr, removeErr>>
vars     == <<state, errstate, error, closed, cancelFn, done, progress,
              ctx, stage, procErr, pc, dir, content, survivor, scrubErr, removeErr>>

Goto(t, label) == pc' = [pc EXCEPT ![t] = label]

\* Labels at which the worker has yet to run processDone.
Working == {"begin", "check", "advance", "stage", "fail", "done"}

\* Labels at which a goroutine is inside removeAll.
Removing == {"scrub", "unlink"}

\* What a caller of Close does once the call returns.
AfterClose(t) == IF t = Watchdog THEN "wait" ELSE "idle"

\* Mutation: a context counts as dead once it is made.
ContextMade == ctx # "none"

ContextDead == ctx \in {"canceled", "deadlineExceeded"}

-----------------------------------------------------------------------------
(* Start                                                                   *)

Init ==
    /\ state = JobNew
    /\ errstate = JobNew
    /\ error = "none"
    /\ closed = FALSE
    /\ cancelFn = FALSE
    /\ done = FALSE
    /\ progress = "recent"
    /\ ctx = "none"
    /\ stage = JobNew
    /\ procErr = "none"
    /\ pc = [t \in Threads |->
                IF t \in {Worker, Watchdog} THEN "none" ELSE "idle"]
    /\ dir = "present"
    /\ content \in {"empty", "data"}   \* a URL job has no file yet
    /\ survivor = FALSE
    /\ scrubErr = FALSE
    /\ removeErr = FALSE

\* Mutation: the state is not compared.
CanStartAgain == TRUE

\* The comparison in transition, for Start.
CanStart == state = JobNew

\* transition(context.Background(), JobNew, JobStarting) in Start.  A job
\* that is not new makes Start return an error and change nothing.
StartTransition(t) ==
    /\ pc[t] = "idle"
    /\ Serialized => ~closed
    /\ CanStart
    /\ state' = JobStarting
    /\ progress' = "recent"
    /\ Goto(t, "launch")
    /\ UNCHANGED <<errstate, error, closed, cancelFn, done, ctx, stage, procErr,
                   diskVars>>

\* The rest of Start.  A timeout of zero or less has passed when it is set.
StartLaunch(t) ==
    /\ pc[t] = "launch"
    /\ cancelFn' = TRUE
    /\ ctx' = IF MaxTimeSec <= 0 THEN "deadlineExceeded" ELSE "live"
    /\ stage' = JobStarting
    /\ pc' = [pc EXCEPT ![t] = "idle", ![Worker] = "begin", ![Watchdog] = "wait"]
    /\ UNCHANGED <<state, errstate, error, closed, done, progress, procErr, diskVars>>

-----------------------------------------------------------------------------
(* Close and removeAll                                                     *)

\* Mutation: the last error is kept.
LastError(err) == err

\* Job.Error is set once.
FirstError(err) == IF error = "none" THEN err ELSE error

\* Mutations: Close does not leave the files to the worker; every Close of a
\* stopped job removes them.
RemoveAtOnce(t)   == IF closed THEN AfterClose(t) ELSE "scrub"
RemoveEachTime(t) == IF cancelFn THEN "cancel" ELSE "scrub"

\* What Close does after its locked section.
AfterMark(t) ==
    IF cancelFn THEN "cancel"
    ELSE IF closed THEN AfterClose(t) ELSE "scrub"

\* The locked section of Close(err), and which branch follows it.
CloseMark(t, err) ==
    /\ closed' = TRUE
    /\ error' = FirstError(err)
    /\ Goto(t, AfterMark(t))
    /\ UNCHANGED <<state, errstate, cancelFn, done, progress, ctx, stage, procErr,
                   diskVars>>

Close(t) ==
    /\ pc[t] = "idle"
    /\ Serialized => \A s \in Threads : pc[s] # "launch"
    /\ CloseMark(t, "none")

\* Mutation: what is canceled is not the context of the worker.
OtherContext == ctx

\* A context that is already dead keeps its error.
CanceledContext == IF ctx = "live" THEN "canceled" ELSE ctx

\* cancel()
CloseCancel(t) ==
    /\ pc[t] = "cancel"
    /\ ctx' = CanceledContext
    /\ Goto(t, AfterClose(t))
    /\ UNCHANGED <<jobVars, stage, procErr, diskVars>>

\* The walk in scrub overwrites every file it finds with zeroes, or fails to
\* open or write one and goes on: the error is joined to the others, and logged.
ScrubFiles(t) ==
    /\ pc[t] = "scrub"
    /\ \/ /\ content' = IF content \in {"data", "late"} THEN "zeroed" ELSE content
          /\ UNCHANGED scrubErr
       \/ /\ content \in {"data", "late"}
          /\ scrubErr' = TRUE
          /\ UNCHANGED content
    /\ removeErr' = FALSE
    /\ Goto(t, "unlink")
    /\ UNCHANGED <<jobVars, ctx, stage, procErr, dir, survivor>>

AfterRemove(t) == IF t = Worker THEN "exited" ELSE AfterClose(t)

\* os.RemoveAll at the end of scrub, whether or not all files were overwritten.
RemoveDir(t) ==
    /\ pc[t] = "unlink"
    /\ dir' = "gone"
    /\ content' = "empty"
    /\ Goto(t, AfterRemove(t))
    /\ UNCHANGED <<jobVars, ctx, stage, procErr, survivor, scrubErr, removeErr>>

\* os.RemoveAll returns an error: the operating system refuses, or a stage or a
\* killed container adds files meanwhile.  removeAll logs it, and that is all.
RemoveDirFails(t) ==
    /\ pc[t] = "unlink"
    /\ dir = "present"
    /\ removeErr' = TRUE
    /\ Goto(t, AfterRemove(t))
    /\ UNCHANGED <<jobVars, ctx, stage, procErr, dir, content, survivor, scrubErr>>

-----------------------------------------------------------------------------
(* Worker                                                                  *)

\* process: the first locked section.
Begin ==
    /\ pc[Worker] = "begin"
    /\ progress' = "recent"
    /\ Goto(Worker, "check")
    /\ UNCHANGED <<state, errstate, error, closed, cancelFn, done, ctx, stage,
                   procErr, diskVars>>

\* transition: the context is read before the lock is taken.
CheckContext ==
    /\ pc[Worker] = "check"
    /\ procErr' = IF ContextDead THEN ctx ELSE "none"
    /\ Goto(Worker, IF ContextDead THEN "fail" ELSE "advance")
    /\ UNCHANGED <<jobVars, ctx, stage, diskVars>>

\* Each stage of process moves the job on by one state.
NextState(s) == s + 1

\* transition: the locked section.
Advance ==
    /\ pc[Worker] = "advance"
    /\ \/ /\ state = stage
          /\ state' = NextState(stage)
          /\ stage' = NextState(stage)
          /\ progress' = "recent"
          /\ Goto(Worker, IF NextState(stage) = JobFinished THEN "done" ELSE "stage")
          /\ UNCHANGED procErr
       \/ /\ state # stage
          /\ procErr' = "stageFailed"
          /\ Goto(Worker, "fail")
          /\ UNCHANGED <<state, stage, progress>>
    /\ UNCHANGED <<errstate, error, closed, cancelFn, done, ctx, diskVars>>

\* Can the stage return nil?  Every stage but these two needs a file: with no
\* directory the download, the rename, the container run or the listing fails.
StageCanSucceed ==
    CASE stage \in {JobDetectLanguage, JobDocToPdf} -> TRUE
      [] stage = JobDownload -> dir = "present" /\ content # "empty"
      [] OTHER -> dir = "present"

\* The states whose stage runs a container.
ContainerStages == JobExtractMeta .. JobTesseract

\* A stage of S in which runsc returned early has sent its container a SIGKILL
\* and does not wait for it to take effect.
MayLeaveContainer(S) ==
    \/ UNCHANGED survivor
    \/ stage \in S /\ survivor' = TRUE

\* runExtractMeta and runDetectLanguage drop the error of their container, the
\* one of the context included; elsewhere nil means it has been waited for.
StageSucceeds ==
    /\ pc[Worker] = "stage"
    /\ StageCanSucceed
    /\ MayLeaveContainer(IF ContextDead THEN {JobExtractMeta, JobDetectLanguage}
                                        ELSE {})
    /\ Goto(Worker, "check")
    /\ UNCHANGED <<jobVars, ctx, stage, procErr, dir, content, scrubErr, removeErr>>

\* runDetectLanguage returns no error once its transition is made.  The output
\* handler of runTesseract may refuse a line while the container runs.
StageFails ==
    /\ pc[Worker] = "stage"
    /\ stage # JobDetectLanguage
    /\ MayLeaveContainer({JobTesseract})
    /\ procErr' = "stageFailed"
    /\ Goto(Worker, "fail")
    /\ UNCHANGED <<jobVars, ctx, stage, dir, content, scrubErr, removeErr>>

\* The download or the container of the stage is given up because the context
\* is dead.  jobEnding does not look at the context.
StageInterrupted ==
    /\ pc[Worker] = "stage"
    /\ ContextDead
    /\ stage \notin {JobExtractMeta, JobDetectLanguage, JobEnding}
    /\ MayLeaveContainer(ContainerStages)
    /\ procErr' = ctx
    /\ Goto(Worker, "fail")
    /\ UNCHANGED <<jobVars, ctx, stage, dir, content, scrubErr, removeErr>>

\* The download or the container of the stage stores something.
StageWrites ==
    /\ pc[Worker] = "stage"
    /\ dir = "present"
    /\ content' = "data"
    /\ UNCHANGED <<jobVars, ctx, stage, procErr, pc, dir, survivor, scrubErr,
                   removeErr>>

\* A killed container that has not ended stores something.
SurvivorWrites ==
    /\ survivor
    /\ dir = "present"
    /\ content' = "late"
    /\ UNCHANGED <<jobVars, ctx, stage, procErr, pc, dir, survivor, scrubErr,
                   removeErr>>

\* The SIGKILL takes effect.
SurvivorEnds ==
    /\ survivor
    /\ survivor' = FALSE
    /\ UNCHANGED <<jobVars, ctx, stage, procErr, pc, dir, content, scrubErr,
                   removeErr>>

\* Output of a container, or a new page image, refreshes Job.progress.
\* Downloading and ending do not.
MadeProgress ==
    /\ pc[Worker] = "stage"
    /\ stage \in ContainerStages
    /\ progress' = "recent"
    /\ UNCHANGED <<state, errstate, error, closed, cancelFn, done, ctx, stage,
                   procErr, pc, diskVars>>

\* Mutation: errstate is read after the state was set.
StateAfterFail == JobFailed

StateAtFail == state

\* process: the locked section of the error path.
Fail ==
    /\ pc[Worker] = "fail"
    /\ errstate' = StateAtFail
    /\ error' = FirstError(procErr)
    /\ state' = JobFailed
    /\ Goto(Worker, "done")
    /\ UNCHANGED <<closed, cancelFn, done, progress, ctx, stage, procErr, diskVars>>

\* Mutation: processDone does not look at closed.
WorkerForgets == "exited"

\* What processDone does after its locked section.
AfterDone == IF closed THEN "scrub" ELSE "exited"

\* processDone, deferred by process.
ProcessDone ==
    /\ pc[Worker] = "done"
    /\ done' = TRUE
    /\ cancelFn' = FALSE
    /\ Goto(Worker, AfterDone)
    /\ UNCHANGED <<state, errstate, error, closed, progress, ctx, stage, procErr,
                   diskVars>>

-----------------------------------------------------------------------------
(* Watchdog                                                                *)

\* The tick branch of watchProgress finds no progress.  A ready tick may be
\* chosen by select even though the context or StoppedCh is ready as well.
WatchTick ==
    /\ pc[Watchdog] = "wait"
    /\ TimeoutSec > 0
    /\ progress = "old"
    /\ Goto(Watchdog, "close")
    /\ UNCHANGED <<jobVars, ctx, stage, procErr, diskVars>>

\* job.Close(no progress made), with the lock long released.
WatchClose == pc[Watchdog] = "close" /\ CloseMark(Watchdog, "noProgress")

WatchExit ==
    /\ pc[Watchdog] = "wait"
    /\ ContextDead \/ done
    /\ Goto(Watchdog, "exited")
    /\ UNCHANGED <<jobVars, ctx, stage, procErr, diskVars>>

-----------------------------------------------------------------------------
(* Time                                                                    *)

\* More than TimeoutSec has gone by since Job.progress was set.
TimePasses ==
    /\ progress = "recent"
    /\ pc[Watchdog] = "wait"
    /\ progress' = "old"
    /\ UNCHANGED <<state, errstate, error, closed, cancelFn, done, ctx, stage,
                   procErr, pc, diskVars>>

\* Mutation: context.WithCancel in place of context.WithTimeout.
NoDeadline == FALSE

HasDeadline == ctx = "live"

\* The timeout given to context.WithTimeout runs out.
DeadlineExpires ==
    /\ HasDeadline
    /\ ctx' = "deadlineExceeded"
    /\ UNCHANGED <<jobVars, stage, procErr, pc, diskVars>>

-----------------------------------------------------------------------------
StageReturns == StageSucceeds \/ StageFails \/ StageInterrupted

WorkerNext ==
    \/ Begin \/ CheckContext \/ Advance
    \/ StageReturns \/ StageWrites \/ MadeProgress
    \/ Fail \/ ProcessDone

SurvivorNext == SurvivorWrites \/ SurvivorEnds

WatchdogNext == WatchTick \/ WatchClose \/ WatchExit

\* What any goroutine does after it has left a locked section.
Unlocked(t) ==
    \/ StartLaunch(t) \/ CloseCancel(t)
    \/ ScrubFiles(t) \/ RemoveDir(t) \/ RemoveDirFails(t)

Next ==
    \/ \E t \in Starters : StartTransition(t)
    \/ \E t \in Closers : Close(t)
    \/ \E t \in Threads : Unlocked(t)
    \/ WorkerNext
    \/ SurvivorNext
    \/ WatchdogNext
    \/ TimePasses
    \/ DeadlineExpires

\* Once stdout has ended, runsc waits for the container, and no context
\* interrupts the wait (run runsc_hang).  Only an orderly container has no
\* stdout that ends before it does.
MayHang == ~Orderly /\ stage \in ContainerStages

\* Goroutines are scheduled; every deadline arrives; a stage that does not hang
\* in that wait returns once its context is dead: the HTTP client gives up, and
\* runsc leaves its loop (CanceledRunReturns in Runsc.tla).
\* Nobody has to start or close the job, a stage may run for ever while its
\* context lives, and no killed container has to end.
Fairness ==
    /\ \A t \in Threads : WF_vars(Unlocked(t))
    /\ WF_vars(Begin \/ CheckContext \/ Advance \/ Fail \/ ProcessDone)
    /\ WF_vars(~MayHang /\ ContextDead /\ StageReturns)
    /\ WF_vars(WatchClose \/ WatchExit)
    /\ WF_vars(DeadlineExpires)

SafeSpec == Init /\ [][Next]_vars

Spec == SafeSpec /\ Fairness

-----------------------------------------------------------------------------
(* Properties                                                              *)

\* Every variable stays in its range.
TypeOK ==
    /\ state \in JobState
    /\ errstate \in JobState
    /\ error \in Errors
    /\ closed \in BOOLEAN
    /\ cancelFn \in BOOLEAN
    /\ done \in BOOLEAN
    /\ progress \in {"recent", "old"}
    /\ ctx \in {"none", "live", "canceled", "deadlineExceeded"}
    /\ stage \in JobState
    /\ procErr \in Errors
    /\ pc \in [Threads -> {"none", "idle", "launch", "cancel", "wait", "close",
                            "exited"} \union Removing \union Working]
    /\ dir \in {"present", "gone"}
    /\ content \in {"empty", "data", "late", "zeroed"}
    /\ survivor \in BOOLEAN
    /\ scrubErr \in BOOLEAN
    /\ removeErr \in BOOLEAN

\* However many callers race in Start, one of them launches the job, and it
\* launches it once: the window between the transition and the go statements
\* has one owner and no worker yet (Job.Start, job.go:146-157).
OneLaunch ==
    \A s, t \in Threads :
        pc[s] = "launch" /\ pc[t] = "launch" =>
            s = t /\ state = JobStarting /\ pc[Worker] = "none"

\* The state the worker believes it is in is the state the others see: Start,
\* Close and the watchdog never move a job that runs, so no transition of
\* Job.process finds a state it does not expect (job.go:206-219).
WorkerOwnsState ==
    /\ pc[Worker] \in Working \ {"done"} =>
           state = stage /\ state \in JobStarting .. JobEnding
    /\ done => state \in {JobFinished, JobFailed}

\* The files of a closed job are never forgotten: as long as they are on disk
\* some goroutine is removing them, or the worker has yet to reach the end of
\* processDone, which will, or the removal that ended last failed, which is
\* logged and not tried again (job.go:241-264, jobprocess.go:95-107).
ClosedJobHasRemover ==
    closed /\ dir = "present" =>
        \/ \E t \in Threads : pc[t] \in Removing
        \/ pc[Worker] \in Working
        \/ removeErr

\* The user interface of a failed job has a state it failed in and an error to
\* show, whichever of Close, the watchdog and the worker came first
\* (jobprocess.go:85-91, uijobstatus.go).
FailedJobTellsWhy ==
    state = JobFailed =>
        error # "none" /\ errstate \in JobStarting .. JobEnding

\* Calling the job off reaches its context: a closed job with a worker that
\* runs has its context canceled or about to be (Job.Close, job.go:247-264).
\* It needs Close never to run between the transition of Start and the
\* assignment of cancelFn (job.go:147-151), nor before Start.
StopReachesWorker ==
    Serialized /\ closed /\ pc[Worker] \in Working =>
        ContextDead \/ \E t \in Threads : pc[t] = "cancel"

\* The files of a job are removed by one goroutine, and not while its worker
\* still uses them (Job.Close and processDone both call removeAll).  A killed
\* container may still use them.
OneRemover ==
    Serialized =>
        \A s, t \in Threads :
            pc[s] \in Removing /\ pc[t] \in Removing \union Working => s = t

\* Finished and failed are final, and the first error recorded for a job is
\* the one that stays (Job.Close and Job.process both write it).
OutcomeIsFinal ==
    [][ /\ state \in {JobFinished, JobFailed} => UNCHANGED <<state, errstate>>
        /\ error # "none" => UNCHANGED error ]_vars

\* What the stages of a job stored is overwritten before its directory is
\* deleted, or an error is logged that says it was not (scrub): a file that cannot
\* be opened for writing, or overwritten, is deleted all the same
\* (scrubfile.go:14-38).  What a killed container stored after its stage had
\* ended may be deleted as it is.  README.md:64-65 has all files overwritten.
ScrubbedOrLogged ==
    [][Serialized /\ dir = "present" /\ dir' = "gone" =>
           content # "data" \/ scrubErr]_vars

\* A job that was started stops, if its containers are orderly: whoever calls
\* Start and Close, and whether or not a stage makes progress, its deadline
\* ends it (Job.Start, Job.process).  With a container that closes its stdout,
\* or writes a line the scanner does not take, and stays, it need not
\* (runsc.go:115, run runsc_hang).
StartedJobStops == Orderly => (state # JobNew ~> done)

\* The directory of the job stays: nobody will remove it, since the last one
\* who tried got an error.
LeftBehind ==
    /\ removeErr
    /\ pc[Worker] \notin Working
    /\ \A t \in Threads : pc[t] \notin Removing

\* If containers are orderly, the files of a closed job are removed for good
\* or a removal has failed and was logged, also when Close hits the launch of
\* the job (Job.Close, Job.processDone, job.go:242).
ClosedJobIsRemoved == Orderly => (closed ~> [](dir = "gone" \/ LeftBehind))

\* The job implements its lifecycle: started once, never restarted, files
\* removed once and only after Close; with Serialized, not started after Close
\* and its files not removed while it runs.
Lifecycle == INSTANCE JobLifecycle WITH
    phase <- IF state = JobNew THEN "new"
             ELSE IF done THEN "stopped" ELSE "running",
    files <- IF dir = "present" THEN "present" ELSE "removed"

ImplementsLifecycle == Lifecycle!SafeSpec

=============================================================================
