------------------------------ MODULE JobProof ------------------------------
(***************************************************************************)
(* Proofs about Job, for any goroutines and any timeouts.  IInv is the     *)
(* inductive invariant; every safety property of the module follows from   *)
(* it, and with it every step of the job is a step of its lifecycle.       *)
(***************************************************************************)
EXTENDS Job, TLAPS

\* A launch belongs to one caller of Start, and precedes the worker.
LaunchInv ==
    /\ OneLaunch
    /\ state = JobStarting /\ pc[Worker] = "none" =>
           \E t \in Threads : pc[t] = "launch"

\* What the label of the worker says about the job.
WorkerInv ==
    /\ pc[Worker] \in {"none", "exited"} \union Removing \union Working
    /\ \A t \in Threads : pc[t] \in Working => t = Worker
    /\ pc[Watchdog] \in {"none", "wait", "close", "cancel", "exited"}
                            \union Removing
    /\ pc[Worker] = "none" =>
           pc[Watchdog] = "none" /\ state \in {JobNew, JobStarting}
    /\ pc[Worker] # "none" => state # JobNew /\ ctx # "none"
    /\ cancelFn <=> pc[Worker] \in Working
    /\ done <=> pc[Worker] \in {"exited"} \union Removing
    /\ pc[Worker] = "done" \/ done => state \in {JobFinished, JobFailed}
    /\ pc[Worker] = "stage" => stage # JobStarting
    /\ pc[Worker] = "fail" => procErr # "none"
    /\ WorkerOwnsState

\* Only a closed job has its files removed.
RemoverInv ==
    /\ \A t \in Threads : pc[t] \in Removing => closed
    /\ ClosedJobHasRemover

\* What holds when starting and closing are serialized.
SerializedInv ==
    Serialized =>
        /\ closed => \A t \in Threads : pc[t] # "launch"
        /\ \A t \in Threads : pc[t] = "unlink" => content # "data" \/ scrubErr

IInv ==
    /\ TypeOK
    /\ LaunchInv
    /\ WorkerInv
    /\ RemoverInv
    /\ FailedJobTellsWhy
    /\ SerializedInv
    /\ OneRemover
    /\ StopReachesWorker

-----------------------------------------------------------------------------
USE ThreadAssumption, SecondsAssumption, SerializedAssumption, OrderlyAssumption
USE DEF JobNew, JobStarting, JobDownload, JobExtractMeta, JobDetectLanguage,
        JobDocToPdf, JobPdfToImages, JobTesseract, JobEnding, JobFinished,
        JobFailed, JobState, Errors, Removing, Working, CanStart, FirstError,
        AfterMark, CanceledContext, NextState, StateAtFail, AfterDone,
        HasDeadline

\* The worker and the watchdog are goroutines of their own.
LEMMA ThreadFacts ==
    /\ Worker \in Threads /\ Watchdog \in Threads /\ Worker # Watchdog
    /\ \A t \in Starters \union Closers :
           t \in Threads /\ t # Worker /\ t # Watchdog
BY DEF Threads

\* The invariant holds initially.
LEMMA InitInv == Init => IInv
<1> SUFFICES ASSUME Init PROVE IInv
    OBVIOUS
<1> USE ThreadFacts DEF Init
<1>1. TypeOK
  <2>1. pc \in [Threads -> {"none", "idle"}]
    OBVIOUS
  <2>2. /\ state \in JobState /\ errstate \in JobState /\ stage \in JobState
    OBVIOUS
  <2>3. /\ error \in Errors /\ procErr \in Errors
        /\ ctx \in {"none", "live", "canceled", "deadlineExceeded"}
        /\ dir \in {"present", "gone"}
        /\ content \in {"empty", "data", "late", "zeroed"}
        /\ progress \in {"recent", "old"}
    OBVIOUS
  <2>4. /\ closed \in BOOLEAN /\ cancelFn \in BOOLEAN
        /\ done \in BOOLEAN /\ survivor \in BOOLEAN
        /\ scrubErr \in BOOLEAN /\ removeErr \in BOOLEAN
    OBVIOUS
  <2> QED
    BY <2>1, <2>2, <2>3, <2>4 DEF TypeOK
<1>2. LaunchInv /\ OneRemover
    BY DEF LaunchInv, OneLaunch, OneRemover
<1>3. WorkerInv /\ StopReachesWorker
    BY DEF WorkerInv, WorkerOwnsState, StopReachesWorker
<1>4. RemoverInv /\ SerializedInv /\ FailedJobTellsWhy
    BY DEF RemoverInv, ClosedJobHasRemover, SerializedInv, FailedJobTellsWhy
<1> QED
    BY <1>1, <1>2, <1>3, <1>4 DEF IInv

\* Every step keeps the variables in their ranges.
LEMMA TypeStep == TypeOK /\ WorkerOwnsState /\ [Next]_vars => TypeOK'
<1> SUFFICES ASSUME TypeOK, WorkerOwnsState, [Next]_vars PROVE TypeOK'
    OBVIOUS
<1> USE ThreadFacts DEF TypeOK, WorkerOwnsState, Goto, ContextDead, AfterClose, AfterRemove,
                        jobVars, diskVars
<1>1. ASSUME NEW t \in Starters, StartTransition(t) PROVE TypeOK'
    BY <1>1 DEF StartTransition
<1>2. ASSUME NEW t \in Closers, Close(t) PROVE TypeOK'
    BY <1>2 DEF Close, CloseMark
<1>3. ASSUME NEW t \in Threads, StartLaunch(t) PROVE TypeOK'
    BY <1>3 DEF StartLaunch
<1>4. ASSUME NEW t \in Threads, CloseCancel(t) PROVE TypeOK'
    BY <1>4 DEF CloseCancel
<1>5. ASSUME NEW t \in Threads, ScrubFiles(t) PROVE TypeOK'
  <2>1. scrubErr' \in BOOLEAN
    BY <1>5, Zenon DEF ScrubFiles
  <2>2. content' \in {"empty", "data", "late", "zeroed"}
    BY <1>5 DEF ScrubFiles
  <2>3. pc' \in [Threads -> {"none", "idle", "launch", "cancel", "wait", "close",
                            "exited"} \union Removing \union Working]
    BY <1>5 DEF ScrubFiles
  <2>4. removeErr' \in BOOLEAN
    BY <1>5 DEF ScrubFiles
  <2>5. UNCHANGED <<jobVars, ctx, stage, procErr, dir, survivor>>
    BY <1>5 DEF ScrubFiles
  <2> QED
    BY <2>1, <2>2, <2>3, <2>4, <2>5
<1>6. ASSUME NEW t \in Threads, RemoveDir(t) PROVE TypeOK'
    BY <1>6 DEF RemoveDir
<1>7. ASSUME NEW t \in Threads, RemoveDirFails(t) PROVE TypeOK'
    BY <1>7 DEF RemoveDirFails
<1>8. CASE Begin
    BY <1>8 DEF Begin
<1>9. CASE CheckContext
    BY <1>9 DEF CheckContext
<1>10. CASE Advance
    BY <1>10 DEF Advance
<1>11. CASE StageSucceeds
  <2>1. survivor' \in BOOLEAN
    BY <1>11, Zenon DEF StageSucceeds, MayLeaveContainer
  <2> QED
    BY <1>11, <2>1 DEF StageSucceeds
<1>12. CASE StageFails
  <2>1. survivor' \in BOOLEAN
    BY <1>12, Zenon DEF StageFails, MayLeaveContainer
  <2> QED
    BY <1>12, <2>1 DEF StageFails
<1>13. CASE StageInterrupted
  <2>1. survivor' \in BOOLEAN
    BY <1>13, Zenon DEF StageInterrupted, MayLeaveContainer
  <2> QED
    BY <1>13, <2>1 DEF StageInterrupted
<1>14. CASE StageWrites
    BY <1>14 DEF StageWrites
<1>15. CASE MadeProgress
    BY <1>15 DEF MadeProgress
<1>16. CASE Fail
    BY <1>16 DEF Fail
<1>17. CASE ProcessDone
  <2>1. AfterDone \in {"exited", "scrub"} /\ Worker \in Threads
    BY DEF AfterDone
  <2>2. pc' = [pc EXCEPT ![Worker] = AfterDone]
    BY <1>17 DEF ProcessDone
  <2>3. pc' \in [Threads -> {"none", "idle", "launch", "cancel", "wait", "close",
                            "exited"} \union Removing \union Working]
    BY <2>1, <2>2
  <2>4. /\ done' \in BOOLEAN /\ cancelFn' \in BOOLEAN
        /\ UNCHANGED <<state, errstate, error, closed, progress, ctx, stage, procErr,
                       dir, content, survivor, scrubErr, removeErr>>
    BY <1>17 DEF ProcessDone, diskVars
  <2> QED
    BY <2>3, <2>4
<1>18. CASE WatchTick
    BY <1>18 DEF WatchTick
<1>19. CASE WatchClose
    BY <1>19 DEF WatchClose, CloseMark
<1>20. CASE WatchExit
    BY <1>20 DEF WatchExit
<1>21. CASE TimePasses
    BY <1>21 DEF TimePasses
<1>22. CASE DeadlineExpires
    BY <1>22 DEF DeadlineExpires
<1>23. CASE SurvivorWrites
    BY <1>23 DEF SurvivorWrites
<1>24. CASE SurvivorEnds
  <2>1. survivor' \in BOOLEAN
    BY <1>24, Zenon DEF SurvivorEnds
  <2> QED
    BY <1>24, <2>1 DEF SurvivorEnds
<1>25. CASE UNCHANGED vars
    BY <1>25 DEF vars
<1> QED
    BY <1>1, <1>2, <1>3, <1>4, <1>5, <1>6, <1>7, <1>8,
       <1>9, <1>10, <1>11, <1>12, <1>13, <1>14, <1>15, <1>16,
       <1>17, <1>18, <1>19, <1>20, <1>21, <1>22, <1>23, <1>24, <1>25
       DEF Next, WorkerNext, SurvivorNext, WatchdogNext, Unlocked, StageReturns

\* Every step preserves the invariant.
LEMMA StepInv == IInv /\ [Next]_vars => IInv'
<1> SUFFICES ASSUME IInv, [Next]_vars PROVE IInv'
    OBVIOUS
<1>0. TypeOK'
    BY TypeStep DEF IInv, WorkerInv
<1> USE ThreadFacts, <1>0
    DEF IInv, TypeOK, LaunchInv, OneLaunch, WorkerInv, WorkerOwnsState,
        RemoverInv, ClosedJobHasRemover, FailedJobTellsWhy, SerializedInv,
        OneRemover, StopReachesWorker, Goto, ContextDead, AfterClose,
        AfterRemove, jobVars, diskVars
<1>1. ASSUME NEW t \in Starters, StartTransition(t) PROVE IInv'
    BY <1>1 DEF StartTransition
<1>2. ASSUME NEW t \in Closers, Close(t) PROVE IInv'
    BY <1>2 DEF Close, CloseMark
<1>3. ASSUME NEW t \in Threads, StartLaunch(t) PROVE IInv'
    BY <1>3 DEF StartLaunch
<1>4. ASSUME NEW t \in Threads, CloseCancel(t) PROVE IInv'
    BY <1>4 DEF CloseCancel
<1>5. ASSUME NEW t \in Threads, ScrubFiles(t) PROVE IInv'
    BY <1>5 DEF ScrubFiles
<1>6. ASSUME NEW t \in Threads, RemoveDir(t) PROVE IInv'
    BY <1>6 DEF RemoveDir
<1>7. ASSUME NEW t \in Threads, RemoveDirFails(t) PROVE IInv'
    BY <1>7 DEF RemoveDirFails
<1>8. CASE Begin
    BY <1>8 DEF Begin
<1>9. CASE CheckContext
    BY <1>9 DEF CheckContext
<1>10. CASE Advance
    BY <1>10 DEF Advance
<1>11. CASE StageSucceeds
    BY <1>11 DEF StageSucceeds, MayLeaveContainer
<1>12. CASE StageFails
    BY <1>12 DEF StageFails, MayLeaveContainer
<1>13. CASE StageInterrupted
    BY <1>13 DEF StageInterrupted, MayLeaveContainer
<1>14. CASE StageWrites
    BY <1>14 DEF StageWrites
<1>15. CASE MadeProgress
    BY <1>15 DEF MadeProgress
<1>16. CASE Fail
    BY <1>16 DEF Fail
<1>17. CASE ProcessDone
    BY <1>17 DEF ProcessDone
<1>18. CASE WatchTick
    BY <1>18 DEF WatchTick
<1>19. CASE WatchClose
    BY <1>19 DEF WatchClose, CloseMark
<1>20. CASE WatchExit
    BY <1>20 DEF WatchExit
<1>21. CASE TimePasses
    BY <1>21 DEF TimePasses
<1>22. CASE DeadlineExpires
    BY <1>22 DEF DeadlineExpires
<1>23. CASE SurvivorWrites
    BY <1>23 DEF SurvivorWrites
<1>24. CASE SurvivorEnds
    BY <1>24 DEF SurvivorEnds
<1>25. CASE UNCHANGED vars
    BY <1>25 DEF vars
<1> QED
    BY <1>1, <1>2, <1>3, <1>4, <1>5, <1>6, <1>7, <1>8,
       <1>9, <1>10, <1>11, <1>12, <1>13, <1>14, <1>15, <1>16,
       <1>17, <1>18, <1>19, <1>20, <1>21, <1>22, <1>23, <1>24, <1>25
       DEF Next, WorkerNext, SurvivorNext, WatchdogNext, Unlocked, StageReturns

-----------------------------------------------------------------------------
(* Safety                                                                  *)

\* The inductive invariant holds in every state of the job.
THEOREM Invariance == SafeSpec => []IInv
<1>1. Init => IInv
    BY InitInv
<1>2. IInv /\ [Next]_vars => IInv'
    BY StepInv
<1> QED
    BY <1>1, <1>2, PTL DEF SafeSpec

\* Variables stay in their ranges: JobState never leaves its eleven values.
THEOREM TypeCorrect == SafeSpec => []TypeOK
<1>1. IInv => TypeOK
    BY DEF IInv
<1> QED
    BY <1>1, Invariance, PTL

\* Racing callers of Start launch one worker (Job.Start).
THEOREM LaunchedOnce == SafeSpec => []OneLaunch
<1>1. IInv => OneLaunch
    BY DEF IInv, LaunchInv
<1> QED
    BY <1>1, Invariance, PTL

\* No goroutine but the worker moves a job that runs (Job.transition).
THEOREM WorkerOwns == SafeSpec => []WorkerOwnsState
<1>1. IInv => WorkerOwnsState
    BY DEF IInv, WorkerInv
<1> QED
    BY <1>1, Invariance, PTL

\* The files of a closed job always have a goroutine that will remove them
\* (Job.Close, Job.processDone).
THEOREM ClosedIsRemovable == SafeSpec => []ClosedJobHasRemover
<1>1. IInv => ClosedJobHasRemover
    BY DEF IInv, RemoverInv
<1> QED
    BY <1>1, Invariance, PTL

\* A failed job has an error and the state it failed in (Job.process).
THEOREM FailureExplained == SafeSpec => []FailedJobTellsWhy
<1>1. IInv => FailedJobTellsWhy
    BY DEF IInv
<1> QED
    BY <1>1, Invariance, PTL

\* With starts and closes serialized, closing a job kills the context of its
\* worker (Job.Close, Job.Start).
THEOREM SerializedStop == SafeSpec => []StopReachesWorker
<1>1. IInv => StopReachesWorker
    BY DEF IInv
<1> QED
    BY <1>1, Invariance, PTL

\* With starts and closes serialized, the files of a job are removed by one
\* goroutine, with no worker left (Job.Close, Job.processDone).
THEOREM SerializedRemoval == SafeSpec => []OneRemover
<1>1. IInv => OneRemover
    BY DEF IInv
<1> QED
    BY <1>1, Invariance, PTL

-----------------------------------------------------------------------------
(* Steps                                                                   *)

\* With starts and closes serialized, what the stages stored is overwritten
\* before it is deleted, or an error tells that it was not (scrub).
THEOREM SerializedScrub == SafeSpec => ScrubbedOrLogged
<1>1. IInv /\ [Next]_vars =>
        [Serialized /\ dir = "present" /\ dir' = "gone" =>
            content # "data" \/ scrubErr]_vars
  <2> SUFFICES ASSUME IInv, [Next]_vars, Serialized,
                      dir = "present", dir' = "gone"
               PROVE  content # "data" \/ scrubErr
      OBVIOUS
  <2>1. \A t \in Threads : RemoveDir(t) => content # "data" \/ scrubErr
      BY DEF IInv, SerializedInv, RemoveDir
  <2>2. \E t \in Threads : RemoveDir(t)
      BY DEF Next, WorkerNext, SurvivorNext, WatchdogNext, Unlocked,
         StageReturns, StartTransition, Close, CloseMark, StartLaunch,
         CloseCancel, ScrubFiles, RemoveDirFails, Begin, CheckContext, Advance,
         StageSucceeds, StageFails, StageInterrupted, StageWrites,
         SurvivorWrites, SurvivorEnds, MadeProgress, Fail, ProcessDone,
         WatchTick, WatchClose, WatchExit, TimePasses, DeadlineExpires,
         diskVars, vars
  <2> QED
      BY <2>1, <2>2
<1> QED
    BY <1>1, Invariance, PTL DEF SafeSpec, ScrubbedOrLogged

\* A job that finished or failed stays so, and keeps its first error
\* (Job.process, Job.Close).
THEOREM FinalOutcome == SafeSpec => OutcomeIsFinal
<1>1. IInv /\ [Next]_vars =>
        [ /\ state \in {JobFinished, JobFailed} => UNCHANGED <<state, errstate>>
          /\ error # "none" => UNCHANGED error ]_vars
  <2> SUFFICES ASSUME IInv, Next
               PROVE  /\ state \in {JobFinished, JobFailed} =>
                             UNCHANGED <<state, errstate>>
                      /\ error # "none" => UNCHANGED error
      OBVIOUS
  <2> USE DEF jobVars, diskVars
  <2>1. ASSUME NEW t \in Starters, StartTransition(t)
        PROVE  /\ state = JobNew
               /\ UNCHANGED <<errstate, error>>
      BY <2>1 DEF StartTransition
  <2>2. CASE Advance
      BY <2>2 DEF Advance, IInv, WorkerInv, WorkerOwnsState, TypeOK
  <2>3. CASE Fail
      BY <2>3 DEF Fail, IInv, WorkerInv, WorkerOwnsState, TypeOK
  <2>4. ASSUME NEW t \in Threads, NEW err \in Errors, CloseMark(t, err)
        PROVE  /\ UNCHANGED <<state, errstate>>
               /\ error # "none" => UNCHANGED error
      BY <2>4 DEF CloseMark
  <2>5. CASE \/ \E t \in Threads : Unlocked(t)
             \/ Begin \/ CheckContext \/ StageReturns \/ StageWrites
             \/ MadeProgress \/ ProcessDone \/ WatchTick \/ WatchExit
             \/ TimePasses \/ DeadlineExpires \/ SurvivorNext
      BY <2>5 DEF Unlocked, StartLaunch, CloseCancel, ScrubFiles, RemoveDir,
         RemoveDirFails, Begin, CheckContext, StageReturns, StageSucceeds,
         StageFails, StageInterrupted, StageWrites, MadeProgress,
         ProcessDone, WatchTick, WatchExit, TimePasses, DeadlineExpires,
         SurvivorNext, SurvivorWrites, SurvivorEnds
  <2>6. CASE (\E t \in Closers : Close(t)) \/ WatchClose
      BY <2>4, <2>6, ThreadFacts DEF Close, WatchClose
  <2> QED
      BY <2>1, <2>2, <2>3, <2>5, <2>6 DEF Next, WorkerNext, WatchdogNext
<1> QED
    BY <1>1, Invariance, PTL DEF SafeSpec, OutcomeIsFinal

-----------------------------------------------------------------------------
(* Refinement                                                              *)

\* The job implements its lifecycle.
THEOREM Refinement == SafeSpec => ImplementsLifecycle
<1>1. Init => Lifecycle!Init
    BY DEF Init, Lifecycle!Init
<1>2. IInv /\ [Next]_vars => [Lifecycle!Next]_(Lifecycle!vars)
  <2> SUFFICES ASSUME IInv, Next
               PROVE  Lifecycle!Next \/ UNCHANGED Lifecycle!vars
      BY DEF vars, Lifecycle!vars
  <2> USE DEF IInv, Lifecycle!vars, jobVars, diskVars
  <2>1. ASSUME NEW t \in Starters, StartTransition(t)
        PROVE  Lifecycle!Start
      BY <2>1 DEF StartTransition, WorkerInv, WorkerOwnsState, Lifecycle!Start
  <2>2. ASSUME NEW t \in Threads, NEW err \in Errors, CloseMark(t, err)
        PROVE  Lifecycle!Close
      BY <2>2 DEF CloseMark, Lifecycle!Close
  <2>3. CASE (\E t \in Closers : Close(t)) \/ WatchClose
      BY <2>2, <2>3, ThreadFacts DEF Close, WatchClose, Lifecycle!Next
  <2>4. ASSUME ProcessDone PROVE Lifecycle!Stop
      BY <2>4 DEF ProcessDone, WorkerInv, Lifecycle!Stop
  <2>5. ASSUME NEW t \in Threads, RemoveDir(t)
        PROVE  Lifecycle!Remove \/ UNCHANGED Lifecycle!vars
    <3>1. closed
        BY <2>5 DEF RemoveDir, RemoverInv
    <3>2. Serialized => state = JobNew \/ done
      <4> SUFFICES ASSUME Serialized PROVE state = JobNew \/ done
          OBVIOUS
      <4>1. pc[Worker] \notin Working
          BY <2>5, ThreadFacts DEF RemoveDir, OneRemover
      <4>2. pc[Worker] = "none" => state # JobStarting
          BY <3>1 DEF LaunchInv, SerializedInv
      <4> QED
          BY <4>1, <4>2 DEF WorkerInv
    <3> QED
        BY <2>5, <3>1, <3>2 DEF RemoveDir, Lifecycle!Remove
  <2>6. CASE Advance \/ Fail
      BY <2>6 DEF Advance, Fail, WorkerInv, WorkerOwnsState
  <2>7. ASSUME NEW t \in Threads,
               \/ StartLaunch(t) \/ CloseCancel(t) \/ ScrubFiles(t)
               \/ RemoveDirFails(t)
        PROVE  UNCHANGED Lifecycle!vars
      BY <2>7 DEF StartLaunch, CloseCancel, ScrubFiles, RemoveDirFails
  <2>8. CASE \/ Begin \/ CheckContext \/ StageReturns \/ StageWrites
             \/ MadeProgress \/ WatchTick \/ WatchExit
             \/ TimePasses \/ DeadlineExpires \/ SurvivorNext
      BY <2>8 DEF Begin, CheckContext, StageReturns, StageSucceeds,
         StageFails, StageInterrupted, StageWrites, MadeProgress, WatchTick,
         WatchExit, TimePasses, DeadlineExpires, SurvivorNext,
         SurvivorWrites, SurvivorEnds
  <2> QED
      BY <2>1, <2>3, <2>4, <2>5, <2>6, <2>7, <2>8
         DEF Next, WorkerNext, WatchdogNext, Unlocked, Lifecycle!Next
<1> QED
    BY <1>1, <1>2, Invariance, PTL
       DEF SafeSpec, ImplementsLifecycle, Lifecycle!SafeSpec

=============================================================================
