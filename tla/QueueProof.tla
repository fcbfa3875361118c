----------------------------- MODULE QueueProof -----------------------------
(***************************************************************************)
(* The job list implements a queue, for any number of jobs, goroutines and *)
(* limits: Rinse refines JobQueue.                                         *)
(***************************************************************************)
EXTENDS RinseProof

\* What a step of Rinse rests on.
QueueInv == CoreInv /\ StartInOrder /\ StartRespectsLimit

Phase == [j \in Jobs |->
             IF state[j] \in {"none", "new"} THEN "waiting"
             ELSE IF state[j] = "active" THEN "running" ELSE "stopped"]

\* The queue of an empty list.
LEMMA QueueInit ==
    Init => Queue!Init
BY DEF Init, Queue!Init

\* A step that changes neither the list nor the state of a job.
LEMMA ListStays ==
    ASSUME UNCHANGED <<listVars, state>>
    PROVE  UNCHANGED Queue!vars
BY DEF Queue!vars, listVars

\* A step that moves one job on.
LEMMA OnePhase ==
    ASSUME TypeOK, UNCHANGED listVars, NEW j \in Jobs,
           NEW s \in {"new", "active", "finished", "failed"},
           state' = [state EXCEPT ![j] = s]
    PROVE  /\ UNCHANGED <<jobs, pages, serverClosed, maxConcurrent>>
           /\ Phase' = [Phase EXCEPT ![j] = IF s = "new" THEN "waiting"
                                            ELSE IF s = "active" THEN "running" ELSE "stopped"]
<1>1. \A k \in Jobs : state'[k] = IF k = j THEN s ELSE state[k]
      BY DEF TypeOK
<1> QED
    BY <1>1 DEF Phase, listVars

\* AddJob puts a job into the queue that was never in it.
LEMMA AddStep ==
    ASSUME QueueInv, NEW t \in Goroutines, AddJob(t)
    PROVE  [Queue!Next]_(Queue!vars)
<1>1. UNCHANGED <<serverClosed, maxConcurrent, state>> /\ pc[t] = "adding"
      BY DEF AddJob, jobVars
<1>2. CASE Accepts(cur[t]) /\ jobs' = Append(jobs, cur[t]) /\ pages' = pages \union {cur[t]}
  <2>1. cur[t] \in Jobs /\ cur[t] \notin pages
        BY <1>1 DEF QueueInv, CoreInv, FreshInv, Fresh
  <2>2. Queue!Add(cur[t])
        BY <1>1, <1>2, <2>1 DEF Queue!Add, Accepts
  <2> QED
      BY <2>1, <2>2 DEF Queue!Next
<1>3. CASE UNCHANGED <<jobs, pages>>
      BY <1>1, <1>3, ListStays DEF listVars
<1> QED
    BY <1>2, <1>3 DEF AddJob

\* A job that waits is started, in its turn where that is asked.
LEMMA StartOne ==
    ASSUME QueueInv, UNCHANGED listVars, NEW j \in Jobs,
           state[j] = "new", state' = [state EXCEPT ![j] = "active"],
           IF Clickers = {} THEN Queue!HasTurn(j) ELSE j \in pages
    PROVE  [Queue!Next]_(Queue!vars)
<1>1. UNCHANGED <<jobs, pages, serverClosed, maxConcurrent>>
      /\ Phase' = [Phase EXCEPT ![j] = "running"]
      BY OnePhase DEF QueueInv, CoreInv
<1>2. Phase[j] = "waiting"
      BY DEF Phase
<1>3. Queue!Start(j)
      BY <1>1, <1>2 DEF Queue!Start, Phase
<1> QED
    BY <1>3 DEF Queue!Next

\* Whose turn it is, in terms of the list.
LEMMA Turn ==
    ASSUME QueueInv, NEW j \in Jobs, NEW n \in DOMAIN jobs, jobs[n] = j,
           \A i \in DOMAIN jobs : i < n => state[jobs[i]] # "new",
           Cardinality(Running) < maxConcurrent
    PROVE  Queue!HasTurn(j)
<1>1. \A i \in DOMAIN jobs : jobs[i] \in Jobs /\ state[jobs[i]] # "none"
      BY DEF QueueInv, CoreInv, ListInv, TypeOK, Listed
<1>2. \A i \in DOMAIN jobs : i < n => Phase[jobs[i]] # "waiting"
      BY <1>1 DEF Phase
<1>3. Queue!Running = Running
      BY <1>1 DEF Queue!Running, Queue!Queued, Running, Listed
<1>4. \E m \in DOMAIN jobs : jobs[m] = j /\ \A i \in DOMAIN jobs : i < m => Phase[jobs[i]] # "waiting"
      BY <1>2
<1>5. Queue!Cardinality(Queue!Running) = Cardinality(Running)
      BY <1>3 DEF Queue!Cardinality, Cardinality
<1> QED
    BY <1>4, <1>5 DEF Queue!HasTurn, Phase

\* Start under Rinse.mu is given the first job that waits, and there is room.
LEMMA StartStep ==
    ASSUME QueueInv, NEW t \in Goroutines, StartNext(t)
    PROVE  [Queue!Next]_(Queue!vars)
<1>1. pc[t] = "start" /\ UNCHANGED listVars
      BY DEF StartNext
<1>2. PICK j \in Jobs : j = scan.next /\ j \in Listed /\ j \in pages
  <2>1. ScanPicks
        BY <1>1 DEF QueueInv, CoreInv, LockInv
  <2>2. scan.next \in Listed /\ scan.next \in Jobs \union {NoJob} /\ scan.next # NoJob
        BY <2>1 DEF ScanPicks, QueueInv, CoreInv, LockInv, TypeOK
  <2> QED
      BY <2>2 DEF QueueInv, CoreInv, ListInv
<1>3. CASE UNCHANGED state
      BY <1>1, <1>3, ListStays
<1>4. CASE state[j] = "new" /\ state' = [state EXCEPT ![j] = "active"]
  <2>1. CASE Clickers = {}
    <3>1. PICK n \in DOMAIN jobs : jobs[n] = j
          BY <1>2 DEF Listed
    <3>2. \A i \in DOMAIN jobs : i < n => state[jobs[i]] # "new"
          BY <1>1, <1>2, <3>1 DEF QueueInv, StartInOrder
    <3>3. Cardinality(Running) < maxConcurrent
          BY <1>1, <2>1 DEF QueueInv, StartRespectsLimit
    <3>4. Queue!HasTurn(j)
          BY <3>1, <3>2, <3>3, Turn
    <3> QED
        BY <1>1, <1>4, <2>1, <3>4, StartOne
  <2>2. CASE Clickers # {}
        BY <1>1, <1>2, <1>4, <2>2, StartOne
  <2> QED
      BY <2>1, <2>2
<1> QED
    BY <1>2, <1>3, <1>4 DEF StartNext

\* The button starts a job that its page shows.
LEMMA ClickStep ==
    ASSUME QueueInv, NEW t \in Goroutines, NEW j \in Jobs, Click(t, j)
    PROVE  [Queue!Next]_(Queue!vars)
<1>1. UNCHANGED listVars /\ j \in pages /\ Clickers # {}
      BY DEF Click
<1>2. CASE UNCHANGED state
      BY <1>1, <1>2, ListStays
<1>3. CASE state[j] = "new" /\ state' = [state EXCEPT ![j] = "active"]
      BY <1>1, <1>3, StartOne
<1> QED
    BY <1>2, <1>3 DEF Click

\* RemoveJob takes one job off, or none.
LEMMA UnlistStep ==
    ASSUME NEW t \in Goroutines, Unlist(t)
    PROVE  [Queue!Next]_(Queue!vars)
<1> DEFINE j == cur[t]
           n == CHOOSE i \in DOMAIN jobs : jobs[i] = j
<1>1. jobs' = WithoutJob(j) /\ UNCHANGED <<pages, serverClosed, maxConcurrent, state>>
      BY DEF Unlist, jobVars
<1>2. CASE j \in Listed
  <2>1. n \in DOMAIN jobs
        BY <1>2 DEF Listed
  <2>2. jobs' = [i \in 1 .. Len(jobs) - 1 |-> IF i < n THEN jobs[i] ELSE jobs[i + 1]]
        BY <1>1, <1>2 DEF WithoutJob
  <2> HIDE DEF n
  <2>3. Queue!Remove(n)
        BY <1>1, <2>2 DEF Queue!Remove
  <2> QED
      BY <2>1, <2>3 DEF Queue!Next
<1>3. CASE j \notin Listed
      BY <1>1, <1>3, ListStays DEF WithoutJob, listVars
<1> QED
    BY <1>2, <1>3

\* A job that ends has run.
LEMMA StopStep ==
    ASSUME QueueInv, NEW j \in Jobs, WorkerEnds(j)
    PROVE  [Queue!Next]_(Queue!vars)
<1>1. UNCHANGED listVars /\ state[j] = "active"
      BY DEF WorkerEnds, QueueInv, CoreInv, JobInv
<1>2. PICK s \in {"finished", "failed"} : state' = [state EXCEPT ![j] = s]
      BY DEF WorkerEnds
<1>3. UNCHANGED <<jobs, pages, serverClosed, maxConcurrent>>
      /\ Phase' = [Phase EXCEPT ![j] = "stopped"]
      BY <1>1, <1>2, OnePhase DEF QueueInv, CoreInv
<1>4. Queue!Stop(j)
      BY <1>1, <1>3 DEF Queue!Stop, Phase
<1> QED
    BY <1>4 DEF Queue!Next

\* One step of the service is at most one step of the queue.
LEMMA QueueStep ==
    ASSUME QueueInv, [Next]_vars
    PROVE  [Queue!Next]_(Queue!vars)
<1>1. ASSUME NEW t \in Goroutines, NEW j \in Jobs, NewJob(t, j)
      PROVE  [Queue!Next]_(Queue!vars)
  <2>1. UNCHANGED listVars /\ state[j] = "none" /\ state' = [state EXCEPT ![j] = "new"]
        BY <1>1 DEF NewJob
  <2>2. UNCHANGED <<jobs, pages, serverClosed, maxConcurrent>>
        /\ Phase' = [Phase EXCEPT ![j] = "waiting"]
        BY <2>1, OnePhase DEF QueueInv, CoreInv
  <2>3. Phase' = Phase
        BY <2>1, <2>2 DEF Phase
  <2> QED
      BY <2>2, <2>3 DEF Queue!vars, Phase
<1>2. ASSUME NEW t \in Goroutines, NEW j \in Jobs, Delete(t, j) \/ Find(t, j)
      PROVE  [Queue!Next]_(Queue!vars)
      BY <1>2, ListStays DEF Delete, Find, jobVars
<1>3. ASSUME NEW t \in Closers, CloseServer(t)
      PROVE  [Queue!Next]_(Queue!vars)
  <2>1. Queue!Close
        BY <1>3 DEF CloseServer, Queue!Close, jobVars
  <2> QED
      BY <2>1 DEF Queue!Next
<1>4. ASSUME NEW n \in Limits, SetMaxConcurrent(n)
      PROVE  [Queue!Next]_(Queue!vars)
  <2>1. Queue!SetLimit
        BY <1>4 DEF SetMaxConcurrent, Queue!SetLimit, jobVars
  <2> QED
      BY <2>1 DEF Queue!Next
<1>5. CASE Request
      BY <1>1, <1>2, <1>3, <1>4, <1>5, ClickStep DEF Request
<1>6. CASE Tick
      BY <1>6, ListStays DEF Tick, jobVars
<1>7. ASSUME NEW t \in Goroutines, Continue(t)
      PROVE  [Queue!Next]_(Queue!vars)
  <2>1. CASE \/ UploadFails(t) \/ ScanJob(t) \/ ScanEnds(t) \/ ScanEndsIdle(t) \/ Launch(t)
             \/ CloseJob(t) \/ RemoveAll(t) \/ OpenResult(t) \/ Downloaded(t) \/ CopyFails(t)
        BY <2>1, ListStays DEF UploadFails, ScanJob, ScanEnds, ScanEndsIdle, Launch, CloseJob,
           RemoveAll, OpenResult, Downloaded, CopyFails, jobVars
  <2> QED
      BY <1>7, <2>1, StartStep DEF Continue
<1>8. ASSUME NEW j \in Jobs, JobStep(j) \/ WatchdogCloses(j) \/ StoppedAges(j)
      PROVE  [Queue!Next]_(Queue!vars)
  <2>1. CASE \/ ProcessDone(j) \/ WorkerRemoves(j) \/ WatchdogRemoves(j)
             \/ WatchdogCloses(j) \/ StoppedAges(j)
        BY <2>1, ListStays DEF ProcessDone, WorkerRemoves, WatchdogRemoves, WatchdogCloses,
           StoppedAges
  <2> QED
      BY <1>8, <2>1, StopStep DEF JobStep
<1>9. CASE UNCHANGED vars
      BY <1>9, ListStays DEF vars, jobVars
<1> QED
    BY <1>5, <1>6, <1>7, <1>8, <1>9, AddStep, UnlistStep DEF Next, Locking

\* The job list is a queue: jobs enter it once, keep their order and start in
\* their turn, within the limit, as if AddJob and runTasks decided in one step,
\* though they read one job after another while those go on.
THEOREM ListImplementsQueue ==
    SafeSpec => ImplementsQueue
<1>1. SafeSpec => []QueueInv
  <2>1. CoreInv /\ StartInOrder /\ StartRespectsLimit => QueueInv
        BY DEF QueueInv
  <2> QED
      BY <2>1, Invariance, StartsInOrder, StartsRespectLimit, PTL
<1>2. QueueInv /\ [Next]_vars => [Queue!Next]_(Queue!vars)
      BY QueueStep
<1> QED
    BY <1>1, <1>2, QueueInit, PTL DEF SafeSpec, ImplementsQueue, Queue!Spec

=============================================================================
