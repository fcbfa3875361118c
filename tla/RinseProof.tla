----------------------------- MODULE RinseProof -----------------------------
(***************************************************************************)
(* Proofs about Rinse, for any number of jobs and goroutines.              *)
(***************************************************************************)
EXTENDS Rinse, SequenceTheorems, FiniteSetTheorems, TLAPS

Elements(s) == {s[i] : i \in DOMAIN s}

\* What is known of the list.  Pages show every job that was ever in it.
ListInv ==
    /\ \A i, k \in DOMAIN jobs : jobs[i] = jobs[k] => i = k
    /\ Listed \subseteq pages
    /\ serverClosed => jobs = <<>>
    /\ \A j \in pages : state[j] # "none"

\* A number that is not a job yet is in nobody's hands.
NoneInv ==
    \A j \in Jobs :
        state[j] = "none" =>
            /\ files[j] = "none" /\ ~closed[j] /\ worker[j] = "none"
            /\ \A t \in Goroutines : cur[t] # j /\ j \notin Elements(todo[t])

\* A job that is being added is new, and in the hands of its handler alone.
Fresh(t) ==
    pc[t] = "adding" =>
        /\ t \in Posters \union RestPosters
        /\ cur[t] \in Jobs \ pages
        /\ state[cur[t]] = "new" /\ ~closed[cur[t]]
        /\ \A u \in Goroutines : /\ u # t => cur[u] # cur[t]
                                 /\ cur[t] \notin Elements(todo[u])

FreshInv == \A t \in Goroutines : Fresh(t)

\* Where a goroutine has a job, and where it has more to do.
Hands(t) ==
    /\ pc[t] \notin {"idle", "scan", "start"} => cur[t] \in Jobs
    /\ todo[t] # <<>> => t = Scheduler \/ (t \in Closers /\ serverClosed)
    /\ pc[t] \in {"close", "remove"} => cur[t] \notin Listed
    /\ pc[t] = "remove" => closed[cur[t]]

HandsInv == \A t \in Goroutines : Hands(t)

\* How the parts of a job hang together.
JobInv ==
    \A j \in Jobs :
        /\ cancelFn[j] <=> worker[j] \in {"run", "ended"}
        /\ stopped[j] = "zero" <=> worker[j] \in {"none", "run", "ended"}
        /\ watchdog[j] = "none" <=> worker[j] = "none"
        /\ state[j] \in {"none", "new"} => worker[j] = "none"
        /\ worker[j] = "run" => state[j] = "active"
        /\ state[j] \in {"finished", "failed"} <=> worker[j] \in {"ended", "remove", "exited"}
        /\ worker[j] = "remove" => closed[j]
        /\ watchdog[j] = "remove" => closed[j] /\ TimeoutSec > 0 /\ stopped[j] # "zero"
        /\ files[j] = "removed" => closed[j]
        /\ state[j] # "none" => files[j] # "none"

\* Nobody but its watchdog closes a job that is listed.
ClosedInv ==
    \A j \in Listed : closed[j] => TimeoutSec > 0 /\ watchdog[j] # "none"

\* Who holds Rinse.mu, and what for.
LockInv ==
    /\ mu = "free" => scan = NoScan
    /\ scan.next \in Listed \union {NoJob}
    /\ \A t \in Goroutines :
          /\ pc[t] \in {"scan", "start"} => mu = t
          /\ pc[t] = "start" => ScanPicks

\* A job that is launched is listed, unless a button started it.
LaunchInv ==
    /\ \A t \in Goroutines :
          pc[t] = "launch" =>
              /\ state[cur[t]] = "active" /\ worker[cur[t]] = "none"
              /\ \/ t \in Clickers
                 \/ mu = t /\ cur[t] \in Listed
              /\ \A u \in Goroutines : pc[u] = "launch" /\ cur[u] = cur[t] => u = t
    /\ \A j \in Jobs :
          state[j] = "active" /\ worker[j] = "none" =>
              \E t \in Goroutines : pc[t] = "launch" /\ cur[t] = j

CoreInv ==
    /\ TypeOK /\ ListInv /\ NoneInv /\ FreshInv /\ HandsInv
    /\ JobInv /\ ClosedInv /\ LockInv /\ LaunchInv

-----------------------------------------------------------------------------
(* Sequences                                                               *)

\* What TurnTo leaves of a list of jobs: each is the next one or stays.
LEMMA HeadTailElements ==
    ASSUME NEW S, NEW s \in Seq(S), s # <<>>
    PROVE  /\ Head(s) \in S /\ Tail(s) \in Seq(S)
           /\ Elements(s) = {Head(s)} \union Elements(Tail(s))
<1>1. /\ Len(s) \in Nat \ {0} /\ Tail(s) \in Seq(S) /\ Head(s) = s[1]
      /\ Len(Tail(s)) = Len(s) - 1
      /\ \A i \in 1 .. Len(Tail(s)) : Tail(s)[i] = s[i + 1]
      BY EmptySeq, HeadTailProperties
<1>2. DOMAIN s = 1 .. Len(s) /\ DOMAIN Tail(s) = 1 .. Len(Tail(s))
      BY <1>1, LenProperties
<1>3. ASSUME NEW i \in DOMAIN s PROVE s[i] \in {Head(s)} \union Elements(Tail(s))
  <2>1. CASE i = 1
        BY <1>1, <2>1
  <2>2. CASE i # 1
    <3>1. i - 1 \in 1 .. Len(Tail(s)) /\ Tail(s)[i - 1] = s[i]
          BY <1>1, <1>2, <2>2
    <3> QED
        BY <1>2, <3>1 DEF Elements
  <2> QED
      BY <2>1, <2>2
<1>4. Head(s) \in Elements(s)
      BY <1>1, <1>2 DEF Elements
<1>5. ASSUME NEW i \in DOMAIN Tail(s) PROVE Tail(s)[i] \in Elements(s)
      BY <1>1, <1>2 DEF Elements
<1> QED
    BY <1>1, <1>3, <1>4, <1>5, HeadTailProperties DEF Elements

\* What append leaves: the job just put last is one more element.
LEMMA AppendElements ==
    ASSUME NEW S, NEW s \in Seq(S), NEW e \in S
    PROVE  Append(s, e) \in Seq(S) /\ Elements(Append(s, e)) = Elements(s) \union {e}
<1>1. DOMAIN s = 1 .. Len(s) /\ Len(s) \in Nat
      BY LenProperties
<1>2. /\ Append(s, e) \in Seq(S)
      /\ DOMAIN Append(s, e) = 1 .. Len(s) + 1
      /\ \A i \in 1 .. Len(s) : Append(s, e)[i] = s[i]
      /\ Append(s, e)[Len(s) + 1] = e
      BY AppendProperties, LenProperties
<1> QED
    BY <1>1, <1>2 DEF Elements

\* A list without one of its jobs.
LEMMA WithoutElements ==
    ASSUME jobs \in Seq(Jobs), NEW j,
           \A i, k \in DOMAIN jobs : jobs[i] = jobs[k] => i = k
    PROVE  /\ WithoutJob(j) \in Seq(Jobs)
           /\ Elements(WithoutJob(j)) = Listed \ {j}
           /\ \A i, k \in DOMAIN WithoutJob(j) :
                  WithoutJob(j)[i] = WithoutJob(j)[k] => i = k
<1>1. CASE j \notin Listed
      BY <1>1 DEF WithoutJob, Elements, Listed
<1>2. CASE j \in Listed
  <2> DEFINE n == CHOOSE i \in DOMAIN jobs : jobs[i] = j
             w == [i \in 1 .. Len(jobs) - 1 |-> IF i < n THEN jobs[i] ELSE jobs[i + 1]]
  <2>1. n \in DOMAIN jobs /\ jobs[n] = j
        BY <1>2 DEF Listed
  <2>2. DOMAIN jobs = 1 .. Len(jobs) /\ Len(jobs) \in Nat \ {0} /\ n \in 1 .. Len(jobs)
        BY <2>1, LenProperties
  <2>3. \A i \in 1 .. Len(jobs) : jobs[i] \in Jobs
        BY ElementOfSeq
  <2>4. WithoutJob(j) = w
        BY <1>2 DEF WithoutJob
  <2> HIDE DEF n
  <2>5. w \in Seq(Jobs)
    <3>1. w \in [1 .. Len(jobs) - 1 -> Jobs] /\ Len(jobs) - 1 \in Nat
          BY <2>2, <2>3
    <3> QED
        BY <3>1, SeqDef
  <2>6. \A i, k \in DOMAIN w : w[i] = w[k] => i = k
        BY <2>2
  <2>7. \A i \in DOMAIN w : w[i] \in Listed \ {j}
        BY <2>1, <2>2 DEF Listed
  <2>8. ASSUME NEW i \in DOMAIN jobs, jobs[i] # j PROVE jobs[i] \in Elements(w)
    <3>1. i # n
          BY <2>1, <2>8
    <3>2. CASE i < n
          BY <2>2, <3>2 DEF Elements
    <3>3. CASE i > n
      <4>1. i - 1 \in DOMAIN w /\ w[i - 1] = jobs[i]
            BY <2>2, <3>3
      <4> QED
          BY <4>1 DEF Elements
    <3> QED
        BY <2>2, <3>1, <3>2, <3>3
  <2>9. Elements(w) = Listed \ {j}
        BY <2>7, <2>8 DEF Elements, Listed
  <2> HIDE DEF w
  <2> QED
      BY <2>4, <2>5, <2>6, <2>9
<1> QED
    BY <1>1, <1>2

\* Listed as the elements of a sequence; nothing is in the empty one.
LEMMA ListedElements ==
    Listed = Elements(jobs) /\ Listed' = Elements(jobs') /\ Elements(<<>>) = {}
BY DEF Listed, Elements

-----------------------------------------------------------------------------
(* Steps of goroutines                                                     *)

Labels == {"idle", "adding", "scan", "start", "launch",
           "unlist", "close", "remove", "found", "copying"}

\* Goroutine t goes on, the others do not.
Moves(t) ==
    /\ pc' \in [Goroutines -> Labels]
    /\ cur' \in [Goroutines -> Jobs \union {NoJob}]
    /\ todo' \in [Goroutines -> Seq(Jobs)]
    /\ \A u \in Goroutines : u # t =>
          pc'[u] = pc[u] /\ cur'[u] = cur[u] /\ todo'[u] = todo[u]

\* A goroutine that takes up job j changes its own locals only.
LEMMA TakeFacts ==
    ASSUME TypeOK, NEW t \in Goroutines, NEW j \in Jobs, NEW label \in Labels,
           Take(t, j, label)
    PROVE  Moves(t) /\ pc'[t] = label /\ cur'[t] = j /\ todo' = todo
BY DEF TypeOK, Take, Goto, Moves, Labels

\* What a goroutine has left, it has next or still later.
LEMMA TurnToFacts ==
    ASSUME TypeOK, NEW t \in Goroutines, NEW rest \in Seq(Jobs), TurnTo(t, rest)
    PROVE  /\ Moves(t)
           /\ \/ /\ rest = <<>> /\ todo'[t] = <<>>
                 /\ pc'[t] = "idle" /\ cur'[t] = NoJob
              \/ /\ rest # <<>>
                 /\ pc'[t] = IF t \in Closers THEN "close" ELSE "unlist"
                 /\ cur'[t] \in Jobs
                 /\ Elements(rest) = {cur'[t]} \union Elements(todo'[t])
<1>1. CASE rest = <<>>
  <2>1. /\ todo' = [todo EXCEPT ![t] = <<>>] /\ cur' = [cur EXCEPT ![t] = NoJob]
        /\ pc' = [pc EXCEPT ![t] = "idle"] /\ <<>> \in Seq(Jobs)
        BY <1>1 DEF TurnTo, Goto
  <2> QED
      BY <1>1, <2>1 DEF TypeOK, Moves, Labels
<1>2. CASE rest # <<>>
  <2>1. /\ Head(rest) \in Jobs /\ Tail(rest) \in Seq(Jobs)
        /\ Elements(rest) = {Head(rest)} \union Elements(Tail(rest))
        BY <1>2, HeadTailElements
  <2> DEFINE first == Head(rest)
             later == Tail(rest)
  <2>2. /\ todo' = [todo EXCEPT ![t] = later] /\ cur' = [cur EXCEPT ![t] = first]
        /\ pc' = [pc EXCEPT ![t] = IF t \in Closers THEN "close" ELSE "unlist"]
        BY <1>2 DEF TurnTo, Goto
  <2> HIDE DEF first, later
  <2>3. first \in Jobs /\ later \in Seq(Jobs) /\ Elements(rest) = {first} \union Elements(later)
        BY <2>1 DEF first, later
  <2> QED
      BY <1>2, <2>2, <2>3 DEF TypeOK, Moves, Labels
<1> QED
    BY <1>1, <1>2

\* A goroutine that is through goes on with what it has left, or rests.
LEMMA FinishFacts ==
    ASSUME TypeOK, HandsInv, NEW t \in Goroutines, Finish(t)
    PROVE  /\ Moves(t)
           /\ Elements(todo'[t]) \subseteq Elements(todo[t])
           /\ todo'[t] # <<>> => todo[t] # <<>>
           /\ \/ todo[t] = <<>> /\ pc'[t] = "idle" /\ cur'[t] = NoJob
              \/ t = Scheduler /\ pc'[t] = "unlist" /\ cur'[t] \in Elements(todo[t])
              \/ t \in Closers /\ serverClosed /\ pc'[t] = "close" /\ cur'[t] \in Elements(todo[t])
           /\ \A j \in Elements(todo[t]) : cur'[t] = j \/ j \in Elements(todo'[t])
           /\ cur'[t] \in Elements(todo[t]) \union {NoJob}
<1>1. todo[t] \in Seq(Jobs)
      BY DEF TypeOK
<1>2. TurnTo(t, todo[t])
      BY DEF Finish
<1> QED
    BY <1>1, <1>2, TurnToFacts, ListedElements, GoroutineAssumption DEF HandsInv, Hands

\* The jobs a goroutine has left are jobs.
LEMMA TodoFacts ==
    ASSUME TypeOK, NoneInv, NEW t \in Goroutines
    PROVE  \A j \in Elements(todo[t]) : j \in Jobs /\ state[j] # "none"
BY DEF TypeOK, NoneInv, Elements

\* Zero is not the number of a job.
LEMMA NoJobIsNone ==
    NoJob \notin Jobs
BY DEF NoJob, Jobs

\* A goroutine that is through with its job turns to one of those it has left.
LEMMA LeaveFacts ==
    ASSUME TypeOK, NoneInv, HandsInv, NEW t \in Goroutines, Finish(t)
    PROVE  /\ Moves(t)
           /\ pc'[t] \in {"idle", "unlist", "close"}
           /\ pc'[t] # "idle" => cur'[t] \in Jobs
           /\ pc'[t] = "close" => serverClosed
           /\ todo'[t] # <<>> => todo[t] # <<>>
           /\ \A u \in Goroutines :
                 /\ Elements(todo'[u]) \subseteq Elements(todo[u])
                 /\ cur'[u] = cur[u] \/ cur'[u] \in Elements(todo[u]) \/ cur'[u] = NoJob
                 /\ u = t \/ (cur'[u] = cur[u] /\ pc'[u] = pc[u])
<1>1. /\ Moves(t)
      /\ Elements(todo'[t]) \subseteq Elements(todo[t])
      /\ todo'[t] # <<>> => todo[t] # <<>>
      /\ pc'[t] \in {"idle", "unlist", "close"}
      /\ pc'[t] # "idle" => cur'[t] \in Elements(todo[t])
      /\ pc'[t] = "close" => serverClosed
      /\ cur'[t] \in Elements(todo[t]) \union {NoJob}
      BY FinishFacts
<1>2. \A j \in Elements(todo[t]) : j \in Jobs
      BY TodoFacts
<1>3. ASSUME NEW u \in Goroutines
      PROVE  /\ Elements(todo'[u]) \subseteq Elements(todo[u])
             /\ cur'[u] = cur[u] \/ cur'[u] \in Elements(todo[u]) \/ cur'[u] = NoJob
             /\ u = t \/ (cur'[u] = cur[u] /\ pc'[u] = pc[u])
  <2>1. CASE u = t
        BY <1>1, <2>1
  <2>2. CASE u # t
        BY <1>1, <2>2 DEF Moves
  <2> QED
      BY <2>1, <2>2
<1> QED
    BY <1>1, <1>2, <1>3

\* A goroutine is through with its job and turns to what it has left.
LEMMA LeaveInv ==
    ASSUME CoreInv, NEW t \in Goroutines, Finish(t), pc[t] # "launch",
           UNCHANGED <<listVars, jobVars>>,
           \/ UNCHANGED lockVars /\ pc[t] \notin {"scan", "start"}
           \/ mu = t /\ Unlock
    PROVE  CoreInv'
<1> USE DEF CoreInv
<1>1. /\ \A u \in Goroutines :
            /\ Elements(todo'[u]) \subseteq Elements(todo[u])
            /\ cur'[u] = cur[u] \/ cur'[u] \in Elements(todo[u]) \/ cur'[u] = NoJob
            /\ u = t \/ (cur'[u] = cur[u] /\ pc'[u] = pc[u])
      /\ pc'[t] \in {"idle", "unlist", "close"} /\ Moves(t)
      /\ pc'[t] # "idle" => cur'[t] \in Jobs
      /\ pc'[t] = "close" => Listed = {}
      /\ todo'[t] # <<>> => todo[t] # <<>>
      /\ NoJob \notin Jobs
      BY LeaveFacts, NoJobIsNone, ListedElements DEF ListInv
<1>2. UNCHANGED <<jobs, pages, serverClosed, maxConcurrent, state, cancelFn, closed, stopped,
                 worker, watchdog, files>>
      BY DEF listVars, jobVars
<1>3. UNCHANGED Listed
      BY <1>2, ListedElements
<1>4. \/ UNCHANGED <<mu, scan>> /\ pc[t] \notin {"scan", "start"}
      \/ mu = t /\ mu' = "free" /\ scan' = NoScan
      BY DEF lockVars, Unlock
<1>5. TypeOK'
      BY <1>1, <1>2, <1>3, <1>4 DEF TypeOK, NoScan, Moves, Labels
<1>6. ListInv'
      BY <1>1, <1>2, <1>3, <1>4 DEF TypeOK, ListInv
<1>7. NoneInv'
      BY <1>1, <1>2 DEF NoneInv
<1>8. FreshInv'
  <2> SUFFICES ASSUME NEW a \in Goroutines, pc'[a] = "adding"
               PROVE  Fresh(a)'
      BY DEF FreshInv, Fresh
  <2>1. a # t /\ pc[a] = "adding" /\ cur'[a] = cur[a]
        BY <1>1
  <2> QED
      BY <1>1, <1>2, <2>1 DEF FreshInv, Fresh
<1>9. HandsInv'
      BY <1>1, <1>2, <1>3, <1>4 DEF TypeOK, HandsInv, Hands, Moves
<1>10. JobInv'
      BY <1>1, <1>2, <1>3, <1>4 DEF TypeOK, JobInv
<1>11. ClosedInv'
      BY <1>1, <1>2, <1>3, <1>4 DEF TypeOK, ClosedInv, ListInv
<1>12. LockInv'
      BY <1>1, <1>2, <1>3, <1>4 DEF TypeOK, LockInv, Moves, ScanPicks, NoScan
<1>13. LaunchInv'
  <2>1. ASSUME NEW u \in Goroutines
        PROVE  /\ pc'[u] = "launch" <=> pc[u] = "launch"
               /\ pc[u] = "launch" => cur'[u] = cur[u] /\ u # t
        BY <1>1
  <2>2. ASSUME NEW u \in Goroutines, pc[u] = "launch", mu = u PROVE mu' = u
        BY <1>4, <2>1, <2>2
  <2> QED
      BY <1>2, <1>3, <2>1, <2>2 DEF LaunchInv
<1> QED
    BY <1>5, <1>6, <1>7, <1>8, <1>9, <1>10, <1>11, <1>12, <1>13

\* A goroutine goes on with a job that is nobody's new one.
LEMMA HandOverInv ==
    ASSUME CoreInv, NEW t \in Goroutines, NEW j \in Jobs,
           NEW label \in {"unlist", "close", "found", "copying"},
           Take(t, j, label), pc[t] \notin {"scan", "start", "launch"},
           state[j] # "none", label = "close" => j \notin Listed,
           \A u \in Goroutines : u # t /\ pc[u] = "adding" => cur[u] # j,
           UNCHANGED <<listVars, lockVars, jobVars>>
    PROVE  CoreInv'
<1> USE DEF CoreInv
<1>1. Moves(t) /\ pc'[t] = label /\ cur'[t] = j /\ todo' = todo
      BY TakeFacts DEF Labels
<1>2. UNCHANGED <<jobs, pages, serverClosed, maxConcurrent, mu, scan, Listed>>
      BY ListedElements DEF listVars, lockVars
<1>3. UNCHANGED <<state, cancelFn, closed, stopped, worker, watchdog, files>>
      BY DEF jobVars
<1>4. \A u \in Goroutines : u # t => pc'[u] = pc[u] /\ cur'[u] = cur[u]
      BY <1>1 DEF Moves
<1>5. TypeOK'
      BY <1>1, <1>2, <1>3, <1>4 DEF TypeOK, NoScan, Moves, Labels
<1>6. ListInv'
      BY <1>1, <1>2, <1>3, <1>4 DEF TypeOK, ListInv
<1>7. NoneInv'
      BY <1>1, <1>2, <1>3, <1>4 DEF TypeOK, NoneInv, Moves
<1>8. FreshInv'
      BY <1>1, <1>2, <1>3, <1>4 DEF TypeOK, FreshInv, Fresh, Moves, ListInv, NoneInv
<1>9. HandsInv'
      BY <1>1, <1>2, <1>3, <1>4 DEF TypeOK, HandsInv, Hands, Moves
<1>10. JobInv'
      BY <1>1, <1>2, <1>3, <1>4 DEF TypeOK, JobInv
<1>11. ClosedInv'
      BY <1>1, <1>2, <1>3, <1>4 DEF TypeOK, ClosedInv, ListInv
<1>12. LockInv'
      BY <1>1, <1>2, <1>3, <1>4 DEF TypeOK, LockInv, Moves, ScanPicks, NoScan
<1>13. LaunchInv'
  <2>1. ASSUME NEW u \in Goroutines
        PROVE  /\ pc'[u] = "launch" <=> pc[u] = "launch"
               /\ pc[u] = "launch" => cur'[u] = cur[u]
    <3>1. CASE u = t
          BY <1>1, <3>1
    <3>2. CASE u # t
          BY <1>4, <3>2
    <3> QED
        BY <3>1, <3>2
  <2> QED
      BY <1>2, <1>3, <2>1 DEF LaunchInv
<1> QED
    BY <1>5, <1>6, <1>7, <1>8, <1>9, <1>10, <1>11, <1>12, <1>13

\* NewJob makes a job that nobody else knows.
LEMMA NewJobInv ==
    ASSUME CoreInv, NEW t \in Goroutines, NEW j \in Jobs, NewJob(t, j)
    PROVE  CoreInv'
<1> USE DEF CoreInv
<1>1. Moves(t) /\ pc'[t] = "adding" /\ cur'[t] = j /\ todo' = todo
      BY TakeFacts DEF NewJob, Labels
<1>2. \A u \in Goroutines : u # t => pc'[u] = pc[u] /\ cur'[u] = cur[u] /\ todo'[u] = todo[u]
      BY <1>1 DEF Moves
<1>3. UNCHANGED <<jobs, pages, serverClosed, maxConcurrent, mu, scan, Listed>>
      BY ListedElements DEF NewJob, listVars, lockVars
<1>4. /\ UNCHANGED <<cancelFn, closed, stopped, worker, watchdog>>
      /\ state' = [state EXCEPT ![j] = "new"] /\ files' = [files EXCEPT ![j] = "present"]
      /\ pc[t] = "idle" /\ t \in Posters \union RestPosters /\ state[j] = "none"
      BY DEF NewJob
<1>5. /\ j \notin pages /\ ~closed[j] /\ worker[j] = "none"
      /\ \A u \in Goroutines : cur[u] # j /\ j \notin Elements(todo[u])
      BY <1>4 DEF ListInv, NoneInv
<1>6. TypeOK'
      BY <1>1, <1>2, <1>3, <1>4, <1>5 DEF TypeOK, NoScan, Moves, Labels
<1>7. ListInv'
      BY <1>1, <1>2, <1>3, <1>4, <1>5 DEF TypeOK, ListInv
<1>8. NoneInv'
      BY <1>1, <1>2, <1>3, <1>4, <1>5 DEF TypeOK, NoneInv, Moves
<1>9. FreshInv'
  <2>1. Fresh(t)'
        BY <1>1, <1>2, <1>3, <1>4, <1>5 DEF Fresh, TypeOK
  <2>2. ASSUME NEW a \in Goroutines, a # t PROVE Fresh(a)'
        BY <1>1, <1>2, <1>3, <1>4, <1>5, <2>2 DEF Fresh, FreshInv, TypeOK
  <2> QED
      BY <2>1, <2>2 DEF FreshInv
<1>10. HandsInv'
      BY <1>1, <1>2, <1>3, <1>4, <1>5 DEF TypeOK, HandsInv, Hands, Moves
<1>11. JobInv'
      BY <1>1, <1>2, <1>3, <1>4, <1>5 DEF TypeOK, JobInv
<1>12. ClosedInv'
      BY <1>1, <1>2, <1>3, <1>4, <1>5 DEF TypeOK, ClosedInv, ListInv
<1>13. LockInv'
      BY <1>1, <1>2, <1>3, <1>4, <1>5 DEF TypeOK, LockInv, Moves, ScanPicks, NoScan
<1>14. LaunchInv'
  <2>1. ASSUME NEW u \in Goroutines
        PROVE  /\ pc'[u] = "launch" <=> pc[u] = "launch"
               /\ pc[u] = "launch" => cur'[u] = cur[u] /\ state'[cur[u]] = state[cur[u]]
    <3>1. CASE u = t
          BY <1>1, <1>4, <3>1
    <3>2. CASE u # t
          BY <1>2, <1>4, <1>5, <3>2 DEF TypeOK
    <3> QED
        BY <3>1, <3>2
  <2>2. \A k \in Jobs : state'[k] = "active" <=> state[k] = "active"
        BY <1>4 DEF TypeOK
  <2> QED
      BY <1>3, <1>4, <2>1, <2>2 DEF LaunchInv
<1> QED
    BY <1>6, <1>7, <1>8, <1>9, <1>10, <1>11, <1>12, <1>13, <1>14

\* AddJob puts the job of its handler in the list.
LEMMA AcceptInv ==
    ASSUME CoreInv, NEW t \in Goroutines, AddJob(t), Accepts(cur[t]), pc'[t] = "scan"
    PROVE  CoreInv'
<1> USE DEF CoreInv
<1>1. /\ pc[t] = "adding" /\ mu = "free" /\ ~serverClosed /\ cur[t] \notin Listed
      /\ jobs' = Append(jobs, cur[t]) /\ pages' = pages \union {cur[t]}
      /\ mu' = t /\ pc' = [pc EXCEPT ![t] = "scan"]
      /\ UNCHANGED <<scan, cur, todo, serverClosed, maxConcurrent>>
      BY DEF AddJob, Accepts, Lock, Goto
<1>2. UNCHANGED <<state, cancelFn, closed, stopped, worker, watchdog, files>>
      BY DEF AddJob, jobVars
<1>3. cur[t] \in Jobs \ pages /\ state[cur[t]] = "new" /\ ~closed[cur[t]]
      /\ \A u \in Goroutines : /\ u # t => cur[u] # cur[t]
                               /\ cur[t] \notin Elements(todo[u])
      BY <1>1 DEF FreshInv, Fresh
<1>4. /\ Listed' = Listed \union {cur[t]} /\ jobs' \in Seq(Jobs)
      /\ \A i, k \in DOMAIN jobs' : jobs'[i] = jobs'[k] => i = k
  <2>1. jobs \in Seq(Jobs) /\ cur[t] \in Jobs
        BY <1>3 DEF TypeOK
  <2>2. Listed' = Listed \union {cur[t]} /\ jobs' \in Seq(Jobs)
        BY <1>1, <2>1, AppendElements, ListedElements
  <2>3. /\ DOMAIN jobs = 1 .. Len(jobs) /\ Len(jobs) \in Nat /\ DOMAIN jobs' = 1 .. Len(jobs) + 1
        /\ \A i \in 1 .. Len(jobs) : jobs'[i] = jobs[i]
        /\ jobs'[Len(jobs) + 1] = cur[t]
        BY <1>1, <2>1, AppendProperties, LenProperties
  <2>4. \A i \in 1 .. Len(jobs) : jobs'[i] # cur[t]
        BY <1>1, <2>3 DEF Listed
  <2> QED
      BY <2>2, <2>3, <2>4 DEF ListInv
<1>5. \A u \in Goroutines : u # t => pc'[u] = pc[u]
      BY <1>1 DEF TypeOK
<1>6. \A u \in Goroutines : u # mu
      BY <1>1, GoroutineAssumption
<1>7. TypeOK'
      BY <1>1, <1>2, <1>3, <1>4, <1>5, <1>6 DEF TypeOK, NoScan, Moves, Labels
<1>8. ListInv'
      BY <1>1, <1>2, <1>3, <1>4, <1>5, <1>6 DEF TypeOK, ListInv
<1>9. NoneInv'
      BY <1>1, <1>2, <1>3, <1>4, <1>5, <1>6 DEF TypeOK, NoneInv, Moves
<1>10. FreshInv'
      BY <1>1, <1>2, <1>3, <1>4, <1>5, <1>6 DEF TypeOK, FreshInv, Fresh, Moves, ListInv, NoneInv
<1>11. HandsInv'
      BY <1>1, <1>2, <1>3, <1>4, <1>5, <1>6 DEF TypeOK, HandsInv, Hands, Moves
<1>12. JobInv'
      BY <1>1, <1>2, <1>3, <1>4, <1>5, <1>6 DEF TypeOK, JobInv
<1>13. ClosedInv'
      BY <1>1, <1>2, <1>3, <1>4, <1>5, <1>6 DEF TypeOK, ClosedInv, ListInv
<1>14. LockInv'
      BY <1>1, <1>2, <1>3, <1>4, <1>5, <1>6 DEF TypeOK, LockInv, Moves, ScanPicks, NoScan
<1>15. LaunchInv'
  <2>1. ASSUME NEW u \in Goroutines
        PROVE  /\ pc'[u] = "launch" <=> pc[u] = "launch"
               /\ pc[u] = "launch" => cur'[u] = cur[u]
    <3>1. CASE u = t
          BY <1>1, <3>1 DEF TypeOK
    <3>2. CASE u # t
          BY <1>1, <1>5, <3>2
    <3> QED
        BY <3>1, <3>2
  <2> QED
      BY <1>1, <1>2, <1>3, <1>4, <1>6, <2>1 DEF LaunchInv
<1> QED
    BY <1>7, <1>8, <1>9, <1>10, <1>11, <1>12, <1>13, <1>14, <1>15

\* RemoveJob takes a job off the list.
LEMMA UnlistInv ==
    ASSUME CoreInv, NEW t \in Goroutines, Unlist(t)
    PROVE  CoreInv'
<1> USE DEF CoreInv
<1>1. /\ pc[t] = "unlist" /\ mu = "free" /\ jobs' = WithoutJob(cur[t])
      /\ pc' = [pc EXCEPT ![t] = "close"]
      /\ UNCHANGED <<pages, serverClosed, maxConcurrent, mu, scan, cur, todo>>
      BY DEF Unlist, Goto, lockVars
<1>2. UNCHANGED <<state, cancelFn, closed, stopped, worker, watchdog, files>>
      BY DEF Unlist, jobVars
<1>3. /\ jobs' \in Seq(Jobs) /\ Listed' = Listed \ {cur[t]}
      /\ \A i, k \in DOMAIN jobs' : jobs'[i] = jobs'[k] => i = k
      BY <1>1, WithoutElements, ListedElements DEF TypeOK, ListInv
<1>4. serverClosed => jobs' = <<>>
  <2>1. serverClosed => Listed = {} /\ jobs = <<>>
        BY ListedElements DEF ListInv
  <2> QED
      BY <1>1, <2>1 DEF WithoutJob
<1>5. \A u \in Goroutines : u # mu
      BY <1>1, GoroutineAssumption
<1>6. \A u \in Goroutines : u # t => pc'[u] = pc[u]
      BY <1>1 DEF TypeOK
<1>7. TypeOK'
      BY <1>1, <1>2, <1>3, <1>4, <1>5, <1>6 DEF TypeOK, NoScan, Moves, Labels
<1>8. ListInv'
      BY <1>1, <1>2, <1>3, <1>4 DEF ListInv
<1>9. NoneInv'
      BY <1>1, <1>2, <1>3, <1>4, <1>5, <1>6 DEF TypeOK, NoneInv, Moves
<1>10. FreshInv'
      BY <1>1, <1>2, <1>3, <1>4, <1>5, <1>6 DEF TypeOK, FreshInv, Fresh, Moves, ListInv, NoneInv
<1>11. HandsInv'
      BY <1>1, <1>2, <1>3, <1>4, <1>5, <1>6 DEF TypeOK, HandsInv, Hands, Moves
<1>12. JobInv'
      BY <1>1, <1>2, <1>3, <1>4, <1>5, <1>6 DEF TypeOK, JobInv
<1>13. ClosedInv'
      BY <1>1, <1>2, <1>3, <1>4, <1>5, <1>6 DEF TypeOK, ClosedInv, ListInv
<1>14. LockInv'
      BY <1>1, <1>2, <1>3, <1>4, <1>5, <1>6 DEF TypeOK, LockInv, Moves, ScanPicks, NoScan
<1>15. LaunchInv'
  <2>1. ASSUME NEW u \in Goroutines
        PROVE  /\ pc'[u] = "launch" <=> pc[u] = "launch"
               /\ pc[u] = "launch" => cur'[u] = cur[u]
    <3>1. CASE u = t
          BY <1>1, <3>1 DEF TypeOK
    <3>2. CASE u # t
          BY <1>1, <1>6, <3>2
    <3> QED
        BY <3>1, <3>2
  <2> QED
      BY <1>1, <1>2, <1>5, <2>1 DEF LaunchInv
<1> QED
    BY <1>7, <1>8, <1>9, <1>10, <1>11, <1>12, <1>13, <1>14, <1>15

\* Rinse.Close takes every job off the list, to close it.
LEMMA CloseServerInv ==
    ASSUME CoreInv, NEW t \in Closers, CloseServer(t)
    PROVE  CoreInv'
<1> USE DEF CoreInv
<1>1. /\ pc[t] = "idle" /\ ~serverClosed /\ mu = "free" /\ serverClosed' /\ jobs' = <<>>
      /\ TurnTo(t, jobs) /\ UNCHANGED <<pages, maxConcurrent, mu, scan>>
      BY DEF CloseServer, lockVars
<1>2. UNCHANGED <<state, cancelFn, closed, stopped, worker, watchdog, files>>
      BY DEF CloseServer, jobVars
<1>3. t \in Goroutines /\ NoJob \notin Jobs
      BY NoJobIsNone DEF Goroutines
<1>4. /\ Moves(t) /\ pc'[t] \in {"idle", "close"}
      /\ pc'[t] = "close" => cur'[t] \in Jobs
      /\ cur'[t] \in Listed \union {NoJob} /\ Elements(todo'[t]) \subseteq Listed
      BY <1>1, <1>3, TurnToFacts, ListedElements DEF TypeOK
<1>5. Listed' = {} /\ jobs' \in Seq(Jobs) /\ DOMAIN jobs' = {}
      BY <1>1, ListedElements
<1>6. \A u \in Goroutines : u # mu
      BY <1>1, GoroutineAssumption
<1>7. \A u \in Goroutines : u # t => pc'[u] = pc[u] /\ cur'[u] = cur[u] /\ todo'[u] = todo[u]
      BY <1>4 DEF Moves
<1>8. TypeOK'
      BY <1>1, <1>2, <1>4, <1>5 DEF TypeOK, Moves, Labels
<1>9. ListInv'
      BY <1>1, <1>2, <1>3, <1>4, <1>5, <1>6, <1>7 DEF TypeOK, ListInv
<1>10. NoneInv'
  <2>1. Listed \subseteq pages /\ \A j \in pages : state[j] # "none"
        BY DEF ListInv
  <2>2. ASSUME NEW u \in Goroutines
        PROVE  /\ cur'[u] \in pages \union {NoJob, cur[u]}
               /\ Elements(todo'[u]) \subseteq Elements(todo[u]) \union pages
    <3>1. CASE u = t
          BY <1>4, <2>1, <3>1
    <3>2. CASE u # t
          BY <1>7, <3>2
    <3> QED
        BY <3>1, <3>2
  <2> QED
      BY <1>2, <1>3, <2>1, <2>2 DEF NoneInv
<1>11. FreshInv'
  <2> SUFFICES ASSUME NEW a \in Goroutines, pc'[a] = "adding"
               PROVE  Fresh(a)'
      BY DEF FreshInv, Fresh
  <2>1. a # t /\ pc[a] = "adding" /\ cur'[a] = cur[a]
        BY <1>4, <1>7
  <2>2. Fresh(a) /\ Listed \subseteq pages
        BY DEF FreshInv, ListInv
  <2>3. cur'[t] # cur[a] /\ cur[a] \notin Elements(todo'[t])
        BY <1>3, <1>4, <2>1, <2>2 DEF Fresh
  <2>4. ASSUME NEW u \in Goroutines
        PROVE  (u # a => cur'[u] # cur[a]) /\ cur[a] \notin Elements(todo'[u])
        BY <1>7, <2>1, <2>2, <2>3 DEF Fresh
  <2> QED
      BY <1>1, <1>2, <2>1, <2>2, <2>4 DEF Fresh
<1>12. HandsInv'
      BY <1>1, <1>2, <1>3, <1>4, <1>5, <1>6, <1>7 DEF TypeOK, HandsInv, Hands, Moves
<1>13. JobInv'
      BY <1>1, <1>2, <1>3, <1>4, <1>5, <1>6, <1>7 DEF TypeOK, JobInv
<1>14. ClosedInv'
      BY <1>1, <1>2, <1>3, <1>4, <1>5, <1>6, <1>7 DEF TypeOK, ClosedInv, ListInv
<1>15. LockInv'
      BY <1>1, <1>2, <1>3, <1>4, <1>5, <1>6, <1>7 DEF TypeOK, LockInv, Moves, ScanPicks, NoScan
<1>16. LaunchInv'
  <2>1. ASSUME NEW u \in Goroutines
        PROVE  /\ pc'[u] = "launch" <=> pc[u] = "launch"
               /\ pc[u] = "launch" => cur'[u] = cur[u]
    <3>1. CASE u = t
          BY <1>1, <1>4, <3>1 DEF TypeOK
    <3>2. CASE u # t
          BY <1>7, <3>2
    <3> QED
        BY <3>1, <3>2
  <2> QED
      BY <1>1, <1>2, <1>6, <2>1 DEF LaunchInv
<1> QED
    BY <1>8, <1>9, <1>10, <1>11, <1>12, <1>13, <1>14, <1>15, <1>16

\* runTasks takes Rinse.mu.
LEMMA TickInv ==
    ASSUME CoreInv, Tick
    PROVE  CoreInv'
<1> USE DEF CoreInv
<1>1. /\ Scheduler \in Goroutines /\ pc[Scheduler] = "idle" /\ mu = "free"
      /\ mu' = Scheduler /\ pc' = [pc EXCEPT ![Scheduler] = "scan"]
      /\ UNCHANGED <<jobs, pages, serverClosed, maxConcurrent, scan, cur, todo>>
      BY DEF Tick, Lock, Goto, listVars, Goroutines
<1>2. UNCHANGED <<state, cancelFn, closed, stopped, worker, watchdog, files>>
      BY DEF Tick, jobVars
<1>3. UNCHANGED Listed
      BY <1>1, ListedElements
<1>4. \A u \in Goroutines : u # mu
      BY <1>1, GoroutineAssumption
<1>5. \A u \in Goroutines : u # Scheduler => pc'[u] = pc[u]
      BY <1>1 DEF TypeOK
<1>6. TypeOK'
      BY <1>1, <1>2, <1>3, <1>4, <1>5 DEF TypeOK, NoScan, Moves, Labels
<1>7. ListInv'
      BY <1>1, <1>2, <1>3, <1>4, <1>5 DEF TypeOK, ListInv
<1>8. NoneInv'
      BY <1>1, <1>2, <1>3, <1>4, <1>5 DEF TypeOK, NoneInv, Moves
<1>9. FreshInv'
      BY <1>1, <1>2, <1>3, <1>4, <1>5 DEF TypeOK, FreshInv, Fresh, Moves, ListInv, NoneInv
<1>10. HandsInv'
      BY <1>1, <1>2, <1>3, <1>4, <1>5 DEF TypeOK, HandsInv, Hands, Moves
<1>11. JobInv'
      BY <1>1, <1>2, <1>3, <1>4, <1>5 DEF TypeOK, JobInv
<1>12. ClosedInv'
      BY <1>1, <1>2, <1>3, <1>4, <1>5 DEF TypeOK, ClosedInv, ListInv
<1>13. LockInv'
      BY <1>1, <1>2, <1>3, <1>4, <1>5 DEF TypeOK, LockInv, Moves, ScanPicks, NoScan
<1>14. LaunchInv'
  <2>1. ASSUME NEW u \in Goroutines
        PROVE  /\ pc'[u] = "launch" <=> pc[u] = "launch"
               /\ pc[u] = "launch" => cur'[u] = cur[u]
    <3>1. CASE u = Scheduler
          BY <1>1, <3>1 DEF TypeOK
    <3>2. CASE u # Scheduler
          BY <1>1, <1>5, <3>2
    <3> QED
        BY <3>1, <3>2
  <2> QED
      BY <1>1, <1>2, <1>3, <1>4, <2>1 DEF LaunchInv
<1> QED
    BY <1>6, <1>7, <1>8, <1>9, <1>10, <1>11, <1>12, <1>13, <1>14

\* The loop over the jobs found one to start.
LEMMA ScanEndsInv ==
    ASSUME CoreInv, NEW t \in Goroutines, ScanEnds(t)
    PROVE  CoreInv'
<1> USE DEF CoreInv
<1>1. /\ pc[t] = "scan" /\ ScanPicks /\ pc' = [pc EXCEPT ![t] = "start"]
      /\ UNCHANGED <<jobs, pages, serverClosed, maxConcurrent, mu, scan, cur, todo>>
      BY DEF ScanEnds, Goto, listVars, lockVars
<1>2. UNCHANGED <<state, cancelFn, closed, stopped, worker, watchdog, files>>
      BY DEF ScanEnds, jobVars
<1>3. UNCHANGED Listed
      BY <1>1, ListedElements
<1>4. \A u \in Goroutines : u # t => pc'[u] = pc[u]
      BY <1>1 DEF TypeOK
<1>5. TypeOK'
      BY <1>1, <1>2, <1>3, <1>4 DEF TypeOK, NoScan, Moves, Labels
<1>6. ListInv'
      BY <1>1, <1>2, <1>3, <1>4 DEF TypeOK, ListInv
<1>7. NoneInv'
      BY <1>1, <1>2, <1>3, <1>4 DEF TypeOK, NoneInv, Moves
<1>8. FreshInv'
      BY <1>1, <1>2, <1>3, <1>4 DEF TypeOK, FreshInv, Fresh, Moves, ListInv, NoneInv
<1>9. HandsInv'
      BY <1>1, <1>2, <1>3, <1>4 DEF TypeOK, HandsInv, Hands, Moves
<1>10. JobInv'
      BY <1>1, <1>2, <1>3, <1>4 DEF TypeOK, JobInv
<1>11. ClosedInv'
      BY <1>1, <1>2, <1>3, <1>4 DEF TypeOK, ClosedInv, ListInv
<1>12. LockInv'
      BY <1>1, <1>2, <1>3, <1>4 DEF TypeOK, LockInv, Moves, ScanPicks, NoScan
<1>13. LaunchInv'
  <2>1. ASSUME NEW u \in Goroutines
        PROVE  /\ pc'[u] = "launch" <=> pc[u] = "launch"
               /\ pc[u] = "launch" => cur'[u] = cur[u]
    <3>1. CASE u = t
          BY <1>1, <3>1 DEF TypeOK
    <3>2. CASE u # t
          BY <1>1, <1>4, <3>2
    <3> QED
        BY <3>1, <3>2
  <2> QED
      BY <1>1, <1>2, <1>3, <2>1 DEF LaunchInv
<1> QED
    BY <1>5, <1>6, <1>7, <1>8, <1>9, <1>10, <1>11, <1>12, <1>13

\* One turn of the loop over the jobs.
LEMMA ScanJobInv ==
    ASSUME CoreInv, NEW t \in Goroutines, ScanJob(t)
    PROVE  CoreInv'
<1> USE DEF CoreInv
<1>1. /\ pc[t] = "scan" /\ scan.pos <= Len(jobs)
      /\ UNCHANGED <<jobs, pages, serverClosed, maxConcurrent, mu, pc, cur>>
      BY DEF ScanJob, listVars
<1>2. UNCHANGED <<state, cancelFn, closed, stopped, worker, watchdog, files>>
      BY DEF ScanJob, jobVars
<1>3. UNCHANGED Listed
      BY <1>1, ListedElements
<1>4. PICK j \in Listed \cap Jobs :
      /\ scan'.next \in {scan.next, j, NoJob} 
      /\ scan' \in [pos : Nat \ {0}, running : Nat, next : Jobs \union {NoJob}]
      /\ \/ todo' = todo
         \/ t = Scheduler /\ todo' = [todo EXCEPT ![t] = Append(@, j)]
  <2> DEFINE j == jobs[scan.pos]
  <2>1. /\ scan \in [pos : Nat \ {0}, running : Nat, next : Jobs \union {NoJob}]
        /\ jobs \in Seq(Jobs) /\ Len(jobs) \in Nat /\ todo \in [Goroutines -> Seq(Jobs)]
        BY LenProperties DEF TypeOK
  <2>2. j \in Listed /\ j \in Jobs
        BY <1>1, <2>1, LenProperties, ElementOfSeq DEF Listed
  <2> DEFINE Goal == /\ scan'.next \in {scan.next, j, NoJob}
                     /\ scan' \in [pos : Nat \ {0}, running : Nat, next : Jobs \union {NoJob}]
                     /\ \/ todo' = todo
                        \/ t = Scheduler /\ todo' = [todo EXCEPT ![t] = Append(@, j)]
  <2> HIDE DEF j
  <2>3. ASSUME scan' = [scan EXCEPT !.pos = @ + 1, !.next = Pick(j)], todo' = todo
        PROVE  Goal
    <3>1. Pick(j) \in {scan.next, j}
          BY DEF Pick
    <3>2. scan.pos + 1 \in Nat \ {0} /\ Pick(j) \in Jobs \union {NoJob}
          BY <2>1, <2>2, <3>1
    <3>3. scan'.next = Pick(j)
          BY <2>1, <2>3
    <3>4. scan' \in [pos : Nat \ {0}, running : Nat, next : Jobs \union {NoJob}]
          BY <2>1, <2>3, <3>2
    <3> QED
        BY <2>3, <3>1, <3>3, <3>4
  <2>4. ASSUME scan' = [scan EXCEPT !.pos = @ + 1],
               \/ todo' = todo
               \/ t = Scheduler /\ todo' = [todo EXCEPT ![t] = Append(@, j)]
        PROVE  Goal
        BY <2>1, <2>2, <2>4
  <2>5. ASSUME scan' = [pos |-> Len(jobs) + 1, running |-> scan.running + 1, next |-> NoJob],
               todo' = todo
        PROVE  Goal
        BY <2>1, <2>5
  <2>6. ASSUME scan' = [scan EXCEPT !.pos = @ + 1, !.running = @ + 1], todo' = todo
        PROVE  Goal
    <3>1. scan.pos + 1 \in Nat \ {0} /\ scan.running + 1 \in Nat
          BY <2>1
    <3>2. scan'.next = scan.next
          BY <2>1, <2>6
    <3>3. scan' \in [pos : Nat \ {0}, running : Nat, next : Jobs \union {NoJob}]
          BY <2>1, <2>6, <3>1
    <3> QED
        BY <2>6, <3>2, <3>3
  <2>7. Goal
        BY <2>3, <2>4, <2>5, <2>6 DEF ScanJob, j
  <2> QED
      BY <2>2, <2>7
<1>5. /\ todo' \in [Goroutines -> Seq(Jobs)]
      /\ \A u \in Goroutines : /\ Elements(todo'[u]) \subseteq Elements(todo[u]) \union Listed
                               /\ todo'[u] # <<>> => todo[u] # <<>> \/ u = Scheduler
  <2>1. todo \in [Goroutines -> Seq(Jobs)] /\ j \in Jobs
        BY <1>4 DEF TypeOK
  <2>2. CASE todo' = todo
        BY <2>1, <2>2
  <2>3. CASE t = Scheduler /\ todo' = [todo EXCEPT ![t] = Append(@, j)]
    <3>1. /\ Append(todo[t], j) \in Seq(Jobs)
          /\ Elements(Append(todo[t], j)) = Elements(todo[t]) \union {j}
          BY <2>1, AppendElements
    <3> QED
        BY <1>4, <2>1, <2>3, <3>1
  <2> QED
      BY <1>4, <2>2, <2>3
<1>6. mu = t /\ mu # "free"
      BY <1>1, GoroutineAssumption DEF LockInv
<1>7. Listed \subseteq pages /\ \A k \in pages : state[k] # "none"
      BY DEF ListInv
<1>8. TypeOK'
      BY <1>1, <1>2, <1>3, <1>4, <1>5, <1>6, <1>7 DEF TypeOK, NoScan, Moves, Labels
<1>9. ListInv'
      BY <1>1, <1>2, <1>3, <1>4, <1>5, <1>6, <1>7 DEF TypeOK, ListInv
<1>10. NoneInv'
      BY <1>1, <1>2, <1>5, <1>7 DEF NoneInv
<1>11. FreshInv'
  <2> SUFFICES ASSUME NEW a \in Goroutines, pc'[a] = "adding"
               PROVE  Fresh(a)'
      BY DEF FreshInv, Fresh
  <2>1. Fresh(a) /\ pc[a] = "adding" /\ cur[a] \notin Listed
        BY <1>1, <1>7 DEF FreshInv, Fresh
  <2> QED
      BY <1>1, <1>2, <1>5, <2>1 DEF Fresh
<1>12. HandsInv'
      BY <1>1, <1>2, <1>3, <1>4, <1>5, <1>6, <1>7 DEF TypeOK, HandsInv, Hands, Moves
<1>13. JobInv'
      BY <1>1, <1>2, <1>3, <1>4, <1>5, <1>6, <1>7 DEF TypeOK, JobInv
<1>14. ClosedInv'
      BY <1>1, <1>2, <1>3, <1>4, <1>5, <1>6, <1>7 DEF TypeOK, ClosedInv, ListInv
<1>15. LockInv'
      BY <1>1, <1>2, <1>3, <1>4, <1>5, <1>6, <1>7 DEF TypeOK, LockInv, Moves, ScanPicks, NoScan
<1>16. LaunchInv'
      BY <1>1, <1>2, <1>3, <1>4, <1>5, <1>6, <1>7 DEF TypeOK, LaunchInv, Moves
<1> QED
    BY <1>8, <1>9, <1>10, <1>11, <1>12, <1>13, <1>14, <1>15, <1>16

\* Start takes a job of the list under Rinse.mu, or one of a page without it.
LEMMA StartInv ==
    ASSUME CoreInv, NEW t \in Goroutines, NEW j \in pages, state[j] = "new",
           t \in Clickers \/ (mu = t /\ j \in Listed), pc[t] # "launch",
           state' = [state EXCEPT ![j] = "active"], Take(t, j, "launch"),
           UNCHANGED <<listVars, lockVars, cancelFn, closed, stopped, worker,
                       watchdog, files>>
    PROVE  CoreInv'
<1> USE DEF CoreInv
<1>1. /\ UNCHANGED <<jobs, pages, serverClosed, maxConcurrent, mu, scan>>
      /\ UNCHANGED <<cancelFn, closed, stopped, worker, watchdog, files>>
      BY DEF listVars, lockVars
<1>2. j \in Jobs
      BY DEF TypeOK
<1>3. Moves(t) /\ pc'[t] = "launch" /\ cur'[t] = j /\ todo' = todo
      BY <1>1, <1>2, TakeFacts DEF Labels
<1>4. UNCHANGED Listed
      BY <1>1, ListedElements
<1>5. \A u \in Goroutines : u # t => pc'[u] = pc[u] /\ cur'[u] = cur[u]
      BY <1>3 DEF Moves
<1>6. worker[j] = "none" /\ stopped[j] = "zero" /\ files[j] # "none"
      BY <1>2 DEF JobInv
<1>7. TypeOK'
      BY <1>1, <1>2, <1>3, <1>4, <1>5, <1>6 DEF TypeOK, NoScan, Moves, Labels
<1>8. ListInv'
      BY <1>1, <1>2, <1>3, <1>4, <1>5, <1>6 DEF TypeOK, ListInv
<1>9. NoneInv'
      BY <1>1, <1>2, <1>3, <1>4, <1>5, <1>6 DEF TypeOK, NoneInv, Moves
<1>10. FreshInv'
      BY <1>1, <1>2, <1>3, <1>4, <1>5, <1>6 DEF TypeOK, FreshInv, Fresh, Moves, ListInv, NoneInv
<1>11. HandsInv'
      BY <1>1, <1>2, <1>3, <1>4, <1>5 DEF HandsInv, Hands
<1>12. JobInv'
      BY <1>1, <1>2, <1>3, <1>4, <1>5, <1>6 DEF TypeOK, JobInv
<1>13. ClosedInv'
      BY <1>1, <1>2, <1>3, <1>4, <1>5, <1>6 DEF TypeOK, ClosedInv, ListInv
<1>14. LockInv'
      BY <1>1, <1>2, <1>3, <1>4, <1>5, <1>6 DEF TypeOK, LockInv, Moves, ScanPicks, NoScan
<1>15. LaunchInv'
  <2>1. \A k \in Jobs : state'[k] = IF k = j THEN "active" ELSE state[k]
        BY <1>1 DEF TypeOK
  <2>2. ASSUME NEW u \in Goroutines, u # t
        PROVE  /\ pc'[u] = "launch" <=> pc[u] = "launch"
               /\ pc'[u] = "launch" =>
                     /\ cur'[u] = cur[u] /\ cur[u] \in Jobs /\ cur[u] # j
                     /\ state'[cur[u]] = "active"
    <3>1. pc[u] = "launch" => state[cur[u]] = "active" /\ cur[u] \in Jobs
          BY DEF LaunchInv, HandsInv, Hands
    <3> QED
        BY <1>2, <1>5, <2>1, <2>2, <3>1
  <2>3. pc[t] # "launch"
        BY <1>1
  <2>4. ASSUME NEW u \in Goroutines, pc'[u] = "launch"
        PROVE  /\ state'[cur'[u]] = "active" /\ worker'[cur'[u]] = "none"
               /\ u \in Clickers \/ (mu' = u /\ cur'[u] \in Listed')
               /\ \A v \in Goroutines : pc'[v] = "launch" /\ cur'[v] = cur'[u] => v = u
    <3>1. CASE u = t
          BY <1>1, <1>2, <1>3, <1>4, <1>6, <2>1, <2>2, <3>1
    <3>2. CASE u # t
          BY <1>1, <1>3, <1>4, <2>2, <2>4, <3>2 DEF LaunchInv
    <3> QED
        BY <3>1, <3>2
  <2>5. ASSUME NEW k \in Jobs, state'[k] = "active", worker'[k] = "none"
        PROVE  \E u \in Goroutines : pc'[u] = "launch" /\ cur'[u] = k
    <3>1. CASE k = j
          BY <1>3, <3>1
    <3>2. CASE k # j
      <4>1. PICK u \in Goroutines : pc[u] = "launch" /\ cur[u] = k
            BY <1>1, <2>1, <2>5, <3>2 DEF LaunchInv
      <4> QED
          BY <2>2, <2>3, <4>1
    <3> QED
        BY <3>1, <3>2
  <2> QED
      BY <2>4, <2>5 DEF LaunchInv
<1> QED
    BY <1>7, <1>8, <1>9, <1>10, <1>11, <1>12, <1>13, <1>14, <1>15

\* Job.Close of a job that is off the list.
LEMMA CloseJobInv ==
    ASSUME CoreInv, NEW t \in Goroutines, CloseJob(t)
    PROVE  CoreInv'
<1> USE DEF CoreInv
<1>1. /\ pc[t] = "close" /\ closed' = [closed EXCEPT ![cur[t]] = TRUE]
      /\ UNCHANGED <<jobs, pages, serverClosed, maxConcurrent, mu, scan>>
      /\ UNCHANGED <<state, cancelFn, stopped, worker, watchdog, files>>
      BY DEF CloseJob, listVars, lockVars
<1>2. /\ \A u \in Goroutines :
            /\ Elements(todo'[u]) \subseteq Elements(todo[u])
            /\ cur'[u] = cur[u] \/ cur'[u] \in Elements(todo[u]) \/ cur'[u] = NoJob
            /\ u = t \/ (cur'[u] = cur[u] /\ pc'[u] = pc[u])
      /\ pc'[t] \in {"idle", "unlist", "close", "remove"} /\ Moves(t)
      /\ pc'[t] # "idle" => cur'[t] \in Jobs
      /\ pc'[t] = "close" => Listed = {}
      /\ pc'[t] = "remove" => cur'[t] = cur[t]
      /\ todo'[t] # <<>> => todo[t] # <<>>
      /\ NoJob \notin Jobs
  <2>1. CASE Finish(t)
        BY <2>1, LeaveFacts, NoJobIsNone, ListedElements DEF ListInv
  <2>2. CASE Take(t, cur[t], "remove")
    <3>1. cur[t] \in Jobs
          BY <1>1 DEF HandsInv, Hands
    <3>2. Moves(t) /\ pc'[t] = "remove" /\ cur'[t] = cur[t] /\ todo' = todo
          BY <2>2, <3>1, TakeFacts DEF Labels
    <3> QED
        BY <3>1, <3>2, NoJobIsNone DEF Moves
  <2> QED
      BY <2>1, <2>2 DEF CloseJob
<1>3. UNCHANGED Listed
      BY <1>1, ListedElements
<1>4. cur[t] \in Jobs \ Listed /\ state[cur[t]] # "none"
      BY <1>1 DEF HandsInv, Hands, NoneInv
<1>5. TypeOK'
      BY <1>1, <1>2, <1>3, <1>4 DEF TypeOK, NoScan, Moves, Labels
<1>6. ListInv'
      BY <1>1, <1>2, <1>3, <1>4 DEF TypeOK, ListInv
<1>7. NoneInv'
      BY <1>1, <1>2, <1>4 DEF NoneInv, TypeOK
<1>8. FreshInv'
  <2> SUFFICES ASSUME NEW a \in Goroutines, pc'[a] = "adding"
               PROVE  Fresh(a)'
      BY DEF FreshInv, Fresh
  <2>1. a # t /\ pc[a] = "adding" /\ cur'[a] = cur[a]
        BY <1>1, <1>2
  <2> QED
      BY <1>1, <1>2, <1>4, <2>1 DEF FreshInv, Fresh, TypeOK
<1>9. HandsInv'
      BY <1>1, <1>2, <1>3, <1>4 DEF TypeOK, HandsInv, Hands, Moves
<1>10. JobInv'
      BY <1>1, <1>2, <1>3, <1>4 DEF TypeOK, JobInv
<1>11. ClosedInv'
      BY <1>1, <1>2, <1>3, <1>4 DEF TypeOK, ClosedInv, ListInv
<1>12. LockInv'
      BY <1>1, <1>2, <1>3, <1>4 DEF TypeOK, LockInv, Moves, ScanPicks, NoScan
<1>13. LaunchInv'
  <2>1. ASSUME NEW u \in Goroutines
        PROVE  /\ pc'[u] = "launch" <=> pc[u] = "launch"
               /\ pc[u] = "launch" => cur'[u] = cur[u]
        BY <1>1, <1>2
  <2> QED
      BY <1>1, <1>3, <2>1 DEF LaunchInv
<1> QED
    BY <1>5, <1>6, <1>7, <1>8, <1>9, <1>10, <1>11, <1>12, <1>13

\* The files of a closed job are removed.
LEMMA RemoveAllInv ==
    ASSUME CoreInv, NEW t \in Goroutines, RemoveAll(t)
    PROVE  CoreInv'
<1> USE DEF CoreInv
<1>1. /\ pc[t] = "remove" /\ files' = [files EXCEPT ![cur[t]] = "removed"]
      /\ UNCHANGED <<jobs, pages, serverClosed, maxConcurrent, mu, scan>>
      /\ UNCHANGED <<state, cancelFn, closed, stopped, worker, watchdog>>
      BY DEF RemoveAll, listVars, lockVars
<1>2. /\ \A u \in Goroutines :
            /\ Elements(todo'[u]) \subseteq Elements(todo[u])
            /\ cur'[u] = cur[u] \/ cur'[u] \in Elements(todo[u]) \/ cur'[u] = NoJob
            /\ u = t \/ (cur'[u] = cur[u] /\ pc'[u] = pc[u])
      /\ pc'[t] \in {"idle", "unlist", "close"} /\ Moves(t)
      /\ pc'[t] # "idle" => cur'[t] \in Jobs
      /\ pc'[t] = "close" => Listed = {}
      /\ todo'[t] # <<>> => todo[t] # <<>>
      /\ NoJob \notin Jobs
      BY LeaveFacts, NoJobIsNone, ListedElements DEF ListInv, RemoveAll
<1>3. UNCHANGED Listed
      BY <1>1, ListedElements
<1>4. cur[t] \in Jobs /\ state[cur[t]] # "none" /\ closed[cur[t]]
      BY <1>1 DEF HandsInv, Hands, NoneInv
<1>5. TypeOK'
      BY <1>1, <1>2, <1>3, <1>4 DEF TypeOK, NoScan, Moves, Labels
<1>6. ListInv'
      BY <1>1, <1>2, <1>3, <1>4 DEF TypeOK, ListInv
<1>7. NoneInv'
      BY <1>1, <1>2, <1>4 DEF NoneInv, TypeOK
<1>8. FreshInv'
  <2> SUFFICES ASSUME NEW a \in Goroutines, pc'[a] = "adding"
               PROVE  Fresh(a)'
      BY DEF FreshInv, Fresh
  <2>1. a # t /\ pc[a] = "adding" /\ cur'[a] = cur[a]
        BY <1>1, <1>2
  <2>2. Fresh(a)
        BY DEF FreshInv
  <2>3. /\ cur[a] \in Jobs \ pages
        /\ \A u \in Goroutines : (u # a => cur[u] # cur[a]) /\ cur[a] \notin Elements(todo[u])
        BY <2>1, <2>2 DEF Fresh
  <2>4. ASSUME NEW u \in Goroutines
        PROVE  (u # a => cur'[u] # cur[a]) /\ cur[a] \notin Elements(todo'[u])
        BY <1>2, <2>3
  <2> QED
      BY <1>1, <2>1, <2>2, <2>4 DEF Fresh
<1>9. HandsInv'
      BY <1>1, <1>2, <1>3, <1>4 DEF TypeOK, HandsInv, Hands, Moves
<1>10. JobInv'
      BY <1>1, <1>2, <1>3, <1>4 DEF TypeOK, JobInv
<1>11. ClosedInv'
      BY <1>1, <1>2, <1>3, <1>4 DEF TypeOK, ClosedInv, ListInv
<1>12. LockInv'
      BY <1>1, <1>2, <1>3, <1>4 DEF TypeOK, LockInv, Moves, ScanPicks, NoScan
<1>13. LaunchInv'
  <2>1. ASSUME NEW u \in Goroutines
        PROVE  /\ pc'[u] = "launch" <=> pc[u] = "launch"
               /\ pc[u] = "launch" => cur'[u] = cur[u]
        BY <1>1, <1>2
  <2> QED
      BY <1>1, <1>3, <2>1 DEF LaunchInv
<1> QED
    BY <1>5, <1>6, <1>7, <1>8, <1>9, <1>10, <1>11, <1>12, <1>13

\* The rest of Start: the worker and the watchdog run.
LEMMA LaunchStepInv ==
    ASSUME CoreInv, NEW t \in Goroutines, Launch(t)
    PROVE  CoreInv'
<1> USE DEF CoreInv
<1>1. /\ pc[t] = "launch" /\ cancelFn' = [cancelFn EXCEPT ![cur[t]] = TRUE]
      /\ worker' = [worker EXCEPT ![cur[t]] = "run"]
      /\ watchdog' = [watchdog EXCEPT ![cur[t]] = "wait"]
      /\ UNCHANGED <<jobs, pages, serverClosed, maxConcurrent>>
      /\ UNCHANGED <<state, closed, stopped, files>>
      BY DEF Launch, listVars
<1>2. /\ \A u \in Goroutines :
            /\ Elements(todo'[u]) \subseteq Elements(todo[u])
            /\ cur'[u] = cur[u] \/ cur'[u] \in Elements(todo[u]) \/ cur'[u] = NoJob
            /\ u = t \/ (cur'[u] = cur[u] /\ pc'[u] = pc[u])
      /\ pc'[t] \in {"idle", "unlist", "close"} /\ Moves(t)
      /\ pc'[t] # "idle" => cur'[t] \in Jobs
      /\ pc'[t] = "close" => Listed = {}
      /\ todo'[t] # <<>> => todo[t] # <<>>
      /\ NoJob \notin Jobs
      BY LeaveFacts, NoJobIsNone, ListedElements DEF ListInv, Launch
<1>3. UNCHANGED Listed
      BY <1>1, ListedElements
<1>4. \/ mu # t /\ UNCHANGED <<mu, scan>>
      \/ mu = t /\ mu' = "free" /\ scan' = NoScan
      BY DEF Launch, lockVars, Unlock
<1>5. /\ cur[t] \in Jobs /\ state[cur[t]] = "active" /\ worker[cur[t]] = "none"
      /\ stopped[cur[t]] = "zero" /\ watchdog[cur[t]] = "none"
  <2>1. cur[t] \in Jobs /\ state[cur[t]] = "active" /\ worker[cur[t]] = "none"
        BY <1>1 DEF HandsInv, Hands, LaunchInv
  <2> QED
      BY <2>1 DEF JobInv, TypeOK
<1>6. TypeOK'
      BY <1>1, <1>2, <1>3, <1>4, <1>5 DEF TypeOK, NoScan, Moves, Labels
<1>7. ListInv'
      BY <1>1, <1>2, <1>3, <1>4, <1>5 DEF TypeOK, ListInv
<1>8. NoneInv'
      BY <1>1, <1>2, <1>5 DEF NoneInv, TypeOK
<1>9. FreshInv'
  <2> SUFFICES ASSUME NEW a \in Goroutines, pc'[a] = "adding"
               PROVE  Fresh(a)'
      BY DEF FreshInv, Fresh
  <2>1. a # t /\ pc[a] = "adding" /\ cur'[a] = cur[a]
        BY <1>1, <1>2
  <2>2. Fresh(a)
        BY DEF FreshInv
  <2>3. \A u \in Goroutines : /\ u # a => cur'[u] # cur[a]
                             /\ cur[a] \notin Elements(todo'[u])
        BY <1>2, <2>1, <2>2 DEF Fresh
  <2> QED
      BY <1>1, <2>1, <2>2, <2>3 DEF Fresh
<1>10. HandsInv'
      BY <1>1, <1>2, <1>3, <1>4, <1>5 DEF TypeOK, HandsInv, Hands, Moves
<1>11. JobInv'
      BY <1>1, <1>2, <1>3, <1>4, <1>5 DEF TypeOK, JobInv
<1>12. ClosedInv'
      BY <1>1, <1>2, <1>3, <1>4, <1>5 DEF TypeOK, ClosedInv, ListInv
<1>13. LockInv'
      BY <1>1, <1>2, <1>3, <1>4, <1>5 DEF TypeOK, LockInv, Moves, ScanPicks, NoScan
<1>14. LaunchInv'
  <2>1. ASSUME NEW u \in Goroutines
        PROVE  /\ pc'[u] = "launch" => pc[u] = "launch" /\ u # t
               /\ pc[u] = "launch" /\ u # t => pc'[u] = "launch" /\ cur[u] # cur[t]
               /\ u # t => cur'[u] = cur[u]
        BY <1>1, <1>2 DEF LaunchInv
  <2>2. ASSUME NEW u \in Goroutines, pc[u] = "launch", u # t
        PROVE  worker'[cur[u]] = worker[cur[u]] /\ (mu = u => mu' = u)
        BY <1>1, <1>4, <2>1, <2>2 DEF HandsInv, Hands, TypeOK
  <2>3. \A k \in Jobs : worker'[k] = "none" => worker[k] = "none" /\ k # cur[t]
        BY <1>1, <1>5 DEF TypeOK
  <2>4. ASSUME NEW u \in Goroutines, pc'[u] = "launch"
        PROVE  /\ state'[cur'[u]] = "active" /\ worker'[cur'[u]] = "none"
               /\ u \in Clickers \/ (mu' = u /\ cur'[u] \in Listed')
               /\ \A v \in Goroutines : pc'[v] = "launch" /\ cur'[v] = cur'[u] => v = u
        BY <1>1, <1>3, <2>1, <2>2, <2>4 DEF LaunchInv
  <2>5. ASSUME NEW k \in Jobs, state'[k] = "active", worker'[k] = "none"
        PROVE  \E u \in Goroutines : pc'[u] = "launch" /\ cur'[u] = k
    <3>1. PICK u \in Goroutines : pc[u] = "launch" /\ cur[u] = k
          BY <1>1, <2>3, <2>5 DEF LaunchInv
    <3> QED
        BY <2>1, <2>3, <2>5, <3>1
  <2> QED
      BY <2>4, <2>5 DEF LaunchInv
<1> QED
    BY <1>6, <1>7, <1>8, <1>9, <1>10, <1>11, <1>12, <1>13, <1>14

\* uiMaxConcurrent.JawsSet
LEMMA SetMaxConcurrentInv ==
    ASSUME CoreInv, NEW n \in Limits, SetMaxConcurrent(n)
    PROVE  CoreInv'
<1> USE DEF CoreInv
<1>1. /\ mu = "free" /\ maxConcurrent' = n
      /\ UNCHANGED <<jobs, pages, serverClosed, mu, scan, pc, cur, todo>>
      BY DEF SetMaxConcurrent, lockVars, goVars
<1>2. UNCHANGED <<state, cancelFn, closed, stopped, worker, watchdog, files>>
      BY DEF SetMaxConcurrent, jobVars
<1>3. UNCHANGED Listed
      BY <1>1, ListedElements
<1>4. \A u \in Goroutines : u # mu
      BY <1>1, GoroutineAssumption
<1>5. TypeOK'
      BY <1>1, <1>2, <1>3, <1>4 DEF TypeOK, NoScan, Moves, Labels
<1>6. ListInv'
      BY <1>1, <1>2, <1>3, <1>4 DEF TypeOK, ListInv
<1>7. NoneInv'
      BY <1>1, <1>2, <1>3, <1>4 DEF TypeOK, NoneInv, Moves
<1>8. FreshInv'
      BY <1>1, <1>2, <1>3, <1>4 DEF TypeOK, FreshInv, Fresh, Moves, ListInv, NoneInv
<1>9. HandsInv'
      BY <1>1, <1>2, <1>3, <1>4 DEF TypeOK, HandsInv, Hands, Moves
<1>10. JobInv'
      BY <1>1, <1>2, <1>3, <1>4 DEF TypeOK, JobInv
<1>11. ClosedInv'
      BY <1>1, <1>2, <1>3, <1>4 DEF TypeOK, ClosedInv, ListInv
<1>12. LockInv'
      BY <1>1, <1>2, <1>3, <1>4 DEF TypeOK, LockInv, Moves, ScanPicks, NoScan
<1>13. LaunchInv'
      BY <1>1, <1>2, <1>3, <1>4 DEF TypeOK, LaunchInv, Moves
<1> QED
    BY <1>5, <1>6, <1>7, <1>8, <1>9, <1>10, <1>11, <1>12, <1>13

\* The worker is through.
LEMMA WorkerEndsInv ==
    ASSUME CoreInv, NEW j \in Jobs, WorkerEnds(j)
    PROVE  CoreInv'
<1> USE DEF CoreInv
<1>1. /\ UNCHANGED <<jobs, pages, serverClosed, maxConcurrent, mu, scan, pc, cur, todo>>
      /\ UNCHANGED <<cancelFn, closed, stopped, watchdog, files>>
      /\ worker[j] = "run" /\ worker' = [worker EXCEPT ![j] = "ended"]
      /\ \E result \in {"finished", "failed"} : state' = [state EXCEPT ![j] = result]
      BY DEF WorkerEnds, AfterDone, LeftToOthers, listVars, lockVars, goVars
<1>2. UNCHANGED Listed
      BY <1>1, ListedElements
<1>3. TypeOK'
      BY <1>1, <1>2 DEF TypeOK, NoScan, Moves, Labels
<1>4. ListInv'
      BY <1>1, <1>2 DEF TypeOK, ListInv, JobInv
<1>5. NoneInv'
      BY <1>1 DEF TypeOK, NoneInv, JobInv
<1>6. FreshInv'
  <2> SUFFICES ASSUME NEW a \in Goroutines, pc[a] = "adding"
               PROVE  Fresh(a)'
      BY <1>1 DEF FreshInv, Fresh
  <2>1. Fresh(a) /\ worker[cur[a]] = "none" /\ watchdog[cur[a]] = "none" /\ cur[a] \in Jobs
        BY DEF FreshInv, Fresh, JobInv
  <2> QED
      BY <1>1, <1>2, <2>1 DEF Fresh, TypeOK
<1>7. HandsInv'
      BY <1>1, <1>2 DEF TypeOK, HandsInv, Hands
<1>8. JobInv'
      BY <1>1, <1>2 DEF TypeOK, JobInv
<1>9. ClosedInv'
      BY <1>1, <1>2 DEF TypeOK, ClosedInv, ListInv
<1>10. LockInv'
      BY <1>1, <1>2 DEF TypeOK, LockInv, ScanPicks
<1>11. LaunchInv'
      BY <1>1, <1>2 DEF TypeOK, LaunchInv, JobInv, HandsInv, Hands
<1> QED
    BY <1>3, <1>4, <1>5, <1>6, <1>7, <1>8, <1>9, <1>10, <1>11

\* processDone
LEMMA ProcessDoneInv ==
    ASSUME CoreInv, NEW j \in Jobs, ProcessDone(j)
    PROVE  CoreInv'
<1> USE DEF CoreInv
<1>1. /\ UNCHANGED <<jobs, pages, serverClosed, maxConcurrent, mu, scan, pc, cur, todo>>
      /\ UNCHANGED <<state, closed, watchdog, files>>
      /\ worker[j] = "ended" /\ stopped' = [stopped EXCEPT ![j] = "recent"]
      /\ cancelFn' = [cancelFn EXCEPT ![j] = FALSE]
      /\ worker' = [worker EXCEPT ![j] = IF closed[j] THEN "remove" ELSE "exited"]
      BY DEF ProcessDone, AfterDone, LeftToOthers, listVars, lockVars, goVars
<1>2. UNCHANGED Listed
      BY <1>1, ListedElements
<1>3. TypeOK'
      BY <1>1, <1>2 DEF TypeOK, NoScan, Moves, Labels
<1>4. ListInv'
      BY <1>1, <1>2 DEF TypeOK, ListInv, JobInv
<1>5. NoneInv'
      BY <1>1 DEF TypeOK, NoneInv, JobInv
<1>6. FreshInv'
  <2> SUFFICES ASSUME NEW a \in Goroutines, pc[a] = "adding"
               PROVE  Fresh(a)'
      BY <1>1 DEF FreshInv, Fresh
  <2>1. Fresh(a) /\ worker[cur[a]] = "none" /\ watchdog[cur[a]] = "none" /\ cur[a] \in Jobs
        BY DEF FreshInv, Fresh, JobInv
  <2> QED
      BY <1>1, <1>2, <2>1 DEF Fresh, TypeOK
<1>7. HandsInv'
      BY <1>1, <1>2 DEF TypeOK, HandsInv, Hands
<1>8. JobInv'
      BY <1>1, <1>2 DEF TypeOK, JobInv
<1>9. ClosedInv'
      BY <1>1, <1>2 DEF TypeOK, ClosedInv, ListInv
<1>10. LockInv'
      BY <1>1, <1>2 DEF TypeOK, LockInv, ScanPicks
<1>11. LaunchInv'
      BY <1>1, <1>2 DEF TypeOK, LaunchInv, JobInv, HandsInv, Hands
<1> QED
    BY <1>3, <1>4, <1>5, <1>6, <1>7, <1>8, <1>9, <1>10, <1>11

\* The worker removes the files of a closed job.
LEMMA WorkerRemovesInv ==
    ASSUME CoreInv, NEW j \in Jobs, WorkerRemoves(j)
    PROVE  CoreInv'
<1> USE DEF CoreInv
<1>1. /\ UNCHANGED <<jobs, pages, serverClosed, maxConcurrent, mu, scan, pc, cur, todo>>
      /\ UNCHANGED <<state, cancelFn, closed, stopped, watchdog>>
      /\ worker[j] = "remove" /\ worker' = [worker EXCEPT ![j] = "exited"]
      /\ files' = [files EXCEPT ![j] = "removed"]
      BY DEF WorkerRemoves, AfterDone, LeftToOthers, listVars, lockVars, goVars
<1>2. UNCHANGED Listed
      BY <1>1, ListedElements
<1>3. TypeOK'
      BY <1>1, <1>2 DEF TypeOK, NoScan, Moves, Labels
<1>4. ListInv'
      BY <1>1, <1>2 DEF TypeOK, ListInv, JobInv
<1>5. NoneInv'
      BY <1>1 DEF TypeOK, NoneInv, JobInv
<1>6. FreshInv'
  <2> SUFFICES ASSUME NEW a \in Goroutines, pc[a] = "adding"
               PROVE  Fresh(a)'
      BY <1>1 DEF FreshInv, Fresh
  <2>1. Fresh(a) /\ worker[cur[a]] = "none" /\ watchdog[cur[a]] = "none" /\ cur[a] \in Jobs
        BY DEF FreshInv, Fresh, JobInv
  <2> QED
      BY <1>1, <1>2, <2>1 DEF Fresh, TypeOK
<1>7. HandsInv'
      BY <1>1, <1>2 DEF TypeOK, HandsInv, Hands
<1>8. JobInv'
      BY <1>1, <1>2 DEF TypeOK, JobInv
<1>9. ClosedInv'
      BY <1>1, <1>2 DEF TypeOK, ClosedInv, ListInv
<1>10. LockInv'
      BY <1>1, <1>2 DEF TypeOK, LockInv, ScanPicks
<1>11. LaunchInv'
      BY <1>1, <1>2 DEF TypeOK, LaunchInv, JobInv, HandsInv, Hands
<1> QED
    BY <1>3, <1>4, <1>5, <1>6, <1>7, <1>8, <1>9, <1>10, <1>11

\* The watchdog closes its job.
LEMMA WatchdogClosesInv ==
    ASSUME CoreInv, NEW j \in Jobs, WatchdogCloses(j)
    PROVE  CoreInv'
<1> USE DEF CoreInv
<1>1. /\ UNCHANGED <<jobs, pages, serverClosed, maxConcurrent, mu, scan, pc, cur, todo>>
      /\ UNCHANGED <<state, cancelFn, stopped, worker, files>>
      /\ watchdog[j] = "wait" /\ TimeoutSec > 0 /\ closed' = [closed EXCEPT ![j] = TRUE]
      /\ watchdog' = [watchdog EXCEPT ![j] =
                        IF cancelFn[j] \/ closed[j] THEN "wait" ELSE "remove"]
      BY DEF WatchdogCloses, AfterDone, LeftToOthers, listVars, lockVars, goVars
<1>2. UNCHANGED Listed
      BY <1>1, ListedElements
<1>3. TypeOK'
      BY <1>1, <1>2 DEF TypeOK, NoScan, Moves, Labels
<1>4. ListInv'
      BY <1>1, <1>2 DEF TypeOK, ListInv, JobInv
<1>5. NoneInv'
      BY <1>1 DEF TypeOK, NoneInv, JobInv
<1>6. FreshInv'
  <2> SUFFICES ASSUME NEW a \in Goroutines, pc[a] = "adding"
               PROVE  Fresh(a)'
      BY <1>1 DEF FreshInv, Fresh
  <2>1. Fresh(a) /\ worker[cur[a]] = "none" /\ watchdog[cur[a]] = "none" /\ cur[a] \in Jobs
        BY DEF FreshInv, Fresh, JobInv
  <2> QED
      BY <1>1, <1>2, <2>1 DEF Fresh, TypeOK
<1>7. HandsInv'
      BY <1>1, <1>2 DEF TypeOK, HandsInv, Hands
<1>8. JobInv'
      BY <1>1, <1>2 DEF TypeOK, JobInv
<1>9. ClosedInv'
      BY <1>1, <1>2 DEF TypeOK, ClosedInv, ListInv
<1>10. LockInv'
      BY <1>1, <1>2 DEF TypeOK, LockInv, ScanPicks
<1>11. LaunchInv'
      BY <1>1, <1>2 DEF TypeOK, LaunchInv, JobInv, HandsInv, Hands
<1> QED
    BY <1>3, <1>4, <1>5, <1>6, <1>7, <1>8, <1>9, <1>10, <1>11

\* The watchdog removes the files of the job it closed.
LEMMA WatchdogRemovesInv ==
    ASSUME CoreInv, NEW j \in Jobs, WatchdogRemoves(j)
    PROVE  CoreInv'
<1> USE DEF CoreInv
<1>1. /\ UNCHANGED <<jobs, pages, serverClosed, maxConcurrent, mu, scan, pc, cur, todo>>
      /\ UNCHANGED <<state, cancelFn, closed, stopped, worker>>
      /\ watchdog[j] = "remove" /\ watchdog' = [watchdog EXCEPT ![j] = "wait"]
      /\ files' = [files EXCEPT ![j] = "removed"]
      BY DEF WatchdogRemoves, AfterDone, LeftToOthers, listVars, lockVars, goVars
<1>2. UNCHANGED Listed
      BY <1>1, ListedElements
<1>3. TypeOK'
      BY <1>1, <1>2 DEF TypeOK, NoScan, Moves, Labels
<1>4. ListInv'
      BY <1>1, <1>2 DEF TypeOK, ListInv, JobInv
<1>5. NoneInv'
      BY <1>1 DEF TypeOK, NoneInv, JobInv
<1>6. FreshInv'
  <2> SUFFICES ASSUME NEW a \in Goroutines, pc[a] = "adding"
               PROVE  Fresh(a)'
      BY <1>1 DEF FreshInv, Fresh
  <2>1. Fresh(a) /\ worker[cur[a]] = "none" /\ watchdog[cur[a]] = "none" /\ cur[a] \in Jobs
        BY DEF FreshInv, Fresh, JobInv
  <2> QED
      BY <1>1, <1>2, <2>1 DEF Fresh, TypeOK
<1>7. HandsInv'
      BY <1>1, <1>2 DEF TypeOK, HandsInv, Hands
<1>8. JobInv'
      BY <1>1, <1>2 DEF TypeOK, JobInv
<1>9. ClosedInv'
      BY <1>1, <1>2 DEF TypeOK, ClosedInv, ListInv
<1>10. LockInv'
      BY <1>1, <1>2 DEF TypeOK, LockInv, ScanPicks
<1>11. LaunchInv'
      BY <1>1, <1>2 DEF TypeOK, LaunchInv, JobInv, HandsInv, Hands
<1> QED
    BY <1>3, <1>4, <1>5, <1>6, <1>7, <1>8, <1>9, <1>10, <1>11

\* CleanupSec goes by.
LEMMA StoppedAgesInv ==
    ASSUME CoreInv, NEW j \in Jobs, StoppedAges(j)
    PROVE  CoreInv'
<1> USE DEF CoreInv
<1>1. /\ UNCHANGED <<jobs, pages, serverClosed, maxConcurrent, mu, scan, pc, cur, todo>>
      /\ UNCHANGED <<state, cancelFn, closed, worker, watchdog, files>>
      /\ stopped[j] = "recent" /\ stopped' = [stopped EXCEPT ![j] = "old"]
      BY DEF StoppedAges, AfterDone, LeftToOthers, listVars, lockVars, goVars
<1>2. UNCHANGED Listed
      BY <1>1, ListedElements
<1>3. TypeOK'
      BY <1>1, <1>2 DEF TypeOK, NoScan, Moves, Labels
<1>4. ListInv'
      BY <1>1, <1>2 DEF TypeOK, ListInv, JobInv
<1>5. NoneInv'
      BY <1>1 DEF TypeOK, NoneInv, JobInv
<1>6. FreshInv'
  <2> SUFFICES ASSUME NEW a \in Goroutines, pc[a] = "adding"
               PROVE  Fresh(a)'
      BY <1>1 DEF FreshInv, Fresh
  <2>1. Fresh(a) /\ worker[cur[a]] = "none" /\ watchdog[cur[a]] = "none" /\ cur[a] \in Jobs
        BY DEF FreshInv, Fresh, JobInv
  <2> QED
      BY <1>1, <1>2, <2>1 DEF Fresh, TypeOK
<1>7. HandsInv'
      BY <1>1, <1>2 DEF TypeOK, HandsInv, Hands
<1>8. JobInv'
      BY <1>1, <1>2 DEF TypeOK, JobInv
<1>9. ClosedInv'
      BY <1>1, <1>2 DEF TypeOK, ClosedInv, ListInv
<1>10. LockInv'
      BY <1>1, <1>2 DEF TypeOK, LockInv, ScanPicks
<1>11. LaunchInv'
      BY <1>1, <1>2 DEF TypeOK, LaunchInv, JobInv, HandsInv, Hands
<1> QED
    BY <1>3, <1>4, <1>5, <1>6, <1>7, <1>8, <1>9, <1>10, <1>11

\* A service without jobs satisfies the invariant.
LEMMA InitInv ==
    Init => CoreInv
<1> SUFFICES ASSUME Init PROVE CoreInv
    OBVIOUS
<1> USE DEF Init
<1>1. Listed = {} /\ Elements(<<>>) = {} /\ DOMAIN jobs = {} /\ NoJob \notin Jobs
      BY ListedElements, NoJobIsNone
<1>2. TypeOK
  <2>1. NoScan \in [pos : Nat \ {0}, running : Nat, next : Jobs \union {NoJob}]
        BY DEF NoScan
  <2>2. <<>> \in Seq(Jobs)
        OBVIOUS
  <2> QED
      BY <2>1, <2>2 DEF TypeOK
<1>3. ListInv /\ ClosedInv
      BY <1>1 DEF ListInv, ClosedInv
<1>4. NoneInv
      BY <1>1 DEF NoneInv
<1>5. FreshInv /\ HandsInv
      BY DEF FreshInv, Fresh, HandsInv, Hands
<1>6. JobInv
      BY DEF JobInv
<1>7. LockInv /\ LaunchInv
      BY <1>1 DEF LockInv, LaunchInv, NoScan
<1> QED
    BY <1>2, <1>3, <1>4, <1>5, <1>6, <1>7 DEF CoreInv

\* Every step of the service preserves it.
LEMMA StepInv ==
    CoreInv /\ [Next]_vars => CoreInv'
<1> SUFFICES ASSUME CoreInv, [Next]_vars PROVE CoreInv'
    OBVIOUS
<1>1. \A j \in Listed : j \in Jobs /\ j \in pages /\ state[j] # "none"
      BY DEF CoreInv, TypeOK, ListInv
<1>2. \A u \in Goroutines :
         /\ pc[u] = "adding" => cur[u] \notin pages
         /\ pc[u] \notin {"idle", "scan", "start"} => cur[u] \in Jobs /\ state[cur[u]] # "none"
      BY DEF CoreInv, FreshInv, Fresh, HandsInv, Hands, NoneInv
<1>3. ASSUME NEW t \in Goroutines, pc[t] = "adding", GiveUp(t),
             UNCHANGED <<listVars, lockVars, jobVars>>
      PROVE  CoreInv'
  <2>1. CASE Finish(t)
        BY <1>3, <2>1, LeaveInv
  <2>2. CASE Take(t, cur[t], "close")
    <3>1. /\ cur[t] \in Jobs /\ state[cur[t]] # "none" /\ cur[t] \notin Listed
          /\ \A u \in Goroutines : u # t /\ pc[u] = "adding" => cur[u] # cur[t]
          BY <1>1, <1>2, <1>3 DEF CoreInv, FreshInv, Fresh
    <3> QED
        BY <1>3, <2>2, <3>1, HandOverInv
  <2> QED
      BY <1>3, <2>1, <2>2 DEF GiveUp
<1>4. ASSUME NEW t \in Goroutines, NEW j \in pages, pc[t] = "idle",
             Take(t, j, "unlist") \/ Take(t, j, "found"),
             UNCHANGED <<listVars, lockVars, jobVars>>
      PROVE  CoreInv'
  <2>1. j \in Jobs /\ state[j] # "none"
        BY DEF CoreInv, TypeOK, ListInv
  <2>2. \A u \in Goroutines : u # t /\ pc[u] = "adding" => cur[u] # j
        BY <1>2
  <2> QED
      BY <1>4, <2>1, <2>2, HandOverInv
<1>5. ASSUME NEW t \in Goroutines, NEW j \in Jobs,
             NewJob(t, j) \/ Delete(t, j) \/ Click(t, j) \/ Find(t, j)
      PROVE  CoreInv'
  <2>1. CASE NewJob(t, j)
        BY <2>1, NewJobInv
  <2>2. CASE Delete(t, j)
        BY <1>1, <1>4, <2>2 DEF Delete
  <2>3. CASE Find(t, j)
        BY <1>1, <1>4, <2>3 DEF Find
  <2>4. CASE Click(t, j)
    <3>1. CASE state[j] = "new"
          BY <2>4, <3>1, StartInv DEF Click
    <3>2. CASE state[j] # "new"
          BY <1>4, <2>4, <3>2 DEF Click, jobVars
    <3> QED
        BY <3>1, <3>2
  <2> QED
      BY <1>5, <2>1, <2>2, <2>3, <2>4
<1>6. ASSUME NEW t \in Goroutines, AddJob(t) PROVE CoreInv'
  <2>1. CASE Accepts(cur[t])
    <3>1. pc'[t] = "scan"
          BY <1>6, <2>1 DEF AddJob, Goto, CoreInv, TypeOK
    <3> QED
        BY <1>6, <2>1, <3>1, AcceptInv
  <2>2. CASE ~Accepts(cur[t])
        BY <1>3, <1>6, <2>2 DEF AddJob, listVars
  <2> QED
      BY <2>1, <2>2
<1>7. ASSUME NEW t \in Goroutines, UploadFails(t) PROVE CoreInv'
      BY <1>3, <1>7 DEF UploadFails
<1>8. ASSUME NEW t \in Goroutines, ScanEndsIdle(t) PROVE CoreInv'
  <2>1. mu = t
        BY <1>8 DEF ScanEndsIdle, CoreInv, LockInv
  <2> QED
      BY <1>8, <2>1, LeaveInv DEF ScanEndsIdle
<1>9. ASSUME NEW t \in Goroutines, StartNext(t) PROVE CoreInv'
  <2>1. pc[t] = "start" /\ mu = t /\ scan.next \in Listed
        BY <1>9 DEF StartNext, CoreInv, LockInv, ScanPicks
  <2>2. CASE state[scan.next] = "new"
        BY <1>1, <1>9, <2>1, <2>2, StartInv DEF StartNext
  <2>3. CASE state[scan.next] # "new"
        BY <1>9, <2>1, <2>3, LeaveInv DEF StartNext, jobVars
  <2> QED
      BY <2>2, <2>3
<1>10. ASSUME NEW t \in Goroutines,
              pc[t] \in {"found", "copying"},
              Finish(t) \/ Take(t, cur[t], "copying") \/ Take(t, cur[t], "unlist"),
              UNCHANGED <<listVars, lockVars, jobVars>>
       PROVE  CoreInv'
  <2>1. CASE Finish(t)
        BY <1>10, <2>1, LeaveInv
  <2>2. CASE Take(t, cur[t], "copying") \/ Take(t, cur[t], "unlist")
    <3>1. /\ cur[t] \in Jobs /\ state[cur[t]] # "none"
          /\ \A u \in Goroutines : u # t /\ pc[u] = "adding" => cur[u] # cur[t]
          BY <1>2, <1>10 DEF CoreInv, FreshInv, Fresh
    <3> QED
        BY <1>10, <2>2, <3>1, HandOverInv
  <2> QED
      BY <1>10, <2>1, <2>2
<1>11. ASSUME NEW t \in Goroutines, OpenResult(t) \/ Downloaded(t) \/ CopyFails(t)
       PROVE  CoreInv'
       BY <1>10, <1>11 DEF OpenResult, Downloaded, CopyFails
<1>12. ASSUME NEW t \in Goroutines, Locking(t) \/ Continue(t) PROVE CoreInv'
       BY <1>6, <1>7, <1>8, <1>9, <1>11, <1>12, UnlistInv, ScanJobInv, ScanEndsInv,
          LaunchStepInv, CloseJobInv, RemoveAllInv DEF Locking, Continue
<1>13. CASE Request
       BY <1>5, <1>13, CloseServerInv, SetMaxConcurrentInv DEF Request
<1>14. ASSUME NEW j \in Jobs, JobStep(j) \/ WatchdogCloses(j) \/ StoppedAges(j)
       PROVE  CoreInv'
       BY <1>14, WorkerEndsInv, ProcessDoneInv, WorkerRemovesInv, WatchdogRemovesInv,
          WatchdogClosesInv, StoppedAgesInv DEF JobStep
<1>15. CASE UNCHANGED vars
  <2>1. /\ UNCHANGED <<jobs, pages, serverClosed, maxConcurrent, mu, scan, pc, cur, todo>>
        /\ UNCHANGED <<state, cancelFn, closed, stopped, worker, watchdog, files>>
        BY <1>15 DEF vars, listVars, lockVars, goVars, jobVars
  <2>2. UNCHANGED Listed
        BY <2>1, ListedElements
  <2>3. TypeOK' /\ ListInv' /\ NoneInv'
        BY <2>1, <2>2 DEF CoreInv, TypeOK, ListInv, NoneInv
  <2>4. FreshInv' /\ HandsInv'
        BY <2>1, <2>2 DEF CoreInv, FreshInv, Fresh, HandsInv, Hands
  <2>5. JobInv' /\ ClosedInv' /\ LockInv' /\ LaunchInv'
        BY <2>1, <2>2 DEF CoreInv, JobInv, ClosedInv, LockInv, LaunchInv, ScanPicks
  <2> QED
      BY <2>3, <2>4, <2>5 DEF CoreInv
<1> QED
    BY <1>12, <1>13, <1>14, <1>15, TickInv DEF Next

\* What the theorems below rest on.
LEMMA Invariance ==
    SafeSpec => []CoreInv
<1> QED
    BY InitInv, StepInv, PTL DEF SafeSpec

-----------------------------------------------------------------------------
(* What follows of the invariant                                           *)

\* Whatever the goroutines do, the list holds jobs only, and every local and
\* shared variable stays in its range.
THEOREM TypeCorrect ==
    SafeSpec => []TypeOK
<1>1. CoreInv => TypeOK
      BY DEF CoreInv
<1> QED
    BY <1>1, Invariance, PTL

\* AddJob and runTasks launch no closed job, and nobody closes the job while
\* they do: RemoveJob and Rinse.Close take it off the list first, for which
\* they wait for Rinse.mu, and its watchdog does not run yet.
THEOREM LaunchesOpenJobs ==
    SafeSpec => []LaunchNotClosed
<1>1. CoreInv => LaunchNotClosed
  <2> SUFFICES ASSUME CoreInv, NEW t \in Goroutines, pc[t] = "launch", Clickers = {},
                      closed[cur[t]]
               PROVE  FALSE
      BY DEF LaunchNotClosed
  <2>1. cur[t] \in Listed /\ cur[t] \in Jobs /\ worker[cur[t]] = "none"
        BY DEF CoreInv, LaunchInv, HandsInv, Hands
  <2>2. watchdog[cur[t]] # "none"
        BY <2>1 DEF CoreInv, ClosedInv
  <2> QED
      BY <2>1, <2>2 DEF CoreInv, JobInv
<1> QED
    BY <1>1, Invariance, PTL

\* An AddJob that was under way when Rinse.Close emptied the list does not put
\* its job back.
THEOREM ClosedServerStaysEmpty ==
    SafeSpec => []ClosedServerIsEmpty
<1>1. CoreInv => ClosedServerIsEmpty
      BY DEF CoreInv, ListInv, ClosedServerIsEmpty
<1> QED
    BY <1>1, Invariance, PTL

\* Where no watchdog runs out, a finished job that is listed can be downloaded:
\* whoever removes files has taken the job off the list before.
THEOREM ListedResultsStay ==
    SafeSpec => []ListedResultIsThere
<1>1. CoreInv => ListedResultIsThere
  <2> SUFFICES ASSUME CoreInv, NEW j \in Listed, state[j] = "finished", TimeoutSec <= 0
               PROVE  files[j] = "present"
      BY DEF ListedResultIsThere
  <2>1. j \in Jobs /\ files[j] \in {"none", "present", "removed"}
        BY DEF CoreInv, TypeOK, ListInv
  <2>2. files[j] # "none" /\ (files[j] = "removed" => closed[j])
        BY <2>1 DEF CoreInv, JobInv
  <2>3. ~closed[j]
        BY SettingsAssumption DEF CoreInv, ClosedInv
  <2> QED
      BY <2>1, <2>2, <2>3
<1> QED
    BY <1>1, Invariance, PTL

-----------------------------------------------------------------------------
(* Working directories                                                     *)

\* Goroutine t still has to add, unlist or close job j.
Holds(t, j) ==
    \/ pc[t] \in {"adding", "unlist", "close"} /\ cur[t] = j
    \/ j \in Elements(todo[t])

\* Goroutine t launches job j, or removes its files.
Ends(t, j) == pc[t] \in {"launch", "remove"} /\ cur[t] = j

Working(j) == worker[j] \in {"run", "ended", "remove"}

\* The files of a closed job will be removed by its worker, its watchdog or
\* the goroutine that closed it; those of another job are listed, or held.
Owned(j) ==
    IF closed[j]
    THEN \/ Working(j) \/ watchdog[j] = "remove"
         \/ \E t \in Goroutines : Ends(t, j)
    ELSE \/ j \in Listed
         \/ \E t \in Goroutines : Holds(t, j)

OwnerInv ==
    \A j \in Jobs : files[j] = "present" /\ RestPosters = {} => Owned(j)

\* The step of goroutine t leaves job j in somebody's hands.
Keeps(t, j) ==
    /\ files[j] = "present"
    /\ closed'[j] = closed[j]
    /\ watchdog'[j] = watchdog[j]
    /\ Working(j) => Working(j)'
    /\ Ends(t, j) => Ends(t, j)' \/ Working(j)'
    /\ Holds(t, j) => Holds(t, j)' \/ j \in Listed'
    /\ j \in Listed => Holds(t, j)' \/ j \in Listed'

\* What goroutine t keeps or leaves to somebody else is owned after its step.
LEMMA KeptIsOwned ==
    ASSUME OwnerInv, NEW t \in Goroutines, Moves(t),
           \A j \in Jobs : files'[j] = "present" /\ RestPosters = {} =>
                               Owned(j)' \/ Keeps(t, j)
    PROVE  OwnerInv'
<1> SUFFICES ASSUME NEW j \in Jobs, files'[j] = "present", RestPosters = {}, Keeps(t, j)
             PROVE  Owned(j)'
    BY DEF OwnerInv
<1>1. Owned(j)
      BY DEF OwnerInv, Keeps
<1>2. ASSUME NEW u \in Goroutines, u # t
      PROVE  (Holds(u, j) => Holds(u, j)') /\ (Ends(u, j) => Ends(u, j)')
      BY <1>2 DEF Moves, Holds, Ends
<1>3. CASE closed[j]
  <2>1. CASE Working(j) \/ watchdog[j] = "remove"
        BY <1>3, <2>1 DEF Keeps, Owned
  <2>2. CASE \E u \in Goroutines : Ends(u, j)
    <3>1. PICK u \in Goroutines : Ends(u, j)
          BY <2>2
    <3>2. Ends(u, j)' \/ Working(j)'
          BY <1>2, <3>1 DEF Keeps
    <3> QED
        BY <1>3, <3>2 DEF Keeps, Owned
  <2> QED
      BY <1>1, <1>3, <2>1, <2>2 DEF Owned
<1>4. CASE ~closed[j]
  <2>1. CASE j \in Listed
        BY <1>4, <2>1 DEF Keeps, Owned
  <2>2. CASE \E u \in Goroutines : Holds(u, j)
    <3>1. PICK u \in Goroutines : Holds(u, j)
          BY <2>2
    <3>2. Holds(u, j)' \/ j \in Listed'
          BY <1>2, <3>1 DEF Keeps
    <3> QED
        BY <1>4, <3>2 DEF Keeps, Owned
  <2> QED
      BY <1>1, <1>4, <2>1, <2>2 DEF Owned
<1> QED
    BY <1>3, <1>4

\* What a goroutine has left, it still has when it turns to it.
LEMMA FinishHolds ==
    ASSUME CoreInv, NEW t \in Goroutines, Finish(t)
    PROVE  /\ Moves(t)
           /\ \A j \in Elements(todo[t]) : Holds(t, j)'
<1>1. /\ Moves(t)
      /\ \/ todo[t] = <<>>
         \/ pc'[t] \in {"unlist", "close"}
      /\ \A j \in Elements(todo[t]) : cur'[t] = j \/ j \in Elements(todo'[t])
      BY FinishFacts DEF CoreInv
<1>2. todo[t] = <<>> => Elements(todo[t]) = {}
      BY ListedElements
<1> QED
    BY <1>1, <1>2 DEF Holds

\* Every step leaves each working directory in somebody's hands.
LEMMA OwnerStep ==
    CoreInv /\ OwnerInv /\ [Next]_vars => OwnerInv'
<1> SUFFICES ASSUME CoreInv, OwnerInv, [Next]_vars PROVE OwnerInv'
    OBVIOUS
<1>1. CoreInv'
      BY StepInv
<1>2. ASSUME NEW t \in Goroutines, Finish(t),
             pc[t] \in {"scan", "start", "found", "copying"},
             UNCHANGED <<jobs, closed, worker, watchdog, files>>
      PROVE  OwnerInv'
  <2>1. UNCHANGED Listed
        BY <1>2, ListedElements
  <2>2. Moves(t) /\ \A j \in Elements(todo[t]) : Holds(t, j)'
        BY <1>2, FinishHolds
  <2>3. \A j \in Jobs : files'[j] = "present" => Keeps(t, j)
        BY <1>2, <2>1, <2>2 DEF Keeps, Holds, Ends, Working
  <2> QED
      BY <2>2, <2>3, KeptIsOwned
<1>3. ASSUME NEW t \in Goroutines, NEW j \in Jobs, NEW label \in Labels, Take(t, j, label),
             pc[t] \in {"idle", "start", "found", "copying"}
               \/ (pc[t] = "adding" /\ label = "close" /\ j = cur[t]),
             UNCHANGED <<jobs, closed, worker, watchdog, files>>
      PROVE  OwnerInv'
  <2>1. UNCHANGED Listed
        BY <1>3, ListedElements
  <2>2. Moves(t) /\ pc'[t] = label /\ cur'[t] = j /\ todo' = todo
        BY <1>3, TakeFacts DEF CoreInv
  <2>3. \A k \in Jobs : files'[k] = "present" => Keeps(t, k)
        BY <1>3, <2>1, <2>2 DEF Keeps, Holds, Ends, Working
  <2> QED
      BY <2>2, <2>3, KeptIsOwned
<1>4. \A t \in Goroutines :
         /\ pc[t] \notin {"idle", "scan", "start"} => cur[t] \in Jobs
         /\ pc[t] = "adding" => t \in Posters \union RestPosters
      BY DEF CoreInv, HandsInv, Hands, FreshInv, Fresh
<1>5. ASSUME NEW t \in Goroutines, pc[t] = "adding", GiveUp(t),
             UNCHANGED <<jobs, closed, worker, watchdog, files>>
      PROVE  OwnerInv'
  <2>1. CASE RestPosters # {}
        BY <2>1 DEF OwnerInv
  <2>2. CASE RestPosters = {}
        BY <1>3, <1>4, <1>5, <2>2 DEF GiveUp, Labels
  <2> QED
      BY <2>1, <2>2
<1>6. ASSUME NEW t \in Goroutines, Moves(t), UNCHANGED <<cur, closed, worker, watchdog, files>>,
             pc[t] = "idle" \/ pc[t] = "scan" \/ UNCHANGED pc \/ pc[t] = "adding",
             \A j \in Jobs : /\ j \in Elements(todo[t]) => j \in Elements(todo'[t])
                             /\ j \in Listed => j \in Listed',
             pc[t] = "adding" /\ pc'[t] # "adding" => cur[t] \in Listed'
      PROVE  OwnerInv'
  <2>1. \A j \in Jobs : files'[j] = "present" => Keeps(t, j)
        BY <1>6 DEF Keeps, Holds, Ends, Working
  <2> QED
      BY <1>6, <2>1, KeptIsOwned
<1>7. ASSUME NEW t \in Goroutines, NEW j \in Jobs, NewJob(t, j) PROVE OwnerInv'
  <2>1. /\ pc[t] = "idle" /\ state[j] = "none" /\ files' = [files EXCEPT ![j] = "present"]
        /\ Take(t, j, "adding") /\ UNCHANGED <<jobs, closed, worker, watchdog>>
        BY <1>7 DEF NewJob, listVars
  <2>2. Moves(t) /\ pc'[t] = "adding" /\ cur'[t] = j /\ todo' = todo
        BY <2>1, TakeFacts DEF Labels, CoreInv
  <2>3. ~closed'[j] /\ UNCHANGED Listed
        BY <2>1, ListedElements DEF CoreInv, NoneInv
  <2>4. Owned(j)'
        BY <2>2, <2>3 DEF Owned, Holds
  <2>5. ASSUME NEW k \in Jobs, k # j, files'[k] = "present" PROVE Keeps(t, k)
        BY <2>1, <2>2, <2>3, <2>5 DEF Keeps, Holds, Ends, Working, CoreInv, TypeOK
  <2> QED
      BY <2>2, <2>4, <2>5, KeptIsOwned
<1>8. ASSUME NEW t \in Goroutines, NEW j \in Jobs, Delete(t, j) \/ Click(t, j) \/ Find(t, j)
      PROVE  OwnerInv'
      BY <1>3, <1>8 DEF Delete, Click, Find, Labels, listVars, jobVars
<1>9. ASSUME NEW t \in Closers, CloseServer(t) PROVE OwnerInv'
  <2>1. /\ pc[t] = "idle" /\ ~serverClosed /\ jobs' = <<>> /\ TurnTo(t, jobs)
        /\ UNCHANGED <<closed, worker, watchdog, files>>
        BY <1>9 DEF CloseServer, jobVars
  <2>2. t \in Goroutines /\ todo[t] = <<>>
        BY <2>1, GoroutineAssumption DEF CoreInv, HandsInv, Hands, Goroutines
  <2>3. Moves(t) /\ \A j \in Listed : Holds(t, j)'
    <3>1. /\ Moves(t)
          /\ \/ jobs = <<>>
             \/ pc'[t] = "close" /\ Elements(jobs) = {cur'[t]} \union Elements(todo'[t])
          BY <2>1, <2>2, TurnToFacts DEF CoreInv, TypeOK
    <3>2. jobs = <<>> => Listed = {}
          BY ListedElements
    <3> QED
        BY <3>1, <3>2, ListedElements DEF Holds
  <2>4. Elements(todo[t]) = {}
        BY <2>2, ListedElements
  <2>5. \A j \in Jobs : files'[j] = "present" => Keeps(t, j)
        BY <2>1, <2>3, <2>4 DEF Keeps, Holds, Ends, Working
  <2> QED
      BY <2>2, <2>3, <2>5, KeptIsOwned
<1>10. ASSUME NEW t \in Goroutines, AddJob(t) PROVE OwnerInv'
  <2>1. pc[t] = "adding" /\ UNCHANGED <<closed, worker, watchdog, files>>
        BY <1>10 DEF AddJob, jobVars
  <2>2. CASE Accepts(cur[t])
    <3>1. /\ jobs' = Append(jobs, cur[t]) /\ pc' = [pc EXCEPT ![t] = "scan"]
          /\ UNCHANGED <<cur, todo>>
          BY <1>10, <2>2 DEF AddJob, Goto
    <3>2. Listed' = Listed \union {cur[t]}
      <4>1. jobs \in Seq(Jobs) /\ cur[t] \in Jobs
            BY <1>4, <2>1 DEF CoreInv, TypeOK
      <4> QED
          BY <3>1, <4>1, AppendElements, ListedElements
    <3>3. Moves(t)
          BY <1>1, <3>1 DEF Moves, Labels, CoreInv, TypeOK
    <3> QED
        BY <1>6, <2>1, <3>1, <3>2, <3>3
  <2>3. CASE ~Accepts(cur[t])
        BY <1>5, <1>10, <2>1, <2>3 DEF AddJob
  <2> QED
      BY <2>2, <2>3
<1>11. ASSUME NEW t \in Goroutines, UploadFails(t) PROVE OwnerInv'
       BY <1>5, <1>11 DEF UploadFails, listVars, jobVars
<1>12. ASSUME NEW t \in Goroutines, ScanEndsIdle(t) \/ CopyFails(t) PROVE OwnerInv'
       BY <1>2, <1>12 DEF ScanEndsIdle, CopyFails, listVars, jobVars
<1>13. ASSUME NEW t \in Goroutines, OpenResult(t) \/ Downloaded(t) PROVE OwnerInv'
       BY <1>2, <1>3, <1>4, <1>13 DEF OpenResult, Downloaded, listVars, jobVars, Labels
<1>14. ASSUME NEW t \in Goroutines, StartNext(t) PROVE OwnerInv'
  <2>1. pc[t] = "start" /\ UNCHANGED <<jobs, closed, worker, watchdog, files>>
        BY <1>14 DEF StartNext, listVars
  <2>2. scan.next \in Jobs
        BY <2>1 DEF CoreInv, TypeOK, LockInv, ScanPicks
  <2> QED
      BY <1>2, <1>3, <1>14, <2>1, <2>2 DEF StartNext, Labels
<1>15. ASSUME NEW t \in Goroutines, Unlist(t) PROVE OwnerInv'
  <2>1. /\ pc[t] = "unlist" /\ jobs' = WithoutJob(cur[t]) /\ pc' = [pc EXCEPT ![t] = "close"]
        /\ UNCHANGED <<cur, todo, closed, worker, watchdog, files>>
        BY <1>15 DEF Unlist, Goto, jobVars
  <2>2. Listed' = Listed \ {cur[t]}
        BY <2>1, WithoutElements, ListedElements DEF CoreInv, TypeOK, ListInv
  <2>3. Moves(t) /\ pc'[t] = "close"
        BY <1>1, <2>1 DEF Moves, Labels, CoreInv, TypeOK
  <2>4. \A j \in Jobs : files'[j] = "present" => Keeps(t, j)
        BY <2>1, <2>2, <2>3 DEF Keeps, Holds, Ends, Working
  <2> QED
      BY <2>3, <2>4, KeptIsOwned
<1>16. ASSUME NEW t \in Goroutines, Launch(t) PROVE OwnerInv'
  <2>1. /\ pc[t] = "launch" /\ worker' = [worker EXCEPT ![cur[t]] = "run"]
        /\ watchdog' = [watchdog EXCEPT ![cur[t]] = "wait"] /\ Finish(t)
        /\ UNCHANGED <<jobs, closed, files>>
        BY <1>16 DEF Launch, listVars
  <2>2. /\ cur[t] \in Jobs /\ worker[cur[t]] = "none"
        /\ worker' = [worker EXCEPT ![cur[t]] = "run"]
        BY <1>4, <2>1 DEF CoreInv, LaunchInv
  <2>3. watchdog[cur[t]] = "none"
        BY <2>2 DEF CoreInv, JobInv
  <2>4. Moves(t) /\ (\A j \in Elements(todo[t]) : Holds(t, j)') /\ UNCHANGED Listed
        BY <2>1, FinishHolds, ListedElements
  <2>5. ASSUME NEW j \in Jobs, files'[j] = "present", RestPosters = {}
        PROVE  Owned(j)' \/ Keeps(t, j)
    <3>1. CASE j # cur[t]
          BY <2>1, <2>2, <2>4, <2>5, <3>1 DEF Keeps, Holds, Ends, Working, CoreInv, TypeOK
    <3>2. CASE j = cur[t] /\ closed[j]
      <4>1. Working(j)'
            BY <2>2, <3>2 DEF Working, CoreInv, TypeOK
      <4> QED
          BY <2>1, <3>2, <4>1 DEF Owned
    <3>3. CASE j = cur[t] /\ ~closed[j]
      <4>1. j \in Listed \/ \E u \in Goroutines : Holds(u, j)
            BY <2>1, <2>5, <3>3 DEF OwnerInv, Owned
      <4>2. ASSUME NEW u \in Goroutines, Holds(u, j) PROVE Holds(u, j)'
        <5>1. CASE u = t
              BY <2>1, <2>4, <4>2, <5>1 DEF Holds
        <5>2. CASE u # t
              BY <2>4, <4>2, <5>2 DEF Holds, Moves
        <5> QED
            BY <5>1, <5>2
      <4> QED
          BY <2>1, <2>4, <3>3, <4>1, <4>2 DEF Owned
    <3> QED
        BY <3>1, <3>2, <3>3
  <2> QED
      BY <2>4, <2>5, KeptIsOwned
<1>17. ASSUME NEW t \in Goroutines, CloseJob(t) PROVE OwnerInv'
  <2>1. /\ pc[t] = "close" /\ closed' = [closed EXCEPT ![cur[t]] = TRUE]
        /\ UNCHANGED <<jobs, worker, watchdog, files, cancelFn>>
        BY <1>17 DEF CloseJob, listVars
  <2>2. cur[t] \in Jobs /\ UNCHANGED Listed
        BY <1>4, <2>1, ListedElements
  <2>3. /\ Moves(t) /\ \A j \in Elements(todo[t]) : Holds(t, j)'
        /\ ~LeftToOthers(cur[t]) => pc'[t] = "remove" /\ cur'[t] = cur[t]
    <3>1. CASE Finish(t) /\ LeftToOthers(cur[t])
          BY <3>1, FinishHolds
    <3>2. CASE Take(t, cur[t], "remove")
      <4>1. Moves(t) /\ pc'[t] = "remove" /\ cur'[t] = cur[t] /\ todo' = todo
            BY <2>2, <3>2, TakeFacts DEF Labels, CoreInv
      <4> QED
          BY <4>1 DEF Holds
    <3> QED
        BY <1>17, <3>1, <3>2 DEF CloseJob
  <2>4. ASSUME NEW j \in Jobs, files'[j] = "present", RestPosters = {}
        PROVE  Owned(j)' \/ Keeps(t, j)
    <3>1. CASE j # cur[t]
          BY <2>1, <2>2, <2>3, <2>4, <3>1 DEF Keeps, Holds, Ends, Working, CoreInv, TypeOK
    <3>2. CASE j = cur[t]
      <4>1. closed'[j]
            BY <2>1, <2>2, <3>2 DEF CoreInv, TypeOK
      <4>2. CASE ~LeftToOthers(j)
            BY <2>3, <3>2, <4>1, <4>2 DEF Owned, Ends
      <4>3. CASE cancelFn[j]
            BY <2>1, <4>1, <4>3 DEF Owned, Working, CoreInv, JobInv
      <4>4. CASE closed[j]
        <5>1. \/ Working(j) \/ watchdog[j] = "remove"
              \/ \E u \in Goroutines : Ends(u, j)
              BY <2>1, <2>4, <4>4 DEF OwnerInv, Owned
        <5>2. ASSUME NEW u \in Goroutines, Ends(u, j) PROVE Ends(u, j)'
          <6>1. u # t
                BY <2>1, <5>2 DEF Ends
          <6> QED
              BY <2>3, <5>2, <6>1 DEF Ends, Moves
        <5> QED
            BY <2>1, <4>1, <5>1, <5>2 DEF Owned, Working
      <4> QED
          BY <4>2, <4>3, <4>4 DEF LeftToOthers
    <3> QED
        BY <3>1, <3>2
  <2> QED
      BY <2>3, <2>4, KeptIsOwned
<1>18. ASSUME NEW t \in Goroutines, RemoveAll(t) PROVE OwnerInv'
  <2>1. /\ pc[t] = "remove" /\ files' = [files EXCEPT ![cur[t]] = "removed"] /\ Finish(t)
        /\ UNCHANGED <<jobs, closed, worker, watchdog>>
        BY <1>18 DEF RemoveAll, listVars
  <2>2. /\ cur[t] \in Jobs /\ UNCHANGED Listed
        /\ Moves(t) /\ \A j \in Elements(todo[t]) : Holds(t, j)'
        BY <1>4, <2>1, ListedElements, FinishHolds
  <2>3. ASSUME NEW j \in Jobs, files'[j] = "present" PROVE Keeps(t, j)
    <3>1. j # cur[t] /\ files[j] = "present"
          BY <2>1, <2>2, <2>3 DEF CoreInv, TypeOK
    <3> QED
        BY <2>1, <2>2, <3>1 DEF Keeps, Holds, Ends, Working
  <2> QED
      BY <2>2, <2>3, KeptIsOwned
<1>19. ASSUME NEW t \in Goroutines, ScanJob(t) \/ ScanEnds(t) PROVE OwnerInv'
  <2>1. /\ pc[t] = "scan" /\ (pc' = pc \/ pc' = [pc EXCEPT ![t] = "start"])
        /\ UNCHANGED <<jobs, cur, closed, worker, watchdog, files>>
        /\ \/ todo' = todo
           \/ ScanJob(t) /\ todo' = [todo EXCEPT ![t] = Append(@, jobs[scan.pos])]
        BY <1>19 DEF ScanJob, ScanEnds, Goto, listVars, jobVars
  <2>2. UNCHANGED Listed
        BY <2>1, ListedElements
  <2>3. \A j \in Elements(todo[t]) : j \in Elements(todo'[t])
    <3>1. CASE todo' = todo
          BY <3>1
    <3>2. CASE ScanJob(t) /\ todo' = [todo EXCEPT ![t] = Append(@, jobs[scan.pos])]
      <4>1. scan.pos \in DOMAIN jobs /\ jobs \in Seq(Jobs) /\ todo \in [Goroutines -> Seq(Jobs)]
            BY <3>2, LenProperties DEF ScanJob, CoreInv, TypeOK
      <4>2. jobs[scan.pos] \in Jobs /\ todo[t] \in Seq(Jobs)
            BY <4>1, ElementOfSeq, LenProperties
      <4>3. Elements(todo[t]) \subseteq Elements(Append(todo[t], jobs[scan.pos]))
            BY <4>2, AppendElements
      <4> QED
          BY <3>2, <4>1, <4>3
    <3> QED
        BY <2>1, <3>1, <3>2
  <2>4. Moves(t)
    <3>1. \A u \in Goroutines : u # t => pc'[u] = pc[u] /\ cur'[u] = cur[u] /\ todo'[u] = todo[u]
          BY <2>1 DEF CoreInv, TypeOK
    <3> QED
        BY <1>1, <3>1 DEF Moves, Labels, CoreInv, TypeOK
  <2> QED
      BY <1>6, <2>1, <2>2, <2>3, <2>4
<1>20. CASE Tick
  <2>1. /\ Scheduler \in Goroutines /\ pc[Scheduler] = "idle"
        /\ pc' = [pc EXCEPT ![Scheduler] = "scan"]
        /\ UNCHANGED <<jobs, cur, todo, closed, worker, watchdog, files>>
        BY <1>20 DEF Tick, Goto, listVars, jobVars, Goroutines
  <2>2. UNCHANGED Listed /\ Moves(Scheduler)
        BY <1>1, <2>1, ListedElements DEF Moves, Labels, CoreInv, TypeOK
  <2> QED
      BY <1>6, <2>1, <2>2
<1>21. ASSUME UNCHANGED <<pc, cur, todo>>
       PROVE  Scheduler \in Goroutines /\ Moves(Scheduler)
       BY <1>1, <1>21 DEF Goroutines, Moves, Labels, CoreInv, TypeOK
<1>22. ASSUME UNCHANGED <<jobs, pc, cur, todo, closed, worker, watchdog, files>>
       PROVE  OwnerInv'
  <2>1. UNCHANGED Listed
        BY <1>22, ListedElements
  <2> QED
      BY <1>6, <1>21, <1>22, <2>1
<1>23. ASSUME NEW n \in Limits, SetMaxConcurrent(n) PROVE OwnerInv'
       BY <1>22, <1>23 DEF SetMaxConcurrent, goVars, jobVars
<1>24. ASSUME NEW j \in Jobs, JobStep(j) \/ WatchdogCloses(j) \/ StoppedAges(j)
       PROVE  OwnerInv'
  <2>1. /\ UNCHANGED <<jobs, pc, cur, todo>> /\ UNCHANGED Listed
        /\ Scheduler \in Goroutines /\ Moves(Scheduler)
        BY <1>21, <1>24, ListedElements DEF JobStep, WorkerEnds, ProcessDone, WorkerRemoves,
              WatchdogRemoves, WatchdogCloses, StoppedAges, listVars, goVars
  <2>2. \A u \in Goroutines, k \in Jobs : Holds(u, k)' = Holds(u, k) /\ Ends(u, k)' = Ends(u, k)
        BY <2>1 DEF Holds, Ends
  <2>3. ASSUME NEW k \in Jobs, k # j, files'[k] = "present" PROVE Keeps(Scheduler, k)
        BY <1>24, <2>1, <2>2, <2>3 DEF JobStep, WorkerEnds, ProcessDone, WorkerRemoves,
              WatchdogRemoves, WatchdogCloses, StoppedAges, Keeps, Working, CoreInv, TypeOK
  <2>4. ASSUME WorkerEnds(j) \/ ProcessDone(j) \/ StoppedAges(j),
               files'[j] = "present", RestPosters = {}
        PROVE  Owned(j)'
    <3>1. Owned(j) /\ closed'[j] = closed[j] /\ watchdog'[j] = watchdog[j]
          BY <2>4 DEF OwnerInv, WorkerEnds, ProcessDone, StoppedAges
    <3>2. closed[j] /\ Working(j) => Working(j)'
          BY <2>4 DEF WorkerEnds, ProcessDone, AfterDone, StoppedAges, Working, CoreInv, TypeOK
    <3> QED
        BY <2>1, <2>2, <3>1, <3>2 DEF Owned
  <2>5. ASSUME WatchdogCloses(j), files'[j] = "present", RestPosters = {} PROVE Owned(j)'
    <3>1. /\ watchdog[j] = "wait" /\ closed'[j] /\ UNCHANGED worker /\ files[j] = "present"
          /\ watchdog'[j] = IF LeftToOthers(j) THEN "wait" ELSE "remove"
          BY <2>5 DEF WatchdogCloses, CoreInv, TypeOK
    <3>2. CASE ~LeftToOthers(j)
          BY <3>1, <3>2 DEF Owned
    <3>3. CASE cancelFn[j]
          BY <3>1, <3>3 DEF Owned, Working, CoreInv, JobInv
    <3>4. CASE closed[j]
          BY <2>2, <2>5, <3>1, <3>4 DEF Owned, OwnerInv, Working
    <3> QED
        BY <3>2, <3>3, <3>4 DEF LeftToOthers
  <2>6. ASSUME WorkerRemoves(j) \/ WatchdogRemoves(j) PROVE files'[j] # "present"
        BY <2>6 DEF WorkerRemoves, WatchdogRemoves, CoreInv, TypeOK
  <2> QED
      BY <1>24, <2>1, <2>3, <2>4, <2>5, <2>6, KeptIsOwned DEF JobStep
<1>25. CASE UNCHANGED vars
       BY <1>22, <1>25 DEF vars, listVars, goVars, jobVars
<1>26. ASSUME NEW t \in Goroutines, Locking(t) \/ Continue(t) PROVE OwnerInv'
       BY <1>10, <1>11, <1>12, <1>13, <1>14, <1>15, <1>16, <1>17, <1>18, <1>19, <1>26
          DEF Locking, Continue
<1>27. CASE Request
       BY <1>7, <1>8, <1>9, <1>23, <1>27 DEF Request
<1> QED
    BY <1>20, <1>24, <1>25, <1>26, <1>27 DEF Next

\* No working directory is forgotten.  What makes it inductive: the files of a
\* closed job have somebody who will remove them, and a job that is not closed
\* is listed or in the hands of a goroutine that will list or close it.
THEOREM NoWorkdirIsForgotten ==
    SafeSpec => []NoOrphans
<1>1. Init => OwnerInv
      BY DEF Init, OwnerInv
<1>2. OwnerInv => NoOrphans
  <2> SUFFICES ASSUME OwnerInv, NEW j \in Jobs, files[j] = "present", RestPosters = {}
               PROVE  \/ j \in Listed
                      \/ \E t \in Goroutines : Handles(t, j)
                      \/ closed[j] /\ worker[j] \in {"run", "ended", "remove"}
                      \/ closed[j] /\ \E t \in Goroutines : pc[t] = "launch" /\ cur[t] = j
                      \/ watchdog[j] = "remove"
      BY DEF NoOrphans
  <2>1. Owned(j)
        BY DEF OwnerInv
  <2>2. ASSUME NEW t \in Goroutines, Holds(t, j) PROVE Handles(t, j)
        BY <2>2 DEF Holds, Handles, Elements
  <2>3. ASSUME NEW t \in Goroutines, Ends(t, j)
        PROVE  Handles(t, j) \/ (pc[t] = "launch" /\ cur[t] = j)
        BY <2>3 DEF Ends, Handles
  <2> QED
      BY <2>1, <2>2, <2>3 DEF Owned, Working
<1> QED
    BY <1>1, <1>2, OwnerStep, Invariance, PTL DEF SafeSpec

-----------------------------------------------------------------------------
(* Cleaning up                                                             *)

\* The background task takes a job for cleanup when CleanupSec has gone by, or
\* in the instant between the last transition of its worker and processDone.
THEOREM CleanupIsDue ==
    SafeSpec => CleanupWaits
<1>1. ASSUME CoreInv, [Next]_vars, NEW j \in Jobs, pc[Scheduler] = "scan",
             todo'[Scheduler] = Append(todo[Scheduler], j)
      PROVE  stopped[j] = "old" \/ worker[j] = "ended"
  <2> DEFINE s == todo[Scheduler]
  <2>1. Scheduler \in Goroutines /\ s \in Seq(Jobs)
        BY <1>1 DEF CoreInv, TypeOK, Goroutines
  <2>2. todo'[Scheduler] # s
    <3>1. Len(Append(s, j)) = Len(s) + 1 /\ Len(s) \in Nat
          BY <2>1, AppendProperties, LenProperties
    <3> QED
        BY <1>1, <3>1
  <2>3. ~Finish(Scheduler)
    <3> SUFFICES ASSUME Finish(Scheduler) PROVE FALSE
        OBVIOUS
    <3>1. todo'[Scheduler] = IF s = <<>> THEN <<>> ELSE Tail(s)
      <4> DEFINE left == IF s = <<>> THEN <<>> ELSE Tail(s)
      <4>1. todo' = [todo EXCEPT ![Scheduler] = left]
            BY DEF Finish, TurnTo
      <4>2. DOMAIN todo = Goroutines
            BY <1>1 DEF CoreInv, TypeOK
      <4> HIDE DEF left
      <4>3. todo'[Scheduler] = left
            BY <2>1, <4>1, <4>2
      <4> QED
          BY <4>3 DEF left
    <3>2. Len(Append(s, j)) = Len(s) + 1 /\ Len(s) \in Nat /\ Len(<<>>) = 0
          BY <2>1, AppendProperties, LenProperties
    <3>3. s # <<>> => Len(Tail(s)) = Len(s) - 1
          BY <2>1, HeadTailProperties
    <3> QED
        BY <1>1, <3>1, <3>2, <3>3
  <2>4. ASSUME NEW t \in Goroutines, Finish(t) PROVE FALSE
    <3>1. t # Scheduler => todo'[Scheduler] = s
          BY <1>1, <2>1, <2>4, FinishFacts DEF CoreInv, Moves
    <3> QED
        BY <2>2, <2>3, <2>4, <3>1
  <2>5. todo' # todo
        BY <2>2
  <2>6. ASSUME NEW t \in Closers, CloseServer(t) PROVE FALSE
    <3>1. t \in Goroutines /\ t # Scheduler /\ TurnTo(t, jobs)
          BY <2>6, GoroutineAssumption DEF CloseServer, Goroutines
    <3>2. todo'[Scheduler] = s
          BY <1>1, <2>1, <3>1, TurnToFacts DEF CoreInv, TypeOK, Moves
    <3> QED
        BY <2>2, <3>2
  <2>7. PICK t \in Goroutines : ScanJob(t)
    <3>1. ASSUME NEW t \in Goroutines, NEW k \in Jobs
          PROVE  ~(NewJob(t, k) \/ Delete(t, k) \/ Click(t, k) \/ Find(t, k))
          BY <2>5 DEF NewJob, Delete, Click, Find, Take
    <3>2. ~Tick /\ \A n \in Limits : ~SetMaxConcurrent(n)
          BY <2>5 DEF Tick, SetMaxConcurrent, goVars
    <3>3. ASSUME NEW k \in Jobs
          PROVE  ~(JobStep(k) \/ WatchdogCloses(k) \/ StoppedAges(k))
          BY <2>5 DEF JobStep, WorkerEnds, ProcessDone, WorkerRemoves, WatchdogRemoves,
             WatchdogCloses, StoppedAges, goVars
    <3>4. ASSUME NEW t \in Goroutines PROVE ~Locking(t)
          BY <2>4, <2>5 DEF Locking, AddJob, Unlist, GiveUp, Take
    <3>5. ASSUME NEW t \in Goroutines, Continue(t) PROVE ScanJob(t)
          BY <2>4, <2>5, <3>5 DEF Continue, UploadFails, GiveUp, ScanEnds, ScanEndsIdle,
             StartNext, Launch, CloseJob, RemoveAll, OpenResult, Downloaded, CopyFails, Take
    <3>6. vars' # vars
          BY <2>5 DEF vars, goVars
    <3>7. ~Request
          BY <2>6, <3>1, <3>2 DEF Request
    <3> QED
        BY <1>1, <3>2, <3>3, <3>4, <3>5, <3>6, <3>7 DEF Next
  <2> DEFINE k == jobs[scan.pos]
  <2>8. /\ t = Scheduler /\ todo'[Scheduler] = Append(s, k) /\ CleanupDue(k)
        /\ state[k] \in {"finished", "failed"}
    <3>1. /\ t = Scheduler /\ todo' = [todo EXCEPT ![t] = Append(@, k)] /\ CleanupDue(k)
          /\ state[k] \in {"finished", "failed"}
          BY <2>5, <2>7 DEF ScanJob
    <3> DEFINE more == Append(s, k)
    <3>2. todo' = [todo EXCEPT ![Scheduler] = more] /\ DOMAIN todo = Goroutines
          BY <1>1, <3>1 DEF CoreInv, TypeOK
    <3> HIDE DEF more
    <3>3. todo'[Scheduler] = more
          BY <2>1, <3>2
    <3> QED
        BY <3>1, <3>3 DEF more
  <2>9. k = j /\ k \in Jobs
    <3>1. scan.pos \in DOMAIN jobs /\ jobs \in Seq(Jobs)
          BY <1>1, <2>7, LenProperties DEF ScanJob, CoreInv, TypeOK
    <3>2. k \in Jobs
          BY <3>1, ElementOfSeq, LenProperties
    <3>3. Append(s, k)[Len(s) + 1] = k /\ Append(s, j)[Len(s) + 1] = j
          BY <2>1, <3>2, AppendProperties
    <3> QED
        BY <1>1, <2>8, <3>2, <3>3
  <2> HIDE DEF k
  <2> QED
      BY <1>1, <2>8, <2>9 DEF CleanupDue, CoreInv, JobInv
<1>2. CoreInv /\ [Next]_vars =>
          [\A j \in Jobs :
              pc[Scheduler] = "scan" /\ todo'[Scheduler] = Append(todo[Scheduler], j) =>
                  stopped[j] = "old" \/ worker[j] = "ended"]_vars
      BY <1>1
<1> QED
    BY <1>2, Invariance, PTL DEF SafeSpec, CleanupWaits

-----------------------------------------------------------------------------
(* Order and limit                                                         *)

Scanning == \E t \in Goroutines : pc[t] \in {"scan", "start"}

\* The loop has found the first job that waits, or has seen none so far.
InOrder ==
    IF scan.next = NoJob
    THEN \A i \in DOMAIN jobs : i < scan.pos => state[jobs[i]] # "new"
    ELSE \E k \in DOMAIN jobs :
             /\ jobs[k] = scan.next
             /\ \A i \in DOMAIN jobs : i < k => state[jobs[i]] # "new"

\* The jobs that the loop has counted, of which some may have stopped since.
Counted == {j \in Jobs : state[j] = "active" /\ \E i \in DOMAIN jobs : i < scan.pos /\ jobs[i] = j}

ScanInv ==
    /\ Scanning /\ scan.running < maxConcurrent =>
          /\ InOrder
          /\ Clickers = {} => Cardinality(Counted) <= scan.running
    /\ \A t \in Goroutines : pc[t] = "start" => scan.pos > Len(jobs)

\* The loop counts finitely many jobs.
LEMMA CountedIsFinite ==
    /\ IsFiniteSet(Jobs) /\ IsFiniteSet(Counted) /\ IsFiniteSet(Counted')
    /\ Cardinality(Counted) \in Nat /\ Cardinality(Counted') \in Nat
<1>1. IsFiniteSet(Jobs)
      BY BoundAssumption, FS_Interval DEF Jobs
<1>2. Counted \subseteq Jobs /\ Counted' \subseteq Jobs
      BY DEF Counted
<1> QED
    BY <1>1, <1>2, FS_Subset, FS_CardinalityType

\* While Rinse.mu is held, jobs stop and none starts to wait.
LEMMA LoopGoesOn ==
    ASSUME CoreInv, ScanInv, UNCHANGED <<jobs, scan, maxConcurrent>>,
           \A j \in Listed : /\ state'[j] = "new" => state[j] = "new"
                             /\ state'[j] = "active" => state[j] = "active" \/ Clickers # {},
           \A u \in Goroutines : /\ pc'[u] \in {"scan", "start"} => Scanning
                                 /\ pc'[u] = "start" => pc[u] = "start"
    PROVE  ScanInv'
<1>1. UNCHANGED <<scan.next, scan.pos, scan.running>> /\ (Scanning' => Scanning)
      BY DEF Scanning
<1>2. InOrder => InOrder'
      BY <1>1 DEF InOrder, Listed
<1>3. Clickers = {} => Counted' \subseteq Counted
      BY DEF Counted, Listed
<1>4. Clickers = {} => Cardinality(Counted') <= Cardinality(Counted)
      BY <1>3, CountedIsFinite, FS_Subset
<1>5. scan.running \in Nat
      BY DEF CoreInv, TypeOK
<1>6. Clickers = {} /\ Cardinality(Counted) <= scan.running => Cardinality(Counted') <= scan.running
      BY <1>4, <1>5, CountedIsFinite
<1> QED
    BY <1>1, <1>2, <1>6 DEF ScanInv

\* Nobody scans when Rinse.mu is released.
LEMMA NobodyScans ==
    ASSUME CoreInv, NEW t \in Goroutines, Moves(t), mu \in {"free", t},
           pc'[t] \notin {"scan", "start"}
    PROVE  ScanInv'
<1>1. ASSUME NEW u \in Goroutines PROVE pc'[u] \notin {"scan", "start"}
  <2>1. CASE u = t
        BY <2>1
  <2>2. CASE u # t
    <3>1. mu # u
          BY <2>2, GoroutineAssumption
    <3> QED
        BY <2>2, <3>1 DEF Moves, CoreInv, LockInv
  <2> QED
      BY <2>1, <2>2
<1> QED
    BY <1>1 DEF ScanInv, Scanning

\* The loop begins at the first job.
LEMMA LoopBegins ==
    ASSUME CoreInv, CoreInv', NEW t \in Goroutines, mu = "free", UNCHANGED scan,
           pc' = [pc EXCEPT ![t] = "scan"]
    PROVE  ScanInv'
<1>1. scan' = NoScan
      BY DEF CoreInv, LockInv
<1>2. scan'.next = NoJob /\ scan'.pos = 1 /\ scan'.running = 0
      BY <1>1 DEF NoScan
<1>3. ASSUME NEW u \in Goroutines PROVE pc'[u] # "start"
  <2>1. pc[u] # "start"
        BY GoroutineAssumption DEF CoreInv, LockInv
  <2> QED
      BY <2>1 DEF CoreInv, TypeOK
<1>4. \A i \in DOMAIN jobs' : ~(i < scan'.pos)
      BY <1>2, LenProperties DEF CoreInv, TypeOK
<1>5. InOrder'
      BY <1>2, <1>4 DEF InOrder
<1>6. Counted' = {}
      BY <1>4 DEF Counted
<1>7. Cardinality(Counted') <= scan'.running
      BY <1>2, <1>6, FS_EmptySet
<1> QED
    BY <1>3, <1>5, <1>7 DEF ScanInv

\* One turn of the loop.
LEMMA LoopTurns ==
    ASSUME CoreInv, ScanInv, NEW t \in Goroutines, ScanJob(t)
    PROVE  ScanInv'
<1> DEFINE j == jobs[scan.pos]
<1>1. /\ pc[t] = "scan" /\ scan.pos <= Len(jobs) /\ Scanning
      /\ UNCHANGED <<jobs, maxConcurrent, pc, state>>
      BY DEF ScanJob, Scanning, listVars, jobVars
<1>2. /\ DOMAIN jobs = 1 .. Len(jobs) /\ Len(jobs) \in Nat /\ scan.pos \in DOMAIN jobs
      /\ scan.running \in Nat /\ scan.pos \in Nat /\ maxConcurrent \in Nat
      BY <1>1, LenProperties, BoundAssumption DEF CoreInv, TypeOK
<1>3. j \in Jobs
      BY <1>2, ElementOfSeq DEF CoreInv, TypeOK
<1>4. ASSUME NEW u \in Goroutines PROVE pc'[u] # "start"
  <2>1. mu = t /\ (pc[u] = "start" => mu = u)
        BY <1>1 DEF CoreInv, LockInv
  <2> QED
      BY <1>1, <2>1
<1> HIDE DEF j
<1> SUFFICES ASSUME scan'.running < maxConcurrent
             PROVE  InOrder' /\ (Clickers = {} => Cardinality(Counted') <= scan'.running)
    BY <1>1, <1>4 DEF ScanInv
<1>5. CASE state[j] = "new" /\ scan' = [scan EXCEPT !.pos = @ + 1, !.next = Pick(j)]
  <2>1. scan'.pos = scan.pos + 1 /\ scan'.running = scan.running /\ scan'.next = Pick(j)
        BY <1>5 DEF CoreInv, TypeOK
  <2>2. InOrder /\ (Clickers = {} => Cardinality(Counted) <= scan.running)
        BY <1>1, <2>1 DEF ScanInv
  <2>3. InOrder'
    <3>1. CASE scan.next = NoJob
      <4>1. scan'.next = j /\ j # NoJob
            BY <1>3, <2>1, <3>1, NoJobIsNone DEF Pick
      <4>2. \A i \in DOMAIN jobs : i < scan.pos => state[jobs[i]] # "new"
            BY <2>2, <3>1 DEF InOrder
      <4> QED
          BY <1>1, <1>2, <4>1, <4>2 DEF InOrder, j
    <3>2. CASE scan.next # NoJob
      <4>1. scan'.next = scan.next
            BY <2>1, <3>2 DEF Pick
      <4> QED
          BY <1>1, <2>2, <3>2, <4>1 DEF InOrder
    <3> QED
        BY <3>1, <3>2
  <2>4. Counted' = Counted
    <3>1. \A i \in DOMAIN jobs : i < scan.pos + 1 => i < scan.pos \/ i = scan.pos
          BY <1>2
    <3> QED
        BY <1>1, <1>2, <1>5, <2>1, <3>1 DEF Counted, j
  <2> QED
      BY <2>1, <2>2, <2>3, <2>4
<1>6. CASE state[j] \in {"finished", "failed"} /\ scan' = [scan EXCEPT !.pos = @ + 1]
  <2>1. scan'.pos = scan.pos + 1 /\ scan'.running = scan.running /\ scan'.next = scan.next
        BY <1>6 DEF CoreInv, TypeOK
  <2>2. InOrder /\ (Clickers = {} => Cardinality(Counted) <= scan.running)
        BY <1>1, <2>1 DEF ScanInv
  <2>3. \A i \in DOMAIN jobs : i < scan.pos + 1 => i < scan.pos \/ jobs[i] = j
        BY <1>2 DEF j
  <2>4. InOrder'
        BY <1>1, <1>6, <2>1, <2>2, <2>3 DEF InOrder
  <2>5. Counted' = Counted
        BY <1>1, <1>2, <1>6, <2>1, <2>3 DEF Counted
  <2> QED
      BY <2>1, <2>2, <2>4, <2>5
<1>7. CASE state[j] = "active" /\ scan' = [scan EXCEPT !.pos = @ + 1, !.running = @ + 1]
  <2>1. /\ scan'.pos = scan.pos + 1 /\ scan'.running = scan.running + 1
        /\ scan'.next = scan.next
        BY <1>7 DEF CoreInv, TypeOK
  <2>2. InOrder /\ (Clickers = {} => Cardinality(Counted) <= scan.running)
        BY <1>1, <1>2, <2>1 DEF ScanInv
  <2>3. \A i \in DOMAIN jobs : i < scan.pos + 1 => i < scan.pos \/ jobs[i] = j
        BY <1>2 DEF j
  <2>4. InOrder'
        BY <1>1, <1>7, <2>1, <2>2, <2>3 DEF InOrder
  <2>5. Counted' \subseteq Counted \union {j}
        BY <1>1, <1>2, <1>7, <2>1, <2>3 DEF Counted
  <2>6. /\ IsFiniteSet(Counted \union {j})
        /\ Cardinality(Counted \union {j}) <= Cardinality(Counted) + 1
    <3>1. IsFiniteSet(Counted) /\ Cardinality(Counted) \in Nat
          BY CountedIsFinite
    <3>2. /\ IsFiniteSet(Counted \union {j})
          /\ Cardinality(Counted \union {j}) = IF j \in Counted THEN Cardinality(Counted)
                                               ELSE Cardinality(Counted) + 1
          BY <3>1, FS_AddElement
    <3> QED
        BY <3>1, <3>2
  <2>7. /\ Cardinality(Counted') <= Cardinality(Counted \union {j})
        /\ Cardinality(Counted \union {j}) \in Nat
        BY <2>5, <2>6, FS_Subset, FS_CardinalityType
  <2> QED
      BY <1>2, <2>1, <2>2, <2>4, <2>6, <2>7, CountedIsFinite
<1>8. CASE /\ scan.running + 1 >= maxConcurrent
           /\ scan' = [pos |-> Len(jobs) + 1, running |-> scan.running + 1, next |-> NoJob]
  <2>1. scan'.running = scan.running + 1
        BY <1>8
  <2> QED
      BY <1>2, <1>8, <2>1
<1> QED
    BY <1>5, <1>6, <1>7, <1>8 DEF ScanJob, j

\* Every step keeps what the loop has found true, as long as it may start a job.
LEMMA ScanStep ==
    CoreInv /\ ScanInv /\ [Next]_vars => ScanInv'
<1> SUFFICES ASSUME CoreInv, ScanInv, [Next]_vars PROVE ScanInv'
    OBVIOUS
<1>1. CoreInv'
      BY StepInv
<1>2. \A j \in Listed : j \in Jobs /\ state[j] # "none"
      BY DEF CoreInv, TypeOK, ListInv
<1>3. ASSUME NEW t \in Goroutines, Moves(t), UNCHANGED <<jobs, scan, maxConcurrent, state>>,
             pc'[t] \in {"scan", "start"} => pc'[t] = pc[t]
      PROVE  ScanInv'
  <2>1. ASSUME NEW u \in Goroutines
        PROVE  /\ pc'[u] \in {"scan", "start"} => Scanning
               /\ pc'[u] = "start" => pc[u] = "start"
    <3>1. CASE u = t
          BY <1>3, <3>1 DEF Scanning
    <3>2. CASE u # t
          BY <1>3, <3>2 DEF Scanning, Moves
    <3> QED
        BY <3>1, <3>2
  <2> QED
      BY <1>3, <2>1, LoopGoesOn
<1>4. ASSUME NEW t \in Goroutines, NEW j \in Jobs, NEW label \in Labels \ {"scan", "start"},
             Take(t, j, label), UNCHANGED <<jobs, scan, maxConcurrent, state>>
      PROVE  ScanInv'
  <2>1. Moves(t) /\ pc'[t] = label
        BY <1>4, TakeFacts DEF CoreInv
  <2> QED
      BY <1>3, <1>4, <2>1
<1>5. ASSUME NEW t \in Goroutines, Finish(t)
      PROVE  Moves(t) /\ pc'[t] \notin {"scan", "start"}
      BY <1>5, LeaveFacts DEF CoreInv
<1>6. ASSUME NEW t \in Goroutines, Finish(t), UNCHANGED <<jobs, scan, maxConcurrent, state>>
      PROVE  ScanInv'
      BY <1>3, <1>5, <1>6
<1>7. \A t \in Goroutines : pc[t] \notin {"idle", "scan", "start"} => cur[t] \in Jobs
      BY DEF CoreInv, HandsInv, Hands
<1>8. ASSUME NEW t \in Goroutines, NEW j \in Jobs,
             NewJob(t, j) \/ Delete(t, j) \/ Click(t, j) \/ Find(t, j)
      PROVE  ScanInv'
  <2>1. CASE NewJob(t, j)
    <3>1. /\ Take(t, j, "adding") /\ state' = [state EXCEPT ![j] = "new"] /\ state[j] = "none"
          /\ UNCHANGED <<jobs, scan, maxConcurrent>>
          BY <2>1 DEF NewJob, listVars, lockVars
    <3>2. Moves(t) /\ pc'[t] = "adding"
          BY <3>1, TakeFacts DEF Labels, CoreInv
    <3>3. ASSUME NEW k \in Listed PROVE state'[k] = state[k]
          BY <1>2, <3>1 DEF CoreInv, TypeOK
    <3>4. \A u \in Goroutines : pc'[u] \in {"scan", "start"} => pc[u] = pc'[u]
          BY <3>2 DEF Moves
    <3> QED
        BY <3>1, <3>3, <3>4, LoopGoesOn DEF Scanning
  <2>2. CASE Click(t, j) /\ state[j] = "new"
    <3>1. /\ Take(t, j, "launch") /\ state' = [state EXCEPT ![j] = "active"]
          /\ UNCHANGED <<jobs, scan, maxConcurrent>> /\ Clickers # {}
          BY <2>2 DEF Click, listVars, lockVars
    <3>2. Moves(t) /\ pc'[t] = "launch"
          BY <3>1, TakeFacts DEF Labels, CoreInv
    <3>3. ASSUME NEW k \in Listed, state'[k] = "new" PROVE state[k] = "new"
          BY <1>2, <3>1, <3>3 DEF CoreInv, TypeOK
    <3>4. \A u \in Goroutines : pc'[u] \in {"scan", "start"} => pc[u] = pc'[u]
          BY <3>2 DEF Moves
    <3> QED
        BY <3>1, <3>3, <3>4, LoopGoesOn DEF Scanning
  <2>3. CASE Delete(t, j) \/ Find(t, j) \/ (Click(t, j) /\ state[j] # "new")
        BY <1>4, <2>3 DEF Delete, Find, Click, Labels, listVars, lockVars, jobVars
  <2> QED
      BY <1>8, <2>1, <2>2, <2>3
<1>9. ASSUME NEW t \in Goroutines, pc[t] = "adding", GiveUp(t),
             UNCHANGED <<jobs, scan, maxConcurrent, state>>
      PROVE  ScanInv'
      BY <1>4, <1>6, <1>7, <1>9 DEF GiveUp, Labels
<1>10. ASSUME NEW t \in Goroutines, AddJob(t) PROVE ScanInv'
  <2>1. CASE Accepts(cur[t])
    <3>1. mu = "free" /\ UNCHANGED scan /\ pc' = [pc EXCEPT ![t] = "scan"]
          BY <1>10, <2>1 DEF AddJob, Lock, Goto
    <3> QED
        BY <1>1, <3>1, LoopBegins
  <2>2. CASE ~Accepts(cur[t])
        BY <1>9, <1>10, <2>2 DEF AddJob, lockVars, jobVars
  <2> QED
      BY <2>1, <2>2
<1>11. ASSUME NEW t \in Goroutines, Unlist(t) PROVE ScanInv'
  <2>1. /\ mu = "free" /\ pc' = [pc EXCEPT ![t] = "close"] /\ UNCHANGED <<cur, todo>>
        BY <1>11 DEF Unlist, Goto
  <2>2. Moves(t) /\ pc'[t] = "close"
        BY <1>1, <2>1 DEF Moves, Labels, CoreInv, TypeOK
  <2> QED
      BY <2>1, <2>2, NobodyScans
<1>12. ASSUME NEW t \in Closers, CloseServer(t) PROVE ScanInv'
  <2>1. t \in Goroutines /\ mu = "free" /\ TurnTo(t, jobs)
        BY <1>12 DEF CloseServer, Goroutines
  <2>2. Moves(t) /\ pc'[t] \in {"idle", "close", "unlist"}
        BY <2>1, TurnToFacts DEF CoreInv, TypeOK
  <2> QED
      BY <2>1, <2>2, NobodyScans
<1>13. ASSUME NEW t \in Goroutines, UploadFails(t) PROVE ScanInv'
       BY <1>9, <1>13 DEF UploadFails, listVars, lockVars, jobVars
<1>14. ASSUME NEW t \in Goroutines, ScanEndsIdle(t) PROVE ScanInv'
  <2>1. mu = t
        BY <1>14 DEF ScanEndsIdle, CoreInv, LockInv
  <2> QED
      BY <1>5, <1>14, <2>1, NobodyScans DEF ScanEndsIdle
<1>15. ASSUME NEW t \in Goroutines, ScanEnds(t) PROVE ScanInv'
  <2>1. /\ pc[t] = "scan" /\ scan.pos > Len(jobs) /\ pc' = [pc EXCEPT ![t] = "start"]
        /\ UNCHANGED <<jobs, scan, maxConcurrent, state>>
        BY <1>15 DEF ScanEnds, Goto, listVars, lockVars, jobVars
  <2>2. Scanning /\ UNCHANGED <<InOrder, Counted>>
        BY <2>1 DEF Scanning, InOrder, Counted
  <2> QED
      BY <2>1, <2>2 DEF ScanInv
<1>16. ASSUME NEW t \in Goroutines, StartNext(t) PROVE ScanInv'
  <2>1. mu = t /\ scan.next \in Jobs
        BY <1>16 DEF StartNext, CoreInv, TypeOK, LockInv, ScanPicks
  <2>2. Moves(t) /\ pc'[t] \notin {"scan", "start"}
        BY <1>5, <1>16, <2>1, TakeFacts DEF StartNext, Labels, CoreInv
  <2> QED
      BY <2>1, <2>2, NobodyScans
<1>17. ASSUME NEW t \in Goroutines, Launch(t) PROVE ScanInv'
  <2>1. Finish(t) /\ UNCHANGED <<jobs, maxConcurrent, state>> /\ (mu = t \/ UNCHANGED scan)
        BY <1>17 DEF Launch, listVars, lockVars
  <2> QED
      BY <1>5, <1>6, <2>1, NobodyScans
<1>18. ASSUME NEW t \in Goroutines, CloseJob(t) PROVE ScanInv'
  <2>1. pc[t] = "close" /\ UNCHANGED <<jobs, scan, maxConcurrent, state>>
        BY <1>18 DEF CloseJob, listVars, lockVars
  <2> QED
      BY <1>4, <1>6, <1>7, <1>18, <2>1 DEF CloseJob, Labels
<1>19. ASSUME NEW t \in Goroutines,
              RemoveAll(t) \/ OpenResult(t) \/ Downloaded(t) \/ CopyFails(t)
       PROVE  ScanInv'
  <2>1. /\ pc[t] \in {"remove", "found", "copying"}
        /\ UNCHANGED <<jobs, scan, maxConcurrent, state>>
        BY <1>19 DEF RemoveAll, OpenResult, Downloaded, CopyFails, listVars, lockVars, jobVars
  <2> QED
      BY <1>4, <1>6, <1>7, <1>19, <2>1 DEF RemoveAll, OpenResult, Downloaded, CopyFails, Labels
<1>20. CASE Tick
  <2>1. /\ Scheduler \in Goroutines /\ mu = "free" /\ UNCHANGED scan
        /\ pc' = [pc EXCEPT ![Scheduler] = "scan"]
        BY <1>20 DEF Tick, Lock, Goto, Goroutines
  <2> QED
      BY <1>1, <2>1, LoopBegins
<1>21. ASSUME NEW n \in Limits, SetMaxConcurrent(n) PROVE ScanInv'
  <2>1. mu = "free" /\ UNCHANGED pc
        BY <1>21 DEF SetMaxConcurrent, goVars
  <2>2. \A u \in Goroutines : pc'[u] \notin {"scan", "start"}
        BY <2>1, GoroutineAssumption DEF CoreInv, LockInv
  <2> QED
      BY <2>2 DEF ScanInv, Scanning
<1>22. ASSUME UNCHANGED <<jobs, scan, maxConcurrent, pc>>,
              \A j \in Listed : /\ state'[j] = "new" => state[j] = "new"
                                /\ state'[j] = "active" => state[j] = "active"
       PROVE  ScanInv'
       BY <1>22, LoopGoesOn DEF Scanning
<1>23. ASSUME NEW j \in Jobs, JobStep(j) \/ WatchdogCloses(j) \/ StoppedAges(j)
       PROVE  ScanInv'
  <2>1. UNCHANGED <<jobs, scan, maxConcurrent, pc>>
        BY <1>23 DEF JobStep, WorkerEnds, ProcessDone, WorkerRemoves, WatchdogRemoves,
           WatchdogCloses, StoppedAges, listVars, lockVars, goVars
  <2>2. \A k \in Jobs : state'[k] = state[k] \/ state'[k] \in {"finished", "failed"}
        BY <1>23 DEF JobStep, WorkerEnds, ProcessDone, WorkerRemoves, WatchdogRemoves,
           WatchdogCloses, StoppedAges, CoreInv, TypeOK
  <2> QED
      BY <1>2, <1>22, <2>1, <2>2
<1>24. CASE UNCHANGED vars
       BY <1>22, <1>24 DEF vars, listVars, lockVars, goVars, jobVars
<1>25. ASSUME NEW t \in Goroutines, Locking(t) \/ Continue(t) PROVE ScanInv'
       BY <1>10, <1>11, <1>13, <1>14, <1>15, <1>16, <1>17, <1>18, <1>19, <1>25, LoopTurns
          DEF Locking, Continue
<1>26. CASE Request
       BY <1>8, <1>12, <1>21, <1>26 DEF Request
<1> QED
    BY <1>20, <1>23, <1>24, <1>25, <1>26 DEF Next

\* What the loop has found is true whenever it acts on it.
LEMMA ScanInvariance ==
    SafeSpec => [](CoreInv /\ ScanInv)
<1>1. Init => ScanInv
      BY DEF Init, ScanInv, Scanning
<1> QED
    BY <1>1, ScanStep, Invariance, PTL DEF SafeSpec

\* Jobs are started in the order they were added: when a job is about to be
\* started under Rinse.mu, no job before it in the list waits.
THEOREM StartsInOrder ==
    SafeSpec => []StartInOrder
<1>1. CoreInv /\ ScanInv => StartInOrder
  <2> SUFFICES ASSUME CoreInv, ScanInv, NEW t \in Goroutines, pc[t] = "start",
                      NEW i \in DOMAIN jobs, NEW k \in DOMAIN jobs, i < k,
                      jobs[k] = scan.next
               PROVE  state[jobs[i]] # "new"
      BY DEF StartInOrder
  <2>1. InOrder /\ scan.next # NoJob
        BY DEF CoreInv, LockInv, ScanPicks, ScanInv, Scanning
  <2>2. PICK n \in DOMAIN jobs : /\ jobs[n] = scan.next
                                 /\ \A m \in DOMAIN jobs : m < n => state[jobs[m]] # "new"
        BY <2>1 DEF InOrder
  <2>3. n = k
        BY <2>2 DEF CoreInv, ListInv
  <2> QED
      BY <2>2, <2>3
<1> QED
    BY <1>1, ScanInvariance, PTL

\* The counts that the loop made are an upper bound until Start is called: under
\* Rinse.mu jobs can only stop, so at most maxConcurrent jobs of the list run
\* after it.
THEOREM StartsRespectLimit ==
    SafeSpec => []StartRespectsLimit
<1>1. CoreInv /\ ScanInv => StartRespectsLimit
  <2> SUFFICES ASSUME CoreInv, ScanInv, NEW t \in Goroutines, pc[t] = "start", Clickers = {}
               PROVE  Cardinality(Running) < maxConcurrent
      BY DEF StartRespectsLimit
  <2>1. scan.running < maxConcurrent /\ scan.pos > Len(jobs) /\ Scanning
        BY DEF CoreInv, LockInv, ScanPicks, ScanInv, Scanning
  <2>2. Cardinality(Counted) <= scan.running
        BY <2>1 DEF ScanInv
  <2>3. /\ DOMAIN jobs = 1 .. Len(jobs) /\ Len(jobs) \in Nat /\ scan.running \in Nat
        /\ maxConcurrent \in Nat /\ scan.pos \in Nat /\ \A i \in DOMAIN jobs : jobs[i] \in Jobs
        BY LenProperties, ElementOfSeq, BoundAssumption DEF CoreInv, TypeOK
  <2>4. Running = Counted
        BY <2>1, <2>3 DEF Running, Counted, Listed
  <2>5. Cardinality(Counted) \in Nat
        BY CountedIsFinite
  <2> QED
      BY <2>1, <2>2, <2>3, <2>4, <2>5
<1> QED
    BY <1>1, ScanInvariance, PTL

-----------------------------------------------------------------------------
(* The lifecycle of a job                                                  *)

\* Where no button is used, Job.Close removes the files of a job that never
\* started or has stopped.
StrictInv ==
    \A t \in Goroutines :
        pc[t] = "remove" /\ Clickers = {} =>
            state[cur[t]] = "new" \/ stopped[cur[t]] # "zero"

\* Every step keeps files from being removed under a running worker.
LEMMA StrictStep ==
    CoreInv /\ StrictInv /\ [Next]_vars => StrictInv'
<1> SUFFICES ASSUME CoreInv, StrictInv, [Next]_vars, Clickers = {},
                    NEW t \in Goroutines, pc'[t] = "remove"
             PROVE  state'[cur'[t]] = "new" \/ stopped'[cur'[t]] # "zero"
    BY DEF StrictInv
<1>1. ASSUME NEW u \in Goroutines, Moves(u), pc'[u] # "remove"
      PROVE  pc[t] = "remove" /\ cur'[t] = cur[t]
      BY <1>1 DEF Moves
<1>2. ASSUME NEW u \in Goroutines, NEW j \in Jobs, NEW label \in Labels \ {"remove"},
             Take(u, j, label)
      PROVE  pc[t] = "remove" /\ cur'[t] = cur[t]
      BY <1>1, <1>2, TakeFacts DEF CoreInv
<1>3. ASSUME NEW u \in Goroutines, Finish(u)
      PROVE  pc[t] = "remove" /\ cur'[t] = cur[t]
      BY <1>1, <1>3, LeaveFacts DEF CoreInv
<1>4. ASSUME NEW u \in Goroutines, NEW label \in Labels \ {"remove"},
             pc' = [pc EXCEPT ![u] = label], UNCHANGED cur
      PROVE  pc[t] = "remove" /\ cur'[t] = cur[t]
      BY <1>4 DEF CoreInv, TypeOK
<1>5. \A u \in Goroutines :
         /\ pc[u] \notin {"idle", "scan", "start"} => cur[u] \in Jobs
         /\ pc[u] \in {"close", "remove"} => cur[u] \notin Listed
      BY DEF CoreInv, HandsInv, Hands
<1>6. ASSUME pc[t] = "remove", cur'[t] = cur[t],
             state[cur[t]] = "new" => state'[cur[t]] = "new",
             stopped'[cur[t]] = "zero" => stopped[cur[t]] = "zero"
      PROVE  state'[cur'[t]] = "new" \/ stopped'[cur'[t]] # "zero"
      BY <1>6 DEF StrictInv
<1>7. ASSUME pc[t] = "remove", cur'[t] = cur[t], UNCHANGED <<state, stopped>>
      PROVE  state'[cur'[t]] = "new" \/ stopped'[cur'[t]] # "zero"
      BY <1>6, <1>7
<1> DEFINE Goal == state'[cur'[t]] = "new" \/ stopped'[cur'[t]] # "zero"
<1> HIDE DEF Goal
<1>8. ASSUME NEW u \in Goroutines, NEW j \in Jobs,
             NewJob(u, j) \/ Delete(u, j) \/ Click(u, j) \/ Find(u, j)
      PROVE  Goal
  <2>1. CASE NewJob(u, j)
    <3>1. /\ Take(u, j, "adding") /\ state' = [state EXCEPT ![j] = "new"]
          /\ UNCHANGED stopped
          BY <2>1 DEF NewJob
    <3>2. pc[t] = "remove" /\ cur'[t] = cur[t]
          BY <1>2, <3>1 DEF Labels
    <3>3. state[cur[t]] = "new" => state'[cur[t]] = "new"
          BY <1>5, <3>1, <3>2 DEF CoreInv, TypeOK
    <3> QED
        BY <1>6, <3>1, <3>2, <3>3 DEF Goal
  <2>2. CASE Delete(u, j) \/ Find(u, j)
        BY <1>2, <1>7, <2>2 DEF Delete, Find, Labels, jobVars, Goal
  <2>3. ~Click(u, j)
        BY DEF Click
  <2> QED
      BY <1>8, <2>1, <2>2, <2>3
<1>9. ASSUME NEW u \in Goroutines, pc[u] = "adding", GiveUp(u), UNCHANGED <<state, stopped>>
      PROVE  Goal
      BY <1>2, <1>3, <1>5, <1>7, <1>9 DEF GiveUp, Labels, Goal
<1>10. ASSUME NEW u \in Goroutines, AddJob(u) \/ UploadFails(u) PROVE Goal
  <2>1. pc[u] = "adding" /\ UNCHANGED <<state, stopped>>
        BY <1>10 DEF AddJob, UploadFails, jobVars
  <2>2. CASE Goto(u, "scan") /\ UNCHANGED cur
        BY <1>4, <1>7, <2>1, <2>2 DEF Goto, Labels, Goal
  <2> QED
      BY <1>9, <1>10, <2>1, <2>2 DEF AddJob, UploadFails
<1>11. ASSUME NEW u \in Goroutines, Unlist(u) \/ ScanEnds(u) \/ (u = Scheduler /\ Tick)
       PROVE  Goal
  <2>1. /\ UNCHANGED <<state, stopped, cur>>
        /\ \E label \in Labels \ {"remove"} : pc' = [pc EXCEPT ![u] = label]
        BY <1>11 DEF Unlist, ScanEnds, Tick, Goto, Labels, jobVars
  <2> QED
      BY <1>4, <1>7, <2>1 DEF Goal
<1>12. ASSUME UNCHANGED <<pc, cur>>,
              \A j \in Jobs : /\ state[j] = "new" => state'[j] = "new"
                              /\ stopped'[j] = "zero" => stopped[j] = "zero"
       PROVE  Goal
       BY <1>5, <1>6, <1>12 DEF Goal
<1>13. ASSUME NEW u \in Goroutines, ScanJob(u) PROVE Goal
       BY <1>12, <1>13 DEF ScanJob, jobVars
<1>14. ASSUME NEW n \in Limits, SetMaxConcurrent(n) PROVE Goal
       BY <1>12, <1>14 DEF SetMaxConcurrent, goVars, jobVars
<1>15. ASSUME NEW j \in Jobs, JobStep(j) \/ WatchdogCloses(j) \/ StoppedAges(j) PROVE Goal
  <2>1. UNCHANGED <<pc, cur>>
        BY <1>15 DEF JobStep, WorkerEnds, ProcessDone, WorkerRemoves, WatchdogRemoves,
           WatchdogCloses, StoppedAges, goVars
  <2>2. worker[j] = "run" => state[j] = "active"
        BY DEF CoreInv, JobInv
  <2>3. \A k \in Jobs : state[k] = "new" => state'[k] = "new"
        BY <1>15, <2>2 DEF JobStep, WorkerEnds, ProcessDone, WorkerRemoves, WatchdogRemoves,
           WatchdogCloses, StoppedAges, CoreInv, TypeOK
  <2>4. \A k \in Jobs : stopped'[k] = "zero" => stopped[k] = "zero"
        BY <1>15 DEF JobStep, WorkerEnds, ProcessDone, WorkerRemoves, WatchdogRemoves,
           WatchdogCloses, StoppedAges, CoreInv, TypeOK
  <2> QED
      BY <1>12, <2>1, <2>3, <2>4
<1>16. ASSUME NEW u \in Goroutines,
              ScanEndsIdle(u) \/ RemoveAll(u) \/ CopyFails(u) \/ Launch(u)
       PROVE  Goal
  <2>1. Finish(u) /\ UNCHANGED <<state, stopped>>
        BY <1>16 DEF ScanEndsIdle, RemoveAll, CopyFails, Launch, jobVars
  <2> QED
      BY <1>3, <1>7, <2>1 DEF Goal
<1>17. ASSUME NEW u \in Goroutines, OpenResult(u) \/ Downloaded(u) PROVE Goal
  <2>1. cur[u] \in Jobs /\ UNCHANGED <<state, stopped>>
        BY <1>5, <1>17 DEF OpenResult, Downloaded, jobVars
  <2>2. \/ Finish(u) \/ Take(u, cur[u], "copying") \/ Take(u, cur[u], "unlist")
        BY <1>17 DEF OpenResult, Downloaded
  <2> QED
      BY <1>2, <1>3, <1>7, <2>1, <2>2 DEF Goal, Labels
<1>18. ASSUME NEW u \in Goroutines, StartNext(u) PROVE Goal
  <2>1. scan.next \in Listed /\ scan.next \in Jobs
        BY <1>18 DEF StartNext, CoreInv, TypeOK, LockInv, ScanPicks
  <2>2. CASE state[scan.next] = "new"
    <3>1. /\ Take(u, scan.next, "launch") /\ state' = [state EXCEPT ![scan.next] = "active"]
          /\ UNCHANGED stopped
          BY <1>18, <2>2 DEF StartNext
    <3>2. pc[t] = "remove" /\ cur'[t] = cur[t]
          BY <1>2, <2>1, <3>1 DEF Labels
    <3>3. state'[cur[t]] = state[cur[t]]
          BY <1>5, <2>1, <3>1, <3>2 DEF CoreInv, TypeOK
    <3> QED
        BY <1>6, <3>1, <3>2, <3>3 DEF Goal
  <2>3. CASE state[scan.next] # "new"
        BY <1>3, <1>7, <1>18, <2>3 DEF StartNext, Goal
  <2> QED
      BY <2>2, <2>3
<1>19. ASSUME NEW u \in Goroutines, CloseJob(u) PROVE Goal
  <2>1. pc[u] = "close" /\ cur[u] \in Jobs \ Listed /\ UNCHANGED <<state, stopped>>
        BY <1>5, <1>19 DEF CloseJob
  <2>2. CASE Finish(u)
        BY <1>3, <1>7, <2>1, <2>2 DEF Goal
  <2>3. CASE ~LeftToOthers(cur[u]) /\ Take(u, cur[u], "remove")
    <3>1. Moves(u) /\ pc'[u] = "remove" /\ cur'[u] = cur[u]
          BY <2>1, <2>3, TakeFacts DEF Labels, CoreInv
    <3>2. CASE t # u
          BY <1>7, <2>1, <3>1, <3>2 DEF Moves, Goal
    <3>3. CASE t = u
      <4>1. worker[cur[u]] \notin {"run", "ended"} /\ state[cur[u]] # "none"
            BY <2>1, <2>3 DEF LeftToOthers, CoreInv, JobInv, NoneInv
      <4>2. ~(state[cur[u]] = "active" /\ worker[cur[u]] = "none")
        <5> SUFFICES ASSUME state[cur[u]] = "active", worker[cur[u]] = "none"
                     PROVE  FALSE
            OBVIOUS
        <5>1. PICK v \in Goroutines : pc[v] = "launch" /\ cur[v] = cur[u]
              BY <2>1 DEF CoreInv, LaunchInv
        <5> QED
            BY <2>1, <5>1 DEF CoreInv, LaunchInv
      <4>3. state[cur[u]] = "new" \/ stopped[cur[u]] # "zero"
        <5>1. /\ state[cur[u]] \in {"none", "new", "active", "finished", "failed"}
              /\ worker[cur[u]] \in {"none", "run", "ended", "remove", "exited"}
              BY <2>1 DEF CoreInv, TypeOK
        <5> QED
            BY <2>1, <4>1, <4>2, <5>1 DEF CoreInv, JobInv
      <4> QED
          BY <2>1, <3>1, <3>3, <4>3 DEF Goal
    <3> QED
        BY <3>2, <3>3
  <2> QED
      BY <1>19, <2>2, <2>3 DEF CloseJob
<1>20. ASSUME NEW u \in Closers, CloseServer(u) PROVE Goal
  <2>1. u \in Goroutines /\ TurnTo(u, jobs) /\ UNCHANGED <<state, stopped>>
        BY <1>20 DEF CloseServer, Goroutines, jobVars
  <2>2. Moves(u) /\ pc'[u] # "remove"
        BY <2>1, TurnToFacts DEF CoreInv, TypeOK
  <2> QED
      BY <1>1, <1>7, <2>1, <2>2 DEF Goal
<1>21. ASSUME UNCHANGED vars PROVE Goal
       BY <1>12, <1>21 DEF vars, goVars, jobVars
<1>22. ASSUME NEW u \in Goroutines, Locking(u) \/ Continue(u) PROVE Goal
       BY <1>10, <1>11, <1>13, <1>16, <1>17, <1>18, <1>19, <1>22 DEF Locking, Continue
<1>23. ASSUME Request PROVE Goal
       BY <1>8, <1>14, <1>20, <1>23 DEF Request
<1>24. ASSUME Tick PROVE Goal
       BY <1>11, <1>24 DEF Goroutines
<1>25. Goal
       BY <1>15, <1>21, <1>22, <1>23, <1>24 DEF Next
<1> QED
    BY <1>25 DEF Goal

\* One step of the service is at most one step of the life of each job.
LEMMA LifeStep ==
    ASSUME CoreInv, StrictInv, [Next]_vars, NEW j \in Jobs
    PROVE  [Life(j)!Next]_(Life(j)!vars)
<1> USE DEF Life!vars
<1>1. /\ state[j] \in {"none", "new", "active", "finished", "failed"}
      /\ files[j] \in {"none", "present", "removed"}
      /\ closed[j] \in BOOLEAN /\ stopped[j] \in {"zero", "recent", "old"}
      BY DEF CoreInv, TypeOK
<1>2. /\ worker[j] = "run" => state[j] = "active"
      /\ worker[j] \in {"ended", "remove"} => state[j] \in {"finished", "failed"}
      /\ worker[j] = "ended" => stopped[j] = "zero"
      /\ worker[j] = "remove" => closed[j] /\ stopped[j] # "zero"
      /\ watchdog[j] = "remove" => closed[j] /\ stopped[j] # "zero"
      /\ state[j] = "new" => worker[j] = "none" /\ watchdog[j] = "none" /\ stopped[j] = "zero"
      BY <1>1 DEF CoreInv, JobInv
<1>3. ASSUME UNCHANGED <<state, stopped, closed, files>>
      PROVE  [Life(j)!Next]_(Life(j)!vars)
      BY <1>3
<1>4. ASSUME UNCHANGED jobVars PROVE [Life(j)!Next]_(Life(j)!vars)
      BY <1>3, <1>4 DEF jobVars
<1>5. ASSUME state[j] = "new", state' = [state EXCEPT ![j] = "active"],
             UNCHANGED <<stopped, closed, files>>, Clickers = {} => ~closed[j]
      PROVE  Life(j)!Start
      BY <1>1, <1>2, <1>5 DEF Life!Start, CoreInv, TypeOK
<1>6. ASSUME closed[j], files' = [files EXCEPT ![j] = "removed"],
             Clickers = {} => state[j] = "new" \/ stopped[j] # "zero",
             UNCHANGED <<state, stopped, closed>>
      PROVE  [Life(j)!Next]_(Life(j)!vars)
  <2>1. files'[j] = "removed"
        BY <1>6 DEF CoreInv, TypeOK
  <2> QED
      BY <1>1, <1>6, <2>1 DEF Life!Next, Life!Remove
<1>7. ASSUME closed' = [closed EXCEPT ![j] = TRUE], UNCHANGED <<state, stopped, files>>
      PROVE  Life(j)!Close
      BY <1>7 DEF Life!Close, CoreInv, TypeOK
<1>8. ASSUME NEW t \in Goroutines, NEW k \in Jobs, NewJob(t, k)
      PROVE  [Life(j)!Next]_(Life(j)!vars)
  <2>1. /\ state[k] = "none" /\ files[k] = "none"
        /\ state' = [state EXCEPT ![k] = "new"] /\ files' = [files EXCEPT ![k] = "present"]
        /\ UNCHANGED <<stopped, closed>>
        BY <1>8 DEF NewJob, CoreInv, NoneInv
  <2> QED
      BY <1>1, <2>1 DEF CoreInv, TypeOK
<1>9. ASSUME NEW t \in Goroutines, NEW k \in Jobs, Click(t, k)
      PROVE  [Life(j)!Next]_(Life(j)!vars)
  <2>1. Clickers # {} /\ UNCHANGED <<stopped, closed, files>>
        BY <1>9 DEF Click
  <2>2. CASE state[k] = "new" /\ state' = [state EXCEPT ![k] = "active"]
    <3>1. CASE k = j
          BY <1>5, <2>1, <2>2, <3>1 DEF Life!Next
    <3>2. CASE k # j
          BY <2>1, <2>2, <3>2 DEF CoreInv, TypeOK
    <3> QED
        BY <3>1, <3>2
  <2> QED
      BY <1>3, <1>9, <2>1, <2>2 DEF Click
<1>10. ASSUME NEW t \in Goroutines, StartNext(t) PROVE [Life(j)!Next]_(Life(j)!vars)
  <2>1. scan.next \in Listed /\ scan.next \in Jobs /\ UNCHANGED <<stopped, closed, files>>
        BY <1>10 DEF StartNext, CoreInv, TypeOK, LockInv, ScanPicks
  <2>2. CASE state[scan.next] = "new" /\ state' = [state EXCEPT ![scan.next] = "active"]
    <3>1. CASE scan.next = j
      <4>1. ~closed[j]
            BY <1>2, <2>1, <2>2, <3>1 DEF CoreInv, ClosedInv
      <4> QED
          BY <1>5, <2>1, <2>2, <3>1, <4>1 DEF Life!Next
    <3>2. CASE scan.next # j
          BY <2>1, <2>2, <3>2 DEF CoreInv, TypeOK
    <3> QED
        BY <3>1, <3>2
  <2> QED
      BY <1>3, <1>10, <2>1, <2>2 DEF StartNext
<1>11. ASSUME NEW t \in Goroutines, CloseJob(t) PROVE [Life(j)!Next]_(Life(j)!vars)
  <2>1. closed' = [closed EXCEPT ![cur[t]] = TRUE] /\ UNCHANGED <<state, stopped, files>>
        BY <1>11 DEF CloseJob
  <2>2. CASE cur[t] = j
        BY <1>7, <2>1, <2>2 DEF Life!Next
  <2>3. CASE cur[t] # j
        BY <2>1, <2>3 DEF CoreInv, TypeOK
  <2> QED
      BY <2>2, <2>3
<1>12. ASSUME NEW t \in Goroutines, RemoveAll(t) PROVE [Life(j)!Next]_(Life(j)!vars)
  <2>1. /\ pc[t] = "remove" /\ files' = [files EXCEPT ![cur[t]] = "removed"]
        /\ UNCHANGED <<state, stopped, closed>>
        BY <1>12 DEF RemoveAll
  <2>2. closed[cur[t]] /\ (Clickers = {} => state[cur[t]] = "new" \/ stopped[cur[t]] # "zero")
        BY <2>1 DEF StrictInv, CoreInv, HandsInv, Hands
  <2>3. CASE cur[t] = j
        BY <1>6, <2>1, <2>2, <2>3
  <2>4. CASE cur[t] # j
        BY <2>1, <2>4 DEF CoreInv, TypeOK
  <2> QED
      BY <2>3, <2>4
<1>13. ASSUME NEW k \in Jobs, k # j, JobStep(k) \/ WatchdogCloses(k) \/ StoppedAges(k)
       PROVE  [Life(j)!Next]_(Life(j)!vars)
       BY <1>13 DEF JobStep, WorkerEnds, ProcessDone, WorkerRemoves, WatchdogRemoves,
          WatchdogCloses, StoppedAges, CoreInv, TypeOK
<1>14. ASSUME JobStep(j) \/ WatchdogCloses(j) \/ StoppedAges(j)
       PROVE  [Life(j)!Next]_(Life(j)!vars)
  <2>1. CASE WorkerEnds(j)
    <3>1. /\ state[j] = "active" /\ state'[j] \in {"finished", "failed"}
          /\ UNCHANGED <<stopped, closed, files>>
          BY <1>2, <2>1 DEF WorkerEnds, CoreInv, TypeOK
    <3> QED
        BY <3>1
  <2>2. CASE ProcessDone(j)
    <3>1. /\ stopped[j] = "zero" /\ stopped'[j] = "recent" /\ state[j] \in {"finished", "failed"}
          /\ UNCHANGED <<state, closed, files>>
          BY <1>2, <2>2 DEF ProcessDone, CoreInv, TypeOK
    <3> QED
        BY <3>1 DEF Life!Next, Life!Stop
  <2>3. CASE WorkerRemoves(j)
        BY <1>2, <1>6, <2>3 DEF WorkerRemoves
  <2>4. CASE WatchdogCloses(j)
        BY <1>7, <2>4 DEF WatchdogCloses, Life!Next
  <2>5. CASE WatchdogRemoves(j)
        BY <1>2, <1>6, <2>5 DEF WatchdogRemoves
  <2>6. CASE StoppedAges(j)
    <3>1. /\ stopped[j] # "zero" /\ stopped'[j] # "zero" /\ UNCHANGED <<state, closed, files>>
          BY <2>6 DEF StoppedAges, CoreInv, TypeOK
    <3> QED
        BY <3>1
  <2> QED
      BY <1>14, <2>1, <2>2, <2>3, <2>4, <2>5, <2>6 DEF JobStep
<1>15. ASSUME NEW t \in Goroutines, Locking(t) \/ Continue(t)
       PROVE  [Life(j)!Next]_(Life(j)!vars)
  <2>1. CASE AddJob(t) \/ Unlist(t) \/ UploadFails(t) \/ ScanJob(t) \/ ScanEnds(t)
             \/ ScanEndsIdle(t) \/ OpenResult(t) \/ Downloaded(t) \/ CopyFails(t)
        BY <1>4, <2>1 DEF AddJob, Unlist, UploadFails, ScanJob, ScanEnds, ScanEndsIdle,
           OpenResult, Downloaded, CopyFails
  <2>2. CASE Launch(t)
        BY <1>3, <2>2 DEF Launch
  <2> QED
      BY <1>10, <1>11, <1>12, <1>15, <2>1, <2>2 DEF Locking, Continue
<1>16. ASSUME Request PROVE [Life(j)!Next]_(Life(j)!vars)
  <2>1. ASSUME NEW t \in Goroutines, NEW k \in Jobs, Delete(t, k) \/ Find(t, k)
        PROVE  [Life(j)!Next]_(Life(j)!vars)
        BY <1>4, <2>1 DEF Delete, Find
  <2>2. ASSUME NEW t \in Closers, CloseServer(t) PROVE [Life(j)!Next]_(Life(j)!vars)
        BY <1>4, <2>2 DEF CloseServer
  <2>3. ASSUME NEW n \in Limits, SetMaxConcurrent(n) PROVE [Life(j)!Next]_(Life(j)!vars)
        BY <1>4, <2>3 DEF SetMaxConcurrent
  <2> QED
      BY <1>8, <1>9, <1>16, <2>1, <2>2, <2>3 DEF Request
<1>17. ASSUME Tick \/ UNCHANGED vars PROVE [Life(j)!Next]_(Life(j)!vars)
       BY <1>4, <1>17 DEF Tick, vars
<1> QED
    BY <1>13, <1>14, <1>15, <1>16, <1>17 DEF Next

\* Every job of the list goes through the lifecycle of a job: it is started at
\* most once, its files go when it has been closed, and never come back.  Where
\* nobody uses the buttons, no closed job is started and no files are removed
\* under a running process.
THEOREM JobsImplementLifecycle ==
    SafeSpec => ImplementsLifecycle
<1>1. Init => StrictInv
      BY DEF Init, StrictInv
<1>2. Init => \A j \in Jobs : Life(j)!Init
      BY DEF Init, Life!Init
<1>3. CoreInv /\ StrictInv /\ [Next]_vars =>
          [\A j \in Jobs : [Life(j)!Next]_(Life(j)!vars)]_vars
      BY LifeStep
<1> QED
    BY <1>1, <1>2, <1>3, StrictStep, Invariance, PTL DEF SafeSpec, ImplementsLifecycle

=============================================================================
