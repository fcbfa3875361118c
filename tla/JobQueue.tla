------------------------------ MODULE JobQueue ------------------------------
(***************************************************************************)
(* What the job list promises to those who post jobs, with locks, loops    *)
(* and goroutines hidden: a queue that keeps its order, to which each job  *)
(* is added at most once, and from which the first job that waits is       *)
(* started, in one step, when fewer jobs of it run than the limit allows.  *)
(* Once closed it is empty for good.                                       *)
(*                                                                         *)
(* Rinse.tla implements it.                                                *)
(***************************************************************************)
EXTENDS Naturals, Sequences, FiniteSets

CONSTANTS
    Jobs,
    Limits,  \* the values the limit may have
    InTurn   \* BOOLEAN: is no job started before its turn?

VARIABLES
    queue,   \* the jobs in it, in order
    seen,    \* those that ever were
    open,    \* may jobs be added?
    limit,   \* how many of them may run
    phase    \* each job is "waiting", "running" or "stopped"

vars == <<queue, seen, open, limit, phase>>

Queued == {queue[i] : i \in DOMAIN queue}

Running == {j \in Queued : phase[j] = "running"}

Init ==
    /\ queue = <<>>
    /\ seen = {}
    /\ open = TRUE
    /\ limit \in Limits
    /\ phase = [j \in Jobs |-> "waiting"]

Add(j) ==
    /\ open
    /\ j \notin seen
    /\ queue' = Append(queue, j)
    /\ seen' = seen \union {j}
    /\ UNCHANGED <<open, limit, phase>>

\* No job before it waits, and there is room for one more.
HasTurn(j) ==
    /\ \E n \in DOMAIN queue :
          /\ queue[n] = j
          /\ \A i \in DOMAIN queue : i < n => phase[queue[i]] # "waiting"
    /\ Cardinality(Running) < limit

\* Where jobs need not wait for their turn, anybody who has seen one starts it.
Start(j) ==
    /\ phase[j] = "waiting"
    /\ IF InTurn THEN HasTurn(j) ELSE j \in seen
    /\ phase' = [phase EXCEPT ![j] = "running"]
    /\ UNCHANGED <<queue, seen, open, limit>>

Stop(j) ==
    /\ phase[j] = "running"
    /\ phase' = [phase EXCEPT ![j] = "stopped"]
    /\ UNCHANGED <<queue, seen, open, limit>>

\* The job in place n leaves the queue, the others keep their order.
Remove(n) ==
    /\ queue' = [i \in 1 .. Len(queue) - 1 |->
                    IF i < n THEN queue[i] ELSE queue[i + 1]]
    /\ UNCHANGED <<seen, open, limit, phase>>

SetLimit ==
    /\ limit' \in Limits
    /\ UNCHANGED <<queue, seen, open, phase>>

Close ==
    /\ open
    /\ open' = FALSE
    /\ queue' = <<>>
    /\ UNCHANGED <<seen, limit, phase>>

Next ==
    \/ \E j \in Jobs : Add(j) \/ Start(j) \/ Stop(j)
    \/ \E n \in DOMAIN queue : Remove(n)
    \/ SetLimit
    \/ Close

Spec == Init /\ [][Next]_vars

=============================================================================
