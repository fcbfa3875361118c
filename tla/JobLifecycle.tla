---------------------------- MODULE JobLifecycle ----------------------------
(***************************************************************************)
(* What a rinse job promises to its owner, with every thread, context and  *)
(* directory operation hidden: a job is started at most once, it stops     *)
(* once started, and its working directory is removed exactly when it has  *)
(* been closed, after which the files never come back.                     *)
(*                                                                         *)
(* Job.tla implements it for one job and all its threads; Rinse.tla for    *)
(* every job of the list.                                                  *)
(***************************************************************************)
CONSTANT Serialized   \* BOOLEAN: are starts and closes ordered by one lock?

VARIABLES
    phase,    \* "new", "running" or "stopped"
    closed,   \* has Close been called?
    files     \* is the working directory "present" or "removed"?

vars == <<phase, closed, files>>

TypeOK ==
    /\ phase \in {"new", "running", "stopped"}
    /\ closed \in BOOLEAN
    /\ files \in {"present", "removed"}

Init ==
    /\ phase = "new"
    /\ closed = FALSE
    /\ files = "present"

\* Where starts are ordered with closes, a closed job is not started.
Start ==
    /\ phase = "new"
    /\ Serialized => ~closed
    /\ phase' = "running"
    /\ UNCHANGED <<closed, files>>

Stop ==
    /\ phase = "running"
    /\ phase' = "stopped"
    /\ UNCHANGED <<closed, files>>

Close ==
    /\ closed' = TRUE
    /\ UNCHANGED <<phase, files>>

\* Where starts are ordered with closes, the files of a job are not removed
\* under its running process.
Remove ==
    /\ closed
    /\ files = "present"
    /\ Serialized => phase # "running"
    /\ files' = "removed"
    /\ UNCHANGED <<phase, closed>>

Next == Start \/ Stop \/ Close \/ Remove

Fairness == WF_vars(Stop) /\ WF_vars(Remove)

SafeSpec == Init /\ [][Next]_vars

Spec == SafeSpec /\ Fairness

=============================================================================
