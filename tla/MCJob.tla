------------------------------- MODULE MCJob -------------------------------
(***************************************************************************)
(* Instances of Job for TLC.  A user interface goroutine (Ui) may start    *)
(* and close the job (uijobbutton.go), the scheduler may start it, a       *)
(* request handler may close it.  Two callers of each kind are enough for  *)
(* every pairwise race; the symmetry between them is not used because      *)
(* liveness is checked.                                                    *)
(***************************************************************************)
EXTENDS Job

CONSTANTS Ui, Scheduler, Handler

MCStarters == {Ui, Scheduler}
MCClosers  == {Ui, Handler}

=============================================================================
