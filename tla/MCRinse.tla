------------------------------ MODULE MCRinse ------------------------------
(***************************************************************************)
(* Instances of Rinse for TLC.  Jobs and the goroutines of one handler are *)
(* interchangeable, but jobs are numbered and liveness is checked, so no   *)
(* symmetry is used.                                                       *)
(***************************************************************************)
EXTENDS Rinse

CONSTANTS post, rest, delete, get, ui, closer

NoOne  == {}
Forms  == {post}
Rests  == {rest}
Dels   == {delete}
Gets   == {get}
Clicks == {ui}
Closes == {closer}

One    == {1}
OneTwo == {1, 2}

\* CleanupSec below zero: jobs are never cleaned up.
Never == -1

=============================================================================
