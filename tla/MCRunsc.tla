------------------------------ MODULE MCRunsc ------------------------------
(***************************************************************************)
(* Instances of Runsc for TLC.  Two or three lines and pipes that hold one *)
(* let the process block on a full pipe, and let a line be in the          *)
(* hands of a reader, in the pipe and yet to come at the same time.        *)
(***************************************************************************)
EXTENDS Runsc

=============================================================================
