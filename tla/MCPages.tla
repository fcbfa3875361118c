------------------------------ MODULE MCPages ------------------------------
(* Instances of Pages for TLC.                                             *)
EXTENDS Pages

CONSTANTS v1, v2

TwoViewers == {v1, v2}
OneViewer  == {v1}

OneThree == {1, 3}

=============================================================================
