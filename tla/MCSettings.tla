----------------------------- MODULE MCSettings -----------------------------
(***************************************************************************)
(* Instances of Settings for TLC: two administrators, and values below and *)
(* above the bounds loadSettings puts on them.  Three changes allow two    *)
(* that overlap after one that was saved.  Nothing tells the               *)
(* administrators apart, and only safety is checked.                       *)
(***************************************************************************)
EXTENDS Settings, TLC

CONSTANTS a, b

Two        == {a, b}
LimitSet   == {0, 3}
CleanupSet == {-1}
SizeSet    == {4096}

Symmetry == Permutations(Two)

=============================================================================
