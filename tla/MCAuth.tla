------------------------------- MODULE MCAuth -------------------------------
(***************************************************************************)
(* Instances of Auth for TLC: tokens of two users, in the form of either   *)
(* issuer, with blanks around the name or nothing else in it, and one for  *)
(* each way a token can be wrong.  Only safety is checked, and nothing     *)
(* tells the requests apart, nor the sessions.                             *)
(***************************************************************************)
EXTENDS Auth, TLC

CONSTANTS r1, r2, s1, s2

Two      == {r1, r2}
TwoSess  == {s1, s2}
AnnBob   == {"ann", "bob"}
Blanks   == {" ann", " "}
NoBlanks == [n \in Blanks |-> IF n = " ann" THEN "ann" ELSE NoUser]
MineKeys == {"issuer", "other"}
TwoKids  == {"kid1", "kid2"}

\* The endpoint answers, with a chain of certificates for one name, or not.
Answers == {[k \in TwoKids |-> IF k = "kid1" THEN "issuer" ELSE "chain"],
            [k \in TwoKids |-> "absent"]}

\* A token of Ann that is good up to the second 1, of the newer issuer.
Good == [readable |-> TRUE, exp |-> 1, kid |-> "kid1", signer |-> "issuer",
         alg |-> TRUE, preferred |-> "ann", unique |-> "bob"]

OfBob == [Good EXCEPT !.preferred = NoUser, !.exp = 2]

OfPadded == {[OfBob EXCEPT !.unique = n] : n \in Blanks}

\* Bob's name on what nobody should accept.
Bad == {[OfBob EXCEPT !.readable = FALSE], [OfBob EXCEPT !.kid = "kid2"],
        [OfBob EXCEPT !.signer = "other"], [OfBob EXCEPT !.alg = FALSE],
        [OfBob EXCEPT !.unique = NoUser]}

SomeTokens == {Good, OfBob} \union OfPadded \union Bad

Symmetry == Permutations(Two) \union Permutations(TwoSess)

=============================================================================
