---------------------------- MODULE MCRetrieval ----------------------------
(***************************************************************************)
(* Values of the constants of Retrieval for TLC.                           *)
(***************************************************************************)
EXTENDS Retrieval, TLC

CONSTANTS d1, p1, p2, q1, q2, v1, v2, v3

OneDoc == {d1}
TwoPassages == {p1, p2}
TwoRequests == {q1, q2}
ThreeReviews == {v1, v2, v3}

\* One document has all the passages.
InOneDoc == [p \in Passages |-> d1]
\* q1 asks; q2 asks, follows up, searches or writes a letter.
AskThenAnything == [q \in Requests |-> IF q = q1 THEN {"ask"} ELSE AllKinds]

ReviewSymmetry == Permutations({v1, v2, v3})
=============================================================================
