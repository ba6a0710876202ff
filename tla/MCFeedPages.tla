----------------------------- MODULE MCFeedPages -----------------------------
(***************************************************************************)
(* An instance of FeedPages for TLC.                                       *)
(***************************************************************************)
EXTENDS FeedPages, TLC

\* Listings 2 and 3 were created in the same millisecond.
TiedCreation == [l \in Listings |-> IF l = 1 THEN 1 ELSE IF l = 4 THEN 3 ELSE 2]

Symmetry == Permutations(Requests)
=============================================================================
