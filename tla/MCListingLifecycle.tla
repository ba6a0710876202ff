------------------------- MODULE MCListingLifecycle -------------------------
(***************************************************************************)
(* Small instances of ListingLifecycle for TLC.                            *)
(***************************************************************************)
EXTENDS ListingLifecycle, TLC

CONSTANTS s, b1, b2, r1, r2, l1, l2   \* a seller, two buyers, two slots, two listings

\* Every listing has the same seller.
MCSeller == [l \in Listings |-> s]

\* The buyers are interchangeable, and so are the slots.
Symmetry == Permutations({b1, b2}) \cup Permutations(Requests)
=============================================================================
