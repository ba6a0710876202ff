---------------------------- MODULE MCListingPage ----------------------------
(***************************************************************************)
(* An instance of ListingPage for TLC.                                     *)
(***************************************************************************)
EXTENDS ListingPage, TLC

CONSTANTS s, b1, b2   \* a seller and two buyers

MCSeller == [l \in Listings |-> s]

\* Conversations are opened where both pages open the same one: what a page
\* shows and does otherwise does not depend on it.
AskTogether == ask' = ask \/ \A p, q \in Pages : viewer[p] = viewer[q]

\* The buyers are interchangeable, and so are the pages.
Symmetry == Permutations({b1, b2}) \cup Permutations(Pages)
=============================================================================
