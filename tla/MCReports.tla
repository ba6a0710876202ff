------------------------------ MODULE MCReports ------------------------------
(***************************************************************************)
(* An instance of Reports for TLC: listings are alike, and so are users.   *)
(***************************************************************************)
EXTENDS Reports, TLC

Symmetry == Permutations(Listings) \cup Permutations(Reporters)
=============================================================================
