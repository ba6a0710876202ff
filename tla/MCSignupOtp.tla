----------------------------- MODULE MCSignupOtp -----------------------------
(***************************************************************************)
(* Instances of SignupOtp for TLC.                                         *)
(***************************************************************************)
EXTENDS SignupOtp, TLC

Symmetry == Permutations(Signups) \cup Permutations(Verifies)
=============================================================================
