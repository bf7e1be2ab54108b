------------------------------ MODULE MCSignup ------------------------------
(* Signing up for TLC. *)
EXTENDS Signup, TLC
Symmetry == Permutations(Creds) \cup Permutations(Tabs)
=============================================================================
