----------------------------- MODULE MCRelayer -----------------------------
(* The relayer for TLC. *)
EXTENDS Relayer, TLC
Symmetry == Permutations(Calls)
=============================================================================
