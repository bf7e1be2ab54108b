----------------------------- MODULE MCOutbound -----------------------------
(* Outgoing mail for TLC. *)
EXTENDS Outbound, TLC
Symmetry == Permutations(Jobs) \cup Permutations(Files)
=============================================================================
