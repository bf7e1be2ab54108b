----------------------------- MODULE MCRegistry -----------------------------
(* Registry for TLC: keys, nodes, invites and DEKs are interchangeable.     *)
EXTENDS Registry, TLC

Symmetry ==
    Permutations(Keys) \cup Permutations(Nodes) \cup Permutations(Domains)
    \cup Permutations(Invites) \cup Permutations(Deks)
=============================================================================
