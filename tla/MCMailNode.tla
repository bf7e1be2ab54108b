----------------------------- MODULE MCMailNode -----------------------------
(* MailNode for TLC: sessions are interchangeable.                         *)
EXTENDS MailNode, TLC

Symmetry == Permutations(Sessions)
=============================================================================
