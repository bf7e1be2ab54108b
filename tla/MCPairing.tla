----------------------------- MODULE MCPairing -----------------------------
(* Pairing for TLC. *)
EXTENDS Pairing
=============================================================================
