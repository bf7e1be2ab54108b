----------------------------- MODULE MCOpenPgp -----------------------------
(* The OpenPGP identity for TLC. *)
EXTENDS OpenPgp, TLC
=============================================================================
