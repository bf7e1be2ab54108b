----------------------------- MODULE MCPasskeys -----------------------------
(* The passkey prompts of a page for TLC. *)
EXTENDS Passkeys, TLC
=============================================================================
