---------------------------- MODULE MCWebMailbox ----------------------------
(* The tabs of a mailbox for TLC. *)
EXTENDS WebMailbox, TLC
=============================================================================
