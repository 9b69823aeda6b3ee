------------------------------ MODULE MCRatchet ------------------------------
(* Small instances of Ratchet for TLC. *)
EXTENDS Ratchet
=============================================================================
