------------------------------ MODULE MCNodePki ------------------------------
(* Small instances of NodePki for TLC. *)
EXTENDS NodePki
=============================================================================
