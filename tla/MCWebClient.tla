----------------------------- MODULE MCWebClient -----------------------------
(* A small instance of WebClient for TLC. *)
EXTENDS WebClientSessions, TLC

Symmetry == Permutations(Tab)
=============================================================================
