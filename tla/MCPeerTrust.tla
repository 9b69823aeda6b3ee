----------------------------- MODULE MCPeerTrust -----------------------------
(* Small instances of PeerTrust for TLC. *)
EXTENDS PeerTrust
=============================================================================
