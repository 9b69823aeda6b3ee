------------------------------ MODULE Federation ------------------------------
(***************************************************************************)
(* A peer probes the node of NodePki over mutual TLS (`peer ping` on the   *)
(* peer's side) while the node's leaf rotates, its CA is re-keyed, it      *)
(* restarts and its operator changes whom it trusts.                       *)
(*                                                                         *)
(* In TLS 1.3 the client is through the handshake before the server has    *)
(* looked at the client's certificate: a refusal of it reaches the probe   *)
(* when it reads the answer.                                               *)
(***************************************************************************)
EXTENDS NodePki

VARIABLES
  admits,  \* the node's trust snapshot has the peer's CA
  probe    \* the peer's probe

fedVars == <<vars, admits, probe>>

-----------------------------------------------------------------------------
\* at: where the probe stands; pin: the CA of the node that the peer trusts; leaf:
\* the leaf the node presented, until it is verified; health: the CA of the answer.
\* History: due, the probe has to succeed; trusted, the node trusted the peer at some
\* time during it.
NoProbe ==
  [at |-> "none", pin |-> Missing, leaf |-> NoLeaf, health |-> Missing,
   due |-> FALSE, trusted |-> FALSE]

InFlight == probe.at \in {"certificate", "sent", "open"}

FedInit == Init /\ admits = FALSE /\ probe = NoProbe

\* probe_peer connects: the client config has the pins of this moment and a fresh leaf.
\* RotatingResolver::resolve answers with the node's leaf of this moment, for all of
\* this connection.
Connect ==
  /\ probe.at = "none"
  /\ pc[Daemon] = "up"
  /\ \E pin \in reported \cup {Missing} :
       probe' = [NoProbe EXCEPT
                   !.at = "certificate",
                   !.pin = pin,
                   !.leaf = leaf,
                   !.due = admits /\ pin = mem[Daemon].cert /\ ~raced /\ ~cut,
                   !.trusted = admits]
  /\ UNCHANGED <<vars, admits>>

\* PinnedServerCertVerifier on the peer, whose clock may be behind.
VerifyServerCert ==
  /\ probe.at = "certificate"
  /\ \E skew \in (-ClockSkew)..0 :
       probe' = [probe EXCEPT
                   !.at = IF VerifyPinnedChain(probe.leaf, probe.pin, skew)
                          THEN "sent" ELSE "refused",
                   !.leaf = NoLeaf]
  /\ UNCHANGED <<vars, admits>>

\* PinnedClientCertVerifier on the node, with the snapshot of this moment.
VerifyClientCert ==
  /\ probe.at = "sent"
  /\ probe' = [probe EXCEPT !.at = IF admits THEN "open" ELSE "refused"]
  /\ UNCHANGED <<vars, admits>>

\* Mutant of Health: the fingerprint is that of the certificate file.
Health_File ==
  /\ probe.at = "open"
  /\ probe' = [probe EXCEPT !.at = "answered", !.health = cert]
  /\ UNCHANGED <<vars, admits>>

\* GET /v1/health advertises the CA the daemon has in memory.
Health ==
  /\ probe.at = "open"
  /\ probe' = [probe EXCEPT !.at = "answered", !.health = mem[Daemon].cert]
  /\ UNCHANGED <<vars, admits>>

ProbeDone ==
  /\ probe.at \in {"answered", "refused"}
  /\ probe' = NoProbe
  /\ UNCHANGED <<vars, admits>>

\* The node's operator trusts or distrusts the peer (the steps of it are PeerTrust's).
Trust ==
  /\ admits' = ~admits
  /\ probe' = IF InFlight THEN [probe EXCEPT !.due = @ /\ probe.at = "open",
                                             !.trusted = @ \/ admits'] ELSE probe
  /\ UNCHANGED vars

\* A step of the node.  When the daemon ends the connection breaks and the probe with
\* it; while time passes the leaf under way ages, and may run out before it is verified.
NodeStep ==
  /\ Next
  /\ probe' =
       IF pc'[Daemon] # "up" THEN NoProbe
       ELSE IF probe.at = "certificate" /\ leaf'.left < leaf.left /\ probe.leaf.left >= 0
       THEN [probe EXCEPT !.leaf.left = @ - 1, !.due = @ /\ probe.leaf.left > 0]
       ELSE probe
  /\ UNCHANGED admits

FedNext ==
  \/ Connect \/ VerifyServerCert \/ VerifyClientCert \/ Health
  \/ ProbeDone \/ Trust \/ NodeStep

FedSpec == FedInit /\ [][FedNext]_fedVars

-----------------------------------------------------------------------------
(***************************************************************************)
(* Properties                                                              *)
(***************************************************************************)

\* "a probe succeeds only when both nodes trust each other's CA" (peer.rs:5): a probe
\* that is answered reports the CA that the peer pins, and the node trusted the peer
\* at some time during the probe, whatever was re-keyed, restarted or distrusted.
AnsweredMeansMutualTrust ==
  probe.at = "answered" => probe.health = probe.pin /\ probe.trusted

\* Conversely a probe between nodes that trust each other is answered: leaf rotations,
\* failed ones and a re-key of the files under way do not refuse it; only the end of
\* the daemon, a distrust, or a leaf that runs out under way do.
MutualTrustIsAnswered ==
  probe.at = "refused" => ~probe.due
=============================================================================
