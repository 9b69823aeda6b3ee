----------------------------- MODULE MCFederation -----------------------------
(* Small instances of Federation, and with it of NodePki, for TLC. *)
EXTENDS Federation

\* Bound: when two processes have met in the directory, no third CA is generated.
TwoCAsOnceRaced == raced => generated <= 2
=============================================================================
