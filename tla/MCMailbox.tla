------------------------------ MODULE MCMailbox ------------------------------
(* Small instances of Mailbox for TLC. *)
EXTENDS Mailbox, TLC

Symmetry ==
  Permutations(Client) \cup Permutations(EnvelopeId) \cup Permutations(Queue)

\* Requests outside the policy, below and above it (a .cfg cannot write -1).
OutsidePolicy == {-1, 3}
=============================================================================
