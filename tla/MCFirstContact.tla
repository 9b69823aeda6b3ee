---------------------------- MODULE MCFirstContact ----------------------------
(* Small instances of FirstContact for TLC. *)
EXTENDS FirstContact

\* What follows an acceptance is explored while sessions can still be initiated.  An
\* acceptance enables nothing, and `accepted` is only read to excuse a refusal: whatever
\* else can follow it, and is wrong, is also wrong without it.
AcceptedWhileInitiating == accepted # {} => Len(initiated) < MaxInitiations
=============================================================================
