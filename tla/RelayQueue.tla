----------------------------- MODULE RelayQueue ------------------------------
(***************************************************************************)
(* The life of an envelope in a relay's tables, whatever happens to        *)
(* requests, waiters and the process:                                      *)
(*   - an accepted envelope stays until it is acknowledged or its deadline *)
(*     has passed, and no deadline is further away than LongestTtl;        *)
(*   - it is acknowledged at most once, and never comes back;              *)
(*   - an acknowledgement owes a receipt; the receipt is recorded once, by *)
(*     the request that owes it, or is lost for good with that request.    *)
(*                                                                         *)
(* This is what the statements of the Turso adapter leave behind.  The     *)
(* MailboxRepo port promises more in two points, and the actions that go   *)
(* beyond its words have names of their own: AcknowledgeLate, where the    *)
(* port says an expired envelope is "not present" (ports.rs:38), and Lose, *)
(* where it says that ack records a receipt (ports.rs:37).                 *)
(***************************************************************************)
EXTENDS Integers

CONSTANTS EnvelopeId, LongestTtl

VARIABLES accepted, acked, owing, receipted, forgotten, deadline, now

vars == <<accepted, acked, owing, receipted, forgotten, deadline, now>>

Init ==
  /\ accepted = {}
  /\ acked = {}
  /\ owing = {}
  /\ receipted = {}
  /\ forgotten = {}
  /\ deadline = [e \in EnvelopeId |-> 0]
  /\ now = 0

Accept(e, d) ==
  /\ e \notin accepted
  /\ d <= now + LongestTtl
  /\ accepted' = accepted \cup {e}
  /\ deadline' = [deadline EXCEPT ![e] = d]
  /\ UNCHANGED <<acked, owing, receipted, forgotten, now>>

\* The row is marked; its receipt is still to be written.
Mark(e) ==
  /\ e \in accepted \ (acked \cup forgotten)
  /\ acked' = acked \cup {e}
  /\ owing' = owing \cup {e}
  /\ UNCHANGED <<accepted, receipted, forgotten, deadline, now>>

Acknowledge(e) == now < deadline[e] /\ Mark(e)

\* Beyond the port: expired, and not yet swept.
AcknowledgeLate(e) == deadline[e] <= now /\ Mark(e)

Record(e) ==
  /\ e \in owing
  /\ owing' = owing \ {e}
  /\ receipted' = receipted \cup {e}
  /\ UNCHANGED <<accepted, acked, forgotten, deadline, now>>

\* Beyond the port: the requests that owe the receipts of S end without them.
Lose(S) ==
  /\ S \subseteq owing
  /\ owing' = owing \ S
  /\ UNCHANGED <<accepted, acked, receipted, forgotten, deadline, now>>

Forget(S) ==
  /\ S \subseteq accepted \ forgotten
  /\ \A e \in S : deadline[e] <= now
  /\ forgotten' = forgotten \cup S
  /\ UNCHANGED <<accepted, acked, owing, receipted, deadline, now>>

Advance ==
  /\ now' = now + 1
  /\ UNCHANGED <<accepted, acked, owing, receipted, forgotten, deadline>>

Next ==
  \/ \E e \in EnvelopeId : \E d \in 1..(now + LongestTtl) : Accept(e, d)
  \/ \E e \in EnvelopeId : Acknowledge(e) \/ AcknowledgeLate(e) \/ Record(e)
  \/ \E S \in SUBSET EnvelopeId : Lose(S) \/ Forget(S)
  \/ Advance

Spec == Init /\ [][Next]_vars
=============================================================================
