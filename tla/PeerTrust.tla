------------------------------ MODULE PeerTrust ------------------------------
(***************************************************************************)
(* Which peer CAs a node accepts: the durable registry (table peer_trust), *)
(* the in-memory snapshot that the certificate verifiers read, the admin   *)
(* API and the operator's CLI that change the registry, and the startup    *)
(* and rotation-timer refreshes of the snapshot.                           *)
(*                                                                         *)
(* A refresh reads the registry and then replaces the snapshot.  Refreshes *)
(* of several admin requests and of the timer interleave between the two.  *)
(***************************************************************************)
EXTENDS Integers, FiniteSets

CONSTANTS
  Slot,     \* operator commands: at most one in progress in each
  CA        \* fingerprints of peer CAs, as they are stored and compared

VARIABLES
  registry,   \* table peer_trust
  snapshot,   \* TrustStore.inner
  node,       \* the daemon: "down", "booting" (admin API up) or "serving"
  refresh,    \* the list in hand in refresh_trust (startup, then timer): {list} or {}
  pc,         \* where each operator command stands
  cmd,        \* what each operator command asks
  held,       \* the list in hand in each command's refresh_live: {list} or {}
  settled,    \* history: the admin API has confirmed what the registry says of the CA
  clean       \* history: no list was in hand when the CA was last written

vars == <<registry, snapshot, node, refresh, pc, cmd, held, settled, clean>>

-----------------------------------------------------------------------------
Ops == {"trust", "distrust"}

NoCmd == [op |-> "none"]

Cmd == [op : Ops, ca : CA] \cup {NoCmd}

Steps == {"idle", "write", "list", "replace", "direct"}

Init ==
  /\ registry = {}
  /\ snapshot = {}
  /\ node = "down"
  /\ refresh = {}
  /\ pc = [s \in Slot |-> "idle"]
  /\ cmd = [s \in Slot |-> NoCmd]
  /\ held = [s \in Slot |-> {}]
  /\ settled = [c \in CA |-> FALSE]
  /\ clean = [c \in CA |-> TRUE]

\* The command is over, confirmed or not.
End(s) ==
  /\ pc' = [pc EXCEPT ![s] = "idle"]
  /\ cmd' = [cmd EXCEPT ![s] = NoCmd]
  /\ held' = [held EXCEPT ![s] = {}]

-----------------------------------------------------------------------------
(***************************************************************************)
(* The daemon                                                              *)
(***************************************************************************)

\* The snapshot starts empty; the admin API is up before the first refresh.
NodeStart ==
  /\ node = "down"
  /\ node' = "booting"
  /\ UNCHANGED <<registry, snapshot, refresh, pc, cmd, held, settled, clean>>

\* refresh_trust, at startup and at every tick of the rotation timer: list ...
RefreshList ==
  /\ node # "down"
  /\ refresh = {}
  /\ refresh' = {registry}
  /\ UNCHANGED <<registry, snapshot, node, pc, cmd, held, settled, clean>>

\* Mutant of RefreshReplace: the timer rotates the leaf only.
RefreshReplace_LeafOnly ==
  /\ refresh # {}
  /\ snapshot' \in IF node = "booting" THEN refresh ELSE {snapshot}
  /\ refresh' = {}
  /\ node' = "serving"
  /\ UNCHANGED <<registry, pc, cmd, held, settled, clean>>

\* ... and replace.  After the first one the node accepts connections.
RefreshReplace ==
  /\ refresh # {}
  /\ snapshot' \in refresh
  /\ refresh' = {}
  /\ node' = "serving"
  /\ UNCHANGED <<registry, pc, cmd, held, settled, clean>>

\* A list that fails is logged and leaves the snapshot as it was; the node
\* starts to serve all the same.
RefreshError ==
  /\ node # "down"
  /\ refresh = {}
  /\ node' = "serving"
  /\ UNCHANGED <<registry, snapshot, refresh, pc, cmd, held, settled, clean>>

\* The process ends.  A command whose exchange breaks off is taken by its CLI
\* for one that found no daemon: admin_req gives None in both cases.
Crash ==
  /\ node # "down"
  /\ node' = "down"
  /\ snapshot' = {}
  /\ refresh' = {}
  /\ pc' = [s \in Slot |-> IF pc[s] = "idle" THEN "idle" ELSE "direct"]
  /\ held' = [s \in Slot |-> {}]
  /\ settled' = [c \in CA |-> FALSE]
  /\ UNCHANGED <<registry, cmd, clean>>

-----------------------------------------------------------------------------
(***************************************************************************)
(* Operator commands                                                       *)
(***************************************************************************)

\* peer trust | distrust: over the admin API if it answers, else on the database.
Command(s, op, c) ==
  /\ pc[s] = "idle"
  /\ pc' = [pc EXCEPT ![s] = IF node = "down" THEN "direct" ELSE "write"]
  /\ cmd' = [cmd EXCEPT ![s] = [op |-> op, ca |-> c]]
  /\ UNCHANGED <<registry, snapshot, node, refresh, held, settled, clean>>

ListInHand == refresh # {} \/ \E s \in Slot : held[s] # {}

\* How an operator may write a fingerprint: as it is stored, or with separators,
\* capitals or blanks.
Spellings(c) == [ca : {c}, canonical : BOOLEAN]

\* Mutant of Normalize: a fingerprint is stored and looked for as it was typed.
Normalize_AsTyped(fp) == IF fp.canonical THEN fp.ca ELSE fp

\* normalize: however it is spelled, the one form that is stored and compared.
Normalize(fp) == fp.ca

\* The INSERT ... ON CONFLICT or the DELETE, with the history it makes.  This is
\* the only step that looks at how the command spells its CA.
Write(s) ==
  LET c == cmd[s].ca
  IN  /\ \E fp \in Spellings(c) :
           registry' = IF cmd[s].op = "trust" THEN registry \cup {Normalize(fp)}
                                              ELSE registry \ {Normalize(fp)}
      /\ settled' = [settled EXCEPT ![c] = FALSE]
      /\ clean' = [clean EXCEPT ![c] = ~ListInHand]

AdminWrite(s) ==
  /\ pc[s] = "write"
  /\ Write(s)
  /\ pc' = [pc EXCEPT ![s] = "list"]
  /\ UNCHANGED <<snapshot, node, refresh, cmd, held>>

\* The command is confirmed; a later one may have overtaken it.
Confirm(s) ==
  settled' = [settled EXCEPT ![cmd[s].ca] =
                @ \/ (cmd[s].op = "trust" <=> cmd[s].ca \in registry)]

AdminList(s) ==
  /\ pc[s] = "list"
  /\ held' = [held EXCEPT ![s] = {registry}]
  /\ pc' = [pc EXCEPT ![s] = "replace"]
  /\ UNCHANGED <<registry, snapshot, node, refresh, cmd, settled, clean>>

\* Mutant of AdminReplace: the handler leaves the snapshot to the timer.
AdminReplace_Skip(s) ==
  /\ pc[s] = "replace"
  /\ Confirm(s)
  /\ End(s)
  /\ UNCHANGED <<registry, snapshot, node, refresh, clean>>

AdminReplace(s) ==
  /\ pc[s] = "replace"
  /\ snapshot' \in held[s]
  /\ Confirm(s)
  /\ End(s)
  /\ UNCHANGED <<registry, node, refresh, clean>>

\* A statement fails, or the CLI goes away and the handler is dropped at an await:
\* what was written stays written and the snapshot is not refreshed.
AdminFail(s) ==
  /\ pc[s] \in {"write", "list"}
  /\ End(s)
  /\ UNCHANGED <<registry, snapshot, node, refresh, settled, clean>>

\* The database is the daemon's alone while it runs, so the fallback fails if the
\* daemon is up (again).
DirectWrite(s) ==
  /\ pc[s] = "direct"
  /\ node = "down"
  /\ Write(s)
  /\ End(s)
  /\ UNCHANGED <<snapshot, node, refresh>>

DirectFail(s) ==
  /\ pc[s] = "direct"
  /\ End(s)
  /\ UNCHANGED <<registry, snapshot, node, refresh, settled, clean>>

SlotStep(s) ==
  \/ \E op \in Ops, c \in CA : Command(s, op, c)
  \/ AdminWrite(s)
  \/ AdminList(s)
  \/ AdminReplace(s)
  \/ AdminFail(s)
  \/ DirectWrite(s)
  \/ DirectFail(s)

Next ==
  \/ NodeStart
  \/ RefreshList
  \/ RefreshReplace
  \/ RefreshError
  \/ Crash
  \/ \E s \in Slot : SlotStep(s)

Spec == Init /\ [][Next]_vars

\* The runtime goes on with what it has begun, the timer keeps ticking, and not
\* every list of the registry fails.
Fairness ==
  /\ SF_vars(RefreshList)
  /\ WF_vars(RefreshReplace)
  /\ \A s \in Slot : WF_vars(AdminReplace(s))

FairSpec == Spec /\ Fairness

-----------------------------------------------------------------------------
(***************************************************************************)
(* Properties                                                              *)
(***************************************************************************)

\* Every variable holds values of its kind, the registry and what is read from it
\* only fingerprints a verifier can match; lists are held by a running daemon.
TypeOK ==
  /\ registry \subseteq CA
  /\ snapshot \subseteq CA
  /\ node \in {"down", "booting", "serving"}
  /\ refresh \in SUBSET SUBSET CA
  /\ pc \in [Slot -> Steps]
  /\ cmd \in [Slot -> Cmd]
  /\ held \in [Slot -> SUBSET SUBSET CA]
  /\ settled \in [CA -> BOOLEAN]
  /\ clean \in [CA -> BOOLEAN]
  /\ node = "down" => /\ snapshot = {}
                      /\ refresh = {}
                      /\ \A s \in Slot : pc[s] \in {"idle", "direct"}
  /\ \A s \in Slot : /\ pc[s] = "idle" <=> cmd[s] = NoCmd
                     /\ pc[s] # "replace" => held[s] = {}

\* A CA whose distrust was confirmed is refused from then on, unless some other
\* refresh had already read the registry when the row was deleted.
DistrustEnforcedUnlessRaced ==
  \A c \in CA : settled[c] /\ clean[c] /\ c \notin registry => c \notin snapshot

\* Whatever races, fails or crashes, a lasting trust decision reaches the
\* verifiers in the end, without a restart.
SnapshotCatchesUp ==
  \A c \in CA :
    /\ <>[](c \notin registry) => <>[](c \notin snapshot)
    /\ <>[](c \in registry /\ node = "serving") => <>[](c \in snapshot)

(***************************************************************************)
(* A statement of the documentation that the code does not keep.           *)
(***************************************************************************)

\* "Distrusting a CA refuses it on the very next handshake" (tls.rs:10): once the
\* command is confirmed the verifiers do not accept the CA.
DistrustRefusesNextHandshake ==
  \A c \in CA : settled[c] /\ c \notin registry => c \notin snapshot
=============================================================================
