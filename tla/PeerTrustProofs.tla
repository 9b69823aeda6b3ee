--------------------------- MODULE PeerTrustProofs ---------------------------
(***************************************************************************)
(* Proofs about PeerTrust, for any number of operators and peer CAs.       *)
(***************************************************************************)
EXTENDS PeerTrust, TLAPS

\* A list read after the last write of a CA says of it what the registry says.
\* DistrustEnforcedUnlessRaced needs it: the lists in hand are future snapshots.
ListsAgree ==
  \A c \in CA : clean[c] =>
    /\ \A l \in refresh : c \in l <=> c \in registry
    /\ \A s \in Slot : \A l \in held[s] : c \in l <=> c \in registry

TrustInv == TypeOK /\ ListsAgree /\ DistrustEnforcedUnlessRaced

\* There are no decisions at first.
LEMMA TrustInit == Init => TrustInv
BY DEF Init, TrustInv, TypeOK, Steps, Cmd, ListsAgree, DistrustEnforcedUnlessRaced

\* The registry write of a command leaves lists and snapshot alone, and marks
\* its CA as unsettled.
LEMMA WriteKeeps ==
  ASSUME TrustInv, NEW s \in Slot, pc[s] \in {"write", "direct"}, Write(s),
         UNCHANGED <<snapshot, refresh>>,
         \A t \in Slot : held'[t] = held[t] \/ held'[t] = {}
  PROVE  /\ registry' \subseteq CA
         /\ settled' \in [CA -> BOOLEAN]
         /\ clean' \in [CA -> BOOLEAN]
         /\ ListsAgree'
         /\ DistrustEnforcedUnlessRaced'
<1>1. PICK c \in CA : c = cmd[s].ca
  BY DEF TrustInv, TypeOK, Cmd, NoCmd
<1>n. registry' = IF cmd[s].op = "trust" THEN registry \cup {c} ELSE registry \ {c}
  BY <1>1, Zenon DEF Write, Spellings, Normalize
<1>2. /\ \A d \in CA : d # c => /\ d \in registry' <=> d \in registry
                                /\ settled'[d] = settled[d]
                                /\ clean'[d] = clean[d]
      /\ settled'[c] = FALSE
      /\ clean'[c] = ~ListInHand
  BY <1>1, <1>n DEF Write, TrustInv, TypeOK
<1>3. ListsAgree'
  BY <1>2, Zenon DEF TrustInv, ListsAgree, ListInHand
<1>4. DistrustEnforcedUnlessRaced'
  BY <1>2 DEF TrustInv, DistrustEnforcedUnlessRaced
<1>5. registry' \subseteq CA /\ settled' \in [CA -> BOOLEAN] /\ clean' \in [CA -> BOOLEAN]
  BY <1>1, <1>n DEF Write, TrustInv, TypeOK
<1> QED
  BY <1>3, <1>4, <1>5

\* The invariant is inductive, action by action.
LEMMA TrustNext == TrustInv /\ [Next]_vars => TrustInv'
<1> SUFFICES ASSUME TrustInv, [Next]_vars PROVE TrustInv'
  OBVIOUS
<1> USE DEF TrustInv
<1>1. CASE NodeStart
  BY <1>1 DEF NodeStart, TypeOK, ListsAgree, DistrustEnforcedUnlessRaced
<1>2. CASE RefreshList
  BY <1>2 DEF RefreshList, TypeOK, ListsAgree, DistrustEnforcedUnlessRaced
<1>3. CASE RefreshReplace
  <2>1. TypeOK'
    BY <1>3 DEF RefreshReplace, TypeOK
  <2>2. ListsAgree'
    BY <1>3 DEF RefreshReplace, ListsAgree
  <2>3. DistrustEnforcedUnlessRaced'
    BY <1>3 DEF RefreshReplace, ListsAgree, DistrustEnforcedUnlessRaced
  <2> QED
    BY <2>1, <2>2, <2>3
<1>4. CASE RefreshError
  BY <1>4 DEF RefreshError, TypeOK, ListsAgree, DistrustEnforcedUnlessRaced
<1>5. CASE Crash
  <2>1. TypeOK'
    BY <1>5 DEF Crash, TypeOK, Steps
  <2>2. ListsAgree' /\ DistrustEnforcedUnlessRaced'
    BY <1>5 DEF Crash, ListsAgree, DistrustEnforcedUnlessRaced
  <2> QED
    BY <2>1, <2>2
<1>6. ASSUME NEW s \in Slot, NEW op \in Ops, NEW c \in CA, Command(s, op, c)
      PROVE  TrustInv'
  <2>1. [op |-> op, ca |-> c] \in Cmd /\ [op |-> op, ca |-> c] # NoCmd
    BY DEF Cmd, NoCmd, Ops
  <2>2. TypeOK'
    BY <1>6, <2>1 DEF Command, TypeOK, Steps
  <2>3. ListsAgree' /\ DistrustEnforcedUnlessRaced'
    BY <1>6 DEF Command, ListsAgree, DistrustEnforcedUnlessRaced
  <2> QED
    BY <2>2, <2>3
<1>7. ASSUME NEW s \in Slot, AdminWrite(s) PROVE TrustInv'
  <2>1. /\ registry' \subseteq CA
        /\ settled' \in [CA -> BOOLEAN]
        /\ clean' \in [CA -> BOOLEAN]
        /\ ListsAgree'
        /\ DistrustEnforcedUnlessRaced'
    BY <1>7, WriteKeeps DEF AdminWrite
  <2>2. TypeOK'
    BY <1>7, <2>1 DEF AdminWrite, TypeOK, Steps
  <2> QED
    BY <2>1, <2>2
<1>8. ASSUME NEW s \in Slot, AdminList(s) PROVE TrustInv'
  <2>1. TypeOK'
    BY <1>8 DEF AdminList, TypeOK, Steps
  <2>2. \A t \in Slot : held'[t] = IF t = s THEN {registry} ELSE held[t]
    BY <1>8 DEF AdminList, TypeOK
  <2>3. ListsAgree' /\ DistrustEnforcedUnlessRaced'
    BY <1>8, <2>2 DEF AdminList, ListsAgree, DistrustEnforcedUnlessRaced
  <2> QED
    BY <2>1, <2>3
<1>9. ASSUME NEW s \in Slot, AdminReplace(s) PROVE TrustInv'
  <2>1. \A t \in Slot : held'[t] = IF t = s THEN {} ELSE held[t]
    BY <1>9 DEF AdminReplace, End, TypeOK
  <2>2. ListsAgree'
    BY <1>9, <2>1 DEF AdminReplace, ListsAgree
  <2>3. DistrustEnforcedUnlessRaced'
    BY <1>9 DEF AdminReplace, ListsAgree, DistrustEnforcedUnlessRaced
  <2>4. cmd[s].ca \in CA
    BY <1>9 DEF AdminReplace, TypeOK, Cmd, NoCmd
  <2>5. settled' \in [CA -> BOOLEAN]
    BY <1>9, <2>4 DEF AdminReplace, Confirm, TypeOK
  <2>6. cmd' \in [Slot -> Cmd]
    BY <1>9 DEF AdminReplace, End, TypeOK, Cmd
  <2>7. TypeOK'
    BY <1>9, <2>5, <2>6 DEF AdminReplace, End, TypeOK, Steps
  <2> QED
    BY <2>2, <2>3, <2>7
<1>10. ASSUME NEW s \in Slot, AdminFail(s) \/ DirectFail(s) PROVE TrustInv'
  <2>1. /\ End(s)
        /\ UNCHANGED <<registry, snapshot, node, refresh, settled, clean>>
    BY <1>10 DEF AdminFail, DirectFail
  <2>2. \A t \in Slot : held'[t] = IF t = s THEN {} ELSE held[t]
    BY <2>1 DEF End, TypeOK
  <2>3. ListsAgree' /\ DistrustEnforcedUnlessRaced'
    BY <2>1, <2>2 DEF ListsAgree, DistrustEnforcedUnlessRaced
  <2>4. cmd' \in [Slot -> Cmd]
    BY <2>1 DEF End, TypeOK, Cmd
  <2>5. TypeOK'
    BY <2>1, <2>4 DEF End, TypeOK, Steps
  <2> QED
    BY <2>3, <2>5
<1>11. ASSUME NEW s \in Slot, DirectWrite(s) PROVE TrustInv'
  <2>1. \A t \in Slot : held'[t] = held[t] \/ held'[t] = {}
    BY <1>11 DEF DirectWrite, End, TypeOK
  <2>2. /\ registry' \subseteq CA
        /\ settled' \in [CA -> BOOLEAN]
        /\ clean' \in [CA -> BOOLEAN]
        /\ ListsAgree'
        /\ DistrustEnforcedUnlessRaced'
    BY <1>11, <2>1, WriteKeeps DEF DirectWrite
  <2>3. cmd' \in [Slot -> Cmd]
    BY <1>11 DEF DirectWrite, End, TypeOK, Cmd
  <2>4. TypeOK'
    BY <1>11, <2>2, <2>3 DEF DirectWrite, End, TypeOK, Steps
  <2> QED
    BY <2>2, <2>4
<1>12. CASE UNCHANGED vars
  BY <1>12 DEF vars, TypeOK, ListsAgree, DistrustEnforcedUnlessRaced
<1> QED
  BY <1>1, <1>2, <1>3, <1>4, <1>5, <1>6, <1>7, <1>8, <1>9, <1>10, <1>11, <1>12
  DEF Next, SlotStep

\* The invariant of PeerTrust.
LEMMA TrustInvariant == Spec => []TrustInv
BY TrustInit, TrustNext, PTL DEF Spec

\* Every variable keeps values of its kind; in particular the registry, and every
\* list and snapshot made from it, hold canonical fingerprints only, however the
\* operators spell them.
THEOREM TrustTypeCorrect == Spec => []TypeOK
<1>1. TrustInv => TypeOK
  BY DEF TrustInv
<1> QED
  BY <1>1, TrustInvariant, PTL

\* A confirmed distrust that no earlier refresh was in flight to undo is enforced
\* by every later handshake, through crashes, failures and further commands.
THEOREM DistrustIsEnforced == Spec => []DistrustEnforcedUnlessRaced
<1>1. TrustInv => DistrustEnforcedUnlessRaced
  BY DEF TrustInv
<1> QED
  BY <1>1, TrustInvariant, PTL
=============================================================================
