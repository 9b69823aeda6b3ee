------------------------------- MODULE Ratchet -------------------------------
(***************************************************************************)
(* The Double Ratchet between the two ends of a session, over a network    *)
(* that loses, repeats, reorders and damages messages.  The body of a      *)
(* message is the party that sent it.                                      *)
(***************************************************************************)
EXTENDS RatchetState

CONSTANTS
  Initiator, Responder,  \* the two parties
  MaxSent,               \* bound: messages a party sends
  MaxSentNative,         \* bound, native: messages a party sends
  MaxRoot,               \* bound, native: values mixed into a root key
  MaxReceived            \* bound, native: steps of a receiving chain

ASSUME RatchetAssumption ==
  /\ Initiator # Responder
  /\ MaxSent \in Nat /\ MaxSentNative \in Nat
  /\ MaxRoot \in Nat /\ MaxReceived \in Nat

VARIABLES
  native,  \* the ends are RatchetStates in memory, and keep what a failed decrypt
           \* did to them; else the FFI's decrypt_message, which throws it away
  st,      \* the RatchetState of each party
  wire,    \* every message sent
  opened   \* the messages each party has opened

vars == <<native, st, wire, opened>>

-----------------------------------------------------------------------------
Party == {Initiator, Responder}
Peer(p) == IF p = Initiator THEN Responder ELSE Initiator

RatchetKey == Party \X Nat

\* No key is the absence of one.
ASSUME NoneAssumption ==
  None \notin RatchetKey \cup [root : Seq(SUBSET RatchetKey), i : Nat]

From(p) == {m \in wire : m.body = p}

\* initiate_session and accept_session, after a handshake that agreed.
Init ==
  /\ native \in BOOLEAN
  /\ LET prekey == <<Responder, 0>>
     IN  st = [p \in Party |->
                 IF p = Initiator THEN InitiatorState(<<>>, <<Initiator, 1>>, prekey)
                                  ELSE ResponderState(<<>>, prekey)]
  /\ wire = {}
  /\ opened = [p \in Party |-> {}]

\* encrypt, or encrypt_message of the FFI, which loads the session first.
Send(p) ==
  /\ Cardinality(From(p)) < IF native THEN MaxSentNative ELSE MaxSent
  /\ \E s \in IF native THEN {st[p]} ELSE Loaded(st[p]) :
       /\ CanSend(s)
       /\ wire' = wire \cup {Sealed(s, p)}
       /\ st' = [st EXCEPT ![p] = AfterSend(s)]
  /\ UNCHANGED <<native, opened>>

\* p is handed a message of its peer, damaged or intact, for the first time or again.
Deliver(p, m, intact) ==
  LET r == IF native THEN Decrypt(st[p], m, intact) ELSE DecryptMessage(st[p], m, intact)
  IN  /\ m \in From(Peer(p))
      /\ native => /\ Len(r.st.rk) <= MaxRoot
                   /\ r.st.ckr = None \/ r.st.ckr.i <= MaxReceived
      /\ st' = [st EXCEPT ![p] = r.st]
      /\ opened' = [opened EXCEPT ![p] = IF r.ok THEN @ \cup {m} ELSE @]
      /\ UNCHANGED <<native, wire>>

Next ==
  \E p \in Party :
    \/ Send(p)
    \/ \E m \in wire, intact \in BOOLEAN : Deliver(p, m, intact)

Spec == Init /\ [][Next]_vars

-----------------------------------------------------------------------------
(***************************************************************************)
(* Properties                                                              *)
(***************************************************************************)
\* Every variable holds values of its kind; a saved session has no more skipped
\* keys than from_bytes accepts.
TypeOK ==
  /\ native \in BOOLEAN
  /\ DOMAIN st = Party
  /\ \A p \in Party :
       /\ st[p].dhs \in RatchetKey
       /\ st[p].dhr \in RatchetKey \cup {None}
       /\ st[p].cks = None \/ st[p].cks.i \in Nat
       /\ st[p].ckr = None \/ st[p].ckr.i \in Nat
       /\ st[p].ns \in Nat /\ st[p].nr \in Nat /\ st[p].pn \in Nat
       /\ Cardinality(st[p].skipped) <= MaxStored
  /\ \A m \in wire : m.body \in Party /\ m.dh \in RatchetKey
  /\ \A p \in Party : opened[p] \subseteq From(Peer(p))

\* A session goes through the key store unchanged: from_bytes takes every blob that
\* to_bytes writes, one with a full store of skipped keys included, and gives back the
\* keys that are there, none for those that are not.
StoredSessionIsSame ==
  \A p \in Party : FromBytes(ToBytes(st[p])) = {st[p]}

\* No two messages are sealed with one key (key and nonce come from the message
\* key, so a second message under it would reuse a nonce).
KeysUsedOnce ==
  \A m, l \in wire : m.key = l.key => m = l

\* A message that was opened cannot be opened again, however old it is.
ReplayRefused ==
  \A p \in Party : \A m \in opened[p] : ~Decrypt(st[p], m, TRUE).ok

\* Forward secrecy: once a message is sent its sender, and once it is opened its
\* recipient, holds nothing from which its key can be computed.
ForwardSecrecy ==
  \A p \in Party :
    LET s == st[p]
    IN  \A m \in opened[p] \cup From(p) :
          /\ ~Derives(s.cks, m.key)
          /\ ~Derives(s.ckr, m.key)
          /\ \A e \in s.skipped : e.key # m.key

\* The messages p must skip over, to open m, in the chain it receives on now and in
\* the one that m starts.
GapBefore(s, m) == IF s.ckr = None \/ s.dhr = m.dh THEN 0 ELSE m.pn - s.nr
GapInChain(s, m) == IF s.dhr = m.dh /\ s.ckr # None THEN m.n - s.nr ELSE m.n

WithinSkip(s, m) == GapBefore(s, m) <= MaxSkip /\ GapInChain(s, m) <= MaxSkip

Positive(n) == IF n > 0 THEN n ELSE 0

\* There is room for the keys that are skipped on the way to m.
HasRoom(s, m) ==
  Banked(s, m) # {} \/
  Cardinality(s.skipped) + Positive(GapBefore(s, m)) + Positive(GapInChain(s, m))
    <= MaxStored

\* Through the FFI, whatever was lost, repeated, damaged or overtaken before, a
\* message that was not opened yet opens, if the gap before it is within MAX_SKIP and
\* the store has room for the keys skipped.
UnopenedOpens ==
  ~native => \A p \in Party : \A m \in From(Peer(p)) \ opened[p] :
    (Banked(st[p], m) # {} \/ WithinSkip(st[p], m)) /\ HasRoom(st[p], m)
      => DecryptMessage(st[p], m, TRUE).ok
=============================================================================
