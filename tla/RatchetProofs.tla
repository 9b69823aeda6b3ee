---------------------------- MODULE RatchetProofs ----------------------------
(***************************************************************************)
(* Proofs about Ratchet.  The end that started the session seals with keys *)
(* of odd length, the other end with keys of even length.  Each end is     *)
(* past every key it sealed with, on its sending chain, and past every key *)
(* of a message it opened, on its receiving chain.                         *)
(***************************************************************************)
EXTENDS RatchetLemmas

-----------------------------------------------------------------------------
RatchetInv ==
  /\ native \in BOOLEAN
  /\ st \in [Party -> Session]
  /\ \A p \in Party : Sound(st[p])
  /\ Parity(st[Initiator].rk) = 1 /\ Parity(st[Responder].rk) = 0
  /\ wire \subseteq Message
  /\ \A m \in wire : Spent(st[m.body], m.key)
  /\ KeysUsedOnce
  /\ opened \in [Party -> SUBSET wire]
  /\ \A p \in Party : opened[p] \subseteq From(Peer(p))
  /\ \A p \in Party : \A m \in opened[p] : Gone(st[p], m.key)

\* It holds after initiate_session and accept_session.
LEMMA RatchetInit == Init => RatchetInv
<1> SUFFICES ASSUME Init
             PROVE  RatchetInv
  BY Zenon
<1> USE RatchetAssumption, RatchetStateAssumption
<1> DEFINE prekey == <<Responder, 0>>
           dh == DiffieHellman(<<Initiator, 1>>, prekey)
           rk == Append(<<>>, dh)
           ck == [root |-> rk, i |-> 0]
           a == st[Initiator]
           b == st[Responder]
<1>1. prekey \in RatchetKey /\ <<Initiator, 1>> \in RatchetKey
  BY Zenon DEF RatchetKey, Party
<1>2. rk \in Root /\ Len(rk) = 1
  <2>1. dh \in SUBSET RatchetKey
    BY <1>1, Zenon DEF DiffieHellman
  <2> HIDE DEF dh
  <2> QED  BY <2>1 DEF Root
<1>3. <<>> \in Root /\ Len(<<>>) = 0
  BY DEF Root
<1> HIDE DEF dh, rk
<1>4. ck \in ChainKey /\ ck.root = rk
  BY <1>2, Zenon DEF ChainKey
<1>5. a = [dhs |-> <<Initiator, 1>>, dhr |-> prekey, rk |-> rk, cks |-> ck, ckr |-> None,
           ns |-> 0, nr |-> 0, pn |-> 0, skipped |-> {}]
  BY Zenon DEF Init, InitiatorState, KdfRk, Party, rk, dh
<1>6. b = [dhs |-> prekey, dhr |-> None, rk |-> <<>>, cks |-> None, ckr |-> None,
           ns |-> 0, nr |-> 0, pn |-> 0, skipped |-> {}]
  BY Zenon DEF Init, ResponderState, Party
<1> HIDE DEF ck, prekey
<1>7. a \in Session /\ b \in Session
  BY <1>1, <1>2, <1>3, <1>4, <1>5, <1>6 DEF Session
<1>8. /\ a.rk = rk /\ a.cks = ck /\ a.ckr = None /\ a.skipped = {}
      /\ b.rk = <<>> /\ b.cks = None /\ b.ckr = None /\ b.skipped = {}
  BY <1>5, <1>6
<1>9. st \in [Party -> Session]
  <2>1. st = [p \in Party |-> IF p = Initiator THEN a ELSE b]
    BY Zenon DEF Init, Party
  <2> QED  BY <1>7, <2>1, Zenon
<1> HIDE DEF a, b
<1>10. Sound(a) /\ Sound(b)
  BY <1>4, <1>7, <1>8, FS_EmptySet DEF Sound
<1>11. Parity(a.rk) = 1 /\ Parity(b.rk) = 0
  <2>1. 1 % 2 = 1 /\ 0 % 2 = 0
    OBVIOUS
  <2> QED  BY <1>2, <1>3, <1>8, <2>1, Zenon DEF Parity
<1>12. wire = {} /\ opened = [p \in Party |-> {}] /\ native \in BOOLEAN
  BY Zenon DEF Init
<1>13. \A p \in Party : Sound(st[p])
  BY <1>10, Zenon DEF Party, a, b
<1> QED  BY <1>9, <1>11, <1>12, <1>13, Zenon DEF RatchetInv, KeysUsedOnce, a, b

\* encrypt seals with a key that is not spent, and spends it.
LEMMA SendKeeps ==
  ASSUME RatchetInv, NEW p \in Party, Send(p)
  PROVE  RatchetInv'
<1> USE RatchetAssumption
<1> DEFINE s == st[p]
           t == AfterSend(s)
           m == Sealed(s, p)
<1>1. Sound(s)
  BY Zenon DEF RatchetInv
<1>2. Loaded(s) = {s}
  BY <1>1, LoadedIsSame, Zenon DEF Loaded
<1>3. /\ s.cks # None
      /\ wire' = wire \cup {m}
      /\ st' = [st EXCEPT ![p] = t]
      /\ native' = native /\ opened' = opened
  BY <1>2, Zenon DEF Send, CanSend
<1>4. /\ s \in Session /\ s.dhs \in RatchetKey /\ s.pn \in Nat /\ s.ns \in Nat
      /\ s.cks \in ChainKey /\ s.cks.root = s.rk /\ s.cks.i \in Nat
  BY <1>1, <1>3, SessionTypes, Zenon
<1>5. /\ m \in Message /\ m.key = s.cks /\ m.body = p
  BY <1>4, Zenon DEF Sealed, Message
<1>6. /\ NextCk(s.cks) \in ChainKey
      /\ NextCk(s.cks).root = s.rk /\ NextCk(s.cks).i = s.cks.i + 1
  BY <1>4 DEF NextCk, ChainKey
<1>7. /\ t \in Session
      /\ t.rk = s.rk /\ t.cks = NextCk(s.cks) /\ t.ckr = s.ckr /\ t.skipped = s.skipped
  <2>1. s.ns + 1 \in Nat
    BY <1>4
  <2> QED  BY <1>4, <1>6, <2>1, Zenon DEF AfterSend, Session
<1>8. /\ st \in [Party -> Session] /\ wire \subseteq Message /\ opened \in [Party -> SUBSET wire]
  BY Zenon DEF RatchetInv
<1>9. /\ st' \in [Party -> Session] /\ st'[p] = t
      /\ \A o \in Party : o # p => st'[o] = st[o]
  <2> HIDE DEF t
  <2> QED  BY <1>3, <1>7, <1>8, Zenon
<1> HIDE DEF t, m
<1>10. /\ \A k : Past(s, k) <=> Past(t, k)
       /\ \A k : Gone(s, k) <=> Gone(t, k)
  BY <1>7, Zenon DEF Past, Gone
<1>11. Sound(t)
  BY <1>1, <1>6, <1>7, <1>10, Zenon DEF Sound
<1>12. ASSUME NEW k \in ChainKey, Spent(s, k)
       PROVE  Spent(t, k)
  <2>1. k.i \in Nat
    BY <1>1, SessionTypes, Zenon
  <2>2. k.i < s.cks.i => k.i < s.cks.i + 1
    BY <1>4, <2>1
  <2> QED  BY <1>3, <1>6, <1>7, <1>12, <2>2, Zenon DEF Spent
<1>13. Spent(t, s.cks)
  <2>1. Len(s.rk) \in Nat
    BY <1>1, SessionTypes, Zenon
  <2>2. Len(s.rk) <= Len(s.rk) /\ s.cks.i < s.cks.i + 1
    BY <1>4, <2>1
  <2> QED  BY <1>4, <1>6, <1>7, <2>2, Zenon DEF Spent
<1>14. ASSUME NEW l \in wire
       PROVE  l.key # s.cks
  <2>1. l \in Message /\ Spent(st[l.body], l.key)
    BY Zenon DEF RatchetInv
  <2>2. l.body \in Party
    BY <2>1, Zenon DEF Message
  <2>3. CASE l.body = p
    <3>1. ~(s.cks.i < s.cks.i)
      BY <1>4
    <3> QED  BY <1>3, <1>4, <2>1, <2>3, <3>1, Zenon DEF Spent
  <2>4. CASE l.body # p
    <3>1. Parity(st[l.body].rk) # Parity(s.rk)
      BY <2>2, <2>4 DEF RatchetInv, Party
    <3> QED  BY <1>4, <2>1, <3>1, Zenon DEF Spent
  <2> QED  BY <2>3, <2>4, Zenon
<1>15. KeysUsedOnce'
  BY <1>3, <1>5, <1>14, ZenonT(60) DEF KeysUsedOnce, RatchetInv
<1>16. \A l \in wire' : Spent(st'[l.body], l.key)
  <2> SUFFICES ASSUME NEW l \in wire'
               PROVE  Spent(st'[l.body], l.key)
    BY Zenon
  <2>1. CASE l = m
    BY <1>5, <1>9, <1>13, <2>1, Zenon
  <2>2. CASE l \in wire
    <3>1. l.key \in ChainKey /\ l.body \in Party /\ Spent(st[l.body], l.key)
      BY <1>8, <2>2, Zenon DEF Message, RatchetInv
    <3> QED  BY <1>9, <1>12, <3>1, Zenon
  <2> QED  BY <1>3, <2>1, <2>2, Zenon
<1>17. \A o \in Party : Sound(st'[o])
  BY <1>9, <1>11, Zenon DEF RatchetInv
<1>18. Parity(st'[Initiator].rk) = 1 /\ Parity(st'[Responder].rk) = 0
  BY <1>7, <1>9, Zenon DEF RatchetInv, Party
<1>19. wire' \subseteq Message /\ opened' \in [Party -> SUBSET wire']
  <2>1. wire \subseteq wire'
    BY <1>3, Zenon
  <2> QED  BY <1>3, <1>5, <1>8, <2>1, Zenon
<1>20. \A o \in Party : opened'[o] \subseteq From(Peer(o))'
  BY <1>3, Zenon DEF RatchetInv, From
<1>21. \A o \in Party : \A l \in opened'[o] : Gone(st'[o], l.key)
  BY <1>3, <1>9, <1>10, Zenon DEF RatchetInv
<1>22. native' \in BOOLEAN
  BY <1>3, Zenon DEF RatchetInv
<1> QED  BY <1>9, <1>15, <1>16, <1>17, <1>18, <1>19, <1>20, <1>21, <1>22, Zenon DEF RatchetInv

\* decrypt, in memory or through the FFI, keeps the recipient's chains in order and
\* what it opened behind them.
LEMMA DeliverKeeps ==
  ASSUME RatchetInv, NEW p \in Party, NEW m \in wire, NEW intact \in BOOLEAN,
         Deliver(p, m, intact)
  PROVE  RatchetInv'
<1> USE RatchetAssumption
<1> DEFINE s == st[p]
           r == IF native THEN Decrypt(s, m, intact) ELSE DecryptMessage(s, m, intact)
<1>1. Sound(s) /\ m \in Message
  BY Zenon DEF RatchetInv
<1>2. /\ m \in From(Peer(p))
      /\ st' = [st EXCEPT ![p] = r.st]
      /\ opened' = [opened EXCEPT ![p] = IF r.ok THEN @ \cup {m} ELSE @]
      /\ native' = native /\ wire' = wire
  BY Zenon DEF Deliver
<1>3. /\ Forward(s, r.st)
      /\ r.ok => Gone(r.st, m.key)
  <2>1. CASE r = Decrypt(s, m, intact)
    <3>1. /\ Forward(s, Decrypt(s, m, intact).st)
          /\ Decrypt(s, m, intact).ok => Gone(Decrypt(s, m, intact).st, m.key)
      BY <1>1, DecryptForward, Zenon
    <3> HIDE DEF r
    <3> QED  BY <2>1, <3>1, Zenon
  <2>2. CASE r = Failed(s)
    BY <1>1, <2>2, ForwardStays DEF Failed
  <2> QED  BY <1>1, <2>1, <2>2, DecryptMessageIs, Zenon
<1> HIDE DEF r
<1>4. Sound(r.st) /\ r.st \in Session /\ Parity(r.st.rk) = Parity(s.rk)
  BY <1>3, Zenon DEF Forward, Sound
<1>5. /\ st \in [Party -> Session] /\ wire \subseteq Message /\ opened \in [Party -> SUBSET wire]
  BY Zenon DEF RatchetInv
<1>6. /\ st' \in [Party -> Session] /\ st'[p] = r.st
      /\ \A o \in Party : o # p => st'[o] = st[o]
  BY <1>2, <1>4, <1>5, Zenon
<1>7. /\ opened' \in [Party -> SUBSET wire']
      /\ opened'[p] = IF r.ok THEN opened[p] \cup {m} ELSE opened[p]
      /\ \A o \in Party : o # p => opened'[o] = opened[o]
  BY <1>2, <1>5, Zenon
<1>8. ASSUME NEW k \in ChainKey, Gone(s, k)
      PROVE  Gone(r.st, k)
  BY <1>3, <1>8, Zenon DEF Forward, Gone
<1>9. \A l \in wire : l.key \in ChainKey /\ l.body \in Party
  BY <1>5, Zenon DEF Message
<1>10. \A o \in Party : \A l \in opened'[o] : Gone(st'[o], l.key)
  <2> SUFFICES ASSUME NEW o \in Party, NEW l \in opened'[o]
               PROVE  Gone(st'[o], l.key)
    BY Zenon
  <2>1. CASE o # p
    BY <1>6, <1>7, <2>1, Zenon DEF RatchetInv
  <2>2. CASE o = p /\ l \in opened[p]
    <3>1. l.key \in ChainKey /\ Gone(s, l.key)
      BY <1>5, <1>9, <2>2, Zenon DEF RatchetInv
    <3> QED  BY <1>6, <1>8, <2>2, <3>1, Zenon
  <2>3. CASE o = p /\ l = m /\ r.ok
    BY <1>3, <1>6, <2>3, Zenon
  <2> QED  BY <1>7, <2>1, <2>2, <2>3, Zenon
<1>11. \A l \in wire' : Spent(st'[l.body], l.key)
  <2> SUFFICES ASSUME NEW l \in wire
               PROVE  Spent(st'[l.body], l.key)
    BY <1>2, Zenon
  <2>1. l.key \in ChainKey /\ l.body \in Party /\ Spent(st[l.body], l.key)
    BY <1>9, Zenon DEF RatchetInv
  <2> QED  BY <1>3, <1>6, <2>1, Zenon DEF Forward
<1>12. \A o \in Party : Sound(st'[o])
  BY <1>4, <1>6, Zenon DEF RatchetInv
<1>13. Parity(st'[Initiator].rk) = 1 /\ Parity(st'[Responder].rk) = 0
  BY <1>4, <1>6, Zenon DEF RatchetInv, Party
<1>14. \A o \in Party : opened'[o] \subseteq From(Peer(o))'
  BY <1>2, <1>7, ZenonT(60) DEF RatchetInv, From
<1>15. KeysUsedOnce' /\ native' \in BOOLEAN /\ wire' \subseteq Message
  BY <1>2, Zenon DEF RatchetInv, KeysUsedOnce
<1> QED  BY <1>6, <1>7, <1>10, <1>11, <1>12, <1>13, <1>14, <1>15, Zenon DEF RatchetInv

\* It is inductive.
LEMMA RatchetStep == RatchetInv /\ [Next]_vars => RatchetInv'
<1> SUFFICES ASSUME RatchetInv, [Next]_vars
             PROVE  RatchetInv'
  BY Zenon
<1>1. CASE Next
  BY <1>1, SendKeeps, DeliverKeeps, Zenon DEF Next
<1>2. CASE UNCHANGED vars
  BY <1>2, Zenon DEF vars, RatchetInv, KeysUsedOnce, From
<1> QED  BY <1>1, <1>2, Zenon

\* The invariant of Ratchet.
LEMMA RatchetInvariant == Spec => []RatchetInv
BY RatchetInit, RatchetStep, PTL DEF Spec

-----------------------------------------------------------------------------
\* Every variable keeps values of its kind, and a session never holds more skipped keys
\* than from_bytes accepts, for every MAX_SKIP and MAX_STORED_SKIPPED.
THEOREM RatchetTypeCorrect == Spec => []TypeOK
<1>1. RatchetInv => TypeOK
  <2> SUFFICES ASSUME RatchetInv
               PROVE  TypeOK
    BY Zenon
  <2>1. ASSUME NEW p \in Party
        PROVE  /\ st[p].dhs \in RatchetKey
               /\ st[p].dhr \in RatchetKey \cup {None}
               /\ st[p].cks = None \/ st[p].cks.i \in Nat
               /\ st[p].ckr = None \/ st[p].ckr.i \in Nat
               /\ st[p].ns \in Nat /\ st[p].nr \in Nat /\ st[p].pn \in Nat
               /\ Cardinality(st[p].skipped) <= MaxStored
    <3>1. Sound(st[p])
      BY Zenon DEF RatchetInv
    <3>2. st[p].dhr \in RatchetKey \cup {None} /\ Cardinality(st[p].skipped) <= MaxStored
      BY <3>1, Zenon DEF Sound, Session
    <3> QED  BY <3>1, <3>2, SessionTypes, Zenon
  <2>2. \A m \in wire : m.body \in Party /\ m.dh \in RatchetKey
    BY Zenon DEF RatchetInv, Message
  <2>3. DOMAIN st = Party /\ native \in BOOLEAN
    BY Zenon DEF RatchetInv
  <2>4. \A p \in Party : opened[p] \subseteq From(Peer(p))
    BY Zenon DEF RatchetInv
  <2> QED  BY <2>1, <2>2, <2>3, <2>4, Zenon DEF TypeOK
<1> QED  BY <1>1, RatchetInvariant, PTL

\* Whatever was sent, lost, skipped or damaged before, and however many skipped keys a
\* session holds, from_bytes gives back the session that to_bytes wrote.
THEOREM SessionsSurviveStorage == Spec => []StoredSessionIsSame
<1>1. RatchetInv => StoredSessionIsSame
  BY LoadedIsSame, Zenon DEF RatchetInv, StoredSessionIsSame
<1> QED  BY <1>1, RatchetInvariant, PTL

\* No two messages of a session are sealed with one key, in either direction.
THEOREM MessageKeysAreUsedOnce == Spec => []KeysUsedOnce
<1>1. RatchetInv => KeysUsedOnce
  BY Zenon DEF RatchetInv
<1> QED  BY <1>1, RatchetInvariant, PTL

\* decrypt never opens a message a second time.
THEOREM ReplaysAreRefused == Spec => []ReplayRefused
<1>1. RatchetInv => ReplayRefused
  <2> SUFFICES ASSUME RatchetInv, NEW p \in Party, NEW m \in opened[p]
               PROVE  ~Decrypt(st[p], m, TRUE).ok
    BY Zenon DEF ReplayRefused
  <2>1. Sound(st[p]) /\ m \in Message /\ Gone(st[p], m.key)
    BY Zenon DEF RatchetInv
  <2> QED  BY <2>1, DecryptForward, Zenon
<1> QED  BY <1>1, RatchetInvariant, PTL

\* From what an end holds, no key of a message it sent or opened can be computed.
THEOREM OldKeysAreGone == Spec => []ForwardSecrecy
<1>1. RatchetInv => ForwardSecrecy
  <2> SUFFICES ASSUME RatchetInv, NEW p \in Party, NEW m \in opened[p] \cup From(p)
               PROVE  /\ ~Derives(st[p].cks, m.key)
                      /\ ~Derives(st[p].ckr, m.key)
                      /\ \A e \in st[p].skipped : e.key # m.key
    BY Zenon DEF ForwardSecrecy
  <2> DEFINE s == st[p]
  <2>1. Sound(s) /\ m \in Message
    BY Zenon DEF RatchetInv, From
  <2>2. /\ m.key \in ChainKey /\ m.key.i \in Nat /\ Len(m.key.root) \in Nat /\ Len(s.rk) \in Nat
        /\ s.cks # None => s.cks.root = s.rk /\ s.cks.i \in Nat
        /\ s.ckr # None => /\ Len(s.ckr.root) = Len(s.rk) - 1 /\ s.ckr.i \in Nat
                           /\ Len(s.ckr.root) \in Nat
    <3>1. m.key \in ChainKey
      BY <2>1, Zenon DEF Message
    <3>2. s.ckr # None => Len(s.ckr.root) = Len(s.rk) - 1
      BY <2>1, Zenon DEF Sound
    <3> QED  BY <2>1, <3>1, <3>2, SessionTypes, Zenon
  <2>3. CASE m \in opened[p]
    <3>1. Past(s, m.key) /\ \A e \in s.skipped : e.key # m.key
      BY <2>3, Zenon DEF RatchetInv, Gone
    <3>2. ~Derives(s.cks, m.key)
      <4>1. m.key.root # s.rk
        BY <2>2, <3>1, Zenon DEF Past
      <4> QED  BY <2>2, <4>1, Zenon DEF Derives
    <3>3. ~Derives(s.ckr, m.key)
      <4> SUFFICES ASSUME s.ckr # None, s.ckr.root = m.key.root, s.ckr.i <= m.key.i
                   PROVE  FALSE
        BY Zenon DEF Derives
      <4>1. m.key.i < s.ckr.i
        BY <2>2, <3>1, Zenon DEF Past
      <4> QED  BY <2>2, <4>1
    <3> QED  BY <3>1, <3>2, <3>3, Zenon
  <2>4. CASE m \in From(p)
    <3>1. Spent(s, m.key)
      BY <2>4, Zenon DEF RatchetInv, From
    <3>2. ~Derives(s.cks, m.key)
      BY <2>2, <3>1, SMTT(40) DEF Derives, Spent
    <3>3. ~Derives(s.ckr, m.key)
      <4>1. s.ckr # None => Parity(s.ckr.root) # Parity(s.rk)
        <5>1. s.ckr # None => Len(s.rk) = Len(s.ckr.root) + 1
          BY <2>2
        <5> QED  BY <2>2, <5>1, ParityAlternates, Zenon
      <4> QED  BY <3>1, <4>1, Zenon DEF Derives, Spent
    <3>4. \A e \in s.skipped : e.key # m.key
      BY <2>1, <3>1, Zenon DEF Sound, Past, Spent
    <3> QED  BY <3>2, <3>3, <3>4, Zenon
  <2> QED  BY <2>3, <2>4, Zenon
<1> QED  BY <1>1, RatchetInvariant, PTL

-----------------------------------------------------------------------------
(***************************************************************************)
(* UnopenedOpens.  The ends take turns with new ratchet keys: the one that *)
(* leads has the latest key of the other, which does not have its own yet. *)
(***************************************************************************)
Leads(l, f) ==
  /\ st[l].dhr = st[f].dhs
  /\ st[l].rk = Append(st[f].rk, DiffieHellman(st[l].dhs, st[f].dhs))
  /\ IF st[l].ckr = None THEN st[f].cks = None ELSE st[l].ckr.root = st[f].rk
  /\ st[f].dhr # st[l].dhs
  /\ st[f].dhr = None \/ st[f].dhr = <<l, st[l].dhs[2] - 1>>

\* What p has sent, and the chain it sends on.
Outgoing(p) ==
  LET s == st[p]
  IN  /\ s.dhs[1] = p
      /\ s.cks # None => s.cks.i = s.ns
      /\ \A m \in From(p) :
           /\ m.dh[1] = p /\ m.dh[2] <= s.dhs[2]
           /\ m.key.i = m.n
           /\ m.dh = s.dhs => m.key.root = s.rk /\ m.n < s.ns /\ m.pn = s.pn
           /\ m.dh[2] = s.dhs[2] - 1 => m.n < s.pn

\* What p can open of the messages of q.
Incoming(p, q) ==
  LET s == st[p]
  IN  /\ Fits(s, From(q))
      /\ \A e \in s.skipped : /\ e.dh[2] <= st[q].dhs[2]
                              /\ e.dh = st[q].dhs => e.dh = s.dhr
      /\ s.dhr = st[q].dhs => s.nr <= st[q].ns
      /\ \A m \in From(q) \ opened[p] :
           Reaches(s, m) \/ (m.dh = st[q].dhs /\ m.dh # s.dhr)

DeliveryInv ==
  ~native => /\ \E p \in Party : Leads(p, Peer(p))
             /\ \A p \in Party : Outgoing(p) /\ Incoming(p, Peer(p))

\* There are two parties.
LEMMA TwoParties ==
  \A p \in Party : /\ Peer(p) \in Party /\ Peer(p) # p /\ Peer(Peer(p)) = p
                   /\ \A o \in Party : o = p \/ o = Peer(p)
BY RatchetAssumption DEF Party, Peer

\* The initiator leads at first, and nothing was sent.
LEMMA DeliveryInit == Init => DeliveryInv
<1> SUFFICES ASSUME Init
             PROVE  DeliveryInv
  BY Zenon
<1> USE RatchetAssumption
<1> DEFINE prekey == <<Responder, 0>>
           dh == DiffieHellman(<<Initiator, 1>>, prekey)
           rk == Append(<<>>, dh)
           a == st[Initiator]
           b == st[Responder]
<1>1. /\ a.dhs = <<Initiator, 1>> /\ a.dhr = prekey /\ a.rk = rk /\ a.ckr = None
      /\ a.cks = [root |-> rk, i |-> 0] /\ a.ns = 0 /\ a.nr = 0 /\ a.skipped = {}
  BY Zenon DEF Init, InitiatorState, KdfRk, Party
<1>2. /\ b.dhs = prekey /\ b.dhr = None /\ b.rk = <<>> /\ b.cks = None /\ b.ckr = None
      /\ b.ns = 0 /\ b.nr = 0 /\ b.skipped = {}
  BY Zenon DEF Init, ResponderState, Party
<1>3. wire = {}
  BY Zenon DEF Init
<1>4. prekey \in RatchetKey /\ <<Initiator, 1>> \in RatchetKey
  BY Zenon DEF RatchetKey, Party
<1>5. Peer(Initiator) = Responder /\ Peer(Responder) = Initiator
  BY Zenon DEF Peer
<1> HIDE DEF rk, dh
<1>6. Leads(Initiator, Responder)
  <2>1. b.dhr # a.dhs
    BY <1>1, <1>2, <1>4, NoneAssumption, Zenon
  <2>2. a.rk = Append(b.rk, DiffieHellman(a.dhs, b.dhs))
    BY <1>1, <1>2, Zenon DEF rk, dh
  <2> QED  BY <1>1, <1>2, <2>1, <2>2, Zenon DEF Leads
<1>7. \A p \in Party : From(p) = {}
  BY <1>3, Zenon DEF From
<1>8. Outgoing(Initiator) /\ Outgoing(Responder)
  <2>1. Outgoing(Initiator)
    BY <1>1, <1>7 DEF Outgoing, Party
  <2>2. Outgoing(Responder)
    BY <1>2, <1>7 DEF Outgoing, Party
  <2> QED  BY <2>1, <2>2, Zenon
<1>9. Incoming(Initiator, Responder)
  <2>1. Fits(a, From(Responder))
    BY <1>1, <1>7, Zenon DEF Fits, Party
  <2> QED  BY <1>1, <1>2, <1>7, <2>1 DEF Incoming, Party
<1>10. Incoming(Responder, Initiator)
  <2>1. Fits(b, From(Initiator))
    BY <1>2, <1>7, Zenon DEF Fits, Party
  <2> QED  BY <1>1, <1>2, <1>7, <2>1 DEF Incoming, Party
<1>11. Initiator \in Party /\ \A p \in Party : p = Initiator \/ p = Responder
  BY Zenon DEF Party
<1> QED  BY <1>5, <1>6, <1>8, <1>9, <1>10, <1>11, Zenon DEF DeliveryInv

\* What a party sends is numbered along its chains.
LEMMA SentIsNumbered ==
  ASSUME RatchetInv, NEW q \in Party, Outgoing(q)
  PROVE  From(q) \subseteq Message /\ Numbered(From(q))
<1>1. From(q) \subseteq Message
  BY Zenon DEF RatchetInv, From
<1>2. \A m \in From(q) : m.n \in Nat /\ m.key \in ChainKey
  BY <1>1, Zenon DEF Message
<1> QED  BY <1>1, <1>2, Zenon DEF Numbered, Outgoing

\* A new message follows on what its recipient has.
LEMMA SendDelivers ==
  ASSUME RatchetInv, DeliveryInv, NEW p \in Party, Send(p)
  PROVE  DeliveryInv'
<1> SUFFICES ASSUME ~native
             PROVE  DeliveryInv'
  BY Zenon DEF Send, DeliveryInv
<1> DEFINE q == Peer(p)
           s == st[p]
           t == AfterSend(s)
           m == Sealed(s, p)
<1>0. q \in Party /\ q # p /\ Peer(q) = p /\ \A o \in Party : o = p \/ o = q
  BY TwoParties, Zenon
<1>1. Sound(s) /\ Sound(st[q])
  BY <1>0, Zenon DEF RatchetInv
<1>2. Loaded(s) = {s}
  BY <1>1, LoadedIsSame, Zenon DEF Loaded
<1>3. /\ s.cks # None
      /\ wire' = wire \cup {m}
      /\ st' = [st EXCEPT ![p] = t]
      /\ native' = native /\ opened' = opened
  BY <1>2, Zenon DEF Send, CanSend
<1>4. /\ s \in Session /\ s.dhs \in RatchetKey /\ s.pn \in Nat /\ s.ns \in Nat
      /\ s.cks \in ChainKey /\ s.cks.root = s.rk /\ s.cks.i \in Nat
  BY <1>1, <1>3, SessionTypes, Zenon
<1>5. /\ m.key = s.cks /\ m.body = p /\ m.dh = s.dhs /\ m.n = s.ns /\ m.pn = s.pn
  BY Zenon DEF Sealed
<1>6. NextCk(s.cks) # None /\ NextCk(s.cks).i = s.cks.i + 1
  <2>1. NextCk(s.cks) \in ChainKey /\ NextCk(s.cks).i = s.cks.i + 1
    BY <1>4 DEF NextCk, ChainKey
  <2> QED  BY <2>1, ChainKeyIsKey, Zenon
<1>7. /\ t.dhs = s.dhs /\ t.dhr = s.dhr /\ t.rk = s.rk /\ t.ckr = s.ckr /\ t.pn = s.pn
      /\ t.nr = s.nr /\ t.skipped = s.skipped
      /\ t.cks = NextCk(s.cks) /\ t.ns = s.ns + 1
  BY <1>4, Zenon DEF AfterSend, Session
<1> HIDE DEF t, m
<1>8. st'[p] = t /\ st'[q] = st[q]
  BY <1>0, <1>3, Zenon DEF RatchetInv
<1>9. /\ From(p)' = From(p) \cup {m} /\ From(q)' = From(q)
  BY <1>0, <1>3, <1>5, Zenon DEF From
<1>10. Outgoing(p) /\ Outgoing(q) /\ Incoming(p, q) /\ Incoming(q, p)
  BY <1>0, Zenon DEF DeliveryInv
<1>11. From(p) \subseteq Message /\ Numbered(From(p))
  BY <1>10, SentIsNumbered, Zenon
<1>12. Outgoing(p)'
  <2>1. t.dhs[1] = p /\ t.cks.i = t.ns
    BY <1>3, <1>6, <1>7, <1>10, Zenon DEF Outgoing
  <2>2. ASSUME NEW l \in From(p)
        PROVE  /\ l.dh[1] = p /\ l.dh[2] <= t.dhs[2]
               /\ l.key.i = l.n
               /\ l.dh = t.dhs => l.key.root = t.rk /\ l.n < t.ns /\ l.pn = t.pn
               /\ l.dh[2] = t.dhs[2] - 1 => l.n < t.pn
    <3>1. l.n \in Nat
      BY <1>11, Zenon DEF Numbered
    <3> QED  BY <1>4, <1>7, <1>10, <3>1, SMTT(40) DEF Outgoing
  <2>3. /\ m.dh[1] = p /\ m.dh[2] <= t.dhs[2]
        /\ m.key.i = m.n
        /\ m.key.root = t.rk /\ m.n < t.ns /\ m.pn = t.pn
        /\ m.dh[2] # t.dhs[2] - 1
    <3>1. s.dhs[2] \in Nat
      BY <1>4, Zenon DEF RatchetKey
    <3>2. s.dhs[1] = p /\ s.cks.i = s.ns
      BY <1>3, <1>10, Zenon DEF Outgoing
    <3> HIDE DEF s, q
    <3> QED  BY <1>4, <1>5, <1>7, <3>1, <3>2, SMTT(40)
  <2> QED  BY <1>8, <1>9, <2>1, <2>2, <2>3, ZenonT(60) DEF Outgoing
<1>13. Outgoing(q)'
  BY <1>8, <1>9, <1>10, ZenonT(60) DEF Outgoing
<1>14. Incoming(p, q)'
  <2>1. Fits(t, From(q))
    BY <1>7, <1>10, ZenonT(60) DEF Incoming, Fits
  <2>2. \A l \in From(q) : Reaches(s, l) => Reaches(t, l)
    BY <1>7, Zenon DEF Reaches
  <2>3. /\ st'[p] = t /\ st'[q] = st[q] /\ From(q)' = From(q) /\ opened'[p] = opened[p]
        /\ t.dhr = s.dhr /\ t.nr = s.nr /\ t.skipped = s.skipped
    BY <1>3, <1>7, <1>8, <1>9, Zenon
  <2> QED  BY <1>10, <2>1, <2>2, <2>3, SMTT(40) DEF Incoming
<1>15. Incoming(q, p)'
  <2> DEFINE u == st[q]
  <2>1. s.dhs = u.dhr => u.ckr # None /\ u.ckr.root = s.rk /\ u.nr <= s.ns
    <3> SUFFICES ASSUME s.dhs = u.dhr
                 PROVE  u.ckr # None /\ u.ckr.root = s.rk /\ u.nr <= s.ns
      BY Zenon
    <3>1. ~Leads(p, q)
      BY Zenon DEF Leads
    <3>2. Leads(q, p)
      BY <1>0, <3>1, Zenon DEF DeliveryInv
    <3>3. u.ckr # None /\ u.ckr.root = s.rk
      BY <1>3, <3>2, Zenon DEF Leads
    <3> QED  BY <1>10, <3>3, Zenon DEF Incoming
  <2>2. ASSUME NEW e \in u.skipped, e.dh = m.dh, e.n = m.n
        PROVE  FALSE
    <3>1. e.dh = u.dhr
      BY <1>5, <1>10, <2>2, Zenon DEF Incoming
    <3>2. e.n < u.nr
      BY <1>10, <3>1, Zenon DEF Incoming, Fits
    <3>3. u.nr <= s.ns /\ u.nr \in Nat
      BY <1>1, <1>5, <2>1, <2>2, <3>1, SessionTypes, Zenon
    <3> QED  BY <1>4, <1>5, <2>2, <3>2, <3>3
  <2>3. Fits(u, From(p) \cup {m})
    <3>1. m.dh = u.dhr /\ u.ckr # None => m.key.root = u.ckr.root
      BY <1>4, <1>5, <2>1, Zenon
    <3> QED  BY <1>10, <2>2, <3>1, ZenonT(60) DEF Incoming, Fits
  <2>4. Reaches(u, m) \/ (m.dh = s.dhs /\ m.dh # u.dhr)
    BY <1>5, <2>1, Zenon DEF Reaches
  <2>5. u.dhr = t.dhs => u.nr <= t.ns
    <3>1. u.nr \in Nat
      BY <1>1, SessionTypes, Zenon
    <3> QED  BY <1>4, <1>7, <2>1, <3>1, SMTT(40)
  <2>6. /\ st'[q] = u /\ st'[p] = t /\ From(p)' = From(p) \cup {m} /\ opened'[q] = opened[q]
        /\ t.dhs = s.dhs
    BY <1>3, <1>7, <1>8, <1>9, Zenon
  <2>7. \A e \in u.skipped : e.dh[2] <= t.dhs[2] /\ (e.dh = t.dhs => e.dh = u.dhr)
    BY <1>10, <2>6, Zenon DEF Incoming
  <2>8. \A l \in (From(p) \cup {m}) \ opened[q] : Reaches(u, l) \/ (l.dh = t.dhs /\ l.dh # u.dhr)
    BY <1>10, <2>4, <2>6, Zenon DEF Incoming
  <2> HIDE DEF u
  <2> QED  BY <2>3, <2>5, <2>6, <2>7, <2>8, Zenon DEF Incoming
<1>16. \E o \in Party : Leads(o, Peer(o))'
  <2>1. CASE Leads(p, q)
    <3>1. Leads(p, q)'
      BY <1>7, <1>8, <2>1, Zenon DEF Leads
    <3> QED  BY <3>1, Zenon
  <2>2. CASE Leads(q, p)
    <3>1. st[q].ckr # None
      BY <1>3, <2>2, Zenon DEF Leads
    <3>2. Leads(q, p)'
      BY <1>7, <1>8, <2>2, <3>1, Zenon DEF Leads
    <3> QED  BY <1>0, <3>2, Zenon
  <2> QED  BY <1>0, <2>1, <2>2, Zenon DEF DeliveryInv
<1> QED  BY <1>0, <1>12, <1>13, <1>14, <1>15, <1>16, Zenon DEF DeliveryInv

\* p, which has opened m of q, has moved from s to t.
Opens(p, q, m, s, t) ==
  /\ ~native /\ native' = native
  /\ p \in Party /\ q = Peer(p) /\ s = st[p]
  /\ m \in From(q) /\ m \notin opened[p]
  /\ Sound(t)
  /\ st'[p] = t /\ st'[q] = st[q]
  /\ wire' = wire
  /\ opened'[p] = opened[p] \cup {m} /\ opened'[q] = opened[q]

\* A party that does nothing has sent what it had sent.
LEMMA OutgoingStays ==
  ASSUME NEW q, Outgoing(q), st'[q] = st[q], From(q)' = From(q)
  PROVE  Outgoing(q)'
BY ZenonT(60) DEF Outgoing

\* A message opened with a banked key, or on the chain: nobody's turn ends.
LEMMA ChainStepDelivers ==
  ASSUME RatchetInv, DeliveryInv, NEW p, NEW q, NEW m, NEW s, NEW t, Opens(p, q, m, s, t),
         SameChain(s, t, m, From(q))
  PROVE  DeliveryInv'
<1>0. /\ p \in Party /\ q \in Party /\ q # p /\ q = Peer(p) /\ Peer(q) = p
      /\ \A o \in Party : o = p \/ o = q
  BY TwoParties, Zenon DEF Opens
<1>1. Outgoing(p) /\ Outgoing(q) /\ Incoming(p, q) /\ Incoming(q, p)
  BY <1>0, Zenon DEF DeliveryInv, Opens
<1>2. /\ st'[p] = t /\ st'[q] = st[q] /\ s = st[p]
      /\ From(p)' = From(p) /\ From(q)' = From(q)
      /\ opened'[p] = opened[p] \cup {m} /\ opened'[q] = opened[q]
      /\ m \in From(q) /\ Sound(t)
  BY Zenon DEF Opens, From
<1>3. Outgoing(p)'
  <2>1. t.dhs = s.dhs /\ t.rk = s.rk /\ t.cks = s.cks /\ t.ns = s.ns /\ t.pn = s.pn
    BY Zenon DEF SameChain
  <2>2. From(p)' = From(p) /\ st'[p] = t /\ s = st[p]
    BY <1>2, Zenon
  <2> QED  BY <1>1, <2>1, <2>2, SMTT(40) DEF Outgoing
<1>4. Outgoing(q)'
  BY <1>1, <1>2, OutgoingStays, Zenon
<1>5. Incoming(q, p)'
  BY <1>1, <1>2, SMTT(40) DEF Incoming, SameChain
<1>6. Incoming(p, q)'
  <2>1. ASSUME NEW e \in t.skipped
        PROVE  /\ e.dh[2] <= st[q].dhs[2]
               /\ e.dh = st[q].dhs => e.dh = t.dhr
    <3>1. CASE e \in s.skipped
      BY <1>1, <1>2, <3>1, Zenon DEF Incoming, SameChain
    <3>2. CASE e.dh = s.dhr /\ s.dhr = m.dh
      BY <1>1, <1>2, <3>2, ZenonT(60) DEF Outgoing, SameChain
    <3> QED  BY <3>1, <3>2, Zenon DEF SameChain
  <2>2. t.dhr = st[q].dhs => t.nr <= st[q].ns
    <3>1. CASE t.nr = s.nr
      BY <1>1, <1>2, <3>1, Zenon DEF Incoming, SameChain
    <3>2. CASE t.nr = m.n + 1 /\ s.dhr = m.dh
      <4>1. m.dh = st[q].dhs => m.n < st[q].ns
        BY <1>1, <1>2, Zenon DEF Outgoing
      <4>2. m.n \in Nat /\ st[q].ns \in Nat
        <5>1. Numbered(From(q)) /\ Sound(st[q])
          BY <1>0, <1>1, SentIsNumbered, Zenon DEF RatchetInv
        <5> QED  BY <1>2, <5>1, SessionTypes, Zenon DEF Numbered
      <4> QED  BY <3>2, <4>1, <4>2 DEF SameChain
    <3> QED  BY <3>1, <3>2, Zenon DEF SameChain
  <2>3. ASSUME NEW l \in From(q) \ (opened[p] \cup {m})
        PROVE  Reaches(t, l) \/ (l.dh = st[q].dhs /\ l.dh # t.dhr)
    <3>1. l.key # m.key
      BY <1>2, <2>3, Zenon DEF RatchetInv, KeysUsedOnce, From
    <3> QED  BY <1>1, <1>2, <3>1, SMTT(40) DEF Incoming, SameChain
  <2> QED  BY <1>2, <2>1, <2>2, <2>3, SMTT(40) DEF Incoming, SameChain
<1>7. \E o \in Party : Leads(o, Peer(o))'
  <2>1. CASE Leads(p, q)
    <3>1. Leads(p, q)'
      BY <1>2, <2>1, ZenonT(60) DEF Leads, SameChain
    <3> QED  BY <1>0, <3>1, Zenon
  <2>2. CASE Leads(q, p)
    <3>1. Leads(q, p)'
      BY <1>2, <2>2, ZenonT(60) DEF Leads, SameChain
    <3> QED  BY <1>0, <3>1, Zenon
  <2> QED  BY <1>0, <2>1, <2>2, Zenon DEF DeliveryInv, Opens
<1> QED  BY <1>0, <1>3, <1>4, <1>5, <1>6, <1>7, Zenon DEF DeliveryInv

\* A message with a ratchet key that p has not seen: q was leading.
LEMMA NewKeyLeads ==
  ASSUME RatchetInv, DeliveryInv, ~native, NEW p \in Party, NEW m \in From(Peer(p)) \ opened[p],
         Banked(st[p], m) = {}, st[p].dhr # m.dh
  PROVE  LET s == st[p]
             q == Peer(p)
         IN  /\ m.dh = st[q].dhs /\ Leads(q, p)
             /\ st[q].rk = Append(s.rk, DiffieHellman(s.dhs, m.dh))
             /\ \A e \in s.skipped : e.dh # m.dh
             /\ \A l \in From(q) : l.dh = m.dh => l.key.root = st[q].rk
             /\ \A l \in From(q) : l.dh = s.dhr => l.n < m.pn
<1> DEFINE s == st[p]
           q == Peer(p)
<1>0. q \in Party /\ q # p /\ Peer(q) = p /\ \A o \in Party : o = p \/ o = q
  BY TwoParties, Zenon
<1>1. Outgoing(q) /\ Incoming(p, q)
  BY <1>0, Zenon DEF DeliveryInv
<1>2. m.dh = st[q].dhs
  BY <1>1, Zenon DEF Incoming, Reaches, Banked
<1>3. Leads(q, p)
  <2>1. ~Leads(p, q)
    BY <1>2, Zenon DEF Leads
  <2> QED  BY <1>0, <2>1, Zenon DEF DeliveryInv
<1>4. st[q].rk = Append(s.rk, DiffieHellman(s.dhs, m.dh))
  <2>1. DiffieHellman(st[q].dhs, s.dhs) = DiffieHellman(s.dhs, m.dh)
    BY <1>2, Zenon DEF DiffieHellman
  <2> QED  BY <1>3, <2>1, Zenon DEF Leads
<1>5. \A e \in s.skipped : e.dh # m.dh
  BY <1>1, <1>2, Zenon DEF Incoming
<1>6. \A l \in From(q) : l.dh = m.dh => l.key.root = st[q].rk
  BY <1>1, <1>2, Zenon DEF Outgoing
<1>7. ASSUME NEW l \in From(q), l.dh = s.dhr
      PROVE  l.n < m.pn
  <2>1. s.dhr # None
    <3>1. l.dh \in RatchetKey
      BY <1>1, <1>0, SentIsNumbered, Zenon DEF Message
    <3> QED  BY <1>7, <3>1, NoneAssumption, Zenon
  <2>2. l.dh[2] = st[q].dhs[2] - 1
    BY <1>3, <1>7, <2>1, SMTT(40) DEF Leads
  <2> QED  BY <1>1, <1>2, <2>2, Zenon DEF Outgoing
<1> QED  BY <1>2, <1>3, <1>4, <1>5, <1>6, <1>7, Zenon

\* A message opened on a new chain: it is now p that leads.
LEMMA TurnDelivers ==
  ASSUME RatchetInv, DeliveryInv, NEW p, NEW q, NEW m, NEW s, NEW t, Opens(p, q, m, s, t),
         Leads(q, p), m.dh = st[q].dhs, m.dh # s.dhr,
         st[q].rk = Append(s.rk, DiffieHellman(s.dhs, m.dh)),
         NewChain(s, t, m, From(q))
  PROVE  DeliveryInv'
<1>0. /\ p \in Party /\ q \in Party /\ q # p /\ q = Peer(p) /\ Peer(q) = p
      /\ \A o \in Party : o = p \/ o = q
  BY TwoParties, Zenon DEF Opens
<1>1. Outgoing(p) /\ Outgoing(q) /\ Incoming(p, q) /\ Incoming(q, p)
  BY <1>0, Zenon DEF DeliveryInv, Opens
<1>2. /\ st'[p] = t /\ st'[q] = st[q] /\ s = st[p]
      /\ From(p)' = From(p) /\ From(q)' = From(q)
      /\ opened'[p] = opened[p] \cup {m} /\ opened'[q] = opened[q]
      /\ m \in From(q) /\ Sound(t)
  BY Zenon DEF Opens, From
<1>a. /\ t.dhs = <<s.dhs[1], s.dhs[2] + 1>> /\ t.dhr = m.dh
      /\ t.cks # None /\ t.cks.i = 0 /\ t.ns = 0 /\ t.nr = m.n + 1 /\ t.pn = s.ns
  BY Zenon DEF NewChain
<1>b. /\ t.rk = Append(st[q].rk, DiffieHellman(t.dhs, st[q].dhs))
      /\ t.ckr # None /\ t.ckr.root = st[q].rk
  BY Zenon DEF NewChain
<1>c. /\ Fits(t, From(q))
      /\ \A l \in From(q) : Reaches(s, l) \/ l.dh = m.dh => Reaches(t, l) \/ l.key = m.key
      /\ \A e \in t.skipped : e \in s.skipped \/ e.dh = s.dhr \/ e.dh = m.dh
  BY Zenon DEF NewChain
<1>3. /\ Sound(s) /\ s.dhs \in Party \X Nat /\ s.dhs[1] = p /\ s.dhs[2] \in Nat
      /\ s.dhs = <<p, s.dhs[2]>>
      /\ t.dhs[1] = p /\ t.dhs[2] = s.dhs[2] + 1
  <2>1. Sound(s)
    BY <1>0, <1>2, Zenon DEF RatchetInv
  <2>2. s.dhs \in Party \X Nat
    BY <2>1, SessionTypes, Zenon DEF RatchetKey
  <2>3. s.dhs[1] = p
    BY <1>1, <1>2, Zenon DEF Outgoing
  <2>4. s.dhs[2] \in Nat /\ s.dhs = <<s.dhs[1], s.dhs[2]>>
    BY <2>2
  <2>5. t.dhs[1] = s.dhs[1] /\ t.dhs[2] = s.dhs[2] + 1
    BY <1>a
  <2> QED  BY <2>1, <2>2, <2>3, <2>4, <2>5, Zenon
<1>4. /\ st[q].dhr = s.dhs /\ st[q].dhr # t.dhs /\ st[q].dhr = <<p, t.dhs[2] - 1>>
  <2>1. st[q].dhr = s.dhs
    BY <1>2, Zenon DEF Leads
  <2>2. /\ s.dhs[2] \in Nat /\ s.dhs = <<p, s.dhs[2]>> /\ t.dhs[2] = s.dhs[2] + 1
    BY <1>3, Zenon
  <2>3. s.dhs[2] # t.dhs[2] /\ s.dhs[2] = t.dhs[2] - 1
    BY <2>2
  <2> QED  BY <2>1, <2>2, <2>3, Zenon
<1>5. Outgoing(q)'
  BY <1>1, <1>2, OutgoingStays, Zenon
<1>6. Outgoing(p)'
  <2>1. ASSUME NEW l \in From(p)
        PROVE  /\ l.dh[1] = p /\ l.dh[2] <= t.dhs[2]
               /\ l.key.i = l.n
               /\ l.dh # t.dhs
               /\ l.dh[2] = t.dhs[2] - 1 => l.n < t.pn
    <3>1. l.dh[1] = p /\ l.dh[2] <= s.dhs[2] /\ l.key.i = l.n /\ (l.dh = s.dhs => l.n < s.ns)
      BY <1>1, <1>2, Zenon DEF Outgoing
    <3>2. l.dh \in Party \X Nat
      BY <1>0, <1>1, SentIsNumbered, Zenon DEF Message, RatchetKey
    <3>3. l.dh = <<p, l.dh[2]>> /\ l.dh[2] \in Nat
      BY <3>1, <3>2
    <3>4. l.dh[2] <= t.dhs[2] /\ l.dh[2] # t.dhs[2]
      BY <1>3, <3>1, <3>3, SMTT(40)
    <3>5. l.dh[2] = t.dhs[2] - 1 => l.dh = s.dhs
      <4>1. l.dh[2] = t.dhs[2] - 1 => l.dh[2] = s.dhs[2]
        BY <1>3, SMTT(40)
      <4> QED  BY <1>3, <3>3, <4>1, Zenon
    <3> QED  BY <1>a, <3>1, <3>4, <3>5, Zenon
  <2> QED  BY <1>2, <1>a, <1>3, <2>1, ZenonT(60) DEF Outgoing
<1>7. Incoming(q, p)'
  <2> DEFINE u == st[q]
  <2>1. ASSUME NEW e \in u.skipped
        PROVE  e.dh[2] <= t.dhs[2] /\ e.dh # t.dhs
    <3>1. e.dh[2] <= s.dhs[2]
      BY <1>1, <1>2, Zenon DEF Incoming
    <3>2. Sound(u)
      BY <1>0, Zenon DEF RatchetInv
    <3>3. e.dh[2] \in Nat
      BY <3>2, SessionTypes, Zenon DEF Entry, RatchetKey
    <3> QED  BY <1>3, <3>1, <3>3, SMTT(40)
  <2>2. \A l \in From(p) \ opened[q] : Reaches(u, l)
    BY <1>1, <1>2, <1>4, Zenon DEF Incoming
  <2>3. Fits(u, From(p))
    BY <1>1, Zenon DEF Incoming
  <2> QED  BY <1>2, <1>4, <2>1, <2>2, <2>3, Zenon DEF Incoming
<1>8. Incoming(p, q)'
  <2>1. ASSUME NEW e \in t.skipped
        PROVE  e.dh[2] <= st[q].dhs[2]
    <3>0. st[q].dhs[2] \in Nat
      <4>1. Sound(st[q])
        BY <1>0, Zenon DEF RatchetInv
      <4> QED  BY <4>1, SessionTypes, Zenon DEF RatchetKey
    <3>1. CASE e \in s.skipped
      BY <1>1, <1>2, <3>1, Zenon DEF Incoming
    <3>2. CASE e.dh = s.dhr
      <4>1. e.dh # None
        BY <1>2, SessionTypes, NoneAssumption, SMTT(40) DEF Entry
      <4>2. s.dhr = <<q, st[q].dhs[2] - 1>>
        BY <1>2, <3>2, <4>1, Zenon DEF Leads
      <4> QED  BY <3>0, <3>2, <4>2, SMTT(40)
    <3>3. CASE e.dh = m.dh
      BY <3>0, <3>3, SMTT(40)
    <3> QED  BY <1>c, <3>1, <3>2, <3>3, Zenon
  <2>2. t.nr <= st[q].ns
    <3>1. m.n < st[q].ns
      BY <1>1, <1>2, Zenon DEF Outgoing
    <3>2. Numbered(From(q)) /\ Sound(st[q])
      BY <1>0, <1>1, SentIsNumbered, Zenon DEF RatchetInv
    <3>3. m.n \in Nat /\ st[q].ns \in Nat
      BY <1>2, <3>2, SessionTypes, Zenon DEF Numbered
    <3> QED  BY <1>a, <3>1, <3>3, SMTT(40)
  <2>3. ASSUME NEW l \in From(q) \ (opened[p] \cup {m})
        PROVE  Reaches(t, l)
    <3>1. l.key # m.key
      BY <1>2, <2>3, Zenon DEF RatchetInv, KeysUsedOnce, From
    <3>2. Reaches(s, l) \/ l.dh = m.dh
      BY <1>1, <1>2, Zenon DEF Incoming
    <3> QED  BY <1>c, <3>1, <3>2, Zenon
  <2> QED  BY <1>2, <1>a, <1>c, <2>1, <2>2, <2>3, ZenonT(60) DEF Incoming
<1>9. Leads(p, q)'
  BY <1>2, <1>a, <1>b, <1>4, ZenonT(60) DEF Leads
<1> QED  BY <1>0, <1>5, <1>6, <1>7, <1>8, <1>9, Zenon DEF DeliveryInv

\* Nothing changes while nobody does anything.
LEMMA DeliveryStays ==
  ASSUME DeliveryInv, st' = st, wire' = wire, opened' = opened, native' = native
  PROVE  DeliveryInv'
<1>1. \A p : From(p)' = From(p)
  BY Zenon DEF From
<1>2. ASSUME NEW p, NEW q, Leads(p, q)
      PROVE  Leads(p, q)'
  BY <1>2, Zenon DEF Leads
<1>3. ASSUME NEW p, Outgoing(p)
      PROVE  Outgoing(p)'
  BY <1>1, <1>3, OutgoingStays, Zenon
<1>4. ASSUME NEW p, NEW q, Incoming(p, q)
      PROVE  Incoming(p, q)'
  BY <1>1, <1>4, Zenon DEF Incoming
<1> QED  BY <1>2, <1>3, <1>4, Zenon DEF DeliveryInv

\* decrypt_message keeps what is not opened within reach.
LEMMA DeliverDelivers ==
  ASSUME RatchetInv, DeliveryInv, NEW p \in Party, NEW m \in wire, NEW intact \in BOOLEAN,
         Deliver(p, m, intact)
  PROVE  DeliveryInv'
<1> SUFFICES ASSUME ~native
             PROVE  DeliveryInv'
  BY Zenon DEF Deliver, DeliveryInv
<1> DEFINE q == Peer(p)
           s == st[p]
           r == DecryptMessage(s, m, intact)
           W == From(q)
<1>0. q \in Party /\ q # p /\ Peer(q) = p
  BY TwoParties, Zenon
<1>1. Sound(s) /\ m \in Message
  BY Zenon DEF RatchetInv
<1>2. /\ m \in W
      /\ st' = [st EXCEPT ![p] = r.st]
      /\ opened' = [opened EXCEPT ![p] = IF r.ok THEN @ \cup {m} ELSE @]
      /\ native' = native /\ wire' = wire
  BY Zenon DEF Deliver
<1> HIDE DEF r
<1>3. /\ st'[p] = r.st /\ st'[q] = st[q]
      /\ opened'[p] = (IF r.ok THEN opened[p] \cup {m} ELSE opened[p])
      /\ opened'[q] = opened[q]
  BY <1>0, <1>2, Zenon DEF RatchetInv
<1>4. CASE r = Failed(s)
  <2>1. r.st = s /\ r.ok = FALSE
    BY <1>4, Zenon DEF Failed
  <2>2. st' = st /\ opened' = opened
    BY <1>2, <2>1, Zenon DEF RatchetInv
  <2> QED  BY <1>2, <2>2, DeliveryStays, Zenon
<1>5. CASE r = Decrypt(s, m, intact) /\ Decrypt(s, m, intact).ok
  <2> DEFINE d == Decrypt(s, m, intact)
             t == d.st
  <2>1. Forward(s, t) /\ ~Gone(s, m.key)
    BY <1>1, <1>5, DecryptForward, Zenon
  <2>2. m \notin opened[p]
    BY <2>1, Zenon DEF RatchetInv
  <2>4. Opens(p, q, m, s, t)
    <3>1. r.st = t /\ r.ok = TRUE /\ Sound(t)
      BY <1>5, <2>1, Zenon DEF Forward
    <3> HIDE DEF t
    <3> QED  BY <1>2, <1>3, <2>2, <3>1, Zenon DEF Opens
  <2>5. Outgoing(q) /\ Incoming(p, q)
    BY <1>0, Zenon DEF DeliveryInv
  <2>6. W \subseteq Message /\ Numbered(W) /\ Fits(s, W) /\ m \in W
    BY <1>0, <1>2, <2>5, SentIsNumbered, Zenon DEF Incoming
  <2>7. CASE Banked(s, m) # {}
    <3>1. SameChain(s, t, m, W)
      BY <1>1, <2>6, <2>7, ReceiveBanked, Zenon
    <3> HIDE DEF t, s
    <3> QED  BY <2>4, <3>1, ChainStepDelivers, Zenon
  <2>8. CASE Banked(s, m) = {} /\ s.dhr = m.dh
    <3>1. SameChain(s, t, m, W)
      BY <1>1, <1>5, <2>6, <2>8, ReceiveOnChain, Zenon
    <3> HIDE DEF t, s
    <3> QED  BY <2>4, <3>1, ChainStepDelivers, Zenon
  <2>9. CASE Banked(s, m) = {} /\ s.dhr # m.dh
    <3>1. m \in From(q) \ opened[p]
      BY <1>2, <2>2, Zenon
    <3>2. /\ m.dh = st[q].dhs /\ Leads(q, p)
          /\ st[q].rk = Append(s.rk, DiffieHellman(s.dhs, m.dh))
          /\ \A e \in s.skipped : e.dh # m.dh
          /\ \A l \in W : l.dh = m.dh => l.key.root = st[q].rk
          /\ \A l \in W : l.dh = s.dhr => l.n < m.pn
      BY <2>9, <3>1, NewKeyLeads, Zenon
    <3> HIDE DEF s
    <3>3. \A l \in W : l.dh = m.dh => l.key.root = Append(s.rk, DiffieHellman(s.dhs, m.dh))
      BY <3>2, Zenon
    <3>4. NewChain(s, t, m, W)
      BY <1>1, <1>5, <2>6, <2>9, <3>2, <3>3, ReceiveNewChain, Zenon
    <3> HIDE DEF t
    <3> QED  BY <2>4, <2>9, <3>2, <3>4, TurnDelivers, Zenon
  <2> QED  BY <2>7, <2>8, <2>9, Zenon
<1> QED  BY <1>1, <1>4, <1>5, DecryptMessageIs, Zenon DEF r

\* DeliveryInv is inductive relative to RatchetInv.
LEMMA DeliveryStep == RatchetInv /\ DeliveryInv /\ [Next]_vars => DeliveryInv'
<1> SUFFICES ASSUME RatchetInv, DeliveryInv, [Next]_vars
             PROVE  DeliveryInv'
  BY Zenon
<1>1. ASSUME NEW p \in Party, Send(p)
      PROVE  DeliveryInv'
  BY <1>1, SendDelivers, Zenon
<1>2. ASSUME NEW p \in Party, NEW m \in wire, NEW intact \in BOOLEAN, Deliver(p, m, intact)
      PROVE  DeliveryInv'
  BY <1>2, DeliverDelivers, Zenon
<1>3. CASE UNCHANGED vars
  BY <1>3, DeliveryStays, Zenon DEF vars
<1> QED  BY <1>1, <1>2, <1>3, Zenon DEF Next

\* The second invariant of Ratchet.
LEMMA DeliveryInvariant == Spec => []DeliveryInv
BY DeliveryInit, RatchetInvariant, DeliveryStep, PTL DEF Spec

\* UnopenedOpens: through the FFI a message that was not opened yet opens, whatever
\* was lost, repeated, damaged or overtaken before, if the gap before it is within
\* MAX_SKIP and the store has room for the keys it skips.
THEOREM UnopenedMessagesOpen == Spec => []UnopenedOpens
<1>1. RatchetInv /\ DeliveryInv => UnopenedOpens
  <2> SUFFICES ASSUME RatchetInv, DeliveryInv, ~native, NEW p \in Party,
                      NEW m \in From(Peer(p)) \ opened[p],
                      Banked(st[p], m) # {} \/ WithinSkip(st[p], m),
                      HasRoom(st[p], m)
               PROVE  DecryptMessage(st[p], m, TRUE).ok
    BY Zenon DEF UnopenedOpens
  <2> DEFINE s == st[p]
             q == Peer(p)
             W == From(q)
  <2>0. q \in Party /\ q # p /\ Peer(q) = p
    BY TwoParties, Zenon
  <2>1. Sound(s)
    BY Zenon DEF RatchetInv
  <2>2. Outgoing(q) /\ Incoming(p, q)
    BY <2>0, Zenon DEF DeliveryInv
  <2>3. W \subseteq Message /\ Numbered(W) /\ Fits(s, W)
    BY <2>0, <2>2, SentIsNumbered, Zenon DEF Incoming
  <2>4. CASE Banked(s, m) # {}
    <3>1. Decrypt(s, m, TRUE).ok
      BY <2>3, <2>4, BankedOpens, Zenon
    <3> QED  BY <2>1, <3>1, DecryptMessageIs, Zenon
  <2>5. CASE Banked(s, m) = {} /\ s.dhr # m.dh
    <3>1. /\ st[q].rk = Append(s.rk, DiffieHellman(s.dhs, m.dh))
          /\ \A e \in s.skipped : e.dh # m.dh
          /\ \A l \in W : l.dh = m.dh => l.key.root = st[q].rk
      BY <2>5, NewKeyLeads, Zenon
    <3>2. Decrypt(s, m, TRUE).ok
      BY <2>1, <2>3, <2>5, <3>1, NewChainOpens, Zenon
    <3> QED  BY <2>1, <3>2, DecryptMessageIs, Zenon
  <2>6. CASE Banked(s, m) = {} /\ s.dhr = m.dh
    <3>1. s.ckr # None /\ s.nr <= m.n
      BY <2>2, <2>6, Zenon DEF Incoming, Reaches, Banked
    <3>2. Decrypt(s, m, TRUE).ok
      BY <2>1, <2>3, <2>6, <3>1, ChainOpens, Zenon
    <3> QED  BY <2>1, <3>2, DecryptMessageIs, Zenon
  <2> QED  BY <2>4, <2>5, <2>6, Zenon
<1> QED  BY <1>1, RatchetInvariant, DeliveryInvariant, PTL
=============================================================================
