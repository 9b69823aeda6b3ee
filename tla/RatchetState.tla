---------------------------- MODULE RatchetState ----------------------------
(***************************************************************************)
(* RatchetState, one end of a Double Ratchet session, as operators on the  *)
(* state.                                                                  *)
(*                                                                         *)
(* Keys are terms.  A ratchet key pair is <<owner, generation>>; the       *)
(* Diffie-Hellman value of two of them is the set of both; a root key is   *)
(* the sequence of what was mixed into it; a chain key is the root it was  *)
(* derived with and the number of steps taken; a message key is the chain  *)
(* key it was derived from.  A ciphertext opens under the key, and with    *)
(* the header, that it was sealed with.                                    *)
(***************************************************************************)
EXTENDS Integers, Sequences, FiniteSets

CONSTANTS
  None,       \* no key
  MaxSkip,    \* MAX_SKIP
  MaxStored   \* MAX_STORED_SKIPPED

ASSUME RatchetStateAssumption == MaxSkip \in Nat /\ MaxStored \in Nat

-----------------------------------------------------------------------------
\* kdf_rk: the next root key and a new chain key.
KdfRk(rk, dh) == [rk |-> Append(rk, dh), ck |-> [root |-> Append(rk, dh), i |-> 0]]

\* Mutant of NextCk: the chain key stays.
NextCk_Same(ck) == ck

\* kdf_ck: the next chain key; the message key is named by the chain key itself.
NextCk(ck) == [ck EXCEPT !.i = @ + 1]

DiffieHellman(a, b) == {a, b}

\* RatchetState::initiator, with the key pair it generates and the responder's
\* signed prekey.
InitiatorState(root, dhs, prekey) ==
  LET kdf == KdfRk(root, DiffieHellman(dhs, prekey))
  IN  [dhs |-> dhs, dhr |-> prekey, rk |-> kdf.rk, cks |-> kdf.ck, ckr |-> None,
       ns |-> 0, nr |-> 0, pn |-> 0, skipped |-> {}]

\* RatchetState::responder, which keeps its signed prekey as first ratchet key.
ResponderState(root, prekey) ==
  [dhs |-> prekey, dhr |-> None, rk |-> root, cks |-> None, ckr |-> None,
   ns |-> 0, nr |-> 0, pn |-> 0, skipped |-> {}]

-----------------------------------------------------------------------------
(***************************************************************************)
(* encrypt: the message and the state after it.  A state that has received *)
(* nothing yet, on the responder's side, has no sending chain.             *)
(***************************************************************************)
CanSend(s) == s.cks # None

Sealed(s, body) ==
  [dh |-> s.dhs, pn |-> s.pn, n |-> s.ns, key |-> s.cks, body |-> body]

AfterSend(s) == [s EXCEPT !.cks = NextCk(s.cks), !.ns = s.ns + 1]

-----------------------------------------------------------------------------
(***************************************************************************)
(* decrypt.  Its parts return whether they succeeded, and the state they   *)
(* leave behind either way.                                                *)
(***************************************************************************)
Done(s) == [ok |-> TRUE, st |-> s]
Failed(s) == [ok |-> FALSE, st |-> s]

\* The skipped keys, after banking the next k keys of the receiving chain.
Bank(s, k) ==
  LET new == {[dh |-> s.dhr, n |-> s.nr + j, key |-> [s.ckr EXCEPT !.i = @ + j]] :
                j \in 0..(k - 1)}
  IN  {e \in s.skipped : \A f \in new : e.dh # f.dh \/ e.n # f.n} \cup new

\* The keys there is room for: one is banked while fewer than MaxStored are held.
Room(s, k) == \A j \in 0..(k - 1) : Cardinality(Bank(s, j)) < MaxStored

\* How many of the next gap keys are banked before the store is full.
Fit(s, gap) == CHOOSE k \in 0..gap : Room(s, k) /\ (k = gap \/ ~Room(s, k + 1))

\* The state once k keys are banked and the receiving chain has moved d steps.
PassOver(s, k, d) == [s EXCEPT !.nr = @ + k, !.skipped = Bank(s, k), !.ckr.i = @ + d]

\* Mutant of SkipMessageKeys: the keys passed over are not banked.
SkipMessageKeys_Drop(s, until) ==
  IF s.dhr = None \/ s.ckr = None \/ until <= s.nr THEN Done(s)
  ELSE IF until > s.nr + MaxSkip THEN Failed(s)
  ELSE Done([s EXCEPT !.ckr.i = @ + (until - s.nr), !.nr = until])

\* Mutant of SkipMessageKeys: no limit on what is stored.
SkipMessageKeys_Unbounded(s, until) ==
  IF s.dhr = None \/ s.ckr = None \/ until <= s.nr THEN Done(s)
  ELSE IF until > s.nr + MaxSkip THEN Failed(s)
  ELSE Done([s EXCEPT !.ckr.i = @ + (until - s.nr), !.nr = until,
                      !.skipped = Bank(s, until - s.nr)])

\* skip_message_keys.  When the store fills up, the chain has moved one step past
\* the last key banked.
SkipMessageKeys(s, until) ==
  LET gap == until - s.nr
      fit == Fit(s, gap)
  IN  IF s.dhr = None \/ s.ckr = None THEN Done(s)
      ELSE IF until > s.nr + MaxSkip THEN Failed(s)
      ELSE IF gap <= 0 THEN Done(s)
      ELSE IF fit = gap THEN Done(PassOver(s, gap, gap))
      ELSE Failed(PassOver(s, fit, fit + 1))

\* dh_ratchet
DhRatchet(s, dh) ==
  LET recv == KdfRk(s.rk, DiffieHellman(s.dhs, dh))
      dhs == <<s.dhs[1], s.dhs[2] + 1>>
      send == KdfRk(recv.rk, DiffieHellman(dhs, dh))
  IN  [s EXCEPT !.pn = s.ns, !.ns = 0, !.nr = 0, !.dhr = dh, !.ckr = recv.ck,
                !.dhs = dhs, !.rk = send.rk, !.cks = send.ck]

\* Advance the receiving chain by the message's own key, then open.
OpenNext(s, m, intact) ==
  IF s.ckr = None THEN Failed(s)
  ELSE [ok |-> intact /\ m.key = s.ckr,
        st |-> [s EXCEPT !.ckr = NextCk(s.ckr), !.nr = @ + 1]]

Banked(s, m) == {e \in s.skipped : e.dh = m.dh /\ e.n = m.n}

\* Mutant of Decrypt: a banked key is used and kept.
Decrypt_KeepBanked(s, m, intact) ==
  IF Banked(s, m) # {}
  THEN [ok |-> intact /\ \E e \in Banked(s, m) : m.key = e.key, st |-> s]
  ELSE LET old == SkipMessageKeys(s, m.pn)
           step == IF s.dhr = m.dh THEN Done(s)
                   ELSE IF old.ok THEN Done(DhRatchet(old.st, m.dh))
                   ELSE old
           skip == SkipMessageKeys(step.st, m.n)
       IN  IF ~step.ok THEN step
           ELSE IF ~skip.ok THEN skip
           ELSE OpenNext(skip.st, m, intact)

\* decrypt: a banked key is taken out before it is tried.
Decrypt(s, m, intact) ==
  IF Banked(s, m) # {}
  THEN [ok |-> intact /\ \E e \in Banked(s, m) : m.key = e.key,
        st |-> [s EXCEPT !.skipped = @ \ Banked(s, m)]]
  ELSE LET old == SkipMessageKeys(s, m.pn)
           step == IF s.dhr = m.dh THEN Done(s)
                   ELSE IF old.ok THEN Done(DhRatchet(old.st, m.dh))
                   ELSE old
           skip == SkipMessageKeys(step.st, m.n)
       IN  IF ~step.ok THEN step
           ELSE IF ~skip.ok THEN skip
           ELSE OpenNext(skip.st, m, intact)

-----------------------------------------------------------------------------
(***************************************************************************)
(* The session blob of the key store, one element for each fixed-size      *)
(* piece (a key, a counter, a byte).  What is there only sometimes has a   *)
(* bit in the third.                                                       *)
(***************************************************************************)
StateVersion == 1

Bit(key, weight) == IF key = None THEN 0 ELSE weight
Optional(key) == IF key = None THEN <<>> ELSE <<key>>

\* The elements of a finite set one after the other, in some order.
Order(S) ==
  CHOOSE f \in [1..Cardinality(S) -> S] : \A i, j \in DOMAIN f : f[i] = f[j] => i = j

\* The entries of the skipped keys, three pieces each, one after the other.
Pieces(entries) ==
  [j \in 1..(3 * Len(entries)) |->
     LET e == entries[(j + 2) \div 3]
     IN  IF j % 3 = 1 THEN e.dh ELSE IF j % 3 = 2 THEN e.n ELSE e.key]

\* to_bytes; the skipped keys in an order of their own.
ToBytes(s) ==
  <<StateVersion, s.dhs, Bit(s.dhr, 1) + Bit(s.cks, 2) + Bit(s.ckr, 4)>>
    \o Optional(s.dhr) \o <<s.rk>> \o Optional(s.cks) \o Optional(s.ckr)
    \o <<s.ns, s.nr, s.pn, Cardinality(s.skipped)>>
    \o Pieces(Order(s.skipped))

\* Mutant of TooMany: the limit itself is refused.
TooMany_AtLimit(count) == count >= MaxStored

TooMany(count) == count > MaxStored

\* from_bytes: the state, or nothing.  rk, cks, ckr: where each piece was read.
FromBytes(blob) ==
  LET bit(weight) == (blob[3] \div weight) % 2
      optional(weight, at) == IF bit(weight) = 1 THEN blob[at] ELSE None
      rk == 4 + bit(1)
      cks == rk + bit(2)
      ckr == cks + bit(4)
      count == blob[ckr + 4]
      entry(i) == LET at == ckr + 4 + 3 * (i - 1)
                  IN  [dh |-> blob[at + 1], n |-> blob[at + 2], key |-> blob[at + 3]]
  IN  IF blob[1] # StateVersion \/ TooMany(count) THEN {}
      ELSE {[dhs |-> blob[2], dhr |-> optional(1, 4), rk |-> blob[rk],
             cks |-> optional(2, cks), ckr |-> optional(4, ckr),
             ns |-> blob[ckr + 1], nr |-> blob[ckr + 2], pn |-> blob[ckr + 3],
             skipped |-> {entry(i) : i \in 1..count}]}

\* What the FFI works on: the state of the blob it was handed, if that loads.
Loaded(s) == FromBytes(ToBytes(s))

\* decrypt_message of the FFI loads, decrypts and saves: a failure leaves no trace.
DecryptMessage(s, m, intact) ==
  LET opened == {r \in {Decrypt(l, m, intact) : l \in Loaded(s)} : r.ok}
  IN  IF opened = {} THEN Failed(s) ELSE CHOOSE r \in opened : TRUE

\* The message key k can be computed from the chain key ck.
Derives(ck, k) == ck # None /\ ck.root = k.root /\ ck.i <= k.i
=============================================================================
