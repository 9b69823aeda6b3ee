---------------------------- MODULE RatchetLemmas ----------------------------
(***************************************************************************)
(* What the operations of a session do, for every session.  A root key is  *)
(* as long as the number of values mixed into it, and dh_ratchet mixes in  *)
(* two: a key is told apart from every other one by the length of its      *)
(* root, by the root and by the place in its chain.  No operation moves a  *)
(* chain back, and a session goes through the key store unchanged.         *)
(***************************************************************************)
EXTENDS Ratchet, FiniteSetTheorems, TLAPS

-----------------------------------------------------------------------------
Root == Seq(SUBSET RatchetKey)
ChainKey == [root : Root, i : Nat]
Entry == [dh : RatchetKey, n : Nat, key : ChainKey]

Session ==
  [dhs : RatchetKey, dhr : RatchetKey \cup {None}, rk : Root,
   cks : ChainKey \cup {None}, ckr : ChainKey \cup {None},
   ns : Nat, nr : Nat, pn : Nat, skipped : SUBSET Entry]

Message == [dh : RatchetKey, pn : Nat, n : Nat, key : ChainKey, body : Party]

Parity(root) == Len(root) % 2

\* The receiving chain of s has moved past the key k.
Past(s, k) ==
  /\ Len(k.root) < Len(s.rk)
  /\ Parity(k.root) # Parity(s.rk)
  /\ s.ckr # None /\ Len(k.root) = Len(s.rk) - 1
       => k.root = s.ckr.root /\ k.i < s.ckr.i

\* The sending chain of s has moved past the key k.
Spent(s, k) ==
  /\ Len(k.root) <= Len(s.rk)
  /\ Parity(k.root) = Parity(s.rk)
  /\ Len(k.root) = Len(s.rk)
       => k.root = s.rk /\ (s.cks # None => k.i < s.cks.i)

\* The chains of s hang off its root key, and it holds each key it passed over once.
Sound(s) ==
  /\ s \in Session
  /\ IsFiniteSet(s.skipped) /\ Cardinality(s.skipped) <= MaxStored
  /\ s.cks # None => s.cks.root = s.rk
  /\ s.ckr # None => Len(s.ckr.root) = Len(s.rk) - 1
  /\ \A e \in s.skipped : Past(s, e.key)
  /\ \A e, f \in s.skipped : e.key = f.key => e = f

\* The recipient has moved past k and holds it no more.
Gone(s, k) == Past(s, k) /\ \A e \in s.skipped : e.key # k

-----------------------------------------------------------------------------
\* Every non-empty set of naturals has a least element.
LEMMA LeastNatural ==
  ASSUME NEW T \in SUBSET Nat, T # {}
  PROVE  \E x \in T : \A y \in T : x <= y
<1> DEFINE R == {ss \in Nat \X Nat : ss[1] < ss[2]}
<1>1. IsWellFoundedOn(R, Nat)
  <2>1. OpToRel(<, Nat) = R
    BY Zenon DEF OpToRel
  <2> QED  BY <2>1, NatLessThanWellFounded, Zenon
<1>2. PICK x \in T : \A y \in T : ~(<<y, x>> \in R)
  BY <1>1, WFMin, Zenon
<1>3. ASSUME NEW y \in T
      PROVE  x <= y
  <2>1. x \in Nat /\ y \in Nat
    BY Zenon
  <2>2. <<y, x>> \in Nat \X Nat /\ <<y, x>>[1] = y /\ <<y, x>>[2] = x
    BY <2>1, Zenon
  <2>3. y < x => <<y, x>> \in R
    BY <2>2, Zenon
  <2> HIDE DEF R
  <2> QED  BY <1>2, <2>1, <2>3
<1> QED  BY <1>3, Zenon

\* Order lists every element of a finite set.
LEMMA OrderLists ==
  ASSUME NEW S, IsFiniteSet(S)
  PROVE  /\ Order(S) \in [1..Cardinality(S) -> S]
         /\ \A x \in S : \E i \in 1..Cardinality(S) : Order(S)[i] = x
<1> DEFINE n == Cardinality(S)
<1>1. n \in Nat /\ ExistsBijection(1..n, S)
  BY FS_CardinalityType, Zenon
<1>2. PICK f : f \in Bijection(1..n, S)
  BY <1>1, Zenon DEF ExistsBijection
<1>3. f \in [1..n -> S] /\ IsInjective(f)
  BY <1>2, Zenon DEF Bijection, Injection
<1>4. Order(S) \in [1..n -> S] /\ IsInjective(Order(S))
  BY <1>3, ZenonT(60) DEF Order, IsInjective
<1>5. Order(S) \in Injection(1..n, S)
  BY <1>4, Zenon DEF Injection
<1>6. Order(S) \in Surjection(1..n, S)
  BY <1>1, <1>5, FS_Injection, FS_Interval
<1> QED  BY <1>4, <1>6, Zenon DEF Surjection

-----------------------------------------------------------------------------
\* Mixing one more value into a root key changes its parity, two more keep it.
LEMMA ParityAlternates ==
  ASSUME NEW a, NEW b, Len(a) \in Nat
  PROVE  /\ Len(b) = Len(a) + 1 => Parity(a) # Parity(b)
         /\ Len(b) = Len(a) + 2 => Parity(a) = Parity(b)
<1>1. \A n \in Nat : (n + 1) % 2 # n % 2 /\ (n + 2) % 2 = n % 2
  OBVIOUS
<1> QED  BY <1>1, Zenon DEF Parity

\* From s to t the session has only moved on: what was behind its chains still is, and
\* every key it holds and did not hold was ahead.
Forward(s, t) ==
  /\ Sound(t)
  /\ Parity(t.rk) = Parity(s.rk)
  /\ \A k \in ChainKey : Past(s, k) => Past(t, k)
  /\ \A k \in ChainKey : Spent(s, k) => Spent(t, k)
  /\ \A e \in t.skipped : e \in s.skipped \/ ~Past(s, e.key)

\* Moving on twice is moving on.
LEMMA ForwardTransitive ==
  ASSUME NEW s, NEW t, NEW u, Forward(s, t), Forward(t, u)
  PROVE  Forward(s, u)
<1>1. u.skipped \subseteq Entry
  BY Zenon DEF Forward, Sound, Session
<1>2. \A e \in u.skipped : e.key \in ChainKey
  BY <1>1, Zenon DEF Entry
<1>3. \A e \in u.skipped : e \in s.skipped \/ ~Past(s, e.key)
  BY <1>2, Zenon DEF Forward
<1> QED  BY <1>3, Zenon DEF Forward

\* The entry of the key that is j steps ahead on the receiving chain.
Ahead(s, j) == [dh |-> s.dhr, n |-> s.nr + j, key |-> [s.ckr EXCEPT !.i = @ + j]]

\* What Bank adds are the next keys of the chain, one at a time.
LEMMA BankAdds ==
  ASSUME NEW s \in Session, s.dhr # None, s.ckr # None, NEW k \in Nat
  PROVE  /\ \A j \in Nat : /\ Ahead(s, j) \in Entry
                           /\ Ahead(s, j).key.root = s.ckr.root
                           /\ Ahead(s, j).key.i = s.ckr.i + j
                           /\ Ahead(s, j).n = s.nr + j
         /\ \A e \in Bank(s, k) : e \in s.skipped \/ \E j \in 0..(k - 1) : e = Ahead(s, j)
         /\ Bank(s, 0) = s.skipped
         /\ Bank(s, k + 1) \subseteq Bank(s, k) \cup {Ahead(s, k)}
<1>1. s.ckr \in ChainKey /\ s.dhr \in RatchetKey /\ s.nr \in Nat
  BY Zenon DEF Session
<1>2. ASSUME NEW j \in Nat
      PROVE  /\ Ahead(s, j) \in Entry
             /\ Ahead(s, j).key.root = s.ckr.root
             /\ Ahead(s, j).key.i = s.ckr.i + j
             /\ Ahead(s, j).n = s.nr + j
  BY <1>1 DEF Ahead, Entry, ChainKey
<1> DEFINE New(n) == {Ahead(s, j) : j \in 0..(n - 1)}
<1>3. \A n \in Nat : Bank(s, n) = {e \in s.skipped : \A f \in New(n) : e.dh # f.dh \/ e.n # f.n}
                                    \cup New(n)
  BY Zenon DEF Bank, Ahead
<1>4. \A e \in Bank(s, k) : e \in s.skipped \/ \E j \in 0..(k - 1) : e = Ahead(s, j)
  BY <1>3
<1>5. Bank(s, 0) = s.skipped
  <2>1. New(0) = {}
    OBVIOUS
  <2> HIDE DEF New
  <2> QED  BY <1>3, <2>1, Zenon
<1>6. Bank(s, k + 1) \subseteq Bank(s, k) \cup {Ahead(s, k)}
  <2>1. New(k + 1) = New(k) \cup {Ahead(s, k)}
    <3>1. 0..(k + 1 - 1) = (0..(k - 1)) \cup {k}
      OBVIOUS
    <3> QED  BY <3>1
  <2>2. New(k) \subseteq New(k + 1)
    BY <2>1, Zenon
  <2> HIDE DEF New
  <2> QED  BY <1>3, <2>1, <2>2
<1> QED  BY <1>2, <1>4, <1>5, <1>6, Zenon

\* skip_message_keys never holds more than MAX_STORED_SKIPPED keys.
LEMMA BankFits ==
  ASSUME NEW s, Sound(s), s.dhr # None, s.ckr # None, NEW k \in Nat, Room(s, k)
  PROVE  IsFiniteSet(Bank(s, k)) /\ Cardinality(Bank(s, k)) <= MaxStored
<1> USE RatchetStateAssumption
<1>1. s \in Session /\ IsFiniteSet(s.skipped) /\ Cardinality(s.skipped) <= MaxStored
  BY Zenon DEF Sound
<1>2. \A n \in Nat : IsFiniteSet(Bank(s, n))
  <2> SUFFICES ASSUME NEW n \in Nat
               PROVE  IsFiniteSet(Bank(s, n))
    BY Zenon
  <2> DEFINE I == 0..(n - 1)
             New == {Ahead(s, j) : j \in I}
             f == [j \in I |-> Ahead(s, j)]
  <2>1. IsFiniteSet(I)
    BY FS_Interval
  <2>2. f \in Surjection(I, New)
    BY Zenon DEF Surjection
  <2>3. IsFiniteSet(New)
    <3> HIDE DEF f, New, I
    <3> QED  BY <2>1, <2>2, FS_Surjection, Zenon
  <2>4. Bank(s, n) \subseteq s.skipped \cup New
    BY <1>1, BankAdds, Zenon
  <2>5. IsFiniteSet(s.skipped \cup New)
    <3> HIDE DEF New
    <3> QED  BY <1>1, <2>3, FS_Union, Zenon
  <2> HIDE DEF New
  <2> QED  BY <2>4, <2>5, FS_Subset, Zenon
<1>3. CASE k = 0
  BY <1>1, <1>3, BankAdds, Zenon
<1>4. CASE k # 0
  <2>1. k - 1 \in Nat /\ (k - 1) + 1 = k
    BY <1>4
  <2>2. Cardinality(Bank(s, k - 1)) < MaxStored
    BY <2>1 DEF Room
  <2> DEFINE B == Bank(s, k - 1) \cup {Ahead(s, k - 1)}
  <2>3. Bank(s, (k - 1) + 1) \subseteq B
    BY <1>1, <2>1, BankAdds, Zenon
  <2>4. Bank(s, k) \subseteq B
    BY <2>1, <2>3, Zenon
  <2>5. IsFiniteSet(Bank(s, k - 1)) /\ Cardinality(Bank(s, k - 1)) \in Nat
    BY <1>2, <2>1, FS_CardinalityType, Zenon
  <2>6. IsFiniteSet(B) /\ Cardinality(B) \in Nat /\ Cardinality(B) <= MaxStored
    <3>1. IsFiniteSet(B) /\ Cardinality(B) <= Cardinality(Bank(s, k - 1)) + 1
      <4> DEFINE C == Bank(s, k - 1)
                 a == Ahead(s, k - 1)
      <4>1. IsFiniteSet(C) /\ Cardinality(C) \in Nat
        BY <2>5, Zenon
      <4> HIDE DEF C, a
      <4>2. /\ IsFiniteSet(C \cup {a})
            /\ Cardinality(C \cup {a}) = IF a \in C THEN Cardinality(C) ELSE Cardinality(C) + 1
        BY <4>1, FS_AddElement, Zenon
      <4>3. Cardinality(C \cup {a}) <= Cardinality(C) + 1
        BY <4>1, <4>2
      <4> QED  BY <4>2, <4>3, Zenon DEF C, a
    <3> HIDE DEF B
    <3>2. Cardinality(B) \in Nat
      BY <3>1, FS_CardinalityType, Zenon
    <3> QED  BY <2>2, <2>5, <3>1, <3>2
  <2> HIDE DEF B
  <2>7. Cardinality(Bank(s, k)) <= Cardinality(B)
    BY <2>4, <2>6, FS_Subset, Zenon
  <2>8. Cardinality(Bank(s, k)) \in Nat
    BY <1>2, FS_CardinalityType, Zenon
  <2> QED  BY <1>2, <2>6, <2>7, <2>8
<1> QED  BY <1>3, <1>4, Zenon

\* The number of keys that SkipMessageKeys banks: there is room for them, and for no more.
LEMMA FitIs ==
  ASSUME NEW s, NEW gap \in Nat
  PROVE  /\ Fit(s, gap) \in 0..gap /\ Room(s, Fit(s, gap))
         /\ Fit(s, gap) = gap \/ ~Room(s, Fit(s, gap) + 1)
<1> SUFFICES \E k \in 0..gap : Room(s, k) /\ (k = gap \/ ~Room(s, k + 1))
  BY Zenon DEF Fit
<1> DEFINE T == {n \in Nat : ~Room(s, n)}
<1>0. Room(s, 0)
  BY DEF Room
<1>1. CASE Room(s, gap)
  BY <1>1
<1>2. CASE ~Room(s, gap)
  <2>1. PICK x \in T : \A y \in T : x <= y
    <3>1. T # {} /\ T \in SUBSET Nat
      BY <1>2, Zenon
    <3> HIDE DEF T
    <3> QED  BY <3>1, LeastNatural, Zenon
  <2>2. x \in Nat /\ x # 0 /\ x <= gap /\ ~Room(s, x)
    BY <1>0, <1>2, <2>1, Zenon
  <2>3. Room(s, x - 1)
    BY <2>1, <2>2
  <2> QED  BY <2>2, <2>3
<1> QED  BY <1>1, <1>2, Zenon

-----------------------------------------------------------------------------
\* Banking keys and moving the receiving chain past them moves the session on.
LEMMA MovePast ==
  ASSUME NEW s, Sound(s), s.dhr # None, s.ckr # None,
         NEW k \in Nat, NEW d \in Nat, k <= d, Room(s, k)
  PROVE  Forward(s, PassOver(s, k, d))
<1> DEFINE t == PassOver(s, k, d)
           ck == [s.ckr EXCEPT !.i = @ + d]
<1>1. s \in Session /\ s.ckr \in ChainKey /\ s.nr \in Nat
  BY Zenon DEF Sound, Session
<1>2. ck \in ChainKey /\ ck.root = s.ckr.root /\ ck.i = s.ckr.i + d
  BY <1>1 DEF ChainKey
<1>3. Bank(s, k) \subseteq Entry
  <2>1. s.skipped \subseteq Entry
    BY <1>1, Zenon DEF Session
  <2> QED  BY <1>1, <2>1, BankAdds
<1>4. t = [s EXCEPT !.nr = s.nr + k, !.skipped = Bank(s, k), !.ckr = ck]
  BY <1>1, Zenon DEF Session, PassOver
<1>5. /\ t \in Session
      /\ t.rk = s.rk /\ t.cks = s.cks /\ t.ckr = ck /\ t.skipped = Bank(s, k)
  <2> HIDE DEF t, ck
  <2>1. s.nr + k \in Nat
    BY <1>1
  <2> QED  BY <1>1, <1>2, <1>3, <1>4, <2>1, Zenon DEF Session
<1>6. s.rk \in Root /\ Len(s.rk) \in Nat
  BY <1>1 DEF Session, Root
<1>7. \A q \in ChainKey : q.root \in Root /\ Len(q.root) \in Nat /\ q.i \in Nat
  BY DEF ChainKey, Root
<1> HIDE DEF t, ck
<1>8. ASSUME NEW q \in ChainKey, Past(s, q)
      PROVE  Past(t, q)
  <2>1. q.i \in Nat /\ s.ckr.i \in Nat
    BY <1>1, <1>7, Zenon
  <2>2. q.i < s.ckr.i => q.i < s.ckr.i + d
    BY <2>1
  <2> QED  BY <1>2, <1>5, <1>8, <2>2, Zenon DEF Past
<1>9. \A q \in ChainKey : Spent(s, q) => Spent(t, q)
  BY <1>5, Zenon DEF Spent
<1>10. ASSUME NEW e \in t.skipped
       PROVE  /\ e \in Entry /\ e.key \in ChainKey
              /\ e \in s.skipped \/ ~Past(s, e.key)
              /\ Past(t, e.key)
  <2>1. e \in Entry /\ e.key \in ChainKey
    BY <1>3, <1>5 DEF Entry
  <2>2. CASE e \in s.skipped
    BY <1>8, <2>1, <2>2, Zenon DEF Sound
  <2>3. CASE e \notin s.skipped
    <3>1. PICK j \in 0..(k - 1) : e = Ahead(s, j)
      BY <1>1, <1>5, <2>3, BankAdds
    <3>2. j \in Nat /\ j < k
      OBVIOUS
    <3>3. e.key.root = s.ckr.root /\ e.key.i = s.ckr.i + j
      BY <1>1, <3>1, <3>2, BankAdds, Zenon
    <3>4. Len(s.ckr.root) = Len(s.rk) - 1
      BY Zenon DEF Sound
    <3>5. s.ckr.i \in Nat
      BY <1>1, <1>7, Zenon
    <3>6. ~Past(s, e.key)
      <4>1. ~(s.ckr.i + j < s.ckr.i)
        BY <3>2, <3>5
      <4> QED  BY <3>3, <3>4, <4>1, Zenon DEF Past
    <3>7. Past(t, e.key)
      <4>1. s.ckr.i + j < s.ckr.i + d
        BY <3>2, <3>5
      <4>2. Parity(s.ckr.root) # Parity(s.rk) /\ Len(s.ckr.root) < Len(s.rk)
        <5>1. Len(s.ckr.root) \in Nat
          BY <1>1, <1>7, Zenon
        <5>2. Len(s.rk) = Len(s.ckr.root) + 1
          BY <1>6, <3>4, <5>1
        <5>3. Parity(s.ckr.root) # Parity(s.rk)
          BY <5>1, <5>2, ParityAlternates
        <5>4. Len(s.ckr.root) < Len(s.rk)
          BY <5>1, <5>2
        <5> QED  BY <5>3, <5>4, Zenon
      <4> QED  BY <1>2, <1>5, <3>3, <4>1, <4>2, Zenon DEF Past
    <3> QED  BY <2>1, <3>6, <3>7, Zenon
  <2> QED  BY <2>2, <2>3, Zenon
<1>11. ASSUME NEW e \in t.skipped, NEW f \in t.skipped, e.key = f.key
       PROVE  e = f
  <2>1. CASE e \in s.skipped /\ f \in s.skipped
    BY <1>11, <2>1, Zenon DEF Sound
  <2>2. CASE e \in s.skipped /\ f \notin s.skipped
    BY <1>10, <1>11, <2>2, Zenon DEF Sound
  <2>3. CASE e \notin s.skipped /\ f \in s.skipped
    BY <1>10, <1>11, <2>3, Zenon DEF Sound
  <2>4. CASE e \notin s.skipped /\ f \notin s.skipped
    <3>1. PICK i \in 0..(k - 1) : e = Ahead(s, i)
      BY <1>1, <1>5, <2>4, BankAdds
    <3>2. PICK j \in 0..(k - 1) : f = Ahead(s, j)
      BY <1>1, <1>5, <2>4, BankAdds
    <3>3. i \in Nat /\ j \in Nat
      OBVIOUS
    <3>4. e.key.i = s.ckr.i + i /\ f.key.i = s.ckr.i + j
      BY <1>1, <3>1, <3>2, <3>3, BankAdds, Zenon
    <3>5. i = j
      BY <1>1, <1>7, <1>11, <3>3, <3>4
    <3> QED  BY <3>1, <3>2, <3>5, Zenon
  <2> QED  BY <2>1, <2>2, <2>3, <2>4, Zenon
<1>12. IsFiniteSet(t.skipped) /\ Cardinality(t.skipped) <= MaxStored
  BY <1>5, BankFits, Zenon
<1>13. /\ t.cks # None => t.cks.root = t.rk
       /\ t.ckr # None => Len(t.ckr.root) = Len(t.rk) - 1
  BY <1>2, <1>5, Zenon DEF Sound
<1>14. Sound(t)
  BY <1>5, <1>10, <1>11, <1>12, <1>13, Zenon DEF Sound
<1>15. Forward(s, t)
  BY <1>5, <1>8, <1>9, <1>10, <1>14, Zenon DEF Forward
<1> QED  BY <1>15, Zenon DEF t

\* A session that stays as it is has moved on.
LEMMA ForwardStays ==
  ASSUME NEW s, Sound(s)
  PROVE  Forward(s, s)
BY Zenon DEF Forward

\* skip_message_keys moves the session on, also when it fails.
LEMMA SkipForward ==
  ASSUME NEW s, Sound(s), NEW until \in Nat
  PROVE  Forward(s, SkipMessageKeys(s, until).st)
<1> DEFINE gap == until - s.nr
           fit == Fit(s, gap)
           r == SkipMessageKeys(s, until)
<1>1. s.nr \in Nat /\ gap \in Int
  BY DEF Sound, Session
<1>2. r = IF s.dhr = None \/ s.ckr = None THEN Done(s)
          ELSE IF until > s.nr + MaxSkip THEN Failed(s)
          ELSE IF gap <= 0 THEN Done(s)
          ELSE IF fit = gap THEN Done(PassOver(s, gap, gap))
          ELSE Failed(PassOver(s, fit, fit + 1))
  BY Zenon DEF SkipMessageKeys
<1>3. CASE r = Done(s) \/ r = Failed(s)
  BY <1>3, ForwardStays DEF Done, Failed
<1>4. CASE s.dhr # None /\ s.ckr # None /\ ~(gap <= 0)
  <2>1. gap \in Nat
    BY <1>1, <1>4
  <2>2. fit \in 0..gap /\ Room(s, fit)
    BY <2>1, FitIs, Zenon
  <2>3. fit \in Nat /\ fit + 1 \in Nat /\ fit <= fit + 1 /\ fit <= fit
    BY <2>2
  <2> HIDE DEF fit, gap, r
  <2>4. CASE r = Done(PassOver(s, gap, gap)) /\ fit = gap
    <3>1. Forward(s, PassOver(s, gap, gap))
      BY <1>4, <2>1, <2>2, <2>3, <2>4, MovePast, Zenon
    <3>2. r.st = PassOver(s, gap, gap)
      BY <2>4 DEF Done
    <3> QED  BY <3>1, <3>2, Zenon DEF r
  <2>5. CASE r = Failed(PassOver(s, fit, fit + 1))
    <3>1. Forward(s, PassOver(s, fit, fit + 1))
      BY <1>4, <2>2, <2>3, MovePast, Zenon
    <3>2. r.st = PassOver(s, fit, fit + 1)
      BY <2>5 DEF Failed
    <3> QED  BY <3>1, <3>2, Zenon DEF r
  <2> QED  BY <1>2, <1>3, <2>4, <2>5, Zenon
<1> QED  BY <1>2, <1>3, <1>4, Zenon

\* A session has two chains of its own, and the one it receives on is ahead of all it
\* is past.
LEMMA SessionTypes ==
  ASSUME NEW s, Sound(s)
  PROVE  /\ s \in Session /\ s.dhs \in RatchetKey /\ s.rk \in Root /\ Len(s.rk) \in Nat
         /\ s.ns \in Nat /\ s.nr \in Nat /\ s.pn \in Nat
         /\ s.cks # None => s.cks \in ChainKey /\ s.cks.root = s.rk
         /\ s.ckr # None => s.ckr \in ChainKey /\ ~Past(s, s.ckr)
         /\ \A k \in ChainKey : k.root \in Root /\ Len(k.root) \in Nat /\ k.i \in Nat
         /\ \A e \in s.skipped : e \in Entry /\ e.key \in ChainKey
<1>1. s \in Session
  BY Zenon DEF Sound
<1>2. /\ s.dhs \in RatchetKey /\ s.rk \in Root /\ s.ns \in Nat /\ s.nr \in Nat /\ s.pn \in Nat
      /\ s.cks # None => s.cks \in ChainKey
      /\ s.ckr # None => s.ckr \in ChainKey
      /\ s.skipped \subseteq Entry
  BY <1>1, Zenon DEF Session
<1>3. Len(s.rk) \in Nat
  BY <1>2 DEF Root
<1>4. \A k \in ChainKey : k.root \in Root /\ Len(k.root) \in Nat /\ k.i \in Nat
  BY DEF ChainKey, Root
<1>5. ASSUME s.ckr # None
      PROVE  ~Past(s, s.ckr)
  <2>1. s.ckr.i \in Nat /\ Len(s.ckr.root) = Len(s.rk) - 1
    BY <1>2, <1>4, <1>5, Zenon DEF Sound
  <2>2. ~(s.ckr.i < s.ckr.i)
    BY <2>1
  <2> QED  BY <1>5, <2>1, <2>2, Zenon DEF Past
<1>6. \A e \in s.skipped : e \in Entry /\ e.key \in ChainKey
  BY <1>2, Zenon DEF Entry
<1>7. s.cks # None => s.cks.root = s.rk
  BY Zenon DEF Sound
<1> QED  BY <1>1, <1>2, <1>3, <1>4, <1>5, <1>6, <1>7, Zenon

\* Taking the message's own key off the receiving chain moves the session past that key,
\* which it was not past before.
LEMMA OpenNextForward ==
  ASSUME NEW s, Sound(s), NEW m, NEW intact \in BOOLEAN
  PROVE  LET r == OpenNext(s, m, intact)
         IN  /\ Forward(s, r.st)
             /\ r.ok \in BOOLEAN
             /\ r.ok => m.key \in ChainKey /\ Gone(r.st, m.key) /\ ~Past(s, m.key)
<1> DEFINE r == OpenNext(s, m, intact)
<1>1. CASE s.ckr = None
  BY <1>1, ForwardStays, Zenon DEF OpenNext, Failed
<1>2. CASE s.ckr # None
  <2> DEFINE ck == NextCk(s.ckr)
             t == [s EXCEPT !.ckr = ck, !.nr = @ + 1]
  <2>1. /\ r.st = t
        /\ r.ok = (intact /\ m.key = s.ckr)
    BY <1>2, Zenon DEF OpenNext
  <2>2. s \in Session /\ s.ckr \in ChainKey /\ s.nr \in Nat /\ ~Past(s, s.ckr)
    BY <1>2, SessionTypes, Zenon
  <2>3. ck \in ChainKey /\ ck.root = s.ckr.root /\ ck.i = s.ckr.i + 1 /\ s.ckr.i \in Nat
    BY <2>2 DEF NextCk, ChainKey
  <2>4. /\ t \in Session
        /\ t.rk = s.rk /\ t.cks = s.cks /\ t.ckr = ck /\ t.skipped = s.skipped
    <3> HIDE DEF ck
    <3>1. s.nr + 1 \in Nat
      BY <2>2
    <3> QED  BY <2>2, <2>3, <3>1, Zenon DEF Session
  <2> HIDE DEF ck, t
  <2>5. Len(s.ckr.root) = Len(s.rk) - 1
    BY <1>2, Zenon DEF Sound
  <2>6. ASSUME NEW q \in ChainKey, Past(s, q)
        PROVE  Past(t, q)
    <3>1. q.i \in Nat
      BY SessionTypes, Zenon
    <3>2. q.i < s.ckr.i => q.i < s.ckr.i + 1
      BY <2>3, <3>1
    <3> QED  BY <1>2, <2>3, <2>4, <2>6, <3>2, Zenon DEF Past
  <2>7. \A q \in ChainKey : Spent(s, q) => Spent(t, q)
    BY <2>4, Zenon DEF Spent
  <2>8. \A e \in t.skipped : e \in s.skipped /\ Past(s, e.key) /\ Past(t, e.key)
    BY <2>4, <2>6, SessionTypes, Zenon DEF Sound
  <2>9. Sound(t)
    BY <2>3, <2>4, <2>5, <2>8, Zenon DEF Sound
  <2>10. Forward(s, t)
    BY <2>4, <2>6, <2>7, <2>8, <2>9, Zenon DEF Forward
  <2>11. Gone(t, s.ckr)
    <3>1. s.ckr.i < s.ckr.i + 1
      BY <2>3
    <3>2. Len(s.ckr.root) \in Nat /\ Len(s.rk) \in Nat
      BY <2>2, SessionTypes, Zenon
    <3>3. Len(s.ckr.root) < Len(s.rk) /\ Len(s.rk) = Len(s.ckr.root) + 1
      BY <2>5, <3>2
    <3>4. Parity(s.ckr.root) # Parity(s.rk)
      BY <3>2, <3>3, ParityAlternates
    <3>5. Past(t, s.ckr)
      BY <2>3, <2>4, <3>1, <3>3, <3>4, Zenon DEF Past
    <3>6. \A e \in t.skipped : e.key # s.ckr
      BY <2>2, <2>8, Zenon
    <3> QED  BY <3>5, <3>6, Zenon DEF Gone
  <2> QED  BY <2>1, <2>2, <2>10, <2>11, Zenon
<1> QED  BY <1>1, <1>2, Zenon

\* dh_ratchet mixes two values into the root key, which leaves every key of before behind.
LEMMA DhRatchetForward ==
  ASSUME NEW s, Sound(s), NEW dh \in RatchetKey
  PROVE  Forward(s, DhRatchet(s, dh))
<1> DEFINE dhs == <<s.dhs[1], s.dhs[2] + 1>>
           a == DiffieHellman(s.dhs, dh)
           b == DiffieHellman(dhs, dh)
           rk1 == Append(s.rk, a)
           rk2 == Append(rk1, b)
           ckr == [root |-> rk1, i |-> 0]
           cks == [root |-> rk2, i |-> 0]
           t == DhRatchet(s, dh)
<1>1. s \in Session /\ s.dhs \in RatchetKey /\ s.rk \in Root /\ Len(s.rk) \in Nat /\ s.ns \in Nat
  BY SessionTypes, Zenon
<1>2. dhs \in RatchetKey
  BY <1>1 DEF RatchetKey
<1>3. a \in SUBSET RatchetKey /\ b \in SUBSET RatchetKey
  <2> HIDE DEF dhs
  <2> QED  BY <1>1, <1>2, Zenon DEF DiffieHellman
<1>4. t = [s EXCEPT !.pn = s.ns, !.ns = 0, !.nr = 0, !.dhr = dh, !.ckr = ckr,
                    !.dhs = dhs, !.rk = rk2, !.cks = cks]
  BY Zenon DEF DhRatchet, KdfRk
<1> HIDE DEF dhs, a, b, t
<1>5. /\ rk1 \in Root /\ Len(rk1) = Len(s.rk) + 1
      /\ rk2 \in Root /\ Len(rk2) = Len(s.rk) + 2
  <2>1. rk1 \in Root /\ Len(rk1) = Len(s.rk) + 1
    BY <1>1, <1>3 DEF Root
  <2> HIDE DEF rk1
  <2>2. rk2 \in Root /\ Len(rk2) = Len(rk1) + 1
    BY <1>3, <2>1 DEF Root
  <2> QED  BY <1>1, <2>1, <2>2
<1> HIDE DEF rk1, rk2
<1>6. ckr \in ChainKey /\ cks \in ChainKey /\ ckr.root = rk1 /\ cks.root = rk2
  BY <1>5, Zenon DEF ChainKey
<1> HIDE DEF ckr, cks
<1>7. /\ t \in Session
      /\ t.rk = rk2 /\ t.cks = cks /\ t.ckr = ckr /\ t.skipped = s.skipped
  BY <1>1, <1>2, <1>4, <1>5, <1>6, ZenonT(60) DEF Session
<1>8. Parity(t.rk) = Parity(s.rk)
  BY <1>1, <1>5, <1>7, ParityAlternates, Zenon
<1>9. ASSUME NEW q \in ChainKey
      PROVE  /\ Past(s, q) => Past(t, q)
             /\ Spent(s, q) => Spent(t, q)
  <2>1. Len(q.root) \in Nat
    BY SessionTypes, Zenon
  <2>2. /\ Len(q.root) < Len(s.rk) => Len(q.root) < Len(rk2) /\ Len(q.root) # Len(rk2) - 1
        /\ Len(q.root) <= Len(s.rk) => Len(q.root) <= Len(rk2) /\ Len(q.root) # Len(rk2)
    BY <1>1, <1>5, <2>1
  <2> QED  BY <1>7, <1>8, <2>2, Zenon DEF Past, Spent
<1>10. \A e \in t.skipped : Past(s, e.key) /\ Past(t, e.key)
  BY <1>7, <1>9, SessionTypes, Zenon DEF Sound
<1>11. Len(ckr.root) = Len(t.rk) - 1
  BY <1>1, <1>5, <1>6, <1>7
<1>12. Sound(t)
  BY <1>6, <1>7, <1>10, <1>11, Zenon DEF Sound
<1>13. Forward(s, t)
  BY <1>7, <1>8, <1>9, <1>12, Zenon DEF Forward
<1> QED  BY <1>13, Zenon DEF t

\* decrypt moves the session on whatever comes of it.  What it opens it had not left
\* behind, and has left behind then.
LEMMA DecryptForward ==
  ASSUME NEW s, Sound(s), NEW m \in Message, NEW intact \in BOOLEAN
  PROVE  LET r == Decrypt(s, m, intact)
         IN  /\ Forward(s, r.st)
             /\ r.ok => Gone(r.st, m.key) /\ ~Gone(s, m.key)
<1> DEFINE r == Decrypt(s, m, intact)
<1>0. m.dh \in RatchetKey /\ m.pn \in Nat /\ m.n \in Nat /\ m.key \in ChainKey
  BY Zenon DEF Message
<1>1. CASE Banked(s, m) # {}
  <2> DEFINE t == [s EXCEPT !.skipped = @ \ Banked(s, m)]
  <2>1. /\ r.st = t
        /\ r.ok = (intact /\ \E e \in Banked(s, m) : m.key = e.key)
    BY <1>1, Zenon DEF Decrypt
  <2>2. /\ t \in Session
        /\ t.rk = s.rk /\ t.cks = s.cks /\ t.ckr = s.ckr
        /\ t.skipped = s.skipped \ Banked(s, m)
    BY SessionTypes DEF Session
  <2> HIDE DEF t
  <2>3. /\ \A q : Past(s, q) <=> Past(t, q)
        /\ \A q : Spent(s, q) <=> Spent(t, q)
    BY <2>2, Zenon DEF Past, Spent
  <2>4. IsFiniteSet(t.skipped) /\ Cardinality(t.skipped) <= MaxStored
    <3>1. IsFiniteSet(s.skipped) /\ Cardinality(s.skipped) <= MaxStored
      BY Zenon DEF Sound
    <3>2. t.skipped \in SUBSET s.skipped
      BY <2>2, Zenon
    <3>3. IsFiniteSet(t.skipped) /\ Cardinality(t.skipped) <= Cardinality(s.skipped)
      BY <3>1, <3>2, FS_Subset, Zenon
    <3>4. Cardinality(t.skipped) \in Nat /\ Cardinality(s.skipped) \in Nat
      BY <3>1, <3>3, FS_CardinalityType, Zenon
    <3> QED  BY <3>1, <3>3, <3>4, RatchetStateAssumption
  <2>5. Sound(t)
    BY <2>2, <2>3, <2>4, Zenon DEF Sound
  <2>6. Forward(s, t)
    BY <2>2, <2>3, <2>5, Zenon DEF Forward
  <2>7. ASSUME r.ok
        PROVE  Gone(t, m.key) /\ ~Gone(s, m.key)
    <3>1. PICK e \in Banked(s, m) : m.key = e.key
      BY <2>1, <2>7, Zenon
    <3>2. e \in s.skipped /\ Past(s, e.key)
      BY Zenon DEF Banked, Sound
    <3>3. \A f \in t.skipped : f.key # m.key
      BY <2>2, <3>1, <3>2, Zenon DEF Sound
    <3> QED  BY <2>3, <3>1, <3>2, <3>3, Zenon DEF Gone
  <2> QED  BY <2>1, <2>6, <2>7, Zenon
<1>2. CASE Banked(s, m) = {}
  <2> DEFINE old == SkipMessageKeys(s, m.pn)
             step == IF s.dhr = m.dh THEN Done(s)
                     ELSE IF old.ok THEN Done(DhRatchet(old.st, m.dh))
                     ELSE old
             skip == SkipMessageKeys(step.st, m.n)
             last == OpenNext(skip.st, m, intact)
  <2>1. r = IF ~step.ok THEN step ELSE IF ~skip.ok THEN skip ELSE last
    BY <1>2, Zenon DEF Decrypt
  <2>2. Forward(s, old.st)
    BY <1>0, SkipForward, Zenon
  <2>3. Forward(s, step.st)
    <3>1. CASE step = Done(s)
      BY <3>1, ForwardStays DEF Done
    <3>2. CASE step = Done(DhRatchet(old.st, m.dh))
      <4> HIDE DEF old
      <4>1. Forward(old.st, DhRatchet(old.st, m.dh))
        BY <1>0, <2>2, DhRatchetForward, Zenon DEF Forward
      <4>2. step.st = DhRatchet(old.st, m.dh)
        BY <3>2 DEF Done
      <4> HIDE DEF step
      <4> QED  BY <2>2, <4>1, <4>2, ForwardTransitive, Zenon
    <3>3. CASE step = old
      BY <2>2, <3>3, Zenon
    <3> QED  BY <3>1, <3>2, <3>3, Zenon
  <2> HIDE DEF old, step
  <2>4. Forward(step.st, skip.st)
    BY <1>0, <2>3, SkipForward, Zenon DEF Forward
  <2> HIDE DEF skip
  <2>5. Forward(s, skip.st)
    BY <2>3, <2>4, ForwardTransitive, Zenon
  <2>6. /\ Forward(skip.st, last.st)
        /\ last.ok => Gone(last.st, m.key) /\ ~Past(skip.st, m.key)
    <3>1. Sound(skip.st)
      BY <2>5, Zenon DEF Forward
    <3> QED  BY <3>1, OpenNextForward, Zenon
  <2> HIDE DEF last
  <2>7. Forward(s, last.st)
    BY <2>5, <2>6, ForwardTransitive, Zenon
  <2>8. last.ok => ~Gone(s, m.key)
    BY <1>0, <2>5, <2>6, Zenon DEF Forward, Gone
  <2>9. Forward(s, r.st)
    <3> HIDE DEF r
    <3> QED  BY <2>1, <2>3, <2>5, <2>7, Zenon
  <2>10. r.ok => last.ok /\ r = last
    BY <2>1, Zenon
  <2> HIDE DEF r
  <2>11. r.ok => Gone(r.st, m.key) /\ ~Gone(s, m.key)
    BY <2>6, <2>8, <2>10, Zenon
  <2> QED  BY <2>9, <2>11, Zenon DEF r
<1> QED  BY <1>1, <1>2, Zenon

-----------------------------------------------------------------------------
\* The pieces of two blobs, one after the other.
LEMMA ConcatAt ==
  ASSUME NEW U, NEW a \in Seq(U), NEW b \in Seq(U)
  PROVE  /\ a \o b \in Seq(U)
         /\ Len(a) \in Nat /\ Len(b) \in Nat
         /\ Len(a \o b) = Len(a) + Len(b)
         /\ \A i \in 1..Len(a) : (a \o b)[i] = a[i]
         /\ \A i \in 1..Len(b) : (a \o b)[Len(a) + i] = b[i]
<1>1. Len(a) \in Nat /\ Len(b) \in Nat
  OBVIOUS
<1>2. a \o b \in Seq(U) /\ Len(a \o b) = Len(a) + Len(b)
  OBVIOUS
<1>3. \A i \in 1..Len(a) : (a \o b)[i] = a[i]
  OBVIOUS
<1>4. \A i \in 1..Len(b) : (a \o b)[Len(a) + i] = b[i]
  OBVIOUS
<1> QED  BY <1>1, <1>2, <1>3, <1>4, Zenon

\* A key that may be there takes one piece or none.
LEMMA OptionalAt ==
  ASSUME NEW U, NEW key \in U
  PROVE  /\ Optional(key) \in Seq(U)
         /\ Len(Optional(key)) = IF key = None THEN 0 ELSE 1
         /\ key # None => Optional(key)[1] = key
<1>1. CASE key = None
  BY <1>1 DEF Optional
<1>2. CASE key # None
  <2>1. Optional(key) = <<key>>
    BY <1>2, Zenon DEF Optional
  <2>2. <<key>> \in Seq(U) /\ Len(<<key>>) = 1 /\ <<key>>[1] = key
    OBVIOUS
  <2> QED  BY <1>2, <2>1, <2>2, Zenon
<1> QED  BY <1>1, <1>2, Zenon

\* The three bits of the third piece are read back one by one.
LEMMA BitsApart ==
  ASSUME NEW x \in {0, 1}, NEW y \in {0, 1}, NEW z \in {0, 1}
  PROVE  /\ ((x + 2 * y + 4 * z) \div 1) % 2 = x
         /\ ((x + 2 * y + 4 * z) \div 2) % 2 = y
         /\ ((x + 2 * y + 4 * z) \div 4) % 2 = z
OBVIOUS

\* Entry i of the skipped keys is at pieces 3i - 2 to 3i.
LEMMA PiecesAt ==
  ASSUME NEW q, Len(q) \in Nat, NEW i \in 1..Len(q)
  PROVE  /\ 3 * (i - 1) + 1 \in 1..(3 * Len(q)) /\ Pieces(q)[3 * (i - 1) + 1] = q[i].dh
         /\ 3 * (i - 1) + 2 \in 1..(3 * Len(q)) /\ Pieces(q)[3 * (i - 1) + 2] = q[i].n
         /\ 3 * (i - 1) + 3 \in 1..(3 * Len(q)) /\ Pieces(q)[3 * (i - 1) + 3] = q[i].key
<1> DEFINE at(j) == 3 * (i - 1) + j
           D == 1..(3 * Len(q))
           val(j) == LET e == q[(j + 2) \div 3]
                     IN  IF j % 3 = 1 THEN e.dh ELSE IF j % 3 = 2 THEN e.n ELSE e.key
<1>1. at(1) \in D /\ at(2) \in D /\ at(3) \in D
  OBVIOUS
<1>2. /\ (at(1) + 2) \div 3 = i /\ at(1) % 3 = 1
      /\ (at(2) + 2) \div 3 = i /\ at(2) % 3 = 2
      /\ (at(3) + 2) \div 3 = i /\ at(3) % 3 = 0
  OBVIOUS
<1>3. Pieces(q) = [j \in D |-> val(j)]
  BY Zenon DEF Pieces
<1> HIDE DEF at, D
<1>4. Pieces(q)[at(1)] = val(at(1)) /\ Pieces(q)[at(2)] = val(at(2)) /\ Pieces(q)[at(3)] = val(at(3))
  BY <1>1, <1>3, Zenon
<1>5. val(at(1)) = q[i].dh /\ val(at(2)) = q[i].n /\ val(at(3)) = q[i].key
  BY <1>2
<1> HIDE DEF val
<1> QED  BY <1>1, <1>4, <1>5, Zenon DEF at, D

\* What to_bytes writes, from_bytes reads back, piece by piece.
LEMMA LoadedIsSame ==
  ASSUME NEW s, Sound(s)
  PROVE  FromBytes(ToBytes(s)) = {s}
<1> DEFINE n == Cardinality(s.skipped)
           q == Order(s.skipped)
           P == Pieces(q)
           x == Bit(s.dhr, 1)
           y == IF s.cks = None THEN 0 ELSE 1
           z == IF s.ckr = None THEN 0 ELSE 1
           bits == x + Bit(s.cks, 2) + Bit(s.ckr, 4)
           U == {StateVersion, s.dhs, bits, s.dhr, s.rk, s.cks, s.ckr, s.ns, s.nr, s.pn, n}
                  \cup {P[j] : j \in 1..(3 * n)}
           a0 == <<StateVersion, s.dhs, bits>>
           a1 == Optional(s.dhr)
           a2 == <<s.rk>>
           a3 == Optional(s.cks)
           a4 == Optional(s.ckr)
           a5 == <<s.ns, s.nr, s.pn, n>>
           c1 == a0 \o a1
           c2 == c1 \o a2
           c3 == c2 \o a3
           c4 == c3 \o a4
           c5 == c4 \o a5
           blob == c5 \o P
<1>1. blob = ToBytes(s)
  BY Zenon DEF ToBytes
<1>2. n \in Nat /\ n <= MaxStored /\ IsFiniteSet(s.skipped)
  BY FS_CardinalityType, Zenon DEF Sound
<1>3. /\ q \in [1..n -> s.skipped] /\ Len(q) = n
      /\ \A e \in s.skipped : \E i \in 1..n : q[i] = e
  <2>1. /\ q \in [1..n -> s.skipped]
        /\ \A e \in s.skipped : \E i \in 1..n : q[i] = e
    BY <1>2, OrderLists, Zenon
  <2> HIDE DEF q, n
  <2>2. q \in Seq(s.skipped) /\ Len(q) = n
    BY <1>2, <2>1
  <2> QED  BY <2>1, <2>2, Zenon
<1>4. P \in Seq(U) /\ Len(P) = 3 * n
  <2>1. DOMAIN P = 1..(3 * n)
    BY <1>3, Zenon DEF Pieces
  <2>2. P = [j \in 1..(3 * n) |-> P[j]]
    BY <1>3, Zenon DEF Pieces
  <2>3. \A j \in 1..(3 * n) : P[j] \in U
    BY Zenon
  <2> HIDE DEF P, U, n
  <2>4. 3 * n \in Nat
    BY <1>2
  <2> QED  BY <2>2, <2>3, <2>4
<1>5. /\ x \in {0, 1} /\ y \in {0, 1} /\ z \in {0, 1}
      /\ bits = x + 2 * y + 4 * z
  BY DEF Bit
<1>6. /\ x = 1 <=> s.dhr # None
      /\ y = 1 <=> s.cks # None
      /\ z = 1 <=> s.ckr # None
  BY DEF Bit
<1> HIDE DEF P, n, q, bits
<1>7. /\ a0 \in Seq(U) /\ Len(a0) = 3
      /\ a1 \in Seq(U) /\ Len(a1) = x /\ (x = 1 => a1[1] = s.dhr)
      /\ a2 \in Seq(U) /\ Len(a2) = 1
      /\ a3 \in Seq(U) /\ Len(a3) = y /\ (y = 1 => a3[1] = s.cks)
      /\ a4 \in Seq(U) /\ Len(a4) = z /\ (z = 1 => a4[1] = s.ckr)
      /\ a5 \in Seq(U) /\ Len(a5) = 4
  <2>1. a0 \in Seq(U) /\ Len(a0) = 3
    OBVIOUS
  <2>2. a1 \in Seq(U) /\ Len(a1) = x /\ (x = 1 => a1[1] = s.dhr)
    <3>1. s.dhr \in U /\ x = IF s.dhr = None THEN 0 ELSE 1
      BY Zenon DEF Bit
    <3> HIDE DEF U, x
    <3>2. /\ Optional(s.dhr) \in Seq(U)
          /\ Len(Optional(s.dhr)) = IF s.dhr = None THEN 0 ELSE 1
          /\ s.dhr # None => Optional(s.dhr)[1] = s.dhr
      BY <3>1, OptionalAt, Zenon
    <3> QED  BY <1>6, <3>1, <3>2, Zenon
  <2>3. a2 \in Seq(U) /\ Len(a2) = 1
    OBVIOUS
  <2>4. a3 \in Seq(U) /\ Len(a3) = y /\ (y = 1 => a3[1] = s.cks)
    <3>1. s.cks \in U
      BY Zenon
    <3> HIDE DEF U
    <3>2. /\ Optional(s.cks) \in Seq(U)
          /\ Len(Optional(s.cks)) = IF s.cks = None THEN 0 ELSE 1
          /\ s.cks # None => Optional(s.cks)[1] = s.cks
      BY <3>1, OptionalAt, Zenon
    <3> QED  BY <1>6, <3>1, <3>2, Zenon
  <2>5. a4 \in Seq(U) /\ Len(a4) = z /\ (z = 1 => a4[1] = s.ckr)
    <3>1. s.ckr \in U
      BY Zenon
    <3> HIDE DEF U
    <3>2. /\ Optional(s.ckr) \in Seq(U)
          /\ Len(Optional(s.ckr)) = IF s.ckr = None THEN 0 ELSE 1
          /\ s.ckr # None => Optional(s.ckr)[1] = s.ckr
      BY <3>1, OptionalAt, Zenon
    <3> QED  BY <1>6, <3>1, <3>2, Zenon
  <2>6. a5 \in Seq(U) /\ Len(a5) = 4
    OBVIOUS
  <2> QED  BY <2>1, <2>2, <2>3, <2>4, <2>5, <2>6, Zenon
<1>8. /\ a0[1] = StateVersion /\ a0[2] = s.dhs /\ a0[3] = bits
      /\ a2[1] = s.rk
      /\ a5[1] = s.ns /\ a5[2] = s.nr /\ a5[3] = s.pn /\ a5[4] = n
  BY Zenon
<1> HIDE DEF a0, a1, a2, a3, a4, a5, x, y, z, U
<1>9. /\ c1 \in Seq(U) /\ Len(c1) = 3 + x
      /\ c1[1] = StateVersion /\ c1[2] = s.dhs /\ c1[3] = bits
      /\ x = 1 => c1[4] = s.dhr
  <2>1. /\ c1 \in Seq(U) /\ Len(c1) = Len(a0) + Len(a1)
        /\ \A i \in 1..Len(a0) : c1[i] = a0[i]
        /\ \A i \in 1..Len(a1) : c1[Len(a0) + i] = a1[i]
    <3>1. a0 \in Seq(U) /\ a1 \in Seq(U)
      BY <1>7, Zenon
    <3> QED  BY <3>1, ConcatAt
  <2> HIDE DEF c1
  <2>2. /\ \A i \in 1..(3) : c1[i] = a0[i]
        /\ \A i \in 1..Len(a1) : c1[3 + i] = a1[i]
    BY <2>1, <1>5, <1>7, <1>8, Zenon
  <2> QED  BY <2>1, <2>2, <1>5, <1>7, <1>8, SMTT(40)
<1> HIDE DEF c1
<1>10. /\ c2 \in Seq(U) /\ Len(c2) = 4 + x
       /\ c2[1] = StateVersion /\ c2[2] = s.dhs /\ c2[3] = bits
       /\ x = 1 => c2[4] = s.dhr
       /\ c2[4 + x] = s.rk
  <2>1. /\ c2 \in Seq(U) /\ Len(c2) = Len(c1) + Len(a2)
        /\ \A i \in 1..Len(c1) : c2[i] = c1[i]
        /\ \A i \in 1..Len(a2) : c2[Len(c1) + i] = a2[i]
    <3>1. c1 \in Seq(U) /\ a2 \in Seq(U)
      BY <1>7, <1>9, Zenon
    <3> QED  BY <3>1, ConcatAt
  <2> HIDE DEF c2
  <2>2. /\ \A i \in 1..(3 + x) : c2[i] = c1[i]
        /\ \A i \in 1..Len(a2) : c2[3 + x + i] = a2[i]
    BY <2>1, <1>5, <1>7, <1>8, <1>9, Zenon
  <2> QED  BY <2>1, <2>2, <1>5, <1>7, <1>8, <1>9, SMTT(40)
<1> HIDE DEF c2
<1>11. /\ c3 \in Seq(U) /\ Len(c3) = 4 + x + y
       /\ c3[1] = StateVersion /\ c3[2] = s.dhs /\ c3[3] = bits
       /\ x = 1 => c3[4] = s.dhr
       /\ c3[4 + x] = s.rk
       /\ y = 1 => c3[4 + x + y] = s.cks
  <2>1. /\ c3 \in Seq(U) /\ Len(c3) = Len(c2) + Len(a3)
        /\ \A i \in 1..Len(c2) : c3[i] = c2[i]
        /\ \A i \in 1..Len(a3) : c3[Len(c2) + i] = a3[i]
    <3>1. c2 \in Seq(U) /\ a3 \in Seq(U)
      BY <1>7, <1>10, Zenon
    <3> QED  BY <3>1, ConcatAt
  <2> HIDE DEF c3
  <2>2. /\ \A i \in 1..(4 + x) : c3[i] = c2[i]
        /\ \A i \in 1..Len(a3) : c3[4 + x + i] = a3[i]
    BY <2>1, <1>5, <1>7, <1>8, <1>10, Zenon
  <2> QED  BY <2>1, <2>2, <1>5, <1>7, <1>8, <1>10, SMTT(40)
<1> HIDE DEF c3
<1>12. /\ c4 \in Seq(U) /\ Len(c4) = 4 + x + y + z
       /\ c4[1] = StateVersion /\ c4[2] = s.dhs /\ c4[3] = bits
       /\ x = 1 => c4[4] = s.dhr
       /\ c4[4 + x] = s.rk
       /\ y = 1 => c4[4 + x + y] = s.cks
       /\ z = 1 => c4[4 + x + y + z] = s.ckr
  <2>1. /\ c4 \in Seq(U) /\ Len(c4) = Len(c3) + Len(a4)
        /\ \A i \in 1..Len(c3) : c4[i] = c3[i]
        /\ \A i \in 1..Len(a4) : c4[Len(c3) + i] = a4[i]
    <3>1. c3 \in Seq(U) /\ a4 \in Seq(U)
      BY <1>7, <1>11, Zenon
    <3> QED  BY <3>1, ConcatAt
  <2> HIDE DEF c4
  <2>2. /\ \A i \in 1..(4 + x + y) : c4[i] = c3[i]
        /\ \A i \in 1..Len(a4) : c4[4 + x + y + i] = a4[i]
    BY <2>1, <1>5, <1>7, <1>8, <1>11, ZenonT(60)
  <2>3. Len(c4) = 4 + x + y + z
    BY <1>5, <1>7, <1>11, <2>1, Zenon
  <2>4. /\ 1 \in 1..(4 + x + y) /\ 2 \in 1..(4 + x + y) /\ 3 \in 1..(4 + x + y)
        /\ 4 \in 1..(4 + x + y) /\ 4 + x \in 1..(4 + x + y) /\ 4 + x + y \in 1..(4 + x + y)
    BY <1>5
  <2>5. z = 1 => c4[4 + x + y + z] = s.ckr
    BY <1>5, <1>7, <2>2, SMTT(40)
  <2> QED  BY <1>11, <2>1, <2>2, <2>3, <2>4, <2>5, Zenon
<1> HIDE DEF c4
<1> DEFINE k == 4 + x + y + z
<1>13. /\ c5 \in Seq(U) /\ Len(c5) = k + 4
       /\ c5[1] = StateVersion /\ c5[2] = s.dhs /\ c5[3] = bits
       /\ x = 1 => c5[4] = s.dhr
       /\ c5[4 + x] = s.rk
       /\ y = 1 => c5[4 + x + y] = s.cks
       /\ z = 1 => c5[k] = s.ckr
       /\ c5[k + 1] = s.ns /\ c5[k + 2] = s.nr /\ c5[k + 3] = s.pn /\ c5[k + 4] = n
  <2>1. /\ c5 \in Seq(U) /\ Len(c5) = Len(c4) + Len(a5)
        /\ \A i \in 1..Len(c4) : c5[i] = c4[i]
        /\ \A i \in 1..Len(a5) : c5[Len(c4) + i] = a5[i]
    <3>1. c4 \in Seq(U) /\ a5 \in Seq(U)
      BY <1>7, <1>12, Zenon
    <3> QED  BY <3>1, ConcatAt
  <2> HIDE DEF c5
  <2>2. /\ \A i \in 1..(k) : c5[i] = c4[i]
        /\ \A i \in 1..Len(a5) : c5[k + i] = a5[i]
    BY <2>1, <1>5, <1>7, <1>8, <1>12, ZenonT(60)
  <2>3. Len(c5) = k + 4
    BY <1>5, <1>7, <1>12, <2>1, Zenon
  <2>4. /\ 1 \in 1..k /\ 2 \in 1..k /\ 3 \in 1..k /\ 4 \in 1..k
        /\ 4 + x \in 1..k /\ 4 + x + y \in 1..k /\ k \in 1..k
    BY <1>5
  <2>5. c5[k + 1] = s.ns /\ c5[k + 2] = s.nr /\ c5[k + 3] = s.pn /\ c5[k + 4] = n
    <3> HIDE DEF k
    <3>1. \A i \in 1..4 : c5[k + i] = a5[i]
      BY <1>7, <2>2, Zenon
    <3> QED  BY <1>8, <3>1
  <2>6. z = 1 => c4[k] = s.ckr
    BY <1>12, Zenon
  <2> HIDE DEF k
  <2> QED  BY <1>12, <2>1, <2>2, <2>3, <2>4, <2>5, <2>6, Zenon
<1> HIDE DEF c5
<1>14. /\ blob[1] = StateVersion /\ blob[2] = s.dhs /\ blob[3] = bits
       /\ x = 1 => blob[4] = s.dhr
       /\ blob[4 + x] = s.rk
       /\ y = 1 => blob[4 + x + y] = s.cks
       /\ z = 1 => blob[k] = s.ckr
       /\ blob[k + 1] = s.ns /\ blob[k + 2] = s.nr /\ blob[k + 3] = s.pn /\ blob[k + 4] = n
  <2>1. \A i \in 1..Len(c5) : blob[i] = c5[i]
    BY <1>4, <1>13, ConcatAt
  <2>2. \A i \in 1..(k + 4) : blob[i] = c5[i]
    BY <1>13, <2>1, Zenon
  <2> HIDE DEF blob
  <2> QED  BY <1>5, <1>13, <2>2, SMTT(40)
<1>15. \A i \in 1..(3 * n) : blob[k + 4 + i] = P[i]
  <2>1. \A i \in 1..Len(P) : blob[Len(c5) + i] = P[i]
    BY <1>4, <1>13, ConcatAt, SMTT(40)
  <2> QED  BY <1>4, <1>13, <2>1, Zenon
<1> HIDE DEF blob
<1> DEFINE entry(i) == LET at == k + 4 + 3 * (i - 1)
                       IN  [dh |-> blob[at + 1], n |-> blob[at + 2], key |-> blob[at + 3]]
<1>16. ASSUME NEW i \in 1..n
       PROVE  entry(i) = q[i]
  <2>1. q[i] \in Entry
    BY <1>3, SessionTypes, Zenon
  <2>2. /\ 3 * (i - 1) + 1 \in 1..(3 * n) /\ P[3 * (i - 1) + 1] = q[i].dh
        /\ 3 * (i - 1) + 2 \in 1..(3 * n) /\ P[3 * (i - 1) + 2] = q[i].n
        /\ 3 * (i - 1) + 3 \in 1..(3 * n) /\ P[3 * (i - 1) + 3] = q[i].key
    BY <1>2, <1>3, PiecesAt, ZenonT(60) DEF P
  <2> DEFINE at == k + 4 + 3 * (i - 1)
  <2>3. /\ at + 1 = k + 4 + (3 * (i - 1) + 1)
        /\ at + 2 = k + 4 + (3 * (i - 1) + 2)
        /\ at + 3 = k + 4 + (3 * (i - 1) + 3)
    BY <1>2, <1>5
  <2>4. blob[at + 1] = q[i].dh /\ blob[at + 2] = q[i].n /\ blob[at + 3] = q[i].key
    <3> HIDE DEF at, k
    <3> QED  BY <1>15, <2>2, <2>3
  <2> HIDE DEF at, k
  <2>5. entry(i) = [dh |-> q[i].dh, n |-> q[i].n, key |-> q[i].key]
    BY <2>4, Zenon DEF at
  <2> QED  BY <2>1, <2>5, Zenon DEF Entry
<1>17. {entry(i) : i \in 1..n} = s.skipped
  <2> HIDE DEF entry
  <2> QED  BY <1>3, <1>16
<1> DEFINE bit(w) == (blob[3] \div w) % 2
           optional(w, at) == IF bit(w) = 1 THEN blob[at] ELSE None
           t == [dhs |-> blob[2], dhr |-> optional(1, 4), rk |-> blob[4 + bit(1)],
                 cks |-> optional(2, 4 + bit(1) + bit(2)),
                 ckr |-> optional(4, 4 + bit(1) + bit(2) + bit(4)),
                 ns |-> blob[4 + bit(1) + bit(2) + bit(4) + 1],
                 nr |-> blob[4 + bit(1) + bit(2) + bit(4) + 2],
                 pn |-> blob[4 + bit(1) + bit(2) + bit(4) + 3],
                 skipped |-> s.skipped]
<1>18. bit(1) = x /\ bit(2) = y /\ bit(4) = z
  BY <1>5, <1>14, BitsApart
<1>19. FromBytes(blob) = {t}
  <2>1. ~(blob[1] # StateVersion \/ TooMany(blob[4 + bit(1) + bit(2) + bit(4) + 4]))
    <3>1. blob[4 + bit(1) + bit(2) + bit(4) + 4] = n
      BY <1>14, <1>18, Zenon
    <3> QED  BY <1>2, <1>14, <3>1, RatchetStateAssumption DEF TooMany
  <2>2. blob[4 + bit(1) + bit(2) + bit(4) + 4] = n
    BY <1>14, <1>18, Zenon
  <2>3. {(LET at == 4 + bit(1) + bit(2) + bit(4) + 4 + 3 * (i - 1)
          IN  [dh |-> blob[at + 1], n |-> blob[at + 2], key |-> blob[at + 3]]) : i \in 1..n}
          = s.skipped
    BY <1>17, <1>18, ZenonT(60)
  <2> QED  BY <2>1, <2>2, <2>3, ZenonT(60) DEF FromBytes
<1>20. t = [dhs |-> s.dhs, dhr |-> s.dhr, rk |-> s.rk, cks |-> s.cks, ckr |-> s.ckr,
            ns |-> s.ns, nr |-> s.nr, pn |-> s.pn, skipped |-> s.skipped]
  <2>1. optional(1, 4) = s.dhr
    BY <1>6, <1>14, <1>18, Zenon
  <2>2. optional(2, 4 + x + y) = s.cks
    BY <1>6, <1>14, <1>18, Zenon
  <2>3. optional(4, k) = s.ckr
    BY <1>6, <1>14, <1>18, Zenon
  <2> HIDE DEF bit, optional
  <2> QED  BY <1>14, <1>18, <2>1, <2>2, <2>3, Zenon
<1>21. t = s
  BY <1>20, SessionTypes, Zenon DEF Session
<1> QED  BY <1>1, <1>19, <1>21, Zenon

-----------------------------------------------------------------------------
\* decrypt_message, which works on the session it loads, is decrypt or does nothing.
LEMMA DecryptMessageIs ==
  ASSUME NEW s, Sound(s), NEW m, NEW intact
  PROVE  \/ DecryptMessage(s, m, intact) = Failed(s) /\ ~Decrypt(s, m, intact).ok
         \/ /\ DecryptMessage(s, m, intact) = Decrypt(s, m, intact)
            /\ Decrypt(s, m, intact).ok
<1> DEFINE r == Decrypt(s, m, intact)
           opn == {v \in {Decrypt(l, m, intact) : l \in Loaded(s)} : v.ok}
<1>1. Loaded(s) = {s}
  BY LoadedIsSame, Zenon DEF Loaded
<1>2. opn = {v \in {r} : v.ok}
  BY <1>1, Zenon
<1>3. DecryptMessage(s, m, intact) = IF opn = {} THEN Failed(s) ELSE CHOOSE v \in opn : TRUE
  BY Zenon DEF DecryptMessage
<1> HIDE DEF opn, r
<1>4. CASE r.ok
  <2>1. opn = {r}
    BY <1>2, <1>4, Zenon
  <2>2. (CHOOSE v \in opn : TRUE) = r
    BY <2>1, Zenon
  <2>3. opn # {}
    BY <2>1, Zenon
  <2>4. DecryptMessage(s, m, intact) = r
    BY <1>3, <2>2, <2>3, Zenon
  <2> QED  BY <1>4, <2>4, Zenon DEF r
<1>5. CASE ~r.ok
  <2>1. opn = {}
    BY <1>2, <1>5, Zenon
  <2> QED  BY <1>3, <1>5, <2>1, Zenon DEF r
<1> QED  BY <1>4, <1>5, Zenon

-----------------------------------------------------------------------------
\* The keys that s holds or will come to on its chain are those of the messages in W.
Fits(s, W) ==
  /\ s.ckr # None => s.ckr.i = s.nr /\ s.dhr # None
  /\ \A e \in s.skipped : e.dh = s.dhr => e.n < s.nr
  /\ \A e \in s.skipped, m \in W : e.dh = m.dh /\ e.n = m.n => e.key = m.key
  /\ \A m \in W : m.dh = s.dhr /\ s.ckr # None => m.key.root = s.ckr.root

\* s holds the key of m, or will come to it on its chain.
Reaches(s, m) ==
  \/ \E e \in s.skipped : e.dh = m.dh /\ e.n = m.n
  \/ m.dh = s.dhr /\ s.ckr # None /\ s.nr <= m.n

\* The receiving chain of s has gone k steps, to t, and the keys on the way are banked.
Moved(s, t, k) ==
  /\ t.dhs = s.dhs /\ t.dhr = s.dhr /\ t.rk = s.rk /\ t.cks = s.cks
  /\ t.ns = s.ns /\ t.pn = s.pn /\ t.nr = s.nr + k
  /\ IF s.ckr = None THEN t.ckr = None /\ k = 0
     ELSE t.ckr # None /\ t.ckr.root = s.ckr.root /\ t.ckr.i = s.ckr.i + k
  /\ k > 0 => s.dhr # None
  /\ \A e \in t.skipped : e \in s.skipped \/ \E j \in 0..(k - 1) : e = Ahead(s, j)
  /\ \A e \in s.skipped : e \in t.skipped \/ \E j \in 0..(k - 1) : e.dh = s.dhr /\ e.n = s.nr + j
  /\ \A j \in 0..(k - 1) : Ahead(s, j) \in t.skipped
  /\ Cardinality(t.skipped) <= Cardinality(s.skipped) + k

\* A chain key is a key.
LEMMA ChainKeyIsKey == \A k \in ChainKey : k # None
BY NoneAssumption, Zenon DEF ChainKey, Root

\* Bank keeps what it does not replace, and adds at most as many keys as it banks.
LEMMA BankHas ==
  ASSUME NEW s, Sound(s), s.dhr # None, s.ckr # None, NEW k \in Nat
  PROVE  /\ \A j \in 0..(k - 1) : Ahead(s, j) \in Bank(s, k)
         /\ \A e \in s.skipped : \/ e \in Bank(s, k)
                                 \/ \E j \in 0..(k - 1) : e.dh = s.dhr /\ e.n = s.nr + j
         /\ Cardinality(Bank(s, k)) \in Nat
         /\ Cardinality(Bank(s, k)) <= Cardinality(s.skipped) + k
<1> DEFINE I == 0..(k - 1)
           New == {Ahead(s, j) : j \in I}
           f == [j \in I |-> Ahead(s, j)]
<1>1. Bank(s, k) = {e \in s.skipped : \A g \in New : e.dh # g.dh \/ e.n # g.n} \cup New
  BY Zenon DEF Bank, Ahead
<1>2. \A j \in I : Ahead(s, j).dh = s.dhr /\ Ahead(s, j).n = s.nr + j
  BY Zenon DEF Ahead
<1>3. \A j \in I : Ahead(s, j) \in Bank(s, k)
  BY <1>1, Zenon
<1>4. \A e \in s.skipped : \/ e \in Bank(s, k)
                            \/ \E j \in I : e.dh = s.dhr /\ e.n = s.nr + j
  <2> SUFFICES ASSUME NEW e \in s.skipped, e \notin Bank(s, k)
               PROVE  \E j \in I : e.dh = s.dhr /\ e.n = s.nr + j
    BY Zenon
  <2>1. PICK g \in New : e.dh = g.dh /\ e.n = g.n
    BY <1>1, Zenon
  <2> QED  BY <1>2, <2>1, Zenon
<1>5. IsFiniteSet(I) /\ Cardinality(I) = k
  BY FS_Interval
<1>6. f \in Surjection(I, New)
  BY Zenon DEF Surjection
<1>7. Bank(s, k) \subseteq s.skipped \cup New
  BY <1>1, Zenon
<1> HIDE DEF f, New, I
<1>8. IsFiniteSet(New) /\ Cardinality(New) <= k
  BY <1>5, <1>6, FS_Surjection, Zenon
<1>9. IsFiniteSet(s.skipped)
  BY Zenon DEF Sound
<1>10. /\ IsFiniteSet(s.skipped \cup New)
       /\ Cardinality(s.skipped \cup New)
            = Cardinality(s.skipped) + Cardinality(New) - Cardinality(s.skipped \cap New)
  BY <1>8, <1>9, FS_Union, Zenon
<1>11. IsFiniteSet(s.skipped \cap New)
  BY <1>9, FS_Intersection, Zenon
<1>12. /\ IsFiniteSet(Bank(s, k))
       /\ Cardinality(Bank(s, k)) <= Cardinality(s.skipped \cup New)
  BY <1>7, <1>10, FS_Subset, Zenon
<1>13. /\ Cardinality(s.skipped) \in Nat /\ Cardinality(New) \in Nat
       /\ Cardinality(s.skipped \cap New) \in Nat /\ Cardinality(s.skipped \cup New) \in Nat
       /\ Cardinality(Bank(s, k)) \in Nat
  BY <1>8, <1>9, <1>10, <1>11, <1>12, FS_CardinalityType, Zenon
<1>14. Cardinality(Bank(s, k)) <= Cardinality(s.skipped) + k
  BY <1>8, <1>10, <1>12, <1>13
<1> QED  BY <1>3, <1>4, <1>13, <1>14, Zenon DEF I

\* skip_message_keys fails only for a gap beyond MAX_SKIP or a full store.  Where it
\* succeeds the chain has gone on to the message, if it was not there yet.
LEMMA SkipMoves ==
  ASSUME NEW s, Sound(s), NEW until \in Nat
  PROVE  LET r == SkipMessageKeys(s, until)
         IN  /\ \/ s.dhr = None \/ s.ckr = None
                \/ /\ until - s.nr <= MaxSkip
                   /\ Cardinality(s.skipped) + (until - s.nr) <= MaxStored
                \/ until <= s.nr
                => r.ok
             /\ r.ok => \E k \in Nat :
                  /\ Moved(s, r.st, k)
                  /\ s.dhr # None /\ s.ckr # None => until <= s.nr + k
                  /\ k = 0 \/ until = s.nr + k
<1> DEFINE gap == until - s.nr
           fit == Fit(s, gap)
           r == SkipMessageKeys(s, until)
           C == Cardinality(s.skipped)
<1>1. s.nr \in Nat /\ gap \in Int /\ MaxSkip \in Nat /\ C \in Nat /\ MaxStored \in Nat
  BY FS_CardinalityType, RatchetStateAssumption DEF Sound, Session
<1>2. r = IF s.dhr = None \/ s.ckr = None THEN Done(s)
          ELSE IF until > s.nr + MaxSkip THEN Failed(s)
          ELSE IF gap <= 0 THEN Done(s)
          ELSE IF fit = gap THEN Done(PassOver(s, gap, gap))
          ELSE Failed(PassOver(s, fit, fit + 1))
  BY Zenon DEF SkipMessageKeys
<1>3. Moved(s, s, 0)
  <2>1. s.ckr # None => s.ckr.i = s.ckr.i + 0
    BY SessionTypes
  <2>2. s.nr = s.nr + 0 /\ C <= C + 0 /\ ~(0 > 0) /\ 0..(0 - 1) = {}
    BY <1>1
  <2> QED  BY <2>1, <2>2, Zenon DEF Moved
<1>4. CASE s.dhr = None \/ s.ckr = None
  <2>1. r.ok /\ r.st = s
    BY <1>2, <1>4 DEF Done
  <2> QED  BY <1>3, <1>4, <2>1, Zenon
<1>5. CASE s.dhr # None /\ s.ckr # None /\ until > s.nr + MaxSkip
  <2>1. ~r.ok
    BY <1>2, <1>5 DEF Failed
  <2>2. ~(until - s.nr <= MaxSkip) /\ ~(until <= s.nr)
    BY <1>1, <1>5
  <2> QED  BY <1>5, <2>1, <2>2, Zenon
<1>6. CASE s.dhr # None /\ s.ckr # None /\ ~(until > s.nr + MaxSkip) /\ gap <= 0
  <2>1. r.ok /\ r.st = s
    BY <1>2, <1>6 DEF Done
  <2>2. until <= s.nr + 0
    BY <1>1, <1>6
  <2> QED  BY <1>3, <2>1, <2>2, Zenon
<1>7. CASE s.dhr # None /\ s.ckr # None /\ ~(until > s.nr + MaxSkip) /\ ~(gap <= 0)
  <2>1. gap \in Nat /\ gap > 0 /\ until = s.nr + gap /\ ~(until <= s.nr)
    BY <1>1, <1>7
  <2>2. fit \in 0..gap /\ Room(s, fit) /\ (fit = gap \/ ~Room(s, fit + 1))
    BY <2>1, FitIs, Zenon
  <2>3. ASSUME C + gap <= MaxStored
        PROVE  fit = gap
    <3>1. \A j \in 0..(gap - 1) : Cardinality(Bank(s, j)) < MaxStored
      <4> SUFFICES ASSUME NEW j \in 0..(gap - 1)
                   PROVE  Cardinality(Bank(s, j)) < MaxStored
        BY Zenon
      <4>1. j \in Nat /\ j < gap
        BY <2>1
      <4>2. Cardinality(Bank(s, j)) \in Nat /\ Cardinality(Bank(s, j)) <= C + j
        BY <1>7, <4>1, BankHas, Zenon
      <4> HIDE DEF C, gap
      <4> QED  BY <1>1, <2>1, <2>3, <4>1, <4>2
    <3>2. fit + 1 \in 0..gap => Room(s, fit + 1)
      <4> HIDE DEF fit, gap
      <4> QED  BY <2>1, <2>2, <3>1 DEF Room
    <3> HIDE DEF fit, gap
    <3> QED  BY <2>1, <2>2, <3>2
  <2>4. CASE fit # gap
    <3>1. r = Failed(PassOver(s, fit, fit + 1))
      <4> HIDE DEF r, fit, gap
      <4> QED  BY <1>2, <1>7, <2>4, Zenon
    <3>2. ~r.ok
      BY <3>1 DEF Failed
    <3>3. ~(C + gap <= MaxStored)
      BY <2>3, <2>4, Zenon
    <3> HIDE DEF fit
    <3> QED  BY <1>7, <2>1, <3>2, <3>3, Zenon
  <2>5. CASE fit = gap
    <3> DEFINE t == r.st
               ck == [s.ckr EXCEPT !.i = @ + gap]
    <3>1. /\ r.ok
          /\ t = PassOver(s, gap, gap)
      <4> HIDE DEF fit, gap
      <4> QED  BY <1>2, <1>7, <2>5 DEF Done
    <3>2. s \in Session /\ s.ckr \in ChainKey
      BY <1>7, SessionTypes, Zenon
    <3> HIDE DEF gap, fit, r
    <3>3. ck \in ChainKey /\ ck.root = s.ckr.root /\ ck.i = s.ckr.i + gap
      BY <2>1, <3>2 DEF ChainKey
    <3>4. /\ t.dhs = s.dhs /\ t.dhr = s.dhr /\ t.rk = s.rk /\ t.cks = s.cks
          /\ t.ns = s.ns /\ t.pn = s.pn /\ t.nr = s.nr + gap
          /\ t.ckr = ck /\ t.skipped = Bank(s, gap)
      BY <3>1, <3>2 DEF Session, PassOver
    <3>5. /\ \A e \in Bank(s, gap) : e \in s.skipped \/ \E j \in 0..(gap - 1) : e = Ahead(s, j)
      BY <1>7, <2>1, <3>2, BankAdds, Zenon
    <3>6. /\ \A j \in 0..(gap - 1) : Ahead(s, j) \in Bank(s, gap)
          /\ \A e \in s.skipped : \/ e \in Bank(s, gap)
                                  \/ \E j \in 0..(gap - 1) : e.dh = s.dhr /\ e.n = s.nr + j
          /\ Cardinality(Bank(s, gap)) <= C + gap
      BY <1>7, <2>1, BankHas, Zenon
    <3>7. ck # None
      BY <3>3, ChainKeyIsKey, Zenon
    <3> HIDE DEF t, ck
    <3>8. Moved(s, t, gap)
      BY <1>7, <3>3, <3>4, <3>5, <3>6, <3>7, Zenon DEF Moved
    <3>9. until <= s.nr + gap
      BY <1>1, <2>1
    <3> QED  BY <2>1, <3>1, <3>8, <3>9, Zenon DEF t, r
  <2> QED  BY <2>4, <2>5, Zenon
<1> QED  BY <1>4, <1>5, <1>6, <1>7, Zenon

\* Messages that are numbered by the place of their key in its chain.
Numbered(W) == \A m \in W : m.n \in Nat /\ m.key \in ChainKey /\ m.key.i = m.n

\* Moving on along the chain loses no key.
LEMMA MovedFits ==
  ASSUME NEW s, Sound(s), NEW t, NEW k \in Nat, Moved(s, t, k),
         NEW W, Numbered(W), Fits(s, W)
  PROVE  Fits(t, W) /\ \A m \in W : Reaches(s, m) => Reaches(t, m)
<1>1. s \in Session /\ s.nr \in Nat
  BY SessionTypes, Zenon
<1>2. ASSUME NEW j \in 0..(k - 1)
      PROVE  /\ j \in Nat /\ j < k /\ s.dhr # None /\ s.ckr # None
             /\ Ahead(s, j).dh = s.dhr /\ Ahead(s, j).n = s.nr + j
             /\ Ahead(s, j).key \in ChainKey
             /\ Ahead(s, j).key.root = s.ckr.root /\ Ahead(s, j).key.i = s.ckr.i + j
  <2>1. j \in Nat /\ j < k /\ k > 0 /\ k # 0
    OBVIOUS
  <2>2. s.dhr # None /\ s.ckr # None
    BY <2>1, Zenon DEF Moved
  <2>3. Ahead(s, j) \in Entry /\ Ahead(s, j).key.root = s.ckr.root /\ Ahead(s, j).key.i = s.ckr.i + j
    BY <1>1, <2>1, <2>2, BankAdds, Zenon
  <2>4. Ahead(s, j).dh = s.dhr /\ Ahead(s, j).n = s.nr + j
    BY Zenon DEF Ahead
  <2> QED  BY <2>1, <2>2, <2>3, <2>4, Zenon DEF Entry
<1>3. t.dhr = s.dhr /\ t.nr = s.nr + k
  BY Zenon DEF Moved
<1>4. t.ckr # None => s.ckr # None /\ t.ckr.root = s.ckr.root /\ t.ckr.i = s.ckr.i + k
  BY Zenon DEF Moved
<1>5. t.ckr # None => t.ckr.i = t.nr /\ t.dhr # None
  BY <1>3, <1>4, Zenon DEF Fits
<1>6. ASSUME NEW e \in t.skipped, e.dh = t.dhr
      PROVE  e.n < t.nr
  <2>1. CASE e \in s.skipped
    <3>1. e.n < s.nr /\ e.n \in Nat
      BY <1>1, <1>3, <1>6, <2>1, Zenon DEF Fits, Session, Entry
    <3> QED  BY <1>1, <1>3, <3>1
  <2>2. CASE \E j \in 0..(k - 1) : e = Ahead(s, j)
    <3>1. PICK j \in 0..(k - 1) : e = Ahead(s, j)
      BY <2>2, Zenon
    <3>2. j \in Nat /\ j < k /\ e.n = s.nr + j
      BY <1>2, <3>1, Zenon
    <3> QED  BY <1>1, <1>3, <3>2
  <2> QED  BY <2>1, <2>2, Zenon DEF Moved
<1>7. ASSUME NEW e \in t.skipped, NEW m \in W, e.dh = m.dh, e.n = m.n
      PROVE  e.key = m.key
  <2>1. CASE e \in s.skipped
    BY <1>7, <2>1, Zenon DEF Fits
  <2>2. CASE \E j \in 0..(k - 1) : e = Ahead(s, j)
    <3>1. PICK j \in 0..(k - 1) : e = Ahead(s, j)
      BY <2>2, Zenon
    <3>2. /\ s.ckr # None /\ e.dh = s.dhr /\ e.n = s.nr + j
          /\ e.key \in ChainKey /\ e.key.root = s.ckr.root /\ e.key.i = s.ckr.i + j
      BY <1>2, <3>1, Zenon
    <3>3. m.key.root = s.ckr.root /\ s.ckr.i = s.nr
      BY <1>7, <3>2, Zenon DEF Fits
    <3>4. m.key \in ChainKey /\ m.key.i = m.n
      BY Zenon DEF Numbered
    <3>5. e.key.i = m.key.i /\ e.key.root = m.key.root
      BY <1>7, <3>2, <3>3, <3>4, Zenon
    <3> QED  BY <3>2, <3>4, <3>5 DEF ChainKey
  <2> QED  BY <2>1, <2>2, Zenon DEF Moved
<1>8. \A m \in W : m.dh = t.dhr /\ t.ckr # None => m.key.root = t.ckr.root
  BY <1>3, <1>4, Zenon DEF Fits
<1>9. Fits(t, W)
  BY <1>5, <1>6, <1>7, <1>8, Zenon DEF Fits
<1>10. ASSUME NEW m \in W, Reaches(s, m)
       PROVE  Reaches(t, m)
  <2>1. CASE \E e \in s.skipped : e.dh = m.dh /\ e.n = m.n
    <3>1. PICK e \in s.skipped : e.dh = m.dh /\ e.n = m.n
      BY <2>1, Zenon
    <3>2. CASE e \in t.skipped
      BY <3>1, <3>2, Zenon DEF Reaches
    <3>3. CASE \E j \in 0..(k - 1) : e.dh = s.dhr /\ e.n = s.nr + j
      <4>1. PICK j \in 0..(k - 1) : e.dh = s.dhr /\ e.n = s.nr + j
        BY <3>3, Zenon
      <4>2. Ahead(s, j) \in t.skipped
        BY Zenon DEF Moved
      <4>3. Ahead(s, j).dh = m.dh /\ Ahead(s, j).n = m.n
        BY <1>2, <3>1, <4>1, Zenon
      <4> QED  BY <4>2, <4>3, Zenon DEF Reaches
    <3> QED  BY <3>2, <3>3, Zenon DEF Moved
  <2>2. CASE m.dh = s.dhr /\ s.ckr # None /\ s.nr <= m.n
    <3>1. m.n \in Nat
      BY Zenon DEF Numbered
    <3>2. CASE m.n < s.nr + k
      <4> DEFINE j == m.n - s.nr
      <4>1. j \in 0..(k - 1) /\ s.nr + j = m.n
        BY <1>1, <2>2, <3>1, <3>2
      <4> HIDE DEF j
      <4>2. Ahead(s, j) \in t.skipped
        BY <4>1, Zenon DEF Moved
      <4>3. Ahead(s, j).dh = m.dh /\ Ahead(s, j).n = m.n
        BY <1>2, <2>2, <4>1, Zenon
      <4> QED  BY <4>2, <4>3, Zenon DEF Reaches
    <3>3. CASE ~(m.n < s.nr + k)
      <4>1. t.nr <= m.n
        BY <1>1, <1>3, <3>1, <3>3
      <4>2. t.ckr # None
        BY <2>2, Zenon DEF Moved
      <4> QED  BY <1>3, <2>2, <4>1, <4>2, Zenon DEF Reaches
    <3> QED  BY <3>2, <3>3, Zenon
  <2> QED  BY <1>10, <2>1, <2>2, Zenon DEF Reaches
<1> QED  BY <1>9, <1>10, Zenon

\* Opening the next message of the chain uses up its key and no other.
LEMMA OpenNextFits ==
  ASSUME NEW s, Sound(s), NEW W, Numbered(W), Fits(s, W), NEW m \in W,
         NEW intact \in BOOLEAN, OpenNext(s, m, intact).ok
  PROVE  LET t == OpenNext(s, m, intact).st
         IN  /\ t.dhs = s.dhs /\ t.dhr = s.dhr /\ t.rk = s.rk /\ t.cks = s.cks
             /\ t.ns = s.ns /\ t.pn = s.pn /\ t.nr = m.n + 1 /\ t.skipped = s.skipped
             /\ s.ckr # None /\ t.ckr # None /\ t.ckr.root = s.ckr.root
             /\ Fits(t, W)
             /\ \A l \in W : Reaches(s, l) => Reaches(t, l) \/ l.key = m.key
<1> DEFINE t == OpenNext(s, m, intact).st
           ck == NextCk(s.ckr)
<1>1. s.ckr # None /\ m.key = s.ckr /\ t = [s EXCEPT !.ckr = ck, !.nr = @ + 1]
  BY Zenon DEF OpenNext, Failed
<1>2. s \in Session /\ s.ckr \in ChainKey /\ s.nr \in Nat
  BY <1>1, SessionTypes, Zenon
<1>3. ck \in ChainKey /\ ck.root = s.ckr.root /\ ck.i = s.ckr.i + 1 /\ s.ckr.i \in Nat
  BY <1>2 DEF NextCk, ChainKey
<1>4. /\ t.dhs = s.dhs /\ t.dhr = s.dhr /\ t.rk = s.rk /\ t.cks = s.cks
      /\ t.ns = s.ns /\ t.pn = s.pn /\ t.nr = s.nr + 1 /\ t.skipped = s.skipped
      /\ t.ckr = ck
  <2> HIDE DEF ck, t
  <2> QED  BY <1>1, <1>2, Zenon DEF Session
<1>5. ck # None
  BY <1>3, ChainKeyIsKey, Zenon
<1>6. s.ckr.i = s.nr /\ s.dhr # None /\ m.n = s.nr
  BY <1>1, Zenon DEF Fits, Numbered
<1> HIDE DEF ck, t
<1>7. Fits(t, W)
  <2>1. ASSUME NEW e \in t.skipped, e.dh = t.dhr
        PROVE  e.n < t.nr
    <3>1. e.n < s.nr /\ e.n \in Nat
      BY <1>2, <1>4, <2>1 DEF Fits, Session, Entry
    <3> QED  BY <1>2, <1>4, <3>1
  <2>2. \A e \in t.skipped, l \in W : e.dh = l.dh /\ e.n = l.n => e.key = l.key
    BY <1>4, Zenon DEF Fits
  <2>3. \A l \in W : l.dh = t.dhr => l.key.root = t.ckr.root
    BY <1>1, <1>3, <1>4 DEF Fits
  <2>4. t.ckr.i = t.nr /\ t.dhr # None
    BY <1>3, <1>4, <1>6, Zenon
  <2> QED  BY <2>1, <2>2, <2>3, <2>4, Zenon DEF Fits
<1>8. ASSUME NEW l \in W, Reaches(s, l)
      PROVE  Reaches(t, l) \/ l.key = m.key
  <2>1. CASE \E e \in s.skipped : e.dh = l.dh /\ e.n = l.n
    BY <1>4, <2>1, Zenon DEF Reaches
  <2>2. CASE l.dh = s.dhr /\ s.nr <= l.n
    <3>1. l.n \in Nat /\ l.key \in ChainKey /\ l.key.i = l.n
      BY Zenon DEF Numbered
    <3>2. CASE l.n = s.nr
      <4>1. l.key.root = s.ckr.root /\ l.key.i = s.ckr.i
        BY <1>1, <1>6, <2>2, <3>1, <3>2, Zenon DEF Fits
      <4> QED  BY <1>1, <1>2, <3>1, <4>1 DEF ChainKey
    <3>3. CASE l.n # s.nr
      <4>1. t.nr <= l.n
        BY <1>2, <1>4, <2>2, <3>1, <3>3
      <4> QED  BY <1>4, <1>5, <2>2, <4>1, Zenon DEF Reaches
    <3> QED  BY <3>2, <3>3, Zenon
  <2> QED  BY <1>8, <2>1, <2>2, Zenon DEF Reaches
<1>9. t.nr = m.n + 1
  BY <1>4, <1>6, Zenon
<1> QED  BY <1>1, <1>3, <1>4, <1>5, <1>7, <1>8, <1>9, Zenon DEF t

\* The session t is s after dh_ratchet: the new chains, and what is kept.
Turned(s, dh, t) ==
  LET root == Append(s.rk, DiffieHellman(s.dhs, dh))
  IN  /\ t.dhs = <<s.dhs[1], s.dhs[2] + 1>> /\ t.dhr = dh
      /\ t.rk = Append(root, DiffieHellman(t.dhs, dh))
      /\ t.ckr # None /\ t.ckr.root = root /\ t.ckr.i = 0
      /\ t.cks # None /\ t.cks.root = t.rk /\ t.cks.i = 0
      /\ t.ns = 0 /\ t.nr = 0 /\ t.pn = s.ns /\ t.skipped = s.skipped

\* What dh_ratchet does to a session.
LEMMA DhRatchetIs ==
  ASSUME NEW s, Sound(s), NEW dh \in RatchetKey
  PROVE  Turned(s, dh, DhRatchet(s, dh))
<1> DEFINE t == DhRatchet(s, dh)
           root == Append(s.rk, DiffieHellman(s.dhs, dh))
           dhs == <<s.dhs[1], s.dhs[2] + 1>>
           rk == Append(root, DiffieHellman(dhs, dh))
           ckr == [root |-> root, i |-> 0]
           cks == [root |-> rk, i |-> 0]
<1>1. t = [s EXCEPT !.pn = s.ns, !.ns = 0, !.nr = 0, !.dhr = dh, !.ckr = ckr,
                    !.dhs = dhs, !.rk = rk, !.cks = cks]
  BY Zenon DEF DhRatchet, KdfRk
<1>2. s \in Session
  BY SessionTypes, Zenon
<1>3. t \in Session
  BY DhRatchetForward, Zenon DEF Forward, Sound
<1>4. ckr.root = root /\ ckr.i = 0 /\ cks.root = rk /\ cks.i = 0
  BY Zenon
<1> HIDE DEF t, root, dhs, rk, ckr, cks
<1>5. /\ t.dhs = dhs /\ t.dhr = dh /\ t.rk = rk /\ t.ckr = ckr /\ t.cks = cks
      /\ t.ns = 0 /\ t.nr = 0 /\ t.pn = s.ns /\ t.skipped = s.skipped
  BY <1>1, <1>2, Zenon DEF Session
<1>6. ckr \in ChainKey /\ cks \in ChainKey
  <2>1. root \in Root /\ rk \in Root
    <3>1. s.dhs \in RatchetKey /\ s.rk \in Root /\ dhs \in RatchetKey
      BY <1>2, <1>3, <1>5, Zenon DEF Session
    <3>2. root \in Root
      BY <3>1 DEF Root, root, DiffieHellman
    <3> QED  BY <3>1, <3>2 DEF Root, rk, DiffieHellman
  <2> QED  BY <2>1, Zenon DEF ckr, cks, ChainKey
<1>7. ckr # None /\ cks # None
  BY <1>6, ChainKeyIsKey, Zenon
<1>8. Turned(s, dh, t)
  BY <1>4, <1>5, <1>7, Zenon DEF Turned, root, dhs, rk
<1> QED  BY <1>8, Zenon DEF t

\* dh_ratchet onto the chain that the messages with the key dh are on.
LEMMA DhRatchetFits ==
  ASSUME NEW s, Sound(s), NEW dh \in RatchetKey, NEW W, Fits(s, W),
         \A e \in s.skipped : e.dh # dh,
         \A m \in W : m.dh = dh => m.key.root = Append(s.rk, DiffieHellman(s.dhs, dh))
  PROVE  Fits(DhRatchet(s, dh), W)
<1> DEFINE t == DhRatchet(s, dh)
<1>1. /\ t.dhr = dh /\ t.nr = 0 /\ t.skipped = s.skipped
      /\ t.ckr # None /\ t.ckr.root = Append(s.rk, DiffieHellman(s.dhs, dh)) /\ t.ckr.i = 0
  <2>1. Turned(s, dh, t)
    BY DhRatchetIs, Zenon
  <2> HIDE DEF t
  <2> QED  BY <2>1, Zenon DEF Turned
<1>2. dh # None
  BY NoneAssumption, Zenon
<1> HIDE DEF t
<1>3. Fits(t, W)
  BY <1>1, <1>2, Zenon DEF Fits
<1> QED  BY <1>3, Zenon DEF t

\* decrypt without a banked key: skip to the end of the chain and ratchet, if the
\* message has a new ratchet key, skip to the message, open it.
LEMMA DecryptParts ==
  ASSUME NEW s, NEW m, NEW intact, Banked(s, m) = {}
  PROVE  LET r == Decrypt(s, m, intact)
             old == SkipMessageKeys(s, m.pn)
             x == IF s.dhr = m.dh THEN s ELSE DhRatchet(old.st, m.dh)
             skip == SkipMessageKeys(x, m.n)
             last == OpenNext(skip.st, m, intact)
         IN  /\ r.ok => r = last /\ last.ok /\ skip.ok /\ (s.dhr # m.dh => old.ok)
             /\ skip.ok /\ (s.dhr # m.dh => old.ok) => r = last
<1> DEFINE r == Decrypt(s, m, intact)
           old == SkipMessageKeys(s, m.pn)
           step == IF s.dhr = m.dh THEN Done(s)
                   ELSE IF old.ok THEN Done(DhRatchet(old.st, m.dh))
                   ELSE old
           skip == SkipMessageKeys(step.st, m.n)
           last == OpenNext(skip.st, m, intact)
           x == IF s.dhr = m.dh THEN s ELSE DhRatchet(old.st, m.dh)
           skp == SkipMessageKeys(x, m.n)
           lst == OpenNext(skp.st, m, intact)
<1>1. r = IF ~step.ok THEN step ELSE IF ~skip.ok THEN skip ELSE last
  BY Zenon DEF Decrypt
<1>2. \A u : Done(u).st = u /\ Done(u).ok = TRUE
  BY Zenon DEF Done
<1> HIDE DEF r, old
<1>3. CASE s.dhr = m.dh \/ old.ok
  <2>1. step = Done(x)
    BY <1>3, Zenon
  <2>2. step.st = x /\ step.ok
    BY <1>2, <2>1, Zenon
  <2> HIDE DEF step, x
  <2>3. skip = skp /\ last = lst
    BY <2>2, Zenon
  <2>4. r = IF ~skp.ok THEN skp ELSE lst
    BY <1>1, <2>2, <2>3, Zenon
  <2> HIDE DEF skp, lst
  <2>5. (r.ok => r = lst /\ lst.ok /\ skp.ok) /\ (skp.ok => r = lst)
    BY <2>4, Zenon
  <2> QED  BY <1>3, <2>5, Zenon DEF r, old, skp, lst, x
<1>4. CASE s.dhr # m.dh /\ ~old.ok
  <2>1. step = old /\ ~step.ok
    BY <1>4, Zenon
  <2> HIDE DEF step
  <2>2. ~r.ok
    BY <1>1, <2>1, Zenon
  <2> QED  BY <1>4, <2>2, Zenon DEF r, old
<1> QED  BY <1>3, <1>4, Zenon

\* From s to t the session has opened m with a banked key, or on the chain it receives
\* on, and lost the key of no other message in W.
SameChain(s, t, m, W) ==
  /\ t.dhs = s.dhs /\ t.dhr = s.dhr /\ t.rk = s.rk /\ t.cks = s.cks
  /\ t.ns = s.ns /\ t.pn = s.pn
  /\ t.ckr = s.ckr \/ (s.ckr # None /\ t.ckr # None /\ t.ckr.root = s.ckr.root)
  /\ \/ t.nr = s.nr /\ t.skipped \subseteq s.skipped
     \/ t.nr = m.n + 1 /\ s.dhr = m.dh
  /\ Fits(t, W)
  /\ \A l \in W : Reaches(s, l) => Reaches(t, l) \/ l.key = m.key
  /\ \A e \in t.skipped : e \in s.skipped \/ e.dh = s.dhr

\* From s to t the session has opened m, the first on a new chain, and lost the key of
\* no other message in W.
NewChain(s, t, m, W) ==
  LET root == Append(s.rk, DiffieHellman(s.dhs, m.dh))
  IN  /\ t.dhs = <<s.dhs[1], s.dhs[2] + 1>> /\ t.dhr = m.dh
      /\ t.rk = Append(root, DiffieHellman(t.dhs, m.dh))
      /\ t.ckr # None /\ t.ckr.root = root
      /\ t.cks # None /\ t.cks.i = 0
      /\ t.ns = 0 /\ t.nr = m.n + 1 /\ t.pn = s.ns
      /\ Fits(t, W)
      /\ \A l \in W : Reaches(s, l) \/ l.dh = m.dh => Reaches(t, l) \/ l.key = m.key
      /\ \A e \in t.skipped : e \in s.skipped \/ e.dh = s.dhr \/ e.dh = m.dh

\* What a skip and the opening after it do to a session.
LEMMA SkipAndOpen ==
  ASSUME NEW s, Sound(s), NEW W, W \subseteq Message, Numbered(W), Fits(s, W), NEW m \in W,
         NEW intact \in BOOLEAN, s.dhr = m.dh, SkipMessageKeys(s, m.n).ok,
         OpenNext(SkipMessageKeys(s, m.n).st, m, intact).ok
  PROVE  LET t == OpenNext(SkipMessageKeys(s, m.n).st, m, intact).st
         IN  SameChain(s, t, m, W) /\ t.nr = m.n + 1
<1> DEFINE u == SkipMessageKeys(s, m.n).st
           t == OpenNext(u, m, intact).st
<1>1. m.n \in Nat
  BY Zenon DEF Message
<1>2. PICK k \in Nat : Moved(s, u, k)
  BY <1>1, SkipMoves, Zenon
<1>3. Sound(u)
  BY <1>1, SkipForward, Zenon DEF Forward
<1> HIDE DEF u
<1>4. Fits(u, W) /\ \A l \in W : Reaches(s, l) => Reaches(u, l)
  BY <1>2, MovedFits, Zenon
<1>5. /\ t.dhs = u.dhs /\ t.dhr = u.dhr /\ t.rk = u.rk /\ t.cks = u.cks
      /\ t.ns = u.ns /\ t.pn = u.pn /\ t.nr = m.n + 1 /\ t.skipped = u.skipped
      /\ u.ckr # None /\ t.ckr # None /\ t.ckr.root = u.ckr.root
      /\ Fits(t, W)
      /\ \A l \in W : Reaches(u, l) => Reaches(t, l) \/ l.key = m.key
  <2>1. OpenNext(u, m, intact).ok
    BY Zenon DEF u
  <2> QED  BY <1>3, <1>4, <2>1, OpenNextFits, SMTT(40)
<1> HIDE DEF t
<1>6. /\ u.dhs = s.dhs /\ u.dhr = s.dhr /\ u.rk = s.rk /\ u.cks = s.cks
      /\ u.ns = s.ns /\ u.pn = s.pn
      /\ s.ckr # None /\ u.ckr.root = s.ckr.root
  BY <1>2, <1>5, Zenon DEF Moved
<1>7. \A e \in u.skipped : e \in s.skipped \/ e.dh = s.dhr
  BY <1>2 DEF Moved, Ahead
<1>8. SameChain(s, t, m, W)
  BY <1>4, <1>5, <1>6, <1>7, Zenon DEF SameChain
<1>9. SameChain(s, t, m, W) /\ t.nr = m.n + 1
  BY <1>5, <1>8, Zenon
<1> QED  BY <1>9, ZenonT(60) DEF t, u

\* decrypt of a message on the chain that the session receives on.
LEMMA ReceiveOnChain ==
  ASSUME NEW s, Sound(s), NEW W, W \subseteq Message, Numbered(W), Fits(s, W), NEW m \in W,
         NEW intact \in BOOLEAN, Banked(s, m) = {}, s.dhr = m.dh, Decrypt(s, m, intact).ok
  PROVE  SameChain(s, Decrypt(s, m, intact).st, m, W)
<1> DEFINE skip == SkipMessageKeys(s, m.n)
           last == OpenNext(skip.st, m, intact)
<1>1. Decrypt(s, m, intact) = last /\ last.ok /\ skip.ok
  BY DecryptParts, Zenon
<1> QED  BY <1>1, SkipAndOpen, SMTT(40)

\* decrypt of a message with a new ratchet key, the one that follows on the session's.
LEMMA ReceiveNewChain ==
  ASSUME NEW s, Sound(s), NEW W, W \subseteq Message, Numbered(W), Fits(s, W), NEW m \in W,
         NEW intact \in BOOLEAN, Banked(s, m) = {}, s.dhr # m.dh, Decrypt(s, m, intact).ok,
         \A e \in s.skipped : e.dh # m.dh,
         \A l \in W : l.dh = m.dh => l.key.root = Append(s.rk, DiffieHellman(s.dhs, m.dh)),
         \A l \in W : l.dh = s.dhr => l.n < m.pn
  PROVE  NewChain(s, Decrypt(s, m, intact).st, m, W)
<1> DEFINE u == SkipMessageKeys(s, m.pn).st
           v == DhRatchet(u, m.dh)
           skip == SkipMessageKeys(v, m.n)
           last == OpenNext(skip.st, m, intact)
           t == last.st
<1>1. m.dh \in RatchetKey /\ m.pn \in Nat /\ m.n \in Nat
  BY Zenon DEF Message
<1>2. /\ Decrypt(s, m, intact) = last /\ last.ok /\ skip.ok
      /\ SkipMessageKeys(s, m.pn).ok
  BY DecryptParts, Zenon
<1>3. Sound(u)
  BY <1>1, SkipForward, Zenon DEF Forward
<1>4. PICK k \in Nat : Moved(s, u, k) /\ (s.dhr # None /\ s.ckr # None => m.pn <= s.nr + k)
  BY <1>1, <1>2, SkipMoves, Zenon
<1> HIDE DEF u
<1>5. Fits(u, W) /\ \A l \in W : Reaches(s, l) => Reaches(u, l)
  BY <1>4, MovedFits, Zenon
<1>6. /\ u.dhs = s.dhs /\ u.dhr = s.dhr /\ u.rk = s.rk /\ u.ns = s.ns /\ u.nr = s.nr + k
      /\ u.ckr # None => s.ckr # None
      /\ \A e \in u.skipped : e \in s.skipped \/ e.dh = s.dhr
  BY <1>4 DEF Moved, Ahead
<1>7. /\ v.dhs = <<u.dhs[1], u.dhs[2] + 1>> /\ v.dhr = m.dh
      /\ v.rk = Append(Append(u.rk, DiffieHellman(u.dhs, m.dh)), DiffieHellman(v.dhs, m.dh))
      /\ v.ckr # None /\ v.ckr.root = Append(u.rk, DiffieHellman(u.dhs, m.dh))
      /\ v.cks # None /\ v.cks.i = 0
      /\ v.ns = 0 /\ v.nr = 0 /\ v.pn = u.ns /\ v.skipped = u.skipped
  <2>1. Turned(u, m.dh, v)
    BY <1>1, <1>3, DhRatchetIs, Zenon
  <2> HIDE DEF v
  <2> QED  BY <2>1, Zenon DEF Turned
<1>8. Sound(v)
  BY <1>1, <1>3, DhRatchetForward, Zenon DEF Forward
<1>9. Fits(v, W)
  <2>1. \A e \in u.skipped : e.dh # m.dh
    BY <1>6, Zenon
  <2>2. \A l \in W : l.dh = m.dh => l.key.root = Append(u.rk, DiffieHellman(u.dhs, m.dh))
    BY <1>6, Zenon
  <2> QED  BY <1>1, <1>3, <1>5, <2>1, <2>2, DhRatchetFits, Zenon
<1> HIDE DEF v
<1>10. ASSUME NEW l \in W, Reaches(s, l) \/ l.dh = m.dh
       PROVE  Reaches(v, l)
  <2>1. l.n \in Nat
    BY Zenon DEF Numbered
  <2>2. CASE l.dh = m.dh
    <3>1. v.nr <= l.n
      BY <1>7, <2>1, SMTT(40)
    <3> QED  BY <1>7, <2>2, <3>1, Zenon DEF Reaches
  <2>3. CASE l.dh = u.dhr /\ u.ckr # None /\ u.nr <= l.n
    <3>1. l.n < m.pn /\ s.ckr # None
      BY <1>6, <2>3, Zenon
    <3>2. s.dhr # None
      BY <3>1, Zenon DEF Fits
    <3>3. m.pn <= s.nr + k
      BY <1>4, <3>1, <3>2, Zenon
    <3>4. s.nr \in Nat
      BY SessionTypes, Zenon
    <3> QED  BY <1>1, <1>6, <2>1, <2>3, <3>1, <3>3, <3>4, SMTT(40)
  <2>4. CASE \E e \in u.skipped : e.dh = l.dh /\ e.n = l.n
    BY <1>7, <2>4, Zenon DEF Reaches
  <2> QED  BY <1>5, <1>10, <2>2, <2>3, <2>4, Zenon DEF Reaches
<1>11. /\ t.dhs = v.dhs /\ t.dhr = v.dhr /\ t.rk = v.rk /\ t.cks = v.cks
       /\ t.ns = v.ns /\ t.pn = v.pn /\ t.nr = m.n + 1
       /\ t.ckr # None /\ t.ckr.root = v.ckr.root
       /\ Fits(t, W)
       /\ \A l \in W : Reaches(v, l) => Reaches(t, l) \/ l.key = m.key
       /\ \A e \in t.skipped : e \in v.skipped \/ e.dh = v.dhr
  <2>1. v.dhr = m.dh /\ v.ckr # None
    BY <1>7, Zenon
  <2>2. SameChain(v, t, m, W) /\ t.nr = m.n + 1
    BY <1>2, <1>8, <1>9, <2>1, SkipAndOpen, SMTT(40)
  <2> HIDE DEF t
  <2> QED  BY <2>1, <2>2, Zenon DEF SameChain
<1>12. t = Decrypt(s, m, intact).st
  BY <1>2, Zenon
<1> HIDE DEF t
<1>13. \A e \in t.skipped : e \in s.skipped \/ e.dh = s.dhr \/ e.dh = m.dh
  BY <1>6, <1>7, <1>11, Zenon
<1>14. \A l \in W : Reaches(s, l) \/ l.dh = m.dh => Reaches(t, l) \/ l.key = m.key
  BY <1>10, <1>11, Zenon
<1>15. /\ t.dhs = <<s.dhs[1], s.dhs[2] + 1>> /\ t.dhr = m.dh
       /\ t.rk = Append(Append(s.rk, DiffieHellman(s.dhs, m.dh)), DiffieHellman(t.dhs, m.dh))
       /\ t.ckr # None /\ t.ckr.root = Append(s.rk, DiffieHellman(s.dhs, m.dh))
       /\ t.cks # None /\ t.cks.i = 0
       /\ t.ns = 0 /\ t.nr = m.n + 1 /\ t.pn = s.ns
  BY <1>6, <1>7, <1>11, ZenonT(60)
<1> QED  BY <1>11, <1>12, <1>13, <1>14, <1>15, Zenon DEF NewChain

\* decrypt with a banked key uses up that key and no other.
LEMMA ReceiveBanked ==
  ASSUME NEW s, Sound(s), NEW W, Fits(s, W), NEW m \in W,
         NEW intact \in BOOLEAN, Banked(s, m) # {}
  PROVE  SameChain(s, Decrypt(s, m, intact).st, m, W)
<1> DEFINE t == Decrypt(s, m, intact).st
<1>1. t = [s EXCEPT !.skipped = @ \ Banked(s, m)]
  BY Zenon DEF Decrypt
<1>2. /\ t.dhs = s.dhs /\ t.dhr = s.dhr /\ t.rk = s.rk /\ t.cks = s.cks /\ t.ckr = s.ckr
      /\ t.ns = s.ns /\ t.pn = s.pn /\ t.nr = s.nr /\ t.skipped = s.skipped \ Banked(s, m)
  <2> HIDE DEF t
  <2> QED  BY <1>1, SessionTypes DEF Session
<1> HIDE DEF t
<1>3. Fits(t, W)
  BY <1>2, Zenon DEF Fits
<1>4. \A e \in Banked(s, m) : e \in s.skipped /\ e.dh = m.dh /\ e.n = m.n /\ e.key = m.key
  BY Zenon DEF Banked, Fits
<1>5. ASSUME NEW l \in W, Reaches(s, l)
      PROVE  Reaches(t, l) \/ l.key = m.key
  <2>1. CASE l.dh = s.dhr /\ s.ckr # None /\ s.nr <= l.n
    BY <1>2, <2>1, Zenon DEF Reaches
  <2>2. CASE \E e \in s.skipped : e.dh = l.dh /\ e.n = l.n
    <3>1. PICK e \in s.skipped : e.dh = l.dh /\ e.n = l.n
      BY <2>2, Zenon
    <3>2. e.key = l.key
      BY <3>1, Zenon DEF Fits
    <3> QED  BY <1>2, <1>4, <3>1, <3>2, Zenon DEF Reaches
  <2> QED  BY <1>5, <2>1, <2>2, Zenon DEF Reaches
<1> QED  BY <1>2, <1>3, <1>5, Zenon DEF SameChain, t

\* A message whose key is banked opens.
LEMMA BankedOpens ==
  ASSUME NEW s, NEW W, Fits(s, W), NEW m \in W, Banked(s, m) # {}
  PROVE  Decrypt(s, m, TRUE).ok
<1>1. \E e \in Banked(s, m) : m.key = e.key
  BY Zenon DEF Banked, Fits
<1> QED  BY <1>1, Zenon DEF Decrypt

\* Skipping to a message ahead on the chain gets to its key.
LEMMA SkipReaches ==
  ASSUME NEW s, Sound(s), NEW W, Numbered(W), Fits(s, W), NEW m \in W,
         s.dhr = m.dh, s.ckr # None, s.nr <= m.n, m.n - s.nr <= MaxSkip,
         Cardinality(s.skipped) + (m.n - s.nr) <= MaxStored
  PROVE  /\ SkipMessageKeys(s, m.n).ok
         /\ OpenNext(SkipMessageKeys(s, m.n).st, m, TRUE).ok
<1> DEFINE u == SkipMessageKeys(s, m.n).st
<1>1. m.n \in Nat /\ m.key \in ChainKey /\ m.key.i = m.n
  BY Zenon DEF Numbered
<1>2. SkipMessageKeys(s, m.n).ok
  BY <1>1, SkipMoves, Zenon
<1>3. Sound(u)
  BY <1>1, SkipForward, Zenon DEF Forward
<1>4. PICK k \in Nat : /\ Moved(s, u, k)
                       /\ s.dhr # None /\ s.ckr # None => m.n <= s.nr + k
                       /\ k = 0 \/ m.n = s.nr + k
  BY <1>1, <1>2, SkipMoves, Zenon
<1>5. s.nr \in Nat /\ s.ckr.i = s.nr /\ s.dhr # None
  BY SessionTypes, Zenon DEF Fits
<1>6. m.n = s.nr + k
  BY <1>1, <1>4, <1>5
<1> HIDE DEF u
<1>7. u.ckr # None /\ u.ckr.root = m.key.root /\ u.ckr.i = m.key.i
  BY <1>1, <1>4, <1>5, <1>6, Zenon DEF Moved, Fits
<1>8. u.ckr \in ChainKey
  BY <1>3, <1>7, SessionTypes, Zenon
<1>9. m.key = u.ckr
  BY <1>1, <1>7, <1>8, SMTT(40) DEF ChainKey
<1>10. OpenNext(u, m, TRUE).ok
  BY <1>7, <1>9, Zenon DEF OpenNext
<1> QED  BY <1>2, <1>10, Zenon DEF u

\* A message with a new ratchet key opens, if there is room for the keys it skips.
LEMMA NewChainOpens ==
  ASSUME NEW s, Sound(s), NEW W, W \subseteq Message, Numbered(W), Fits(s, W), NEW m \in W,
         Banked(s, m) = {}, s.dhr # m.dh, WithinSkip(s, m), HasRoom(s, m),
         \A e \in s.skipped : e.dh # m.dh,
         \A l \in W : l.dh = m.dh => l.key.root = Append(s.rk, DiffieHellman(s.dhs, m.dh))
  PROVE  Decrypt(s, m, TRUE).ok
<1> DEFINE u == SkipMessageKeys(s, m.pn).st
           v == DhRatchet(u, m.dh)
           room == IF s.ckr = None THEN 0 ELSE Positive(m.pn - s.nr)
<1>1. m.dh \in RatchetKey /\ m.pn \in Nat /\ m.n \in Nat
  BY Zenon DEF Message
<1>2. s.nr \in Nat /\ Cardinality(s.skipped) \in Nat
  BY SessionTypes, FS_CardinalityType, Zenon DEF Sound
<1>3. /\ s.ckr # None => m.pn - s.nr <= MaxSkip
      /\ m.n <= MaxSkip
  BY Zenon DEF WithinSkip, GapBefore, GapInChain
<1>4. /\ room \in Nat
      /\ s.ckr # None => m.pn - s.nr <= room /\ (room = 0 \/ room = m.pn - s.nr)
      /\ s.ckr = None => room = 0
  BY <1>1, <1>2, SMTT(40) DEF Positive
<1>5. Cardinality(s.skipped) + room + m.n <= MaxStored
  <2>1. Positive(GapBefore(s, m)) = room
    BY Zenon DEF GapBefore, Positive
  <2>2. Positive(GapInChain(s, m)) = m.n
    BY <1>1 DEF GapInChain, Positive
  <2>3. Cardinality(s.skipped) + Positive(GapBefore(s, m)) + Positive(GapInChain(s, m)) <= MaxStored
    BY Zenon DEF HasRoom
  <2> HIDE DEF room
  <2> QED  BY <2>1, <2>2, <2>3, Zenon
<1> HIDE DEF room
<1>6. SkipMessageKeys(s, m.pn).ok
  <2>1. s.ckr # None => Cardinality(s.skipped) + (m.pn - s.nr) <= MaxStored
    BY <1>1, <1>2, <1>4, <1>5, RatchetStateAssumption, SMTT(40)
  <2> QED  BY <1>1, <1>3, <2>1, SkipMoves, Zenon
<1>7. Sound(u)
  BY <1>1, SkipForward, Zenon DEF Forward
<1>8. PICK k \in Nat : /\ Moved(s, u, k)
                       /\ k = 0 \/ m.pn = s.nr + k
  BY <1>1, <1>6, SkipMoves, Zenon
<1>9. s.ckr # None \/ k = 0
  BY <1>8, Zenon DEF Moved
<1> HIDE DEF u
<1>10. k <= room
  BY <1>1, <1>2, <1>4, <1>8, <1>9, SMTT(40)
<1>11. Cardinality(u.skipped) \in Nat /\ Cardinality(u.skipped) <= Cardinality(s.skipped) + k
  BY <1>7, <1>8, FS_CardinalityType, Zenon DEF Moved, Sound
<1>12. Fits(u, W)
  BY <1>8, MovedFits, Zenon
<1>13. /\ u.dhs = s.dhs /\ u.rk = s.rk /\ \A e \in u.skipped : e \in s.skipped \/ e.dh = s.dhr
  BY <1>8 DEF Moved, Ahead
<1>14. v.dhr = m.dh /\ v.ckr # None /\ v.nr = 0 /\ v.skipped = u.skipped
  <2>1. Turned(u, m.dh, v)
    BY <1>1, <1>7, DhRatchetIs, Zenon
  <2> HIDE DEF v
  <2> QED  BY <2>1, Zenon DEF Turned
<1>15. Sound(v)
  BY <1>1, <1>7, DhRatchetForward, Zenon DEF Forward
<1>16. Fits(v, W)
  <2>1. \A e \in u.skipped : e.dh # m.dh
    BY <1>13, Zenon
  <2>2. \A l \in W : l.dh = m.dh => l.key.root = Append(u.rk, DiffieHellman(u.dhs, m.dh))
    BY <1>13, Zenon
  <2> QED  BY <1>1, <1>7, <1>12, <2>1, <2>2, DhRatchetFits, SMTT(40)
<1> HIDE DEF v
<1>17. /\ v.nr <= m.n /\ m.n - v.nr <= MaxSkip
       /\ Cardinality(v.skipped) + (m.n - v.nr) <= MaxStored
  <2>1. Cardinality(u.skipped) + m.n <= MaxStored
    BY <1>1, <1>2, <1>4, <1>5, <1>10, <1>11, RatchetStateAssumption, SMTT(40)
  <2> QED  BY <1>1, <1>3, <1>14, <2>1, SMTT(40)
<1>18. /\ SkipMessageKeys(v, m.n).ok
       /\ OpenNext(SkipMessageKeys(v, m.n).st, m, TRUE).ok
  BY <1>14, <1>15, <1>16, <1>17, SkipReaches, Zenon
<1>19. Decrypt(s, m, TRUE) = OpenNext(SkipMessageKeys(v, m.n).st, m, TRUE)
  BY <1>6, <1>18, DecryptParts, Zenon DEF u, v
<1> QED  BY <1>18, <1>19, Zenon

\* A message ahead on the chain opens, if there is room for the keys it skips.
LEMMA ChainOpens ==
  ASSUME NEW s, Sound(s), NEW W, Numbered(W), Fits(s, W), NEW m \in W,
         Banked(s, m) = {}, s.dhr = m.dh, s.ckr # None, s.nr <= m.n,
         WithinSkip(s, m), HasRoom(s, m)
  PROVE  Decrypt(s, m, TRUE).ok
<1>1. m.n \in Nat /\ s.nr \in Nat /\ Cardinality(s.skipped) \in Nat
  BY SessionTypes, FS_CardinalityType, Zenon DEF Numbered, Sound
<1>2. m.n - s.nr <= MaxSkip
  BY Zenon DEF WithinSkip, GapInChain
<1>3. Cardinality(s.skipped) + (m.n - s.nr) <= MaxStored
  <2>1. GapBefore(s, m) = 0 /\ GapInChain(s, m) = m.n - s.nr
    BY Zenon DEF GapBefore, GapInChain
  <2>2. Positive(0) = 0 /\ Positive(m.n - s.nr) = m.n - s.nr
    BY <1>1 DEF Positive
  <2> QED  BY <1>1, <2>1, <2>2 DEF HasRoom
<1>4. /\ SkipMessageKeys(s, m.n).ok
      /\ OpenNext(SkipMessageKeys(s, m.n).st, m, TRUE).ok
  BY <1>2, <1>3, SkipReaches, Zenon
<1>5. Decrypt(s, m, TRUE) = OpenNext(SkipMessageKeys(s, m.n).st, m, TRUE)
  BY <1>4, DecryptParts, Zenon
<1> QED  BY <1>4, <1>5, Zenon
=============================================================================
