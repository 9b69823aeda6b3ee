--------------------------- MODULE WebClientProofs ---------------------------
(***************************************************************************)
(* Proofs about WebClient: the key store that the tabs share, and the      *)
(* sessions of the runs (WebClientSessions has the invariant).             *)
(***************************************************************************)
EXTENDS WebClientLemmas

-----------------------------------------------------------------------------
(***************************************************************************)
(* The steps that leave the node alone                                     *)
(***************************************************************************)

\* The awaits at which a step may change nothing but the page.
QuietSteps == {"getSecrets", "getBundle", "getBob", "health", "verifyPin", "putBlob", "getBlob"}

\* The page of a tab at such an await.
LEMMA QuietAwait ==
  ASSUME StoreInv, SessionInv, NEW t \in Tab, page[t].pc \in QuietSteps, Quiet(t)
  PROVE  /\ Running(t) /\ Effects(t)
         /\ IsPage(page[t]) /\ page[t].run \in Run /\ page[t].key \in Run
         /\ GoesOn(page[t], relay, blobs, sealed, sent, acked)
         /\ t \notin disturbed => ReadsBack(page[t], sealed)
<1>1. Running(t) /\ page[t].pc \notin DOMAIN PutKey /\ page[t].pc \notin Opening
  BY PutKeyIs, Zenon DEF PutKeyTable, QuietSteps, Running, Stopped, Opening
<1> QED  BY <1>1, RunningPage, QuietEffects, Zenon

\* The invite that Alice makes is one that Bob accepts.
LEMMA HealthRuns ==
  ASSUME StoreInv, SessionInv, NEW t \in Tab, Health(t)
  PROVE  SessionInv'
<1> DEFINE p == page[t]
<1>1. p.pc = "health" /\ Quiet(t)
  BY Zenon DEF Health, Quiet, KeepsStore
<1>2. p.pc \in QuietSteps /\ p.pc \notin NodeSteps /\ p.pc \in PlainSteps
  BY <1>1, Zenon DEF QuietSteps, NodeSteps, PlainSteps
<1>3. PICK pin \in Advertised :
        LET invite == Invite(AliceId(p.run), <<"alice", p.run>>, pin, Bundle(p.run), p.run)
        IN  page' = [page EXCEPT ![t] = [p EXCEPT
              !.pin = pin,
              !.pc = IF ~InviteParses(invite) THEN "failed"
                     ELSE IF pin = None THEN "bobIdentity" ELSE "verifyPin"]]
  BY Zenon DEF Health
<1> DEFINE next == IF pin = None THEN "bobIdentity" ELSE "verifyPin"
           q == [p EXCEPT !.pin = pin, !.pc = next]
<1>4. SetPage(t, q)
  <2>1. InviteParses(Invite(AliceId(p.run), <<"alice", p.run>>, pin, Bundle(p.run), p.run))
    BY InviteIsParsed, Zenon
  <2> QED  BY <1>3, <2>1, Zenon DEF SetPage
<1>5. Running(t) /\ Effects(t) /\ IsPage(p) /\ p.key \in Run
  BY <1>1, <1>2, QuietAwait, Zenon
<1>6. NodeMoves(p, relay, blobs, relay', blobs')
  BY <1>1, <1>2, QuietNode, Zenon DEF Quiet
<1>7. next \in {"verifyPin", "bobIdentity"}
  BY Zenon
<1> HIDE DEF p, next
<1>8. SameFields(p, q) /\ q.pc = next /\ q.key = p.key
  BY <1>5, Zenon DEF IsPage, PageField, SameFields
<1> HIDE DEF q
<1>9. Then(p.pc, q.pc) /\ p.pc # "getSecrets" /\ q.run = p.run
  BY <1>1, <1>7, <1>8, Zenon DEF Then, SameFields
<1>10. StepMoves(p, q)
  BY <1>2, <1>6, <1>8, <1>9, PlainMoves, Zenon DEF StepMoves
<1> QED  BY <1>4, <1>5, <1>8, <1>9, <1>10, ContinueKeeps, Zenon DEF p

\* verifyPinnedCa.
LEMMA VerifyPinRuns ==
  ASSUME StoreInv, SessionInv, NEW t \in Tab, VerifyPin(t)
  PROVE  SessionInv'
<1> DEFINE p == page[t]
           l == [p EXCEPT !.pin = None]
<1>1. p.pc = "verifyPin" /\ Quiet(t)
  BY Zenon DEF VerifyPin, Quiet, KeepsStore
<1>2. p.pc \in QuietSteps /\ p.pc \notin NodeSteps /\ p.pc \in PlainSteps
      /\ p.pc \in Awaits \ {"ackAlice"} /\ p.pc # "getSecrets"
  BY <1>1, Zenon DEF QuietSteps, NodeSteps, PlainSteps, Awaits
<1>3. Running(t) /\ Effects(t) /\ IsPage(p)
  BY <1>1, <1>2, QuietAwait, Zenon
<1>4. NodeMoves(p, relay, blobs, relay', blobs')
  BY <1>1, <1>2, QuietNode, Zenon DEF Quiet
<1>5. Continue(t, l) \/ (Throw(t) /\ t \in disturbed')
  BY Zenon DEF VerifyPin
<1>6. CASE Continue(t, l)
  <2> HIDE DEF p
  <2>1. IsPage(l)
    BY <1>3, Zenon DEF IsPage
  <2>2. SameFields(p, l) /\ l.pc = p.pc /\ l.key = p.key
    BY <1>3, Zenon DEF IsPage, PageField, SameFields
  <2> HIDE DEF l
  <2>3. LocalsMove(p, l)
    BY <1>2, <2>1, <2>2, PlainMoves, Zenon DEF LocalsMove, SameFields
  <2> QED  BY <1>2, <1>3, <1>4, <1>6, <2>3, ContinueRuns, Zenon DEF p
<1> QED  BY <1>3, <1>5, <1>6, ThrowKeeps, Zenon

\* A request that fails.
LEMMA FetchFailsRuns ==
  ASSUME StoreInv, SessionInv, NEW t \in Tab, FetchFails(t)
  PROVE  SessionInv'
<1>1. Quiet(t) /\ t \in disturbed' /\ Throw(t) /\ page[t].pc \in FetchSteps
  BY Zenon DEF FetchFails, Quiet, KeepsStore
<1>2. page[t].pc \notin DOMAIN PutKey
  <2>1. FetchSteps = {"pushHandshake", "pushHello", "pushReply", "pushMedia", "pullAlice",
                      "pullBob", "pullMedia", "ackAlice", "ackBob", "ackMedia", "putBlob",
                      "getBlob"}
    BY Zenon DEF FetchSteps, PushTo, PullFrom, AckOn
  <2> QED  BY <1>1, <2>1, PutKeyIs, Zenon DEF PutKeyTable
<1>3. Running(t)
  BY <1>1, AwaitIsOpened, Zenon DEF Opened
<1>4. Effects(t)
  BY <1>1, <1>2, QuietEffects, Zenon
<1> QED  BY <1>1, <1>3, <1>4, ThrowKeeps, Zenon

\* A run that ends well.
LEMMA DoneKeeps ==
  \A t \in Tab : \A q :
    /\ StoreInv /\ SessionInv /\ Running(t) /\ Effects(t) /\ SetPage(t, q)
    /\ q.run = page[t].run /\ q.key = page[t].key /\ q.pc = "done"
    /\ q.shown \in {<<<<"hello", q.run>>, <<"reply", q.run>>>>,
                    <<<<"hello", q.run>>, <<"reply", q.run>>, <<"media", q.run>>>>,
                    <<<<"hello", q.run>>, <<"reply", q.run>>, <<"media", q.run>>,
                      <<"photo", q.run>>>>}
    => SessionInv'
\* What a run has shown by the end of it.
<1>ShownIsDelivered.
    ASSUME NEW q, NEW r, q.run = r,
           q.shown \in {<<<<"hello", r>>, <<"reply", r>>>>,
                        <<<<"hello", r>>, <<"reply", r>>, <<"media", r>>>>,
                        <<<<"hello", r>>, <<"reply", r>>, <<"media", r>>, <<"photo", r>>>>}
    PROVE  Delivered(q)
  <2> USE <1>ShownIsDelivered
  <2> DEFINE a == <<"hello", r>>
             b == <<"reply", r>>
             c == <<"media", r>>
             d == <<"photo", r>>
  <2> HIDE DEF a, b, c, d
  <2>1. <<a, b>> \o <<>> = <<a, b>> /\ <<a, b>> \o <<c>> = <<a, b, c>>
        /\ <<a, b>> \o <<c, d>> = <<a, b, c, d>>
    <3>1. <<a, b>> \o <<>> = <<a, b>>
      BY AppendToOne, Zenon
    <3>2. <<a, b>> \o <<c>> = <<a, b, c>>
      BY AppendToTwo, Zenon
    <3>3. <<a, b>> \o <<c, d>> = <<a, b, c, d>>
      <4> DEFINE S == {a, b, c, d}
      <4>1. <<a, b>> \in Seq(S) /\ <<c, d>> \in Seq(S) /\ <<a, b, c, d>> \in Seq(S)
        OBVIOUS
      <4> HIDE DEF S
      <4>2. <<a, b>> \o <<c, d>> \in Seq(S) /\ Len(<<a, b>> \o <<c, d>>) = 4
        BY <4>1
      <4>3. \A i \in 1..4 : (<<a, b>> \o <<c, d>>)[i] = <<a, b, c, d>>[i]
        BY <4>1
      <4> DEFINE u == <<a, b>> \o <<c, d>>
                 v == <<a, b, c, d>>
      <4>4. Len(v) = 4
        OBVIOUS
      <4>5. u \in Seq(S) /\ v \in Seq(S) /\ Len(u) = 4 /\ \A i \in 1..4 : u[i] = v[i]
        BY <4>1, <4>2, <4>3, Zenon
      <4> HIDE DEF u, v
      <4>6. u = v
        BY <4>4, <4>5, SameElements, Zenon
      <4> QED  BY <4>6, Zenon DEF u, v
    <3> QED  BY <3>1, <3>2, <3>3, Zenon
  <2>2. q.shown \in {<<a, b>>, <<a, b, c>>, <<a, b, c, d>>}
    BY Zenon DEF a, b, c, d
  <2>3. q.shown \in {<<a, b>> \o media : media \in {<<>>, <<c>>, <<c, d>>}}
    BY <2>1, <2>2, Zenon
  <2> QED  BY <2>3, Zenon DEF Delivered, a, b, c, d
<1> SUFFICES ASSUME StoreInv, SessionInv, NEW t \in Tab, Running(t), Effects(t), NEW q, SetPage(t,
                    q),
                    q.run = page[t].run, q.key = page[t].key, q.pc = "done",
                    q.shown \in {<<<<"hello", q.run>>, <<"reply", q.run>>>>,
                                 <<<<"hello", q.run>>, <<"reply", q.run>>, <<"media", q.run>>>>,
                                 <<<<"hello", q.run>>, <<"reply", q.run>>, <<"media", q.run>>,
                                   <<"photo", q.run>>>>}
             PROVE  SessionInv'
  OBVIOUS
<1>1. q.key \in Run \cup {None}
  BY RunningPage, Zenon
<1>2. Delivered(q)
  BY <1>ShownIsDelivered, Zenon
<1> QED  BY <1>1, <1>2, StepKeeps, Zenon

\* A node without the blob role.
LEMMA NoBlobRoleRuns ==
  ASSUME StoreInv, SessionInv, NEW t \in Tab, NoBlobRole(t)
  PROVE  SessionInv'
<1> DEFINE p == page[t]
           q == [p EXCEPT !.pc = "done"]
<1>1. p.pc \in {"putBlob", "getBlob"} /\ Quiet(t)
  BY Zenon DEF NoBlobRole, Quiet, KeepsStore
<1>2. SetPage(t, q)
  BY Zenon DEF NoBlobRole, StoreInv, StoreShape, SetPage
<1>3. p.pc \in QuietSteps
  BY <1>1, Zenon DEF QuietSteps
<1>4. Running(t) /\ Effects(t) /\ IsPage(p) /\ ShownAt(p)
  BY <1>1, <1>3, QuietAwait, Zenon DEF GoesOn
<1> HIDE DEF p
<1>5. q.pc = "done" /\ q.run = p.run /\ q.key = p.key /\ q.shown = p.shown
  BY <1>4, Zenon DEF IsPage, PageField
<1> HIDE DEF q
<1>6. \/ p.shown = <<<<"hello", p.run>>, <<"reply", p.run>>>>
      \/ p.shown = <<<<"hello", p.run>>, <<"reply", p.run>>, <<"media", p.run>>>>
  <2>1. p.pc \in BobHas1 \/ p.pc \in {"bobMedia", "ackMedia", "getBlob"}
    BY <1>1, Zenon DEF BobHas1
  <2> QED  BY <1>4, <2>1, Zenon DEF ShownAt
<1> QED  BY <1>2, <1>4, <1>5, <1>6, DoneKeeps, Zenon DEF p

\* The blob is the one that the run put there.
LEMMA GetBlobRuns ==
  \A t \in Tab : StoreInv /\ SessionInv /\ GetBlob(t) => SessionInv'
\* and to three.
<1>AppendToThree.
    ASSUME NEW a, NEW b, NEW c, NEW d
    PROVE  Append(<<a, b, c>>, d) = <<a, b, c, d>>
  <2> USE <1>AppendToThree
  <2> DEFINE S == {a, b, c, d}
  <2>1. <<a, b, c>> \in Seq(S) /\ d \in S /\ <<a, b, c, d>> \in Seq(S)
    OBVIOUS
  <2> HIDE DEF S
  <2>2. Append(<<a, b, c>>, d) \in Seq(S) /\ Len(Append(<<a, b, c>>, d)) = 4
    BY <2>1
  <2>3. \A i \in 1..4 : Append(<<a, b, c>>, d)[i] = <<a, b, c, d>>[i]
    BY <2>1
  <2> QED  BY <2>1, <2>2, <2>3, SameElements, Zenon
\* The last element of three.
<1>LastOfThree.
    ASSUME NEW a, NEW b, NEW c
    PROVE  <<a, b, c>>[Len(<<a, b, c>>)] = c
  BY <1>LastOfThree, Zenon
<1> SUFFICES ASSUME StoreInv, SessionInv, NEW t \in Tab, GetBlob(t)
             PROVE  SessionInv'
  OBVIOUS
<1> DEFINE p == page[t]
           r == p.run
           s == <<<<"hello", r>>, <<"reply", r>>, <<"media", r>>>>
           l == [p EXCEPT !.shown = Append(@, <<"photo", r>>)]
<1>1. p.pc = "getBlob" /\ Quiet(t)
  BY Zenon DEF GetBlob, Quiet, KeepsStore
<1>2. p.pc \in QuietSteps /\ p.pc \in Stored
  BY <1>1, Zenon DEF QuietSteps, Stored
<1>3. Running(t) /\ Effects(t) /\ IsPage(p) /\ r \in Run /\ ShownAt(p) /\ NodeAt(p, relay, blobs)
  BY <1>1, <1>2, QuietAwait, Zenon DEF GoesOn
<1>4. p.shown = s
  BY <1>1, <1>3, Zenon DEF ShownAt
<1>5. p.shown[Len(p.shown)][2] = r
  <2>1. \A a, b, c : <<a, b, c>>[Len(<<a, b, c>>)] = c
    BY <1>LastOfThree, Zenon
  <2>2. s[Len(s)] = <<"media", r>>
    BY <2>1, Zenon
  <2>3. p.shown[Len(p.shown)] = <<"media", r>>
    BY <1>4, <2>2, Zenon
  <2> QED  BY <2>3
<1>6. blobs[r] = SealedMedia(r)
  BY <1>2, <1>3, Zenon DEF NodeAt
<1>7. SealedMedia(r) # None /\ SealedMedia(r).key = r /\ SealedMedia(r).text = <<"photo", r>>
  BY <1>3, NoneAssumption, Zenon DEF SealedMedia
<1>8. Continue(t, l)
  BY <1>5, <1>6, <1>7, Zenon DEF GetBlob
<1> HIDE DEF p
<1>9. IsPage(l)
  BY <1>3, Zenon DEF IsPage
<1>10. l.pc = p.pc /\ l.run = p.run /\ l.key = p.key /\ l.shown = Append(p.shown, <<"photo", r>>)
  BY <1>3, Zenon DEF IsPage, PageField
<1> HIDE DEF l
<1>11. l.shown = <<<<"hello", r>>, <<"reply", r>>, <<"media", r>>, <<"photo", r>>>>
  <2>1. \A a, b, c, d : Append(<<a, b, c>>, d) = <<a, b, c, d>>
    BY <1>AppendToThree, Zenon
  <2> QED  BY <1>4, <1>10, <2>1, Zenon
<1>12. PICK q : SetPage(t, q) /\ GoesTo(l, q, Program[l.pc])
  BY <1>8, <1>9, ContinueIs, Zenon
<1>13. q.pc = "done" /\ q.run = p.run /\ q.key = p.key /\ q.shown = l.shown
  <2>1. Program["getBlob"] = "done"
    BY ProgramIs, Zenon DEF ProgramTable
  <2> QED  BY <1>1, <1>10, <1>12, <2>1, Zenon DEF GoesTo
<1> QED  BY <1>3, <1>11, <1>12, <1>13, DoneKeeps, Zenon DEF p, r

\* A record that the run put can be read back.
LEMMA OwnIsReadable ==
  ASSUME NEW p, p.run \in Run, p.key \in Run, NEW k \in StoreKey, NEW v \in KeyValues(k, p.run),
         sealed[k] = Rec(p, v)
  PROVE  Readable(p, k) /\ sealed[k].value = v
<1>1. Rec(p, v) # None /\ Rec(p, v).salt = p.key /\ Rec(p, v).value = v
  BY RecIs, Zenon
<1> QED  BY <1>1, Zenon DEF Readable

\* acceptSession and the first decryptMessage: Alice's session is the run's, or none.
LEMMA GetBundleRuns ==
  \A t \in Tab : StoreInv /\ SessionInv /\ GetBundle(t) => SessionInv'
<1> SUFFICES ASSUME StoreInv, SessionInv, NEW t \in Tab, GetBundle(t)
             PROVE  SessionInv'
  OBVIOUS
<1> DEFINE p == page[t]
           r == p.run
           bundle == sealed["alice/bundle"].value
           x == RespondRoot(bundle, p.secrets, Handshake(r))
           session == ResponderState(<<x>>, p.secrets.signed)
           opened == DecryptMessage(session, Hello(r), TRUE)
           s == opened.st
           l == [p EXCEPT !.secrets = None, !.alice = s, !.shown = Append(@, Hello(r).body)]
<1>1. p.pc = "getBundle" /\ Quiet(t)
  BY Zenon DEF GetBundle, Quiet, KeepsStore
<1>2. p.pc \in QuietSteps /\ p.pc \notin NodeSteps /\ p.pc \in Awaits \ {"ackAlice"}
      /\ p.pc \in BeforeHeard /\ p.pc \notin BeforeBundle
  BY <1>1, Zenon DEF QuietSteps, NodeSteps, Awaits, BeforeHeard, BeforeBundle, BeforeSecrets,
     Opening
<1>3. Running(t) /\ Effects(t) /\ IsPage(p) /\ r \in Run /\ p.key \in Run
      /\ InboundAt(p) /\ ShownAt(p) /\ (t \notin disturbed => ReadsBack(p, sealed))
  BY <1>1, <1>2, QuietAwait, Zenon DEF GoesOn
<1>4. NodeMoves(p, relay, blobs, relay', blobs')
  BY <1>1, <1>2, QuietNode, Zenon DEF Quiet
<1>5. p.inbound[1] = Handshake(r) /\ p.inbound[2] = Hello(r)
  <2>1. p.inbound = <<Handshake(r), Hello(r)>>
    BY <1>1, <1>3, Zenon DEF InboundAt
  <2> QED  BY <2>1
<1>6. PICK i \in Run : p.secrets = Secrets(i)
  BY <1>1, <1>3, Zenon DEF InboundAt
<1>7. p.secrets.signed = Prekey(i, 0)
  BY <1>6, BobBegins, Zenon
<1>8. /\ opened.ok => s = Alice(r, 0)
      /\ i = r /\ x = Initiated(r).root => opened.ok
  <2>1. opened = Accepted(r, i, x)
    BY <1>7, Zenon DEF Accepted
  <2> HIDE DEF x, session, opened
  <2> QED  BY <1>3, <2>1, AliceOpens, ZenonT(60)
<1> DEFINE fine == /\ Readable(p, "alice/bundle") /\ Responds(bundle, Handshake(r))
                   /\ "dh" \in DOMAIN Hello(r) /\ opened.ok
<1>9. IF fine THEN Continue(t, l) ELSE Throw(t)
  <2> HIDE DEF opened, bundle
  <2> QED  BY <1>5, Zenon DEF GetBundle, opened, bundle
<1>10. CASE fine
  <2>1. s = Alice(r, 0) /\ Continue(t, l)
    BY <1>8, <1>9, <1>10, Zenon
  <2>2. Hello(r).body = <<"hello", r>>
    BY Zenon DEF Hello
  <2>3. p.shown = <<>>
    BY <1>2, <1>3, Zenon DEF ShownAt
  <2> DEFINE w == Hello(r).body
  <2> HIDE DEF p, s, w, r
  <2>4. IsPage(l)
    BY <1>3, Zenon DEF IsPage
  <2>5. /\ l.pc = p.pc /\ l.run = p.run /\ l.key = p.key /\ l.inbound = p.inbound
        /\ l.alice = s /\ l.bob = p.bob /\ l.out = p.out /\ l.shown = Append(p.shown, w)
    BY <1>3, Zenon DEF IsPage, PageField, w
  <2> HIDE DEF l
  <2>6. l.shown = <<<<"hello", p.run>>>>
    BY <2>2, <2>3, <2>5, AppendToNone, Zenon DEF w, r
  <2>7. l.alice = Alice(p.run, 0)
    BY <2>1, <2>5, Zenon DEF r
  <2>8. SessionsMove(p, l) /\ InboundMoves(p, l) /\ ShownMoves(p, l)
    BY <1>1, <2>5, <2>6, <2>7, Zenon DEF SessionsMove, InboundMoves, ShownMoves
  <2>9. p.pc # "getSecrets"
    BY <1>1, Zenon
  <2>10. LocalsMove(p, l)
    BY <2>4, <2>5, <2>8, <2>9, Zenon DEF LocalsMove
  <2> QED  BY <1>2, <1>3, <1>4, <2>1, <2>10, ContinueRuns, Zenon DEF p
<1>11. CASE ~fine
  <2>1. Throw(t)
    BY <1>9, <1>11, Zenon
  <2>2. ASSUME t \notin disturbed PROVE fine
    <3>1. sealed["alice/bundle"] = Rec(p, Bundle(r)) /\ p.secrets = Secrets(r)
      BY <1>1, <1>2, <1>3, <2>2, Zenon DEF ReadsBack
    <3>2. Readable(p, "alice/bundle") /\ bundle = Bundle(r)
      <4>1. "alice/bundle" \in StoreKey
        BY PutKeyIs, Zenon DEF PutKeyTable
      <4>2. Bundle(r) \in KeyValues("alice/bundle", r)
        BY Zenon DEF KeyValues
      <4> DEFINE k == "alice/bundle"
                 v == Bundle(r)
      <4>3. p.run \in Run /\ p.key \in Run /\ k \in StoreKey /\ v \in KeyValues(k, p.run)
            /\ sealed[k] = Rec(p, v)
        BY <1>3, <3>1, <4>1, <4>2, Zenon
      <4> HIDE DEF p, k, v
      <4>4. Readable(p, k) /\ sealed[k].value = v
        BY <4>3, OwnIsReadable, Zenon
      <4> QED  BY <4>4, Zenon DEF k, v
    <3>3. Responds(bundle, Handshake(r)) /\ x = Initiated(r).root
      BY <3>1, <3>2, HandshakeAgrees, Zenon
    <3>4. "dh" \in DOMAIN Hello(r)
      BY MessagesApart, Zenon
    <3>5. opened.ok
      <4>1. p.secrets.signed = Prekey(r, 0)
        BY <3>1, BobBegins, Zenon
      <4>2. opened = Accepted(r, r, x)
        BY <4>1, Zenon DEF Accepted
      <4> HIDE DEF x, session, opened
      <4> QED  BY <1>3, <3>3, <4>2, AliceOpens, Zenon
    <3> QED  BY <3>2, <3>3, <3>4, <3>5, Zenon
  <2>3. t \in disturbed'
    BY <1>3, <1>11, <2>2, Zenon DEF Effects
  <2> QED  BY <1>3, <2>1, <2>3, ThrowKeeps, Zenon
<1> QED  BY <1>10, <1>11, Zenon

\* decryptMessage of the reply: Bob's session is the run's, or none.
LEMMA GetBobRuns ==
  ASSUME StoreInv, SessionInv, NEW t \in Tab, GetBob(t)
  PROVE  SessionInv'
<1> DEFINE p == page[t]
           r == p.run
           rec == sealed["bob/session"]
           opened == DecryptMessage(rec.value, Reply(r), TRUE)
           s == opened.st
           l == [p EXCEPT !.bob = s, !.shown = Append(@, Reply(r).body)]
           fine == Readable(p, "bob/session") /\ opened.ok
<1>1. p.pc = "getBob" /\ Quiet(t)
  BY Zenon DEF GetBob, Quiet, KeepsStore
<1>2. p.pc \in QuietSteps /\ p.pc \notin NodeSteps /\ p.pc \in Awaits \ {"ackAlice"}
      /\ p.pc \in BobWaits
  BY <1>1, Zenon DEF QuietSteps, NodeSteps, Awaits, BobWaits
<1>3. Running(t) /\ Effects(t) /\ IsPage(p) /\ r \in Run /\ p.key \in Run
      /\ InboundAt(p) /\ ShownAt(p) /\ StoredAt(p, sealed["alice/session"], rec)
      /\ (t \notin disturbed => ReadsBack(p, sealed))
  BY <1>1, <1>2, QuietAwait, Zenon DEF GoesOn
<1>4. NodeMoves(p, relay, blobs, relay', blobs')
  BY <1>1, <1>2, QuietNode, Zenon DEF Quiet
<1>5. p.inbound[1] = Reply(r)
  <2>1. p.inbound = <<Reply(r)>>
    BY <1>1, <1>3, Zenon DEF InboundAt
  <2> QED  BY <2>1, EndsOfOne, Zenon
<1>6. IF fine THEN Continue(t, l) ELSE Throw(t)
  <2> HIDE DEF opened, rec
  <2> QED  BY <1>5, Zenon DEF GetBob, BobDecrypts, opened, rec
<1>7. DecryptMessage(Bob1(r), Reply(r), TRUE).ok
      /\ DecryptMessage(Bob1(r), Reply(r), TRUE).st = BobHeard(r, 1)
  <2>1. DecryptMessage(Bob1(r), Reply(r), TRUE) = Done(BobHeard(r, 1))
    BY <1>3, BobOpensReply, Zenon
  <2>2. Done(BobHeard(r, 1)).ok /\ Done(BobHeard(r, 1)).st = BobHeard(r, 1)
    BY Zenon DEF Done
  <2> QED  BY <2>1, <2>2, Zenon
<1>8. CASE fine
  <2>1. Continue(t, l) /\ rec # None
    BY <1>6, <1>8, Zenon DEF Readable
  <2>2. rec.run = r
    <3>1. PICK i \in 1..runs : rec \in RecordOf("bob/session", i)
      BY <2>1, PutKeyIs, Zenon DEF PutKeyTable, SessionInv, RecordsAreOfRuns
    <3>2. rec.run = i /\ rec.value \in BobSessions(i)
      BY <3>1, Zenon DEF RecordOf, KeyValues
    <3>3. i \in Run
      BY <3>1, WebClientAssumption DEF StoreInv, StoreShape, Run
    <3>4. i = r
      BY <1>3, <1>8, <3>2, <3>3, BobOpensOwn, Zenon
    <3> QED  BY <3>2, <3>4, Zenon
  <2>3. rec.value = Bob1(r)
    BY <1>2, <1>3, <2>1, <2>2, Zenon DEF StoredAt, Holds
  <2>4. s = BobHeard(r, 1)
    BY <1>7, <2>3, Zenon
  <2>5. Reply(r).body = <<"reply", r>>
    BY Zenon DEF Reply
  <2>6. p.shown = <<<<"hello", r>>>>
    BY <1>1, <1>3, Zenon DEF ShownAt
  <2> DEFINE w == Reply(r).body
  <2> HIDE DEF p, s, w, r
  <2>7. IsPage(l)
    BY <1>3, Zenon DEF IsPage
  <2>8. /\ l.pc = p.pc /\ l.run = p.run /\ l.key = p.key /\ l.inbound = p.inbound
        /\ l.alice = p.alice /\ l.bob = s /\ l.out = p.out /\ l.shown = Append(p.shown, w)
    BY <1>3, Zenon DEF IsPage, PageField, w
  <2> HIDE DEF l
  <2>9. l.shown = <<<<"hello", p.run>>, <<"reply", p.run>>>>
    BY <2>5, <2>6, <2>8, AppendToOne, Zenon DEF w, r
  <2>10. l.bob = BobHeard(p.run, 1)
    BY <2>4, <2>8, Zenon DEF r
  <2>11. SessionsMove(p, l) /\ InboundMoves(p, l) /\ ShownMoves(p, l)
    BY <1>1, <2>8, <2>9, <2>10, Zenon DEF SessionsMove, InboundMoves, ShownMoves
  <2>12. p.pc # "getSecrets"
    BY <1>1, Zenon
  <2>13. LocalsMove(p, l)
    BY <2>7, <2>8, <2>11, <2>12, Zenon DEF LocalsMove
  <2> QED  BY <1>2, <1>3, <1>4, <2>1, <2>13, ContinueRuns, Zenon DEF p
<1>9. CASE ~fine
  <2>1. Throw(t)
    BY <1>6, <1>9, Zenon
  <2>2. ASSUME t \notin disturbed PROVE fine
    <3>1. rec = Rec(p, Bob1(r))
      BY <1>2, <1>3, <2>2, Zenon DEF ReadsBack
    <3>2. Readable(p, "bob/session") /\ rec.value = Bob1(r)
      <4>1. "bob/session" \in StoreKey
        BY PutKeyIs, Zenon DEF PutKeyTable
      <4>2. Bob1(r) \in KeyValues("bob/session", r)
        BY Zenon DEF KeyValues, BobSessions
      <4> QED  BY <1>3, <3>1, <4>1, <4>2, OwnIsReadable, Zenon
    <3> QED  BY <1>7, <3>2, Zenon
  <2>3. t \in disturbed'
    BY <1>3, <1>9, <2>2, Zenon DEF Effects
  <2> QED  BY <1>3, <2>1, <2>3, ThrowKeeps, Zenon
<1> QED  BY <1>8, <1>9, Zenon

-----------------------------------------------------------------------------
(***************************************************************************)
(* The requests to the node                                                *)
(***************************************************************************)

\* The queue of each push, pull and ack.
LEMMA QueuesAre ==
  /\ PushTo["pushHandshake"] = "alice" /\ PushTo["pushHello"] = "alice"
  /\ PushTo["pushReply"] = "bob" /\ PushTo["pushMedia"] = "bob"
  /\ PullFrom["pullAlice"] = "alice" /\ PullFrom["pullBob"] = "bob" /\ PullFrom["pullMedia"] = "bob"
  /\ AckOn["ackAlice"] = "alice" /\ AckOn["ackBob"] = "bob" /\ AckOn["ackMedia"] = "bob"
  /\ DOMAIN PushTo = {"pushHandshake", "pushHello", "pushReply", "pushMedia"}
  /\ DOMAIN PullFrom = {"pullAlice", "pullBob", "pullMedia"}
  /\ DOMAIN AckOn = {"ackAlice", "ackBob", "ackMedia"}
BY Zenon DEF PushTo, PullFrom, AckOn

\* Queue who of run r holds rows after the step, and no other queue changes.
QueueOnly(who, r, rows) ==
  /\ relay' = [x \in Queue |-> relay'[x]]
  /\ relay'[<<who, r>>] = rows
  /\ who = "alice" => relay'[<<"bob", r>>] = relay[<<"bob", r>>]
  /\ who = "bob" => relay'[<<"alice", r>>] = relay[<<"alice", r>>]
  /\ \A i \in Run : i # r => /\ relay'[<<"alice", i>>] = relay[<<"alice", i>>]
                             /\ relay'[<<"bob", i>>] = relay[<<"bob", i>>]

\* A request about one queue leaves the others alone.
LEMMA QueueStep ==
  ASSUME SessionInv, NEW who \in {"alice", "bob"}, NEW r \in Run, NEW rows,
         relay' = [relay EXCEPT ![<<who, r>>] = rows]
  PROVE  QueueOnly(who, r, rows)
<1>1. relay = [x \in Queue |-> relay[x]]
  BY Zenon DEF SessionInv, NodeShape
<1>2. <<who, r>> \in Queue /\ \A i \in Run : <<"alice", i>> \in Queue /\ <<"bob", i>> \in Queue
  BY Zenon DEF Queue
<1>3. relay' = [x \in Queue |-> relay'[x]]
  BY <1>1, Zenon
<1>4. relay'[<<who, r>>] = rows
  BY <1>1, <1>2, Zenon
<1>5. \A x \in Queue : x # <<who, r>> => relay'[x] = relay[x]
  BY <1>1, Zenon
<1>6. \A i \in Run : i # r => <<"alice", i>> # <<who, r>> /\ <<"bob", i>> # <<who, r>>
  BY Zenon
<1>7. (who = "alice" => <<"bob", r>> # <<who, r>>) /\ (who = "bob" => <<"alice", r>> # <<who, r>>)
  BY Zenon
<1> QED  BY <1>2, <1>3, <1>4, <1>5, <1>6, <1>7, Zenon DEF QueueOnly

\* The reply to a request is lost, or the run goes on.
LEMMA RepliedRuns ==
  ASSUME StoreInv, SessionInv, NEW t \in Tab, Effects(t), NEW l, NEW lost \in BOOLEAN,
         page[t].pc \in Awaits \ {"ackAlice"}, Replied(t, l, lost),
         ~lost => LocalsMove(page[t], l) /\ NodeMoves(page[t], relay, blobs, relay', blobs')
  PROVE  SessionInv'
<1>1. Running(t)
  BY Zenon DEF Awaits, Running, Stopped
<1>2. CASE lost
  <2>1. Throw(t) /\ t \in disturbed'
    BY <1>2, Zenon DEF Replied
  <2> QED  BY <1>1, <2>1, ThrowKeeps, Zenon
<1>3. CASE ~lost
  <2>1. Continue(t, l)
    BY <1>3, Zenon DEF Replied
  <2> QED  BY <1>3, <2>1, ContinueRuns, Zenon
<1> QED  BY <1>2, <1>3, Zenon

\* The page of a tab that waits for the node.
LEMMA FetchAwait ==
  ASSUME StoreInv, SessionInv, NEW t \in Tab, page[t].pc \in NodeSteps
  PROVE  /\ Running(t) /\ page[t].pc \notin DOMAIN PutKey
         /\ IsPage(page[t]) /\ page[t].run \in Run /\ page[t].key \in Run
         /\ SessionsAt(page[t]) /\ InboundAt(page[t]) /\ ShownAt(page[t])
         /\ NodeAt(page[t], relay, blobs)
<1>1. Running(t) /\ page[t].pc \notin DOMAIN PutKey /\ page[t].pc \notin Opening
  BY PutKeyIs, Zenon DEF PutKeyTable, NodeSteps, Running, Stopped, Opening
<1> QED  BY <1>1, RunningPage, Zenon DEF GoesOn

\* What a run pushes, and where it goes.
Pushed(p) == IF p.pc = "pushHandshake" THEN Handshake(p.run) ELSE p.out

\* push: the run goes on, or fails for a lost reply.
LEMMA PushRuns ==
  \A t \in Tab, lost \in BOOLEAN : StoreInv /\ SessionInv /\ Push(t, lost) => SessionInv'
\* The queue that results.
<1>PushedIs.
    ASSUME NEW p, p.pc \in DOMAIN PushTo, SessionsAt(p), NodeAt(p, relay, blobs),
           NEW rows, rows = Append(relay[<<PushTo[p.pc], p.run>>], Pushed(p))
    PROVE  /\ p.pc = "pushHandshake" => rows = <<Handshake(p.run)>> /\ PushTo[p.pc] = "alice"
           /\ p.pc = "pushHello" => /\ rows = <<Handshake(p.run), Hello(p.run)>>
                                    /\ PushTo[p.pc] = "alice" /\ p.out = Hello(p.run)
           /\ p.pc = "pushReply" => /\ rows = <<Reply(p.run)>>
                                    /\ PushTo[p.pc] = "bob" /\ p.out = Reply(p.run)
           /\ p.pc = "pushMedia" => /\ rows = <<Media(p.run)>>
                                    /\ PushTo[p.pc] = "bob" /\ p.out = Media(p.run)
  <2> USE <1>PushedIs
  <2> DEFINE r == p.run
  <2>1. ASSUME p.pc = "pushHandshake"
        PROVE  rows = <<Handshake(r)>> /\ PushTo[p.pc] = "alice"
    <3>1. p.pc \in BeforeShake /\ PushTo[p.pc] = "alice"
      BY <2>1, QueuesAre, Zenon DEF BeforeShake
    <3>2. relay[<<"alice", r>>] = <<>> /\ Pushed(p) = Handshake(r)
      BY <2>1, <3>1, Zenon DEF NodeAt, Pushed
    <3> QED  BY <3>1, <3>2, AppendToNone, Zenon
  <2>2. ASSUME p.pc = "pushHello"
        PROVE  rows = <<Handshake(r), Hello(r)>> /\ PushTo[p.pc] = "alice" /\ p.out = Hello(r)
    <3>1. PushTo[p.pc] = "alice" /\ p.pc # "pushHandshake"
      BY <2>2, QueuesAre, Zenon
    <3>2. p.out = Hello(r)
      BY <2>2, Zenon DEF SessionsAt
    <3>3. relay[<<"alice", r>>] = <<Handshake(r)>> /\ Pushed(p) = Hello(r)
      BY <2>2, <3>1, <3>2, Zenon DEF NodeAt, Pushed
    <3> QED  BY <3>1, <3>2, <3>3, AppendToOne, Zenon
  <2>3. ASSUME p.pc = "pushReply"
        PROVE  rows = <<Reply(r)>> /\ PushTo[p.pc] = "bob" /\ p.out = Reply(r)
    <3>1. PushTo[p.pc] = "bob" /\ p.pc # "pushHandshake"
      BY <2>3, QueuesAre, Zenon
    <3>2. p.out = Reply(r)
      BY <2>3, Zenon DEF SessionsAt
    <3>3. relay[<<"bob", r>>] = <<>> /\ Pushed(p) = Reply(r)
      BY <2>3, <3>1, <3>2, Zenon DEF NodeAt, Pushed
    <3> QED  BY <3>1, <3>2, <3>3, AppendToNone, Zenon
  <2>4. ASSUME p.pc = "pushMedia"
        PROVE  rows = <<Media(r)>> /\ PushTo[p.pc] = "bob" /\ p.out = Media(r)
    <3>1. PushTo[p.pc] = "bob" /\ p.pc # "pushHandshake"
      BY <2>4, QueuesAre, Zenon
    <3>2. p.out = Media(r)
      BY <2>4, Zenon DEF SessionsAt
    <3>3. relay[<<"bob", r>>] = <<>> /\ Pushed(p) = Media(r)
      BY <2>4, <3>1, <3>2, Zenon DEF NodeAt, Pushed
    <3> QED  BY <3>1, <3>2, <3>3, AppendToNone, Zenon
  <2> QED  BY <2>1, <2>2, <2>3, <2>4, Zenon
<1> SUFFICES ASSUME StoreInv, SessionInv, NEW t \in Tab, NEW lost \in BOOLEAN, Push(t, lost)
             PROVE  SessionInv'
  OBVIOUS
<1> DEFINE p == page[t]
           r == p.run
           who == PushTo[p.pc]
           rows == Append(relay[<<who, r>>], Pushed(p))
           l == IF p.pc = "pushHandshake" THEN p ELSE [p EXCEPT !.out = None]
<1>1. /\ p.pc \in DOMAIN PushTo
      /\ relay' = [relay EXCEPT ![<<who, r>>] = rows]
      /\ sent' = IF p.pc = "pushHandshake" THEN sent ELSE sent \cup {Pushed(p)}
      /\ Replied(t, l, lost)
      /\ blobs' = blobs /\ acked' = acked
      /\ salt' = salt /\ sealed' = sealed /\ runs' = runs /\ raced' = raced
  BY Zenon DEF Push, Pushed, Handshake
<1>2. KeepsStore(t)
  BY <1>1, Zenon DEF KeepsStore, Replied
<1>3. p.pc \in {"pushHandshake", "pushHello", "pushReply", "pushMedia"}
  BY <1>1, QueuesAre, Zenon
<1>4. p.pc \in NodeSteps /\ p.pc \in Awaits \ {"ackAlice"} /\ who \in {"alice", "bob"}
  BY <1>3, QueuesAre, ZenonT(60) DEF NodeSteps, Awaits
<1>5. /\ IsPage(p) /\ r \in Run /\ p.pc \notin DOMAIN PutKey /\ SessionsAt(p)
      /\ NodeAt(p, relay, blobs)
  BY <1>4, FetchAwait, Zenon
<1>6. /\ p.pc = "pushHandshake" => rows = <<Handshake(r)>> /\ who = "alice"
      /\ p.pc = "pushHello" => /\ rows = <<Handshake(r), Hello(r)>>
                               /\ who = "alice" /\ p.out = Hello(r)
      /\ p.pc = "pushReply" => rows = <<Reply(r)>> /\ who = "bob" /\ p.out = Reply(r)
      /\ p.pc = "pushMedia" => rows = <<Media(r)>> /\ who = "bob" /\ p.out = Media(r)
  BY <1>1, <1>5, <1>PushedIs, Zenon
<1>7. /\ relay' = [x \in Queue |-> relay'[x]]
      /\ relay'[<<who, r>>] = rows
      /\ who = "alice" => relay'[<<"bob", r>>] = relay[<<"bob", r>>]
      /\ who = "bob" => relay'[<<"alice", r>>] = relay[<<"alice", r>>]
      /\ \A i \in Run : i # r => /\ relay'[<<"alice", i>>] = relay[<<"alice", i>>]
                                 /\ relay'[<<"bob", i>>] = relay[<<"bob", i>>]
  <2>1. QueueOnly(who, r, rows)
    <3>1. relay' = [relay EXCEPT ![<<who, r>>] = rows]
      BY <1>1, Zenon
    <3> HIDE DEF who, rows, r, p
    <3> QED  BY <1>4, <1>5, <3>1, QueueStep, Zenon
  <2> HIDE DEF who, rows, r, p
  <2> QED  BY <2>1, Zenon DEF QueueOnly
<1> HIDE DEF who, rows
<1>8. SentMoves(p, sent, acked, sent', acked')
  <2>1. p.pc # "pushHandshake" => Pushed(p) = p.out
    BY Zenon DEF Pushed
  <2> HIDE DEF p
  <2> QED  BY <1>1, <1>3, <1>6, <2>1, Zenon DEF SentMoves, r
<1>9. Effects(t)
  <2>1. blobs' = [i \in Run |-> blobs'[i]]
    BY <1>1, Zenon DEF SessionInv, NodeShape
  <2> QED  BY <1>1, <1>2, <1>5, <1>7, <1>8, <2>1, NodeEffects, Zenon
<1> HIDE DEF p
<1>10. NodeMoves(p, relay, blobs, relay', blobs')
  BY <1>1, <1>3, <1>6, <1>7, Zenon DEF NodeMoves, r
<1>11. IsPage(l)
  BY <1>5, Zenon DEF IsPage
<1>12. /\ l.pc = p.pc /\ l.run = p.run /\ l.key = p.key /\ l.inbound = p.inbound
       /\ l.alice = p.alice /\ l.bob = p.bob /\ l.shown = p.shown
       /\ p.pc = "pushHandshake" => l.out = p.out
  BY <1>5, Zenon DEF IsPage, PageField
<1> HIDE DEF l
<1>13. SessionsMove(p, l) /\ InboundMoves(p, l) /\ ShownMoves(p, l) /\ p.pc # "getSecrets"
  BY <1>3, <1>12, Zenon DEF SessionsMove, InboundMoves, ShownMoves
<1>14. LocalsMove(p, l)
  BY <1>11, <1>12, <1>13, Zenon DEF LocalsMove
<1> QED  BY <1>1, <1>4, <1>9, <1>10, <1>14, RepliedRuns, Zenon DEF p

\* What a run pulls: all of what it expects, or less and it throws.
Needed(p) == IF p.pc = "pullAlice" THEN 2 ELSE 1

\* The queue, and what a pull gets of it.
PullQueue(p) == relay[<<PullFrom[p.pc], p.run>>]
Pulled(p, expired, rows) ==
  /\ expired > 0 <=> Len(rows) < Needed(p)
  /\ expired = 0 =>
       /\ rows = PullQueue(p)
       /\ p.pc = "pullAlice" => rows = <<Handshake(p.run), Hello(p.run)>>
       /\ p.pc = "pullBob" => rows = <<Reply(p.run)>>
       /\ p.pc = "pullMedia" => rows = <<Media(p.run)>>

\* fetch of what is queued; the media descriptor is decrypted with the session in memory.
LEMMA PullRuns ==
  \A t \in Tab, expired \in 0..2 : StoreInv /\ SessionInv /\ Pull(t, expired) => SessionInv'
\* What is left of a queue of one and of two after some of it has expired.
<1>ExpiredOfOne.
    ASSUME NEW a, NEW rows, rows = <<a>>, NEW n \in 0..2, n <= Len(rows)
    PROVE  /\ n = 0 => SubSeq(rows, n + 1, Len(rows)) = <<a>>
           /\ n > 0 <=> Len(SubSeq(rows, n + 1, Len(rows))) < 1
  <2> USE <1>ExpiredOfOne
  <2>1. Len(rows) = 1 /\ SubSeq(rows, 1, 1) = <<a>> /\ Len(SubSeq(rows, 2, 1)) = 0
    BY EndsOfOne, Zenon
  <2>2. CASE n = 0
    <3>1. n + 1 = 1
      BY <2>2
    <3>2. Len(<<a>>) = 1
      BY Zenon
    <3> QED  BY <2>1, <2>2, <3>1, <3>2
  <2>3. CASE n # 0
    <3>1. n + 1 = 2
      BY <2>1, <2>3
    <3> QED  BY <2>1, <2>3, <3>1
  <2> QED  BY <2>2, <2>3, Zenon
\* The same of a queue of two.
<1>ExpiredOfTwo.
    ASSUME NEW a, NEW b, NEW rows, rows = <<a, b>>, NEW n \in 0..2, n <= Len(rows)
    PROVE  /\ n = 0 => SubSeq(rows, n + 1, Len(rows)) = <<a, b>>
           /\ n > 0 <=> Len(SubSeq(rows, n + 1, Len(rows))) < 2
  <2> USE <1>ExpiredOfTwo
  <2>1. Len(rows) = 2 /\ SubSeq(rows, 1, 2) = <<a, b>> /\ Len(SubSeq(rows, 2, 2)) = 1
        /\ Len(SubSeq(rows, 3, 2)) = 0
    <3>1. Len(<<a, b>>) = 2 /\ SubSeq(<<a, b>>, 1, 2) = <<a, b>> /\ Len(SubSeq(<<a, b>>, 2, 2)) = 1
          /\ Len(SubSeq(<<a, b>>, 3, 2)) = 0
      BY EndsOfTwo, ZenonT(60)
    <3> QED  BY <3>1, Zenon
  <2>2. CASE n = 0
    <3>1. n + 1 = 1
      BY <2>2
    <3>2. Len(<<a, b>>) = 2
      BY Zenon
    <3> QED  BY <2>1, <2>2, <3>1, <3>2
  <2>3. CASE n = 1
    <3>1. n + 1 = 2
      BY <2>3
    <3> QED  BY <2>1, <2>3, <3>1
  <2>4. CASE n = 2
    <3>1. n + 1 = 3
      BY <2>4
    <3> QED  BY <2>1, <2>4, <3>1, Zenon
  <2> QED  BY <2>2, <2>3, <2>4
\* With nothing expired it is what the other side sent.
<1>PulledIs.
    ASSUME NEW p, p.pc \in DOMAIN PullFrom, NodeAt(p, relay, blobs), NEW expired \in 0..2,
           expired <= Len(PullQueue(p)),
           NEW rows, rows = SubSeq(PullQueue(p), expired + 1, Len(PullQueue(p)))
    PROVE  Pulled(p, expired, rows)
  <2> USE <1>PulledIs
  <2> DEFINE r == p.run
             queue == PullQueue(p)
  <2>1. CASE p.pc = "pullAlice"
    <3>1. PullFrom[p.pc] = "alice" /\ Needed(p) = 2 /\ p.pc # "pullBob" /\ p.pc # "pullMedia"
      BY <2>1, QueuesAre, Zenon DEF Needed
    <3>2. queue = <<Handshake(r), Hello(r)>>
      BY <2>1, <3>1, Zenon DEF NodeAt, PullQueue
    <3>3. /\ expired = 0 => rows = <<Handshake(r), Hello(r)>>
          /\ expired > 0 <=> Len(rows) < 2
      BY <3>2, <1>ExpiredOfTwo, Zenon
    <3> QED  BY <2>1, <3>1, <3>2, <3>3, Zenon DEF Pulled
  <2>2. CASE p.pc = "pullBob"
    <3>1. PullFrom[p.pc] = "bob" /\ Needed(p) = 1 /\ p.pc # "pullAlice" /\ p.pc # "pullMedia"
      BY <2>2, QueuesAre, Zenon DEF Needed
    <3>2. queue = <<Reply(r)>>
      <4>1. p.pc \in ReplyWaits
        BY <2>2, Zenon DEF ReplyWaits
      <4> QED  BY <3>1, <4>1, Zenon DEF NodeAt, PullQueue
    <3>3. /\ expired = 0 => rows = <<Reply(r)>>
          /\ expired > 0 <=> Len(rows) < 1
      BY <3>2, <1>ExpiredOfOne, Zenon
    <3> QED  BY <2>2, <3>1, <3>2, <3>3, Zenon DEF Pulled
  <2>3. CASE p.pc = "pullMedia"
    <3>1. PullFrom[p.pc] = "bob" /\ Needed(p) = 1 /\ p.pc # "pullAlice" /\ p.pc # "pullBob"
      BY <2>3, QueuesAre, Zenon DEF Needed
    <3>2. queue = <<Media(r)>>
      BY <2>3, <3>1, Zenon DEF NodeAt, PullQueue
    <3>3. /\ expired = 0 => rows = <<Media(r)>>
          /\ expired > 0 <=> Len(rows) < 1
      BY <3>2, <1>ExpiredOfOne, Zenon
    <3> QED  BY <2>3, <3>1, <3>2, <3>3, Zenon DEF Pulled
  <2> QED  BY <2>1, <2>2, <2>3, QueuesAre, Zenon
<1> SUFFICES ASSUME StoreInv, SessionInv, NEW t \in Tab, NEW expired \in 0..2, Pull(t, expired)
             PROVE  SessionInv'
  OBVIOUS
<1> DEFINE p == page[t]
           r == p.run
           who == PullFrom[p.pc]
           queue == relay[<<who, r>>]
           rows == SubSeq(queue, expired + 1, Len(queue))
           got == [p EXCEPT !.inbound = rows]
           opened == DecryptMessage(p.bob, rows[1], TRUE)
           s == opened.st
           w == rows[1].body
           heard == [got EXCEPT !.bob = s, !.shown = Append(@, w)]
<1>1. /\ p.pc \in DOMAIN PullFrom /\ expired <= Len(queue)
      /\ relay' = [relay EXCEPT ![<<who, r>>] = rows]
      /\ disturbed' = IF expired > 0 THEN disturbed \cup {t} ELSE disturbed
      /\ IF Len(rows) < Needed(p) THEN Throw(t)
         ELSE IF p.pc # "pullMedia" THEN Continue(t, got)
         ELSE IF opened.ok THEN Continue(t, heard)
         ELSE Throw(t)
      /\ blobs' = blobs /\ acked' = acked /\ sent' = sent
      /\ salt' = salt /\ sealed' = sealed /\ runs' = runs /\ raced' = raced
  BY Zenon DEF Pull, Needed
<1>2. KeepsStore(t)
  BY <1>1, Zenon DEF KeepsStore
<1>3. p.pc \in {"pullAlice", "pullBob", "pullMedia"}
  BY <1>1, QueuesAre, Zenon
<1>4. p.pc \in NodeSteps /\ p.pc \in Awaits \ {"ackAlice"} /\ who \in {"alice", "bob"}
  BY <1>3, QueuesAre, ZenonT(60) DEF NodeSteps, Awaits
<1>5. /\ Running(t) /\ IsPage(p) /\ r \in Run /\ p.pc \notin DOMAIN PutKey /\ SessionsAt(p)
      /\ ShownAt(p) /\ NodeAt(p, relay, blobs)
  BY <1>4, FetchAwait, Zenon
<1>6. /\ expired > 0 <=> Len(rows) < Needed(p)
      /\ expired = 0 => /\ rows = queue
                        /\ p.pc = "pullAlice" => rows = <<Handshake(r), Hello(r)>>
                        /\ p.pc = "pullBob" => rows = <<Reply(r)>>
                        /\ p.pc = "pullMedia" => rows = <<Media(r)>>
  <2>1. queue = PullQueue(p)
    BY Zenon DEF PullQueue
  <2>2. /\ p.pc \in DOMAIN PullFrom /\ expired <= Len(PullQueue(p))
        /\ rows = SubSeq(PullQueue(p), expired + 1, Len(PullQueue(p)))
    BY <1>1, <2>1, Zenon
  <2> HIDE DEF queue, rows
  <2>3. Pulled(p, expired, rows)
    BY <1>5, <2>2, <1>PulledIs, Zenon
  <2> QED  BY <2>1, <2>3, Zenon DEF Pulled
<1>7. QueueOnly(who, r, rows)
  <2>1. relay' = [relay EXCEPT ![<<who, r>>] = rows]
    BY <1>1, Zenon
  <2> HIDE DEF who, rows, r, p
  <2> QED  BY <1>4, <1>5, <2>1, QueueStep, Zenon
<1>8. Effects(t)
  <2>1. blobs' = [i \in Run |-> blobs'[i]]
    BY <1>1, Zenon DEF SessionInv, NodeShape
  <2>2. SentMoves(p, sent, acked, sent', acked')
    BY <1>1, Zenon DEF SentMoves
  <2>3. relay' = [x \in Queue |-> relay'[x]]
        /\ \A i \in Run : i # r => /\ relay'[<<"alice", i>>] = relay[<<"alice", i>>]
                                   /\ relay'[<<"bob", i>>] = relay[<<"bob", i>>]
    <3> HIDE DEF who, rows, r
    <3> QED  BY <1>7, Zenon DEF QueueOnly
  <2> QED  BY <1>1, <1>2, <1>5, <2>1, <2>2, <2>3, NodeEffects, Zenon
<1>9. CASE expired > 0
  <2>1. Throw(t) /\ t \in disturbed'
    BY <1>1, <1>6, <1>9, Zenon
  <2> QED  BY <1>5, <1>8, <2>1, ThrowKeeps, Zenon
<1>10. CASE expired = 0
  <2>1. /\ ~(Len(rows) < Needed(p)) /\ rows = queue
        /\ p.pc = "pullAlice" => rows = <<Handshake(r), Hello(r)>>
        /\ p.pc = "pullBob" => rows = <<Reply(r)>>
        /\ p.pc = "pullMedia" => rows = <<Media(r)>>
    <3>1. ~(expired > 0)
      BY <1>10
    <3> QED  BY <1>6, <1>10, <3>1, Zenon
  <2>2. NodeMoves(p, relay, blobs, relay', blobs')
    <3>1. /\ relay'[<<"alice", r>>] = relay[<<"alice", r>>]
          /\ relay'[<<"bob", r>>] = relay[<<"bob", r>>]
      <4>1. relay'[<<who, r>>] = relay[<<who, r>>]
        BY <1>7, <2>1, Zenon DEF QueueOnly
      <4> HIDE DEF who, rows, r
      <4> QED  BY <1>4, <1>7, <4>1, Zenon DEF QueueOnly
    <3>2. blobs' = blobs
      BY <1>1, Zenon
    <3> HIDE DEF p
    <3> QED  BY <1>3, <3>1, <3>2, Zenon DEF NodeMoves, r
  <2>3. CASE p.pc # "pullMedia"
    <3>1. Continue(t, got)
      BY <1>1, <2>1, <2>3, Zenon
    <3> HIDE DEF p, rows, r
    <3>2. IsPage(got)
      BY <1>5, Zenon DEF IsPage
    <3>3. /\ got.pc = p.pc /\ got.run = p.run /\ got.key = p.key /\ got.inbound = rows
          /\ got.alice = p.alice /\ got.bob = p.bob /\ got.out = p.out /\ got.shown = p.shown
      BY <1>5, Zenon DEF IsPage, PageField
    <3> HIDE DEF got
    <3>4. /\ p.pc = "pullAlice" => got.inbound = <<Handshake(p.run), Hello(p.run)>>
          /\ p.pc = "pullBob" => got.inbound = <<Reply(p.run)>>
      BY <2>1, <3>3, Zenon DEF r
    <3>5. SessionsMove(p, got) /\ InboundMoves(p, got) /\ ShownMoves(p, got) /\ p.pc # "getSecrets"
      BY <1>3, <2>3, <3>3, <3>4, Zenon DEF SessionsMove, InboundMoves, ShownMoves
    <3>6. LocalsMove(p, got)
      BY <3>2, <3>3, <3>5, Zenon DEF LocalsMove
    <3> QED  BY <1>4, <1>8, <2>2, <3>1, <3>6, ContinueRuns, Zenon DEF p
  <2>4. CASE p.pc = "pullMedia"
    <3>1. rows = <<Media(r)>>
      BY <2>1, <2>4, Zenon
    <3>2. p.bob = BobHeard(r, 1) /\ p.shown = <<<<"hello", r>>, <<"reply", r>>>>
      <4>1. p.pc \in BobHas1
        BY <2>4, Zenon DEF BobHas1
      <4> QED  BY <1>5, <4>1, Zenon DEF SessionsAt, ShownAt
    <3>3. rows[1] = Media(r)
      BY <3>1, EndsOfOne, Zenon
    <3>4. opened = Done(BobHeard(r, 2))
      BY <1>5, <3>2, <3>3, BobOpensMedia, Zenon
    <3>5. opened.ok /\ s = BobHeard(r, 2)
      <4>1. Done(BobHeard(r, 2)).ok /\ Done(BobHeard(r, 2)).st = BobHeard(r, 2)
        BY Zenon DEF Done
      <4> QED  BY <3>4, <4>1, Zenon
    <3>6. w = <<"media", r>>
      <4>1. Media(r).body = <<"media", r>>
        BY Zenon DEF Media
      <4> QED  BY <3>3, <4>1, Zenon
    <3>7. Continue(t, heard)
      BY <1>1, <2>1, <2>4, <3>5, Zenon
    <3> HIDE DEF p, rows, r, s, w
    <3>8. IsPage(got)
      BY <1>5, Zenon DEF IsPage
    <3>9. /\ got.pc = p.pc /\ got.run = p.run /\ got.key = p.key /\ got.inbound = rows
          /\ got.alice = p.alice /\ got.bob = p.bob /\ got.out = p.out /\ got.shown = p.shown
      BY <1>5, Zenon DEF IsPage, PageField
    <3> HIDE DEF got
    <3>10. IsPage(heard)
      BY <3>8, Zenon DEF IsPage
    <3>11. /\ heard.pc = got.pc /\ heard.run = got.run /\ heard.key = got.key
           /\ heard.inbound = got.inbound /\ heard.alice = got.alice /\ heard.bob = s
           /\ heard.out = got.out /\ heard.shown = Append(got.shown, w)
      BY <3>8, Zenon DEF IsPage, PageField
    <3> HIDE DEF heard
    <3>12. heard.shown = <<<<"hello", p.run>>, <<"reply", p.run>>, <<"media", p.run>>>>
      BY <3>2, <3>6, <3>9, <3>11, AppendToTwo, ZenonT(60) DEF r
    <3>13. heard.bob = BobHeard(p.run, 2) /\ heard.inbound = <<Media(p.run)>>
           /\ heard.alice = p.alice
      BY <3>1, <3>5, <3>9, <3>11, Zenon DEF r
    <3>14. SessionsMove(p, heard) /\ InboundMoves(p, heard) /\ ShownMoves(p, heard)
           /\ p.pc # "getSecrets"
      BY <2>4, <3>12, <3>13, Zenon DEF SessionsMove, InboundMoves, ShownMoves
    <3>15. LocalsMove(p, heard)
      BY <3>9, <3>10, <3>11, <3>14, Zenon DEF LocalsMove
    <3> QED  BY <1>4, <1>8, <2>2, <3>7, <3>15, ContinueRuns, Zenon DEF p
  <2> QED  BY <2>3, <2>4, Zenon
<1> QED  BY <1>9, <1>10

\* encryptMessage replaces Alice's session and the message to push.
LEMMA AliceEncryptsIs ==
  ASSUME NEW p, IsPage(p), NEW text
  PROVE  LET l == AliceEncrypts(p, text)
         IN  /\ IsPage(l) /\ l.pc = p.pc /\ l.run = p.run /\ l.key = p.key
             /\ l.inbound = p.inbound /\ l.bob = p.bob /\ l.shown = p.shown
             /\ l.alice = AfterSend(p.alice) /\ l.out = Sealed(p.alice, <<text, p.run>>)
<1> DEFINE s == AfterSend(p.alice)
           m == Sealed(p.alice, <<text, p.run>>)
           l == [p EXCEPT !.out = m, !.alice = s]
<1>1. AliceEncrypts(p, text) = l
  BY Zenon DEF AliceEncrypts
<1> HIDE DEF s, m
<1>2. IsPage(l)
  BY Zenon DEF IsPage
<1>3. /\ l.pc = p.pc /\ l.run = p.run /\ l.key = p.key
      /\ l.inbound = p.inbound /\ l.bob = p.bob /\ l.shown = p.shown /\ l.alice = s /\ l.out = m
  BY Zenon DEF IsPage, PageField
<1> HIDE DEF l
<1> QED  BY <1>1, <1>2, <1>3, Zenon DEF s, m

\* putBlob: Alice's media are stored, and their descriptor is sealed.
LEMMA PutBlobRuns ==
  ASSUME StoreInv, SessionInv, NEW t \in Tab, NEW lost \in BOOLEAN, PutBlob(t, lost)
  PROVE  SessionInv'
<1> DEFINE p == page[t]
           r == p.run
           l == AliceEncrypts(p, "media")
<1>1. /\ p.pc = "putBlob"
      /\ blobs' = [blobs EXCEPT ![r] = SealedMedia(r)]
      /\ Replied(t, l, lost)
      /\ relay' = relay /\ acked' = acked /\ sent' = sent
      /\ salt' = salt /\ sealed' = sealed /\ runs' = runs /\ raced' = raced
  BY Zenon DEF PutBlob
<1>2. KeepsStore(t)
  BY <1>1, Zenon DEF KeepsStore, Replied
<1>3. p.pc \in NodeSteps /\ p.pc \in Awaits \ {"ackAlice"} /\ p.pc \in AliceHas1
  BY <1>1, Zenon DEF NodeSteps, Awaits, AliceHas1
<1>4. IsPage(p) /\ r \in Run /\ p.pc \notin DOMAIN PutKey /\ p.alice = Alice(r, 1)
  BY <1>3, FetchAwait, Zenon DEF SessionsAt
<1>5. blobs' = [i \in Run |-> blobs'[i]] /\ blobs'[r] = SealedMedia(r)
      /\ \A i \in Run : i # r => blobs'[i] = blobs[i]
  BY <1>1, <1>4, Zenon DEF SessionInv, NodeShape
<1>6. Effects(t)
  <2>1. relay' = [x \in Queue |-> relay'[x]]
    BY <1>1, Zenon DEF SessionInv, NodeShape
  <2>2. SentMoves(p, sent, acked, sent', acked')
    BY <1>1, Zenon DEF SentMoves
  <2> QED  BY <1>1, <1>2, <1>4, <1>5, <2>1, <2>2, NodeEffects, Zenon
<1> HIDE DEF p
<1>7. NodeMoves(p, relay, blobs, relay', blobs')
  BY <1>1, <1>5, Zenon DEF NodeMoves, r
<1>8. /\ IsPage(l) /\ l.pc = p.pc /\ l.run = p.run /\ l.key = p.key
      /\ l.inbound = p.inbound /\ l.bob = p.bob /\ l.shown = p.shown
      /\ l.alice = AfterSend(p.alice) /\ l.out = Sealed(p.alice, <<"media", p.run>>)
  BY <1>4, AliceEncryptsIs, Zenon
<1> HIDE DEF l
<1>9. l.alice = Alice(p.run, 2) /\ l.out = Media(p.run)
  BY <1>4, <1>8, SessionsSend, Zenon DEF r
<1>10. SessionsMove(p, l) /\ InboundMoves(p, l) /\ ShownMoves(p, l) /\ p.pc # "getSecrets"
  BY <1>1, <1>8, <1>9, Zenon DEF SessionsMove, InboundMoves, ShownMoves
<1>11. LocalsMove(p, l)
  BY <1>8, <1>10, Zenon DEF LocalsMove
<1> QED  BY <1>1, <1>3, <1>6, <1>7, <1>11, RepliedRuns, Zenon DEF p

\* The envelope that is acknowledged, and what is still to be.
Acks(p) ==
  LET e == Head(p.inbound)
      more == Len(p.inbound) > 1
  IN  /\ p.pc = "ackAlice" =>
           \/ more /\ e = Handshake(p.run) /\ Tail(p.inbound) = <<Hello(p.run)>>
           \/ ~more /\ e = Hello(p.run)
      /\ p.pc = "ackBob" => ~more /\ e = Reply(p.run)
      /\ p.pc = "ackMedia" => ~more /\ e = Media(p.run)

\* ack: the relay drops the envelope, whose session is in the store by now.
LEMMA AckRuns ==
  \A t \in Tab, lost \in BOOLEAN : StoreInv /\ SessionInv /\ Ack(t, lost) => SessionInv'
\* An acknowledgement empties a queue of one.
<1>WithoutOnly.
    ASSUME NEW a
    PROVE  Without(<<a>>, a) = <<>>
  <2> USE <1>WithoutOnly
  <2> DEFINE s == <<a>>
             at == CHOOSE i \in DOMAIN s : s[i] = a
  <2>1. DOMAIN s = {1} /\ s[1] = a /\ Len(s) = 1 /\ s \in Seq({a})
    OBVIOUS
  <2> HIDE DEF s
  <2>2. at \in DOMAIN s
    BY <2>1, Zenon
  <2>3. at = 1
    BY <2>1, <2>2, Zenon
  <2>4. Without(s, a) = SubSeq(s, 1, at - 1) \o SubSeq(s, at + 1, Len(s))
    BY <2>1, Zenon DEF Without
  <2> HIDE DEF at
  <2>5. SubSeq(s, 1, at - 1) \in Seq({a}) /\ Len(SubSeq(s, 1, at - 1)) = 0
        /\ SubSeq(s, at + 1, Len(s)) \in Seq({a}) /\ Len(SubSeq(s, at + 1, Len(s))) = 0
    BY <2>1, <2>3
  <2>6. SubSeq(s, 1, at - 1) \o SubSeq(s, at + 1, Len(s)) = <<>>
    BY <2>5
  <2> QED  BY <2>4, <2>6, Zenon DEF s
\* They are what was pulled.
<1>AcksAre.
    ASSUME NEW p, p.pc \in DOMAIN AckOn, InboundAt(p)
    PROVE  Acks(p)
  <2> USE <1>AcksAre
  <2> DEFINE one(a) == /\ Head(p.inbound) = a /\ ~(Len(p.inbound) > 1)
  <2>1. ASSUME NEW a, p.inbound = <<a>>
        PROVE  one(a)
    BY <2>1
  <2>2. ASSUME NEW a, NEW b, p.inbound = <<a, b>>
        PROVE  Head(p.inbound) = a /\ Tail(p.inbound) = <<b>> /\ Len(p.inbound) > 1
    <3>1. Head(<<a, b>>) = a /\ Tail(<<a, b>>) = <<b>> /\ Len(<<a, b>>) = 2
      BY EndsOfTwo, Zenon
    <3> QED  BY <2>2, <3>1
  <2>3. CASE p.pc = "ackAlice"
    <3>1. p.inbound = <<Handshake(p.run), Hello(p.run)>> \/ p.inbound = <<Hello(p.run)>>
      BY <2>3, Zenon DEF InboundAt
    <3>2. p.pc # "ackBob" /\ p.pc # "ackMedia"
      BY <2>3, Zenon
    <3> QED  BY <2>1, <2>2, <2>3, <3>1, <3>2, Zenon DEF Acks
  <2>4. CASE p.pc = "ackBob"
    <3>1. p.inbound = <<Reply(p.run)>> /\ p.pc # "ackAlice" /\ p.pc # "ackMedia"
      BY <2>4, Zenon DEF InboundAt
    <3> QED  BY <2>1, <2>4, <3>1, Zenon DEF Acks
  <2>5. CASE p.pc = "ackMedia"
    <3>1. p.inbound = <<Media(p.run)>> /\ p.pc # "ackAlice" /\ p.pc # "ackBob"
      BY <2>5, Zenon DEF InboundAt
    <3> QED  BY <2>1, <2>5, <3>1, Zenon DEF Acks
  <2> QED  BY <2>3, <2>4, <2>5, QueuesAre, Zenon
<1> SUFFICES ASSUME StoreInv, SessionInv, NEW t \in Tab, NEW lost \in BOOLEAN, Ack(t, lost)
             PROVE  SessionInv'
  OBVIOUS
<1> DEFINE p == page[t]
           r == p.run
           who == AckOn[p.pc]
           e == Head(p.inbound)
           more == Len(p.inbound) > 1
           rows == Without(relay[<<who, r>>], e)
           rest == [p EXCEPT !.inbound = Tail(@)]
           l == IF p.pc = "ackAlice" THEN AliceEncrypts(rest, "reply") ELSE rest
<1>1. /\ p.pc \in DOMAIN AckOn
      /\ relay' = [relay EXCEPT ![<<who, r>>] = rows]
      /\ acked' = acked \cup {[queue |-> <<who, r>>, envelope |-> e]}
      /\ IF more /\ ~lost
         THEN page' = [page EXCEPT ![t] = rest] /\ disturbed' = disturbed
         ELSE Replied(t, l, lost)
      /\ blobs' = blobs /\ sent' = sent
      /\ salt' = salt /\ sealed' = sealed /\ runs' = runs /\ raced' = raced
  BY Zenon DEF Ack
<1>2. KeepsStore(t)
  BY <1>1, Zenon DEF KeepsStore, Replied
<1>3. p.pc \in {"ackAlice", "ackBob", "ackMedia"}
  BY <1>1, QueuesAre, Zenon
<1>4. p.pc \in NodeSteps /\ p.pc \in Awaits /\ p.pc # "getSecrets"
      /\ (p.pc = "ackAlice" => who = "alice") /\ (p.pc # "ackAlice" => who = "bob")
  BY <1>3, QueuesAre, ZenonT(60) DEF NodeSteps, Awaits
<1>5. /\ Running(t) /\ IsPage(p) /\ r \in Run /\ p.key \in Run /\ p.pc \notin DOMAIN PutKey
      /\ SessionsAt(p) /\ InboundAt(p) /\ NodeAt(p, relay, blobs)
  BY <1>4, FetchAwait, Zenon
<1>6. /\ p.pc = "ackAlice" => \/ more /\ e = Handshake(r) /\ Tail(p.inbound) = <<Hello(r)>>
                              \/ ~more /\ e = Hello(r)
      /\ p.pc = "ackBob" => ~more /\ e = Reply(r)
      /\ p.pc = "ackMedia" => ~more /\ e = Media(r)
  <2>1. Acks(p)
    <3>1. p.pc \in DOMAIN AckOn /\ InboundAt(p)
      BY <1>1, <1>5, Zenon
    <3> HIDE DEF p
    <3> QED  BY <3>1, <1>AcksAre, Zenon
  <2> QED  BY <2>1, Zenon DEF Acks
<1>7. QueueOnly(who, r, rows)
  <2>1. relay' = [relay EXCEPT ![<<who, r>>] = rows] /\ who \in {"alice", "bob"}
    BY <1>1, <1>4, Zenon
  <2> HIDE DEF who, rows, r, p
  <2> QED  BY <1>5, <2>1, QueueStep, Zenon
<1>8. SentMoves(p, sent, acked, sent', acked')
  <2> DEFINE a == [queue |-> <<who, r>>, envelope |-> e]
  <2>1. a.queue = <<who, r>> /\ a.envelope = e
    BY Zenon
  <2>2. acked' = acked \cup {a} /\ sent' = sent
    BY <1>1, Zenon
  <2> HIDE DEF a, e, more, who, p
  <2>3. \/ /\ p.pc = "ackAlice" /\ a.queue = <<"alice", p.run>>
           /\ a.envelope \in {Handshake(p.run), Hello(p.run)}
        \/ p.pc = "ackBob" /\ a.queue = <<"bob", p.run>> /\ a.envelope = Reply(p.run)
        \/ p.pc = "ackMedia" /\ a.queue = <<"bob", p.run>> /\ a.envelope = Media(p.run)
    BY <1>3, <1>4, <1>6, <2>1, Zenon DEF r
  <2> QED  BY <2>2, <2>3, Zenon DEF SentMoves
<1>9. Effects(t)
  <2>1. blobs' = [i \in Run |-> blobs'[i]]
    BY <1>1, Zenon DEF SessionInv, NodeShape
  <2>2. relay' = [x \in Queue |-> relay'[x]]
        /\ \A i \in Run : i # r => /\ relay'[<<"alice", i>>] = relay[<<"alice", i>>]
                                   /\ relay'[<<"bob", i>>] = relay[<<"bob", i>>]
    <3> HIDE DEF who, rows, r
    <3> QED  BY <1>7, Zenon DEF QueueOnly
  <2> QED  BY <1>1, <1>2, <1>5, <1>8, <2>1, <2>2, NodeEffects, Zenon
<1>10. NodeMoves(p, relay, blobs, relay', blobs')
  <2>1. p.pc = "ackBob" => rows = <<>>
    <3>1. p.pc = "ackBob" => relay[<<"bob", r>>] = <<Reply(r)>>
      BY <1>5, Zenon DEF NodeAt, ReplyWaits
    <3>2. p.pc = "ackBob" => e = Reply(r) /\ who = "bob"
      BY <1>4, <1>6, Zenon
    <3> QED  BY <3>1, <3>2, <1>WithoutOnly, Zenon
  <2>2. blobs' = blobs
    BY <1>1, Zenon
  <2> HIDE DEF who, rows, p
  <2> QED  BY <1>3, <1>4, <1>7, <2>1, <2>2, Zenon DEF NodeMoves, QueueOnly, r
<1>11. IsPage(rest)
  <2> HIDE DEF p
  <2> QED  BY <1>5, Zenon DEF IsPage
<1>12. /\ rest.pc = p.pc /\ rest.run = p.run /\ rest.key = p.key /\ rest.inbound = Tail(p.inbound)
       /\ rest.alice = p.alice /\ rest.bob = p.bob /\ rest.out = p.out /\ rest.shown = p.shown
  <2> HIDE DEF p
  <2> QED  BY <1>5, Zenon DEF IsPage, PageField
<1>13. CASE more /\ ~lost
  <2>1. SetPage(t, rest)
    BY <1>1, <1>13, Zenon DEF SetPage
  <2> HIDE DEF p, rest, e, more
  <2>2. p.pc = "ackAlice" /\ rest.inbound = <<Hello(p.run)>>
    BY <1>3, <1>6, <1>12, <1>13, Zenon DEF r
  <2>3. Then(p.pc, rest.pc)
    BY <1>12, <2>2, Zenon DEF Then
  <2>4. SessionsMove(p, rest) /\ InboundMoves(p, rest) /\ ShownMoves(p, rest)
    BY <1>12, <2>2, Zenon DEF SessionsMove, InboundMoves, ShownMoves
  <2>5. StepMoves(p, rest)
    BY <1>4, <1>10, <1>12, <2>3, <2>4, Zenon DEF StepMoves
  <2>6. rest.run = p.run /\ rest.key \in Run \cup {None}
    BY <1>5, <1>12, Zenon
  <2> QED  BY <1>5, <1>9, <2>1, <2>5, <2>6, ContinueKeeps, Zenon DEF p
<1>14. CASE lost
  <2>1. Throw(t) /\ t \in disturbed'
    BY <1>1, <1>14, Zenon DEF Replied
  <2> QED  BY <1>5, <1>9, <2>1, ThrowKeeps, Zenon
<1>15. CASE ~more /\ ~lost
  <2>1. Replied(t, l, lost) /\ Continue(t, l)
    BY <1>1, <1>15, Zenon DEF Replied
  <2> HIDE DEF p, rest, e, more
  <2>2. CASE p.pc # "ackAlice"
    <3>1. l = rest
      BY <2>2, Zenon
    <3>2. SessionsMove(p, rest) /\ InboundMoves(p, rest) /\ ShownMoves(p, rest)
      BY <1>3, <1>12, <2>2, Zenon DEF SessionsMove, InboundMoves, ShownMoves
    <3>3. LocalsMove(p, rest)
      BY <1>4, <1>11, <1>12, <3>2, Zenon DEF LocalsMove
    <3>4. p.pc \in Awaits \ {"ackAlice"}
      BY <1>4, <2>2, Zenon
    <3> QED  BY <1>9, <1>10, <2>1, <3>1, <3>3, <3>4, ContinueRuns, Zenon DEF p
  <2>3. CASE p.pc = "ackAlice"
    <3>1. l = AliceEncrypts(rest, "reply")
      BY <2>3, Zenon
    <3>2. /\ IsPage(l) /\ l.pc = rest.pc /\ l.run = rest.run /\ l.key = rest.key
          /\ l.inbound = rest.inbound /\ l.bob = rest.bob /\ l.shown = rest.shown
          /\ l.alice = AfterSend(rest.alice) /\ l.out = Sealed(rest.alice, <<"reply", rest.run>>)
      <4> DEFINE k == AliceEncrypts(rest, "reply")
      <4>1. /\ IsPage(k) /\ k.pc = rest.pc /\ k.run = rest.run /\ k.key = rest.key
            /\ k.inbound = rest.inbound /\ k.bob = rest.bob /\ k.shown = rest.shown
            /\ k.alice = AfterSend(rest.alice)
            /\ k.out = Sealed(rest.alice, <<"reply", rest.run>>)
        BY <1>11, AliceEncryptsIs, Zenon
      <4> HIDE DEF k
      <4>2. l = k
        BY <3>1, Zenon DEF k
      <4> HIDE DEF l
      <4> QED  BY <4>1, <4>2, Zenon
    <3> HIDE DEF l
    <3>3. p.alice = Alice(p.run, 0)
      BY <1>5, <2>3, Zenon DEF SessionsAt
    <3>4. l.alice = Alice(p.run, 1) /\ l.out = Reply(p.run)
      BY <1>12, <3>2, <3>3, SessionsSend, Zenon
    <3>5. PICK q : SetPage(t, q) /\ GoesTo(l, q, Program[l.pc])
      BY <2>1, <3>2, ContinueIs, Zenon
    <3>6. q.pc = "aliceSaid"
      <4>1. Program["ackAlice"] = "aliceSaid"
        BY ProgramIs, Zenon DEF ProgramTable
      <4> QED  BY <1>12, <2>3, <3>2, <3>5, <4>1, Zenon DEF GoesTo
    <3>7. /\ q.run = p.run /\ q.key = p.key /\ q.alice = Alice(p.run, 1) /\ q.out = Reply(p.run)
          /\ q.bob = p.bob /\ q.shown = p.shown
      BY <1>12, <3>2, <3>4, <3>5, Zenon DEF GoesTo
    <3>8. Then(p.pc, q.pc) /\ SessionsMove(p, q) /\ InboundMoves(p, q) /\ ShownMoves(p, q)
      BY <2>3, <3>6, <3>7, Zenon DEF Then, SessionsMove, InboundMoves, ShownMoves
    <3>9. StepMoves(p, q)
      BY <1>4, <1>10, <3>7, <3>8, Zenon DEF StepMoves
    <3>10. q.key \in Run \cup {None}
      BY <1>5, <3>7, Zenon
    <3> QED  BY <1>5, <1>9, <3>5, <3>7, <3>9, <3>10, ContinueKeeps, Zenon DEF p
  <2> QED  BY <2>2, <2>3, Zenon
<1> QED  BY <1>13, <1>14, <1>15, Zenon

-----------------------------------------------------------------------------
(***************************************************************************)
(* The theorems                                                            *)
(***************************************************************************)

(***************************************************************************)
(* Whatever the tabs do, and wherever they are closed, a tab that opens    *)
(* the store (KeyStore.open) can read every record in it, unless two tabs  *)
(* made the salt at the same time.                                         *)
(***************************************************************************)
THEOREM StoreStaysReadable ==
  Spec => []StoreReadableUnlessRaced
<1>1. StoreInv => StoreReadableUnlessRaced
  BY Zenon DEF StoreInv, RecordIsOfSalt, StoreReadableUnlessRaced
<1> QED  BY StoreInit, StoreStep, <1>1, PTL DEF Spec

\* No run has begun at first.
LEMMA SessionInit ==
  Init => SessionInv
<1> SUFFICES ASSUME Init PROVE SessionInv
  BY Zenon
<1>1. \A t \in Tab : page[t].pc = "idle" /\ page[t].run = 0 /\ page[t].key = None
  <2>1. \A t \in Tab : page[t] = NoPage
    BY Zenon DEF Init
  <2> QED  BY <2>1 DEF NoPage
<1>2. \A t \in Tab : ~Running(t)
  BY <1>1, Zenon DEF Running, Stopped
<1>3. NodeShape
  <2>1. relay = [x \in Queue |-> relay[x]] /\ blobs = [r \in Run |-> blobs[r]]
    BY Zenon DEF Init
  <2>2. disturbed \subseteq Tab /\ raced \in BOOLEAN
    BY Zenon DEF Init
  <2>3. \A t \in Tab : page[t].pc \in Stopped
    BY <1>1, Zenon DEF Stopped
  <2> QED  BY <2>1, <2>2, <2>3, Zenon DEF NodeShape
<1>4. RunsApart
  <2>1. \A t \in Tab : page[t].run \in 0..runs
    BY <1>1 DEF Init
  <2>2. \A r \in Run : relay[<<"alice", r>>] = <<>> /\ relay[<<"bob", r>>] = <<>>
    <3>1. \A r \in Run : <<"alice", r>> \in Queue /\ <<"bob", r>> \in Queue
      BY Zenon DEF Queue
    <3> QED  BY <3>1, Zenon DEF Init
  <2> QED  BY <1>2, <2>1, <2>2, Zenon DEF RunsApart
<1>5. RunsGoOn /\ RunsReadBack
  BY <1>2, Zenon DEF RunsGoOn, RunsReadBack
<1>6. RecordsAreOfRuns
  BY Zenon DEF Init, RecordsAreOfRuns
<1>7. SentIsSaved /\ AckIsSaved
  BY Zenon DEF Init, SentIsSaved, AckIsSaved
<1>8. KeysAreSalts
  BY <1>1, Zenon DEF Init, KeysAreSalts
<1>9. UndisturbedRunsDeliver
  BY <1>1, Zenon DEF UndisturbedRunsDeliver
<1> QED  BY <1>3, <1>4, <1>5, <1>6, <1>7, <1>8, <1>9, Zenon DEF SessionInv

\* The invariant is inductive, together with that of the store.
LEMMA SessionStep ==
  StoreInv /\ SessionInv /\ [Next]_vars => SessionInv'
<1> SUFFICES ASSUME StoreInv, SessionInv, [Next]_vars PROVE SessionInv'
  BY Zenon
<1>1. CASE UNCHANGED vars
  <2>1. /\ salt' = salt /\ sealed' = sealed /\ relay' = relay /\ blobs' = blobs /\ page' = page
        /\ runs' = runs /\ sent' = sent /\ acked' = acked /\ disturbed' = disturbed
        /\ raced' = raced
    BY <1>1, Zenon DEF vars
  <2>2. \A t \in Tab : Running(t)' <=> Running(t)
    BY <2>1, Zenon DEF Running
  <2>3. NodeShape' /\ RunsApart' /\ KeysAreSalts'
    BY <2>1, <2>2, Zenon DEF SessionInv, NodeShape, RunsApart, KeysAreSalts
  <2>4. RunsGoOn' /\ RunsReadBack'
    BY <2>1, <2>2, Zenon DEF SessionInv, RunsGoOn, RunsReadBack
  <2>5. RecordsAreOfRuns' /\ SentIsSaved' /\ AckIsSaved'
    <3>1. runs' \in Nat /\ runs <= runs'
      BY <2>1, WebClientAssumption DEF StoreInv, StoreShape
    <3> QED  BY <2>1, <3>1, MoreRuns, Zenon
  <2>6. UndisturbedRunsDeliver'
    BY <2>1, ZenonT(60) DEF SessionInv, UndisturbedRunsDeliver
  <2> QED  BY <2>3, <2>4, <2>5, <2>6, Zenon DEF SessionInv
<1>2. CASE Next
  <2>1. PICK t \in Tab : TabStep(t)
    BY <1>2, Zenon DEF Next
  <2> QED
    BY <2>1, StartRuns, OpenReadRuns, OpenWriteRuns, PutRuns, GetSecretsRuns,
       GetBundleRuns, GetBobRuns, HealthRuns, VerifyPinRuns, PushRuns, PullRuns,
       AckRuns, PutBlobRuns, NoBlobRoleRuns, GetBlobRuns, FetchFailsRuns,
       ReloadRuns, ZenonT(30)
    DEF TabStep
<1> QED  BY <1>1, <1>2, Zenon

\* Both invariants always hold.
LEMMA SessionsHold ==
  Spec => [](StoreInv /\ SessionInv)
BY StoreInit, StoreStep, SessionInit, SessionStep, PTL DEF Spec

\* What is under a session key.
LEMMA RecordIs ==
  ASSUME StoreInv, SessionInv, NEW k \in StoreKey, sealed[k] # None
  PROVE  \E r \in Run : /\ sealed[k].salt \in Run /\ sealed[k].run = r
                        /\ sealed[k].value \in KeyValues(k, r)
<1>1. PICK r \in 1..runs : sealed[k] \in RecordOf(k, r)
  BY Zenon DEF SessionInv, RecordsAreOfRuns
<1>2. r \in Run
  BY WebClientAssumption DEF StoreInv, StoreShape, Run
<1>3. sealed[k].salt \in Run /\ sealed[k].run = r /\ sealed[k].value \in KeyValues(k, r)
  BY <1>1, Zenon DEF RecordOf
<1> QED  BY <1>2, <1>3, Zenon

\* Both of them.
LEMMA SessionRecordIs ==
  ASSUME StoreInv, SessionInv
  PROVE  /\ AliceRecord # None => \E r \in Run : /\ AliceRecord.run = r
                                                 /\ AliceRecord.value \in AliceSessions(r)
         /\ BobRecord # None => \E r \in Run : /\ BobRecord.run = r
                                               /\ BobRecord.value \in BobSessions(r)
<1>1. "alice/session" \in StoreKey /\ "bob/session" \in StoreKey
  BY PutKeyIs, Zenon DEF PutKeyTable
<1>2. \A r : /\ KeyValues("alice/session", r) = AliceSessions(r)
             /\ KeyValues("bob/session", r) = BobSessions(r)
  BY Zenon DEF KeyValues
<1> QED  BY <1>1, <1>2, RecordIs, Zenon DEF AliceRecord, BobRecord

(***************************************************************************)
(* Every variable holds values of its kind, in every tab and whatever the  *)
(* others do: past KeyStore.open a run has a key, and what is under a      *)
(* session key is a session that has skipped nothing.                      *)
(***************************************************************************)
THEOREM WebClientTypeOK ==
  Spec => []TypeOK
<1>1. ASSUME StoreInv, SessionInv PROVE TypeOK
  <2>1. salt \in Run \cup {None} /\ disturbed \subseteq Tab /\ raced \in BOOLEAN
    BY <1>1, Zenon DEF SessionInv, KeysAreSalts, NodeShape
  <2>2. runs \in 0..MaxRuns
    BY <1>1, Zenon DEF StoreInv, StoreShape
  <2>3. \A k \in StoreKey : sealed[k] # None => sealed[k].salt \in Run /\ sealed[k].run \in Run
    BY <1>1, RecordIs, Zenon
  <2>4. \A k \in {"alice/session", "bob/session"} :
          sealed[k] # None => sealed[k].value.ns \in Nat /\ sealed[k].value.skipped = {}
    <3>1. ASSUME NEW r, NEW s \in AliceSessions(r) \cup BobSessions(r)
          PROVE  s.ns \in Nat /\ s.skipped = {}
      BY <3>1 DEF AliceSessions, BobSessions, Alice, Bob0, Bob1, BobHeard
    <3> QED  BY <1>1, <3>1, SessionRecordIs, Zenon DEF AliceRecord, BobRecord
  <2>5. \A t \in Tab :
          /\ page[t].pc \in DOMAIN Program \cup Stopped \cup {"open", "newSalt", "health"}
          /\ page[t].run \in 0..runs
          /\ Running(t) /\ page[t].pc \notin {"open", "newSalt"} => page[t].key \in Run
    <3>1. \A t \in Tab : /\ page[t].pc \in DOMAIN Program \cup Stopped \cup Opening \cup {"health"}
                         /\ page[t].run \in 0..runs
      BY <1>1, Zenon DEF SessionInv, NodeShape, RunsApart
    <3>2. \A t \in Tab : Running(t) /\ page[t].pc \notin Opening => page[t].key \in Run
      BY <1>1, RunningPage, Zenon
    <3> QED  BY <3>1, <3>2, Zenon DEF Opening
  <2> QED  BY <2>1, <2>2, <2>3, <2>4, <2>5, Zenon DEF TypeOK
<1> QED  BY <1>1, SessionsHold, PTL

(***************************************************************************)
(* A run of runDemo fails only if something disturbed it: a request that   *)
(* failed, an envelope that expired, another node, or a record that        *)
(* another tab put in place of its own.  A run that is done has shown what *)
(* the other side sent, in order.                                          *)
(***************************************************************************)
THEOREM UndisturbedRunsAlwaysDeliver ==
  Spec => []UndisturbedRunsDeliver
<1>1. SessionInv => UndisturbedRunsDeliver
  BY Zenon DEF SessionInv
<1> QED  BY <1>1, SessionsHold, PTL

(***************************************************************************)
(* Whenever a tab dies, no session in the store can come to a key that has *)
(* sealed a message: runDemo puts the session in the store after it        *)
(* encrypts and before it pushes, and no session of another run derives    *)
(* that key.                                                               *)
(***************************************************************************)
THEOREM SessionsAreSavedBeforeSent ==
  Spec => []SavedBeforeSent
<1>1. ASSUME StoreInv, SessionInv PROVE SavedBeforeSent
  <2> DEFINE alice == AliceRecord
             bob == BobRecord
  <2>1. ASSUME NEW m \in sent, NEW q, alice.run = q, alice # None, alice.value \in AliceSessions(q)
        PROVE  ~Derives(alice.value.cks, m.key)
    <3>1. \A r : /\ Alice(r, 0) \notin {Alice(r, 1), Alice(r, 2)}
                 /\ Alice(r, 1) # Alice(r, 2)
      <4>1. \A r, n : Alice(r, n).ns = n
        BY Zenon DEF Alice
      <4> QED  BY <4>1
    <3>2. PICK r \in 1..runs :
            \/ m = Hello(r)
            \/ m = Reply(r) /\ Holds(alice, r, {Alice(r, 1), Alice(r, 2)})
            \/ m = Media(r) /\ Holds(alice, r, {Alice(r, 2)})
      BY <1>1, Zenon DEF SessionInv, SentIsSaved
    <3> HIDE DEF alice
    <3>3. CASE m = Hello(r)
      BY <2>1, <3>3, SessionsArePast, Zenon
    <3>4. CASE m = Reply(r) /\ Holds(alice, r, {Alice(r, 1), Alice(r, 2)})
      <4>1. Derives(alice.value.cks, m.key) => alice.value = Alice(q, 0) /\ q = r
        BY <2>1, <3>4, SessionsArePast, Zenon
      <4> QED  BY <2>1, <3>1, <3>4, <4>1, Zenon DEF Holds
    <3>5. CASE m = Media(r) /\ Holds(alice, r, {Alice(r, 2)})
      <4>1. Derives(alice.value.cks, m.key) => alice.value \in {Alice(q, 0), Alice(q, 1)} /\ q = r
        BY <2>1, <3>5, SessionsArePast, Zenon
      <4> QED  BY <2>1, <3>1, <3>5, <4>1, Zenon DEF Holds
    <3> QED  BY <3>2, <3>3, <3>4, <3>5, Zenon
  <2>2. ASSUME NEW m \in sent, NEW q, bob.run = q, bob # None, bob.value \in BobSessions(q)
        PROVE  ~Derives(bob.value.cks, m.key)
    <3>1. PICK r \in 1..runs :
            \/ m = Hello(r) /\ Holds(bob, r, BobSessions(r) \ {Bob0(r)})
            \/ m = Reply(r)
            \/ m = Media(r)
      BY <1>1, Zenon DEF SessionInv, SentIsSaved
    <3> HIDE DEF bob
    <3>2. CASE m = Hello(r) /\ Holds(bob, r, BobSessions(r) \ {Bob0(r)})
      <4>1. Derives(bob.value.cks, m.key) => bob.value = Bob0(q) /\ q = r
        BY <2>2, <3>2, SessionsArePast, Zenon
      <4> QED  BY <2>2, <3>2, <4>1, Zenon DEF Holds
    <3>3. CASE m = Reply(r) \/ m = Media(r)
      BY <2>2, <3>3, SessionsArePast, Zenon
    <3> QED  BY <3>1, <3>2, <3>3, Zenon
  <2> QED  BY <1>1, <2>1, <2>2, SessionRecordIs, Zenon DEF SavedBeforeSent, AliceRecord, BobRecord
<1> QED  BY <1>1, SessionsHold, PTL

(***************************************************************************)
(* Whenever a tab dies, what it acknowledged is in a session in the store: *)
(* runDemo puts the session after it decrypts and before it acks, so the   *)
(* stored session, if it is of that run, does not open the message again.  *)
(***************************************************************************)
THEOREM AcknowledgedIsSaved ==
  Spec => []AckedIsSaved
<1>1. ASSUME StoreInv, SessionInv PROVE AckedIsSaved
  <2> SUFFICES ASSUME NEW a \in acked
               PROVE  LET rec == sealed[IF a.queue[1] = "alice" THEN "alice/session"
                                        ELSE "bob/session"]
                      IN  /\ rec # None
                          /\ rec.run = a.queue[2] /\ "dh" \in DOMAIN a.envelope
                               => ~DecryptMessage(rec.value, a.envelope, TRUE).ok
    BY Zenon DEF AckedIsSaved
  <2> DEFINE alice == AliceRecord
             bob == BobRecord
  <2>1. PICK r \in 1..runs :
          \/ a.queue = <<"alice", r>> /\ a.envelope \in {Handshake(r), Hello(r)} /\ alice # None
          \/ /\ a.queue = <<"bob", r>> /\ bob # None
             /\ \/ a.envelope = Reply(r) /\ Holds(bob, r, {BobHeard(r, 1), BobHeard(r, 2)})
                \/ a.envelope = Media(r) /\ Holds(bob, r, {BobHeard(r, 2)})
    BY <1>1, Zenon DEF SessionInv, AckIsSaved
  <2>2. CASE a.queue = <<"alice", r>> /\ a.envelope \in {Handshake(r), Hello(r)} /\ alice # None
    <3>1. a.queue[1] = "alice" /\ a.queue[2] = r
      BY <2>2
    <3>2. "dh" \in DOMAIN a.envelope => a.envelope = Hello(r)
      BY <2>2, MessagesApart, Zenon
    <3>3. alice.run = r => alice.value \in AliceSessions(r)
      BY <1>1, <2>2, SessionRecordIs, Zenon
    <3> QED  BY <2>2, <3>1, <3>2, <3>3, SessionsRefuse, Zenon DEF AliceRecord
  <2>3. CASE /\ a.queue = <<"bob", r>> /\ bob # None
             /\ \/ a.envelope = Reply(r) /\ Holds(bob, r, {BobHeard(r, 1), BobHeard(r, 2)})
                \/ a.envelope = Media(r) /\ Holds(bob, r, {BobHeard(r, 2)})
    <3>1. a.queue[1] = "bob" /\ a.queue[1] # "alice" /\ a.queue[2] = r
      BY <2>3
    <3>2. bob.run = r => ~DecryptMessage(bob.value, a.envelope, TRUE).ok
      BY <2>3, SessionsRefuse, Zenon DEF Holds
    <3> QED  BY <2>3, <3>1, <3>2, Zenon DEF BobRecord
  <2> QED  BY <2>1, <2>2, <2>3, Zenon
<1> QED  BY <1>1, SessionsHold, PTL
=============================================================================
