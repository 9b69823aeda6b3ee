--------------------------- MODULE WebClientLemmas ---------------------------
(***************************************************************************)
(* Lemmas for the proofs about WebClient: the key store that the tabs      *)
(* share, what the operations of the code do with the sessions of a run,   *)
(* and what a step of one tab leaves as it is.                             *)
(***************************************************************************)
EXTENDS WebClientSessions, TLAPS

-----------------------------------------------------------------------------
(***************************************************************************)
(* What a step of a run changes, from one await to the next                *)
(***************************************************************************)

\* The awaits of a run, each with those that may come after it.
Then(x, y) ==
  \/ (x = "open" /\ y \in {"newSalt", "aliceIdentity"}) \/ (x = "newSalt" /\ y = "aliceIdentity")
  \/ (x = "aliceIdentity" /\ y = "aliceSecrets") \/ (x = "aliceSecrets" /\ y = "aliceBundle")
  \/ (x = "aliceBundle" /\ y = "aliceQueue") \/ (x = "aliceQueue" /\ y = "health")
  \/ (x = "health" /\ y \in {"verifyPin", "bobIdentity"})
  \/ (x = "verifyPin" /\ y = "bobIdentity") \/ (x = "bobIdentity" /\ y = "bobQueue")
  \/ (x = "bobQueue" /\ y = "bobInitiated") \/ (x = "bobInitiated" /\ y = "bobSaid")
  \/ (x = "bobSaid" /\ y = "pushHandshake") \/ (x = "pushHandshake" /\ y = "pushHello")
  \/ (x = "pushHello" /\ y = "pullAlice") \/ (x = "pullAlice" /\ y = "getSecrets")
  \/ (x = "getSecrets" /\ y = "getBundle") \/ (x = "getBundle" /\ y = "aliceHeard")
  \/ (x = "aliceHeard" /\ y = "ackAlice") \/ (x = "ackAlice" /\ y \in {"ackAlice", "aliceSaid"})
  \/ (x = "aliceSaid" /\ y = "pushReply") \/ (x = "pushReply" /\ y = "pullBob")
  \/ (x = "pullBob" /\ y = "getBob") \/ (x = "getBob" /\ y = "bobHeard")
  \/ (x = "bobHeard" /\ y = "ackBob") \/ (x = "ackBob" /\ y = "putBlob")
  \/ (x = "putBlob" /\ y = "aliceMedia") \/ (x = "aliceMedia" /\ y = "pushMedia")
  \/ (x = "pushMedia" /\ y = "pullMedia") \/ (x = "pullMedia" /\ y = "bobMedia")
  \/ (x = "bobMedia" /\ y = "ackMedia") \/ (x = "ackMedia" /\ y = "getBlob")

\* The sessions and the message that a step leaves in memory.
SessionsMove(p, q) ==
  /\ p.pc = "bobQueue" => q.bob = Bob0(p.run)
  /\ p.pc = "bobInitiated" => q.bob = Bob1(p.run) /\ q.out = Hello(p.run)
  /\ p.pc = "getBob" => q.bob = BobHeard(p.run, 1)
  /\ p.pc = "pullMedia" => q.bob = BobHeard(p.run, 2)
  /\ p.pc \notin {"bobQueue", "bobInitiated", "getBob", "pullMedia"} => q.bob = p.bob
  /\ p.pc = "getBundle" => q.alice = Alice(p.run, 0)
  /\ p.pc = "ackAlice" /\ q.pc # "ackAlice" => q.alice = Alice(p.run, 1) /\ q.out = Reply(p.run)
  /\ p.pc = "putBlob" => q.alice = Alice(p.run, 2) /\ q.out = Media(p.run)
  /\ p.pc = "ackAlice" /\ q.pc = "ackAlice" => q.alice = p.alice
  /\ p.pc \notin {"getBundle", "ackAlice", "putBlob"} => q.alice = p.alice
  /\ p.pc \in {"bobSaid", "pushHandshake", "aliceSaid", "aliceMedia"} => q.out = p.out

\* What it has pulled, and read back.
InboundMoves(p, q) ==
  /\ p.pc = "pullAlice" => q.inbound = <<Handshake(p.run), Hello(p.run)>>
  /\ p.pc = "pullBob" => q.inbound = <<Reply(p.run)>>
  /\ p.pc = "pullMedia" => q.inbound = <<Media(p.run)>>
  /\ p.pc = "ackAlice" /\ q.pc = "ackAlice" => q.inbound = <<Hello(p.run)>>
  /\ p.pc = "getSecrets" => \E r \in Run : q.secrets = Secrets(r)
  /\ p.pc \notin {"pullAlice", "pullBob", "pullMedia", "ackAlice", "ackBob", "ackMedia"} =>
       q.inbound = p.inbound

\* What it has shown.
ShownMoves(p, q) ==
  /\ p.pc = "getBundle" => q.shown = <<<<"hello", p.run>>>>
  /\ p.pc = "getBob" => q.shown = <<<<"hello", p.run>>, <<"reply", p.run>>>>
  /\ p.pc = "pullMedia" =>
       q.shown = <<<<"hello", p.run>>, <<"reply", p.run>>, <<"media", p.run>>>>
  /\ p.pc \notin {"getBundle", "getBob", "pullMedia"} => q.shown = p.shown

\* What it leaves at the node.
NodeMoves(p, Q, O, N, P) ==
  /\ p.pc = "pushHandshake" => N[<<"alice", p.run>>] = <<Handshake(p.run)>>
  /\ p.pc = "pushHello" => N[<<"alice", p.run>>] = <<Handshake(p.run), Hello(p.run)>>
  /\ p.pc = "pushReply" => N[<<"bob", p.run>>] = <<Reply(p.run)>>
  /\ p.pc = "pushMedia" => N[<<"bob", p.run>>] = <<Media(p.run)>>
  /\ p.pc = "ackBob" => N[<<"bob", p.run>>] = <<>>
  /\ p.pc = "putBlob" => P[p.run] = SealedMedia(p.run)
  /\ p.pc \notin {"pushHandshake", "pushHello", "pullAlice", "ackAlice"} =>
       N[<<"alice", p.run>>] = Q[<<"alice", p.run>>]
  /\ p.pc \notin {"pushReply", "pushMedia", "pullMedia", "ackBob", "ackMedia"} =>
       N[<<"bob", p.run>>] = Q[<<"bob", p.run>>]
  /\ p.pc # "putBlob" => P[p.run] = O[p.run]

\* The awaits that put a session.
BobPuts == {"bobInitiated", "bobSaid", "bobHeard", "bobMedia"}
AlicePuts == {"aliceHeard", "aliceSaid", "aliceMedia"}

\* What it leaves in the store.
StoreMoves(p, S, T) ==
  /\ p.pc \in BobPuts => T["bob/session"] # None /\ T["bob/session"] = Rec(p, p.bob)
  /\ p.pc \notin BobPuts => T["bob/session"] = S["bob/session"]
  /\ p.pc \in AlicePuts => T["alice/session"] # None /\ T["alice/session"] = Rec(p, p.alice)
  /\ p.pc \notin AlicePuts => T["alice/session"] = S["alice/session"]
  /\ p.pc = "aliceSecrets" => T["alice/secrets"] = Rec(p, Secrets(p.run))
  /\ p.pc # "aliceSecrets" => T["alice/secrets"] = S["alice/secrets"]
  /\ p.pc = "aliceBundle" => T["alice/bundle"] = Rec(p, Bundle(p.run))
  /\ p.pc # "aliceBundle" => T["alice/bundle"] = S["alice/bundle"]

\* What it has sent and acknowledged.
SentMoves(p, M, A, N, B) ==
  /\ \A m \in N : \/ m \in M
                  \/ p.pc = "pushHello" /\ m = Hello(p.run)
                  \/ p.pc = "pushReply" /\ m = Reply(p.run)
                  \/ p.pc = "pushMedia" /\ m = Media(p.run)
  /\ \A a \in B : \/ a \in A
                  \/ /\ p.pc = "ackAlice" /\ a.queue = <<"alice", p.run>>
                     /\ a.envelope \in {Handshake(p.run), Hello(p.run)}
                  \/ p.pc = "ackBob" /\ a.queue = <<"bob", p.run>> /\ a.envelope = Reply(p.run)
                  \/ p.pc = "ackMedia" /\ a.queue = <<"bob", p.run>> /\ a.envelope = Media(p.run)

\* The messages of the runs are all different, and a handshake is none of them.
LEMMA MessagesApart ==
  ASSUME NEW r, NEW q
  PROVE  /\ Hello(r) # Reply(q) /\ Hello(r) # Media(q) /\ Reply(r) # Media(q)
         /\ Hello(r) = Hello(q) \/ Reply(r) = Reply(q) \/ Media(r) = Media(q) => r = q
         /\ "dh" \notin DOMAIN Handshake(r) /\ "dh" \in DOMAIN Hello(r)
<1>1. /\ Hello(r).body = <<"hello", r>> /\ Hello(q).body = <<"hello", q>>
      /\ Reply(r).body = <<"reply", r>> /\ Reply(q).body = <<"reply", q>>
      /\ Media(r).body = <<"media", r>> /\ Media(q).body = <<"media", q>>
  BY Zenon DEF Hello, Reply, Media
<1>2. /\ <<"hello", r>> # <<"reply", q>> /\ <<"hello", r>> # <<"media", q>>
      /\ <<"reply", r>> # <<"media", q>>
      /\ <<"hello", r>> = <<"hello", q>> => r = q
      /\ <<"reply", r>> = <<"reply", q>> => r = q
      /\ <<"media", r>> = <<"media", q>> => r = q
  BY Zenon
<1>3. "dh" \notin DOMAIN Handshake(r)
  BY Zenon DEF Handshake, Initiated, Initiate
<1>4. "dh" \in DOMAIN Hello(r)
  BY Zenon DEF Hello
<1> QED  BY <1>1, <1>2, <1>3, <1>4, Zenon

\* The sessions after a step are those of the next await,
LEMMA ThenSessions ==
  ASSUME NEW p, NEW q, Then(p.pc, q.pc), q.run = p.run, SessionsAt(p), SessionsMove(p, q)
  PROVE  SessionsAt(q)
BY SMTT(30) DEF Then, SessionsAt, SessionsMove, BobHas1, AliceHas1

\* so is what was pulled,
LEMMA ThenInbound ==
  ASSUME NEW p, NEW q, Then(p.pc, q.pc), q.run = p.run, InboundAt(p), InboundMoves(p, q)
  PROVE  InboundAt(q)
BY SMTT(30) DEF Then, InboundAt, InboundMoves

\* and what was shown,
LEMMA ThenShown ==
  ASSUME NEW p, NEW q, Then(p.pc, q.pc), q.run = p.run, ShownAt(p), ShownMoves(p, q)
  PROVE  ShownAt(q)
BY SMTT(30) DEF Then, ShownAt, ShownMoves, Opening, BeforeSecrets, BeforeBundle,
   BeforeBob,
  BeforeHello, BeforeShake, BeforeHeard, BobHas1

\* and what is at the node,
LEMMA ThenNode ==
  ASSUME NEW p, NEW q, NEW Q, NEW O, NEW N, NEW P,
         Then(p.pc, q.pc), q.run = p.run, NodeAt(p, Q, O), NodeMoves(p, Q, O, N, P)
  PROVE  NodeAt(q, N, P)
BY SMTT(30) DEF Then, NodeAt, NodeMoves, Opening, BeforeSecrets, BeforeBundle,
   BeforeBob,
  BeforeHello, BeforeShake, BeforeHeard, BeforeReply, BeforeMedia, ReplyWaits, Stored

\* and what the store holds of the run,
LEMMA ThenStored ==
  ASSUME NEW p, NEW q, NEW S, NEW T, Then(p.pc, q.pc), q.run = p.run, SessionsAt(p),
         StoredAt(p, S["alice/session"], S["bob/session"]), StoreMoves(p, S, T)
  PROVE  StoredAt(q, T["alice/session"], T["bob/session"])
<1>1. Rec(p, p.bob).value = p.bob /\ Rec(p, p.alice).value = p.alice
  BY Zenon DEF Rec
<1> QED
  BY <1>1, SMTT(30) DEF Then, SessionsAt, StoredAt, StoreMoves, Holds, BobPuts, AlicePuts,
    BobWaits, BobHas1, AliceHas1

\* and what an undisturbed run will read back,
LEMMA ThenReadsBack ==
  ASSUME NEW p, NEW q, NEW S, NEW T, Then(p.pc, q.pc), q.run = p.run,
         q.key = p.key \/ p.pc \in Opening, SessionsAt(p),
         p.pc = "getSecrets" => q.secrets = S["alice/secrets"].value,
         ReadsBack(p, S), StoreMoves(p, S, T)
  PROVE  ReadsBack(q, T)
<1>1. p.pc \notin Opening => \A v : Rec(p, v) = Rec(q, v)
  BY Zenon DEF Rec
<1>2. Rec(p, Secrets(p.run)).value = Secrets(p.run)
  BY Zenon DEF Rec
<1> QED
  BY <1>1, <1>2, SMTT(30) DEF Then, SessionsAt, ReadsBack, StoreMoves, BobPuts, Opening, BobWaits,
    BeforeSecrets, BeforeBundle, BeforeBob, BeforeHello, BeforeShake, BeforeHeard

\* and what has not been sent or acknowledged.
LEMMA ThenSent ==
  ASSUME NEW p, NEW q, NEW M, NEW A, NEW N, NEW B,
         Then(p.pc, q.pc), q.run = p.run, SentAt(p, M, A), SentMoves(p, M, A, N, B)
  PROVE  SentAt(q, N, B)
<1>1. /\ Hello(p.run) # Reply(p.run) /\ Hello(p.run) # Media(p.run) /\ Reply(p.run) # Media(p.run)
      /\ <<"alice", p.run>> # <<"bob", p.run>>
  BY MessagesApart, Zenon
<1> QED
  BY <1>1, SMTT(30) DEF Then, SentAt, SentMoves, Opening, BeforeSecrets, BeforeBundle, BeforeBob,
    BeforeHello, BeforeShake, BeforeHeard, BeforeReply, BeforeMedia, ReplyWaits

\* What a run has in memory at an await it keeps until the next.
LEMMA SameSessionsMove ==
  ASSUME NEW p, NEW l, NEW q, p.pc # "ackAlice", SessionsMove(p, l),
         q.bob = l.bob, q.alice = l.alice, q.out = l.out
  PROVE  SessionsMove(p, q)
BY SMTT(30) DEF SessionsMove

\* A put leaves Alice's session as it is, and begins Bob's.
LEMMA PutSessionsMove ==
  ASSUME NEW p, NEW l, p.pc \notin {"getBundle", "ackAlice", "putBlob", "getBob", "pullMedia"},
         l.alice = p.alice,
         l.bob = IF p.pc = "bobQueue" THEN Bob0(p.run)
                 ELSE IF p.pc = "bobInitiated" THEN Bob1(p.run) ELSE p.bob,
         l.out = IF p.pc = "bobInitiated" THEN Hello(p.run) ELSE p.out
  PROVE  SessionsMove(p, l)
BY SMTT(30) DEF SessionsMove

-----------------------------------------------------------------------------
(***************************************************************************)
(* The key store that the tabs share                                       *)
(***************************************************************************)

\* A page has the fields of NoPage, and no others.
PageField ==
  {"pc", "run", "key", "pin", "inbound", "secrets", "alice", "bob", "out", "shown"}
IsPage(p) == p = [f \in PageField |-> p[f]]

\* The records and the tabs there are.
StoreShape ==
  /\ sealed = [k \in StoreKey |-> sealed[k]]
  /\ page = [t \in Tab |-> page[t]]
  /\ runs \in 0..MaxRuns

\* A running tab has a run, and a key once it has opened the store.
OpenedHasKey ==
  \A t \in Tab : /\ IsPage(page[t])
                 /\ Running(t) => page[t].run \in Run
                 /\ Running(t) /\ page[t].pc \notin Opening => page[t].key # None

\* Unless two tabs raced, a key is of the salt of the store.
KeyIsOfSalt ==
  ~raced => \A t \in Tab : /\ page[t].key # None => page[t].key = salt
                           /\ page[t].pc = "newSalt" => salt = None

\* Every record there is was put under the salt of the store.
RecordIsOfSalt ==
  ~raced => \A k \in StoreKey : sealed[k] # None => salt # None /\ sealed[k].salt = salt

\* The inductive invariant of the store.
StoreInv == StoreShape /\ OpenedHasKey /\ KeyIsOfSalt /\ RecordIsOfSalt

\* Where a run may stand after a step of the program.
Later == {"aliceSecrets", "aliceBundle", "aliceQueue", "health", "verifyPin",
          "bobIdentity", "bobQueue", "bobInitiated", "bobSaid", "pushHandshake",
          "pushHello", "pullAlice", "getSecrets", "getBundle", "aliceHeard", "ackAlice",
          "aliceSaid", "pushReply", "pullBob", "getBob", "bobHeard", "ackBob", "putBlob",
          "aliceMedia", "pushMedia", "pullMedia", "bobMedia", "ackMedia", "getBlob", "done"}

\* What Join joins.
LEMMA JoinedProgram ==
  ASSUME NEW f, NEW g, NEW S,
         \A x \in DOMAIN f : f[x] \in S,
         \A x \in DOMAIN g : g[x] \in S
  PROVE  /\ DOMAIN Join(f, g) = DOMAIN f \cup DOMAIN g
         /\ \A x \in DOMAIN Join(f, g) : Join(f, g)[x] \in S
BY Zenon DEF Join

\* None of these awaits is of a run that stands still or is opening the store.
LEMMA AwaitsAreLater ==
  \A x \in DOMAIN PutKey \cup FetchSteps
            \cup {"getSecrets", "getBundle", "getBob", "health", "verifyPin"} :
    x \notin Stopped \cup Opening
<1>1. DOMAIN PutKey =
         {"aliceIdentity", "aliceSecrets", "aliceBundle", "aliceQueue", "bobIdentity",
          "bobQueue", "bobInitiated", "bobSaid", "aliceHeard", "aliceSaid", "bobHeard",
          "aliceMedia", "bobMedia"}
  BY Zenon DEF PutKey
<1>2. /\ DOMAIN PushTo = {"pushHandshake", "pushHello", "pushReply", "pushMedia"}
      /\ DOMAIN PullFrom = {"pullAlice", "pullBob", "pullMedia"}
      /\ DOMAIN AckOn = {"ackAlice", "ackBob", "ackMedia"}
  BY Zenon DEF PushTo, PullFrom, AckOn
<1> QED  BY <1>1, <1>2, Zenon DEF FetchSteps, Stopped, Opening

\* The locals of t's run, changed or not.
Locals(t, p) ==
  IsPage(p) /\ p.pc = page[t].pc /\ p.run = page[t].run /\ p.key = page[t].key

\* t's run has gone on, or ended.
Moves(t) ==
  \E p : /\ page' = [page EXCEPT ![t] = p]
         /\ IsPage(p) /\ p.run = page[t].run /\ p.key = page[t].key
         /\ p.pc \in Later \cup {"failed"}

\* The page of a tab is replaced by q.
SetPage(t, q) == page' = [page EXCEPT ![t] = q]

\* What that leaves alone.
LEMMA SetPageIs ==
  ASSUME StoreShape, NEW t \in Tab, NEW q, SetPage(t, q)
  PROVE  /\ page'[t] = q
         /\ \A u \in Tab : u # t => page'[u] = page[u]
         /\ page' = [u \in Tab |-> page'[u]]
BY Zenon DEF StoreShape, SetPage

\* A tab that is past opening the store.
Opened(t) == Running(t) /\ page[t].pc \notin Opening

\* The page of no run.
LEMMA NoPageIs ==
  IsPage(NoPage) /\ NoPage.pc = "idle" /\ NoPage.key = None
<1>1. IsPage(NoPage)
  BY Zenon DEF IsPage, NoPage, PageField
<1> QED  BY <1>1, Zenon DEF NoPage

\* The store is empty at first.
LEMMA StoreInit ==
  Init => StoreInv
<1> SUFFICES ASSUME Init PROVE StoreInv
  BY Zenon
<1>1. \A t \in Tab : page[t] = NoPage
  BY Zenon DEF Init
<1>2. \A k \in StoreKey : sealed[k] = None
  BY Zenon DEF Init
<1>3. /\ sealed = [k \in StoreKey |-> sealed[k]]
      /\ page = [t \in Tab |-> page[t]]
  BY Zenon DEF Init
<1>4. runs \in 0..MaxRuns
  BY WebClientAssumption DEF Init
<1>5. StoreShape /\ RecordIsOfSalt
  BY <1>2, <1>3, <1>4, Zenon DEF StoreShape, RecordIsOfSalt
<1>6. OpenedHasKey /\ KeyIsOfSalt
  BY <1>1, NoPageIs, Zenon DEF OpenedHasKey, KeyIsOfSalt, Running, Stopped
<1> QED  BY <1>5, <1>6, Zenon DEF StoreInv

\* A tab at one of these awaits has opened the store.
LEMMA AwaitIsOpened ==
  ASSUME NEW t \in Tab,
         page[t].pc \in DOMAIN PutKey \cup FetchSteps
                         \cup {"getSecrets", "getBundle", "getBob", "health", "verifyPin"}
  PROVE  Opened(t)
BY AwaitsAreLater, Zenon DEF Opened, Running

\* The invariant is inductive.
LEMMA StoreStep ==
  StoreInv /\ [Next]_vars => StoreInv'
\* Every await but the last has one after it, and none leads back to opening the store.
<1>ProgramGoesOn.
    /\ DOMAIN PutKey \cup FetchSteps \cup {"getSecrets", "getBundle", "getBob", "verifyPin"}
         \subseteq DOMAIN Program
    /\ \A x \in DOMAIN Program : Program[x] \in Later
  <2>1. /\ DOMAIN AliceInvites = {"aliceIdentity", "aliceSecrets", "aliceBundle", "aliceQueue",
                                  "verifyPin"}
        /\ \A x \in DOMAIN AliceInvites : AliceInvites[x] \in Later
    BY DEF AliceInvites, Later
  <2>2. /\ DOMAIN BobSays = {"bobIdentity", "bobQueue", "bobInitiated", "bobSaid",
                             "pushHandshake", "pushHello"}
        /\ \A x \in DOMAIN BobSays : BobSays[x] \in Later
    BY DEF BobSays, Later
  <2>3. /\ DOMAIN AliceHears = {"pullAlice", "getSecrets", "getBundle", "aliceHeard", "ackAlice",
                                "aliceSaid", "pushReply"}
        /\ \A x \in DOMAIN AliceHears : AliceHears[x] \in Later
    BY DEF AliceHears, Later
  <2>4. /\ DOMAIN BobHears = {"pullBob", "getBob", "bobHeard", "ackBob"}
        /\ \A x \in DOMAIN BobHears : BobHears[x] \in Later
    BY DEF BobHears, Later
  <2>5. /\ DOMAIN MediaPath = {"putBlob", "aliceMedia", "pushMedia", "pullMedia", "bobMedia",
                               "ackMedia", "getBlob"}
        /\ \A x \in DOMAIN MediaPath : MediaPath[x] \in Later
    BY DEF MediaPath, Later
  <2> DEFINE a == Join(AliceInvites, BobSays)
             b == Join(BobHears, MediaPath)
             c == Join(AliceHears, b)
  <2> HIDE DEF a, b, c
  <2>6. DOMAIN a = DOMAIN AliceInvites \cup DOMAIN BobSays /\ \A x \in DOMAIN a : a[x] \in Later
    BY <2>1, <2>2, JoinedProgram, Zenon DEF a
  <2>7. DOMAIN b = DOMAIN BobHears \cup DOMAIN MediaPath /\ \A x \in DOMAIN b : b[x] \in Later
    BY <2>4, <2>5, JoinedProgram, Zenon DEF b
  <2>8. DOMAIN c = DOMAIN AliceHears \cup DOMAIN b /\ \A x \in DOMAIN c : c[x] \in Later
    BY <2>3, <2>7, JoinedProgram, Zenon DEF c
  <2>9. Program = Join(a, c)
    BY Zenon DEF Program, a, b, c
  <2>10. /\ DOMAIN Program = DOMAIN a \cup DOMAIN c
         /\ \A x \in DOMAIN Program : Program[x] \in Later
    BY <2>6, <2>8, <2>9, JoinedProgram, ZenonT(60)
  <2>11. DOMAIN PutKey =
           {"aliceIdentity", "aliceSecrets", "aliceBundle", "aliceQueue", "bobIdentity",
            "bobQueue", "bobInitiated", "bobSaid", "aliceHeard", "aliceSaid", "bobHeard",
            "aliceMedia", "bobMedia"}
    BY Zenon DEF PutKey
  <2>12. /\ DOMAIN PushTo = {"pushHandshake", "pushHello", "pushReply", "pushMedia"}
         /\ DOMAIN PullFrom = {"pullAlice", "pullBob", "pullMedia"}
         /\ DOMAIN AckOn = {"ackAlice", "ackBob", "ackMedia"}
    BY Zenon DEF PushTo, PullFrom, AckOn
  <2>13. FetchSteps = {"pushHandshake", "pushHello", "pushReply", "pushMedia", "pullAlice",
                       "pullBob", "pullMedia", "ackAlice", "ackBob", "ackMedia", "putBlob",
                       "getBlob"}
    BY <2>12, Zenon DEF FetchSteps
  <2> QED
    BY <2>1, <2>2, <2>3, <2>4, <2>5, <2>6, <2>7, <2>8, <2>10, <2>11, <2>13, Zenon
\* Continue goes on.
<1>ContinueMoves.
    ASSUME NEW t \in Tab, page[t].pc \in DOMAIN Program, NEW p, Locals(t, p), Continue(t, p)
    PROVE  Moves(t)
  <2> USE <1>ContinueMoves
  <2> DEFINE q == [p EXCEPT !.pc = Program[@]]
  <2>1. IsPage(q)
    BY Zenon DEF Locals, IsPage
  <2>2. q.run = p.run /\ q.key = p.key /\ q.pc = Program[p.pc]
    BY Zenon DEF Locals, IsPage, PageField
  <2>3. page' = [page EXCEPT ![t] = q]
    BY Zenon DEF Continue
  <2> HIDE DEF q
  <2> QED  BY <2>1, <2>2, <2>3, <1>ProgramGoesOn, Zenon DEF Moves, Locals
\* Throw ends the run.
<1>ThrowMoves.
    ASSUME NEW t \in Tab, Throw(t)
    PROVE  Moves(t)
  <2> USE <1>ThrowMoves
  <2> DEFINE p == NoPage
             q == [p EXCEPT !.pc = "failed", !.run = page[t].run, !.key = page[t].key]
  <2>1. IsPage(p)
    BY Zenon DEF IsPage, NoPage, PageField
  <2>2. page' = [page EXCEPT ![t] = q]
    BY Zenon DEF Throw
  <2> HIDE DEF p
  <2>3. IsPage(q)
    BY <2>1, Zenon DEF IsPage
  <2>4. q.run = page[t].run /\ q.key = page[t].key /\ q.pc = "failed"
    BY <2>1, Zenon DEF IsPage, PageField
  <2> HIDE DEF q
  <2> QED  BY <2>2, <2>3, <2>4, Zenon DEF Moves
\* The tab's own part of the invariant suffices, for the pages ...
<1>SetPageOpened.
    ASSUME StoreInv, NEW t \in Tab, NEW q, SetPage(t, q), IsPage(q),
           q.pc \notin Stopped => q.run \in Run,
           q.pc \notin Stopped /\ q.pc \notin Opening => q.key # None
    PROVE  OpenedHasKey'
  BY <1>SetPageOpened, SetPageIs, Zenon DEF StoreInv, OpenedHasKey, Running
\* ... for the keys ...
<1>SetPageKeys.
    ASSUME StoreInv, NEW t \in Tab, NEW q, SetPage(t, q), salt' = salt, raced' = raced,
           ~raced /\ q.key # None => q.key = salt,
           ~raced /\ q.pc = "newSalt" => salt = None
    PROVE  KeyIsOfSalt'
  BY <1>SetPageKeys, SetPageIs, SMTT(30) DEF StoreInv, KeyIsOfSalt
\* ... and for the store.
<1>SetPageShape.
    ASSUME StoreInv, NEW t \in Tab, NEW q, SetPage(t, q), sealed' = sealed,
           runs' \in 0..MaxRuns
    PROVE  StoreShape'
  <2> USE <1>SetPageShape
  <2>1. page' = [u \in Tab |-> page'[u]]
    BY SetPageIs, Zenon DEF StoreInv
  <2>2. sealed' = [k \in StoreKey |-> sealed'[k]]
    BY Zenon DEF StoreInv, StoreShape
  <2> QED  BY <2>1, <2>2, Zenon DEF StoreShape
\* A step that leaves salt and records alone.
<1>SameRecords.
    ASSUME StoreInv, salt' = salt, sealed' = sealed, raced' = raced
    PROVE  RecordIsOfSalt'
  BY <1>SameRecords, Zenon DEF StoreInv, RecordIsOfSalt
\* A step of such a tab that writes no key leaves the store as it is.
<1>MoveKeeps.
    ASSUME StoreInv, NEW t \in Tab, Opened(t), Moves(t),
           salt' = salt, sealed' = sealed, raced' = raced, runs' = runs
    PROVE  StoreInv'
  <2> USE <1>MoveKeeps
  <2>1. PICK p : /\ SetPage(t, p)
                 /\ IsPage(p) /\ p.run = page[t].run /\ p.key = page[t].key
                 /\ p.pc \in Later \cup {"failed"}
    BY Zenon DEF Moves, SetPage
  <2>2. p.run \in Run /\ p.key # None /\ (~raced => p.key = salt)
    BY <2>1, Zenon DEF StoreInv, OpenedHasKey, KeyIsOfSalt, Opened
  <2>3. p.pc # "newSalt"
    BY <2>1, Zenon DEF Later
  <2>4. runs' \in 0..MaxRuns
    BY Zenon DEF StoreInv, StoreShape
  <2> QED
    BY <2>1, <2>2, <2>3, <2>4, <1>SetPageOpened, <1>SetPageKeys, <1>SetPageShape, <1>SameRecords,
       Zenon
    DEF StoreInv
\* A run begins: it has the tab's key, or opens the store.
<1>StartKeeps.
    ASSUME StoreInv, NEW t \in Tab, Start(t)
    PROVE  StoreInv'
  <2> USE <1>StartKeeps
  <2> DEFINE p == NoPage
             q == [p EXCEPT !.run = runs + 1, !.key = page[t].key,
                            !.pc = IF page[t].key = None THEN "open" ELSE "aliceIdentity"]
  <2>1. SetPage(t, q)
    BY Zenon DEF Start, SetPage
  <2>2. IsPage(p)
    BY NoPageIs, Zenon
  <2> HIDE DEF p
  <2>3. IsPage(q)
    BY <2>2, Zenon DEF IsPage
  <2>4. /\ q.run = runs + 1 /\ q.key = page[t].key
        /\ q.pc = IF page[t].key = None THEN "open" ELSE "aliceIdentity"
    BY <2>2, Zenon DEF IsPage, PageField
  <2> HIDE DEF q
  <2>5. salt' = salt /\ sealed' = sealed /\ raced' = raced
    BY Zenon DEF Start
  <2>6. runs' \in 0..MaxRuns /\ q.run \in Run
    BY <2>4, WebClientAssumption DEF Start, StoreInv, StoreShape, Run
  <2>7. (q.pc \notin Opening => q.key # None) /\ q.pc # "newSalt"
    BY <2>4, Zenon DEF Opening
  <2>8. ~raced /\ q.key # None => q.key = salt
    BY <2>4, Zenon DEF StoreInv, KeyIsOfSalt
  <2> QED
    BY <2>1, <2>3, <2>5, <2>6, <2>7, <2>8, <1>SetPageOpened, <1>SetPageKeys, <1>SetPageShape,
       <1>SameRecords, Zenon
    DEF StoreInv
\* A tab reads the salt: it has the key of the store, or the store is new.
<1>OpenReadKeeps.
    ASSUME StoreInv, NEW t \in Tab, OpenRead(t)
    PROVE  StoreInv'
  <2> USE <1>OpenReadKeeps
  <2> DEFINE p == page[t]
             q == IF salt = None THEN [p EXCEPT !.pc = "newSalt"]
                                 ELSE [p EXCEPT !.pc = "aliceIdentity", !.key = salt]
  <2>1. SetPage(t, q)
    BY Zenon DEF OpenRead, SetPage
  <2>2. IsPage(p) /\ p.pc = "open" /\ p.run \in Run /\ (~raced /\ p.key # None => p.key = salt)
    BY Zenon DEF StoreInv, OpenedHasKey, KeyIsOfSalt, OpenRead, Running, Stopped
  <2> HIDE DEF p
  <2>3. IsPage(q)
    BY <2>2, Zenon DEF IsPage
  <2>4. /\ q.run = p.run
        /\ salt = None => q.pc = "newSalt" /\ q.key = p.key
        /\ salt # None => q.pc = "aliceIdentity" /\ q.key = salt
    BY <2>2, Zenon DEF IsPage, PageField
  <2> HIDE DEF q
  <2>5. salt' = salt /\ sealed' = sealed /\ raced' = raced /\ runs' = runs
    BY Zenon DEF OpenRead
  <2>6. /\ q.pc \notin Opening => q.key # None
        /\ q.pc = "newSalt" => salt = None
        /\ ~raced /\ q.key # None => q.key = salt
    BY <2>2, <2>4, Zenon DEF Opening
  <2>7. runs' \in 0..MaxRuns /\ q.run \in Run
    BY <2>2, <2>4, <2>5, Zenon DEF StoreInv, StoreShape
  <2> QED
    BY <2>1, <2>3, <2>5, <2>6, <2>7, <1>SetPageOpened, <1>SetPageKeys, <1>SetPageShape,
       <1>SameRecords, Zenon
    DEF StoreInv
\* A tab writes a new salt: unless another is about to, there is no key and no record.
<1>OpenWriteKeeps.
    ASSUME StoreInv, NEW t \in Tab, OpenWrite(t)
    PROVE  StoreInv'
  <2> USE <1>OpenWriteKeeps
  <2> DEFINE p == page[t]
             q == [p EXCEPT !.pc = "aliceIdentity", !.key = p.run]
  <2>1. SetPage(t, q)
    BY Zenon DEF OpenWrite, StoreInv, StoreShape, SetPage
  <2>2. IsPage(p) /\ p.pc = "newSalt" /\ p.run \in Run
    BY Zenon DEF StoreInv, OpenedHasKey, OpenWrite, Running, Stopped
  <2>3. salt' = p.run /\ sealed' = sealed /\ runs' = runs
    BY Zenon DEF OpenWrite
  <2>4. ~raced' => ~raced /\ salt = None /\ \A u \in Tab : u # t => page[u].pc # "newSalt"
    BY Zenon DEF OpenWrite, StoreInv, KeyIsOfSalt
  <2> HIDE DEF p
  <2>5. IsPage(q)
    BY <2>2, Zenon DEF IsPage
  <2>6. q.pc = "aliceIdentity" /\ q.run = p.run /\ q.key = p.run
    BY <2>2, Zenon DEF IsPage, PageField
  <2> HIDE DEF q
  <2>7. p.run # None
    BY <2>2, WebClientAssumption DEF Run
  <2>8. OpenedHasKey'
    BY <2>1, <2>2, <2>5, <2>6, <2>7, <1>SetPageOpened, Zenon
  <2>9. StoreShape'
    BY <2>1, <2>3, <1>SetPageShape, Zenon DEF StoreInv, StoreShape
  <2>10. page'[t] = q /\ \A u \in Tab : u # t => page'[u] = page[u]
    BY <2>1, SetPageIs, Zenon DEF StoreInv
  <2>11. KeyIsOfSalt'
    BY <2>3, <2>4, <2>6, <2>10, Zenon DEF StoreInv, KeyIsOfSalt
  <2>12. RecordIsOfSalt'
    BY <2>3, <2>4, Zenon DEF StoreInv, RecordIsOfSalt
  <2> QED  BY <2>8, <2>9, <2>11, <2>12, Zenon DEF StoreInv
\* The page goes away.
<1>ReloadKeeps.
    ASSUME StoreInv, NEW t \in Tab, Reload(t)
    PROVE  StoreInv'
  <2> USE <1>ReloadKeeps
  <2>1. SetPage(t, NoPage)
    BY Zenon DEF Reload, SetPage
  <2>2. salt' = salt /\ sealed' = sealed /\ raced' = raced /\ runs' = runs
    BY Zenon DEF Reload
  <2>3. runs' \in 0..MaxRuns
    BY <2>2, Zenon DEF StoreInv, StoreShape
  <2>4. IsPage(NoPage) /\ NoPage.pc \in Stopped /\ NoPage.pc # "newSalt" /\ NoPage.key = None
    BY NoPageIs, Zenon DEF Stopped
  <2> QED
    BY <2>1, <2>2, <2>3, <2>4, <1>SetPageOpened, <1>SetPageKeys, <1>SetPageShape, <1>SameRecords,
       Zenon
    DEF StoreInv
\* The page itself, and with other locals.
<1>SameLocals.
    ASSUME StoreInv, NEW t \in Tab
    PROVE  Locals(t, page[t])
  BY <1>SameLocals, Zenon DEF StoreInv, OpenedHasKey, Locals
\* One local is replaced.
<1>SetLocals.
    ASSUME NEW t \in Tab, NEW p, Locals(t, p), NEW a
    PROVE  /\ Locals(t, [p EXCEPT !.pin = a])
           /\ Locals(t, [p EXCEPT !.inbound = a])
           /\ Locals(t, [p EXCEPT !.secrets = a])
           /\ Locals(t, [p EXCEPT !.bob = a])
           /\ Locals(t, [p EXCEPT !.out = a])
           /\ Locals(t, [p EXCEPT !.shown = a])
  <2> USE <1>SetLocals
  <2>1. IsPage(p)
    BY Zenon DEF Locals
  <2>2. /\ IsPage([p EXCEPT !.pin = a])
        /\ IsPage([p EXCEPT !.inbound = a])
        /\ IsPage([p EXCEPT !.secrets = a])
        /\ IsPage([p EXCEPT !.bob = a])
        /\ IsPage([p EXCEPT !.out = a])
        /\ IsPage([p EXCEPT !.shown = a])
    BY <2>1, Zenon DEF IsPage
  <2>3. ASSUME NEW q \in {[p EXCEPT !.pin = a], [p EXCEPT !.inbound = a],
                          [p EXCEPT !.secrets = a], [p EXCEPT !.bob = a],
                          [p EXCEPT !.out = a], [p EXCEPT !.shown = a]}
        PROVE  q.pc = p.pc /\ q.run = p.run /\ q.key = p.key
    BY <2>1, <2>3, Zenon DEF IsPage, PageField
  <2> QED  BY <2>2, <2>3, Zenon DEF Locals
\* Two locals at once: the session and the message it made, or what it opened.
<1>SetTwoLocals.
    ASSUME NEW t \in Tab, NEW p, Locals(t, p), NEW a, NEW b
    PROVE  /\ Locals(t, [p EXCEPT !.out = a, !.alice = b])
           /\ Locals(t, [p EXCEPT !.out = a, !.bob = b])
           /\ Locals(t, [p EXCEPT !.bob = a, !.shown = b])
  <2> USE <1>SetTwoLocals
  <2>1. IsPage(p)
    BY Zenon DEF Locals
  <2>2. /\ IsPage([p EXCEPT !.out = a, !.alice = b])
        /\ IsPage([p EXCEPT !.out = a, !.bob = b])
        /\ IsPage([p EXCEPT !.bob = a, !.shown = b])
    BY <2>1, Zenon DEF IsPage
  <2>3. ASSUME NEW q \in {[p EXCEPT !.out = a, !.alice = b], [p EXCEPT !.out = a, !.bob = b],
                          [p EXCEPT !.bob = a, !.shown = b]}
        PROVE  q.pc = p.pc /\ q.run = p.run /\ q.key = p.key
    BY <2>1, <2>3, Zenon DEF IsPage, PageField
  <2> QED  BY <2>2, <2>3, Zenon DEF Locals
\* Three at once: Alice's first message, opened.
<1>SetThreeLocals.
    ASSUME NEW t \in Tab, NEW p, Locals(t, p), NEW a, NEW b, NEW c
    PROVE  Locals(t, [p EXCEPT !.secrets = a, !.alice = b, !.shown = c])
  <2> USE <1>SetThreeLocals
  <2>1. IsPage(p)
    BY Zenon DEF Locals
  <2> DEFINE q == [p EXCEPT !.secrets = a, !.alice = b, !.shown = c]
  <2>2. IsPage(q)
    BY <2>1, Zenon DEF IsPage
  <2>3. q.pc = p.pc /\ q.run = p.run /\ q.key = p.key
    BY <2>1, Zenon DEF IsPage, PageField
  <2> QED  BY <2>2, <2>3, Zenon DEF Locals
\* A put is under the tab's key, which is the store's.
<1>PutKeeps.
    ASSUME StoreInv, NEW t \in Tab, Put(t)
    PROVE  StoreInv'
  <2> USE <1>PutKeeps
  <2> DEFINE p == page[t]
             k == PutKey[p.pc]
             r == [salt |-> p.key, run |-> p.run, value |-> Secret(p)]
             q == IF p.pc = "bobQueue" THEN [p EXCEPT !.bob = BobSession(p.run)]
                  ELSE IF p.pc = "bobInitiated" THEN BobEncrypts(p, "hello")
                  ELSE p
  <2>1. /\ p.pc \in DOMAIN PutKey
        /\ sealed' = [sealed EXCEPT ![k] = r]
        /\ Continue(t, q)
        /\ salt' = salt /\ raced' = raced /\ runs' = runs
    BY Zenon DEF Put
  <2>2. Opened(t) /\ p.pc \in DOMAIN Program
    BY <2>1, AwaitIsOpened, <1>ProgramGoesOn, Zenon
  <2>3. Locals(t, p)
    BY <1>SameLocals, Zenon
  <2>4. Locals(t, q)
    BY <2>3, <1>SetLocals, <1>SetTwoLocals, Zenon DEF BobEncrypts
  <2>5. Moves(t)
    BY <2>1, <2>2, <2>4, <1>ContinueMoves, Zenon
  <2>6. k \in StoreKey
    BY <2>1, Zenon DEF StoreKey
  <2>7. r.salt = p.key /\ p.key # None /\ p.run \in Run /\ (~raced => p.key = salt)
    BY <2>2, Zenon DEF StoreInv, OpenedHasKey, KeyIsOfSalt, Opened
  <2> HIDE DEF k, r, q
  <2>8. /\ sealed' = [j \in StoreKey |-> sealed'[j]]
        /\ sealed'[k] = r
        /\ \A j \in StoreKey : j # k => sealed'[j] = sealed[j]
    BY <2>1, <2>6, Zenon DEF StoreInv, StoreShape
  <2>9. PICK z : /\ SetPage(t, z)
                 /\ IsPage(z) /\ z.run = p.run /\ z.key = p.key
                 /\ z.pc \in Later \cup {"failed"}
    BY <2>5, Zenon DEF Moves, SetPage
  <2>10. z.pc # "newSalt"
    BY <2>9, Zenon DEF Later
  <2>11. OpenedHasKey' /\ KeyIsOfSalt'
    BY <2>1, <2>7, <2>9, <2>10, <1>SetPageOpened, <1>SetPageKeys, Zenon
  <2>12. page' = [u \in Tab |-> page'[u]]
    BY <2>9, SetPageIs, Zenon DEF StoreInv
  <2>13. StoreShape'
    BY <2>1, <2>8, <2>12, Zenon DEF StoreInv, StoreShape
  <2>14. RecordIsOfSalt'
    BY <2>1, <2>7, <2>8, Zenon DEF StoreInv, RecordIsOfSalt
  <2> QED  BY <2>11, <2>13, <2>14, Zenon DEF StoreInv
\* The rest write no key: the run goes on, or ends.
<1>GetSecretsKeeps.
    ASSUME StoreInv, NEW t \in Tab, GetSecrets(t)
    PROVE  StoreInv'
  <2> USE <1>GetSecretsKeeps
  <2> DEFINE q == [page[t] EXCEPT !.secrets = sealed["alice/secrets"].value]
  <2>1. /\ page[t].pc = "getSecrets"
        /\ Continue(t, q) \/ Throw(t)
        /\ salt' = salt /\ sealed' = sealed /\ raced' = raced /\ runs' = runs
    BY Zenon DEF GetSecrets
  <2>2. Locals(t, q)
    BY <1>SameLocals, <1>SetLocals, Zenon
  <2> HIDE DEF q
  <2>3. Opened(t) /\ Moves(t)
    BY <2>1, <2>2, AwaitIsOpened, <1>ProgramGoesOn, <1>ContinueMoves, <1>ThrowMoves, Zenon
  <2> QED  BY <2>1, <2>3, <1>MoveKeeps, Zenon
\* Alice accepts the session, or throws.
<1>GetBundleKeeps.
    ASSUME StoreInv, NEW t \in Tab, GetBundle(t)
    PROVE  StoreInv'
  <2> USE <1>GetBundleKeeps
  <2>1. PICK a, b :
          /\ page[t].pc = "getBundle"
          /\ \/ Continue(t, [page[t] EXCEPT !.secrets = None, !.alice = a, !.shown = b])
             \/ Throw(t)
          /\ salt' = salt /\ sealed' = sealed /\ raced' = raced /\ runs' = runs
    BY Zenon DEF GetBundle
  <2>2. Locals(t, [page[t] EXCEPT !.secrets = None, !.alice = a, !.shown = b])
    BY <1>SameLocals, <1>SetThreeLocals, Zenon
  <2>3. Opened(t) /\ Moves(t)
    BY <2>1, <2>2, AwaitIsOpened, <1>ProgramGoesOn, <1>ContinueMoves, <1>ThrowMoves, Zenon
  <2> QED  BY <2>1, <2>3, <1>MoveKeeps, Zenon
\* Bob reads his session and opens the reply, or throws.
<1>GetBobKeeps.
    ASSUME StoreInv, NEW t \in Tab, GetBob(t)
    PROVE  StoreInv'
  <2> USE <1>GetBobKeeps
  <2>1. PICK a, b :
          /\ page[t].pc = "getBob"
          /\ Continue(t, [page[t] EXCEPT !.bob = a, !.shown = b]) \/ Throw(t)
          /\ salt' = salt /\ sealed' = sealed /\ raced' = raced /\ runs' = runs
    BY Zenon DEF GetBob, BobDecrypts
  <2>2. Locals(t, [page[t] EXCEPT !.bob = a, !.shown = b])
    BY <1>SameLocals, <1>SetTwoLocals, Zenon
  <2>3. Opened(t) /\ Moves(t)
    BY <2>1, <2>2, AwaitIsOpened, <1>ProgramGoesOn, <1>ContinueMoves, <1>ThrowMoves, Zenon
  <2> QED  BY <2>1, <2>3, <1>MoveKeeps, Zenon
\* The invite is made and parsed.
<1>HealthKeeps.
    ASSUME StoreInv, NEW t \in Tab, Health(t)
    PROVE  StoreInv'
  <2> USE <1>HealthKeeps
  <2> DEFINE p == page[t]
  <2>1. PICK pin, parses, pc :
          /\ p.pc = "health"
          /\ pc = IF ~parses THEN "failed" ELSE IF pin = None THEN "bobIdentity" ELSE "verifyPin"
          /\ page' = [page EXCEPT ![t] = [p EXCEPT !.pin = pin, !.pc = pc]]
          /\ salt' = salt /\ sealed' = sealed /\ raced' = raced /\ runs' = runs
    BY Zenon DEF Health
  <2>2. IsPage(p)
    BY Zenon DEF StoreInv, OpenedHasKey
  <2>3. Opened(t)
    BY <2>1, AwaitIsOpened, Zenon
  <2> HIDE DEF p
  <2> DEFINE q == [p EXCEPT !.pin = pin, !.pc = pc]
  <2>4. IsPage(q)
    BY <2>2, Zenon DEF IsPage
  <2>5. q.pc = pc /\ q.run = p.run /\ q.key = p.key
    BY <2>2, Zenon DEF IsPage, PageField
  <2>6. pc \in Later \cup {"failed"}
    BY <2>1, Zenon DEF Later
  <2>7. Moves(t)
    BY <2>1, <2>4, <2>5, <2>6, Zenon DEF Moves, p
  <2> QED  BY <2>1, <2>3, <2>7, <1>MoveKeeps, Zenon
\* The pin is checked.
<1>VerifyPinKeeps.
    ASSUME StoreInv, NEW t \in Tab, VerifyPin(t)
    PROVE  StoreInv'
  <2> USE <1>VerifyPinKeeps
  <2>1. /\ page[t].pc = "verifyPin"
        /\ Continue(t, [page[t] EXCEPT !.pin = None]) \/ Throw(t)
        /\ salt' = salt /\ sealed' = sealed /\ raced' = raced /\ runs' = runs
    BY Zenon DEF VerifyPin
  <2>2. Locals(t, [page[t] EXCEPT !.pin = None])
    BY <1>SameLocals, <1>SetLocals, Zenon
  <2>3. Opened(t) /\ Moves(t)
    BY <2>1, <2>2, AwaitIsOpened, <1>ProgramGoesOn, <1>ContinueMoves, <1>ThrowMoves, Zenon
  <2> QED  BY <2>1, <2>3, <1>MoveKeeps, Zenon
\* An envelope is pushed, or the request fails.
<1>PushKeeps.
    ASSUME StoreInv, NEW t \in Tab, NEW lost \in BOOLEAN, Push(t, lost)
    PROVE  StoreInv'
  <2> USE <1>PushKeeps
  <2>1. /\ page[t].pc \in FetchSteps
        /\ \/ Continue(t, page[t])
           \/ Continue(t, [page[t] EXCEPT !.out = None])
           \/ Throw(t)
        /\ salt' = salt /\ sealed' = sealed /\ raced' = raced /\ runs' = runs
    BY Zenon DEF Push, Replied, FetchSteps
  <2>2. Locals(t, page[t]) /\ Locals(t, [page[t] EXCEPT !.out = None])
    BY <1>SameLocals, <1>SetLocals, Zenon
  <2>3. Opened(t) /\ Moves(t)
    BY <2>1, <2>2, AwaitIsOpened, <1>ProgramGoesOn, <1>ContinueMoves, <1>ThrowMoves, Zenon
  <2> QED  BY <2>1, <2>3, <1>MoveKeeps, Zenon
\* Envelopes are pulled.
<1>PullKeeps.
    ASSUME StoreInv, NEW t \in Tab, NEW expired \in 0..2, Pull(t, expired)
    PROVE  StoreInv'
  <2> USE <1>PullKeeps
  <2>1. PICK rows, a, b :
          /\ page[t].pc \in FetchSteps
          /\ \/ Continue(t, [page[t] EXCEPT !.inbound = rows])
             \/ Continue(t, [[page[t] EXCEPT !.inbound = rows] EXCEPT !.bob = a, !.shown = b])
             \/ Throw(t)
          /\ salt' = salt /\ sealed' = sealed /\ raced' = raced /\ runs' = runs
    BY Zenon DEF Pull, FetchSteps
  <2>2. Locals(t, [page[t] EXCEPT !.inbound = rows])
    BY <1>SameLocals, <1>SetLocals, Zenon
  <2>3. Locals(t, [[page[t] EXCEPT !.inbound = rows] EXCEPT !.bob = a, !.shown = b])
    BY <2>2, <1>SetTwoLocals, Zenon
  <2>4. Opened(t) /\ Moves(t)
    BY <2>1, <2>2, <2>3, AwaitIsOpened, <1>ProgramGoesOn, <1>ContinueMoves, <1>ThrowMoves, Zenon
  <2> QED  BY <2>1, <2>4, <1>MoveKeeps, Zenon
\* An envelope is acknowledged.
<1>AckKeeps.
    ASSUME StoreInv, NEW t \in Tab, NEW lost \in BOOLEAN, Ack(t, lost)
    PROVE  StoreInv'
  <2> USE <1>AckKeeps
  <2> DEFINE p == page[t]
  <2>1. PICK rest, a, b :
          /\ p.pc \in DOMAIN AckOn
          /\ rest = [p EXCEPT !.inbound = Tail(@)]
          /\ \/ page' = [page EXCEPT ![t] = rest]
             \/ Continue(t, rest)
             \/ Continue(t, [rest EXCEPT !.out = a, !.alice = b])
             \/ Throw(t)
          /\ salt' = salt /\ sealed' = sealed /\ raced' = raced /\ runs' = runs
    BY Zenon DEF Ack, Replied, AliceEncrypts
  <2>2. Locals(t, rest) /\ Locals(t, [rest EXCEPT !.out = a, !.alice = b])
    BY <2>1, <1>SameLocals, <1>SetLocals, <1>SetTwoLocals, Zenon
  <2>3. p.pc \in FetchSteps /\ p.pc \in Later
    BY <2>1, Zenon DEF FetchSteps, AckOn, Later
  <2>4. Opened(t)
    BY <2>3, AwaitIsOpened, Zenon
  <2>5. page' = [page EXCEPT ![t] = rest] => Moves(t)
    BY <2>2, <2>3, Zenon DEF Moves, Locals
  <2>6. Moves(t)
    BY <2>1, <2>2, <2>3, <2>5, <1>ProgramGoesOn, <1>ContinueMoves, <1>ThrowMoves, Zenon
  <2> QED  BY <2>1, <2>4, <2>6, <1>MoveKeeps, Zenon
\* The object is stored.
<1>PutBlobKeeps.
    ASSUME StoreInv, NEW t \in Tab, NEW lost \in BOOLEAN, PutBlob(t, lost)
    PROVE  StoreInv'
  <2> USE <1>PutBlobKeeps
  <2>1. PICK a, b :
          /\ page[t].pc = "putBlob"
          /\ Continue(t, [page[t] EXCEPT !.out = a, !.alice = b]) \/ Throw(t)
          /\ salt' = salt /\ sealed' = sealed /\ raced' = raced /\ runs' = runs
    BY Zenon DEF PutBlob, Replied, AliceEncrypts
  <2>2. Locals(t, [page[t] EXCEPT !.out = a, !.alice = b])
    BY <1>SameLocals, <1>SetTwoLocals, Zenon
  <2>3. page[t].pc \in FetchSteps
    BY <2>1, Zenon DEF FetchSteps
  <2>4. Opened(t) /\ Moves(t)
    BY <2>1, <2>2, <2>3, AwaitIsOpened, <1>ProgramGoesOn, <1>ContinueMoves, <1>ThrowMoves, Zenon
  <2> QED  BY <2>1, <2>4, <1>MoveKeeps, Zenon
\* The node has no blob role.
<1>NoBlobRoleKeeps.
    ASSUME StoreInv, NEW t \in Tab, NoBlobRole(t)
    PROVE  StoreInv'
  <2> USE <1>NoBlobRoleKeeps
  <2> DEFINE p == page[t]
             q == [p EXCEPT !.pc = "done"]
  <2>1. page' = [page EXCEPT ![t] = q]
    BY Zenon DEF NoBlobRole
  <2>2. salt' = salt /\ sealed' = sealed /\ raced' = raced /\ runs' = runs
    BY Zenon DEF NoBlobRole
  <2>3. p.pc \in FetchSteps
    BY Zenon DEF NoBlobRole, FetchSteps
  <2>4. Opened(t)
    BY <2>3, AwaitIsOpened, Zenon
  <2>5. IsPage(p)
    BY Zenon DEF StoreInv, OpenedHasKey
  <2> HIDE DEF p
  <2>6. IsPage(q)
    BY <2>5, Zenon DEF IsPage
  <2>7. q.pc = "done" /\ q.run = p.run /\ q.key = p.key
    BY <2>5, Zenon DEF IsPage, PageField
  <2>8. "done" \in Later
    BY Zenon DEF Later
  <2>9. Moves(t)
    BY <2>1, <2>6, <2>7, <2>8, Zenon DEF Moves, p
  <2> QED  BY <2>2, <2>4, <2>9, <1>MoveKeeps, Zenon
\* The object is fetched and opened.
<1>GetBlobKeeps.
    ASSUME StoreInv, NEW t \in Tab, GetBlob(t)
    PROVE  StoreInv'
  <2> USE <1>GetBlobKeeps
  <2>1. PICK a :
          /\ page[t].pc = "getBlob"
          /\ Continue(t, [page[t] EXCEPT !.shown = a]) \/ Throw(t)
          /\ salt' = salt /\ sealed' = sealed /\ raced' = raced /\ runs' = runs
    BY Zenon DEF GetBlob
  <2>2. Locals(t, [page[t] EXCEPT !.shown = a])
    BY <1>SameLocals, <1>SetLocals, Zenon
  <2>3. page[t].pc \in FetchSteps
    BY <2>1, Zenon DEF FetchSteps
  <2>4. Opened(t) /\ Moves(t)
    BY <2>1, <2>2, <2>3, AwaitIsOpened, <1>ProgramGoesOn, <1>ContinueMoves, <1>ThrowMoves, Zenon
  <2> QED  BY <2>1, <2>4, <1>MoveKeeps, Zenon
\* A request fails.
<1>FetchFailsKeeps.
    ASSUME StoreInv, NEW t \in Tab, FetchFails(t)
    PROVE  StoreInv'
  <2> USE <1>FetchFailsKeeps
  <2>1. page[t].pc \in FetchSteps /\ Throw(t)
    BY Zenon DEF FetchFails
  <2>2. salt' = salt /\ sealed' = sealed /\ raced' = raced /\ runs' = runs
    BY Zenon DEF FetchFails
  <2>3. Opened(t) /\ Moves(t)
    BY <2>1, AwaitIsOpened, <1>ThrowMoves, Zenon
  <2> QED  BY <2>2, <2>3, <1>MoveKeeps, Zenon
<1> SUFFICES ASSUME StoreInv, [Next]_vars PROVE StoreInv'
  BY Zenon
<1>1. CASE UNCHANGED vars
  BY <1>1, Zenon
  DEF StoreInv, StoreShape, OpenedHasKey, KeyIsOfSalt, RecordIsOfSalt, Running, vars
<1>2. CASE Next
  <2>1. PICK t \in Tab : TabStep(t)
    BY <1>2, Zenon DEF Next
  <2> QED
    BY <2>1, <1>StartKeeps, <1>OpenReadKeeps, <1>OpenWriteKeeps, <1>PutKeeps, <1>GetSecretsKeeps,
       <1>GetBundleKeeps, <1>GetBobKeeps, <1>HealthKeeps, <1>VerifyPinKeeps, <1>PushKeeps,
       <1>PullKeeps,
       <1>AckKeeps, <1>PutBlobKeeps, <1>NoBlobRoleKeeps, <1>GetBlobKeeps, <1>FetchFailsKeeps,
       <1>ReloadKeeps, Zenon
    DEF TabStep
<1> QED  BY <1>1, <1>2, Zenon

-----------------------------------------------------------------------------
(***************************************************************************)
(* The root keys and the sessions of a run                                 *)
(***************************************************************************)

\* What is mixed into a root key can be read off it.
LEMMA AppendApart ==
  ASSUME NEW S, NEW a \in Seq(S), NEW b \in Seq(S), NEW x \in S, NEW y \in S,
         Append(a, x) = Append(b, y)
  PROVE  a = b /\ x = y
<1> DEFINE c == Append(a, x)
           d == Append(b, y)
<1>1. Len(a) \in Nat /\ Len(b) \in Nat /\ Len(c) = Len(a) + 1 /\ Len(d) = Len(b) + 1
  OBVIOUS
<1>2. Len(a) = Len(b)
  BY <1>1
<1>3. c[Len(a) + 1] = x /\ d[Len(b) + 1] = y
  OBVIOUS
<1>4. \A i \in 1..Len(a) : a[i] = c[i]
  OBVIOUS
<1>5. \A i \in 1..Len(b) : b[i] = d[i]
  OBVIOUS
<1> HIDE DEF c, d
<1>6. c = d
  BY Zenon DEF c, d
<1>7. \A i \in 1..Len(a) : a[i] = b[i]
  BY <1>2, <1>4, <1>5, <1>6, Zenon
<1> QED  BY <1>2, <1>3, <1>6, <1>7

\* The root of a handshake is the one of its run ...
LEMMA RootIsOfRun ==
  ASSUME NEW r, NEW q, Initiated(r).root = Initiated(q).root
  PROVE  r = q
<1>1. \A x : Initiated(x).root.info.responder = AliceId(x)
  BY Zenon DEF Initiated, Initiate, Bundle, PrekeyBundle, DeriveRoot, Transcript
<1>2. AliceId(r) = AliceId(q)
  BY <1>1, Zenon
<1>3. AliceId(r)[1][2] = r /\ AliceId(q)[1][2] = q
  BY Zenon DEF AliceId
<1> QED  BY <1>2, <1>3, Zenon

\* The root key of the handshake, and the values that are mixed into it.
Root0(r) == <<Initiated(r).root>>
Mixed(r) == {{BobKey(r, 0), Prekey(r, 0)}, {Prekey(r, 1), BobKey(r, 0)},
             {BobKey(r, 1), Prekey(r, 1)}, Initiated(r).root}

\* The root keys are sequences; the first element is the root of the handshake.
LEMMA RootsAre ==
  ASSUME NEW r
  PROVE  /\ Root0(r) \in Seq(Mixed(r)) /\ Len(Root0(r)) = 1 /\ Root0(r)[1] = Initiated(r).root
         /\ Root1(r) \in Seq(Mixed(r)) /\ Len(Root1(r)) = 2 /\ Root1(r)[1] = Initiated(r).root
         /\ Root2(r) \in Seq(Mixed(r)) /\ Len(Root2(r)) = 3 /\ Root2(r)[1] = Initiated(r).root
         /\ Root3(r) \in Seq(Mixed(r)) /\ Len(Root3(r)) = 4 /\ Root3(r)[1] = Initiated(r).root
<1> DEFINE S == Mixed(r)
           root == Initiated(r).root
<1>1. root \in S /\ {BobKey(r, 0), Prekey(r, 0)} \in S /\ {Prekey(r, 1), BobKey(r, 0)} \in S
      /\ {BobKey(r, 1), Prekey(r, 1)} \in S
  BY Zenon DEF Mixed
<1>2. /\ Root0(r) = <<root>> /\ Root1(r) = Append(<<root>>, {BobKey(r, 0), Prekey(r, 0)})
      /\ Root2(r) = Append(Root1(r), {Prekey(r, 1), BobKey(r, 0)})
      /\ Root3(r) = Append(Root2(r), {BobKey(r, 1), Prekey(r, 1)})
  BY Zenon DEF Root0, Root1, Root2, Root3
<1> HIDE DEF S, root
<1>3. <<root>> \in Seq(S) /\ Len(<<root>>) = 1 /\ <<root>>[1] = root
  BY <1>1
<1>4. ASSUME NEW s \in Seq(S), NEW x \in S, Len(s) > 0, s[1] = root
      PROVE  Append(s, x) \in Seq(S) /\ Len(Append(s, x)) = Len(s) + 1 /\ Append(s, x)[1] = root
  BY <1>4
<1>5. Root1(r) \in Seq(S) /\ Len(Root1(r)) = 2 /\ Root1(r)[1] = root
  BY <1>1, <1>2, <1>3, <1>4
<1>6. Root2(r) \in Seq(S) /\ Len(Root2(r)) = 3 /\ Root2(r)[1] = root
  BY <1>1, <1>2, <1>4, <1>5
<1>7. Root3(r) \in Seq(S) /\ Len(Root3(r)) = 4 /\ Root3(r)[1] = root
  BY <1>1, <1>2, <1>4, <1>6
<1> QED  BY <1>2, <1>3, <1>5, <1>6, <1>7, Zenon DEF S, root

\* The blob c is a, of n pieces, and then b, of m.
Follows(c, a, n, b, m) ==
  /\ \A i \in 1..n : c[i] = a[i]
  /\ \A i \in 1..m : c[n + i] = b[i]

\* A session without skipped keys.
Plain(s) ==
  s = [dhs |-> s.dhs, dhr |-> s.dhr, rk |-> s.rk, cks |-> s.cks, ckr |-> s.ckr,
       ns |-> s.ns, nr |-> s.nr, pn |-> s.pn, skipped |-> {}]

\* decrypt_message, which works on the session it loads, is decrypt or does nothing.
LEMMA DecryptMessageIs ==
  \A s, m : Plain(s) =>
    DecryptMessage(s, m, TRUE) =
      IF Decrypt(s, m, TRUE).ok THEN Decrypt(s, m, TRUE) ELSE Failed(s)
\* One blob after another.
<1>ConcatAt.
    ASSUME NEW U, NEW a \in Seq(U), NEW b \in Seq(U), NEW n \in Nat, NEW m \in Nat,
           Len(a) = n, Len(b) = m
    PROVE  a \o b \in Seq(U) /\ Len(a \o b) = n + m /\ Follows(a \o b, a, n, b, m)
  <2> USE <1>ConcatAt
  <2>1. a \o b \in Seq(U) /\ Len(a \o b) = n + m
    OBVIOUS
  <2>2. \A i \in 1..n : (a \o b)[i] = a[i]
    OBVIOUS
  <2>3. \A i \in 1..m : (a \o b)[n + i] = b[i]
    BY SMTT(30)
  <2> QED  BY <2>1, <2>2, <2>3, Zenon DEF Follows
\* A key that may be there takes one piece or none.
<1>OptionalAt.
    ASSUME NEW U, NEW key \in U
    PROVE  \E n \in {0, 1} :
             /\ Optional(key) \in Seq(U) /\ Len(Optional(key)) = n
             /\ key = None => n = 0
             /\ key # None => n = 1 /\ Optional(key)[1] = key
  <2> USE <1>OptionalAt
  <2>1. CASE key = None
    BY <2>1 DEF Optional
  <2>2. CASE key # None
    <3>1. Optional(key) = <<key>>
      BY <2>2, Zenon DEF Optional
    <3>2. <<key>> \in Seq(U) /\ Len(<<key>>) = 1 /\ <<key>>[1] = key
      OBVIOUS
    <3> QED  BY <2>2, <3>1, <3>2, Zenon
  <2> QED  BY <2>1, <2>2, Zenon
\* The three bits of the third piece are read back one by one.
<1>BitsApart.
    ASSUME NEW x \in {0, 1}, NEW y \in {0, 1}, NEW z \in {0, 1}
    PROVE  /\ ((x + 2 * y + 4 * z) \div 1) % 2 = x
           /\ ((x + 2 * y + 4 * z) \div 2) % 2 = y
           /\ ((x + 2 * y + 4 * z) \div 4) % 2 = z
  BY <1>BitsApart
\* What to_bytes writes of it, from_bytes reads back.
<1>PlainIsLoaded.
    ASSUME NEW s, Plain(s)
    PROVE  Loaded(s) = {s}
  <2> USE <1>PlainIsLoaded
  <2> DEFINE bits == Bit(s.dhr, 1) + Bit(s.cks, 2) + Bit(s.ckr, 4)
             U == {StateVersion, s.dhs, bits, s.dhr, s.rk, s.cks, s.ckr, s.ns, s.nr, s.pn, 0}
             a0 == <<StateVersion, s.dhs, bits>>
             a1 == Optional(s.dhr)
             a2 == <<s.rk>>
             a3 == Optional(s.cks)
             a4 == Optional(s.ckr)
             a5 == <<s.ns, s.nr, s.pn, 0>>
             a6 == Pieces(Order({}))
             c1 == a0 \o a1
             c2 == c1 \o a2
             c3 == c2 \o a3
             c4 == c3 \o a4
             c5 == c4 \o a5
             blob == c5 \o a6
  <2>1. s.skipped = {} /\ Cardinality({}) = 0
    <3>1. Cardinality({}) = 0
      BY Zenon DEF Cardinality
    <3>2. s.skipped = {}
      BY DEF Plain
    <3> QED  BY <3>1, <3>2, Zenon
  <2>2. blob = ToBytes(s)
    BY <2>1, Zenon DEF ToBytes
  <2>3. a6 \in Seq(U) /\ Len(a6) = 0
    <3> DEFINE o == Order({})
    <3>1. o \in [1..0 -> {}]
      <4>1. \E f \in [1..0 -> {}] : \A i, j \in DOMAIN f : f[i] = f[j] => i = j
        <5>1. [i \in 1..0 |-> i] \in [1..0 -> {}]
          OBVIOUS
        <5>2. \A i, j \in DOMAIN [i \in 1..0 |-> i] : i = j
          OBVIOUS
        <5> QED  BY <5>1, <5>2, Zenon
      <4>2. o = CHOOSE f \in [1..0 -> {}] : \A i, j \in DOMAIN f : f[i] = f[j] => i = j
        BY <2>1, Zenon DEF Order
      <4> QED  BY <4>1, <4>2, Zenon
    <3> HIDE DEF o
    <3>2. Len(o) = 0
      BY <3>1
    <3>3. a6 = [j \in 1..(3 * 0) |-> a6[j]]
      BY <3>2, Zenon DEF Pieces, o
    <3> HIDE DEF a6, U
    <3> QED  BY <3>3
  <2>4. PICK x \in {0, 1} : /\ a1 \in Seq(U) /\ Len(a1) = x
                            /\ s.dhr = None => x = 0
                            /\ s.dhr # None => x = 1 /\ a1[1] = s.dhr
    <3>1. s.dhr \in U
      BY Zenon
    <3> QED  BY <3>1, <1>OptionalAt, Zenon
  <2>5. PICK y \in {0, 1} : /\ a3 \in Seq(U) /\ Len(a3) = y
                            /\ s.cks = None => y = 0
                            /\ s.cks # None => y = 1 /\ a3[1] = s.cks
    <3>1. s.cks \in U
      BY Zenon
    <3> QED  BY <3>1, <1>OptionalAt, Zenon
  <2>6. PICK z \in {0, 1} : /\ a4 \in Seq(U) /\ Len(a4) = z
                            /\ s.ckr = None => z = 0
                            /\ s.ckr # None => z = 1 /\ a4[1] = s.ckr
    <3>1. s.ckr \in U
      BY Zenon
    <3> QED  BY <3>1, <1>OptionalAt, Zenon
  <2>7. bits = x + 2 * y + 4 * z
    BY <2>4, <2>5, <2>6 DEF Bit
  <2>8. a0 \in Seq(U) /\ Len(a0) = 3 /\ a2 \in Seq(U) /\ Len(a2) = 1 /\ a5 \in Seq(U) /\ Len(a5) = 4
    OBVIOUS
  <2>9. /\ a0[1] = StateVersion /\ a0[2] = s.dhs /\ a0[3] = bits /\ a2[1] = s.rk
        /\ a5[1] = s.ns /\ a5[2] = s.nr /\ a5[3] = s.pn /\ a5[4] = 0
    BY Zenon
  <2> HIDE DEF a0, a1, a2, a3, a4, a5, a6, U, bits
  <2> DEFINE j == 3 + x + 1
             k == j + y
             l == k + z
  <2>10. /\ 3 \in Nat /\ x \in Nat /\ 1 \in Nat /\ y \in Nat /\ z \in Nat /\ 4 \in Nat /\ 0 \in Nat
         /\ 3 + x \in Nat /\ j \in Nat /\ k \in Nat /\ l \in Nat /\ l + 4 \in Nat
    OBVIOUS
  <2>5a. /\ a1 \in Seq(U) /\ Len(a1) = x /\ a3 \in Seq(U) /\ Len(a3) = y
        /\ a4 \in Seq(U) /\ Len(a4) = z
    BY <2>4, <2>5, <2>6, Zenon
  <2>11. c1 \in Seq(U) /\ Len(c1) = 3 + x /\ Follows(c1, a0, 3, a1, x)
    <3>1. a0 \in Seq(U) /\ Len(a0) = 3 /\ a1 \in Seq(U) /\ Len(a1) = x /\ 3 \in Nat /\ x \in Nat
      BY <2>5a, <2>8, <2>10, Zenon
    <3>2. ASSUME NEW n \in Nat, Len(a0) = n
          PROVE  c1 \in Seq(U) /\ Len(c1) = n + x /\ Follows(c1, a0, n, a1, x)
      BY <3>1, <3>2, <1>ConcatAt
    <3> QED  BY <3>1, <3>2, Zenon
  <2> HIDE DEF c1
  <2>12. c2 \in Seq(U) /\ Len(c2) = j /\ Follows(c2, c1, 3 + x, a2, 1)
    BY <2>8, <2>10, <2>11, <1>ConcatAt, Zenon
  <2> HIDE DEF c2
  <2>13. c3 \in Seq(U) /\ Len(c3) = k /\ Follows(c3, c2, j, a3, y)
    BY <2>5a, <2>10, <2>12, <1>ConcatAt
  <2> HIDE DEF c3
  <2>14. c4 \in Seq(U) /\ Len(c4) = l /\ Follows(c4, c3, k, a4, z)
    BY <2>5a, <2>10, <2>13, <1>ConcatAt
  <2> HIDE DEF c4
  <2>15. c5 \in Seq(U) /\ Len(c5) = l + 4 /\ Follows(c5, c4, l, a5, 4)
    BY <2>8, <2>10, <2>14, <1>ConcatAt, Zenon
  <2> HIDE DEF c5
  <2>16. Follows(blob, c5, l + 4, a6, 0)
    BY <2>3, <2>10, <2>15, <1>ConcatAt, ZenonT(60)
  <2> HIDE DEF blob, j, k, l
  <2>17. blob[l + 1] = s.ns /\ blob[l + 2] = s.nr /\ blob[l + 3] = s.pn /\ blob[l + 4] = 0
    <3>1. \A i \in 1..4 : blob[l + i] = c5[l + i]
      BY <2>10, <2>16 DEF Follows
    <3> QED  BY <2>9, <2>15, <3>1 DEF Follows
  <2>18. \A i \in 1..l : blob[i] = c4[i]
    BY <2>10, <2>15, <2>16 DEF Follows
  <2>19. z = 1 => blob[l] = s.ckr
    BY <2>6, <2>10, <2>14, <2>18 DEF l, Follows
  <2>20. \A i \in 1..k : blob[i] = c3[i]
    BY <2>10, <2>14, <2>18 DEF l, Follows
  <2>21. y = 1 => blob[k] = s.cks
    BY <2>5, <2>10, <2>13, <2>20 DEF k, Follows
  <2>22. \A i \in 1..j : blob[i] = c2[i]
    BY <2>10, <2>13, <2>20 DEF k, Follows
  <2>23. blob[j] = s.rk
    BY <2>9, <2>10, <2>12, <2>22 DEF j, Follows
  <2>24. \A i \in 1..(3 + x) : blob[i] = c1[i]
    BY <2>10, <2>12, <2>22 DEF j, Follows
  <2>25. x = 1 => blob[4] = s.dhr
    BY <2>4, <2>11, <2>24 DEF Follows
  <2>26. blob[1] = StateVersion /\ blob[2] = s.dhs /\ blob[3] = bits
    <3>1. \A i \in 1..3 : blob[i] = a0[i]
      BY <2>11, <2>24 DEF Follows
    <3> QED  BY <2>9, <3>1
  <2> DEFINE bit(w) == (blob[3] \div w) % 2
             optional(w, at) == IF bit(w) = 1 THEN blob[at] ELSE None
             rk == 4 + bit(1)
             cks == rk + bit(2)
             ckr == cks + bit(4)
             entry(i) == LET at == ckr + 4 + 3 * (i - 1)
                         IN  [dh |-> blob[at + 1], n |-> blob[at + 2], key |-> blob[at + 3]]
             t == [dhs |-> blob[2], dhr |-> optional(1, 4), rk |-> blob[rk],
                   cks |-> optional(2, cks), ckr |-> optional(4, ckr),
                   ns |-> blob[ckr + 1], nr |-> blob[ckr + 2], pn |-> blob[ckr + 3],
                   skipped |-> {entry(i) : i \in 1..blob[ckr + 4]}]
  <2>27. bit(1) = x /\ bit(2) = y /\ bit(4) = z
    <3>1. blob[3] = x + 2 * y + 4 * z
      BY <2>7, <2>26, Zenon
    <3>2. /\ ((x + 2 * y + 4 * z) \div 1) % 2 = x
          /\ ((x + 2 * y + 4 * z) \div 2) % 2 = y
          /\ ((x + 2 * y + 4 * z) \div 4) % 2 = z
      BY <1>BitsApart, ZenonT(60)
    <3> QED  BY <3>1, <3>2, Zenon
  <2>28. rk = j /\ cks = k /\ ckr = l
    BY <2>10, <2>27 DEF j, k, l
  <2>29. /\ optional(1, 4) = s.dhr
         /\ optional(2, k) = s.cks
         /\ optional(4, l) = s.ckr
    BY <2>4, <2>5, <2>6, <2>19, <2>21, <2>25, <2>27, Zenon
  <2>30. FromBytes(blob) = IF blob[1] # StateVersion \/ TooMany(blob[ckr + 4]) THEN {} ELSE {t}
    BY Zenon DEF FromBytes
  <2> HIDE DEF bit, optional, rk, cks, ckr, entry
  <2>31. ~(blob[1] # StateVersion \/ TooMany(blob[ckr + 4]))
    BY <2>17, <2>26, <2>28, RatchetStateAssumption DEF TooMany
  <2>32. {entry(i) : i \in 1..blob[ckr + 4]} = {}
    BY <2>17, <2>28
  <2>33. t = s
    BY <2>17, <2>23, <2>26, <2>28, <2>29, <2>32, Zenon DEF Plain
  <2> QED  BY <2>2, <2>30, <2>31, <2>33, Zenon DEF Loaded
<1> SUFFICES ASSUME NEW s, Plain(s), NEW m
             PROVE  DecryptMessage(s, m, TRUE) =
                      IF Decrypt(s, m, TRUE).ok THEN Decrypt(s, m, TRUE) ELSE Failed(s)
  BY Zenon
<1> DEFINE r == Decrypt(s, m, TRUE)
           opn == {v \in {Decrypt(l, m, TRUE) : l \in Loaded(s)} : v.ok}
<1>1. Loaded(s) = {s}
  BY <1>PlainIsLoaded, Zenon
<1>2. opn = {v \in {r} : v.ok}
  BY <1>1, Zenon
<1>3. DecryptMessage(s, m, TRUE) = IF opn = {} THEN Failed(s) ELSE CHOOSE v \in opn : TRUE
  BY Zenon DEF DecryptMessage
<1> HIDE DEF r, opn
<1>4. CASE r.ok
  <2>1. opn = {r}
    BY <1>2, <1>4, Zenon
  <2>2. (CHOOSE v \in {r} : TRUE) = r
    BY Zenon
  <2> QED  BY <1>3, <1>4, <2>1, <2>2, Zenon DEF r
<1>5. CASE ~r.ok
  <2>1. opn = {}
    BY <1>2, <1>5, Zenon
  <2> QED  BY <1>3, <1>5, <2>1, Zenon DEF r
<1> QED  BY <1>4, <1>5, Zenon

\* There is nothing to skip up to a number that was received.
LEMMA NothingToSkip ==
  ASSUME NEW s, s.nr \in Nat, NEW n \in Nat, n <= s.nr
  PROVE  SkipMessageKeys(s, n) = Done(s)
<1>1. ~(n > s.nr + MaxSkip) /\ n - s.nr <= 0
  BY RatchetStateAssumption
<1> DEFINE none == s.dhr = None \/ s.ckr = None
           far == n > s.nr + MaxSkip
           gap == n - s.nr
           fit == Fit(s, gap)
           more == IF fit = gap THEN Done(PassOver(s, gap, gap))
                   ELSE Failed(PassOver(s, fit, fit + 1))
<1>2. SkipMessageKeys(s, n) =
        IF none THEN Done(s) ELSE IF far THEN Failed(s) ELSE IF gap <= 0 THEN Done(s) ELSE more
  BY Zenon DEF SkipMessageKeys
<1>3. ~far /\ gap <= 0
  BY <1>1, Zenon
<1> HIDE DEF none, far, gap, more
<1> QED  BY <1>2, <1>3, Zenon

\* A message of the receiving chain ...
LEMMA DecryptOnChain ==
  ASSUME NEW s, Plain(s), s.nr \in Nat, NEW m, m.n \in Nat, m.n <= s.nr, s.dhr = m.dh
  PROVE  Decrypt(s, m, TRUE) = OpenNext(s, m, TRUE)
<1>1. s.skipped = {}
  BY DEF Plain
<1>2. Banked(s, m) = {}
  BY <1>1, Zenon DEF Banked
<1>3. SkipMessageKeys(s, m.n) = Done(s)
  BY NothingToSkip, Zenon
<1>4. Done(s).ok /\ Done(s).st = s
  BY Zenon DEF Done
<1> QED  BY <1>2, <1>3, <1>4, Zenon DEF Decrypt

\* ... and the first of another.
LEMMA DecryptOnNext ==
  ASSUME NEW s, Plain(s), s.nr \in Nat, NEW m, m.n = 0, m.pn \in Nat, m.pn <= s.nr, s.dhr # m.dh
  PROVE  Decrypt(s, m, TRUE) = OpenNext(DhRatchet(s, m.dh), m, TRUE)
<1> DEFINE t == DhRatchet(s, m.dh)
<1>1. s.skipped = {}
  BY DEF Plain
<1>2. Banked(s, m) = {}
  BY <1>1, Zenon DEF Banked
<1>3. SkipMessageKeys(s, m.pn) = Done(s)
  BY NothingToSkip, Zenon
<1>4. t.nr = 0
  BY Zenon DEF Plain, DhRatchet
<1> HIDE DEF t
<1>5. SkipMessageKeys(t, m.n) = Done(t)
  BY <1>4, NothingToSkip
<1>6. Done(s).ok /\ Done(s).st = s /\ Done(t).ok /\ Done(t).st = t
  BY Zenon DEF Done
<1> QED  BY <1>2, <1>3, <1>5, <1>6, Zenon DEF Decrypt, t

\* What opens, under which key.
LEMMA OpenNextIs ==
  ASSUME NEW s, Plain(s), NEW m
  PROVE  /\ OpenNext(s, m, TRUE).ok <=> s.ckr # None /\ m.key = s.ckr
         /\ s.ckr # None => OpenNext(s, m, TRUE).st = [s EXCEPT !.ckr = NextCk(s.ckr), !.nr = @ + 1]
BY Zenon DEF OpenNext, Failed

\* A session is a function on its fields.
SessionField == {"dhs", "dhr", "rk", "cks", "ckr", "ns", "nr", "pn", "skipped"}
OnFields(s) == s = [f \in SessionField |-> s[f]]

\* Two sessions with the same fields are the same.
LEMMA SessionIs ==
  ASSUME NEW s, OnFields(s)
  PROVE  s = [dhs |-> s.dhs, dhr |-> s.dhr, rk |-> s.rk, cks |-> s.cks, ckr |-> s.ckr,
              ns |-> s.ns, nr |-> s.nr, pn |-> s.pn, skipped |-> s.skipped]
<1> DEFINE u == [dhs |-> s.dhs, dhr |-> s.dhr, rk |-> s.rk, cks |-> s.cks, ckr |-> s.ckr,
                 ns |-> s.ns, nr |-> s.nr, pn |-> s.pn, skipped |-> s.skipped]
<1>1. OnFields(u)
  BY Zenon DEF OnFields, SessionField
<1>2. \A f \in SessionField : s[f] = u[f]
  BY DEF SessionField
<1> HIDE DEF u
<1>3. s = u
  BY <1>1, <1>2, Zenon DEF OnFields
<1> QED  BY <1>3, Zenon DEF u

\* A plain session has the fields of a session, and has skipped nothing.
LEMMA PlainOnFields ==
  ASSUME NEW s, Plain(s)
  PROVE  OnFields(s) /\ s.skipped = {}
<1>1. s.skipped = {}
  BY DEF Plain
<1>2. OnFields(s)
  BY Zenon DEF Plain, OnFields, SessionField
<1> QED  BY <1>1, <1>2, Zenon

\* The state after a ratchet step, field by field.
Ratcheted(dhs, dhr, rk1, rk2, pn) ==
  [dhs |-> dhs, dhr |-> dhr, rk |-> rk2, cks |-> Chain(rk2, 0), ckr |-> Chain(rk1, 0),
   ns |-> 0, nr |-> 0, pn |-> pn, skipped |-> {}]

\* DhRatchet of a plain session.
LEMMA DhRatchetIs ==
  ASSUME NEW s, Plain(s), NEW o, s.dhs = <<o, 0>>, NEW dh
  PROVE  DhRatchet(s, dh) =
           Ratcheted(<<o, 1>>, dh, Append(s.rk, {s.dhs, dh}),
                     Append(Append(s.rk, {s.dhs, dh}), {<<o, 1>>, dh}), s.ns)
<1> DEFINE rk1 == Append(s.rk, {s.dhs, dh})
           rk2 == Append(rk1, {<<o, 1>>, dh})
           t == [s EXCEPT !.pn = s.ns, !.ns = 0, !.nr = 0, !.dhr = dh, !.ckr = Chain(rk1, 0),
                          !.dhs = <<o, 1>>, !.rk = rk2, !.cks = Chain(rk2, 0)]
<1>1. DhRatchet(s, dh) = t
  <2>1. <<s.dhs[1], s.dhs[2] + 1>> = <<o, 1>>
    OBVIOUS
  <2>2. /\ KdfRk(s.rk, {s.dhs, dh}).rk = rk1 /\ KdfRk(s.rk, {s.dhs, dh}).ck = Chain(rk1, 0)
        /\ KdfRk(rk1, {<<o, 1>>, dh}).rk = rk2
        /\ KdfRk(rk1, {<<o, 1>>, dh}).ck = Chain(rk2, 0)
    BY Zenon DEF KdfRk, Chain
  <2> QED  BY <2>1, <2>2, Zenon DEF DhRatchet, DiffieHellman
<1> HIDE DEF rk1, rk2
<1>2. OnFields(s) /\ s.skipped = {}
  BY PlainOnFields, Zenon
<1>3. OnFields(t)
  BY <1>2, Zenon DEF OnFields
<1>4. /\ t.dhs = <<o, 1>> /\ t.dhr = dh /\ t.rk = rk2 /\ t.cks = Chain(rk2, 0)
      /\ t.ckr = Chain(rk1, 0) /\ t.ns = 0 /\ t.nr = 0 /\ t.pn = s.ns /\ t.skipped = {}
  BY <1>2, Zenon DEF OnFields, SessionField
<1> HIDE DEF t
<1>5. t = Ratcheted(<<o, 1>>, dh, rk1, rk2, s.ns)
  BY <1>3, <1>4, SessionIs, Zenon DEF Ratcheted
<1> QED  BY <1>1, <1>5, Zenon DEF rk1, rk2

\* The sessions of a run have no skipped keys.
LEMMA SessionsArePlain ==
  ASSUME NEW r
  PROVE  /\ Plain(Bob0(r)) /\ Plain(Bob1(r))
         /\ \A n : Plain(Alice(r, n)) /\ Plain(BobHeard(r, n))
         /\ \A root, key : Plain(ResponderState(root, key))
BY Zenon DEF Plain, Bob0, Bob1, Alice, BobHeard, ResponderState

\* What the session that Alice accepts makes of the hello of run r.
Accepted(r, q, x) == DecryptMessage(ResponderState(<<x>>, Prekey(q, 0)), Hello(r), TRUE)

\* Alice opens hello only with the root and the prekey of its run, and then she does.
LEMMA AliceOpens ==
  ASSUME NEW r \in Run, NEW q \in Run, NEW x
  PROVE  /\ Accepted(r, q, x).ok => Accepted(r, q, x).st = Alice(r, 0)
         /\ q = r /\ x = Initiated(r).root => Accepted(r, q, x).ok
<1> DEFINE s == ResponderState(<<x>>, Prekey(q, 0))
           d == DecryptMessage(s, Hello(r), TRUE)
<1>0. s = ResponderState(<<x>>, Prekey(q, 0)) /\ d = DecryptMessage(s, Hello(r), TRUE)
  BY Zenon
<1>a. Accepted(r, q, x) = d
  BY Zenon DEF Accepted
<1> HIDE DEF s, d
<1> DEFINE m == Hello(r)
           b == BobKey(r, 0)
           rk1 == Append(<<x>>, {Prekey(q, 0), b})
           rk2 == Append(rk1, {Prekey(q, 1), b})
           t == [dhs |-> Prekey(q, 1), dhr |-> b, rk |-> rk2, cks |-> Chain(rk2, 0),
                ckr |-> Chain(rk1, 0), ns |-> 0, nr |-> 0, pn |-> 0, skipped |-> {}]
           e == OpenNext(t, m, TRUE)
<1>1. m.dh = b /\ m.pn = 0 /\ m.n = 0 /\ m.key = Chain(Root1(r), 0)
  BY Zenon DEF Hello
<1>2. Plain(s) /\ s.nr = 0 /\ s.dhr = None /\ s.dhs = Prekey(q, 0) /\ s.rk = <<x>> /\ s.ns = 0
      /\ s.ckr = None
  BY <1>0, SessionsArePlain, Zenon DEF ResponderState
<1>3. b # None
  BY NoneAssumption, Zenon
<1>4. DhRatchet(s, b) = t
  <2>1. s.dhs = <<<<"signed prekey", q>>, 0>>
    BY <1>2, Zenon DEF Prekey
  <2>2. <<<<"signed prekey", q>>, 1>> = Prekey(q, 1)
    BY Zenon DEF Prekey
  <2>3. t = Ratcheted(Prekey(q, 1), b, rk1, rk2, 0)
    BY Zenon DEF Ratcheted
  <2> HIDE DEF b, t
  <2> QED  BY <1>2, <2>1, <2>2, <2>3, DhRatchetIs, Zenon
<1>5. Decrypt(s, m, TRUE) = e
  <2>1. m.pn \in Nat /\ m.pn <= s.nr /\ s.nr \in Nat
    BY <1>1, <1>2
  <2> HIDE DEF m, t, b
  <2> QED  BY <1>1, <1>2, <1>3, <1>4, <2>1, DecryptOnNext, Zenon
<1>6. d = IF e.ok THEN e ELSE Failed(s)
  BY <1>0, <1>2, <1>5, DecryptMessageIs, Zenon
<1>7. ~Failed(s).ok
  BY Zenon DEF Failed
<1>8. /\ e.ok <=> t.ckr # None /\ m.key = t.ckr
      /\ t.ckr # None => e.st = [t EXCEPT !.ckr = NextCk(t.ckr), !.nr = @ + 1]
  <2>1. Plain(t)
    BY Zenon DEF Plain
  <2> HIDE DEF t, m
  <2> QED  BY <2>1, OpenNextIs, Zenon
<1>9. t.ckr = Chain(rk1, 0)
  BY Zenon
<1>10. Chain(Root1(r), 0) = Chain(rk1, 0) <=> Root1(r) = rk1
  BY Zenon DEF Chain
<1>11. Root1(r) = rk1 => x = Initiated(r).root /\ {Prekey(q, 0), b} = {b, Prekey(r, 0)}
  <2> DEFINE y == Initiated(r).root
             S == {x, y, {Prekey(q, 0), b}, {b, Prekey(r, 0)}}
  <2>1. /\ <<x>> \in Seq(S) /\ <<y>> \in Seq(S)
        /\ {Prekey(q, 0), b} \in S /\ {b, Prekey(r, 0)} \in S
    OBVIOUS
  <2>2. Root1(r) = Append(<<y>>, {b, Prekey(r, 0)})
    BY Zenon DEF Root1
  <2> HIDE DEF S, y
  <2>3. Root1(r) = rk1 => <<x>> = <<y>> /\ {Prekey(q, 0), b} = {b, Prekey(r, 0)}
    <3> DEFINE u == <<x>>
               v == <<y>>
               i == {Prekey(q, 0), b}
               j == {b, Prekey(r, 0)}
    <3>1. u \in Seq(S) /\ v \in Seq(S) /\ i \in S /\ j \in S
      BY <2>1, Zenon
    <3>2. rk1 = Append(u, i) /\ Root1(r) = Append(v, j)
      BY <2>2, Zenon
    <3> HIDE DEF b, u, v, i, j, rk1
    <3>3. Append(u, i) = Append(v, j) => u = v /\ i = j
      BY <3>1, AppendApart
    <3>4. Root1(r) = rk1 => u = v /\ i = j
      BY <3>2, <3>3, Zenon
    <3> QED  BY <3>4, Zenon DEF u, v, i, j
  <2>4. <<x>> = <<y>> => x = y
    BY Zenon
  <2> QED  BY <2>3, <2>4, Zenon DEF y
<1>12. {Prekey(q, 0), b} = {b, Prekey(r, 0)} => q = r
  <2>1. Prekey(q, 0) # b /\ (Prekey(q, 0) = Prekey(r, 0) => q = r)
    BY Zenon DEF Prekey, BobKey
  <2> HIDE DEF b
  <2> QED  BY <2>1, Zenon
<1>13. q = r /\ x = Initiated(r).root => rk1 = Root1(r) /\ rk2 = Root2(r)
  <2>1. {Prekey(r, 0), b} = {b, Prekey(r, 0)}
    BY Zenon
  <2> QED  BY <2>1, Zenon DEF Root1, Root2
<1>14. Chain(Root1(r), 0) # None
  BY NoneAssumption, Zenon
<1>15. d.ok <=> e.ok
  BY <1>6, <1>7, Zenon
<1>16. e.ok => q = r /\ x = Initiated(r).root
  BY <1>1, <1>8, <1>9, <1>10, <1>11, <1>12, Zenon
<1>17. q = r /\ x = Initiated(r).root => e.ok
  BY <1>1, <1>8, <1>9, <1>13, <1>14, Zenon
<1>18. ASSUME e.ok PROVE e.st = Alice(r, 0)
  <2>1. t = [dhs |-> Prekey(r, 1), dhr |-> b, rk |-> Root2(r), cks |-> Chain(Root2(r), 0),
             ckr |-> Chain(Root1(r), 0), ns |-> 0, nr |-> 0, pn |-> 0, skipped |-> {}]
    BY <1>13, <1>16, <1>18, Zenon
  <2>2. e.st = [t EXCEPT !.ckr = NextCk(t.ckr), !.nr = @ + 1]
    BY <1>8, <1>18, Zenon
  <2>3. NextCk(Chain(Root1(r), 0)) = Chain(Root1(r), 1)
    BY DEF NextCk, Chain
  <2> HIDE DEF t, e, b
  <2>4. e.st = [dhs |-> Prekey(r, 1), dhr |-> b, rk |-> Root2(r), cks |-> Chain(Root2(r), 0),
                ckr |-> Chain(Root1(r), 1), ns |-> 0, nr |-> 1, pn |-> 0, skipped |-> {}]
    <3>1. t.ckr = Chain(Root1(r), 0) /\ t.nr + 1 = 1
      BY <2>1
    <3>2. e.st = [t EXCEPT !.ckr = Chain(Root1(r), 1), !.nr = 1]
      BY <2>2, <2>3, <3>1, Zenon
    <3> QED  BY <2>1, <3>2, ZenonT(30)
  <2> QED  BY <2>4, Zenon DEF Alice, b
<1> HIDE DEF e
<1>19. (d.ok => d.st = Alice(r, 0)) /\ (q = r /\ x = Initiated(r).root => d.ok)
  BY <1>6, <1>15, <1>16, <1>17, <1>18, Zenon
<1> QED  BY <1>a, <1>19, Zenon

\* A session in which the receiving chain has moved.
LEMMA ReceivedIs ==
  ASSUME NEW s, Plain(s), NEW c, NEW n
  PROVE  [s EXCEPT !.ckr = c, !.nr = n] =
           [dhs |-> s.dhs, dhr |-> s.dhr, rk |-> s.rk, cks |-> s.cks, ckr |-> c,
            ns |-> s.ns, nr |-> n, pn |-> s.pn, skipped |-> {}]
<1> DEFINE t == [s EXCEPT !.ckr = c, !.nr = n]
<1>1. OnFields(s) /\ s.skipped = {}
  BY PlainOnFields, Zenon
<1>2. OnFields(t)
  BY <1>1, Zenon DEF OnFields
<1>3. /\ t.dhs = s.dhs /\ t.dhr = s.dhr /\ t.rk = s.rk /\ t.cks = s.cks
      /\ t.ckr = c /\ t.ns = s.ns /\ t.nr = n /\ t.pn = s.pn /\ t.skipped = {}
  BY <1>1, Zenon DEF OnFields, SessionField
<1> HIDE DEF t
<1>4. t = [dhs |-> s.dhs, dhr |-> s.dhr, rk |-> s.rk, cks |-> s.cks, ckr |-> c,
           ns |-> s.ns, nr |-> n, pn |-> s.pn, skipped |-> {}]
  BY <1>2, <1>3, SessionIs, Zenon
<1> QED  BY <1>4, Zenon DEF t

\* Bob's session opens the reply only if it is of the same run, ...
LEMMA BobOpensOwn ==
  ASSUME NEW r \in Run, NEW q \in Run, NEW v \in BobSessions(q),
         DecryptMessage(v, Reply(r), TRUE).ok
  PROVE  q = r
<1> DEFINE m == Reply(r)
           p == Prekey(r, 1)
           e == DhRatchet(v, p)
<1>1. m.dh = p /\ m.pn = 0 /\ m.n = 0 /\ m.key = Chain(Root2(r), 0)
  BY Zenon DEF Reply
<1>2. /\ Plain(v) /\ v.nr \in Nat
      /\ \E n \in {0, 1} : v.dhs = BobKey(q, n) /\ v.dhr = Prekey(q, n)
      /\ v.rk \in {Root1(q), Root3(q)}
  <2>1. v \in {Bob0(q), Bob1(q), BobHeard(q, 1), BobHeard(q, 2)}
    BY Zenon DEF BobSessions
  <2>2. Plain(v)
    BY <2>1, SessionsArePlain, Zenon
  <2>3. CASE v = Bob0(q)
    BY <2>2, <2>3, SMTT(30) DEF Bob0
  <2>4. CASE v = Bob1(q)
    BY <2>2, <2>4, SMTT(30) DEF Bob1
  <2>5. CASE v = BobHeard(q, 1)
    BY <2>2, <2>5, SMTT(30) DEF BobHeard
  <2>6. CASE v = BobHeard(q, 2)
    BY <2>2, <2>6, SMTT(30) DEF BobHeard
  <2> QED  BY <2>1, <2>3, <2>4, <2>5, <2>6, Zenon
<1> SUFFICES ASSUME q # r PROVE FALSE
  BY Zenon
<1>3. v.dhr # p
  <2>1. PICK n \in {0, 1} : v.dhr = Prekey(q, n)
    BY <1>2, Zenon
  <2>2. Prekey(q, n)[1][2] = q /\ Prekey(r, 1)[1][2] = r
    BY Zenon DEF Prekey
  <2> QED  BY <2>1, <2>2, Zenon
<1>4. Decrypt(v, m, TRUE) = OpenNext(e, m, TRUE)
  <2>1. m.pn \in Nat /\ m.pn <= v.nr
    BY <1>1, <1>2
  <2> HIDE DEF m, p
  <2> QED  BY <1>1, <1>2, <1>3, <2>1, DecryptOnNext, Zenon DEF e
<1>5. OpenNext(e, m, TRUE).ok
  <2>1. ~Failed(v).ok
    BY Zenon DEF Failed
  <2> QED  BY <1>2, <1>4, <2>1, DecryptMessageIs, Zenon
<1>6. e.ckr = Chain(Append(v.rk, {v.dhs, p}), 0) /\ Plain(e)
  <2>1. e.ckr = KdfRk(v.rk, {v.dhs, p}).ck /\ OnFields(e) /\ e.skipped = {}
    <3>1. OnFields(v) /\ v.skipped = {}
      BY <1>2, PlainOnFields, Zenon
    <3> HIDE DEF p
    <3>2. OnFields(e)
      BY <3>1, Zenon DEF DhRatchet, OnFields
    <3>3. e.ckr = KdfRk(v.rk, {v.dhs, p}).ck /\ e.skipped = {}
      BY <3>1, Zenon DEF DhRatchet, DiffieHellman, OnFields, SessionField
    <3> QED  BY <3>2, <3>3, Zenon
  <2>2. KdfRk(v.rk, {v.dhs, p}).ck = Chain(Append(v.rk, {v.dhs, p}), 0)
    BY Zenon DEF KdfRk, Chain
  <2> HIDE DEF e
  <2>3. e = [dhs |-> e.dhs, dhr |-> e.dhr, rk |-> e.rk, cks |-> e.cks, ckr |-> e.ckr,
             ns |-> e.ns, nr |-> e.nr, pn |-> e.pn, skipped |-> e.skipped]
    BY <2>1, SessionIs, Zenon
  <2> QED  BY <2>1, <2>2, <2>3, Zenon DEF Plain
<1>7. Chain(Root2(r), 0) = Chain(Append(v.rk, {v.dhs, p}), 0)
  BY <1>1, <1>5, <1>6, OpenNextIs, Zenon
<1>8. Root2(r) = Append(v.rk, {v.dhs, p})
  BY <1>7, Zenon DEF Chain
<1>9. v.rk[1] = Initiated(q).root /\ v.rk \in Seq(Mixed(q)) /\ Len(v.rk) > 1
  <2>1. /\ Root1(q)[1] = Initiated(q).root /\ Root1(q) \in Seq(Mixed(q)) /\ Len(Root1(q)) = 2
        /\ Root3(q)[1] = Initiated(q).root /\ Root3(q) \in Seq(Mixed(q)) /\ Len(Root3(q)) = 4
    BY RootsAre, Zenon
  <2>2. 2 > 1 /\ 4 > 1
    OBVIOUS
  <2> QED  BY <1>2, <2>1, <2>2, Zenon
<1>10. Append(v.rk, {v.dhs, p})[1] = v.rk[1]
  BY <1>9
<1>11. Root2(r)[1] = Initiated(r).root
  BY RootsAre, Zenon
<1> QED  BY <1>8, <1>9, <1>10, <1>11, RootIsOfRun, Zenon

\* ... the session that said hello does, ...
LEMMA BobOpensReply ==
  ASSUME NEW r \in Run
  PROVE  DecryptMessage(Bob1(r), Reply(r), TRUE) = Done(BobHeard(r, 1))
<1> DEFINE m == Reply(r)
           s == Bob1(r)
           p == Prekey(r, 1)
           t == Ratcheted(BobKey(r, 1), p, Root2(r), Root3(r), 1)
           e == OpenNext(t, m, TRUE)
<1>1. m.dh = p /\ m.pn = 0 /\ m.n = 0 /\ m.key = Chain(Root2(r), 0)
  BY Zenon DEF Reply
<1>2. /\ Plain(s) /\ s.nr = 0 /\ s.dhr = Prekey(r, 0) /\ s.dhs = BobKey(r, 0) /\ s.rk = Root1(r)
      /\ s.ns = 1
  BY SessionsArePlain, Zenon DEF Bob1
<1>3. Prekey(r, 0) # p
  BY DEF Prekey
<1>4. DhRatchet(s, p) = t
  <2>1. s.dhs = <<<<"bob ratchet", r>>, 0>>
    BY <1>2, Zenon DEF BobKey
  <2>2. <<<<"bob ratchet", r>>, 1>> = BobKey(r, 1)
    BY Zenon DEF BobKey
  <2>3. DhRatchet(s, p) =
           Ratcheted(BobKey(r, 1), p, Append(Root1(r), {BobKey(r, 0), p}),
                     Append(Append(Root1(r), {BobKey(r, 0), p}), {BobKey(r, 1), p}), 1)
    <3> HIDE DEF p, s
    <3> QED  BY <1>2, <2>1, <2>2, DhRatchetIs, Zenon
  <2>4. Append(Root1(r), {BobKey(r, 0), p}) = Root2(r)
    <3>1. {BobKey(r, 0), p} = {p, BobKey(r, 0)}
      BY Zenon
    <3> QED  BY <3>1, Zenon DEF Root2
  <2>5. Append(Root2(r), {BobKey(r, 1), p}) = Root3(r)
    BY Zenon DEF Root3
  <2> QED  BY <2>3, <2>4, <2>5, Zenon
<1>5. Decrypt(s, m, TRUE) = e
  <2>1. m.pn \in Nat /\ m.pn <= s.nr /\ s.nr \in Nat
    BY <1>1, <1>2
  <2> HIDE DEF m, t, s, p
  <2> QED  BY <1>1, <1>2, <1>3, <1>4, <2>1, DecryptOnNext, Zenon
<1>6. t.ckr = Chain(Root2(r), 0) /\ t.nr = 0 /\ Plain(t)
  BY Zenon DEF Ratcheted, Plain
<1>7. Chain(Root2(r), 0) # None
  BY NoneAssumption, Zenon
<1>8. e = Done([t EXCEPT !.ckr = NextCk(t.ckr), !.nr = @ + 1])
  <2> HIDE DEF t, m
  <2> QED  BY <1>1, <1>6, <1>7, Zenon DEF OpenNext, Done
<1>9. [t EXCEPT !.ckr = NextCk(t.ckr), !.nr = @ + 1] = BobHeard(r, 1)
  <2>1. NextCk(t.ckr) = Chain(Root2(r), 1)
    BY <1>6 DEF NextCk, Chain
  <2>2. t.nr + 1 = 1
    BY <1>6
  <2>3. [t EXCEPT !.ckr = Chain(Root2(r), 1), !.nr = 1] = BobHeard(r, 1)
    <3>1. /\ t.dhs = BobKey(r, 1) /\ t.dhr = p /\ t.rk = Root3(r) /\ t.cks = Chain(Root3(r), 0)
          /\ t.ns = 0 /\ t.pn = 1
      BY Zenon DEF Ratcheted
    <3> HIDE DEF t
    <3>2. Plain(t)
      BY <1>6, Zenon
    <3>3. [t EXCEPT !.ckr = Chain(Root2(r), 1), !.nr = 1] =
            [dhs |-> t.dhs, dhr |-> t.dhr, rk |-> t.rk, cks |-> t.cks, ckr |-> Chain(Root2(r), 1),
             ns |-> t.ns, nr |-> 1, pn |-> t.pn, skipped |-> {}]
      BY <3>2, ReceivedIs, Zenon
    <3> QED  BY <3>1, <3>3, Zenon DEF BobHeard
  <2> QED  BY <2>1, <2>2, <2>3, Zenon
<1>10. Done(BobHeard(r, 1)).ok
  BY Zenon DEF Done
<1> HIDE DEF e, t, s, m
<1>11. DecryptMessage(s, m, TRUE) =
         IF Decrypt(s, m, TRUE).ok THEN Decrypt(s, m, TRUE) ELSE Failed(s)
  BY <1>2, DecryptMessageIs, Zenon
<1> QED  BY <1>5, <1>8, <1>9, <1>10, <1>11, Zenon DEF s, m

\* ... and so does, for the media descriptor, the one that opened the reply.
LEMMA BobOpensMedia ==
  ASSUME NEW r \in Run
  PROVE  DecryptMessage(BobHeard(r, 1), Media(r), TRUE) = Done(BobHeard(r, 2))
<1> DEFINE m == Media(r)
           s == BobHeard(r, 1)
           e == OpenNext(s, m, TRUE)
<1>1. m.dh = Prekey(r, 1) /\ m.n = 1 /\ m.key = Chain(Root2(r), 1)
  BY Zenon DEF Media
<1>2. Plain(s) /\ s.nr = 1 /\ s.dhr = Prekey(r, 1) /\ s.ckr = Chain(Root2(r), 1)
  BY SessionsArePlain, Zenon DEF BobHeard
<1>3. Decrypt(s, m, TRUE) = e
  <2>1. m.n \in Nat /\ m.n <= s.nr /\ s.nr \in Nat
    BY <1>1, <1>2
  <2> HIDE DEF m, s
  <2> QED  BY <1>1, <1>2, <2>1, DecryptOnChain, Zenon
<1>4. Chain(Root2(r), 1) # None
  BY NoneAssumption, Zenon
<1>5. e = Done([s EXCEPT !.ckr = NextCk(s.ckr), !.nr = @ + 1])
  <2> HIDE DEF s, m
  <2> QED  BY <1>1, <1>2, <1>4, Zenon DEF OpenNext, Done
<1>6. [s EXCEPT !.ckr = NextCk(s.ckr), !.nr = @ + 1] = BobHeard(r, 2)
  <2>1. NextCk(s.ckr) = Chain(Root2(r), 2)
    BY <1>2 DEF NextCk, Chain
  <2>2. s.nr + 1 = 2
    BY <1>2
  <2>3. [s EXCEPT !.ckr = Chain(Root2(r), 2), !.nr = 2] = BobHeard(r, 2)
    <3>1. /\ s.dhs = BobKey(r, 1) /\ s.rk = Root3(r) /\ s.cks = Chain(Root3(r), 0)
          /\ s.ns = 0 /\ s.pn = 1
      BY Zenon DEF BobHeard
    <3> HIDE DEF s
    <3>2. Plain(s)
      BY <1>2, Zenon
    <3>3. [s EXCEPT !.ckr = Chain(Root2(r), 2), !.nr = 2] =
            [dhs |-> s.dhs, dhr |-> s.dhr, rk |-> s.rk, cks |-> s.cks, ckr |-> Chain(Root2(r), 2),
             ns |-> s.ns, nr |-> 2, pn |-> s.pn, skipped |-> {}]
      BY <3>2, ReceivedIs, Zenon
    <3> QED  BY <1>2, <3>1, <3>3, Zenon DEF BobHeard
  <2> QED  BY <2>1, <2>2, <2>3, Zenon
<1>7. Done(BobHeard(r, 2)).ok
  BY Zenon DEF Done
<1> HIDE DEF e, s, m
<1>8. DecryptMessage(s, m, TRUE) = IF Decrypt(s, m, TRUE).ok THEN Decrypt(s, m, TRUE) ELSE Failed(s)
  BY <1>2, DecryptMessageIs, Zenon
<1> QED  BY <1>3, <1>5, <1>6, <1>7, <1>8, Zenon DEF s, m

\* A session that has consumed a message does not decrypt it again.
LEMMA SessionsRefuse ==
  \A r :
    /\ \A s \in AliceSessions(r) : ~DecryptMessage(s, Hello(r), TRUE).ok
    /\ \A s \in {BobHeard(r, 1), BobHeard(r, 2)} : ~DecryptMessage(s, Reply(r), TRUE).ok
    /\ ~DecryptMessage(BobHeard(r, 2), Media(r), TRUE).ok
\* A message that was opened does not open again.
<1>OpenedIsSpent.
    ASSUME NEW s, Plain(s), NEW m, s.dhr = m.dh, s.nr \in Nat, m.n \in Nat, m.n < s.nr,
           NEW root, NEW i, s.ckr = Chain(root, i), NEW j, m.key = Chain(root, j), i # j
    PROVE  ~DecryptMessage(s, m, TRUE).ok
  <2> USE <1>OpenedIsSpent
  <2>1. Decrypt(s, m, TRUE) = OpenNext(s, m, TRUE)
    <3>1. m.n <= s.nr
      OBVIOUS
    <3> QED  BY <3>1, DecryptOnChain, Zenon
  <2>2. Chain(root, i) # Chain(root, j)
    BY Zenon DEF Chain
  <2>3. ~OpenNext(s, m, TRUE).ok
    BY <2>2, OpenNextIs, Zenon
  <2>4. ~Failed(s).ok
    BY Zenon DEF Failed
  <2> QED  BY <2>1, <2>3, <2>4, DecryptMessageIs, Zenon
<1> TAKE r
<1>1. ASSUME NEW s \in AliceSessions(r)
      PROVE  ~DecryptMessage(s, Hello(r), TRUE).ok
  <2> DEFINE m == Hello(r)
  <2>1. s \in {Alice(r, 0), Alice(r, 1), Alice(r, 2)}
    BY <1>1, Zenon DEF AliceSessions
  <2>2. Plain(s)
    BY <2>1, SessionsArePlain, Zenon
  <2>3. /\ s.dhr = m.dh /\ s.nr \in Nat /\ m.n \in Nat /\ m.n < s.nr
        /\ s.ckr = Chain(Root1(r), 1) /\ m.key = Chain(Root1(r), 0) /\ 1 # 0
    BY <2>1 DEF Alice, Hello
  <2> HIDE DEF m
  <2>4. ~DecryptMessage(s, m, TRUE).ok
    BY <2>2, <2>3, <1>OpenedIsSpent, Zenon
  <2> QED  BY <2>4, Zenon DEF m
<1>2. ASSUME NEW n \in {1, 2}
      PROVE  ~DecryptMessage(BobHeard(r, n), Reply(r), TRUE).ok
  <2> DEFINE m == Reply(r)
             s == BobHeard(r, n)
  <2>1. Plain(s)
    BY SessionsArePlain, Zenon
  <2>2. /\ s.dhr = m.dh /\ s.nr \in Nat /\ m.n \in Nat /\ m.n < s.nr
        /\ s.ckr = Chain(Root2(r), n) /\ m.key = Chain(Root2(r), 0) /\ n # 0
    BY DEF BobHeard, Reply
  <2> HIDE DEF m, s
  <2>3. ~DecryptMessage(s, m, TRUE).ok
    BY <2>1, <2>2, <1>OpenedIsSpent, Zenon
  <2> QED  BY <2>3, Zenon DEF m, s
<1>3. ~DecryptMessage(BobHeard(r, 2), Media(r), TRUE).ok
  <2> DEFINE m == Media(r)
             s == BobHeard(r, 2)
  <2>1. Plain(s)
    BY SessionsArePlain, Zenon
  <2>2. /\ s.dhr = m.dh /\ s.nr \in Nat /\ m.n \in Nat /\ m.n < s.nr
        /\ s.ckr = Chain(Root2(r), 2) /\ m.key = Chain(Root2(r), 1) /\ 2 # 1
    BY DEF BobHeard, Media
  <2> HIDE DEF m, s
  <2>3. ~DecryptMessage(s, m, TRUE).ok
    BY <2>1, <2>2, <1>OpenedIsSpent, Zenon
  <2> QED  BY <2>3, Zenon DEF m, s
<1> QED  BY <1>1, <1>2, <1>3, Zenon

\* Bob's session is the first of the run's.
LEMMA BobBegins ==
  ASSUME NEW r
  PROVE  BobSession(r) = Bob0(r) /\ Secrets(r).signed = Prekey(r, 0)
<1>1. Secrets(r).signed = Prekey(r, 0)
  BY Zenon DEF Secrets, PrekeySecrets, Prekey
<1> DEFINE kdf == KdfRk(<<Initiated(r).root>>, {BobKey(r, 0), Prekey(r, 0)})
<1>2. kdf.rk = Root1(r) /\ kdf.ck = Chain(Root1(r), 0)
  BY Zenon DEF KdfRk, Root1, Chain
<1>3. BobSession(r) = [dhs |-> BobKey(r, 0), dhr |-> Prekey(r, 0), rk |-> kdf.rk, cks |-> kdf.ck,
                       ckr |-> None, ns |-> 0, nr |-> 0, pn |-> 0, skipped |-> {}]
  BY <1>1, Zenon DEF BobSession, InitiatorState, DiffieHellman, BobKey
<1> HIDE DEF kdf
<1> QED  BY <1>1, <1>2, <1>3, Zenon DEF Bob0

\* The three messages, and the sessions after them.
LEMMA SessionsSend ==
  \A r :
    /\ Sealed(Bob0(r), <<"hello", r>>) = Hello(r) /\ AfterSend(Bob0(r)) = Bob1(r)
    /\ Sealed(Alice(r, 0), <<"reply", r>>) = Reply(r) /\ AfterSend(Alice(r, 0)) = Alice(r, 1)
    /\ Sealed(Alice(r, 1), <<"media", r>>) = Media(r) /\ AfterSend(Alice(r, 1)) = Alice(r, 2)
\* A session in which the sending chain has moved.
<1>SentIs.
    ASSUME NEW s, Plain(s), NEW root, NEW i \in Nat, s.cks = Chain(root, i), s.ns = i
    PROVE  AfterSend(s) =
             [dhs |-> s.dhs, dhr |-> s.dhr, rk |-> s.rk, cks |-> Chain(root, i + 1), ckr |-> s.ckr,
              ns |-> i + 1, nr |-> s.nr, pn |-> s.pn, skipped |-> {}]
  <2> USE <1>SentIs
  <2> DEFINE c == Chain(root, i + 1)
             t == [s EXCEPT !.cks = c, !.ns = i + 1]
  <2>1. OnFields(s) /\ s.skipped = {}
    BY PlainOnFields, Zenon
  <2>2. NextCk(s.cks) = c
    BY DEF NextCk, Chain
  <2>3. AfterSend(s) = t
    BY <2>2, Zenon DEF AfterSend
  <2> HIDE DEF c
  <2>4. OnFields(t)
    BY <2>1, Zenon DEF OnFields
  <2>5. /\ t.dhs = s.dhs /\ t.dhr = s.dhr /\ t.rk = s.rk /\ t.cks = c
        /\ t.ckr = s.ckr /\ t.ns = i + 1 /\ t.nr = s.nr /\ t.pn = s.pn /\ t.skipped = {}
    BY <2>1, Zenon DEF OnFields, SessionField
  <2> HIDE DEF t
  <2>6. t = [dhs |-> s.dhs, dhr |-> s.dhr, rk |-> s.rk, cks |-> c, ckr |-> s.ckr,
             ns |-> i + 1, nr |-> s.nr, pn |-> s.pn, skipped |-> {}]
    BY <2>4, <2>5, SessionIs, Zenon
  <2> QED  BY <2>3, <2>6, Zenon DEF c
<1> TAKE r
<1>1. /\ Sealed(Bob0(r), <<"hello", r>>) = Hello(r)
      /\ Sealed(Alice(r, 0), <<"reply", r>>) = Reply(r)
      /\ Sealed(Alice(r, 1), <<"media", r>>) = Media(r)
  BY Zenon DEF Sealed, Bob0, Alice, Hello, Reply, Media
<1>2. AfterSend(Bob0(r)) = Bob1(r)
  <2> DEFINE s == Bob0(r)
  <2>1. /\ s.dhs = BobKey(r, 0) /\ s.dhr = Prekey(r, 0) /\ s.rk = Root1(r)
        /\ s.cks = Chain(Root1(r), 0) /\ s.ckr = None /\ s.ns = 0 /\ s.nr = 0 /\ s.pn = 0
    BY Zenon DEF Bob0
  <2>2. Plain(s) /\ 0 \in Nat /\ 0 + 1 = 1
    BY SessionsArePlain
  <2> HIDE DEF s
  <2>3. AfterSend(s) =
          [dhs |-> s.dhs, dhr |-> s.dhr, rk |-> s.rk, cks |-> Chain(Root1(r), 0 + 1), ckr |-> s.ckr,
           ns |-> 0 + 1, nr |-> s.nr, pn |-> s.pn, skipped |-> {}]
    BY <2>1, <2>2, <1>SentIs, Zenon
  <2> QED  BY <2>1, <2>2, <2>3, Zenon DEF Bob1, s
<1>3. ASSUME NEW n \in Nat PROVE AfterSend(Alice(r, n)) = Alice(r, n + 1)
  <2> DEFINE s == Alice(r, n)
  <2>1. /\ s.dhs = Prekey(r, 1) /\ s.dhr = BobKey(r, 0) /\ s.rk = Root2(r)
        /\ s.cks = Chain(Root2(r), n) /\ s.ckr = Chain(Root1(r), 1) /\ s.ns = n /\ s.nr = 1
        /\ s.pn = 0
    BY Zenon DEF Alice
  <2>2. Plain(s)
    BY SessionsArePlain, Zenon
  <2> HIDE DEF s
  <2>3. AfterSend(s) =
          [dhs |-> s.dhs, dhr |-> s.dhr, rk |-> s.rk, cks |-> Chain(Root2(r), n + 1), ckr |-> s.ckr,
           ns |-> n + 1, nr |-> s.nr, pn |-> s.pn, skipped |-> {}]
    BY <2>1, <2>2, <1>SentIs, ZenonT(60)
  <2> QED  BY <2>1, <2>3, Zenon DEF Alice, s
<1>4. 0 \in Nat /\ 1 \in Nat /\ 0 + 1 = 1 /\ 1 + 1 = 2
  OBVIOUS
<1> QED  BY <1>1, <1>2, <1>3, <1>4, Zenon

\* The two sides of a run's handshake agree on the root.
LEMMA HandshakeAgrees ==
  ASSUME NEW r
  PROVE  /\ Responds(Bundle(r), Handshake(r))
         /\ RespondRoot(Bundle(r), Secrets(r), Handshake(r)) = Initiated(r).root
<1> DEFINE b == Bundle(r)
           s == Secrets(r)
           eph == <<<<"ephemeral", r>>, 0>>
           ct == Encapsulate(s.kem, r)
           script == Transcript(b, BobId(r), eph, ct)
           m == Handshake(r)
<1>1. /\ b.context = "prekey bundle" /\ b.identity = AliceId(r) /\ b.keys = s
      /\ b.signature = Sign(AliceId(r), BundleBody(AliceId(r), s))
  BY Zenon DEF Bundle, PrekeyBundle
<1> HIDE DEF b, s
<1>2. /\ m = [context |-> "handshake", initiator |-> BobId(r), ephemeral |-> eph, ct |-> ct,
              signature |-> Sign(BobId(r), script)]
      /\ Initiated(r).root = DeriveRoot(SharedSecret(eph, s.signed),
                                        OneTimeSecret(eph, s.oneTime), ct, script)
  BY <1>1, Zenon DEF Handshake, Initiated, Initiate, b
<1> HIDE DEF eph, ct, script, m
<1>3. /\ m.context = "handshake" /\ m.initiator = BobId(r) /\ m.ephemeral = eph /\ m.ct = ct
      /\ m.signature = Sign(BobId(r), script) /\ "context" \in DOMAIN m
  BY <1>2, Zenon
<1>4. Script(b, m) = script
  BY <1>3, Zenon DEF Script, script
<1>5. Responds(b, m)
  BY <1>1, <1>3, <1>4, Zenon DEF Responds, BundleDecodes, Verify
<1>6. Decapsulate(s.kem, ct) = ct
  BY Zenon DEF Decapsulate, Encapsulate, ct
<1>7. RespondRoot(b, s, m) = Initiated(r).root
  BY <1>2, <1>3, <1>4, <1>6, Zenon DEF RespondRoot
<1> QED  BY <1>5, <1>7, Zenon DEF b, s, m

\* A run's own invite parses.
LEMMA InviteIsParsed ==
  ASSUME NEW r, NEW queue, NEW ca, NEW nonce
  PROVE  InviteParses(Invite(AliceId(r), queue, ca, Bundle(r), nonce))
<1> DEFINE b == Bundle(r)
           body == InviteBody(queue, ca, AliceId(r), b, nonce)
           i == Invite(AliceId(r), queue, ca, b, nonce)
<1>1. /\ b.context = "prekey bundle" /\ b.identity = AliceId(r) /\ b.keys = Secrets(r)
      /\ b.signature = Sign(AliceId(r), BundleBody(AliceId(r), Secrets(r)))
  BY Zenon DEF Bundle, PrekeyBundle
<1> HIDE DEF b
<1>2. body.identity = AliceId(r) /\ body.bundle = b
  BY Zenon DEF InviteBody
<1>3. i.context = "invite" /\ i.body = body /\ i.signature = Sign(AliceId(r), body)
  BY Zenon DEF Invite
<1>4. BundleDecodes(b)
  BY <1>1, Zenon DEF BundleDecodes, Verify
<1> HIDE DEF body, i
<1>5. InviteParses(i)
  BY <1>1, <1>2, <1>3, <1>4, Zenon DEF InviteParses, Verify
<1> QED  BY <1>5, Zenon DEF i, b

\* A run's later sessions do not derive the keys of the messages before them.
LEMMA SessionsArePast ==
  \A r, q :
    /\ \A s \in BobSessions(q) : ~Derives(s.cks, Reply(r).key) /\ ~Derives(s.cks, Media(r).key)
    /\ \A s \in BobSessions(q) : Derives(s.cks, Hello(r).key) => s = Bob0(q) /\ q = r
    /\ \A s \in AliceSessions(q) : ~Derives(s.cks, Hello(r).key)
    /\ \A s \in AliceSessions(q) : Derives(s.cks, Reply(r).key) => s = Alice(q, 0) /\ q = r
    /\ \A s \in AliceSessions(q) :
         Derives(s.cks, Media(r).key) => s \in {Alice(q, 0), Alice(q, 1)} /\ q = r
\* ... and so are the root keys that come of it, which are all different.
<1>RootsApart.
    ASSUME NEW r, NEW q
    PROVE  /\ Root1(r) # Root2(q) /\ Root1(r) # Root3(q) /\ Root2(r) # Root3(q)
           /\ Root1(r) = Root1(q) \/ Root2(r) = Root2(q) \/ Root3(r) = Root3(q) => r = q
  <2> USE <1>RootsApart
  <2>1. /\ Len(Root1(r)) = 2 /\ Len(Root2(r)) = 3 /\ Len(Root2(q)) = 3 /\ Len(Root3(q)) = 4
    BY RootsAre, Zenon
  <2>2. Root1(r) # Root2(q) /\ Root1(r) # Root3(q) /\ Root2(r) # Root3(q)
    BY <2>1
  <2>3. /\ Root1(r)[1] = Initiated(r).root /\ Root1(q)[1] = Initiated(q).root
        /\ Root2(r)[1] = Initiated(r).root /\ Root2(q)[1] = Initiated(q).root
        /\ Root3(r)[1] = Initiated(r).root /\ Root3(q)[1] = Initiated(q).root
    BY RootsAre, Zenon
  <2>4. Root1(r) = Root1(q) \/ Root2(r) = Root2(q) \/ Root3(r) = Root3(q) =>
          Initiated(r).root = Initiated(q).root
    BY <2>3, Zenon
  <2> QED  BY <2>2, <2>4, RootIsOfRun, Zenon
<1> TAKE r, q
<1>1. /\ Hello(r).key = Chain(Root1(r), 0) /\ Reply(r).key = Chain(Root2(r), 0)
      /\ Media(r).key = Chain(Root2(r), 1)
  BY Zenon DEF Hello, Reply, Media
<1>2. /\ Bob0(q).cks = Chain(Root1(q), 0) /\ Bob1(q).cks = Chain(Root1(q), 1)
      /\ \A n : BobHeard(q, n).cks = Chain(Root3(q), 0)
      /\ \A n : Alice(q, n).cks = Chain(Root2(q), n)
  BY Zenon DEF Bob0, Bob1, BobHeard, Alice
<1>3. \A a, i, b, j : Derives(Chain(a, i), Chain(b, j)) => a = b /\ i <= j
  BY Zenon DEF Derives, Chain
<1>4. /\ Root1(r) # Root2(q) /\ Root1(r) # Root3(q) /\ Root2(r) # Root3(q)
      /\ Root1(q) # Root2(r) /\ Root1(q) # Root3(r) /\ Root2(q) # Root3(r)
      /\ Root1(r) = Root1(q) \/ Root2(r) = Root2(q) \/ Root3(r) = Root3(q) => r = q
  BY <1>RootsApart, Zenon
<1>5. ~(1 <= 0) /\ ~(2 <= 0) /\ ~(2 <= 1)
  OBVIOUS
<1>6. ASSUME NEW s \in BobSessions(q)
      PROVE  /\ ~Derives(s.cks, Reply(r).key) /\ ~Derives(s.cks, Media(r).key)
             /\ Derives(s.cks, Hello(r).key) => s = Bob0(q) /\ q = r
  <2>1. s.cks \in {Chain(Root1(q), 0), Chain(Root1(q), 1), Chain(Root3(q), 0)}
    BY <1>2, <1>6, Zenon DEF BobSessions
  <2>2. s.cks = Chain(Root1(q), 0) => s = Bob0(q)
    <3>1. Chain(Root1(q), 0) # Chain(Root1(q), 1) /\ Chain(Root1(q), 0) # Chain(Root3(q), 0)
      BY <1>4, <1>RootsApart DEF Chain
    <3> QED  BY <3>1, <1>2, <1>6, Zenon DEF BobSessions
  <2>3. /\ ~Derives(s.cks, Chain(Root2(r), 0)) /\ ~Derives(s.cks, Chain(Root2(r), 1))
        /\ Derives(s.cks, Chain(Root1(r), 0)) => s.cks = Chain(Root1(q), 0) /\ q = r
    BY <2>1, <1>3, <1>4, <1>RootsApart, SMTT(30)
  <2> QED  BY <2>2, <2>3, <1>1, Zenon
<1>7. ASSUME NEW s \in AliceSessions(q)
      PROVE  /\ ~Derives(s.cks, Hello(r).key)
             /\ Derives(s.cks, Reply(r).key) => s = Alice(q, 0) /\ q = r
             /\ Derives(s.cks, Media(r).key) => s \in {Alice(q, 0), Alice(q, 1)} /\ q = r
  <2>1. PICK n \in {0, 1, 2} : s = Alice(q, n)
    BY <1>7, Zenon DEF AliceSessions
  <2>2. s.cks = Chain(Root2(q), n)
    BY <2>1, <1>2, Zenon
  <2>3. /\ ~Derives(s.cks, Chain(Root1(r), 0))
        /\ Derives(s.cks, Chain(Root2(r), 0)) => n = 0 /\ q = r
        /\ Derives(s.cks, Chain(Root2(r), 1)) => n \in {0, 1} /\ q = r
    BY <2>2, <1>3, <1>4, <1>RootsApart, SMTT(30)
  <2> QED  BY <2>1, <2>3, <1>1, Zenon
<1> QED  BY <1>6, <1>7, Zenon

-----------------------------------------------------------------------------
(***************************************************************************)
(* Sequences of a few elements                                             *)
(***************************************************************************)

\* Sequences with the same elements.
LEMMA SameElements ==
  ASSUME NEW S, NEW x \in Seq(S), NEW y \in Seq(S), Len(x) = Len(y),
         \A i \in 1..Len(x) : x[i] = y[i]
  PROVE  x = y
OBVIOUS

\* Appending to short sequences, and concatenating them.
LEMMA AppendToNone ==
  ASSUME NEW a
  PROVE  Append(<<>>, a) = <<a>>
<1> DEFINE S == {a}
<1>1. Append(<<>>, a) \in Seq(S) /\ Len(Append(<<>>, a)) = 1 /\ Append(<<>>, a)[1] = a
  OBVIOUS
<1>2. <<a>> \in Seq(S) /\ Len(<<a>>) = 1 /\ <<a>>[1] = a
  OBVIOUS
<1> HIDE DEF S
<1> QED  BY <1>1, <1>2, SameElements

\* ... to one,
LEMMA AppendToOne ==
  ASSUME NEW a, NEW b
  PROVE  Append(<<a>>, b) = <<a, b>> /\ <<a, b>> \o <<>> = <<a, b>>
<1> DEFINE S == {a, b}
<1>1. <<a>> \in Seq(S) /\ b \in S /\ <<a, b>> \in Seq(S)
  OBVIOUS
<1> HIDE DEF S
<1>2. Append(<<a>>, b) \in Seq(S) /\ Len(Append(<<a>>, b)) = 2
  BY <1>1
<1>3. \A i \in 1..2 : Append(<<a>>, b)[i] = <<a, b>>[i]
  BY <1>1
<1>4. Append(<<a>>, b) = <<a, b>>
  BY <1>1, <1>2, <1>3, SameElements, Zenon
<1>5. <<a, b>> \o <<>> = <<a, b>>
  BY <1>1
<1> QED  BY <1>4, <1>5, Zenon

\* to two
LEMMA AppendToTwo ==
  ASSUME NEW a, NEW b, NEW c
  PROVE  Append(<<a, b>>, c) = <<a, b, c>> /\ <<a, b>> \o <<c>> = <<a, b, c>>
<1> DEFINE S == {a, b, c}
<1>1. <<a, b>> \in Seq(S) /\ c \in S /\ <<c>> \in Seq(S) /\ <<a, b, c>> \in Seq(S)
  OBVIOUS
<1> HIDE DEF S
<1>2. Append(<<a, b>>, c) \in Seq(S) /\ Len(Append(<<a, b>>, c)) = 3
  BY <1>1
<1>3. \A i \in 1..3 : Append(<<a, b>>, c)[i] = <<a, b, c>>[i]
  BY <1>1
<1>4. <<a, b>> \o <<c>> \in Seq(S) /\ Len(<<a, b>> \o <<c>>) = 3
  BY <1>1
<1>5. \A i \in 1..3 : (<<a, b>> \o <<c>>)[i] = <<a, b, c>>[i]
  BY <1>1
<1> QED  BY <1>1, <1>2, <1>3, <1>4, <1>5, SameElements, ZenonT(60)

\* The ends of short sequences.
LEMMA EndsOfOne ==
  ASSUME NEW a
  PROVE  /\ Len(<<a>>) = 1 /\ <<a>>[1] = a /\ Head(<<a>>) = a /\ Tail(<<a>>) = <<>>
         /\ SubSeq(<<a>>, 1, 1) = <<a>> /\ Len(SubSeq(<<a>>, 2, 1)) = 0
<1> DEFINE S == {a}
<1>1. <<a>> \in Seq(S) /\ Len(<<a>>) = 1 /\ <<a>>[1] = a
  OBVIOUS
<1> HIDE DEF S
<1>2. Head(<<a>>) = a /\ Tail(<<a>>) = <<>>
  BY <1>1
<1>3. SubSeq(<<a>>, 1, 1) = <<a>>
  <2>1. SubSeq(<<a>>, 1, 1) \in Seq(S) /\ Len(SubSeq(<<a>>, 1, 1)) = 1
    BY <1>1
  <2>2. \A i \in 1..1 : SubSeq(<<a>>, 1, 1)[i] = <<a>>[i]
    BY <1>1
  <2> QED  BY <1>1, <2>1, <2>2, SameElements, Zenon
<1>4. Len(SubSeq(<<a>>, 2, 1)) = 0
  BY <1>1
<1> QED  BY <1>1, <1>2, <1>3, <1>4, Zenon

\* The ends of a pair, and the last of three.
LEMMA EndsOfTwo ==
  ASSUME NEW a, NEW b
  PROVE  /\ Len(<<a, b>>) = 2 /\ <<a, b>>[1] = a /\ <<a, b>>[2] = b
         /\ Head(<<a, b>>) = a /\ Tail(<<a, b>>) = <<b>>
         /\ SubSeq(<<a, b>>, 1, 2) = <<a, b>>
         /\ Len(SubSeq(<<a, b>>, 2, 2)) = 1 /\ Len(SubSeq(<<a, b>>, 3, 2)) = 0
<1> DEFINE S == {a, b}
<1>1. <<a, b>> \in Seq(S) /\ Len(<<a, b>>) = 2 /\ <<a, b>>[1] = a /\ <<a, b>>[2] = b
      /\ <<b>> \in Seq(S)
  OBVIOUS
<1> HIDE DEF S
<1>2. Head(<<a, b>>) = a
  BY <1>1
<1>3. Tail(<<a, b>>) = <<b>>
  <2>1. Tail(<<a, b>>) \in Seq(S) /\ Len(Tail(<<a, b>>)) = 1
    BY <1>1
  <2>2. \A i \in 1..1 : Tail(<<a, b>>)[i] = <<b>>[i]
    BY <1>1
  <2> QED  BY <1>1, <2>1, <2>2, SameElements, Zenon
<1>4. SubSeq(<<a, b>>, 1, 2) = <<a, b>>
  <2>1. SubSeq(<<a, b>>, 1, 2) \in Seq(S) /\ Len(SubSeq(<<a, b>>, 1, 2)) = 2
    BY <1>1
  <2>2. \A i \in 1..2 : SubSeq(<<a, b>>, 1, 2)[i] = <<a, b>>[i]
    BY <1>1
  <2> QED  BY <1>1, <2>1, <2>2, SameElements, Zenon
<1>5. Len(SubSeq(<<a, b>>, 2, 2)) = 1 /\ Len(SubSeq(<<a, b>>, 3, 2)) = 0
  BY <1>1
<1> QED  BY <1>1, <1>2, <1>3, <1>4, <1>5, Zenon

-----------------------------------------------------------------------------
(***************************************************************************)
(* The program, and what a step leaves to the other tabs                   *)
(***************************************************************************)

\* What follows each step of runDemo.
ProgramTable ==
  /\ Program["aliceIdentity"] = "aliceSecrets" /\ Program["aliceSecrets"] = "aliceBundle"
  /\ Program["aliceBundle"] = "aliceQueue" /\ Program["aliceQueue"] = "health"
  /\ Program["verifyPin"] = "bobIdentity" /\ Program["bobIdentity"] = "bobQueue"
  /\ Program["bobQueue"] = "bobInitiated" /\ Program["bobInitiated"] = "bobSaid"
  /\ Program["bobSaid"] = "pushHandshake" /\ Program["pushHandshake"] = "pushHello"
  /\ Program["pushHello"] = "pullAlice" /\ Program["pullAlice"] = "getSecrets"
  /\ Program["getSecrets"] = "getBundle" /\ Program["getBundle"] = "aliceHeard"
  /\ Program["aliceHeard"] = "ackAlice" /\ Program["ackAlice"] = "aliceSaid"
  /\ Program["aliceSaid"] = "pushReply" /\ Program["pushReply"] = "pullBob"
  /\ Program["pullBob"] = "getBob" /\ Program["getBob"] = "bobHeard"
  /\ Program["bobHeard"] = "ackBob" /\ Program["ackBob"] = "putBlob"
  /\ Program["putBlob"] = "aliceMedia" /\ Program["aliceMedia"] = "pushMedia"
  /\ Program["pushMedia"] = "pullMedia" /\ Program["pullMedia"] = "bobMedia"
  /\ Program["bobMedia"] = "ackMedia" /\ Program["ackMedia"] = "getBlob"
  /\ Program["getBlob"] = "done"

\* The program, await by await.
LEMMA ProgramIs == ProgramTable
<1> DEFINE A == {"aliceIdentity", "aliceSecrets", "aliceBundle", "aliceQueue", "verifyPin"}
           B == {"bobIdentity", "bobQueue", "bobInitiated", "bobSaid", "pushHandshake", "pushHello"}
           C == {"pullAlice", "getSecrets", "getBundle", "aliceHeard", "ackAlice", "aliceSaid",
                 "pushReply"}
           D == {"pullBob", "getBob", "bobHeard", "ackBob"}
           E == {"putBlob", "aliceMedia", "pushMedia", "pullMedia", "bobMedia", "ackMedia",
                 "getBlob"}
<1>1. /\ DOMAIN AliceInvites = A /\ DOMAIN BobSays = B /\ DOMAIN AliceHears = C
      /\ DOMAIN BobHears = D /\ DOMAIN MediaPath = E
  BY Zenon DEF AliceInvites, BobSays, AliceHears, BobHears, MediaPath
<1>2. /\ \A x \in B : x \notin A
      /\ \A x \in C : x \notin A \cup B
      /\ \A x \in D : x \notin A \cup B /\ x \notin C
      /\ \A x \in E : x \notin A \cup B /\ x \notin C /\ x \notin D
  BY Zenon
<1> HIDE DEF A, B, C, D, E
<1> DEFINE a == Join(AliceInvites, BobSays)
           b == Join(BobHears, MediaPath)
           c == Join(AliceHears, b)
<1> HIDE DEF a, b, c
<1>3. /\ DOMAIN a = A \cup B
      /\ (\A x \in A : a[x] = AliceInvites[x]) /\ (\A x \in B : a[x] = BobSays[x])
  BY <1>1, <1>2, Zenon DEF a, Join
<1>4. DOMAIN b = D \cup E /\ (\A x \in D : b[x] = BobHears[x]) /\ (\A x \in E : b[x] = MediaPath[x])
  BY <1>1, <1>2, Zenon DEF b, Join
<1>5. /\ DOMAIN c = C \cup (D \cup E)
      /\ (\A x \in C : c[x] = AliceHears[x]) /\ (\A x \in D \cup E : c[x] = b[x])
  BY <1>1, <1>2, <1>4, Zenon DEF c, Join
<1>6. Program = Join(a, c)
  BY Zenon DEF Program, a, b, c
<1>7. \A x \in A \cup B : Program[x] = a[x]
  BY <1>3, <1>6, Zenon DEF Join
<1>8. \A x \in C \cup (D \cup E) : Program[x] = c[x]
  BY <1>2, <1>3, <1>5, <1>6, Zenon DEF Join
<1>9. /\ \A x \in A : Program[x] = AliceInvites[x]
      /\ \A x \in B : Program[x] = BobSays[x]
      /\ \A x \in C : Program[x] = AliceHears[x]
      /\ \A x \in D : Program[x] = BobHears[x]
      /\ \A x \in E : Program[x] = MediaPath[x]
  BY <1>3, <1>4, <1>5, <1>7, <1>8, ZenonT(60)
<1>10. \A x \in A : Program[x] = AliceInvites[x]
  BY <1>9, Zenon
<1>11. /\ Program["aliceIdentity"] = "aliceSecrets" /\ Program["aliceSecrets"] = "aliceBundle"
       /\ Program["aliceBundle"] = "aliceQueue" /\ Program["aliceQueue"] = "health"
       /\ Program["verifyPin"] = "bobIdentity"
  BY <1>10, Zenon DEF A, AliceInvites
<1>12. /\ Program["bobIdentity"] = "bobQueue"
       /\ Program["bobQueue"] = "bobInitiated" /\ Program["bobInitiated"] = "bobSaid"
       /\ Program["bobSaid"] = "pushHandshake" /\ Program["pushHandshake"] = "pushHello"
       /\ Program["pushHello"] = "pullAlice"
  <2>1. \A x \in B : Program[x] = BobSays[x]
    BY <1>9, Zenon
  <2> QED  BY <2>1, Zenon DEF B, BobSays
<1>13. /\ Program["pullAlice"] = "getSecrets"
       /\ Program["getSecrets"] = "getBundle" /\ Program["getBundle"] = "aliceHeard"
       /\ Program["aliceHeard"] = "ackAlice" /\ Program["ackAlice"] = "aliceSaid"
       /\ Program["aliceSaid"] = "pushReply" /\ Program["pushReply"] = "pullBob"
  <2>1. \A x \in C : Program[x] = AliceHears[x]
    BY <1>9, Zenon
  <2> QED  BY <2>1, Zenon DEF C, AliceHears
<1>14. /\ Program["pullBob"] = "getBob" /\ Program["getBob"] = "bobHeard"
       /\ Program["bobHeard"] = "ackBob" /\ Program["ackBob"] = "putBlob"
  <2>1. \A x \in D : Program[x] = BobHears[x]
    BY <1>9, Zenon
  <2> QED  BY <2>1, Zenon DEF D, BobHears
<1>15. /\ Program["putBlob"] = "aliceMedia" /\ Program["aliceMedia"] = "pushMedia"
       /\ Program["pushMedia"] = "pullMedia" /\ Program["pullMedia"] = "bobMedia"
       /\ Program["bobMedia"] = "ackMedia" /\ Program["ackMedia"] = "getBlob"
       /\ Program["getBlob"] = "done"
  <2>1. \A x \in E : Program[x] = MediaPath[x]
    BY <1>9, Zenon
  <2> QED  BY <2>1, Zenon DEF E, MediaPath
<1> QED  BY <1>11, <1>12, <1>13, <1>14, <1>15, Zenon DEF ProgramTable

\* The awaits that have one after them.
LEMMA ProgramHas ==
  {"aliceIdentity", "aliceSecrets", "aliceBundle", "aliceQueue", "verifyPin", "bobIdentity",
   "bobQueue", "bobInitiated", "bobSaid", "pushHandshake", "pushHello", "pullAlice",
   "getSecrets", "getBundle", "aliceHeard", "ackAlice", "aliceSaid", "pushReply", "pullBob",
   "getBob", "bobHeard", "ackBob", "putBlob", "aliceMedia", "pushMedia", "pullMedia",
   "bobMedia", "ackMedia", "getBlob"} \subseteq DOMAIN Program
<1>1. /\ DOMAIN AliceInvites = {"aliceIdentity", "aliceSecrets", "aliceBundle", "aliceQueue",
                                "verifyPin"}
      /\ DOMAIN BobSays = {"bobIdentity", "bobQueue", "bobInitiated", "bobSaid", "pushHandshake",
                           "pushHello"}
      /\ DOMAIN AliceHears = {"pullAlice", "getSecrets", "getBundle", "aliceHeard", "ackAlice",
                              "aliceSaid", "pushReply"}
      /\ DOMAIN BobHears = {"pullBob", "getBob", "bobHeard", "ackBob"}
      /\ DOMAIN MediaPath = {"putBlob", "aliceMedia", "pushMedia", "pullMedia", "bobMedia",
                             "ackMedia", "getBlob"}
  BY Zenon DEF AliceInvites, BobSays, AliceHears, BobHears, MediaPath
<1>2. DOMAIN Program = (DOMAIN AliceInvites \cup DOMAIN BobSays)
                        \cup (DOMAIN AliceHears \cup (DOMAIN BobHears \cup DOMAIN MediaPath))
  BY Zenon DEF Program, Join
<1> QED  BY <1>1, <1>2, Zenon

\* The store key that each put of runDemo writes, and the keys there are.
PutKeyTable ==
  /\ PutKey["aliceIdentity"] = "alice/identity" /\ PutKey["aliceSecrets"] = "alice/secrets"
  /\ PutKey["aliceBundle"] = "alice/bundle" /\ PutKey["aliceQueue"] = "alice/queue"
  /\ PutKey["bobIdentity"] = "bob/identity" /\ PutKey["bobQueue"] = "bob/queue"
  /\ PutKey["bobInitiated"] = "bob/session" /\ PutKey["bobSaid"] = "bob/session"
  /\ PutKey["aliceHeard"] = "alice/session" /\ PutKey["aliceSaid"] = "alice/session"
  /\ PutKey["bobHeard"] = "bob/session" /\ PutKey["aliceMedia"] = "alice/session"
  /\ PutKey["bobMedia"] = "bob/session"
  /\ DOMAIN PutKey =
         {"aliceIdentity", "aliceSecrets", "aliceBundle", "aliceQueue", "bobIdentity",
          "bobQueue", "bobInitiated", "bobSaid", "aliceHeard", "aliceSaid", "bobHeard",
          "aliceMedia", "bobMedia"}
  /\ StoreKey = {"alice/identity", "alice/secrets", "alice/bundle", "alice/queue", "bob/identity",
                 "bob/queue", "bob/session", "alice/session"}

\* The keys of the store, and the one each put is about.
LEMMA PutKeyIs == PutKeyTable
<1>1. /\ PutKey["aliceIdentity"] = "alice/identity" /\ PutKey["aliceSecrets"] = "alice/secrets"
      /\ PutKey["aliceBundle"] = "alice/bundle" /\ PutKey["aliceQueue"] = "alice/queue"
      /\ PutKey["bobIdentity"] = "bob/identity" /\ PutKey["bobQueue"] = "bob/queue"
      /\ PutKey["bobInitiated"] = "bob/session" /\ PutKey["bobSaid"] = "bob/session"
      /\ PutKey["aliceHeard"] = "alice/session" /\ PutKey["aliceSaid"] = "alice/session"
      /\ PutKey["bobHeard"] = "bob/session" /\ PutKey["aliceMedia"] = "alice/session"
      /\ PutKey["bobMedia"] = "bob/session"
  BY Zenon DEF PutKey
<1>2. DOMAIN PutKey =
         {"aliceIdentity", "aliceSecrets", "aliceBundle", "aliceQueue", "bobIdentity",
          "bobQueue", "bobInitiated", "bobSaid", "aliceHeard", "aliceSaid", "bobHeard",
          "aliceMedia", "bobMedia"}
  BY Zenon DEF PutKey
<1> DEFINE f == PutKey
<1> HIDE DEF f
<1>3. StoreKey = {f[s] : s \in DOMAIN f}
  BY Zenon DEF StoreKey, f
<1>4. StoreKey = {"alice/identity", "alice/secrets", "alice/bundle", "alice/queue", "bob/identity",
                  "bob/queue", "bob/session", "alice/session"}
  BY <1>1, <1>2, <1>3, SMTT(30) DEF f
<1> QED  BY <1>1, <1>2, <1>4, Zenon DEF PutKeyTable

\* A step of t, on run r, changes what belongs to r, and disturbs whom it must.
Beside(t, r) ==
  /\ \A i \in Run : i # r => /\ relay'[<<"alice", i>>] = relay[<<"alice", i>>]
                             /\ relay'[<<"bob", i>>] = relay[<<"bob", i>>]
                             /\ blobs'[i] = blobs[i]
  /\ \A k \in StoreKey : sealed'[k] = sealed[k] \/ (sealed'[k] # None /\ sealed'[k].run = r)
  /\ \A m \in sent' : m \in sent \/ m \in {Hello(r), Reply(r), Media(r)}
  /\ \A a \in acked' : a \in acked \/ a.queue[2] = r
  /\ \A u \in Tab : u # t /\ u \in disturbed => u \in disturbed'
  /\ \A u \in Tab : u # t /\ Running(u) /\ u \notin disturbed' =>
       \A k \in ReadBack :
         sealed[k] # None /\ sealed[k].run = page[u].run => sealed'[k] = sealed[k]

\* A record of the run is not None.
LEMMA RecIs ==
  ASSUME NEW p, p.run \in Run, p.key \in Run, NEW k \in StoreKey, NEW v \in KeyValues(k, p.run)
  PROVE  /\ Rec(p, v) \in RecordOf(k, p.run) /\ Rec(p, v) # None
         /\ Rec(p, v).salt = p.key /\ Rec(p, v).run = p.run /\ Rec(p, v).value = v
<1>1. Rec(p, v) \in RecordOf(k, p.run)
  BY Zenon DEF Rec, RecordOf
<1>2. Rec(p, v).salt = p.key /\ Rec(p, v).run = p.run /\ Rec(p, v).value = v
  BY Zenon DEF Rec
<1> QED  BY <1>1, <1>2, NoneAssumption, Zenon

\* Where a tab stands.
Stands == DOMAIN Program \cup Stopped \cup Opening \cup {"health"}

\* What a run that ends well has shown.
Delivered(p) ==
  p.shown \in {<<<<"hello", p.run>>, <<"reply", p.run>>>> \o media :
    media \in {<<>>, <<<<"media", p.run>>>>, <<<<"media", p.run>>, <<"photo", p.run>>>>}}

\* The run that t has after the step is its own.
OwnRun(t, q) ==
  /\ q.run \in 0..runs'
  /\ \A u \in Tab : u # t /\ (Running(u) \/ q.pc \notin Stopped) => page[u].run # q.run

\* The page that t has after the step is that of a run that goes on, or has ended.
Own(t, q) ==
  /\ q.pc \in Stands /\ q.key \in Run \cup {None}
  /\ q.pc \notin Stopped => GoesOn(q, relay', blobs', sealed', sent', acked')
  /\ q.pc \notin Stopped /\ t \notin disturbed' => ReadsBack(q, sealed')
  /\ q.pc = "failed" => t \in disturbed'
  /\ q.pc = "done" => Delivered(q)

\* The kinds of the other variables.
Kinds ==
  /\ relay = [x \in Queue |-> relay[x]]
  /\ blobs = [r \in Run |-> blobs[r]]
  /\ disturbed \subseteq Tab /\ raced \in BOOLEAN
  /\ salt \in Run \cup {None}

\* The tab's own part of the invariant suffices.
LEMMA OwnKeeps ==
  \A t \in Tab : \A q :
    /\ StoreInv /\ SessionInv /\ SetPage(t, q)
    /\ Beside(t, q.run) /\ OwnRun(t, q) /\ Own(t, q) /\ Kinds'
    /\ runs <= runs' /\ runs' \in 0..MaxRuns
    /\ RecordsAreOfRuns' /\ SentIsSaved' /\ AckIsSaved'
    => SessionInv'
\* What the run reads back is a record of its own.
<1>ReadBackIs.
    ASSUME NEW p, p.run \in Run, p.key \in Run
    PROVE  /\ Rec(p, Secrets(p.run)) # None /\ Rec(p, Secrets(p.run)).run = p.run
           /\ Rec(p, Bundle(p.run)) # None /\ Rec(p, Bundle(p.run)).run = p.run
           /\ Rec(p, Bob1(p.run)) # None /\ Rec(p, Bob1(p.run)).run = p.run
  <2> USE <1>ReadBackIs
  <2>1. /\ "alice/secrets" \in StoreKey /\ "alice/bundle" \in StoreKey /\ "bob/session" \in StoreKey
    BY PutKeyIs, Zenon DEF PutKeyTable
  <2>2. /\ Secrets(p.run) \in KeyValues("alice/secrets", p.run)
        /\ Bundle(p.run) \in KeyValues("alice/bundle", p.run)
        /\ Bob1(p.run) \in KeyValues("bob/session", p.run)
    BY Zenon DEF KeyValues, BobSessions
  <2>3. \A k \in StoreKey : \A v \in KeyValues(k, p.run) :
          Rec(p, v) # None /\ Rec(p, v).run = p.run
    BY RecIs, Zenon
  <2> DEFINE u == Secrets(p.run)
             v == Bundle(p.run)
             w == Bob1(p.run)
  <2> HIDE DEF u, v, w
  <2>4. Rec(p, u) # None /\ Rec(p, u).run = p.run
    BY <2>1, <2>2, <2>3, Zenon DEF u
  <2>5. Rec(p, v) # None /\ Rec(p, v).run = p.run
    BY <2>1, <2>2, <2>3, Zenon DEF v
  <2>6. Rec(p, w) # None /\ Rec(p, w).run = p.run
    BY <2>1, <2>2, <2>3, Zenon DEF w
  <2> QED  BY <2>4, <2>5, <2>6, Zenon DEF u, v, w
\* The run of another tab goes on as before.
<1>OtherGoesOn.
    ASSUME StoreInv, SessionInv, NEW t \in Tab, NEW r, Beside(t, r),
           NEW u \in Tab, u # t, Running(u), page[u].run # r
    PROVE  /\ GoesOn(page[u], relay', blobs', sealed', sent', acked')
           /\ u \notin disturbed' => ReadsBack(page[u], sealed')
  <2> USE <1>OtherGoesOn
  <2> DEFINE p == page[u]
  <2>1. p.run \in Run
    BY Zenon DEF StoreInv, OpenedHasKey
  <2>2. GoesOn(p, relay, blobs, sealed, sent, acked)
    BY Zenon DEF SessionInv, RunsGoOn
  <2>3. u \notin disturbed' => ReadsBack(p, sealed)
    BY Zenon DEF SessionInv, RunsReadBack, Beside
  <2>4. u \notin disturbed' => \A k \in ReadBack :
          sealed[k] # None /\ sealed[k].run = p.run => sealed'[k] = sealed[k]
    BY Zenon DEF Beside
  <2>5. /\ relay'[<<"alice", p.run>>] = relay[<<"alice", p.run>>]
        /\ relay'[<<"bob", p.run>>] = relay[<<"bob", p.run>>]
        /\ blobs'[p.run] = blobs[p.run]
    BY <2>1, Zenon DEF Beside
  <2>6. \A k \in StoreKey : sealed'[k] = sealed[k] \/ (sealed'[k] # None /\ sealed'[k].run # p.run)
    BY Zenon DEF Beside
  <2>7. \A m \in {Hello(p.run), Reply(p.run), Media(p.run)} : m \notin sent => m \notin sent'
    <3>1. \A m \in {Hello(p.run), Reply(p.run), Media(p.run)} :
            m \notin {Hello(r), Reply(r), Media(r)}
      BY MessagesApart, Zenon
    <3> QED  BY <3>1, Zenon DEF Beside
  <2>8. \A a \in acked' : a \in acked \/ a.queue # <<"bob", p.run>>
    BY DEF Beside
  <2>9. /\ "alice/session" \in StoreKey /\ "bob/session" \in StoreKey
        /\ ReadBack = {"alice/secrets", "alice/bundle", "bob/session"}
    BY PutKeyIs, Zenon DEF PutKeyTable, ReadBack
  <2>10. p.pc \notin Opening => p.key \in Run
    BY Zenon DEF StoreInv, OpenedHasKey, SessionInv, KeysAreSalts
  <2> HIDE DEF p
  <2>11. NodeAt(p, relay', blobs')
    BY <2>2, <2>5, Zenon DEF GoesOn, NodeAt
  <2>12. StoredAt(p, sealed'["alice/session"], sealed'["bob/session"])
    BY <2>2, <2>6, <2>9, Zenon DEF GoesOn, StoredAt, Holds
  <2>13. SentAt(p, sent', acked')
    BY <2>2, <2>7, <2>8, Zenon DEF GoesOn, SentAt
  <2>14. ASSUME u \notin disturbed' PROVE ReadsBack(p, sealed')
    <3>1. \A k \in ReadBack : sealed[k] # None /\ sealed[k].run = p.run => sealed'[k] = sealed[k]
      BY <2>4, <2>14, Zenon
    <3>2. ReadsBack(p, sealed)
      BY <2>3, <2>14, Zenon
    <3>3. CASE p.key \in Run
      BY <3>1, <3>2, <3>3, <2>1, <2>9, <1>ReadBackIs, ZenonT(60) DEF ReadsBack
    <3>4. CASE p.pc \in Opening
      BY <3>4, Zenon DEF ReadsBack, Opening, BeforeHeard, BeforeShake, BeforeHello, BeforeBob,
         BeforeBundle, BeforeSecrets, BobWaits
    <3> QED  BY <3>3, <3>4, <2>10, Zenon
  <2> QED  BY <2>2, <2>11, <2>12, <2>13, <2>14, Zenon DEF GoesOn, p
<1> SUFFICES ASSUME StoreInv, SessionInv, NEW t \in Tab, NEW q, SetPage(t, q),
                    Beside(t, q.run), OwnRun(t, q), Own(t, q), Kinds',
                    runs <= runs', runs' \in 0..MaxRuns, RecordsAreOfRuns', SentIsSaved',
                    AckIsSaved'
             PROVE  SessionInv'
  OBVIOUS
<1>1. page'[t] = q /\ \A u \in Tab : u # t => page'[u] = page[u]
  BY SetPageIs, Zenon DEF StoreInv
<1>2. \A u \in Tab : Running(u)' <=> page'[u].pc \notin Stopped
  BY Zenon DEF Running
<1>3. NodeShape'
  BY <1>1, Zenon DEF NodeShape, Kinds, Own, Stands, SessionInv
<1>4. KeysAreSalts'
  BY <1>1, Zenon DEF KeysAreSalts, Kinds, Own, SessionInv
<1>5. RunsApart'
  <2>1. runs \in Nat /\ runs' \in Nat
    BY WebClientAssumption DEF StoreInv, StoreShape
  <2>2. \A u \in Tab : page'[u].run \in 0..runs'
    <3>1. \A u \in Tab : page[u].run \in 0..runs
      BY Zenon DEF SessionInv, RunsApart
    <3>2. 0..runs \subseteq 0..runs'
      BY <2>1
    <3> QED  BY <1>1, <3>1, <3>2, Zenon DEF OwnRun
  <2>3. ASSUME NEW u \in Tab, NEW w \in Tab, Running(u)', u # w
        PROVE  page'[u].run # page'[w].run
    <3>1. CASE u = t
      BY <1>1, <1>2, <2>3, <3>1, Zenon DEF OwnRun
    <3>2. CASE w = t
      BY <1>1, <1>2, <2>3, <3>2, Zenon DEF OwnRun, Running
    <3>3. CASE u # t /\ w # t
      BY <1>1, <1>2, <2>3, <3>3, ZenonT(60) DEF SessionInv, RunsApart, Running
    <3> QED  BY <3>1, <3>2, <3>3, Zenon
  <2>4. ASSUME NEW i \in Run, i > runs'
        PROVE  relay'[<<"alice", i>>] = <<>> /\ relay'[<<"bob", i>>] = <<>>
    <3>1. i > runs /\ i # q.run
      BY <2>1, <2>4 DEF OwnRun, Run
    <3> QED  BY <3>1, ZenonT(60) DEF Beside, SessionInv, RunsApart
  <2> QED  BY <2>2, <2>3, <2>4, Zenon DEF RunsApart
<1>6. ASSUME NEW u \in Tab, Running(u)'
      PROVE  /\ GoesOn(page'[u], relay', blobs', sealed', sent', acked')
             /\ u \notin disturbed' => ReadsBack(page'[u], sealed')
  <2>1. CASE u = t
    BY <1>1, <1>2, <1>6, <2>1, Zenon DEF Own
  <2>2. CASE u # t
    <3>1. Running(u) /\ page'[u] = page[u] /\ page[u].run # q.run
      BY <1>1, <1>2, <1>6, <2>2, Zenon DEF Running, OwnRun
    <3> QED  BY <2>2, <3>1, <1>OtherGoesOn, Zenon
  <2> QED  BY <2>1, <2>2, Zenon
<1>7. RunsGoOn' /\ RunsReadBack'
  BY <1>6, Zenon DEF RunsGoOn, RunsReadBack
<1>8. UndisturbedRunsDeliver'
  <2>1. \A u \in Tab : /\ (page[u].pc = "failed" => u \in disturbed)
                     /\ (page[u].pc = "done" => Delivered(page[u]))
    BY Zenon DEF SessionInv, UndisturbedRunsDeliver, Delivered
  <2>2. \A u \in Tab : /\ (page'[u].pc = "failed" => u \in disturbed')
                     /\ (page'[u].pc = "done" => Delivered(page'[u]))
    BY <1>1, <2>1, Zenon DEF Own, Beside
  <2> QED  BY <2>2, Zenon DEF UndisturbedRunsDeliver, Delivered
<1> QED  BY <1>3, <1>4, <1>5, <1>7, <1>8, Zenon DEF SessionInv

-----------------------------------------------------------------------------
(***************************************************************************)
(* A step of a run, to the next await                                      *)
(***************************************************************************)

\* Page q is page p, at await x.
GoesTo(p, q, x) ==
  /\ IsPage(q) /\ q.pc = x /\ q.run = p.run /\ q.key = p.key /\ q.pin = p.pin
  /\ q.inbound = p.inbound /\ q.secrets = p.secrets /\ q.alice = p.alice /\ q.bob = p.bob
  /\ q.out = p.out /\ q.shown = p.shown

\* Continue goes to the next await.
LEMMA ContinueIs ==
  ASSUME NEW t \in Tab, NEW p, IsPage(p), Continue(t, p)
  PROVE  \E q : SetPage(t, q) /\ GoesTo(p, q, Program[p.pc])
<1> DEFINE x == Program[p.pc]
           q == [p EXCEPT !.pc = x]
<1>1. SetPage(t, q)
  BY Zenon DEF Continue, SetPage
<1> HIDE DEF x
<1>2. IsPage(q)
  BY Zenon DEF IsPage
<1>3. /\ q.pc = x /\ q.run = p.run /\ q.key = p.key /\ q.pin = p.pin
      /\ q.inbound = p.inbound /\ q.secrets = p.secrets /\ q.alice = p.alice /\ q.bob = p.bob
      /\ q.out = p.out /\ q.shown = p.shown
  BY Zenon DEF IsPage, PageField
<1> HIDE DEF q
<1>4. GoesTo(p, q, x)
  BY <1>2, <1>3, Zenon DEF GoesTo
<1> QED  BY <1>1, <1>4, Zenon DEF x

\* The locals after a put: Bob's session is made, and used, in memory.
PutLocals(p) ==
  IF p.pc = "bobQueue" THEN [p EXCEPT !.bob = BobSession(p.run)]
  ELSE IF p.pc = "bobInitiated" THEN BobEncrypts(p, "hello")
  ELSE p

\* What a step of t's run does to the world around it.
Effects(t) ==
  LET p == page[t]
  IN  /\ runs' = runs /\ Kinds'
      /\ \A i \in Run : i # p.run => /\ relay'[<<"alice", i>>] = relay[<<"alice", i>>]
                                     /\ relay'[<<"bob", i>>] = relay[<<"bob", i>>]
                                     /\ blobs'[i] = blobs[i]
      /\ \A k \in StoreKey : sealed'[k] = sealed[k] \/ sealed'[k] \in RecordOf(k, p.run)
      /\ StoreMoves(p, sealed, sealed')
      /\ SentMoves(p, sent, acked, sent', acked')
      /\ disturbed \subseteq disturbed'
      /\ \A u \in Tab : u # t /\ Running(u) /\ u \notin disturbed' =>
           \A k \in ReadBack :
             sealed[k] # None /\ sealed[k].run = page[u].run => sealed'[k] = sealed[k]

\* A step of a run, to its next await, to its end or to a failure.
StepMoves(p, q) ==
  /\ Then(p.pc, q.pc)
  /\ SessionsMove(p, q) /\ InboundMoves(p, q) /\ ShownMoves(p, q)
  /\ q.key = p.key \/ p.pc \in Opening
  /\ p.pc = "getSecrets" => q.secrets = sealed["alice/secrets"].value
  /\ NodeMoves(p, relay, blobs, relay', blobs')

\* Such a step keeps the invariant.
LEMMA StepKeeps ==
  \A t \in Tab : \A q :
    /\ StoreInv /\ SessionInv /\ Running(t) /\ Effects(t) /\ SetPage(t, q)
    /\ q.run = page[t].run /\ q.key \in Run \cup {None}
    /\ \/ StepMoves(page[t], q)
       \/ q.pc = "failed" /\ t \in disturbed'
       \/ q.pc = "done" /\ Delivered(q)
    => SessionInv'
\* The sessions that a run puts are all its own, and the first of Bob's comes once.
<1>SessionsDiffer.
    ASSUME NEW r
    PROVE  {Bob1(r), BobHeard(r, 1), BobHeard(r, 2)} \subseteq BobSessions(r) \ {Bob0(r)}
  <2> USE <1>SessionsDiffer
  <2>1. Bob0(r).ns = 0 /\ Bob0(r).pn = 0 /\ Bob1(r).ns = 1 /\ \A n : BobHeard(r, n).pn = 1
    BY Zenon DEF Bob0, Bob1, BobHeard
  <2>2. Bob1(r) # Bob0(r) /\ BobHeard(r, 1) # Bob0(r) /\ BobHeard(r, 2) # Bob0(r)
    BY <2>1
  <2> QED  BY <2>2, Zenon DEF BobSessions
\* The store has the sessions of the messages that were sent.
<1>SentStep.
    ASSUME StoreInv, SessionInv, NEW t \in Tab, Running(t), Effects(t)
    PROVE  SentIsSaved'
  <2> USE <1>SentStep
  <2> DEFINE p == page[t]
             r == p.run
             alice == AliceRecord
             bob == BobRecord
             alice2 == sealed'["alice/session"]
             bob2 == sealed'["bob/session"]
  <2>1. GoesOn(p, relay, blobs, sealed, sent, acked)
    BY Zenon DEF SessionInv, RunsGoOn
  <2>2. r \in 1..runs
    BY DEF StoreInv, StoreShape, OpenedHasKey, SessionInv, RunsApart, Run
  <2>3. /\ bob2 = bob \/ bob2 \in RecordOf("bob/session", r)
        /\ alice2 = alice \/ alice2 \in RecordOf("alice/session", r)
    BY PutKeyIs, Zenon DEF PutKeyTable, Effects, AliceRecord, BobRecord
  <2>4. /\ p.pc \in BobPuts => bob2.value = p.bob
        /\ p.pc \notin BobPuts => bob2 = bob
        /\ p.pc \in AlicePuts => alice2.value = p.alice
        /\ p.pc \notin AlicePuts => alice2 = alice
    <3>1. Rec(p, p.bob).value = p.bob /\ Rec(p, p.alice).value = p.alice
      BY Zenon DEF Rec
    <3> QED  BY <3>1, Zenon DEF Effects, StoreMoves, AliceRecord, BobRecord
  <2>5. \A m \in sent' : \/ m \in sent
                         \/ p.pc = "pushHello" /\ m = Hello(r)
                         \/ p.pc = "pushReply" /\ m = Reply(r)
                         \/ p.pc = "pushMedia" /\ m = Media(r)
    BY Zenon DEF Effects, SentMoves
  <2>6. SessionsAt(p) /\ StoredAt(p, alice, bob) /\ SentAt(p, sent, acked)
    BY <2>1, Zenon DEF GoesOn, AliceRecord, BobRecord
  <2> HIDE DEF p, r, alice, bob, alice2, bob2
  <2>7. /\ p.pc = "pushHello" => Holds(bob2, r, BobSessions(r) \ {Bob0(r)})
        /\ p.pc = "pushReply" => Holds(alice2, r, {Alice(r, 1), Alice(r, 2)})
        /\ p.pc = "pushMedia" => Holds(alice2, r, {Alice(r, 2)})
    BY <2>4, <2>6, <1>SessionsDiffer, ZenonT(30) DEF StoredAt, Holds, BobPuts, AlicePuts, BobWaits, r
  <2>8. /\ Hello(r) \in sent /\ p.pc \in BobPuts => Holds(bob2, r, BobSessions(r) \ {Bob0(r)})
        /\ Reply(r) \in sent /\ p.pc \in AlicePuts => Holds(alice2, r, {Alice(r, 1), Alice(r, 2)})
        /\ Media(r) \in sent /\ p.pc \in AlicePuts => Holds(alice2, r, {Alice(r, 2)})
    <3>1. /\ p.pc = "bobInitiated" => Hello(r) \notin sent
          /\ p.pc = "aliceHeard" => Reply(r) \notin sent
          /\ p.pc \in {"aliceHeard", "aliceSaid"} => Media(r) \notin sent
      BY <2>6, Zenon DEF SentAt, r, Opening, BeforeSecrets, BeforeBundle, BeforeBob, BeforeHello,
        BeforeShake, BeforeHeard, BeforeReply, BeforeMedia
    <3>2. /\ p.pc = "bobSaid" => p.bob = Bob1(r)
          /\ p.pc = "bobHeard" => p.bob = BobHeard(r, 1)
          /\ p.pc = "bobMedia" => p.bob = BobHeard(r, 2)
          /\ p.pc = "aliceSaid" => p.alice = Alice(r, 1)
          /\ p.pc = "aliceMedia" => p.alice = Alice(r, 2)
      BY <2>6, Zenon DEF SessionsAt, BobHas1, AliceHas1, r
    <3> QED  BY <2>4, <3>1, <3>2, <1>SessionsDiffer, Zenon DEF Holds, BobPuts, AlicePuts
  <2>9. ASSUME NEW m \in sent'
        PROVE  \E i \in 1..runs :
                 \/ m = Hello(i) /\ Holds(bob2, i, BobSessions(i) \ {Bob0(i)})
                 \/ m = Reply(i) /\ Holds(alice2, i, {Alice(i, 1), Alice(i, 2)})
                 \/ m = Media(i) /\ Holds(alice2, i, {Alice(i, 2)})
    <3>1. CASE m \notin sent
      BY <2>2, <2>5, <2>7, <3>1, Zenon
    <3>2. CASE m \in sent
      <4>1. PICK i \in 1..runs :
              \/ m = Hello(i) /\ Holds(bob, i, BobSessions(i) \ {Bob0(i)})
              \/ m = Reply(i) /\ Holds(alice, i, {Alice(i, 1), Alice(i, 2)})
              \/ m = Media(i) /\ Holds(alice, i, {Alice(i, 2)})
        BY <3>2, Zenon DEF SessionInv, SentIsSaved, alice, bob
      <4>2. CASE i # r
        <5>1. \A V : /\ Holds(bob, i, V) => Holds(bob2, i, V)
                     /\ Holds(alice, i, V) => Holds(alice2, i, V)
          BY <2>3, <4>2, Zenon DEF Holds, RecordOf
        <5> QED  BY <4>1, <5>1, Zenon
      <4>3. CASE i = r
        BY <2>4, <2>8, <3>2, <4>1, <4>3, Zenon
      <4> QED  BY <4>2, <4>3, Zenon
    <3> QED  BY <3>1, <3>2, Zenon
  <2>10. runs' = runs
    BY Zenon DEF Effects
  <2> QED  BY <2>9, <2>10, Zenon DEF SentIsSaved, AliceRecord, BobRecord, alice2, bob2
\* The store has the sessions of the messages that were acknowledged.
<1>AckStep.
    ASSUME StoreInv, SessionInv, NEW t \in Tab, Running(t), Effects(t)
    PROVE  AckIsSaved'
  <2> USE <1>AckStep
  <2> DEFINE p == page[t]
             r == p.run
             alice == AliceRecord
             bob == BobRecord
             alice2 == sealed'["alice/session"]
             bob2 == sealed'["bob/session"]
  <2>1. GoesOn(p, relay, blobs, sealed, sent, acked)
    BY Zenon DEF SessionInv, RunsGoOn
  <2>2. r \in 1..runs /\ r \in Run
    BY DEF StoreInv, StoreShape, OpenedHasKey, SessionInv, RunsApart, Run
  <2>3. /\ bob2 = bob \/ bob2 \in RecordOf("bob/session", r)
        /\ alice2 = alice \/ alice2 \in RecordOf("alice/session", r)
    BY PutKeyIs, Zenon DEF PutKeyTable, Effects, AliceRecord, BobRecord
  <2>4. /\ p.pc \in BobPuts => bob2.value = p.bob
        /\ p.pc \notin BobPuts => bob2 = bob
        /\ alice # None => alice2 # None
        /\ bob # None => bob2 # None
    <3>1. Rec(p, p.bob).value = p.bob
      BY Zenon DEF Rec
    <3>2. None \notin RecordOf("bob/session", r) /\ None \notin RecordOf("alice/session", r)
      BY <2>2, PutKeyIs, NoneAssumption, Zenon DEF PutKeyTable
    <3> QED  BY <2>3, <3>1, <3>2, Zenon DEF Effects, StoreMoves, AliceRecord, BobRecord
  <2>5. \A a \in acked' :
          \/ a \in acked
          \/ /\ p.pc = "ackAlice" /\ a.queue = <<"alice", r>>
             /\ a.envelope \in {Handshake(r), Hello(r)}
          \/ p.pc = "ackBob" /\ a.queue = <<"bob", r>> /\ a.envelope = Reply(r)
          \/ p.pc = "ackMedia" /\ a.queue = <<"bob", r>> /\ a.envelope = Media(r)
    BY Zenon DEF Effects, SentMoves
  <2>6. SessionsAt(p) /\ StoredAt(p, alice, bob) /\ SentAt(p, sent, acked)
    BY <2>1, Zenon DEF GoesOn, AliceRecord, BobRecord
  <2> HIDE DEF p, r, alice, bob, alice2, bob2
  <2>7. /\ p.pc = "ackAlice" => alice2 # None
        /\ p.pc = "ackBob" => bob2 # None /\ Holds(bob2, r, {BobHeard(r, 1), BobHeard(r, 2)})
        /\ p.pc = "ackMedia" => bob2 # None /\ Holds(bob2, r, {BobHeard(r, 2)})
    BY <2>4, <2>6, Zenon DEF StoredAt, Holds, BobPuts, r
  <2>8. ASSUME NEW a \in acked, a.queue = <<"bob", r>>, p.pc \in BobPuts
        PROVE  Holds(bob2, r, {BobHeard(r, 2)})
    <3>1. p.pc = "bobMedia"
      BY <2>6, <2>8, Zenon DEF SentAt, r, Opening, BeforeSecrets, BeforeBundle, BeforeBob,
         BeforeHello,
        BeforeShake, BeforeHeard, BeforeReply, BeforeMedia, ReplyWaits, BobPuts
    <3> QED  BY <2>4, <2>6, <2>8, <3>1, Zenon DEF SessionsAt, Holds, r
  <2>9. ASSUME NEW a \in acked'
        PROVE  \E i \in 1..runs :
                 \/ /\ a.queue = <<"alice", i>> /\ alice2 # None
                    /\ a.envelope \in {Handshake(i), Hello(i)}
                 \/ /\ a.queue = <<"bob", i>> /\ bob2 # None
                    /\ \/ a.envelope = Reply(i) /\ Holds(bob2, i, {BobHeard(i, 1), BobHeard(i, 2)})
                       \/ a.envelope = Media(i) /\ Holds(bob2, i, {BobHeard(i, 2)})
    <3>1. CASE a \notin acked
      BY <2>2, <2>5, <2>7, <3>1, Zenon
    <3>2. CASE a \in acked
      <4>1. PICK i \in 1..runs :
              \/ a.queue = <<"alice", i>> /\ a.envelope \in {Handshake(i), Hello(i)} /\ alice # None
              \/ /\ a.queue = <<"bob", i>> /\ bob # None
                 /\ \/ a.envelope = Reply(i) /\ Holds(bob, i, {BobHeard(i, 1), BobHeard(i, 2)})
                    \/ a.envelope = Media(i) /\ Holds(bob, i, {BobHeard(i, 2)})
        BY <3>2, Zenon DEF SessionInv, AckIsSaved, alice, bob
      <4>2. CASE i # r
        <5>1. \A V : Holds(bob, i, V) => Holds(bob2, i, V)
          BY <2>3, <4>2, Zenon DEF Holds, RecordOf
        <5> QED  BY <2>4, <4>1, <5>1, Zenon
      <4>3. CASE i = r
        <5>1. Holds(bob2, r, {BobHeard(r, 2)}) => Holds(bob2, r, {BobHeard(r, 1), BobHeard(r, 2)})
          BY Zenon DEF Holds
        <5> QED  BY <2>4, <2>8, <3>2, <4>1, <4>3, <5>1, Zenon
      <4> QED  BY <4>2, <4>3, Zenon
    <3> QED  BY <3>1, <3>2, Zenon
  <2>10. runs' = runs
    BY Zenon DEF Effects
  <2> QED  BY <2>9, <2>10, Zenon DEF AckIsSaved, AliceRecord, BobRecord, alice2, bob2
\* The records are of runs.
<1>RecordsStep.
    ASSUME StoreInv, SessionInv, NEW t \in Tab, Running(t), Effects(t)
    PROVE  RecordsAreOfRuns'
  <2> USE <1>RecordsStep
  <2>1. page[t].run \in 1..runs
    BY DEF StoreInv, StoreShape, OpenedHasKey, SessionInv, RunsApart, Run
  <2>2. runs' = runs
    BY Zenon DEF Effects
  <2> QED  BY <2>1, <2>2, Zenon DEF SessionInv, RecordsAreOfRuns, Effects
\* The rest of the tabs are left alone.
<1>EffectsBeside.
    ASSUME StoreInv, SessionInv, NEW t \in Tab, Running(t), Effects(t)
    PROVE  Beside(t, page[t].run)
  <2> USE <1>EffectsBeside
  <2> DEFINE r == page[t].run
  <2>1. r \in Run
    BY Zenon DEF StoreInv, OpenedHasKey
  <2>2. \A k \in StoreKey : \A rec \in RecordOf(k, r) : rec # None /\ rec.run = r
    <3>1. \A k : \A rec \in RecordOf(k, r) : rec.run = r
      BY Zenon DEF RecordOf
    <3> QED  BY <2>1, <3>1, NoneAssumption, Zenon
  <2>3. <<"alice", r>>[2] = r /\ <<"bob", r>>[2] = r
    BY Zenon
  <2>4. /\ \A m \in sent' : m \in sent \/ m \in {Hello(r), Reply(r), Media(r)}
        /\ \A a \in acked' : a \in acked \/ a.queue[2] = r
    BY <2>3, Zenon DEF Effects, SentMoves
  <2>5. /\ \A i \in Run : i # r => /\ relay'[<<"alice", i>>] = relay[<<"alice", i>>]
                                    /\ relay'[<<"bob", i>>] = relay[<<"bob", i>>]
                                    /\ blobs'[i] = blobs[i]
        /\ \A k \in StoreKey : sealed'[k] = sealed[k] \/ sealed'[k] \in RecordOf(k, r)
        /\ disturbed \subseteq disturbed'
        /\ \A u \in Tab : u # t /\ Running(u) /\ u \notin disturbed' =>
             \A k \in ReadBack :
               sealed[k] # None /\ sealed[k].run = page[u].run => sealed'[k] = sealed[k]
    BY Zenon DEF Effects
  <2>6. \A k \in StoreKey : sealed'[k] = sealed[k] \/ (sealed'[k] # None /\ sealed'[k].run = r)
    <3>1. \A k \in StoreKey : sealed'[k] = sealed[k] \/ sealed'[k] \in RecordOf(k, r)
      BY <2>5, Zenon
    <3> QED  BY <2>2, <3>1, Zenon
  <2>7. \A u \in Tab : u # t /\ u \in disturbed => u \in disturbed'
    BY <2>5, Zenon
  <2> HIDE DEF r
  <2>8. Beside(t, r)
    BY <2>4, <2>5, <2>6, <2>7, Zenon DEF Beside
  <2> QED  BY <2>8, Zenon DEF r
<1> SUFFICES ASSUME StoreInv, SessionInv, NEW t \in Tab, Running(t), Effects(t), NEW q, SetPage(t,
                    q),
                    q.run = page[t].run, q.key \in Run \cup {None},
                    \/ StepMoves(page[t], q)
                    \/ q.pc = "failed" /\ t \in disturbed'
                    \/ q.pc = "done" /\ Delivered(q)
             PROVE  SessionInv'
  OBVIOUS
<1> DEFINE p == page[t]
<1>1. GoesOn(p, relay, blobs, sealed, sent, acked)
  BY Zenon DEF SessionInv, RunsGoOn
<1>2. t \notin disturbed' => ReadsBack(p, sealed)
  BY Zenon DEF SessionInv, RunsReadBack, Effects
<1>3. OwnRun(t, q)
  <2>1. runs' = runs
    BY Zenon DEF Effects
  <2>2. p.run \in 0..runs /\ \A u \in Tab : u # t => page[u].run # p.run
    BY Zenon DEF SessionInv, RunsApart
  <2> QED  BY <2>1, <2>2, Zenon DEF OwnRun
<1>4. StoreMoves(p, sealed, sealed') /\ SentMoves(p, sent, acked, sent', acked')
  BY Zenon DEF Effects
<1> HIDE DEF p
<1>5. ASSUME StepMoves(p, q) PROVE Own(t, q)
  <2>1. q.pc \in Stands \ Stopped
    <3> DEFINE S == {"aliceIdentity", "aliceSecrets", "aliceBundle", "aliceQueue", "verifyPin",
                     "bobIdentity", "bobQueue", "bobInitiated", "bobSaid", "pushHandshake",
                     "pushHello", "pullAlice", "getSecrets", "getBundle", "aliceHeard", "ackAlice",
                     "aliceSaid", "pushReply", "pullBob", "getBob", "bobHeard", "ackBob",
                     "putBlob", "aliceMedia", "pushMedia", "pullMedia", "bobMedia", "ackMedia",
                     "getBlob"}
    <3>1. S \subseteq DOMAIN Program
      BY ProgramHas, Zenon
    <3>2. q.pc \in S \cup {"newSalt", "health"}
      BY <1>5, Zenon DEF StepMoves, Then
    <3>3. \A x \in S \cup {"newSalt", "health"} : x \notin Stopped
      BY Zenon DEF Stopped
    <3> HIDE DEF S
    <3> QED  BY <3>1, <3>2, <3>3, Zenon DEF Stands, Opening
  <2>2. q.run = p.run
    BY Zenon DEF p
  <2>3. SessionsAt(q) /\ InboundAt(q) /\ ShownAt(q)
    BY <1>1, <1>5, <2>2, ThenSessions, ThenInbound, ThenShown, Zenon DEF GoesOn, StepMoves
  <2>4. NodeAt(q, relay', blobs')
    BY <1>1, <1>5, <2>2, ThenNode, Zenon DEF GoesOn, StepMoves
  <2>5. StoredAt(q, sealed'["alice/session"], sealed'["bob/session"])
    BY <1>1, <1>4, <1>5, <2>2, ThenStored, Zenon DEF GoesOn, StepMoves
  <2>6. SentAt(q, sent', acked')
    BY <1>1, <1>4, <1>5, <2>2, ThenSent, Zenon DEF GoesOn, StepMoves
  <2>7. t \notin disturbed' => ReadsBack(q, sealed')
    BY <1>1, <1>2, <1>4, <1>5, <2>2, ThenReadsBack, Zenon DEF GoesOn, StepMoves
  <2>8. q.pc # "failed" /\ q.pc # "done"
    BY <2>1, Zenon DEF Stopped
  <2> QED  BY <2>1, <2>3, <2>4, <2>5, <2>6, <2>7, <2>8, Zenon DEF Own, GoesOn
<1>6. Own(t, q)
  <2>1. \A x \in {"failed", "done"} : x \in Stands /\ x \in Stopped
    BY Zenon DEF Stands, Stopped
  <2> QED  BY <1>5, <2>1, ZenonT(30) DEF Own, p
<1>7. Beside(t, q.run)
  BY <1>EffectsBeside, Zenon
<1>8. Kinds' /\ runs <= runs' /\ runs' \in 0..MaxRuns
  BY WebClientAssumption DEF Effects, StoreInv, StoreShape
<1> QED  BY <1>3, <1>6, <1>7, <1>8, <1>SentStep, <1>AckStep, <1>RecordsStep, OwnKeeps, Zenon

-----------------------------------------------------------------------------
(***************************************************************************)
(* Steps that go on, fail or are the last                                  *)
(***************************************************************************)

\* The store, and what else a step that is no put leaves alone.
KeepsStore(t) ==
  /\ salt' = salt /\ sealed' = sealed /\ runs' = runs /\ raced' = raced
  /\ disturbed' \in {disturbed, disturbed \cup {t}}

\* The effects of a step that is no put: what it does at the node.
LEMMA NodeEffects ==
  ASSUME SessionInv, NEW t \in Tab, page[t].pc \notin DOMAIN PutKey, KeepsStore(t),
         relay' = [x \in Queue |-> relay'[x]], blobs' = [i \in Run |-> blobs'[i]],
         \A i \in Run : i # page[t].run => /\ relay'[<<"alice", i>>] = relay[<<"alice", i>>]
                                           /\ relay'[<<"bob", i>>] = relay[<<"bob", i>>]
                                           /\ blobs'[i] = blobs[i],
         SentMoves(page[t], sent, acked, sent', acked')
  PROVE  Effects(t)
<1> DEFINE p == page[t]
<1>1. disturbed \subseteq disturbed' /\ disturbed' \subseteq Tab
  BY Zenon DEF KeepsStore, SessionInv, NodeShape
<1>2. Kinds'
  BY <1>1, Zenon DEF Kinds, KeepsStore, SessionInv, NodeShape, KeysAreSalts
<1>3. p.pc \notin BobPuts /\ p.pc \notin AlicePuts /\ p.pc # "aliceSecrets" /\ p.pc # "aliceBundle"
  BY PutKeyIs, Zenon DEF PutKeyTable, BobPuts, AlicePuts
<1>4. StoreMoves(p, sealed, sealed')
  BY <1>3, Zenon DEF StoreMoves, KeepsStore
<1> QED  BY <1>1, <1>2, <1>4, Zenon DEF Effects, KeepsStore

\* A step that changes nothing but the page.
Quiet(t) ==
  KeepsStore(t) /\ relay' = relay /\ blobs' = blobs /\ sent' = sent /\ acked' = acked

\* Its effects: none.
LEMMA QuietEffects ==
  ASSUME SessionInv, NEW t \in Tab, page[t].pc \notin DOMAIN PutKey, Quiet(t)
  PROVE  Effects(t)
<1>1. relay' = [x \in Queue |-> relay'[x]] /\ blobs' = [i \in Run |-> blobs'[i]]
  BY Zenon DEF SessionInv, NodeShape, Quiet
<1>2. SentMoves(page[t], sent, acked, sent', acked')
  BY Zenon DEF SentMoves, Quiet
<1>3. \A i \in Run : i # page[t].run => /\ relay'[<<"alice", i>>] = relay[<<"alice", i>>]
                                        /\ relay'[<<"bob", i>>] = relay[<<"bob", i>>]
                                        /\ blobs'[i] = blobs[i]
  BY Zenon DEF Quiet
<1> QED  BY <1>1, <1>2, <1>3, NodeEffects, Zenon DEF Quiet

\* The awaits that leave the node alone.
NodeSteps == {"pushHandshake", "pushHello", "pushReply", "pushMedia", "pullAlice", "pullBob",
              "pullMedia", "ackAlice", "ackBob", "ackMedia", "putBlob", "getBlob"}

\* The queues and the object are as before.
LEMMA QuietNode ==
  ASSUME NEW t \in Tab, page[t].pc \notin NodeSteps, relay' = relay, blobs' = blobs
  PROVE  NodeMoves(page[t], relay, blobs, relay', blobs')
BY Zenon DEF NodeMoves, NodeSteps

\* The locals are as before.
SameFields(p, q) ==
  /\ q.run = p.run /\ q.inbound = p.inbound /\ q.secrets = p.secrets /\ q.alice = p.alice
  /\ q.bob = p.bob /\ q.out = p.out /\ q.shown = p.shown

\* The awaits after which they may be.
PlainSteps == {"open", "newSalt", "aliceIdentity", "aliceSecrets", "aliceBundle", "aliceQueue",
               "health", "verifyPin", "bobIdentity", "bobSaid", "pushHandshake", "aliceHeard",
               "aliceSaid", "bobHeard", "aliceMedia", "bobMedia"}

\* The next await asks no more of them.
LEMMA PlainMoves ==
  ASSUME NEW p, NEW q, p.pc \in PlainSteps, SameFields(p, q)
  PROVE  SessionsMove(p, q) /\ InboundMoves(p, q) /\ ShownMoves(p, q)
BY Zenon DEF PlainSteps, SameFields, SessionsMove, InboundMoves, ShownMoves

\* A running tab's page.
LEMMA RunningPage ==
  ASSUME StoreInv, SessionInv, NEW t \in Tab, Running(t)
  PROVE  /\ IsPage(page[t]) /\ page[t].run \in Run /\ page[t].key \in Run \cup {None}
         /\ page[t].pc \notin Opening => page[t].key \in Run
         /\ GoesOn(page[t], relay, blobs, sealed, sent, acked)
         /\ t \notin disturbed => ReadsBack(page[t], sealed)
BY Zenon DEF StoreInv, OpenedHasKey, SessionInv, KeysAreSalts, RunsGoOn, RunsReadBack

\* A request that fails, and every other exception of a disturbed run.
LEMMA ThrowKeeps ==
  \A t \in Tab :
    StoreInv /\ SessionInv /\ Running(t) /\ Effects(t) /\ Throw(t) /\ t \in disturbed'
    => SessionInv'
\* Throw leaves a failed run.
<1>ThrowIs.
    ASSUME NEW t \in Tab, Throw(t)
    PROVE  \E q : SetPage(t, q) /\ q.pc = "failed" /\ q.run = page[t].run /\ q.key = page[t].key
  <2> USE <1>ThrowIs
  <2> DEFINE p == NoPage
             q == [p EXCEPT !.pc = "failed", !.run = page[t].run, !.key = page[t].key]
  <2>1. IsPage(p)
    BY NoPageIs, Zenon
  <2>2. SetPage(t, q)
    BY Zenon DEF Throw, SetPage
  <2> HIDE DEF p
  <2>3. q.run = page[t].run /\ q.key = page[t].key /\ q.pc = "failed"
    BY <2>1, Zenon DEF IsPage, PageField
  <2> HIDE DEF q
  <2> QED  BY <2>2, <2>3, Zenon
<1> SUFFICES ASSUME StoreInv, SessionInv, NEW t \in Tab, Running(t), Effects(t), Throw(t),
                    t \in disturbed'
             PROVE  SessionInv'
  OBVIOUS
<1>1. PICK q : SetPage(t, q) /\ q.pc = "failed" /\ q.run = page[t].run /\ q.key = page[t].key
  BY <1>ThrowIs, Zenon
<1>2. q.key \in Run \cup {None}
  BY <1>1, RunningPage, Zenon
<1> QED  BY <1>1, <1>2, StepKeeps, Zenon

\* Going on.
LEMMA ContinueKeeps ==
  ASSUME StoreInv, SessionInv, NEW t \in Tab, Running(t), Effects(t), NEW q, SetPage(t, q),
         q.run = page[t].run, q.key \in Run \cup {None}, StepMoves(page[t], q)
  PROVE  SessionInv'
BY StepKeeps, Zenon

\* open, when there is a salt or before one is made.
LEMMA OpenReadRuns ==
  ASSUME StoreInv, SessionInv, NEW t \in Tab, OpenRead(t)
  PROVE  SessionInv'
<1> DEFINE p == page[t]
           q == IF salt = None THEN [p EXCEPT !.pc = "newSalt"]
                               ELSE [p EXCEPT !.pc = "aliceIdentity", !.key = salt]
<1>1. SetPage(t, q)
  BY Zenon DEF OpenRead, SetPage
<1>2. p.pc = "open" /\ Quiet(t)
  BY Zenon DEF OpenRead, Quiet, KeepsStore
<1>3. Running(t) /\ p.pc \notin DOMAIN PutKey /\ p.pc \notin NodeSteps /\ p.pc \in PlainSteps
      /\ p.pc \in Opening
  BY <1>2, PutKeyIs, Zenon DEF PutKeyTable, Running, Stopped, NodeSteps, PlainSteps, Opening
<1>4. IsPage(p) /\ p.key \in Run \cup {None} /\ salt \in Run \cup {None}
  BY <1>3, RunningPage, Zenon DEF SessionInv, KeysAreSalts
<1>5. Effects(t) /\ NodeMoves(p, relay, blobs, relay', blobs')
  BY <1>2, <1>3, QuietEffects, QuietNode, Zenon DEF Quiet
<1> HIDE DEF p
<1>6. SameFields(p, q) /\ q.pc \in {"newSalt", "aliceIdentity"} /\ q.key \in Run \cup {None}
  BY <1>4, Zenon DEF IsPage, PageField, SameFields
<1> HIDE DEF q
<1>7. Then(p.pc, q.pc) /\ p.pc # "getSecrets"
  BY <1>2, <1>6, Zenon DEF Then
<1>8. StepMoves(p, q)
  BY <1>3, <1>5, <1>6, <1>7, PlainMoves, Zenon DEF StepMoves
<1>9. q.run = p.run
  BY <1>6, Zenon DEF SameFields
<1> QED  BY <1>1, <1>3, <1>5, <1>6, <1>8, <1>9, ContinueKeeps, Zenon DEF p

\* The awaits that one await follows.
Awaits == {"aliceIdentity", "aliceSecrets", "aliceBundle", "aliceQueue", "verifyPin",
           "bobIdentity", "bobQueue", "bobInitiated", "bobSaid", "pushHandshake", "pushHello",
           "pullAlice", "getSecrets", "getBundle", "aliceHeard", "ackAlice", "aliceSaid",
           "pushReply", "pullBob", "getBob", "bobHeard", "ackBob", "putBlob", "aliceMedia",
           "pushMedia", "pullMedia", "bobMedia", "ackMedia"}

\* The locals l that a step of the page p goes on with.
LocalsMove(p, l) ==
  /\ IsPage(l) /\ l.pc = p.pc /\ l.run = p.run /\ l.key = p.key
  /\ SessionsMove(p, l) /\ InboundMoves(p, l) /\ ShownMoves(p, l)
  /\ p.pc = "getSecrets" => l.secrets = sealed["alice/secrets"].value

\* Going on to the next await with these locals.
LEMMA ContinueRuns ==
  \A t \in Tab : \A l :
    /\ StoreInv /\ SessionInv /\ Effects(t)
    /\ page[t].pc \in Awaits \ {"ackAlice"} /\ Continue(t, l) /\ LocalsMove(page[t], l)
    /\ NodeMoves(page[t], relay, blobs, relay', blobs')
    => SessionInv'
\* The one that follows is the one of the program.
<1>NextAwait.
    ASSUME NEW x \in Awaits
    PROVE  Then(x, Program[x])
  BY <1>NextAwait, ProgramIs, SMTT(30) DEF ProgramTable, Then, Awaits
<1> SUFFICES ASSUME StoreInv, SessionInv, NEW t \in Tab, Effects(t), NEW l,
                    page[t].pc \in Awaits \ {"ackAlice"}, Continue(t, l), LocalsMove(page[t], l),
                    NodeMoves(page[t], relay, blobs, relay', blobs')
             PROVE  SessionInv'
  BY SMTT(30)
<1> DEFINE p == page[t]
<1>1. Running(t)
  BY Zenon DEF Awaits, Running, Stopped
<1>2. PICK q : SetPage(t, q) /\ GoesTo(l, q, Program[l.pc])
  BY ContinueIs, Zenon DEF LocalsMove
<1>3. p.key \in Run \cup {None}
  BY <1>1, RunningPage, Zenon
<1>4. p.pc \in Awaits /\ p.pc # "ackAlice" /\ LocalsMove(p, l)
  BY Zenon
<1>4a. NodeMoves(p, relay, blobs, relay', blobs')
  BY Zenon
<1> HIDE DEF p
<1>5. Then(p.pc, q.pc) /\ q.run = p.run /\ q.key = p.key
  BY <1>2, <1>4, <1>NextAwait, Zenon DEF GoesTo, LocalsMove
<1>6. SessionsMove(p, q)
  <2>1. SessionsMove(p, l) /\ q.bob = l.bob /\ q.alice = l.alice /\ q.out = l.out
    BY <1>2, <1>4, Zenon DEF GoesTo, LocalsMove
  <2> QED  BY <1>4, <2>1, SameSessionsMove, Zenon
<1>7. InboundMoves(p, q)
  <2>1. InboundMoves(p, l) /\ q.inbound = l.inbound /\ q.secrets = l.secrets
    BY <1>2, <1>4, Zenon DEF GoesTo, LocalsMove
  <2> QED  BY <1>4, <2>1, Zenon DEF InboundMoves
<1>8. ShownMoves(p, q) /\ (p.pc = "getSecrets" => q.secrets = sealed["alice/secrets"].value)
  BY <1>2, <1>4, Zenon DEF GoesTo, LocalsMove, ShownMoves
<1>9. StepMoves(p, q)
  BY <1>4a, <1>5, <1>6, <1>7, <1>8, Zenon DEF StepMoves
<1> QED  BY <1>1, <1>2, <1>3, <1>5, <1>9, ContinueKeeps, Zenon DEF p

\* open, when there is no salt.
LEMMA OpenWriteRuns ==
  ASSUME StoreInv, SessionInv, NEW t \in Tab, OpenWrite(t)
  PROVE  SessionInv'
<1> DEFINE p == page[t]
           q == [p EXCEPT !.pc = "aliceIdentity", !.key = p.run]
<1>1. SetPage(t, q)
  BY Zenon DEF OpenWrite, StoreInv, StoreShape, SetPage
<1>2. /\ p.pc = "newSalt" /\ relay' = relay /\ blobs' = blobs /\ sealed' = sealed /\ runs' = runs
      /\ sent' = sent /\ acked' = acked /\ disturbed' = disturbed /\ salt' = p.run
  BY Zenon DEF OpenWrite
<1>3. Running(t) /\ p.pc \notin NodeSteps /\ p.pc \in PlainSteps /\ p.pc \in Opening
      /\ p.pc \notin BobPuts /\ p.pc \notin AlicePuts
  BY <1>2, Zenon DEF Running, Stopped, NodeSteps, PlainSteps, Opening, BobPuts, AlicePuts
<1>4. IsPage(p) /\ p.run \in Run
  BY <1>3, RunningPage, Zenon
<1>5. NodeMoves(p, relay, blobs, relay', blobs')
  BY <1>2, <1>3, QuietNode, Zenon
<1>6. Kinds'
  <2>1. raced' \in BOOLEAN
    BY Zenon DEF OpenWrite, SessionInv, NodeShape
  <2> QED  BY <1>2, <1>4, <2>1, Zenon DEF Kinds, SessionInv, NodeShape
<1>7. Effects(t)
  <2>1. StoreMoves(p, sealed, sealed')
    <3>1. p.pc # "aliceSecrets" /\ p.pc # "aliceBundle"
      BY <1>2, Zenon
    <3> QED  BY <1>2, <1>3, <3>1, Zenon DEF StoreMoves
  <2>2. SentMoves(p, sent, acked, sent', acked')
    BY <1>2, Zenon DEF SentMoves
  <2> QED  BY <1>2, <1>6, <2>1, <2>2, Zenon DEF Effects
<1> HIDE DEF p
<1>8. SameFields(p, q) /\ q.pc = "aliceIdentity" /\ q.key = p.run
  BY <1>4, Zenon DEF IsPage, PageField, SameFields
<1> HIDE DEF q
<1>9. Then(p.pc, q.pc) /\ p.pc # "getSecrets"
  BY <1>2, <1>8, Zenon DEF Then
<1>10. StepMoves(p, q)
  BY <1>3, <1>5, <1>8, <1>9, PlainMoves, Zenon DEF StepMoves
<1>11. q.run = p.run /\ q.key \in Run \cup {None}
  BY <1>4, <1>8, Zenon DEF SameFields
<1> QED  BY <1>1, <1>3, <1>7, <1>10, <1>11, ContinueKeeps, Zenon DEF p

\* get of the secrets: those of the run that put them last.
LEMMA GetSecretsRuns ==
  ASSUME StoreInv, SessionInv, NEW t \in Tab, GetSecrets(t)
  PROVE  SessionInv'
<1> DEFINE p == page[t]
           rec == sealed["alice/secrets"]
           v == rec.value
           l == [p EXCEPT !.secrets = v]
<1>1. p.pc = "getSecrets" /\ Quiet(t)
  BY Zenon DEF GetSecrets, Quiet, KeepsStore
<1>2. Running(t) /\ p.pc \notin DOMAIN PutKey /\ p.pc \notin NodeSteps /\ p.pc \notin Opening
      /\ p.pc \in Awaits \ {"ackAlice"}
  BY <1>1, PutKeyIs, Zenon DEF PutKeyTable, Running, Stopped, NodeSteps, Awaits, Opening
<1>3. IsPage(p) /\ p.run \in Run /\ p.key \in Run
      /\ (t \notin disturbed => ReadsBack(p, sealed))
  BY <1>2, RunningPage, Zenon
<1>4. Effects(t) /\ NodeMoves(p, relay, blobs, relay', blobs')
  BY <1>1, <1>2, QuietEffects, QuietNode, Zenon DEF Quiet
<1>5. CASE Readable(p, "alice/secrets")
  <2>1. Continue(t, l)
    BY <1>5, Zenon DEF GetSecrets
  <2>2. rec # None
    BY <1>5, Zenon DEF Readable
  <2>3. \E r \in Run : v = Secrets(r)
    <3>1. PICK r \in 1..runs : rec \in RecordOf("alice/secrets", r)
      BY <2>2, PutKeyIs, Zenon DEF PutKeyTable, SessionInv, RecordsAreOfRuns
    <3>2. v = Secrets(r)
      BY <3>1, Zenon DEF RecordOf, KeyValues
    <3>3. r \in Run
      BY <3>1, WebClientAssumption DEF StoreInv, StoreShape, Run
    <3> QED  BY <3>2, <3>3, Zenon
  <2> HIDE DEF p, v
  <2>4. IsPage(l)
    BY <1>3, Zenon DEF IsPage
  <2>5. /\ l.pc = p.pc /\ l.run = p.run /\ l.key = p.key /\ l.inbound = p.inbound /\ l.secrets = v
        /\ l.alice = p.alice /\ l.bob = p.bob /\ l.out = p.out /\ l.shown = p.shown
    BY <1>3, Zenon DEF IsPage, PageField
  <2> HIDE DEF l
  <2>6. SessionsMove(p, l) /\ InboundMoves(p, l) /\ ShownMoves(p, l)
    BY <1>1, <2>3, <2>5, Zenon DEF SessionsMove, InboundMoves, ShownMoves
  <2>7. LocalsMove(p, l)
    BY <2>4, <2>5, <2>6, Zenon DEF LocalsMove, v
  <2> QED  BY <1>2, <1>4, <2>1, <2>7, ContinueRuns, Zenon DEF p
<1>6. CASE ~Readable(p, "alice/secrets")
  <2>1. Throw(t)
    BY <1>6, Zenon DEF GetSecrets
  <2>2. t \in disturbed
    <3>1. t \notin disturbed => rec = Rec(p, Secrets(p.run))
      BY <1>1, <1>3, Zenon DEF ReadsBack, Opening, BeforeSecrets, BeforeBundle, BeforeBob,
         BeforeHello,
        BeforeShake, BeforeHeard
    <3>2. Rec(p, Secrets(p.run)) # None /\ Rec(p, Secrets(p.run)).salt = p.key
      <4>1. "alice/secrets" \in StoreKey
        BY PutKeyIs, Zenon DEF PutKeyTable
      <4>2. Secrets(p.run) \in KeyValues("alice/secrets", p.run)
        BY Zenon DEF KeyValues
      <4> QED  BY <1>3, <4>1, <4>2, RecIs, Zenon
    <3> QED  BY <1>6, <3>1, <3>2, Zenon DEF Readable
  <2>3. t \in disturbed'
    BY <1>4, <2>2, Zenon DEF Effects
  <2> QED  BY <1>2, <1>4, <2>1, <2>3, ThrowKeeps, Zenon
<1> QED  BY <1>5, <1>6, Zenon

-----------------------------------------------------------------------------
(***************************************************************************)
(* The puts, and the beginning and the end of a run                        *)
(***************************************************************************)

\* put: the session made in memory is the one that is saved next.
LEMMA PutRuns ==
  \A t \in Tab : StoreInv /\ SessionInv /\ Put(t) => SessionInv'
\* The session that a put saves, and the other values.
<1>SecretIs.
    ASSUME NEW p, p.pc \in DOMAIN PutKey, SessionsAt(p)
    PROVE  /\ Secret(p) \in KeyValues(PutKey[p.pc], p.run)
           /\ p.pc = "aliceSecrets" => Secret(p) = Secrets(p.run)
           /\ p.pc = "aliceBundle" => Secret(p) = Bundle(p.run)
           /\ p.pc = "bobInitiated" => Secret(p) = Bob0(p.run)
           /\ p.pc = "bobSaid" => Secret(p) = Bob1(p.run)
           /\ p.pc = "aliceHeard" => Secret(p) = Alice(p.run, 0)
           /\ p.pc = "aliceSaid" => Secret(p) = Alice(p.run, 1)
           /\ p.pc = "bobHeard" => Secret(p) = BobHeard(p.run, 1)
           /\ p.pc = "aliceMedia" => Secret(p) = Alice(p.run, 2)
           /\ p.pc = "bobMedia" => Secret(p) = BobHeard(p.run, 2)
  <2> USE <1>SecretIs
  <2>1. /\ PutKey[p.pc] = "alice/secrets" => Secret(p) = Secrets(p.run)
        /\ PutKey[p.pc] = "alice/bundle" => Secret(p) = Bundle(p.run)
        /\ PutKey[p.pc] = "alice/session" => Secret(p) = p.alice
        /\ PutKey[p.pc] = "bob/session" => Secret(p) = p.bob
        /\ PutKey[p.pc] \notin {"alice/secrets", "alice/bundle", "alice/session", "bob/session"} =>
             Secret(p) = p.run
    BY Zenon DEF Secret
  <2>2. /\ KeyValues("alice/secrets", p.run) = {Secrets(p.run)}
        /\ KeyValues("alice/bundle", p.run) = {Bundle(p.run)}
        /\ KeyValues("alice/session", p.run) = AliceSessions(p.run)
        /\ KeyValues("bob/session", p.run) = BobSessions(p.run)
        /\ \A k \in {"alice/identity", "alice/queue", "bob/identity", "bob/queue"} :
             KeyValues(k, p.run) = {p.run}
    BY Zenon DEF KeyValues
  <2>3. /\ p.pc = "bobInitiated" => p.bob = Bob0(p.run)
        /\ p.pc = "bobSaid" => p.bob = Bob1(p.run)
        /\ p.pc = "bobHeard" => p.bob = BobHeard(p.run, 1)
        /\ p.pc = "bobMedia" => p.bob = BobHeard(p.run, 2)
        /\ p.pc = "aliceHeard" => p.alice = Alice(p.run, 0)
        /\ p.pc = "aliceSaid" => p.alice = Alice(p.run, 1)
        /\ p.pc = "aliceMedia" => p.alice = Alice(p.run, 2)
    BY Zenon DEF SessionsAt, BobHas1, AliceHas1
  <2>4. CASE p.pc \in {"aliceIdentity", "aliceQueue", "bobIdentity", "bobQueue"}
    <3>1. PutKey[p.pc] \in {"alice/identity", "alice/queue", "bob/identity", "bob/queue"}
      BY <2>4, PutKeyIs, ZenonT(60) DEF PutKeyTable
    <3>2. Secret(p) = p.run
      BY <2>1, <3>1, Zenon
    <3> QED  BY <2>2, <2>4, <3>1, <3>2, Zenon
  <2>5. CASE p.pc = "aliceSecrets"
    <3>1. PutKey[p.pc] = "alice/secrets"
      BY <2>5, PutKeyIs, Zenon DEF PutKeyTable
    <3> QED  BY <2>1, <2>2, <2>5, <3>1, Zenon
  <2>6. CASE p.pc = "aliceBundle"
    <3>1. PutKey[p.pc] = "alice/bundle"
      BY <2>6, PutKeyIs, Zenon DEF PutKeyTable
    <3> QED  BY <2>1, <2>2, <2>6, <3>1, Zenon
  <2>7. CASE p.pc \in {"bobInitiated", "bobSaid", "bobHeard", "bobMedia"}
    <3>1. PutKey[p.pc] = "bob/session"
      BY <2>7, PutKeyIs, Zenon DEF PutKeyTable
    <3>2. Secret(p) = p.bob
      BY <2>1, <3>1, Zenon
    <3>3. p.bob \in BobSessions(p.run)
      BY <2>3, <2>7, Zenon DEF BobSessions
    <3> QED  BY <2>2, <2>3, <2>7, <3>1, <3>2, <3>3, Zenon
  <2>8. CASE p.pc \in {"aliceHeard", "aliceSaid", "aliceMedia"}
    <3>1. PutKey[p.pc] = "alice/session"
      BY <2>8, PutKeyIs, Zenon DEF PutKeyTable
    <3>2. Secret(p) = p.alice
      BY <2>1, <3>1, Zenon
    <3>3. p.alice \in AliceSessions(p.run)
      BY <2>3, <2>8, Zenon DEF AliceSessions
    <3> QED  BY <2>2, <2>3, <2>8, <3>1, <3>2, <3>3, Zenon
  <2> QED  BY <2>4, <2>5, <2>6, <2>7, <2>8, PutKeyIs, Zenon DEF PutKeyTable
\* They are the run's.
<1>PutLocalsAre.
    ASSUME NEW p, IsPage(p), SessionsAt(p)
    PROVE  LET l == PutLocals(p)
           IN  /\ IsPage(l) /\ l.pc = p.pc /\ l.run = p.run /\ l.key = p.key
               /\ l.inbound = p.inbound /\ l.secrets = p.secrets /\ l.alice = p.alice
               /\ l.shown = p.shown
               /\ l.bob = IF p.pc = "bobQueue" THEN Bob0(p.run)
                          ELSE IF p.pc = "bobInitiated" THEN Bob1(p.run) ELSE p.bob
               /\ l.out = IF p.pc = "bobInitiated" THEN Hello(p.run) ELSE p.out
  <2> USE <1>PutLocalsAre
  <2>1. CASE p.pc = "bobQueue"
    <3> DEFINE s == Bob0(p.run)
               l == [p EXCEPT !.bob = s]
    <3>1. PutLocals(p) = l
      BY <2>1, BobBegins, Zenon DEF PutLocals
    <3> HIDE DEF s
    <3>2. IsPage(l)
      BY Zenon DEF IsPage
    <3>3. /\ l.pc = p.pc /\ l.run = p.run /\ l.key = p.key
          /\ l.inbound = p.inbound /\ l.secrets = p.secrets /\ l.alice = p.alice
          /\ l.shown = p.shown /\ l.bob = s /\ l.out = p.out
      BY Zenon DEF IsPage, PageField
    <3> HIDE DEF l
    <3>4. p.pc # "bobInitiated"
      BY <2>1, Zenon
    <3> QED  BY <3>1, <3>2, <3>3, <3>4, <2>1, Zenon DEF s
  <2>2. CASE p.pc = "bobInitiated"
    <3> DEFINE s == Bob1(p.run)
               m == Hello(p.run)
               l == [p EXCEPT !.out = m, !.bob = s]
    <3>1. p.bob = Bob0(p.run) /\ p.pc # "bobQueue"
      BY <2>2, Zenon DEF SessionsAt
    <3>2. PutLocals(p) = l
      BY <2>2, <3>1, SessionsSend, Zenon DEF PutLocals, BobEncrypts
    <3> HIDE DEF s, m
    <3>3. IsPage(l)
      BY Zenon DEF IsPage
    <3>4. /\ l.pc = p.pc /\ l.run = p.run /\ l.key = p.key
          /\ l.inbound = p.inbound /\ l.secrets = p.secrets /\ l.alice = p.alice
          /\ l.shown = p.shown /\ l.bob = s /\ l.out = m
      BY Zenon DEF IsPage, PageField
    <3> HIDE DEF l
    <3> QED  BY <3>1, <3>2, <3>3, <3>4, <2>2, Zenon DEF s, m
  <2>3. CASE p.pc \notin {"bobQueue", "bobInitiated"}
    BY <2>3, Zenon DEF PutLocals
  <2> QED  BY <2>1, <2>2, <2>3, Zenon
\* A run puts its own records, and disturbs the run whose record it replaces.
<1>PutEffects.
    ASSUME StoreInv, SessionInv, NEW t \in Tab, Put(t)
    PROVE  Effects(t)
  <2> USE <1>PutEffects
  <2> DEFINE p == page[t]
             r == p.run
             k == PutKey[p.pc]
             v == Secret(p)
  <2>1. /\ p.pc \in DOMAIN PutKey
        /\ sealed' = [sealed EXCEPT ![k] = Rec(p, v)]
        /\ disturbed' = disturbed \cup
             {u \in Tab \ {t} : /\ Running(u) /\ k \in ReadBack
                                /\ sealed[k] # None /\ sealed[k].run = page[u].run}
        /\ relay' = relay /\ blobs' = blobs /\ salt' = salt /\ runs' = runs /\ sent' = sent
        /\ acked' = acked /\ raced' = raced
    BY Zenon DEF Put, Rec
  <2>2. Running(t) /\ p.pc \notin Opening
    BY <2>1, AwaitIsOpened, Zenon DEF Opened
  <2>3. r \in Run /\ p.key \in Run /\ SessionsAt(p)
    BY <2>2, RunningPage, Zenon DEF GoesOn
  <2>4. k \in StoreKey
    BY <2>1, Zenon DEF StoreKey
  <2>5. v \in KeyValues(k, r)
    BY <2>1, <2>3, <1>SecretIs, Zenon
  <2>6. Rec(p, v) \in RecordOf(k, r) /\ Rec(p, v) # None
    BY <2>3, <2>4, <2>5, RecIs, Zenon
  <2>7. sealed = [x \in StoreKey |-> sealed[x]]
    BY Zenon DEF StoreInv, StoreShape
  <2>8. sealed'[k] = Rec(p, v) /\ \A x \in StoreKey : x # k => sealed'[x] = sealed[x]
    BY <2>1, <2>4, <2>7, Zenon
  <2>9. Kinds'
    BY <2>1, Zenon DEF Kinds, SessionInv, NodeShape, KeysAreSalts
  <2>10. StoreMoves(p, sealed, sealed')
    <3>1. /\ k = "alice/secrets" => v = Secrets(r)
          /\ k = "alice/bundle" => v = Bundle(r)
          /\ k = "alice/session" => v = p.alice
          /\ k = "bob/session" => v = p.bob
      BY Zenon DEF Secret
    <3>2. /\ p.pc \in BobPuts <=> k = "bob/session"
          /\ p.pc \in AlicePuts <=> k = "alice/session"
          /\ p.pc = "aliceSecrets" <=> k = "alice/secrets"
          /\ p.pc = "aliceBundle" <=> k = "alice/bundle"
      BY <2>1, PutKeyIs, ZenonT(60) DEF PutKeyTable, BobPuts, AlicePuts
    <3>3. /\ "bob/session" \in StoreKey /\ "alice/session" \in StoreKey
          /\ "alice/secrets" \in StoreKey /\ "alice/bundle" \in StoreKey
      BY PutKeyIs, Zenon DEF PutKeyTable
    <3> HIDE DEF p, k, v
    <3> QED  BY <2>6, <2>8, <3>1, <3>2, <3>3, Zenon DEF StoreMoves, r
  <2>11. SentMoves(p, sent, acked, sent', acked')
    BY <2>1, Zenon DEF SentMoves
  <2>12. \A x \in StoreKey : sealed'[x] = sealed[x] \/ sealed'[x] \in RecordOf(x, r)
    BY <2>6, <2>8, Zenon
  <2>13. \A u \in Tab : u # t /\ Running(u) /\ u \notin disturbed' =>
           \A x \in ReadBack :
             sealed[x] # None /\ sealed[x].run = page[u].run => sealed'[x] = sealed[x]
    <3>1. ReadBack \subseteq StoreKey
      BY PutKeyIs, Zenon DEF PutKeyTable, ReadBack
    <3>2. ASSUME NEW u \in Tab, u # t, Running(u), u \notin disturbed', NEW x \in ReadBack,
                 sealed[x] # None, sealed[x].run = page[u].run
          PROVE  sealed'[x] = sealed[x]
      <4>1. x # k
        BY <2>1, <3>2, Zenon
      <4> QED  BY <2>8, <3>1, <3>2, <4>1, Zenon
    <3> QED  BY <3>2, Zenon
  <2> QED  BY <2>1, <2>9, <2>10, <2>11, <2>12, <2>13, Zenon DEF Effects
<1> SUFFICES ASSUME StoreInv, SessionInv, NEW t \in Tab, Put(t)
             PROVE  SessionInv'
  OBVIOUS
<1> DEFINE p == page[t]
           l == PutLocals(p)
<1>1. p.pc \in DOMAIN PutKey /\ Continue(t, l) /\ relay' = relay /\ blobs' = blobs
  BY Zenon DEF Put, PutLocals
<1>2. Effects(t)
  BY <1>PutEffects, Zenon
<1>3. Running(t)
  BY <1>1, AwaitIsOpened, Zenon DEF Opened
<1>4. IsPage(p) /\ SessionsAt(p)
  BY <1>3, RunningPage, Zenon DEF GoesOn
<1>5. /\ p.pc \in Awaits \ {"ackAlice"} /\ p.pc \notin NodeSteps
      /\ p.pc \notin {"getSecrets", "getBundle", "getBob"}
  BY <1>1, PutKeyIs, Zenon DEF PutKeyTable, Awaits, NodeSteps
<1>6. NodeMoves(p, relay, blobs, relay', blobs')
  BY <1>1, <1>5, QuietNode, Zenon
<1>7. /\ IsPage(l) /\ l.pc = p.pc /\ l.run = p.run /\ l.key = p.key
      /\ l.inbound = p.inbound /\ l.secrets = p.secrets /\ l.alice = p.alice
      /\ l.shown = p.shown
      /\ l.bob = IF p.pc = "bobQueue" THEN Bob0(p.run)
                 ELSE IF p.pc = "bobInitiated" THEN Bob1(p.run) ELSE p.bob
      /\ l.out = IF p.pc = "bobInitiated" THEN Hello(p.run) ELSE p.out
  BY <1>4, <1>PutLocalsAre, Zenon
<1> HIDE DEF p, l
<1>8. SessionsMove(p, l)
  <2>1. p.pc \notin {"getBundle", "ackAlice", "putBlob", "getBob", "pullMedia"}
    BY <1>5, Zenon DEF NodeSteps
  <2> QED  BY <1>7, <2>1, PutSessionsMove, Zenon
<1>9. InboundMoves(p, l) /\ ShownMoves(p, l) /\ p.pc # "getSecrets"
  BY <1>5, <1>7, SMTT(30) DEF InboundMoves, ShownMoves, NodeSteps
<1>10. LocalsMove(p, l)
  BY <1>7, <1>8, <1>9, Zenon DEF LocalsMove
<1> QED  BY <1>1, <1>2, <1>5, <1>6, <1>10, ContinueRuns, Zenon DEF p

\* More runs than before; nothing else that the histories are about.
LEMMA MoreRuns ==
  ASSUME StoreInv, SessionInv, runs' \in Nat, runs <= runs',
         sealed' = sealed, sent' = sent, acked' = acked
  PROVE  RecordsAreOfRuns' /\ SentIsSaved' /\ AckIsSaved'
<1>1. \A r \in 1..runs : r \in 1..runs'
  BY WebClientAssumption DEF StoreInv, StoreShape
<1>2. RecordsAreOfRuns'
  BY <1>1, Zenon DEF SessionInv, RecordsAreOfRuns
<1>3. SentIsSaved'
  BY <1>1, Zenon DEF SessionInv, SentIsSaved, BobRecord, AliceRecord
<1>4. AckIsSaved'
  BY <1>1, ZenonT(30) DEF SessionInv, AckIsSaved, BobRecord, AliceRecord
<1> QED  BY <1>2, <1>3, <1>4, Zenon

\* The button.
LEMMA StartRuns ==
  \A t \in Tab : StoreInv /\ SessionInv /\ Start(t) => SessionInv'
\* A run that begins has sent and acknowledged nothing, and its queues are empty.
<1>FreshRun.
    ASSUME StoreInv, SessionInv, NEW r \in Run, r > runs
    PROVE  /\ relay[<<"alice", r>>] = <<>> /\ relay[<<"bob", r>>] = <<>>
           /\ Hello(r) \notin sent /\ Reply(r) \notin sent /\ Media(r) \notin sent
           /\ \A a \in acked : a.queue # <<"bob", r>>
  <2> USE <1>FreshRun
  <2>1. \A i \in 1..runs : i # r
    BY WebClientAssumption DEF StoreInv, StoreShape, Run
  <2>2. relay[<<"alice", r>>] = <<>> /\ relay[<<"bob", r>>] = <<>>
    BY Zenon DEF SessionInv, RunsApart
  <2>3. \A m \in sent : \E i \in 1..runs : m = Hello(i) \/ m = Reply(i) \/ m = Media(i)
    BY Zenon DEF SessionInv, SentIsSaved
  <2>4. \A i \in 1..runs :
          /\ Hello(r) # Hello(i) /\ Hello(r) # Reply(i) /\ Hello(r) # Media(i)
          /\ Reply(r) # Hello(i) /\ Reply(r) # Reply(i) /\ Reply(r) # Media(i)
          /\ Media(r) # Hello(i) /\ Media(r) # Reply(i) /\ Media(r) # Media(i)
    <3> TAKE i \in 1..runs
    <3>1. i # r
      BY <2>1, Zenon
    <3>2. /\ Hello(r) # Reply(i) /\ Hello(r) # Media(i) /\ Reply(r) # Media(i)
          /\ Hello(r) = Hello(i) \/ Reply(r) = Reply(i) \/ Media(r) = Media(i) => r = i
      BY MessagesApart, Zenon
    <3>3. Hello(i) # Reply(r) /\ Hello(i) # Media(r) /\ Reply(i) # Media(r)
      BY MessagesApart, Zenon
    <3> QED  BY <3>1, <3>2, <3>3, Zenon
  <2>5. Hello(r) \notin sent /\ Reply(r) \notin sent /\ Media(r) \notin sent
    BY <2>3, <2>4, Zenon
  <2>6. \A a \in acked : a.queue # <<"bob", r>>
    <3> TAKE a \in acked
    <3>1. PICK i \in 1..runs : a.queue = <<"alice", i>> \/ a.queue = <<"bob", i>>
      BY Zenon DEF SessionInv, AckIsSaved
    <3> QED  BY <2>1, <3>1
  <2> QED  BY <2>2, <2>5, <2>6, Zenon
<1> SUFFICES ASSUME StoreInv, SessionInv, NEW t \in Tab, Start(t)
             PROVE  SessionInv'
  OBVIOUS
<1> DEFINE p == NoPage
           q == [p EXCEPT !.run = runs + 1, !.key = page[t].key,
                          !.pc = IF page[t].key = None THEN "open" ELSE "aliceIdentity"]
<1>1. SetPage(t, q)
  BY Zenon DEF Start, SetPage
<1>2. /\ runs < MaxRuns /\ runs' = runs + 1 /\ disturbed' = disturbed \ {t}
      /\ relay' = relay /\ blobs' = blobs /\ salt' = salt /\ sealed' = sealed /\ sent' = sent
      /\ acked' = acked /\ raced' = raced
  BY Zenon DEF Start
<1>3. IsPage(p) /\ p.shown = <<>>
  BY NoPageIs, Zenon DEF NoPage
<1> HIDE DEF p
<1>4. /\ q.run = runs + 1 /\ q.key = page[t].key /\ q.shown = <<>>
      /\ q.pc \in {"open", "aliceIdentity"}
  BY <1>3, Zenon DEF IsPage, PageField
<1> HIDE DEF q
<1>5. /\ runs \in Nat /\ runs' \in Nat /\ runs <= runs' /\ runs' \in 0..MaxRuns
      /\ q.run \in Run /\ q.run > runs /\ q.run \in 0..runs' /\ q.run \notin 0..runs
  BY <1>2, <1>4, WebClientAssumption DEF StoreInv, StoreShape, Run
<1>6. Kinds'
  BY <1>2, Zenon DEF Kinds, SessionInv, NodeShape, KeysAreSalts
<1>7. Beside(t, q.run)
  BY <1>2, Zenon DEF Beside
<1>8. OwnRun(t, q)
  BY <1>5, Zenon DEF OwnRun, SessionInv, RunsApart
<1>9. RecordsAreOfRuns' /\ SentIsSaved' /\ AckIsSaved'
  BY <1>2, <1>5, MoreRuns, Zenon
<1>10. GoesOn(q, relay', blobs', sealed', sent', acked')
  <2>1. SessionsAt(q) /\ InboundAt(q) /\ ShownAt(q)
    BY <1>4, Zenon DEF SessionsAt, InboundAt, ShownAt, BobHas1, AliceHas1
  <2>2. /\ relay[<<"alice", q.run>>] = <<>> /\ relay[<<"bob", q.run>>] = <<>>
        /\ Hello(q.run) \notin sent /\ Reply(q.run) \notin sent /\ Media(q.run) \notin sent
        /\ \A a \in acked : a.queue # <<"bob", q.run>>
    BY <1>5, <1>FreshRun, Zenon
  <2>3. NodeAt(q, relay', blobs')
    BY <1>2, <1>4, <2>2, Zenon DEF NodeAt, ReplyWaits, Stored
  <2>4. StoredAt(q, sealed'["alice/session"], sealed'["bob/session"])
    BY <1>4, Zenon DEF StoredAt, BobWaits
  <2>5. SentAt(q, sent', acked')
    BY <1>2, <2>2, Zenon DEF SentAt
  <2> QED  BY <2>1, <2>3, <2>4, <2>5, Zenon DEF GoesOn
<1>11. ReadsBack(q, sealed')
  BY <1>4, Zenon DEF ReadsBack, BobWaits, BeforeBundle, BeforeSecrets, Opening
<1>12. Own(t, q)
  <2>1. q.pc \in Stands /\ q.pc # "failed" /\ q.pc # "done"
    BY <1>4, ProgramHas, Zenon DEF Stands, Opening
  <2>2. q.key \in Run \cup {None}
    BY <1>4, Zenon DEF SessionInv, KeysAreSalts
  <2> QED  BY <1>10, <1>11, <2>1, <2>2, Zenon DEF Own
<1> QED  BY <1>1, <1>5, <1>6, <1>7, <1>8, <1>9, <1>12, OwnKeeps, Zenon

\* The tab is closed.
LEMMA ReloadRuns ==
  ASSUME StoreInv, SessionInv, NEW t \in Tab, Reload(t)
  PROVE  SessionInv'
<1> DEFINE q == NoPage
<1>1. SetPage(t, q)
  BY Zenon DEF Reload, SetPage
<1>2. /\ runs' = runs /\ disturbed' = disturbed \ {t}
      /\ relay' = relay /\ blobs' = blobs /\ salt' = salt /\ sealed' = sealed /\ sent' = sent
      /\ acked' = acked /\ raced' = raced
  BY Zenon DEF Reload
<1>3. q.run = 0 /\ q.key = None /\ q.pc = "idle"
  BY Zenon DEF NoPage
<1> HIDE DEF q
<1>4. /\ runs' \in Nat /\ runs <= runs' /\ runs' \in 0..MaxRuns /\ q.run \in 0..runs'
  BY <1>2, <1>3, WebClientAssumption DEF StoreInv, StoreShape
<1>5. Kinds'
  BY <1>2, Zenon DEF Kinds, SessionInv, NodeShape, KeysAreSalts
<1>6. Beside(t, q.run)
  BY <1>2, Zenon DEF Beside
<1>7. OwnRun(t, q)
  <2>1. \A u \in Tab : Running(u) => page[u].run # q.run
    BY <1>3 DEF StoreInv, OpenedHasKey, Run
  <2>2. q.pc \in Stopped
    BY <1>3, Zenon DEF Stopped
  <2> QED  BY <1>4, <2>1, <2>2, Zenon DEF OwnRun
<1>8. RecordsAreOfRuns' /\ SentIsSaved' /\ AckIsSaved'
  BY <1>2, <1>4, MoreRuns, Zenon
<1>9. Own(t, q)
  <2>1. q.pc \in Stands /\ q.pc \in Stopped /\ q.pc # "failed" /\ q.pc # "done"
    BY <1>3, Zenon DEF Stands, Stopped
  <2> QED  BY <1>3, <2>1, Zenon DEF Own
<1> QED  BY <1>1, <1>4, <1>5, <1>6, <1>7, <1>8, <1>9, OwnKeeps, Zenon
=============================================================================
