------------------------------ MODULE WebClient ------------------------------
(***************************************************************************)
(* The web client: browser tabs that share the device key store, each      *)
(* running the end-to-end demonstration (Alice and Bob on one page)        *)
(* through a node's relay and blob roles.  Composes the handshake and the  *)
(* ratchet with the store and the relay.                                   *)
(*                                                                         *)
(* Tabs interleave at every await.  Everything random that a run makes     *)
(* (identities, keys, queue ids, locator) is named after the run.  The     *)
(* relay is a sequence of envelopes per queue, the order that Mailbox      *)
(* keeps for the pushes of one client.                                     *)
(***************************************************************************)
EXTENDS RatchetState, Pqxdh

CONSTANTS
  Tab,      \* browser tabs
  NodeCA,   \* fingerprints the node may advertise
  MaxRuns   \* bound: runs of the demonstration, over all tabs

ASSUME WebClientAssumption == MaxRuns \in Nat /\ None \notin Nat

VARIABLES
  salt,       \* META: the salt of the store, or None
  sealed,     \* SEALED: the record of each key, or None
  relay,      \* live envelopes of each queue, oldest first
  blobs,      \* stored object of each locator, or None
  page,       \* where each tab's run stands, and its locals
  runs,       \* runs begun
  sent,       \* history: ratchet messages handed to the relay
  acked,      \* history: envelopes acknowledged, by the queue and its run
  disturbed,  \* history: what the tab's run relies on failed or was overwritten
  raced       \* history: two tabs both found no salt

vars == <<salt, sealed, relay, blobs, page, runs, sent, acked, disturbed, raced>>

-----------------------------------------------------------------------------
Run == 1..MaxRuns
Queue == {"alice", "bob"} \X Run

\* What a run generates.
AliceId(r) == <<<<"alice", r>>, 0>>
BobId(r) == <<<<"bob", r>>, 0>>
Secrets(r) == PrekeySecrets(r, TRUE)
Bundle(r) == PrekeyBundle(AliceId(r), Secrets(r))
Initiated(r) == Initiate(BobId(r), Bundle(r), r)
BobSession(r) ==
  InitiatorState(<<Initiated(r).root>>, <<<<"bob ratchet", r>>, 0>>, Secrets(r).signed)

\* sealMedia: the content key, and the object, are named after the run as well.
SealedMedia(r) == [key |-> r, text |-> <<"photo", r>>]

NoPage == [pc |-> "idle", run |-> 0, key |-> None, pin |-> None, inbound |-> <<>>,
           secrets |-> None, alice |-> None, bob |-> None, out |-> None, shown |-> <<>>]

\* The store key that each put of the program writes.
PutKey ==
  [aliceIdentity |-> "alice/identity", aliceSecrets |-> "alice/secrets",
   aliceBundle |-> "alice/bundle",     aliceQueue |-> "alice/queue",
   bobIdentity |-> "bob/identity",     bobQueue |-> "bob/queue",
   bobInitiated |-> "bob/session",     bobSaid |-> "bob/session",
   aliceHeard |-> "alice/session",     aliceSaid |-> "alice/session",
   bobHeard |-> "bob/session",         aliceMedia |-> "alice/session",
   bobMedia |-> "bob/session"]

StoreKey == {PutKey[s] : s \in DOMAIN PutKey}

\* The keys that a run reads back.
ReadBack == {"alice/secrets", "alice/bundle", "bob/session"}

\* The queue that each push, pull and ack is about.
PushTo == [pushHandshake |-> "alice", pushHello |-> "alice",
           pushReply |-> "bob", pushMedia |-> "bob"]
PullFrom == [pullAlice |-> "alice", pullBob |-> "bob", pullMedia |-> "bob"]
AckOn == [ackAlice |-> "alice", ackBob |-> "bob", ackMedia |-> "bob"]

FetchSteps == DOMAIN PushTo \cup DOMAIN PullFrom \cup DOMAIN AckOn
                \cup {"putBlob", "getBlob"}

Stopped == {"idle", "done", "failed"}

\* The awaits of runDemo and runMediaPath, each with the one after it.  "open" and
\* "health" branch, in the actions below.
AliceInvites ==
  [aliceIdentity |-> "aliceSecrets", aliceSecrets |-> "aliceBundle",
   aliceBundle |-> "aliceQueue",     aliceQueue |-> "health",
   verifyPin |-> "bobIdentity"]

\* Mutant of BobSays: the session is saved after the pushes.
BobSays_SaveLast ==
  [bobIdentity |-> "bobQueue",       bobQueue |-> "bobInitiated",
   bobInitiated |-> "pushHandshake", pushHandshake |-> "pushHello",
   pushHello |-> "bobSaid",          bobSaid |-> "pullAlice"]

BobSays ==
  [bobIdentity |-> "bobQueue",       bobQueue |-> "bobInitiated",
   bobInitiated |-> "bobSaid",       bobSaid |-> "pushHandshake",
   pushHandshake |-> "pushHello",    pushHello |-> "pullAlice"]

AliceHears ==
  [pullAlice |-> "getSecrets",       getSecrets |-> "getBundle",
   getBundle |-> "aliceHeard",       aliceHeard |-> "ackAlice",
   ackAlice |-> "aliceSaid",         aliceSaid |-> "pushReply",
   pushReply |-> "pullBob"]

\* Mutant of BobHears: the reply is acknowledged before the session is saved.
BobHears_AckFirst ==
  [pullBob |-> "getBob",             getBob |-> "ackBob",
   ackBob |-> "bobHeard",            bobHeard |-> "putBlob"]

BobHears ==
  [pullBob |-> "getBob",             getBob |-> "bobHeard",
   bobHeard |-> "ackBob",            ackBob |-> "putBlob"]

MediaPath ==
  [putBlob |-> "aliceMedia",         aliceMedia |-> "pushMedia",
   pushMedia |-> "pullMedia",        pullMedia |-> "bobMedia",
   bobMedia |-> "ackMedia",          ackMedia |-> "getBlob",
   getBlob |-> "done"]

\* The parts as one program.
Join(f, g) == [x \in DOMAIN f \cup DOMAIN g |-> IF x \in DOMAIN f THEN f[x] ELSE g[x]]

Program ==
  Join(Join(AliceInvites, BobSays), Join(AliceHears, Join(BobHears, MediaPath)))

Continue(t, locals) == page' = [page EXCEPT ![t] = [locals EXCEPT !.pc = Program[@]]]
\* An exception ends the run; its locals are gone, the handle of the store stays.
Throw(t) ==
  page' = [page EXCEPT ![t] = [NoPage EXCEPT !.pc = "failed", !.run = page[t].run,
                                             !.key = page[t].key]]

Running(t) == page[t].pc \notin Stopped

Init ==
  /\ salt = None
  /\ sealed = [k \in StoreKey |-> None]
  /\ relay = [q \in Queue |-> <<>>]
  /\ blobs = [r \in Run |-> None]
  /\ page = [t \in Tab |-> NoPage]
  /\ runs = 0
  /\ sent = {}
  /\ acked = {}
  /\ disturbed = {}
  /\ raced = FALSE

-----------------------------------------------------------------------------
(***************************************************************************)
(* The key store                                                           *)
(***************************************************************************)

\* The button: the store is opened on the tab's first run.
Start(t) ==
  /\ ~Running(t)
  /\ runs < MaxRuns
  /\ runs' = runs + 1
  /\ page' = [page EXCEPT ![t] =
       [NoPage EXCEPT !.run = runs + 1, !.key = page[t].key,
                      !.pc = IF page[t].key = None THEN "open" ELSE "aliceIdentity"]]
  /\ disturbed' = disturbed \ {t}
  /\ UNCHANGED <<relay, blobs, salt, sealed, sent, acked, raced>>

\* Mutants of OpenRead: the salt is used without having been found, and a store is
\* opened with a new salt each time.
OpenRead_Unset(t) ==
  /\ page[t].pc = "open"
  /\ page' = [page EXCEPT ![t].pc = "aliceIdentity", ![t].key = salt]
  /\ UNCHANGED <<relay, blobs, salt, sealed, runs, sent, acked, disturbed, raced>>

OpenRead_Fresh(t) ==
  /\ page[t].pc = "open"
  /\ page' = [page EXCEPT ![t].pc = "newSalt"]
  /\ UNCHANGED <<relay, blobs, salt, sealed, runs, sent, acked, disturbed, raced>>

\* open: the key derives from the salt that is found ...
OpenRead(t) ==
  /\ page[t].pc = "open"
  /\ page' = [page EXCEPT ![t] =
       IF salt = None THEN [@ EXCEPT !.pc = "newSalt"]
                      ELSE [@ EXCEPT !.pc = "aliceIdentity", !.key = salt]]
  /\ UNCHANGED <<relay, blobs, salt, sealed, runs, sent, acked, disturbed, raced>>

\* ... or from a new one, put in a transaction of its own.
OpenWrite(t) ==
  /\ page[t].pc = "newSalt"
  /\ salt' = page[t].run
  /\ raced' = (raced \/ \E u \in Tab \ {t} : page[u].pc = "newSalt")
  /\ page' = [page EXCEPT ![t].pc = "aliceIdentity", ![t].key = page[t].run]
  /\ UNCHANGED <<relay, blobs, sealed, runs, sent, acked, disturbed>>

\* encryptMessage: the message to push and the session after it.
AliceEncrypts(p, text) ==
  [p EXCEPT !.out = Sealed(p.alice, <<text, p.run>>), !.alice = AfterSend(p.alice)]
BobEncrypts(p, text) ==
  [p EXCEPT !.out = Sealed(p.bob, <<text, p.run>>), !.bob = AfterSend(p.bob)]

\* The value put under each key.
Secret(p) ==
  CASE PutKey[p.pc] = "alice/secrets" -> Secrets(p.run)
    [] PutKey[p.pc] = "alice/bundle"  -> Bundle(p.run)
    [] PutKey[p.pc] = "alice/session" -> p.alice
    [] PutKey[p.pc] = "bob/session"   -> p.bob
    [] OTHER                          -> p.run

Put(t) ==
  LET p == page[t]
      k == PutKey[p.pc]
  IN  /\ p.pc \in DOMAIN PutKey
      /\ sealed' = [sealed EXCEPT ![k] =
                      [salt |-> p.key, run |-> p.run, value |-> Secret(p)]]
      /\ disturbed' = disturbed \cup
           {u \in Tab \ {t} : /\ Running(u) /\ k \in ReadBack
                              /\ sealed[k] # None /\ sealed[k].run = page[u].run}
      /\ Continue(t, IF p.pc = "bobQueue" THEN [p EXCEPT !.bob = BobSession(p.run)]
                     ELSE IF p.pc = "bobInitiated" THEN BobEncrypts(p, "hello")
                     ELSE p)
      /\ UNCHANGED <<relay, blobs, salt, runs, sent, acked, raced>>

\* get decrypts with the tab's key, and throws if the record is under another one.
Readable(p, k) == sealed[k] # None /\ sealed[k].salt = p.key

GetSecrets(t) ==
  /\ page[t].pc = "getSecrets"
  /\ IF Readable(page[t], "alice/secrets")
     THEN Continue(t, [page[t] EXCEPT !.secrets = sealed["alice/secrets"].value])
     ELSE Throw(t)
  /\ UNCHANGED <<relay, blobs, salt, sealed, runs, sent, acked, disturbed, raced>>

\* The bundle, then acceptSession and decryptMessage on what was pulled.
GetBundle(t) ==
  LET p == page[t]
      bundle == sealed["alice/bundle"].value
      handshake == p.inbound[1]
      session == ResponderState(<<RespondRoot(bundle, p.secrets, handshake)>>,
                                p.secrets.signed)
      opened == DecryptMessage(session, p.inbound[2], TRUE)
  IN  /\ p.pc = "getBundle"
      /\ IF /\ Readable(p, "alice/bundle")
            /\ Responds(bundle, handshake)
            /\ "dh" \in DOMAIN p.inbound[2]
            /\ opened.ok
         THEN Continue(t, [p EXCEPT !.secrets = None, !.alice = opened.st,
                                    !.shown = Append(@, p.inbound[2].body)])
         ELSE Throw(t)
      /\ UNCHANGED <<relay, blobs, salt, sealed, runs, sent, acked, disturbed, raced>>

BobDecrypts(t, session) ==
  LET p == page[t]
      opened == DecryptMessage(session, p.inbound[1], TRUE)
  IN  IF opened.ok
      THEN Continue(t, [p EXCEPT !.bob = opened.st,
                                 !.shown = Append(@, p.inbound[1].body)])
      ELSE Throw(t)

GetBob(t) ==
  /\ page[t].pc = "getBob"
  /\ IF Readable(page[t], "bob/session")
     THEN BobDecrypts(t, sealed["bob/session"].value)
     ELSE Throw(t)
  /\ UNCHANGED <<relay, blobs, salt, sealed, runs, sent, acked, disturbed, raced>>

-----------------------------------------------------------------------------
(***************************************************************************)
(* The node, over HTTP                                                     *)
(***************************************************************************)

\* nodeCaFingerprint: what the node has on /v1/health at the time, None if it serves
\* plain HTTP or does not answer.
Advertised == NodeCA \cup {None}

\* Alice's invite carries what the node advertises; Bob parses it, and checks the
\* pin if there is one.
Health(t) ==
  LET p == page[t]
  IN  /\ p.pc = "health"
      /\ \E pin \in Advertised :
           LET invite == Invite(AliceId(p.run), <<"alice", p.run>>, pin, Bundle(p.run),
                                p.run)
           IN  page' = [page EXCEPT ![t] = [p EXCEPT
                 !.pin = pin,
                 !.pc = IF ~InviteParses(invite) THEN "failed"
                        ELSE IF pin = None THEN "bobIdentity"
                        ELSE "verifyPin"]]
      /\ UNCHANGED <<relay, blobs, salt, sealed, runs, sent, acked, disturbed, raced>>

\* verifyPinnedCa: the node may have another CA by now.
VerifyPin(t) ==
  /\ page[t].pc = "verifyPin"
  /\ \E advertised \in Advertised :
       IF advertised \in {None, page[t].pin}
       THEN Continue(t, [page[t] EXCEPT !.pin = None]) /\ UNCHANGED disturbed
       ELSE Throw(t) /\ disturbed' = disturbed \cup {t}
  /\ UNCHANGED <<relay, blobs, salt, sealed, runs, sent, acked, raced>>

\* The reply to a request that took effect may be lost.
Replied(t, locals, lost) ==
  /\ IF lost THEN Throw(t) ELSE Continue(t, locals)
  /\ disturbed' = IF lost THEN disturbed \cup {t} ELSE disturbed

Push(t, lost) ==
  LET p == page[t]
      handshake == p.pc = "pushHandshake"
      payload == IF handshake THEN Initiated(p.run).message ELSE p.out
  IN  /\ p.pc \in DOMAIN PushTo
      /\ relay' = [relay EXCEPT ![<<PushTo[p.pc], p.run>>] = Append(@, payload)]
      /\ sent' = IF handshake THEN sent ELSE sent \cup {payload}
      /\ Replied(t, IF handshake THEN p ELSE [p EXCEPT !.out = None], lost)
      /\ UNCHANGED <<salt, sealed, blobs, runs, acked, raced>>

\* The oldest envelopes may have expired by now; fewer than expected end the run.
\* The media descriptor is decrypted at once, with the session in memory.
Pull(t, expired) ==
  LET p == page[t]
      q == <<PullFrom[p.pc], p.run>>
      rows == SubSeq(relay[q], expired + 1, Len(relay[q]))
      got == [p EXCEPT !.inbound = rows]
      opened == DecryptMessage(p.bob, rows[1], TRUE)
  IN  /\ p.pc \in DOMAIN PullFrom
      /\ expired <= Len(relay[q])
      /\ relay' = [relay EXCEPT ![q] = rows]
      /\ disturbed' = IF expired > 0 THEN disturbed \cup {t} ELSE disturbed
      /\ IF Len(rows) < (IF p.pc = "pullAlice" THEN 2 ELSE 1) THEN Throw(t)
         ELSE IF p.pc # "pullMedia" THEN Continue(t, got)
         ELSE IF opened.ok
              THEN Continue(t, [got EXCEPT !.bob = opened.st,
                                           !.shown = Append(@, rows[1].body)])
         ELSE Throw(t)
      /\ UNCHANGED <<blobs, salt, sealed, runs, sent, acked, raced>>

\* The envelope that is acknowledged leaves the live rows of its queue, if it is there.
Without(rows, e) ==
  LET at == CHOOSE i \in DOMAIN rows : rows[i] = e
  IN  IF \A i \in DOMAIN rows : rows[i] # e THEN rows
      ELSE SubSeq(rows, 1, at - 1) \o SubSeq(rows, at + 1, Len(rows))

\* One ack per envelope pulled.  After the last one of Alice's she encrypts.
Ack(t, lost) ==
  LET p == page[t]
      q == <<AckOn[p.pc], p.run>>
      e == Head(p.inbound)
      rest == [p EXCEPT !.inbound = Tail(@)]
  IN  /\ p.pc \in DOMAIN AckOn
      /\ relay' = [relay EXCEPT ![q] = Without(@, e)]
      /\ acked' = acked \cup {[queue |-> q, envelope |-> e]}
      /\ IF Len(p.inbound) > 1 /\ ~lost
         THEN page' = [page EXCEPT ![t] = rest] /\ UNCHANGED disturbed
         ELSE Replied(t, IF p.pc = "ackAlice" THEN AliceEncrypts(rest, "reply") ELSE rest,
                      lost)
      /\ UNCHANGED <<salt, sealed, blobs, runs, sent, raced>>

PutBlob(t, lost) ==
  LET p == page[t]
  IN  /\ p.pc = "putBlob"
      /\ blobs' = [blobs EXCEPT ![p.run] = SealedMedia(p.run)]
      /\ Replied(t, AliceEncrypts(p, "media"), lost)
      /\ UNCHANGED <<salt, sealed, relay, runs, sent, acked, raced>>

\* A node without the blob role answers 501, which ends the run well.
NoBlobRole(t) ==
  /\ page[t].pc \in {"putBlob", "getBlob"}
  /\ page' = [page EXCEPT ![t].pc = "done"]
  /\ UNCHANGED <<relay, blobs, salt, sealed, runs, sent, acked, disturbed, raced>>

\* The locator and the content key are the ones of the descriptor.
GetBlob(t) ==
  LET p == page[t]
      media == p.shown[Len(p.shown)][2]
  IN  /\ p.pc = "getBlob"
      /\ IF blobs[media] # None /\ blobs[media].key = media
         THEN Continue(t, [p EXCEPT !.shown = Append(@, blobs[media].text)])
         ELSE Throw(t)
      /\ UNCHANGED <<relay, blobs, salt, sealed, runs, sent, acked, disturbed, raced>>

\* A request fails, without effect.
FetchFails(t) ==
  /\ page[t].pc \in FetchSteps
  /\ Throw(t)
  /\ disturbed' = disturbed \cup {t}
  /\ UNCHANGED <<relay, blobs, salt, sealed, runs, sent, acked, raced>>

\* The tab is closed or reloaded: the handle of the store goes with it.
Reload(t) ==
  /\ page[t] # NoPage
  /\ page' = [page EXCEPT ![t] = NoPage]
  /\ disturbed' = disturbed \ {t}
  /\ UNCHANGED <<relay, blobs, salt, sealed, runs, sent, acked, raced>>

TabStep(t) ==
  \/ Start(t)
  \/ OpenRead(t)
  \/ OpenWrite(t)
  \/ Put(t)
  \/ GetSecrets(t)
  \/ GetBundle(t)
  \/ GetBob(t)
  \/ Health(t)
  \/ VerifyPin(t)
  \/ \E lost \in BOOLEAN : Push(t, lost)
  \/ \E expired \in 0..2 : Pull(t, expired)
  \/ \E lost \in BOOLEAN : Ack(t, lost)
  \/ \E lost \in BOOLEAN : PutBlob(t, lost)
  \/ NoBlobRole(t)
  \/ GetBlob(t)
  \/ FetchFails(t)
  \/ Reload(t)

Next == \E t \in Tab : TabStep(t)

Spec == Init /\ [][Next]_vars

-----------------------------------------------------------------------------
(***************************************************************************)
(* Properties                                                              *)
(***************************************************************************)

\* Every variable holds values of its kind; a tab that is past opening has a key,
\* and what is under a session key is a session.
TypeOK ==
  /\ salt \in Run \cup {None}
  /\ \A k \in StoreKey : sealed[k] # None => sealed[k].salt \in Run /\ sealed[k].run \in Run
  /\ \A k \in {"alice/session", "bob/session"} :
       sealed[k] # None => sealed[k].value.ns \in Nat /\ sealed[k].value.skipped = {}
  /\ \A t \in Tab :
       /\ page[t].pc \in DOMAIN Program \cup Stopped \cup {"open", "newSalt", "health"}
       /\ page[t].run \in 0..runs
       /\ Running(t) /\ page[t].pc \notin {"open", "newSalt"} => page[t].key \in Run
  /\ runs \in 0..MaxRuns
  /\ disturbed \subseteq Tab
  /\ raced \in BOOLEAN

\* A run that ends well showed what the other side sent, in order, and a run only
\* fails if a request failed, an envelope expired, the node changed, or another tab
\* overwrote what it was to read back.
UndisturbedRunsDeliver ==
  \A t \in Tab :
    LET r == page[t].run
    IN  /\ page[t].pc = "failed" => t \in disturbed
        /\ page[t].pc = "done" =>
             page[t].shown \in {<<<<"hello", r>>, <<"reply", r>>>> \o media :
               media \in {<<>>, <<<<"media", r>>>>, <<<<"media", r>>, <<"photo", r>>>>}}

\* Whenever a tab dies, the sessions in the store have moved past every message that
\* the relay was given: resuming from them cannot use a message key again.
SavedBeforeSent ==
  \A m \in sent : \A k \in {"alice/session", "bob/session"} :
    sealed[k] # None => ~Derives(sealed[k].value.cks, m.key)

\* Whenever a tab dies, what it acknowledged (and the relay has dropped) is contained
\* in the session it stored: the handshake was completed, the message consumed.
AckedIsSaved ==
  \A a \in acked :
    LET rec == sealed[IF a.queue[1] = "alice" THEN "alice/session" ELSE "bob/session"]
    IN  /\ rec # None
        /\ rec.run = a.queue[2] /\ "dh" \in DOMAIN a.envelope
             => ~DecryptMessage(rec.value, a.envelope, TRUE).ok

\* Every record in the store can be read by a tab that opens the store now, unless
\* two tabs made a salt at the same time.
StoreReadableUnlessRaced ==
  \A k \in StoreKey : sealed[k] # None /\ ~raced => sealed[k].salt = salt
=============================================================================
