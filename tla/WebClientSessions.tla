-------------------------- MODULE WebClientSessions --------------------------
(***************************************************************************)
(* What the run of a tab holds at each await of WebClient's program: the   *)
(* inductive invariant of its sessions.                                    *)
(*                                                                         *)
(* Everything a run makes is named after it, and a message opens only      *)
(* under the key it was sealed with.  The two sessions of a run, and its   *)
(* three messages, are therefore terms of the run alone, whatever another  *)
(* tab has put in the store meanwhile.                                     *)
(***************************************************************************)
EXTENDS WebClient

-----------------------------------------------------------------------------
(***************************************************************************)
(* The sessions and the messages of run r, in the order they come about    *)
(***************************************************************************)
BobKey(r, n) == <<<<"bob ratchet", r>>, n>>
Prekey(r, n) == <<<<"signed prekey", r>>, n>>

\* The root keys, each with one more value mixed in.
Root1(r) == Append(<<Initiated(r).root>>, {BobKey(r, 0), Prekey(r, 0)})
Root2(r) == Append(Root1(r), {Prekey(r, 1), BobKey(r, 0)})
Root3(r) == Append(Root2(r), {BobKey(r, 1), Prekey(r, 1)})

Chain(root, i) == [root |-> root, i |-> i]

\* Bob, having initiated and having said hello.
Bob0(r) == [dhs |-> BobKey(r, 0), dhr |-> Prekey(r, 0), rk |-> Root1(r),
            cks |-> Chain(Root1(r), 0), ckr |-> None,
            ns |-> 0, nr |-> 0, pn |-> 0, skipped |-> {}]
Bob1(r) == [dhs |-> BobKey(r, 0), dhr |-> Prekey(r, 0), rk |-> Root1(r),
            cks |-> Chain(Root1(r), 1), ckr |-> None,
            ns |-> 1, nr |-> 0, pn |-> 0, skipped |-> {}]

\* Alice, having heard hello, having said her reply, and having sent the media.
Alice(r, ns) == [dhs |-> Prekey(r, 1), dhr |-> BobKey(r, 0), rk |-> Root2(r),
                 cks |-> Chain(Root2(r), ns), ckr |-> Chain(Root1(r), 1),
                 ns |-> ns, nr |-> 1, pn |-> 0, skipped |-> {}]

\* Bob, having heard one and both of them.
BobHeard(r, nr) == [dhs |-> BobKey(r, 1), dhr |-> Prekey(r, 1), rk |-> Root3(r),
                    cks |-> Chain(Root3(r), 0), ckr |-> Chain(Root2(r), nr),
                    ns |-> 0, nr |-> nr, pn |-> 1, skipped |-> {}]

Handshake(r) == Initiated(r).message
Hello(r) == [dh |-> BobKey(r, 0), pn |-> 0, n |-> 0, key |-> Chain(Root1(r), 0),
             body |-> <<"hello", r>>]
Reply(r) == [dh |-> Prekey(r, 1), pn |-> 0, n |-> 0, key |-> Chain(Root2(r), 0),
             body |-> <<"reply", r>>]
Media(r) == [dh |-> Prekey(r, 1), pn |-> 0, n |-> 1, key |-> Chain(Root2(r), 1),
             body |-> <<"media", r>>]

AliceSessions(r) == {Alice(r, 0), Alice(r, 1), Alice(r, 2)}
BobSessions(r) == {Bob0(r), Bob1(r), BobHeard(r, 1), BobHeard(r, 2)}

\* What a run puts in the store under each key.
KeyValues(k, r) ==
  IF k = "alice/secrets" THEN {Secrets(r)}
  ELSE IF k = "alice/bundle" THEN {Bundle(r)}
  ELSE IF k = "alice/session" THEN AliceSessions(r)
  ELSE IF k = "bob/session" THEN BobSessions(r)
  ELSE {r}

RecordOf(k, r) == [salt : Run, run : {r}, value : KeyValues(k, r)]

\* None is no record, no object and no key.
ASSUME NoneAssumption ==
  /\ \A k \in StoreKey, r \in Run : None \notin RecordOf(k, r)
  /\ \A r \in Run : None \notin {BobKey(r, 0), Prekey(r, 1)}
  /\ \A r \in Run : None \notin {Chain(Root1(r), 0), Chain(Root2(r), 0), Chain(Root2(r), 1)}
  /\ \A r \in Run : None # SealedMedia(r)

-----------------------------------------------------------------------------
(***************************************************************************)
(* The awaits up to a point of the program                                 *)
(***************************************************************************)
Opening == {"open", "newSalt"}

BeforeSecrets == Opening \cup {"aliceIdentity", "aliceSecrets"}
BeforeBundle == BeforeSecrets \cup {"aliceBundle"}
BeforeBob == BeforeBundle \cup {"aliceQueue", "health", "verifyPin", "bobIdentity", "bobQueue"}
BeforeHello == BeforeBob \cup {"bobInitiated"}
BeforeShake == BeforeHello \cup {"bobSaid", "pushHandshake"}
BeforeHeard == BeforeShake \cup {"pushHello", "pullAlice", "getSecrets", "getBundle"}
BeforeReply == BeforeHeard \cup {"aliceHeard"}
BeforeMedia == BeforeReply \cup {"ackAlice", "aliceSaid"}

\* The awaits between two points.
BobWaits == {"pushHandshake", "pushHello", "pullAlice", "getSecrets", "getBundle",
             "aliceHeard", "ackAlice", "aliceSaid", "pushReply", "pullBob", "getBob"}
ReplyWaits == {"pullBob", "getBob", "bobHeard", "ackBob"}
BobHas1 == {"bobHeard", "ackBob", "putBlob", "aliceMedia", "pushMedia", "pullMedia"}
AliceHas1 == {"aliceSaid", "pushReply", "pullBob", "getBob", "bobHeard", "ackBob", "putBlob"}
Stored == {"aliceMedia", "pushMedia", "pullMedia", "bobMedia", "ackMedia", "getBlob"}

-----------------------------------------------------------------------------
(***************************************************************************)
(* A run that goes on, with page p                                         *)
(***************************************************************************)

\* The sessions and the message in memory.
SessionsAt(p) ==
  /\ p.pc = "bobInitiated" => p.bob = Bob0(p.run)
  /\ p.pc = "bobSaid" => p.bob = Bob1(p.run)
  /\ p.pc \in BobHas1 => p.bob = BobHeard(p.run, 1)
  /\ p.pc = "bobMedia" => p.bob = BobHeard(p.run, 2)
  /\ p.pc \in {"aliceHeard", "ackAlice"} => p.alice = Alice(p.run, 0)
  /\ p.pc \in AliceHas1 => p.alice = Alice(p.run, 1)
  /\ p.pc = "aliceMedia" => p.alice = Alice(p.run, 2)
  /\ p.pc \in {"bobSaid", "pushHandshake", "pushHello"} => p.out = Hello(p.run)
  /\ p.pc \in {"aliceSaid", "pushReply"} => p.out = Reply(p.run)
  /\ p.pc \in {"aliceMedia", "pushMedia"} => p.out = Media(p.run)

\* What was pulled, read back and shown.
InboundAt(p) ==
  /\ p.pc \in {"getSecrets", "getBundle", "aliceHeard"} =>
       p.inbound = <<Handshake(p.run), Hello(p.run)>>
  /\ p.pc = "ackAlice" =>
       p.inbound \in {<<Handshake(p.run), Hello(p.run)>>, <<Hello(p.run)>>}
  /\ p.pc \in {"getBob", "bobHeard", "ackBob"} => p.inbound = <<Reply(p.run)>>
  /\ p.pc \in {"bobMedia", "ackMedia"} => p.inbound = <<Media(p.run)>>
  /\ p.pc = "getBundle" => \E r \in Run : p.secrets = Secrets(r)

ShownAt(p) ==
  /\ p.pc \in BeforeHeard => p.shown = <<>>
  /\ p.pc \in {"aliceHeard", "ackAlice", "aliceSaid", "pushReply", "pullBob", "getBob"} =>
       p.shown = <<<<"hello", p.run>>>>
  /\ p.pc \in BobHas1 => p.shown = <<<<"hello", p.run>>, <<"reply", p.run>>>>
  /\ p.pc \in {"bobMedia", "ackMedia", "getBlob"} =>
       p.shown = <<<<"hello", p.run>>, <<"reply", p.run>>, <<"media", p.run>>>>

\* The queues and the object of the run.
NodeAt(p, queue, object) ==
  /\ p.pc \in BeforeShake => queue[<<"alice", p.run>>] = <<>>
  /\ p.pc = "pushHello" => queue[<<"alice", p.run>>] = <<Handshake(p.run)>>
  /\ p.pc = "pullAlice" => queue[<<"alice", p.run>>] = <<Handshake(p.run), Hello(p.run)>>
  /\ p.pc \in BeforeMedia \cup {"pushReply"} => queue[<<"bob", p.run>>] = <<>>
  /\ p.pc \in ReplyWaits => queue[<<"bob", p.run>>] = <<Reply(p.run)>>
  /\ p.pc \in {"putBlob", "aliceMedia", "pushMedia"} => queue[<<"bob", p.run>>] = <<>>
  /\ p.pc = "pullMedia" => queue[<<"bob", p.run>>] = <<Media(p.run)>>
  /\ p.pc \in Stored => object[p.run] = SealedMedia(p.run)

\* The record rec, if it is of run r, is one of the sessions S.
Holds(rec, r, S) == rec # None /\ rec.run = r => rec.value \in S

StoredAt(p, alice, bob) ==
  /\ p.pc \in BobWaits \cup {"bobHeard"} => Holds(bob, p.run, {Bob1(p.run)})
  /\ p.pc = "ackBob" => bob # None /\ Holds(bob, p.run, {BobHeard(p.run, 1)})
  /\ p.pc = "ackMedia" => bob # None /\ Holds(bob, p.run, {BobHeard(p.run, 2)})
  /\ p.pc = "ackAlice" => alice # None
  /\ p.pc = "pushReply" => Holds(alice, p.run, {Alice(p.run, 1)})
  /\ p.pc = "pushMedia" => Holds(alice, p.run, {Alice(p.run, 2)})

\* What has not been sent and acknowledged yet.
SentAt(p, messages, acks) ==
  /\ p.pc \in BeforeHello => Hello(p.run) \notin messages
  /\ p.pc \in BeforeReply => Reply(p.run) \notin messages
  /\ p.pc \in BeforeMedia => Media(p.run) \notin messages
  /\ p.pc \in BeforeMedia \cup {"pushReply"} \cup ReplyWaits =>
       \A a \in acks : a.queue # <<"bob", p.run>>

\* All of it, with what the store holds.
GoesOn(p, queue, object, store, messages, acks) ==
  /\ SessionsAt(p) /\ InboundAt(p) /\ ShownAt(p)
  /\ NodeAt(p, queue, object)
  /\ StoredAt(p, store["alice/session"], store["bob/session"])
  /\ SentAt(p, messages, acks)

\* What the run puts under a key.
Rec(p, v) == [salt |-> p.key, run |-> p.run, value |-> v]

\* What a run that nothing disturbed will read back.
ReadsBack(p, store) ==
  /\ p.pc \in BeforeHeard \ (BeforeSecrets \cup {"getBundle"}) =>
       store["alice/secrets"] = Rec(p, Secrets(p.run))
  /\ p.pc \in BeforeHeard \ BeforeBundle => store["alice/bundle"] = Rec(p, Bundle(p.run))
  /\ p.pc = "getBundle" => p.secrets = Secrets(p.run)
  /\ p.pc \in BobWaits => store["bob/session"] = Rec(p, Bob1(p.run))

-----------------------------------------------------------------------------
(***************************************************************************)
(* The invariant                                                           *)
(***************************************************************************)

\* What the node has, and where the tabs stand.
NodeShape ==
  /\ relay = [x \in Queue |-> relay[x]]
  /\ blobs = [r \in Run |-> blobs[r]]
  /\ disturbed \subseteq Tab /\ raced \in BOOLEAN
  /\ \A t \in Tab : page[t].pc \in DOMAIN Program \cup Stopped \cup Opening \cup {"health"}

\* No two tabs are on the same run; a run not begun has left nothing behind.
RunsApart ==
  /\ \A t \in Tab : page[t].run \in 0..runs
  /\ \A t, u \in Tab : Running(t) /\ t # u => page[t].run # page[u].run
  /\ \A r \in Run : r > runs => relay[<<"alice", r>>] = <<>> /\ relay[<<"bob", r>>] = <<>>

AliceRecord == sealed["alice/session"]
BobRecord == sealed["bob/session"]

RunsGoOn ==
  \A t \in Tab : Running(t) => GoesOn(page[t], relay, blobs, sealed, sent, acked)

RunsReadBack ==
  \A t \in Tab : Running(t) /\ t \notin disturbed => ReadsBack(page[t], sealed)

\* The records are of runs begun, each with a value that belongs under its key.
RecordsAreOfRuns ==
  \A k \in StoreKey : sealed[k] # None => \E r \in 1..runs : sealed[k] \in RecordOf(k, r)

\* Every message sent is one of a run's three, and stored as such.
SentIsSaved ==
  \A m \in sent : \E r \in 1..runs :
    \/ m = Hello(r) /\ Holds(BobRecord, r, BobSessions(r) \ {Bob0(r)})
    \/ m = Reply(r) /\ Holds(AliceRecord, r, {Alice(r, 1), Alice(r, 2)})
    \/ m = Media(r) /\ Holds(AliceRecord, r, {Alice(r, 2)})

AckIsSaved ==
  \A a \in acked : \E r \in 1..runs :
    \/ a.queue = <<"alice", r>> /\ a.envelope \in {Handshake(r), Hello(r)} /\ AliceRecord # None
    \/ /\ a.queue = <<"bob", r>> /\ BobRecord # None
       /\ \/ a.envelope = Reply(r) /\ Holds(BobRecord, r, {BobHeard(r, 1), BobHeard(r, 2)})
          \/ a.envelope = Media(r) /\ Holds(BobRecord, r, {BobHeard(r, 2)})

\* The keys there are.
KeysAreSalts ==
  /\ salt \in Run \cup {None}
  /\ \A t \in Tab : page[t].key \in Run \cup {None}

SessionInv ==
  /\ NodeShape /\ RunsApart /\ RunsGoOn /\ RunsReadBack
  /\ RecordsAreOfRuns /\ SentIsSaved /\ AckIsSaved /\ KeysAreSalts
  /\ UndisturbedRunsDeliver
=============================================================================
