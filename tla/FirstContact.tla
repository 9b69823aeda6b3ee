----------------------------- MODULE FirstContact -----------------------------
(***************************************************************************)
(* First contact on the wire: parties publish prekey bundles, invite each  *)
(* other, parse the invites, initiate sessions and accept them, all in the *)
(* encoded forms of Wire, over channels that repeat, misdeliver and damage *)
(* what is sent.                                                           *)
(*                                                                         *)
(* A key, a ciphertext, a signature, a nonce are one byte on the wire: the *)
(* number of the thing among its kind, from 0 in the order of making.  A   *)
(* damaged number is another thing's, or nobody's.  The secrets derived    *)
(* from them are the terms of Pqxdh.                                       *)
(***************************************************************************)
EXTENDS Wire, Pqxdh, FiniteSets

CONSTANTS
  Party,          \* identities
  MaxBundles,     \* bound: bundles published
  MaxInvites,     \* bound: invites created
  MaxInitiations  \* bound: sessions initiated

ASSUME FirstContactAssumption ==
  /\ Party \subseteq Byte
  /\ MaxBundles \in Nat /\ MaxInvites \in Nat /\ MaxInitiations \in Nat

VARIABLES
  signed,     \* every signature made: who signed which bytes
  published,  \* the bundles published: the owner, the secrets blob and the encoding
  invites,    \* the invites created: what they say and their encoding
  contact,    \* the invite each party parsed last, or none
  initiated,  \* the sessions initiated: by whom, on which bundle, with which root
  accepted,   \* the sessions accepted: with whom, on which bundle, with which root
  parsed,     \* history: the invites that were parsed
  refused     \* history: what was sent was refused at its first use, undamaged

vars == <<signed, published, invites, contact, initiated, accepted, parsed, refused>>

-----------------------------------------------------------------------------
\* The tags of v1.rs that first contact uses, and the contexts of its frames.
TagIdentityPub == 1
TagPrekeyBundle == 2
TagQueueUri == 3
TagInviteNonce == 4
TagExpiry == 5
TagSignature == 6
TagContext == 7
TagPrekeyX25519 == 8
TagMlkemEk == 9
TagOnetimePrekey == 10
TagEphemeralX25519 == 11
TagKemCt == 12
TagQueueId == 13
TagRelayUrl == 14
TagCaFingerprint == 15

PrekeyContext == <<1>>
InviteContext == <<2>>
TranscriptContext == <<3>>

\* from_bytes, from_slice, try_into: a value of the fixed length of its kind.
Fixed(frame, tag) == {value[1] : value \in {v \in Get(frame, tag) : Len(v) = 1}}

\* A frame with the context its decoder asks for.
InContext(buf, context) == {frame \in Decode(buf) : Get(frame, TagContext) = {context}}

\* IdentityPublicKey::verify
VerifySignature(identity, body, signature) ==
  signature + 1 \in DOMAIN signed /\ Verify(identity, body, signed[signature + 1])

-----------------------------------------------------------------------------
(***************************************************************************)
(* prekey.rs                                                               *)
(***************************************************************************)
OneTimeField(key) == IF key = NoKey THEN <<>> ELSE << <<TagOnetimePrekey, <<key>>>> >>

\* The fields that the signature covers.
BundleFields(b) ==
  << <<TagContext, PrekeyContext>>, <<TagIdentityPub, <<b.identity>>>>,
     <<TagPrekeyX25519, <<b.signed>>>>, <<TagMlkemEk, <<b.kem>>>> >> \o OneTimeField(b.oneTime)

BundleSigningBody(b) == Encode(Frame(BundleFields(b)))

EncodeBundle(b) ==
  Encode(Frame(BundleFields(b) \o << <<TagSignature, <<b.signature>>>> >>))

\* PrekeyBundle::decode: a bundle whose signature does not check is none.
DecodeBundle(buf) ==
  {b \in UNION {[identity : Fixed(f, TagIdentityPub), signed : Fixed(f, TagPrekeyX25519),
                 kem : Fixed(f, TagMlkemEk), signature : Fixed(f, TagSignature),
                 oneTime : IF Get(f, TagOnetimePrekey) = {} THEN {NoKey}
                           ELSE Fixed(f, TagOnetimePrekey)] :
                f \in InContext(buf, PrekeyContext)} :
     VerifySignature(b.identity, BundleSigningBody(b), b.signature)}

\* PrekeySecrets::to_bytes and from_bytes.
SecretsVersion == 1

SecretsToBytes(s) ==
  <<SecretsVersion, s.signed, s.kem>> \o (IF s.oneTime = NoKey THEN <<0>> ELSE <<1, s.oneTime>>)

SecretsFromBytes(blob) ==
  IF Len(blob) < 4 \/ blob[1] # SecretsVersion THEN {}
  ELSE {[signed |-> blob[2], kem |-> blob[3], oneTime |-> key] :
          key \in CASE blob[4] = 0 -> {NoKey}
                    [] blob[4] = 1 /\ Len(blob) > 4 -> {blob[5]}
                    [] OTHER -> {}}

-----------------------------------------------------------------------------
(***************************************************************************)
(* invite.rs                                                               *)
(***************************************************************************)
EncodeQueue(q) ==
  Encode(Frame(<< <<TagQueueId, <<q.id>>>>, <<TagRelayUrl, q.url>>,
                  <<TagCaFingerprint, <<q.ca>>>> >>))

\* The relay URL is any bytes; the code also asks that they are UTF-8.
DecodeQueue(buf) ==
  UNION {[id : Fixed(f, TagQueueId), url : Get(f, TagRelayUrl), ca : Fixed(f, TagCaFingerprint)] :
         f \in Decode(buf)}

InviteFields(queue, identity, bundle, nonce, expiry) ==
  << <<TagContext, InviteContext>>, <<TagQueueUri, EncodeQueue(queue)>>,
     <<TagIdentityPub, <<identity>>>>, <<TagPrekeyBundle, bundle>>,
     <<TagInviteNonce, <<nonce>>>>, <<TagExpiry, <<expiry>>>> >>

\* Mutant of InviteSigningBody: the queue is not signed.
InviteSigningBody_NoQueue(queue, identity, bundle, nonce, expiry) ==
  Encode(Frame(Tail(Tail(InviteFields(queue, identity, bundle, nonce, expiry)))))

InviteSigningBody(queue, identity, bundle, nonce, expiry) ==
  Encode(Frame(InviteFields(queue, identity, bundle, nonce, expiry)))

\* Invite::encode, of a bundle in its decoded form.
EncodeInvite(i) ==
  Encode(Frame(InviteFields(i.queue, i.bundle.identity, EncodeBundle(i.bundle),
                            i.nonce, i.expiry) \o << <<TagSignature, <<i.signature>>>> >>))

\* Invite::decode.  The signature is checked over the bundle's bytes as they came.
DecodeInvite(buf) ==
  UNION {UNION {
    {i \in [queue : UNION {DecodeQueue(q) : q \in Get(f, TagQueueUri)},
            bundle : {b \in DecodeBundle(bytes) : b.identity \in Fixed(f, TagIdentityPub)},
            nonce : Fixed(f, TagInviteNonce), expiry : Fixed(f, TagExpiry),
            signature : Fixed(f, TagSignature)] :
       VerifySignature(i.bundle.identity,
                       InviteSigningBody(i.queue, i.bundle.identity, bytes, i.nonce, i.expiry),
                       i.signature)} :
    bytes \in Get(f, TagPrekeyBundle)} : f \in InContext(buf, InviteContext)}

-----------------------------------------------------------------------------
(***************************************************************************)
(* pqxdh.rs                                                                *)
(***************************************************************************)
\* Mutant of TranscriptBytes: the ciphertext is not bound.
TranscriptBytes_NoCt(bundle, initiator, ephemeral, ct) ==
  Encode(Frame(
    << <<TagContext, TranscriptContext>>, <<TagIdentityPub, <<bundle.identity>>>>,
       <<TagPrekeyX25519, <<bundle.signed>>>>, <<TagMlkemEk, <<bundle.kem>>>> >>
    \o OneTimeField(bundle.oneTime) \o
    << <<TagIdentityPub, <<initiator>>>>, <<TagEphemeralX25519, <<ephemeral>>>> >>))

\* transcript
TranscriptBytes(bundle, initiator, ephemeral, ct) ==
  Encode(Frame(
    << <<TagContext, TranscriptContext>>, <<TagIdentityPub, <<bundle.identity>>>>,
       <<TagPrekeyX25519, <<bundle.signed>>>>, <<TagMlkemEk, <<bundle.kem>>>> >>
    \o OneTimeField(bundle.oneTime) \o
    << <<TagIdentityPub, <<initiator>>>>, <<TagEphemeralX25519, <<ephemeral>>>>,
       <<TagKemCt, ct>> >>))

EncodeInitial(m) ==
  Encode(Frame(
    << <<TagContext, TranscriptContext>>, <<TagIdentityPub, <<m.initiator>>>>,
       <<TagEphemeralX25519, <<m.ephemeral>>>>, <<TagKemCt, m.ct>>,
       <<TagSignature, <<m.signature>>>> >>))

\* InitialMessage::decode checks the structure; the ciphertext's length is respond's.
DecodeInitial(buf) ==
  UNION {[initiator : Fixed(f, TagIdentityPub), ephemeral : Fixed(f, TagEphemeralX25519),
          ct : Get(f, TagKemCt), signature : Fixed(f, TagSignature)] :
         f \in InContext(buf, TranscriptContext)}

\* The key pair with a number, of a kind.
KeyPair(kind, number) == IF number = NoKey THEN NoKey ELSE <<kind, number>>

\* The ciphertext with a number: the nth initiation made the nth, for its bundle's key.
Ciphertext(number) ==
  Encapsulate(IF number + 1 \in DOMAIN initiated THEN initiated[number + 1].bundle.kem ELSE NoKey,
              number)

\* The root from the ephemeral key, the responder's keys (public or secret), the KEM's
\* secret and the transcript: what initiate and respond both compute.
Root(ephemeral, keys, secret, script) ==
  DeriveRoot(SharedSecret(KeyPair("ephemeral", ephemeral), KeyPair("signed", keys.signed)),
             OneTimeSecret(KeyPair("ephemeral", ephemeral), KeyPair("one-time", keys.oneTime)),
             secret, script)

\* initiate, with a fresh ephemeral key and a fresh ciphertext.
InitiateRoot(p, bundle, fresh) ==
  Root(fresh, bundle, Encapsulate(bundle.kem, fresh),
       TranscriptBytes(bundle, p, fresh, <<fresh>>))

\* respond: the root, or nothing when the signature does not check.
RespondRoots(bundle, secrets, m) ==
  LET script == TranscriptBytes(bundle, m.initiator, m.ephemeral, m.ct)
  IN  IF Len(m.ct) = 1 /\ VerifySignature(m.initiator, script, m.signature)
      THEN {Root(m.ephemeral, secrets, Decapsulate(secrets.kem, Ciphertext(m.ct[1])), script)}
      ELSE {}

-----------------------------------------------------------------------------
(***************************************************************************)
(* The operations of the FFI.  The channels keep everything that was sent, *)
(* and may deliver any of it to anyone, damaged or not.                    *)
(***************************************************************************)
Init ==
  /\ signed = <<>> /\ published = <<>> /\ invites = <<>>
  /\ contact = [p \in Party |-> {}]
  /\ initiated = <<>> /\ accepted = {}
  /\ parsed = {} /\ refused = FALSE

\* publishable_prekey_bundle, or PrekeyBundle::generate without a one-time prekey.
Publish(p, withOneTime) ==
  LET k == Len(published)
      keys == [signed |-> k, kem |-> k, oneTime |-> IF withOneTime THEN k ELSE NoKey]
      bundle == [identity |-> p, signed |-> k, kem |-> k, oneTime |-> keys.oneTime,
                 signature |-> Len(signed)]
  IN  /\ Len(published) < MaxBundles
      /\ signed' = Append(signed, Sign(p, BundleSigningBody(bundle)))
      /\ published' = Append(published, [owner |-> p, bundle |-> bundle,
                                         secrets |-> SecretsToBytes(keys),
                                         bytes |-> EncodeBundle(bundle)])
      /\ UNCHANGED <<invites, contact, initiated, accepted, parsed, refused>>

\* create_invite, on a bundle of one's own.
CreateInvite(k) ==
  /\ Len(invites) < MaxInvites
  /\ \E bundle \in DecodeBundle(published[k].bytes) :
       LET p == published[k].owner
           n == Len(invites)
           queue == [id |-> n, url |-> <<n, n>>, ca |-> k]
           invite == [queue |-> queue, bundle |-> bundle, nonce |-> n, expiry |-> n,
                      signature |-> Len(signed)]
       IN  /\ signed' = Append(signed, Sign(p, InviteSigningBody(queue, p,
                                                  EncodeBundle(bundle), n, n)))
           /\ invites' = Append(invites, [invite |-> invite, bytes |-> EncodeInvite(invite)])
  /\ UNCHANGED <<published, contact, initiated, accepted, parsed, refused>>

\* One bit of byte b turned over.
Flips(b) ==
  {IF (b \div 2 ^ j) % 2 = 0 THEN b + 2 ^ j ELSE b - 2 ^ j : j \in 0..GroupBits}

\* What a later version may send: a field more, that this one does not know.
Extended(buf) == buf \o WriteVarint(20) \o WriteVarint(1) \o <<0>>

Undamaged(buf) == {buf, Extended(buf)}

\* A bit is turned over, or the end is missing.
Damaged(buf) ==
  UNION {{[buf EXCEPT ![i] = b] : b \in Flips(buf[i])} : i \in DOMAIN buf}
    \cup {SubSeq(buf, 1, n) : n \in 0..(Len(buf) - 1)}

\* A delivery of sent: what reading it gives, and whether it came whole.
Deliveries(sent, Read(_)) ==
  {[read |-> Read(buf), whole |-> TRUE] : buf \in Undamaged(sent)}
    \cup {[read |-> Read(buf), whole |-> FALSE] : buf \in Damaged(sent)}

\* parse_invite, by any party, any number of times: no nonce is remembered.
ParseInvite(i) ==
  \E d \in Deliveries(invites[i].bytes, DecodeInvite), p \in Party :
    /\ contact' = IF d.read = {} THEN contact ELSE [contact EXCEPT ![p] = d.read]
    /\ parsed' = IF d.read = {} THEN parsed ELSE parsed \cup {i}
    /\ refused' = (refused \/ (d.whole /\ d.read = {} /\ i \notin parsed))
    /\ UNCHANGED <<signed, published, invites, initiated, accepted>>

\* initiate_session, with the bundle that parse_invite encoded again.
InitiateSession(p) ==
  /\ Len(initiated) < MaxInitiations
  /\ \E invite \in contact[p] :
       LET n == Len(initiated)
           message == [initiator |-> p, ephemeral |-> n, ct |-> <<n>>,
                       signature |-> Len(signed)]
           session(b) == [by |-> p, bundle |-> b, root |-> InitiateRoot(p, b, n),
                          bytes |-> EncodeInitial(message)]
       IN  \E b \in DecodeBundle(EncodeBundle(invite.bundle)) :
             /\ signed' = Append(signed, Sign(p, TranscriptBytes(b, p, n, <<n>>)))
             /\ initiated' = Append(initiated, session(b))
  /\ UNCHANGED <<published, invites, contact, accepted, parsed, refused>>

\* The nth first flight is at its first use on bundle k: it has not been accepted,
\* and neither has another one on k's one-time prekey.
FirstUse(n, k) ==
  \A a \in accepted : /\ a.root # initiated[n].root
                      /\ a.bundle = k => published[k].bundle.oneTime = NoKey

\* accept_session by the owner of bundle k, of any first flight, any number of times:
\* neither first flights nor one-time prekeys are crossed off.
AcceptSession(k) ==
  \E b \in DecodeBundle(published[k].bytes), s \in SecretsFromBytes(published[k].secrets) :
    LET Sessions(buf) ==
          UNION {[from : {m.initiator}, bundle : {k}, root : RespondRoots(b, s, m)] :
                 m \in DecodeInitial(buf)}
    IN  \E e \in DOMAIN initiated : \E d \in Deliveries(initiated[e].bytes, Sessions) :
          /\ accepted' = accepted \cup d.read
          /\ refused' = (refused \/ /\ d.whole /\ d.read = {}
                                    /\ initiated[e].bundle = b /\ FirstUse(e, k))
          /\ UNCHANGED <<signed, published, invites, contact, initiated, parsed>>

Next ==
  \/ \E p \in Party :
       \/ \E withOneTime \in BOOLEAN : Publish(p, withOneTime)
       \/ InitiateSession(p)
  \/ \E i \in DOMAIN invites : ParseInvite(i)
  \/ \E k \in DOMAIN published : CreateInvite(k) \/ AcceptSession(k)

Spec == Init /\ [][Next]_vars

-----------------------------------------------------------------------------
(***************************************************************************)
(* Properties                                                              *)
(***************************************************************************)

\* write_varint and read_varint over every number, and read_varint over every buffer
\* up to the longest varint's length: what is written is read back; what is read is a
\* number of Width bits, never one whose high bits were lost, and ends in the buffer.
VarintCodec ==
  /\ \A v \in Number :
       ReadVarint(WriteVarint(v), 1) = {[value |-> v, next |-> Len(WriteVarint(v)) + 1]}
  /\ \A n \in 0..MaxVarintLen : \A buf \in [1..n -> Byte] : \A r \in ReadVarint(buf, 1) :
       r.value \in Number /\ r.next \in 2..(n + 1)

\* Every variable holds values of its kind: what is sent is made of bytes, framed with
\* numbers that are read back as they were written.
TypeOK ==
  /\ VarintCodec
  /\ \A sent \in {published, invites, initiated} : \A n \in DOMAIN sent :
       sent[n].bytes \in Seq(Byte)
  /\ \A n \in DOMAIN signed : signed[n].by \in Party /\ signed[n].over \in Seq(Byte)
  /\ DOMAIN contact = Party /\ \A p \in Party : Cardinality(contact[p]) <= 1
  /\ \A a \in accepted : a.from \in Party /\ a.bundle \in DOMAIN published
  /\ parsed \subseteq DOMAIN invites /\ refused \in BOOLEAN

\* "A parsed `Invite` is therefore always authentic" (invite.rs:11): whatever was
\* damaged on the way, an invite that parses says what its inviter signed, in all its
\* fields, and carries a bundle that the inviter published.
ParsedIsAuthentic ==
  \A p \in Party : \A i \in contact[p] :
    /\ \E n \in DOMAIN invites : i = invites[n].invite
    /\ \E k \in DOMAIN published :
         i.bundle = published[k].bundle /\ i.bundle.identity = published[k].owner

\* The responder agrees with the initiator: a session that is accepted was initiated
\* by the identity it names, on this very bundle, and both have the same root; a
\* damaged or misdelivered first flight is accepted with that root or not at all.
Agreement ==
  \A a \in accepted : \E e \in DOMAIN initiated :
    /\ initiated[e].by = a.from
    /\ initiated[e].bundle = published[a.bundle].bundle
    /\ initiated[e].root = a.root

\* What is encoded is decoded: every blob and bundle that the code produces is read
\* back and verified, and every invite and first flight is taken by the one it is for
\* at its first use, through the nesting of bundles in invites and the encoding again in
\* between, and with an unknown field at its end ("unknown ones skipped without a wire
\* break", v1.rs:12).  Nothing is said of an invite, a first flight or a one-time prekey
\* that was used before.
SentIsTaken ==
  /\ ~refused
  /\ \A k \in DOMAIN published :
       /\ DecodeBundle(published[k].bytes) = {published[k].bundle}
       /\ SecretsFromBytes(published[k].secrets) =
            {[signed |-> published[k].bundle.signed, kem |-> published[k].bundle.kem,
              oneTime |-> published[k].bundle.oneTime]}
  /\ \A p \in Party : \A i \in contact[p] : DecodeBundle(EncodeBundle(i.bundle)) = {i.bundle}
=============================================================================
