-------------------------------- MODULE Pqxdh --------------------------------
(***************************************************************************)
(* First contact: prekey bundles, invites and the PQXDH handshake, as      *)
(* operators on symbolic keys.                                             *)
(*                                                                         *)
(* A key pair and its public key are one term, made from the owner's       *)
(* `fresh` value.  A signature is the signer and the body; an HKDF output  *)
(* is its inputs; an ML-KEM ciphertext is the key it is for and what was   *)
(* drawn.  Encoded forms are the records themselves: every decoder checks  *)
(* the context of a frame, which is the field `context` here.              *)
(***************************************************************************)
CONSTANT NoKey   \* no one-time prekey

\* IdentityKeyPair::sign and IdentityPublicKey::verify.
Sign(identity, body) == [by |-> identity, over |-> body]
Verify(identity, body, signature) == signature = Sign(identity, body)

\* X25519: the same value from either side.
SharedSecret(a, b) == {a, b}

\* ML-KEM: decapsulating with another key gives another secret, not an error.
Encapsulate(kem, fresh) == [to |-> kem, drawn |-> fresh]
Decapsulate(kem, ct) == IF ct.to = kem THEN ct ELSE [rejected |-> ct, with |-> kem]

-----------------------------------------------------------------------------
(***************************************************************************)
(* Prekey bundles (prekey.rs)                                              *)
(***************************************************************************)
PrekeySecrets(fresh, withOneTime) ==
  [signed |-> <<<<"signed prekey", fresh>>, 0>>,
   kem |-> <<<<"kem key", fresh>>, 0>>,
   oneTime |-> IF withOneTime THEN <<<<"one-time prekey", fresh>>, 0>> ELSE NoKey]

\* signing_body: the keys that the identity vouches for.
BundleBody(identity, keys) ==
  [context |-> "prekey bundle", identity |-> identity, keys |-> keys]

\* PrekeyBundle::generate: the public keys, signed.
PrekeyBundle(identity, secrets) ==
  [context |-> "prekey bundle", identity |-> identity, keys |-> secrets,
   signature |-> Sign(identity, BundleBody(identity, secrets))]

\* PrekeyBundle::decode
BundleDecodes(bundle) ==
  /\ bundle.context = "prekey bundle"
  /\ Verify(bundle.identity, BundleBody(bundle.identity, bundle.keys), bundle.signature)

-----------------------------------------------------------------------------
(***************************************************************************)
(* Invites (invite.rs)                                                     *)
(***************************************************************************)
InviteBody(queue, ca, identity, bundle, nonce) ==
  [queue |-> queue, ca |-> ca, identity |-> identity, bundle |-> bundle,
   nonce |-> nonce]

\* Invite::create
Invite(identity, queue, ca, bundle, nonce) ==
  [context |-> "invite",
   body |-> InviteBody(queue, ca, identity, bundle, nonce),
   signature |-> Sign(identity, InviteBody(queue, ca, identity, bundle, nonce))]

\* Invite::decode.  The relay URL and the expiry are signed as well; no caller in the
\* repository compares the expiry with a clock.
InviteParses(invite) ==
  /\ invite.context = "invite"
  /\ BundleDecodes(invite.body.bundle)
  /\ invite.body.bundle.identity = invite.body.identity
  /\ Verify(invite.body.identity, invite.body, invite.signature)

-----------------------------------------------------------------------------
(***************************************************************************)
(* The handshake (pqxdh.rs)                                                *)
(***************************************************************************)
Transcript(bundle, initiator, ephemeral, ct) ==
  [responder |-> bundle.identity, keys |-> bundle.keys, initiator |-> initiator,
   ephemeral |-> ephemeral, ct |-> ct]

\* derive_root, from the two or three secrets and the transcript.
DeriveRoot(signed, oneTime, kem, script) ==
  [signed |-> signed, oneTime |-> oneTime, kem |-> kem, info |-> script]

OneTimeSecret(ephemeral, oneTime) ==
  IF oneTime = NoKey THEN NoKey ELSE SharedSecret(ephemeral, oneTime)

Initiate(initiator, bundle, fresh) ==
  LET ephemeral == <<<<"ephemeral", fresh>>, 0>>
      ct == Encapsulate(bundle.keys.kem, fresh)
      script == Transcript(bundle, initiator, ephemeral, ct)
  IN  [message |-> [context |-> "handshake", initiator |-> initiator,
                    ephemeral |-> ephemeral, ct |-> ct,
                    signature |-> Sign(initiator, script)],
       root |-> DeriveRoot(SharedSecret(ephemeral, bundle.keys.signed),
                           OneTimeSecret(ephemeral, bundle.keys.oneTime), ct, script)]

\* The responder's bundle and secrets are arguments of their own: that they belong
\* together is not checked.
Script(bundle, message) ==
  Transcript(bundle, message.initiator, message.ephemeral, message.ct)

Responds(bundle, message) ==
  /\ BundleDecodes(bundle)
  /\ "context" \in DOMAIN message /\ message.context = "handshake"
  /\ Verify(message.initiator, Script(bundle, message), message.signature)

\* Mutant of RespondRoot: the one-time prekey is left out.
RespondRoot_NoOneTime(bundle, secrets, message) ==
  DeriveRoot(SharedSecret(message.ephemeral, secrets.signed), NoKey,
             Decapsulate(secrets.kem, message.ct), Script(bundle, message))

RespondRoot(bundle, secrets, message) ==
  DeriveRoot(SharedSecret(message.ephemeral, secrets.signed),
             OneTimeSecret(message.ephemeral, secrets.oneTime),
             Decapsulate(secrets.kem, message.ct), Script(bundle, message))
=============================================================================
