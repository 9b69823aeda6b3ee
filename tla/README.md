# buh: TLA+ models, checks and proofs

buh is a decentralised messenger. A **node** relays sealed envelopes (the *mailbox* role) and
stores sealed objects (the *blob* role); nodes and clients meet over mutually authenticated TLS in
which every node is its own CA and peers are pinned by fingerprint. **Clients** run the
cryptography (PQXDH handshake, Double Ratchet, media sealing) natively or as WebAssembly.

This directory holds TLA+ modules translated from the Rust and TypeScript sources, TLC
configurations that check them on small instances, and TLAPS proofs that hold for every value of
the constants. `PROJECT.json` maps each definition to its lines of code and lists runs, mutants,
findings, hazards and theorems.

## 1. Inventory

| Component | Code | State | Operations | What makes it hard |
|---|---|---|---|---|
| Mailbox relay | `buh-api/handlers.rs`, `buh-core/mailbox.rs`, `buh-data/turso_mailbox.rs`, `buh-api/serve.rs` | tables `envelopes`, `delivery_receipts`; per-queue `Notify`; sweeper task | push, pull (long poll), ack, sweep | requests interleave at every statement; handlers are dropped with their connection; crashes between statements; wake-ups |
| Peer trust | `buh-data/peer_trust.rs`, `buh-api/{admin,serve,tls}.rs`, `buh-cli/main.rs` | table `peer_trust`; `TrustStore` snapshot | trust, distrust, list, refresh at start and on a timer, CLI fallback to the database | refreshes read and replace in two steps; failures after the write |
| Blob role | `buh-core/blob.rs`, `buh-data/fs_blob.rs` | files | put, get, exists | temporary file and rename; threads outlive requests |
| Node CA and leaf | `buh-data/node_ca.rs`, `buh-api/{tls,serve}.rs`, `buh-cli/main.rs` | two files; CA in memory; served leaf; timer | load or generate, re-key, issue, rotate, verify | two files written one after the other; several processes; validity windows |
| Double Ratchet | `buh-crypto/ratchet/*`, `buh-crypto/ffi.rs` | `RatchetState` of both ends | encrypt, decrypt (skip, DH step), save, load | lost, repeated, reordered, damaged messages; bounded store; changes before failure |
| Handshake, prekeys, invites | `buh-crypto/{pqxdh,prekey,invite,identity}.rs` | prekey secrets | publish, initiate, respond, invite | one-time keys, expiry, transcript agreement |
| Wire codec | `buh-crypto/wire/*` | none | encode, decode | round trip, the last group of a number, lengths at the end of a buffer |
| Migrations | `buh-data/{migrate,stack}.rs` | tables and indexes; table `schema_version` | open, run | a crash between statements; daemon and CLI take turns |
| Web client | `web/src/lib/*`, `web/src/App.tsx` | IndexedDB (salt, sealed records), the page | open, put, get; the demonstration: invite, handshake, messages both ways, media | tabs share one store; a page goes away between advancing, storing, pushing and acknowledging; replies are lost |
| Federation probe | `buh-api/{peer,tls,serve,handlers}.rs` | the connection | probe: connect, verify, request, answer | leaf, CA, trust and process change during a connection |
| S3 adapter, settlement stub, configuration, CLI output | | | | not modelled (section 7) |

How they interact: the daemon (`buh-api/main.rs`) opens and migrates the database, loads the node CA, starts the
sweeper, the admin API, the rotation timer and the TLS listener. The listener's verifiers read the
trust snapshot; the rotation timer refreshes both leaf and snapshot. Clients push ratchet messages
to the recipient's queue, poll it, decrypt and acknowledge.

## 2. Modules

| Module | Models | Notes |
|---|---|---|
| `Mailbox` | relay | one step per statement or suspension point |
| `RelayQueue` | the life of an envelope in the tables, as the adapter leaves it | abstract specification; `Mailbox` implements it; weaker than the `MailboxRepo` port in two named actions |
| `MailboxProofs` | | theorems about `Mailbox` and `Startup` |
| `Migrate` | opening the database and `migrate::run`, statement by statement | |
| `Startup` | daemon and CLI through starts, migrations and stops | composes `Mailbox` and `Migrate` |
| `PeerTrust` | registry, snapshot, admin API, CLI, refreshes | |
| `PeerTrustProofs` | | theorems about `PeerTrust` |
| `BlobStore` | filesystem blob role | inodes and names, two chunks per file |
| `BlobStoreProofs` | | theorems about `BlobStore` |
| `NodePki` | CA files, re-key, leaf, rotation, chain verification | |
| `Federation` | a peer's probe of the node, and the node's trust in the peer | extends `NodePki` |
| `FederationProofs` | | theorems about `NodePki` and `Federation` |
| `RatchetState` | `RatchetState`, its KDFs, the session blob | operators on symbolic keys |
| `Ratchet` | both ends of a session and the network | over `RatchetState` |
| `RatchetLemmas`, `RatchetProofs` | | what the operators of `RatchetState` do; theorems about `Ratchet` |
| `Pqxdh` | prekey bundles, invites, the handshake | operators on symbolic keys |
| `Wire` | varints, frames | operators on sequences of bytes |
| `FirstContact` | publish, invite, parse, initiate, accept, as bytes | over `Wire` and `Pqxdh` |
| `WebClient` | tabs, key store, relay and blob client | composes `Pqxdh`, `RatchetState`, the store and a node |
| `WebClientSessions` | | what a run of `WebClient` holds at each await: its inductive invariant |
| `WebClientLemmas` | | lemmas about `WebClient`: the store, the sessions of a run, steps of one tab |
| `WebClientProofs` | | theorems about `WebClient`: the key store, the sessions of its runs |
| `MC*` | instances for TLC | |

### Mailbox

`envelopes[e]` is the table row of envelope `e` (`state` tells whether it is there), `receipts[e]`
the number of receipt rows, `clock` is `Utc::now()`, `sweep` the sweeper's local `now`. A request
slot `c` has a program counter `pc[c]`, locals `arg[c]` and its last reply `out[c]`.

| Action | Code |
|---|---|
| `Reject` | identifiers that do not parse, empty or oversized payload |
| `PushStart`, `PushInsert`, `PushNotify` | handler and `clamp_ttl`; the INSERT; `notify_waiters` |
| `PullStart`, `PullSelect`, `PullListen`, `PullTimeout`, `PullWoken`, `PullReselect` | handler; the SELECT; registering with the notifier; timeout; wake-up; the second SELECT |
| `AckStart`, `AckUpdate`, `AckReceipt` | handler; the UPDATE; the receipt's INSERT |
| `StoreError`, `Disconnect`, `Restart` | a statement fails; the future is dropped; the process ends |
| `SweepTick`, `SweepDelete`, `SweepError` | the sweeper |

Assumptions of the model: statements of the embedded database autocommit and are atomic; a statement
that has committed returns to its task without another suspension (so a push is not dropped between
its INSERT and its notify); the wall clock does not go backwards; envelope ids are never minted
twice. `MailboxAssumption` excludes a node configured with `max_pull_limit` below 1 (`clamp` panics)
or with a default or a maximum TTL that is not positive; a default above the maximum is allowed, as
nothing in the code compares the two (`LongestTtl` is the larger).

`RelayQueue` says what becomes of an envelope without requests, waiters and processes: accepted with a
deadline, acknowledged at most once, its receipt `owing` until it is recorded or lost, forgotten
after its deadline. It is not the `MailboxRepo` port, which promises more: `AcknowledgeLate`
acknowledges an expired envelope that was not swept yet, and `Lose` is an ack that ends between its
two statements, by a failure, a dropped request or a stop (section 6). `Acknowledge` and
`Record` are what the port describes. Mapped from `Mailbox`, `owing` are the envelopes of the requests
at their receipt step, so the refinement also says that nobody writes a receipt later, or twice.

### Migrate, Startup

`holder` is the process that has the database open (it is locked for others), `objects` its tables
and indexes, `versions` the rows of `schema_version`, and `at` where the migration run stands: the
version table first, then for every version the question whether it is recorded, its statements, the
row that records it. Statements autocommit. The database a node first finds is none, or what an
earlier release left. The requests and the sweeper of `Mailbox` run only while the daemon has
migrated (`Serving`); `CliSweep` is `buh-cli sweep` while the daemon is down. `Stop` ends a process
anywhere, in a migration too, and takes the requests in flight with it.

### PeerTrust

`registry` is the table, `snapshot` the `TrustStore`; `refresh` and `held[s]` are the lists that the
daemon's refresh and each admin request have read and not yet put in place. `settled` and `clean`
are history: what the admin API confirmed, and whether a list was in hand when the row was written.
`CA` are fingerprints in the form that is stored and compared; `Spellings` are the ways to write one,
among which `Write` chooses, since it alone looks at the spelling (`Normalize`).
The database is exclusive to one process, so the CLI's direct path works only while the node is down.

### BlobStore

`dir` maps file names to inodes and `file` inodes to two chunks; `out` is the reply that the last step
gave. A put opens (and truncates) the temporary file, writes two chunks, renames; a get opens and
reads two chunks. `tokio::fs` runs these on blocking threads that outlive a dropped request, so `Drop`
only ends a request between two operations; one that is dropped during an operation differs from one
that is not by the reply nobody reads. `TmpOf` gives the temporary path of a key, which may itself be
the path of another key. `overlapped` and `object` are history: keys that another put disturbed, and
the values of the others. Process crashes are modelled; loss of cached writes in a power failure is
not.

### NodePki

`cert` and `key` are the two files (missing, torn, or of CA 1, 2, ...); a process walks through
`load_or_init` or `rekey` one file operation at a time and `Stop` may end it anywhere, by a crash or
by a failing operation. The leaf keeps the time it is still valid and the timer the time until it
fires, so time needs no bound. The contents of `*.bak` are left out: no code reads them.

### Federation

`probe` is one connection of `peer ping`: the CA the peer pins, the leaf the node presented when the
connection began (`RotatingResolver` answers once per connection), and how far it is. In TLS 1.3 the
client has finished its handshake before the node has looked at its certificate, so the node's refusal
comes after the request was sent. `admits` is the node's snapshot, reduced to whether it has the
peer's CA; `Trust` changes it at any moment, since how it comes to change is `PeerTrust`. The rest of
the state is `NodePki`'s, whose steps go on meanwhile: rotations, re-keys of the files, stops of the
daemon. The peer's own files do not change. `due` and `trusted` are history.

### RatchetState, Ratchet

A ratchet key is `<<owner, generation>>`, a root key the sequence of values mixed into it, a chain
key its root and position; a message key is named by the chain key it comes from. `Decrypt` returns
success and the state left behind, on failure too. In `Ratchet` the variable `native` tells whether
the ends keep that state (a `RatchetState` in memory, as in `buh-e2e`) or not (`decrypt_message` of
the FFI facade, `DecryptMessage`). `wire` is never emptied: any message may be delivered again, late,
damaged or never. `ToBytes` and `FromBytes` are the blob of a stored session: version, flags for the
keys that are there, keys, counters, and the skipped keys in order, with the limit that `from_bytes`
puts on their number: `Order` is some order of the keys (the code sorts them by their bytes, which
symbolic keys do not have), and `Pieces` writes one after the other. Every call of the FFI facade goes through them
(`Loaded`).

### Pqxdh

Signatures, Diffie-Hellman values, KEM ciphertexts and HKDF outputs are terms made of their inputs,
so two roots are equal exactly if everything that goes into them is. ML-KEM's implicit rejection is
kept: decapsulating with a wrong key gives another secret and no error.

### Wire, FirstContact

A byte has `GroupBits` bits of a number and a continuation bit, a number `Width` bits. The code has 7
and 64, which leaves one bit for the last group; the instance has 3 and 7, which does too. An operator
that may fail returns a set, of its result or empty. Keys, nonces, fingerprints and signatures are one
byte, their number in the order they were made from 0 on, so that a bit turned over in one gives
another that exists; their fixed lengths are the length 1. `signed` is what was signed with the
signature of a number: the ideal signature scheme.

`published`, `invites` and `initiated` are what was sent, with its bytes; they are never emptied, and
`Deliveries` gives of each the whole message, the message with a field that this version does not
know, with any one bit turned over, and cut anywhere. `contact` is what a party parsed last,
`accepted` the sessions the owners of bundles accepted. That a message fails to decode is an outcome
like others; `refused` remembers when that happened to one that had arrived whole and was at its first
use: an invite that had not been parsed, a first flight that had not been accepted, on a bundle
whose one-time prekey had not been used (`parsed`, `FirstUse`). The code takes repeats too, but
nothing is claimed of them (section 6). The text forms
(base64 and the `buh1:` prefix) and the check of the relay URL for UTF-8 are left out.

### WebClient

Everything random in a run of the demonstration is named after the run. `page[t]` is a tab: the
await at which its run stands (`pc`), the run, the store key it derived and the locals. The tables
`AliceInvites` ... `MediaPath` list the awaits of `runDemo` and `runMediaPath` in order, `Program` is
all of them (`Join` is `@@`, spelled out for the prover); `Put`,
`Push`, `Pull`, `Ack`, `PutBlob` are the calls behind them, together with the synchronous code up to
the next await. `relay` is a sequence of envelopes per queue: that pushes of one client are served
in order is what `mailbox_safety` and `PushOrderIsKept` establish, and envelopes that expire are the
`expired` oldest ones of a `Pull`. The node may change its CA or drop its blob role at any time. A
request may fail without effect (`FetchFails`), or take effect and lose its reply (`lost`).
`disturbed` and `raced` are history: a run of the tab met such an event, or another tab replaced what
it was to read back; two tabs wrote a salt.

## 3. Runs

| Run | Shows |
|---|---|
| `mailbox_safety` | receipts and acknowledgements are unique, sequential pushes keep their order, a push stored after a poll began to listen wakes it, and the tables keep envelopes and receipts as `RelayQueue` says |
| `mailbox_live` | whoever has migrated finds the whole schema; a start that is not cut comes to serve; polls return; expired rows are reclaimed if the daemon at last stays up, or stays up for the sweep interval again and again |
| `mailbox_lost_wakeup` | a push between a poll's SELECT and its registration leaves it waiting on an available envelope |
| `peer_trust` | only canonical fingerprints are stored; confirmed distrust is enforced unless raced; lasting decisions reach the snapshot |
| `peer_trust_distrust_race` | "on the very next handshake" does not hold when refreshes overlap |
| `blob_store_safety` | gets return whole objects and created objects stay, unless two puts of the object overlap or its path served as the temporary file of another |
| `blob_store_overlap` | overlapping puts publish half-written objects |
| `node_pki_safety` | a pinned peer accepts the node at any time; one fingerprint until a re-key; a probe that is answered names the pinned CA and was trusted; a probe between nodes that trust each other is answered |
| `node_pki_cut_rekey` | certificate and key of two CAs |
| `ratchet_safety` | keys used once, replays refused, forward secrecy, what is within limits opens, a stored session loads as it was |
| `first_contact` | varints are read back as written and never beyond their width; what parses as an invite is what its owner signed; both ends of a session have one root, made from the keys of one bundle; what arrives whole is taken at its first use |
| `web_client` | both ends of a run agree and show what was sent; sessions are stored before their messages are pushed and before what they read is acknowledged; the store stays readable unless two tabs made a salt at once |

A run that expects a violation checks one statement of a comment or document of the repository;
`PROJECT.json` quotes it under `findings`.

### Bounds

* Mailbox: two clients suffice for every race of two requests; two
  envelopes for order and ties, with `MaxPullLimit = 1` so that the limit cuts. `mailbox_safety` asks
  for TTLs below and above the policy, whose default (2) is above its maximum (1), on a clock of two
  values: an envelope with the maximum can be fresh, expired, acknowledged late and swept, also before
  its own INSERT, one with the default outlives the clock. `mailbox_live` has a clock of three values.
* Startup: two clients, one envelope and the two migrations of the code, all of whose statements may
  be the last of a run, any number of times; liveness needs no bound on stops.
* PeerTrust: two commands and the timer's refresh give all overlaps of three refreshes; two CAs show
  that a command on one does not disturb the other.
* BlobStore: two requests (writer and reader, or two writers one of which reads later), two chunks,
  two contents, and two objects of which one has the other's temporary path. Three inodes at a time:
  an object, a temporary file, and a file that a reader still has open or that the other object has.
  A state in which both objects are overlapped is not continued (`SomeUndisturbed`): `overlapped` never
  shrinks and both properties are about objects outside it, so this cuts no behaviour they judge.
  `BlobStoreOverlap.cfg` has one object and an inode for every name and open file.
* NodePki: three CAs (first, re-keyed, regenerated after a cut), leaf validity of two rotations as in
  the default configuration (48 h and 24 h), one failed rotation. One probe at a time: probes share
  nothing. Once two processes have met in the directory, no third CA is generated
  (`TwoCAsOnceRaced`): all properties but the two of peer verification exempt raced histories, and
  those two see every mixture of two CAs. The theorems hold for any number of CAs, raced or not.
* Ratchet: five messages each way with `MAX_SKIP` and the store scaled to 2; for states in memory
  three each way, four DH values and four receiving steps, since refused replays move their counters.
* FirstContact: two parties, two bundles (of one party or of both, with and without one-time prekeys),
  one invite, which both may parse, two initiations, so that every initial message also reaches the
  bundle it was not made for. After an acceptance with both initiations made, the state is checked
  and not continued (`AcceptedWhileInitiating`): an acceptance enables nothing, `accepted` is read only
  to excuse the refusal of a repeat, and `Agreement` judges each accepted session by itself, so
  whatever else could follow and be wrong is met without the acceptance.
* WebClient: two tabs and two runs, so that runs meet in every order in two tabs, or follow each
  other in one; two CAs, so that a pin can mismatch. Messages arrive in order here, so one skipped
  key is enough.

`RatchetSafety.cfg` and `WebClient.cfg` do not check for deadlock: the bounds on messages and runs
stop these systems. All other runs check it.

### Fairness

`Startup!NodeFairness`: a migration run goes on while its process lives (WF); the runtime keeps
polling requests in flight, and the sweeper's timer fires, if the daemon stays up (WF); of sweeps that
are tried for ever not every one fails or is cut (SF on `SweepDelete`). Every start makes a new
timer and consumes its immediate first tick (`serve.rs:30`), so a daemon that is stopped before the
interval is over has not swept, and weak fairness promises nothing of one that is stopped like
that for ever. Nothing is assumed of clients, the clock, failures, starts or stops: `ReclaimedWhenUp`
has its condition in its statement, that the daemon at last stays up or comes to its tick
infinitely often. With the weaker condition that it serves infinitely often TLC finds the behaviour in
which it never sweeps (section 6). `PeerTrust!Fairness`: the timer keeps ticking and not every list fails (SF on
`RefreshList`), and what was begun is carried on. The other modules have safety properties only.

## 4. Proofs

Every safety property that a passing run checks is also a theorem, for every value of the constants,
except the ones of `FirstContact` (see the end of this section). Each proof has one lemma, step or
case per action of the next-state relation; the inductive invariants named
below were checked by TLC on the instance of the run before they were proved.

### Mailbox, Startup

For any sets of clients, queues, envelopes and any bounds that satisfy `MailboxAssumption`:

* `TypeCorrect`, `ReceiptsAreUnique`, `AckHasOneWinner`, `PushOrderIsKept`, `LaterPushesWake`: the
  safety invariants of the runs.
  * The ack theorems need `AckInv`: a delivered row with no receipt has at most one request at its
    receipt step, a request at that step has no competitor, and whoever was told "acknowledged" has
    its receipt. The UPDATE's `delivered_at IS NULL` is what makes the first hold.
  * The order theorem needs `OrderInv`: rows carry time stamps not after the clock, what a push saw
    stored when it read the clock has a stamp not after its own and a smaller row id.
  * The wake-up theorem needs `NotifyInv`: a push between its INSERT and its notify names a stored row.
* `RelayKeepsEnvelopes`: every step of `Mailbox` is a step of `RelayQueue` or changes nothing it sees.
  That an ack settles exactly the receipt it owes needs `AckInv`: nobody else is at the receipt of that
  envelope. What a pull, a push or a poll does to its request owes nothing (`GotoOwes`, `AnswerOwes`).
* `SchemaIsComplete` (`Startup`): by `SchemaInv`, which adds that the versions a run has passed are
  recorded, and that the objects of the statements it has behind it in its version are there. Of the
  table of migrations only its type is used (`MigrationsType`), so the theorem stays true when
  migrations are added.
* `NodeKeepsEnvelopes` (`Startup`): every step of the node is a step of the relay of `Mailbox` or none
  of its business (`NodeIsRelay`), so the node implements `RelayQueue` through migrations, CLI sweeps
  and restarts; the other theorems about `Mailbox` carry over in the same way.

### PeerTrust

* `DistrustIsEnforced`, `TrustTypeCorrect`: by `TrustInv`, which adds that a list read after a clean
  write agrees with the registry on that CA.

### BlobStore

For any number of requests, objects, values and inodes, and any chains of objects and temporary files
(`k.tmp` may be an object, and `k.tmp.tmp`). `BlobAssumption` says of temporary paths what
`tmp_path`, which appends `.tmp`, gives: none is its own object's path, no two objects have
the same one.

* `CreatedObjectsAreKept`, `GetsAreWhole`, `BlobTypeCorrect`: by `BlobInv`. Of keys that are not
  overlapped it says that a file that is being written has no such key as its name and is not open
  under one (`WritersApart`), so objects and what readers have open are whole (`ObjectsWhole`,
  `ReadersWhole`), and that a put has its temporary file to itself and in it what it has written
  (`PutsAlone`). `OneName` (rename leaves a file one name) and `TmpIsOverlapped` (an object whose path
  is in use as a temporary file counts as overlapped) are what renames need.

### NodePki, Federation

For any number of processes, CAs and re-keys, and any lifetimes with `PkiAssumption`: a leaf outlives
the rotations that may fail in a row.

* `PinnedPeersConnect`, `FingerprintIsStable`, `PkiTypeCorrect`: by `PkiInv`. While no two processes
  met in the directory one is in it at most (`OneBusy`), a key on disk has its certificate beside it
  unless a re-key has renamed one of them and not yet the other, and what each step of the process in
  the directory has read still stands (`FilesPaired`, `AtStep`). `LeafInv` relates what is left of the
  leaf to the timer: at least the time until the timer fires, and a period more for every rotation
  that may still fail.
* `ProbedNodeIsNode`: a node that peers probe behaves as `NodePki` says, so the theorems above hold
  of it.
* `ProbesNeedMutualTrust`, `MutualTrustSuffices`: by `FedInv`, which says at each point of a
  connection what the peer and the node have already established about each other and that the
  daemon's CA is still the one the leaf was signed with.

### Ratchet

For every `MAX_SKIP`, `MAX_STORED_SKIPPED` and any number of messages, lost, repeated, reordered, and
damaged in their ciphertext, with states in memory and through the FFI facade. A damaged header
(ratchet key, `pn`, `n`) is not among the damages: through the FFI it is refused without a trace, but a
`RatchetState` in memory acts on the header before the AEAD refuses it (`ratchet/mod.rs:254`), which
the theorems do not cover. `NoneAssumption` says that the
absence of a key is not a key.

* `RatchetLemmas` says what the operators of the code do with any session: how far `SkipMessageKeys`
  gets and what it banks, which key `Decrypt` uses on a banked message, the current chain and a new
  chain, that the state after a failure is one of a few, that `FromBytes` inverts `ToBytes`. What is
  recursive in the code are loops over message numbers; their results are given in closed form by
  the model, so that no induction over data is needed, except for one: a least number exists
  (`LeastNatural`), from the well-foundedness of the naturals.
* `RatchetTypeCorrect`, `SessionsSurviveStorage`, `MessageKeysAreUsedOnce`, `ReplaysAreRefused`,
  `OldKeysAreGone`: by `RatchetInv`. The root keys of the two ends differ in length by one and so
  have different parity; each end is past (`Spent`) every key it sealed with, on its sending chain,
  and past (`Gone`) every key of a message it opened, on its receiving chain and among the banked ones.
* `UnopenedMessagesOpen`: a message that was not opened, of the sender's current or previous chain and
  within the limits, opens. It needs `DeliveryInv` on top: the ends take turns with new ratchet
  keys, and one of them `Leads` (it has the other's latest key, the other does not have its own yet);
  what was sent is numbered without gaps up to the sender's counters (`Outgoing`); and of every
  message that is not opened the receiver has the key banked, or its chain has not come to it, or
  has not seen the ratchet key (`Incoming`).

### WebClient

For any number of tabs and runs (`WebClientAssumption`: runs are counted, and the absence of a salt
is not a run):

* `StoreStaysReadable`: by `StoreInv`. As long as no two tabs made a salt at the same time, a tab that
  is about to make one finds the store without salt and without records, every key a tab has derives
  from the salt, and so does every record; a tab that has opened the store has a key. The proof
  follows each await of the program, reloads included.
* `WebClientTypeOK`, `UndisturbedRunsAlwaysDeliver`, `SessionsAreSavedBeforeSent`,
  `AcknowledgedIsSaved`: by `SessionInv` (module `WebClientSessions`) together with `StoreInv`. None of
  the four is inductive. What a stored session can derive, or refuses, depends on which session it
  is, and that on every encryption and decryption before it; whether a run fails depends on what it
  will read back from a store that other tabs write. `SessionInv` therefore says what each session
  and message of a run is: everything a run makes is named after the run, so its two sessions go
  through seven values (`Bob0` ... `BobHeard(r, 2)`, `Alice(r, 0)` ... `Alice(r, 2)`) and its messages
  are three terms. At each await (`GoesOn`) it says which of them the run has in memory, in its
  queues, and pulled, what has been shown, what the store may hold of the run, and what has not been
  sent or acknowledged yet; of runs that nothing disturbed, what they will read back (`ReadsBack`);
  and of everything sent or acknowledged, that a stored session of its run is past it (`SentIsSaved`,
  `AckIsSaved`). TLC checked `SessionInv` on the instance of `web_client`; it is not one of
  the run's properties, which are the four consequences.
  * First the terms: `AliceOpens`, `BobOpensReply`, `BobOpensMedia`, `SessionsSend`, `HandshakeAgrees`
    and others compute the code's operations (`DecryptMessage` through the session blob, `AfterSend`,
    `InitiateSession`, `AcceptSession`) on these sessions. A session accepted with secrets read back
    from the store opens a hello only if it is the session of that run (`AliceOpens`), which is why
    a run that reads back another run's records fails and does not go on with a wrong session.
  * `OtherGoesOn`: what a step does to the store, to the queues and to the node leaves the invariant of
    every other tab as it is. `OwnKeeps` reduces the step to the tab that takes it, and `StepKeeps` to
    what the step changes (`Effects`) and how the page moves from one await to the next
    (`StepMoves`). Each action then has its lemma (`PutRuns`, `GetBundleRuns`, `PullRuns`, `AckRuns`, ...).
  * `NoneAssumption` says that the absence of a value is not a record, an object or a key.

### What is model-checked only

* Liveness (`StartCompletes`, `PollReturns`, `ReclaimedWhenUp`, `SnapshotCatchesUp`): reasoning
  with fairness is beyond the prover.
* `TypeOK`, `ParsedIsAuthentic`, `Agreement` and `SentIsTaken` of `FirstContact`: they rest on
  encodings being injective, or inverted by decoding, where decoding is recursive over buffers of any
  length; that takes induction over data, which the installed provers cannot do.

A note for whoever changes the proofs: many leaves cite `Zenon`. They hold by set and function
reasoning alone, and naming the prover keeps the SMT translation, which gets slower the more
obligations a module has, for the leaves that need arithmetic, strings or records. What tlapm itself
takes for an obligation grows with the statements that are in scope; a fact that only one lemma about
`WebClient` needs is therefore a named step of its proof.

## 5. Plan

1. Core (done): `Mailbox` with its abstract specification and proofs, `PeerTrust` with its proof,
   `BlobStore`, `NodePki`, `RatchetState`, `Ratchet`, `Pqxdh`, and their composition in `WebClient`.
2. Breadth (done): `Migrate` and `Startup` with their proofs, `Federation`, the session blob, `Wire`
   and `FirstContact`, objects that share a path in `BlobStore`.
3. Proofs (done): `BlobStore`, `NodePki`, `Federation`, `Ratchet`, `WebClient` (its key store, and the
   sessions of its runs).

## 6. Other disagreements met while modelling

Statements of the repository that the code does not keep, found while modelling and not kept as runs:

* An ack is two statements: when it is cut between them, by a crash, a store error or a dropped
  request, the envelope has left the live set without a receipt, and a retry answers `false`
  (`turso_mailbox.rs:123`), where `ports.rs:37` says "record a receipt and remove it from the live
  set". In `RelayQueue` this is `Lose`; what is proved is that only such an ack loses a receipt and
  that there is never more than one.
* An expired envelope can be acknowledged until it is swept (`turso_mailbox.rs`, `ack`), where
  `ports.rs:38` says `false` of one that is "already acked or expired". In `RelayQueue` this is
  `AcknowledgeLate`.
* A node that is restarted more often than the sweep interval never sweeps: every start begins a new
  interval and lets its first tick go by (`serve.rs:30`), where `serve.rs:23` says that expired
  envelopes are deleted "every `interval`".
* Nothing that is meant for one use is crossed off. `parse_invite` keeps no nonces, `respond` neither
  consumes a one-time prekey nor remembers first flights, so an invite, a one-time prekey or a first
  flight is taken as often as it arrives; `invite.rs:84` calls the nonce "making the invite single-use /
  spam-resistant", `v1.rs:35` "spam-proofing / replay defence", and `doc/plan.md:294` lists a
  "replayed-prekey" among what is rejected. `SentIsTaken` asks for the first use only.
* `clamp_ttl` caps a TTL above the maximum at the maximum, where `context.rs:13` says that one out of
  range gets the default; and it passes a default above the maximum through.
* The startup refresh of the trust snapshot can undo a trust confirmed while it was under way.
* `safe_segment` accepts keys that end in `.tmp`, so an object `k.tmp` shares its file with the
  temporary file of `k` (`fs_blob.rs:83` speaks of avoiding collisions). `blob_store_safety` shows
  which objects this disturbs: the one with that path, and `k` if the other is renamed into place, or
  still written, while `k` is written.
* `read_varint` accepts overlong forms such as `80 00`, where `codec.rs:61` says that it rejects them.
  Signatures are checked over a body that is encoded anew (or over a bundle's bytes as they came), so
  `ParsedIsAuthentic` does not depend on it.
* No decoder of a handshake message calls `reject_reserved_pq`, where `v1.rs:156` says to call it in
  that context: a field with a reserved tag is passed over like any unknown one.
* `Frame::aad` has no caller, where `v1.rs:167` and `aead.rs:25` say that it is what the AEAD
  authenticates; the ratchet binds its header instead (`to_aad`).
* Skipped keys of messages that never arrive are never evicted: once the store is full, a message
  after a gap does not open, although `ratchet/mod.rs:236` tolerates drops within `MAX_SKIP`.
* A refused replay of a message of the live chain advances the chain of a `RatchetState` in memory,
  where the comment at `ratchet/mod.rs:425` says that it meets neither a stored key nor the chain.
* Two tabs that open a new key store at once write two salts; what the first one seals cannot be
  opened after a reload (`keystore.ts:50`).

## 7. Not modelled

AEAD, KEM, signatures and hashing (library calls, symbolic here); the S3 adapter (one external
request per operation); the settlement stub; configuration parsing, routing, logging and output;
`buh-e2e`, a test client that sends one message through one node (its steps are those of `FirstContact`,
`Ratchet` and `Mailbox`); `exists` and `presign_get` of the blob role (the one only
reads, the other is unimplemented); the frame's capability flags beyond their encoding; overflow of
the 32-bit message counters (2^32 messages in one direction without an answer); the size of the
notifier map, which gains an entry per queue and on which nothing depends; recovery from a key file
that a start left empty (every later start fails until an operator removes it, and no document
promises otherwise); the
plain-HTTP listener apart from its handlers. Resumption of TLS sessions: the listener has one
`ServerConfig` for all connections (`serve.rs:94`), and whether a resumed session meets the verifier
again is the library's; `PeerTrust` judges the snapshot that the verifiers read, not the
connections. The moment between issuing a leaf and starting the rotation timer: the two are one step of
`NodePki`, so a leaf's lifetime must exceed the rotations of `PkiAssumption` by that moment. Failures of
IndexedDB itself: a `put` or `get` of the key store succeeds, or the page goes away before it.
