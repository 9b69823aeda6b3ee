------------------------------- MODULE NodePki -------------------------------
(***************************************************************************)
(* A node's own CA: two files of its PKI directory, the certificate and    *)
(* the private key, loaded or generated by every process that starts (the  *)
(* daemon, and each `buh-cli ca` command), re-keyed by `ca rotate`; and    *)
(* the short-lived TLS leaf that the daemon signs and its rotation timer   *)
(* replaces.                                                               *)
(*                                                                         *)
(* A CA is a number: its certificate carries its public key, so a leaf     *)
(* chains to a certificate when both come from the same number.  The leaf  *)
(* keeps how long it is still valid, the timer how long until it fires.    *)
(***************************************************************************)
EXTENDS Integers, FiniteSets

CONSTANTS
  Process,      \* processes on the PKI directory
  Daemon,       \* the one that serves
  MaxCA,        \* bound: how many CAs are ever generated
  LeafTtl,      \* validity of a leaf
  RotateEvery,  \* period of the rotation timer
  ClockSkew,    \* how far a leaf's not_before is backdated
  MaxFails      \* bound: consecutive leaf rotations that fail

\* A leaf outlives the rotations that fail (pki.leaf_ttl_hours and
\* pki.rotate_every_hours are 48 and 24 by default; the code relates them nowhere).
ASSUME PkiAssumption ==
  /\ Daemon \in Process
  /\ MaxCA \in Nat /\ MaxFails \in Nat /\ ClockSkew \in Nat
  /\ LeafTtl \in Nat /\ RotateEvery \in Nat \ {0}
  /\ (MaxFails + 1) * RotateEvery <= LeafTtl

VARIABLES
  cert, key,  \* ca.cert.der and ca.key.pem
  pc,         \* where each process stands
  mem,        \* the CA material each process holds
  leaf,       \* the daemon's leaf
  due,        \* time until the rotation timer fires
  fails,      \* rotations failed since the last good one
  generated,  \* CAs generated so far
  reported,   \* history: fingerprints shown to operators and peers
  rekeyed,    \* history: a re-key was started
  cut,        \* history: a re-key stopped between its two renames
  raced       \* history: two processes were in the directory at once

files == <<cert, key>>
tls == <<leaf, due, fails>>
history == <<reported, rekeyed, cut, raced>>
vars == <<files, pc, mem, tls, generated, history>>

-----------------------------------------------------------------------------
Missing == 0    \* the file is not there
Torn == -1      \* the file was opened and not filled
CA == 1..MaxCA
Content == CA \cup {Missing, Torn}

NoCA == [cert |-> Missing, key |-> Missing]
NoLeaf == [ca |-> Missing, signer |-> Missing, left |-> 0]

Steps == {"idle", "bakcert", "bakkey", "check", "readkey", "readcert",
          "certopen", "certfill", "keyopen", "keyfill", "loaded", "up"}
Busy == Steps \ {"idle", "loaded", "up"}

-----------------------------------------------------------------------------
Init ==
  /\ cert = Missing /\ key = Missing
  /\ pc = [p \in Process |-> "idle"]
  /\ mem = [p \in Process |-> NoCA]
  /\ leaf = NoLeaf /\ due = RotateEvery /\ fails = 0
  /\ generated = 0
  /\ reported = {} /\ rekeyed = FALSE /\ cut = FALSE /\ raced = FALSE

Goto(p, step) == pc' = [pc EXCEPT ![p] = step]

\* Process p enters the directory.
Enter(p, step) ==
  /\ pc[p] = "idle"
  /\ Goto(p, step)
  /\ raced' = (raced \/ \E q \in Process : pc[q] \in Busy)

\* The daemon starts, or the operator runs `ca init` or `ca show`.
Start(p) ==
  /\ Enter(p, "check")
  /\ UNCHANGED <<files, mem, tls, generated, reported, rekeyed, cut>>

\* The operator runs `ca rotate --force`.
RekeyStart(p) ==
  /\ p # Daemon
  /\ Enter(p, "bakcert")
  /\ rekeyed' = TRUE
  /\ UNCHANGED <<files, mem, tls, generated, reported, cut>>

\* rekey: each file that exists is renamed to *.bak, the certificate first.
BackUp(p) ==
  /\ \/ pc[p] = "bakcert" /\ cert' = Missing /\ Goto(p, "bakkey") /\ UNCHANGED key
     \/ pc[p] = "bakkey" /\ key' = Missing /\ Goto(p, "check") /\ UNCHANGED cert
  /\ UNCHANGED <<mem, tls, generated, history>>

-----------------------------------------------------------------------------
(***************************************************************************)
(* load_or_init                                                            *)
(***************************************************************************)
\* Mutant of Found: the files are looked for where they are not.
Found_WrongPath == FALSE

Found == cert # Missing /\ key # Missing

\* Either both files are there and are read, or a new CA is generated.
Check(p) ==
  /\ pc[p] = "check"
  /\ \/ Found /\ Goto(p, "readkey") /\ UNCHANGED <<mem, generated>>
     \/ /\ ~Found /\ generated < MaxCA
        /\ generated' = generated + 1
        /\ mem' = [mem EXCEPT ![p] = [cert |-> generated', key |-> generated']]
        /\ Goto(p, "certopen")
  /\ UNCHANGED <<files, tls, history>>

\* Mutant of ReadKey: a key that does not parse is kept.
ReadKey_Unparsed(p) ==
  /\ pc[p] = "readkey"
  /\ key # Missing
  /\ mem' = [mem EXCEPT ![p].key = key]
  /\ Goto(p, "readcert")
  /\ UNCHANGED <<files, tls, generated, history>>

\* The key must parse; the certificate is taken as it is.
ReadKey(p) ==
  /\ pc[p] = "readkey"
  /\ key \in CA
  /\ mem' = [mem EXCEPT ![p].key = key]
  /\ Goto(p, "readcert")
  /\ UNCHANGED <<files, tls, generated, history>>

ReadCert(p) ==
  /\ pc[p] = "readcert"
  /\ cert # Missing
  /\ mem' = [mem EXCEPT ![p].cert = cert]
  /\ Goto(p, "loaded")
  /\ UNCHANGED <<files, tls, generated, history>>

\* persist: the certificate, then the key; each is opened, then filled.
Persist(p) ==
  /\ \/ pc[p] = "certopen" /\ cert' = Torn /\ Goto(p, "certfill") /\ UNCHANGED key
     \/ pc[p] = "certfill" /\ cert' = mem[p].cert /\ Goto(p, "keyopen") /\ UNCHANGED key
     \/ pc[p] = "keyopen" /\ key' = Torn /\ Goto(p, "keyfill") /\ UNCHANGED cert
     \/ pc[p] = "keyfill" /\ key' = mem[p].key /\ Goto(p, "loaded") /\ UNCHANGED cert
  /\ UNCHANGED <<mem, tls, generated, history>>

\* `buh-cli ca` prints the fingerprint and exits.
Show(p) ==
  /\ p # Daemon /\ pc[p] = "loaded"
  /\ reported' = reported \cup {mem[p].cert}
  /\ Goto(p, "idle")
  /\ mem' = [mem EXCEPT ![p] = NoCA]
  /\ UNCHANGED <<files, tls, generated, rekeyed, cut, raced>>

\* A file operation fails (a file is gone, a key does not parse, the disk is full),
\* or the process ends anywhere.
Stop(p) ==
  /\ pc[p] # "idle"
  /\ Goto(p, "idle")
  /\ mem' = [mem EXCEPT ![p] = NoCA]
  /\ cut' = (cut \/ pc[p] = "bakkey")
  /\ IF p = Daemon THEN leaf' = NoLeaf /\ due' = RotateEvery /\ fails' = 0
                   ELSE UNCHANGED tls
  /\ UNCHANGED <<files, generated, reported, rekeyed, raced>>

-----------------------------------------------------------------------------
(***************************************************************************)
(* The daemon's leaf                                                       *)
(***************************************************************************)
\* issue_leaf: signed by the CA key, presented with the CA certificate.
IssueLeaf(ca) == [ca |-> ca.cert, signer |-> ca.key, left |-> LeafTtl]

\* NodeTls::new issues the first leaf, and serving starts.
Serve ==
  /\ pc[Daemon] = "loaded"
  /\ leaf' = IssueLeaf(mem[Daemon])
  /\ due' = RotateEvery /\ fails' = 0
  /\ reported' = reported \cup {mem[Daemon].cert}
  /\ Goto(Daemon, "up")
  /\ UNCHANGED <<files, mem, generated, rekeyed, cut, raced>>

\* The timer fires: rotate_leaf replaces the leaf, or fails and leaves it.
Rotate ==
  /\ pc[Daemon] = "up" /\ due = 0
  /\ due' = RotateEvery
  /\ \/ leaf' = IssueLeaf(mem[Daemon]) /\ fails' = 0
     \/ fails < MaxFails /\ fails' = fails + 1 /\ UNCHANGED leaf
  /\ UNCHANGED <<files, pc, mem, generated, history>>

\* Time passes; a timer that is due fires first.
Tick ==
  /\ pc[Daemon] = "up" /\ due > 0
  /\ due' = due - 1
  /\ leaf' = [leaf EXCEPT !.left = @ - 1]
  /\ UNCHANGED <<files, pc, mem, fails, generated, history>>

Step(p) ==
  \/ Start(p) \/ RekeyStart(p) \/ BackUp(p)
  \/ Check(p) \/ ReadKey(p) \/ ReadCert(p) \/ Persist(p)
  \/ Show(p) \/ Stop(p)

Next == Serve \/ Rotate \/ Tick \/ \E p \in Process : Step(p)

Spec == Init /\ [][Next]_vars

-----------------------------------------------------------------------------
(***************************************************************************)
(* Properties                                                              *)
(***************************************************************************)

\* Mutant of CheckValidity: a leaf expires when its last second begins.
CheckValidity_Strict(l, skew) == l.left - skew > 0 /\ LeafTtl - l.left + ClockSkew + skew >= 0

\* check_validity of leaf l by a peer whose clock differs by skew from the node's.
CheckValidity(l, skew) == l.left - skew >= 0 /\ LeafTtl - l.left + ClockSkew + skew >= 0

\* verify_pinned_chain by a peer that pins the fingerprint of pin.
VerifyPinnedChain(l, pin, skew) ==
  /\ l.ca = pin
  /\ l.ca \in CA          \* parses, is a self-signed CA
  /\ l.signer = l.ca      \* the leaf is signed by that CA
  /\ CheckValidity(l, skew)

\* Every variable holds values of its kind.
TypeOK ==
  /\ cert \in Content /\ key \in Content
  /\ pc \in [Process -> Steps]
  /\ mem \in [Process -> [cert : Content, key : CA \cup {Missing}]]
  /\ leaf \in [ca : Content, signer : CA \cup {Missing}, left : 0..LeafTtl]
  /\ due \in 0..RotateEvery
  /\ fails \in 0..MaxFails
  /\ generated \in 0..MaxCA
  /\ reported \subseteq Content
  /\ rekeyed \in BOOLEAN /\ cut \in BOOLEAN /\ raced \in BOOLEAN

\* A peer that pins the CA the node serves with accepts the node's handshake at any
\* time, through crashes at any point of load_or_init and persist, restarts, re-keys
\* and leaf rotations, even when its clock is ClockSkew behind; unless two processes
\* were loading or writing the CA at once, or a re-key was cut between its renames.
PinnedHandshakeSucceeds ==
  pc[Daemon] = "up" /\ ~raced /\ ~cut =>
    \A skew \in (-ClockSkew)..0 : VerifyPinnedChain(leaf, mem[Daemon].cert, skew)

\* Until the first re-key a node has one fingerprint: what `ca show` printed or the
\* daemon announced once is what every later start serves, crashes and failures
\* included, unless two processes generated a CA at once.
OneFingerprint ==
  rekeyed \/ raced \/ Cardinality(reported) <= 1

\* "leaves chain to [`Self::ca_der`] cryptographically" (node_ca.rs:45): the
\* certificate the node presents is of the key its leaves are signed with, as long as
\* no two processes meet in the PKI directory.
LeavesChainToCA ==
  pc[Daemon] = "up" /\ ~raced => leaf.signer = leaf.ca
=============================================================================
