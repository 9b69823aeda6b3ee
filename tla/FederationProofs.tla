-------------------------- MODULE FederationProofs --------------------------
(***************************************************************************)
(* Proofs about NodePki and Federation, for any number of processes, CAs   *)
(* and re-keys, and any lifetimes that PkiAssumption allows.               *)
(***************************************************************************)
EXTENDS Federation, FiniteSetTheorems, TLAPS

\* The daemon serves with the CA it holds, and the leaf lasts until the rotations
\* that may still fail have been tried.
LeafInv ==
  IF pc[Daemon] = "up"
  THEN /\ leaf.ca = mem[Daemon].cert /\ leaf.signer = mem[Daemon].key
       /\ leaf.left >= due + (MaxFails - fails) * RotateEvery
  ELSE leaf = NoLeaf

\* Only a re-key has processes that rename the files away.
RekeyInv ==
  ~rekeyed => ~cut /\ \A p \in Process : pc[p] \notin {"bakcert", "bakkey"}

\* As long as no two met there, one process is in the directory.
OneBusy ==
  ~raced => \A p, q \in Process : pc[p] \in Busy /\ pc[q] \in Busy => p = q

\* A process holds a certificate with its key once it has generated or loaded them.
Paired(p) == mem[p].cert = mem[p].key /\ mem[p].key \in CA

\* What the step of a process that is in the directory alone knows of the files.
AtStep(p) ==
  /\ pc[p] = "readkey" => cert # Missing /\ key # Missing
  /\ pc[p] = "readcert" => cert # Missing /\ key = mem[p].key /\ key \in CA
  /\ pc[p] \in {"certopen", "certfill", "keyopen", "keyfill", "loaded", "up"} => Paired(p)
  /\ pc[p] \in {"certopen", "certfill", "keyopen"} => key = Missing
  /\ pc[p] \in {"keyopen", "keyfill"} => cert = mem[p].cert
  /\ pc[p] = "keyfill" => key = Torn

\* A key on disk has its certificate beside it, except while a re-key has renamed the
\* one and not yet the other.
FilesPaired ==
  ~raced /\ ~cut =>
    /\ \/ \E p \in Process : pc[p] = "bakkey"
       \/ (key \in CA => cert = key) /\ (cert = Missing => key = Missing)
    /\ \A p \in Process : AtStep(p)

\* Until a re-key, what was ever loaded or reported is the CA on disk.
Unchanged ==
  ~raced /\ ~rekeyed =>
    /\ \A p \in Process : pc[p] \in {"loaded", "up"} => key \in CA /\ mem[p].cert = key
    /\ \A f \in reported : key \in CA /\ f = key

PkiInv ==
  TypeOK /\ LeafInv /\ RekeyInv /\ OneBusy /\ FilesPaired /\ Unchanged

\* Where a probe stands with the node that it is connected to.
Probe ==
  [at : {"none", "certificate", "sent", "open", "answered", "refused"},
   pin : Content, leaf : [ca : Content, signer : CA \cup {Missing}, left : Int],
   health : Content, due : BOOLEAN, trusted : BOOLEAN]

ProbeInv ==
  /\ admits \in BOOLEAN /\ probe \in Probe
  /\ probe.at # "none" => pc[Daemon] = "up"
  /\ probe.at = "certificate" => probe.leaf.ca = mem[Daemon].cert
  /\ probe.at \in {"sent", "open", "answered"} => probe.pin = mem[Daemon].cert
  /\ InFlight /\ admits => probe.trusted
  /\ probe.at \in {"open", "answered"} => probe.trusted
  /\ probe.at \in {"certificate", "sent"} /\ probe.due => admits
  /\ probe.at = "certificate" /\ probe.due =>
       /\ probe.pin = probe.leaf.ca /\ probe.leaf.ca \in CA
       /\ probe.leaf.signer = probe.leaf.ca
       /\ probe.leaf.left \in 0..LeafTtl

FedInv ==
  PkiInv /\ ProbeInv /\ AnsweredMeansMutualTrust /\ MutualTrustIsAnswered

-----------------------------------------------------------------------------
(***************************************************************************)
(* NodePki                                                                 *)
(***************************************************************************)
LEMMA PkiInit == Init => PkiInv
<1> SUFFICES ASSUME Init PROVE PkiInv
  BY Zenon
<1>1. TypeOK
  <2>1. NoLeaf \in [ca : Content, signer : CA \cup {Missing}, left : 0..LeafTtl]
    BY PkiAssumption DEF NoLeaf, Content
  <2>2. NoCA \in [cert : Content, key : CA \cup {Missing}] /\ Missing \in Content
    BY Zenon DEF NoCA, Content
  <2>3. 0 \in 0..MaxCA /\ 0 \in 0..MaxFails /\ RotateEvery \in 0..RotateEvery
    BY PkiAssumption
  <2> QED
    BY <2>1, <2>2, <2>3, Zenon DEF Init, TypeOK, Steps
<1>2. LeafInv
  BY PkiAssumption, Zenon DEF Init, LeafInv
<1>3. RekeyInv /\ OneBusy /\ FilesPaired /\ Unchanged
  BY Zenon DEF Init, RekeyInv, OneBusy, FilesPaired, Unchanged, AtStep, Busy, Steps, Missing, CA
<1> QED
  BY <1>1, <1>2, <1>3, Zenon DEF PkiInv

\* A leaf of what the daemon has loaded lasts through all rotations that may fail.
LEMMA FreshLeaf ==
  ASSUME TypeOK
  PROVE  /\ IssueLeaf(mem[Daemon]) \in [ca : Content, signer : CA \cup {Missing}, left : 0..LeafTtl]
         /\ IssueLeaf(mem[Daemon]).ca = mem[Daemon].cert
         /\ IssueLeaf(mem[Daemon]).signer = mem[Daemon].key
         /\ IssueLeaf(mem[Daemon]).left >= RotateEvery + (MaxFails - 0) * RotateEvery
BY PkiAssumption DEF IssueLeaf, TypeOK

\* Another rotation fails: one less may.
LEMMA FailedRotation ==
  ASSUME NEW f \in Nat, NEW l \in Int, f < MaxFails, l >= 0 + (MaxFails - f) * RotateEvery
  PROVE  l >= RotateEvery + (MaxFails - (f + 1)) * RotateEvery
BY PkiAssumption

\* Time is left as long as the timer is not due.
LEMMA LeafLasts ==
  ASSUME NEW f \in 0..MaxFails, NEW d \in Nat, NEW l \in Int,
         d > 0, l >= d + (MaxFails - f) * RotateEvery
  PROVE  l - 1 >= 0 /\ l - 1 >= (d - 1) + (MaxFails - f) * RotateEvery
<1>1. (MaxFails - f) * RotateEvery \in Nat
  BY PkiAssumption
<1> QED
  BY <1>1, PkiAssumption

\* What a process does in the directory keeps the types, and the daemon's leaf.
LEMMA TypeStep ==
  ASSUME TypeOK, LeafInv, NEW p \in Process, Step(p)
  PROVE  TypeOK' /\ LeafInv'
<1> USE DEF TypeOK
<1>1. /\ Missing \in Content /\ Torn \in Content
      /\ NoCA \in [cert : Content, key : CA \cup {Missing}]
      /\ mem[p].cert \in Content /\ mem[p].key \in CA \cup {Missing}
  BY Zenon DEF Content, NoCA
<1>2. \A s \in Steps : Goto(p, s) => /\ pc' \in [Process -> Steps] /\ pc'[p] = s
                                     /\ \A q \in Process \ {p} : pc'[q] = pc[q]
  BY Zenon DEF Goto
<1>3. CASE Start(p) \/ RekeyStart(p)
  <2>1. PICK s \in {"check", "bakcert"} : Enter(p, s)
    BY <1>3, Zenon DEF Start, RekeyStart
  <2>2. pc' \in [Process -> Steps] /\ pc[p] = "idle" /\ pc'[p] = s /\ raced' \in BOOLEAN
        /\ \A q \in Process \ {p} : pc'[q] = pc[q]
    BY <1>2, <2>1, Zenon DEF Enter, Steps
  <2>3. rekeyed' \in BOOLEAN /\ UNCHANGED <<files, mem, tls, generated, reported, cut>>
    BY <1>3, Zenon DEF Start, RekeyStart
  <2> QED
    BY <2>2, <2>3, PkiAssumption, Zenon DEF LeafInv, files, tls
<1>4. CASE BackUp(p)
  BY <1>1, <1>2, <1>4, PkiAssumption, SMTT(30) DEF BackUp, LeafInv, files, tls, history, Steps
<1>5. CASE Check(p)
  <2>1. CASE Goto(p, "readkey") /\ UNCHANGED <<mem, generated>>
    BY <1>2, <1>5, <2>1, PkiAssumption, Zenon DEF Check, LeafInv, files, tls, history, Steps
  <2>2. CASE /\ generated < MaxCA /\ generated' = generated + 1 /\ Goto(p, "certopen")
             /\ mem' = [mem EXCEPT ![p] = [cert |-> generated', key |-> generated']]
    <3>1. generated' \in 0..MaxCA /\ generated' \in CA
      BY <2>2, PkiAssumption DEF CA
    <3>2. mem' \in [Process -> [cert : Content, key : CA \cup {Missing}]]
      BY <2>2, <3>1, Zenon DEF Content
    <3>3. pc[p] = "check" /\ UNCHANGED <<files, tls, history>>
      BY <1>5, Zenon DEF Check
    <3>4. LeafInv'
      BY <1>2, <2>2, <3>3, PkiAssumption, Zenon DEF LeafInv, tls, Steps
    <3> QED
      BY <1>2, <2>2, <3>1, <3>2, <3>3, <3>4, Zenon DEF files, tls, history, Steps
  <2> QED
    BY <1>5, <2>1, <2>2, Zenon DEF Check
<1>6. CASE ReadKey(p)
  <2>1. mem' \in [Process -> [cert : Content, key : CA \cup {Missing}]]
    BY <1>1, <1>6, Zenon DEF ReadKey
  <2>2. LeafInv'
    BY <1>2, <1>6, PkiAssumption, Zenon DEF ReadKey, LeafInv, tls, Steps
  <2> QED
    BY <1>2, <1>6, <2>1, <2>2, Zenon DEF ReadKey, files, tls, history, Steps
<1>7. CASE ReadCert(p)
  <2>1. mem' \in [Process -> [cert : Content, key : CA \cup {Missing}]]
    BY <1>1, <1>7, Zenon DEF ReadCert
  <2>2. LeafInv'
    BY <1>2, <1>7, PkiAssumption, Zenon DEF ReadCert, LeafInv, tls, Steps
  <2> QED
    BY <1>2, <1>7, <2>1, <2>2, Zenon DEF ReadCert, files, tls, history, Steps
<1>8. CASE Persist(p)
  <2>1. LeafInv'
    BY <1>2, <1>8, PkiAssumption, Zenon DEF Persist, LeafInv, tls, Steps
  <2>2. cert' \in Content /\ key' \in Content
    BY <1>1, <1>8, Zenon DEF Persist, Content
  <2>3. pc' \in [Process -> Steps]
    BY <1>2, <1>8, Zenon DEF Persist, Steps
  <2> QED
    BY <1>8, <2>1, <2>2, <2>3, Zenon DEF Persist, files, tls, history
<1>9. CASE Show(p)
  <2>1. mem' \in [Process -> [cert : Content, key : CA \cup {Missing}]]
    BY <1>1, <1>9, Zenon DEF Show
  <2>2. LeafInv'
    BY <1>2, <1>9, PkiAssumption, Zenon DEF Show, LeafInv, tls, Steps
  <2> QED
    BY <1>1, <1>2, <1>9, <2>1, <2>2, Zenon DEF Show, files, tls, Steps
<1>10. CASE Stop(p)
  <2>1. mem' \in [Process -> [cert : Content, key : CA \cup {Missing}]]
    BY <1>1, <1>10, Zenon DEF Stop
  <2>2. /\ leaf' \in [ca : Content, signer : CA \cup {Missing}, left : 0..LeafTtl]
        /\ due' \in 0..RotateEvery /\ fails' \in 0..MaxFails
    BY <1>1, <1>10, PkiAssumption DEF Stop, tls, NoLeaf
  <2>3. LeafInv'
    BY <1>2, <1>10, PkiAssumption, Zenon DEF Stop, LeafInv, tls, Steps
  <2> QED
    BY <1>2, <1>10, <2>1, <2>2, <2>3, Zenon DEF Stop, files, Steps
<1> QED
  BY <1>3, <1>4, <1>5, <1>6, <1>7, <1>8, <1>9, <1>10, Zenon DEF Step

\* The daemon's own steps: first leaf, rotation, time.
LEMMA DaemonTypeStep ==
  ASSUME TypeOK, LeafInv, Serve \/ Rotate \/ Tick
  PROVE  TypeOK' /\ LeafInv'
<1> USE DEF TypeOK
<1>1. RotateEvery \in 0..RotateEvery /\ 0 \in 0..MaxFails
  BY PkiAssumption
<1>2. CASE Serve
  <2>1. pc' \in [Process -> Steps] /\ pc'[Daemon] = "up" /\ reported' \subseteq Content
    BY <1>2, PkiAssumption, Zenon DEF Serve, Goto, Steps
  <2>2. LeafInv'
    BY <1>2, <2>1, FreshLeaf, Zenon DEF Serve, LeafInv
  <2> QED
    BY <1>1, <1>2, <2>1, <2>2, FreshLeaf, Zenon DEF Serve, files
<1>3. CASE Rotate /\ leaf' = IssueLeaf(mem[Daemon]) /\ fails' = 0
  <2>1. LeafInv'
    BY <1>3, FreshLeaf, Zenon DEF Rotate, LeafInv
  <2> QED
    BY <1>1, <1>3, <2>1, FreshLeaf, Zenon DEF Rotate, files, history
<1>4. CASE Rotate /\ fails < MaxFails /\ fails' = fails + 1 /\ UNCHANGED leaf
  <2>1. fails' \in 0..MaxFails /\ fails \in Nat /\ leaf.left \in Int
    BY <1>4, PkiAssumption
  <2>2. leaf.left >= RotateEvery + (MaxFails - (fails + 1)) * RotateEvery
    BY <1>4, <2>1, FailedRotation, Zenon DEF Rotate, LeafInv
  <2>3. LeafInv'
    BY <1>4, <2>2, Zenon DEF Rotate, LeafInv
  <2> QED
    BY <1>1, <1>4, <2>1, <2>3, Zenon DEF Rotate, files, history
<1>5. CASE Tick
  <2>1. due' \in 0..RotateEvery /\ due \in Nat /\ leaf.left \in Int
    BY <1>5, PkiAssumption DEF Tick
  <2>2. leaf.left - 1 >= 0 /\ leaf.left - 1 >= (due - 1) + (MaxFails - fails) * RotateEvery
    BY <1>5, <2>1, LeafLasts, Zenon DEF Tick, LeafInv
  <2>3. /\ leaf' \in [ca : Content, signer : CA \cup {Missing}, left : 0..LeafTtl]
        /\ leaf'.ca = leaf.ca /\ leaf'.signer = leaf.signer /\ leaf'.left = leaf.left - 1
    BY <1>5, <2>2, PkiAssumption DEF Tick
  <2>4. LeafInv'
    BY <1>5, <2>2, <2>3, Zenon DEF Tick, LeafInv
  <2> QED
    BY <1>5, <2>1, <2>3, <2>4, Zenon DEF Tick, files, history
<1> QED
  BY <1>2, <1>3, <1>4, <1>5, Zenon DEF Rotate

\* The daemon's own steps leave files, processes and history alone, but for its way
\* from "loaded" to "up" and what it reports.
LEMMA DaemonQuiet ==
  ASSUME TypeOK, Serve \/ Rotate \/ Tick
  PROVE  /\ UNCHANGED <<cert, key, mem, rekeyed, cut, raced>>
         /\ \A p \in Process : \/ pc'[p] = pc[p]
                               \/ p = Daemon /\ pc[p] = "loaded" /\ pc'[p] = "up"
         /\ \/ UNCHANGED reported
            \/ pc[Daemon] = "loaded" /\ reported' = reported \cup {mem[Daemon].cert}
BY Zenon DEF Serve, Rotate, Tick, Goto, TypeOK, files, history

-----------------------------------------------------------------------------
\* What Step(p) does to processes and history, whatever it does to the files.
LEMMA StepMoves ==
  ASSUME TypeOK, NEW p \in Process, Step(p)
  PROVE  /\ \A q \in Process \ {p} : pc'[q] = pc[q] /\ mem'[q] = mem[q]
         /\ (rekeyed => rekeyed') /\ (cut => cut') /\ (raced => raced')
<1>1. \A s : Goto(p, s) => \A q \in Process \ {p} : pc'[q] = pc[q]
  BY Zenon DEF Goto, TypeOK
<1>2. CASE Start(p) \/ RekeyStart(p)
  BY <1>1, <1>2, Zenon DEF Start, RekeyStart, Enter, TypeOK
<1>3. CASE BackUp(p) \/ Persist(p)
  BY <1>1, <1>3 DEF BackUp, Persist, history
<1>4. CASE Check(p)
  BY <1>1, <1>4, Zenon DEF Check, history, TypeOK
<1>5. CASE ReadKey(p) \/ ReadCert(p)
  BY <1>1, <1>5, Zenon DEF ReadKey, ReadCert, history, TypeOK
<1>6. CASE Show(p)
  BY <1>1, <1>6, Zenon DEF Show, TypeOK
<1>7. CASE Stop(p)
  BY <1>1, <1>7, Zenon DEF Stop, TypeOK
<1> QED
  BY <1>2, <1>3, <1>4, <1>5, <1>6, <1>7, Zenon DEF Step

\* A process is in the directory because it was, or because it entered it.
LEMMA EntryStep ==
  ASSUME TypeOK, NEW p \in Process, Step(p)
  PROVE  /\ \/ pc'[p] \notin Busy
            \/ pc[p] \in Busy
            \/ \E q \in Process : pc[q] \in Busy /\ raced'
            \/ \A q \in Process : pc[q] \notin Busy
         /\ pc'[p] \in {"bakcert", "bakkey"} => pc[p] \in {"bakcert", "bakkey"} \/ rekeyed'
         /\ cut' => cut \/ pc[p] = "bakkey"
<1>1. \A s : Goto(p, s) => pc'[p] = s
  BY Zenon DEF Goto, TypeOK
<1>2. CASE Start(p) \/ RekeyStart(p)
  <2>1. PICK s \in {"check", "bakcert"} : Enter(p, s) /\ (s = "bakcert" => rekeyed')
    BY <1>2, Zenon DEF Start, RekeyStart
  <2>2. pc'[p] = s /\ raced' = (raced \/ \E q \in Process : pc[q] \in Busy)
    BY <1>1, <2>1, Zenon DEF Enter
  <2>3. cut' = cut
    BY <1>2, Zenon DEF Start, RekeyStart
  <2> QED
    BY <2>1, <2>2, <2>3, Zenon DEF TypeOK
<1>3. CASE BackUp(p)
  BY <1>1, <1>3, Zenon DEF BackUp, history, Busy, Steps
<1>4. CASE Persist(p) \/ Check(p) \/ ReadKey(p) \/ ReadCert(p)
  BY <1>1, <1>4 DEF Persist, Check, ReadKey, ReadCert, history, Busy, Steps
<1>5. CASE Show(p)
  BY <1>1, <1>5, Zenon DEF Show, Busy, Steps
<1>6. CASE Stop(p)
  <2>1. pc'[p] = "idle" /\ cut' = (cut \/ pc[p] = "bakkey")
    BY <1>1, <1>6, Zenon DEF Stop
  <2> QED
    BY <2>1, Zenon DEF Busy, Steps, TypeOK
<1> QED
  BY <1>2, <1>3, <1>4, <1>5, <1>6, Zenon DEF Step

\* A step leaves one process in the directory, or is a race.
LEMMA DirectoryStep ==
  ASSUME TypeOK, RekeyInv, OneBusy, NEW p \in Process, Step(p)
  PROVE  RekeyInv' /\ OneBusy'
<1>1. RekeyInv'
  BY StepMoves, EntryStep, Zenon DEF RekeyInv, TypeOK
<1>2. OneBusy'
  <2> SUFFICES ASSUME ~raced', NEW q \in Process, NEW r \in Process,
                      pc'[q] \in Busy, pc'[r] \in Busy
               PROVE  q = r
    BY Zenon DEF OneBusy
  <2>1. ~raced
    BY StepMoves, Zenon
  <2> QED
    BY <2>1, StepMoves, EntryStep, SMTT(30) DEF OneBusy
<1> QED
  BY <1>1, <1>2, Zenon

\* A process that is not in the directory knows nothing of the files there.
LEMMA OutOfDirectory ==
  ASSUME NEW q \in Process, pc[q] \notin Busy, pc'[q] = pc[q], mem'[q] = mem[q], AtStep(q)
  PROVE  AtStep(q)'
BY Zenon DEF AtStep, Paired, Busy, Steps

\* The steps that pair the files: one case for each action of a process that is in
\* the directory alone.
LEMMA FilesStep ==
  ASSUME TypeOK, OneBusy, FilesPaired, NEW p \in Process, Step(p)
  PROVE  FilesPaired'
<1> DEFINE Settled == (key \in CA => cert = key) /\ (cert = Missing => key = Missing)
<1> SUFFICES ASSUME ~raced', ~cut'
             PROVE  /\ (\E q \in Process : pc'[q] = "bakkey") \/ Settled'
                    /\ \A q \in Process : AtStep(q)'
  BY Zenon DEF FilesPaired
<1>1. ~raced /\ ~cut /\ \A q \in Process \ {p} : pc'[q] = pc[q] /\ mem'[q] = mem[q]
  BY StepMoves, Zenon
<1>2. /\ (\E q \in Process : pc[q] = "bakkey") \/ Settled
      /\ \A q \in Process : AtStep(q)
  BY <1>1, Zenon DEF FilesPaired
<1>3. \A s : Goto(p, s) => pc'[p] = s
  BY Zenon DEF Goto, TypeOK
\* With p in the directory, no other process is; in particular none is in a re-key.
<1>4. ASSUME pc[p] \in Busy
      PROVE  /\ \A q \in Process \ {p} : pc[q] \notin Busy /\ AtStep(q)'
             /\ pc[p] # "bakkey" => Settled
  <2>1. \A q \in Process \ {p} : pc[q] \notin Busy
    BY <1>1, <1>4, Zenon DEF OneBusy
  <2>2. \A q \in Process \ {p} : AtStep(q)'
    BY <1>1, <1>2, <2>1, OutOfDirectory, Zenon
  <2>3. \A q \in Process \ {p} : pc[q] # "bakkey"
    BY <2>1, Zenon DEF Busy, Steps
  <2> QED
    BY <1>2, <2>1, <2>2, <2>3, Zenon
<1>5. CASE Start(p) \/ RekeyStart(p)
  <2>1. UNCHANGED <<cert, key>> /\ pc[p] = "idle" /\ pc'[p] \in {"check", "bakcert"}
    BY <1>3, <1>5, Zenon DEF Start, RekeyStart, Enter, files
  <2>2. AtStep(p)'
    BY <2>1, Zenon DEF AtStep
  <2>3. \A q \in Process \ {p} : AtStep(q)'
    BY <1>1, <1>2, <2>1, SMTT(30) DEF AtStep, Paired
  <2> QED
    BY <1>1, <1>2, <2>1, <2>2, <2>3, Zenon
<1>6. CASE BackUp(p)
  <2>1. CASE pc[p] = "bakcert"
    <3>1. pc'[p] = "bakkey"
      BY <1>3, <1>6, <2>1, Zenon DEF BackUp
    <3> QED
      BY <1>4, <2>1, <3>1, Zenon DEF AtStep, Busy, Steps
  <2>2. CASE pc[p] = "bakkey"
    <3>1. pc'[p] = "check" /\ key' = Missing
      BY <1>3, <1>6, <2>2, Zenon DEF BackUp
    <3>2. Missing \notin CA
      BY PkiAssumption DEF Missing, CA
    <3> QED
      BY <1>4, <2>2, <3>1, <3>2, Zenon DEF AtStep, Busy, Steps
  <2> QED
    BY <1>6, <2>1, <2>2, Zenon DEF BackUp
<1>7. CASE Check(p)
  <2>1. pc[p] = "check" /\ UNCHANGED <<cert, key>>
    BY <1>7, Zenon DEF Check, files
  <2>2. Settled /\ \A q \in Process \ {p} : AtStep(q)'
    BY <1>4, <2>1, Zenon DEF Busy, Steps
  <2>3. AtStep(p)'
    <3>1. CASE Found /\ pc'[p] = "readkey"
      BY <2>1, <3>1, Zenon DEF Found, AtStep
    <3>2. CASE /\ ~Found /\ generated < MaxCA /\ pc'[p] = "certopen"
               /\ mem' = [mem EXCEPT ![p] = [cert |-> generated + 1, key |-> generated + 1]]
      <4>1. mem'[p].cert = generated + 1 /\ mem'[p].key = generated + 1
        BY <3>2, Zenon DEF TypeOK
      <4>2. generated + 1 \in CA
        BY <3>2, PkiAssumption DEF TypeOK, CA
      <4> QED
        BY <2>1, <2>2, <3>2, <4>1, <4>2, Zenon DEF Found, AtStep, Paired
    <3> QED
      BY <1>3, <1>7, <3>1, <3>2, Zenon DEF Check
  <2> QED
    BY <2>1, <2>2, <2>3, Zenon
<1>8. CASE ReadKey(p) \/ ReadCert(p)
  <2>1. pc[p] \in {"readkey", "readcert"} /\ UNCHANGED <<cert, key>>
    BY <1>8, Zenon DEF ReadKey, ReadCert, files
  <2>2. Settled /\ \A q \in Process \ {p} : AtStep(q)'
    BY <1>4, <2>1, Zenon DEF Busy, Steps
  <2>3. AtStep(p)'
    <3>1. CASE ReadKey(p)
      <4>1. pc'[p] = "readcert" /\ key \in CA /\ mem'[p].key = key
        BY <1>3, <3>1, Zenon DEF ReadKey, TypeOK
      <4> QED
        BY <1>2, <2>1, <3>1, <4>1, Zenon DEF AtStep, ReadKey
    <3>2. CASE ReadCert(p)
      <4>1. pc'[p] = "loaded" /\ mem'[p].key = mem[p].key /\ mem'[p].cert = cert
        BY <1>3, <3>2, Zenon DEF ReadCert, TypeOK
      <4>2. cert = key /\ key = mem[p].key /\ key \in CA
        BY <1>2, <2>2, <3>2, Zenon DEF AtStep, ReadCert
      <4> QED
        BY <4>1, <4>2, Zenon DEF AtStep, Paired
    <3> QED
      BY <1>8, <3>1, <3>2, Zenon
  <2> QED
    BY <2>1, <2>2, <2>3, Zenon
<1>9. CASE Persist(p)
  <2>1. pc[p] \in {"certopen", "certfill", "keyopen", "keyfill"} /\ UNCHANGED mem
    BY <1>9, Zenon DEF Persist
  <2>2. Settled /\ \A q \in Process \ {p} : AtStep(q)'
    BY <1>4, <2>1, Zenon DEF Busy, Steps
  <2>3. Paired(p) /\ Torn # Missing /\ Torn \notin CA /\ Missing \notin CA
    BY <1>2, <2>1, PkiAssumption DEF AtStep, Torn, Missing, CA
  <2>4. Settled' /\ AtStep(p)'
    <3>1. CASE pc[p] = "certopen"
      BY <1>2, <1>3, <1>9, <2>1, <2>3, <3>1, Zenon DEF Persist, AtStep, Paired
    <3>2. CASE pc[p] = "certfill"
      BY <1>2, <1>3, <1>9, <2>1, <2>3, <3>2, Zenon DEF Persist, AtStep, Paired
    <3>3. CASE pc[p] = "keyopen"
      BY <1>2, <1>3, <1>9, <2>1, <2>3, <3>3, Zenon DEF Persist, AtStep, Paired
    <3>4. CASE pc[p] = "keyfill"
      BY <1>2, <1>3, <1>9, <2>1, <2>3, <3>4, Zenon DEF Persist, AtStep, Paired
    <3> QED
      BY <2>1, <3>1, <3>2, <3>3, <3>4, Zenon
  <2> QED
    BY <2>2, <2>4, Zenon
<1>10. CASE Show(p) \/ Stop(p)
  <2>1. UNCHANGED <<cert, key>> /\ pc'[p] = "idle" /\ pc[p] # "bakkey"
    BY <1>3, <1>10, StepMoves, Zenon DEF Show, Stop, files, TypeOK
  <2>2. AtStep(p)'
    BY <2>1, Zenon DEF AtStep
  <2>3. \A q \in Process \ {p} : AtStep(q)'
    BY <1>1, <1>2, <2>1, SMTT(30) DEF AtStep, Paired
  <2> QED
    BY <1>1, <1>2, <2>1, <2>2, <2>3, Zenon
<1> QED
  BY <1>5, <1>6, <1>7, <1>8, <1>9, <1>10, Zenon DEF Step

\* The key on disk changes only when no CA is on disk yet, so that none was loaded.
LEMMA UnchangedStep ==
  ASSUME TypeOK, RekeyInv, OneBusy, FilesPaired, Unchanged, NEW p \in Process, Step(p)
  PROVE  Unchanged'
<1> SUFFICES ASSUME ~raced', ~rekeyed'
             PROVE  /\ \A q \in Process : pc'[q] \in {"loaded", "up"}
                                            => key' \in CA /\ mem'[q].cert = key'
                    /\ \A f \in reported' : key' \in CA /\ f = key'
  BY Zenon DEF Unchanged
<1>1. ~raced /\ ~rekeyed /\ \A q \in Process \ {p} : pc'[q] = pc[q] /\ mem'[q] = mem[q]
  BY StepMoves, Zenon
<1>2. ~cut /\ \A q \in Process : pc[q] \notin {"bakcert", "bakkey"}
  BY <1>1, Zenon DEF RekeyInv
<1>3. /\ (key \in CA => cert = key) /\ (cert = Missing => key = Missing)
      /\ \A q \in Process : AtStep(q)
  BY <1>1, <1>2, Zenon DEF FilesPaired
<1>4. /\ \A q \in Process : pc[q] \in {"loaded", "up"} => key \in CA /\ mem[q].cert = key
      /\ \A f \in reported : key \in CA /\ f = key
  BY <1>1, Zenon DEF Unchanged
<1>5. \A s : Goto(p, s) => pc'[p] = s
  BY Zenon DEF Goto, TypeOK
<1>6. CASE UNCHANGED <<key, reported>> /\ pc'[p] \notin {"loaded", "up"}
  BY <1>1, <1>4, <1>6, Zenon
<1>7. CASE Start(p) \/ RekeyStart(p)
  BY <1>5, <1>6, <1>7, Zenon DEF Start, RekeyStart, Enter, files
<1>8. CASE BackUp(p)
  BY <1>2, <1>8, Zenon DEF BackUp
<1>9. CASE Check(p) \/ ReadKey(p)
  BY <1>5, <1>6, <1>9, Zenon DEF Check, ReadKey, files, history
<1>10. CASE ReadCert(p)
  <2>1. UNCHANGED <<key, reported>> /\ mem'[p].cert = cert
    BY <1>10, Zenon DEF ReadCert, TypeOK, files, history
  <2>2. key \in CA /\ cert = key
    BY <1>3, <1>10, Zenon DEF ReadCert, AtStep
  <2> QED
    BY <1>1, <1>4, <2>1, <2>2, Zenon
<1>11. CASE Persist(p)
  <2>1. Torn \notin CA /\ Missing \notin CA
    BY PkiAssumption DEF Torn, Missing, CA
  <2>2. UNCHANGED <<mem, reported>>
    BY <1>11, Zenon DEF Persist, history
  <2>3. CASE pc[p] \in {"certopen", "certfill"}
    BY <1>5, <1>6, <1>11, <2>2, <2>3, Zenon DEF Persist
  <2>4. CASE pc[p] = "keyopen"
    <3>1. key \notin CA /\ pc'[p] = "keyfill"
      BY <1>3, <1>5, <1>11, <2>1, <2>4, Zenon DEF Persist, AtStep
    <3> QED
      BY <1>1, <1>4, <2>2, <3>1, Zenon
  <2>5. CASE pc[p] = "keyfill"
    <3>1. key \notin CA /\ Paired(p) /\ key' = mem[p].key
      BY <1>3, <1>11, <2>1, <2>5, Zenon DEF Persist, AtStep
    <3> QED
      BY <1>1, <1>4, <2>2, <3>1, Zenon DEF Paired
  <2> QED
    BY <1>11, <2>3, <2>4, <2>5, Zenon DEF Persist
<1>12. CASE Show(p)
  <2>1. /\ UNCHANGED key /\ pc[p] = "loaded" /\ pc'[p] = "idle"
        /\ reported' = reported \cup {mem[p].cert}
    BY <1>5, <1>12, Zenon DEF Show, files
  <2> QED
    BY <1>1, <1>4, <2>1, Zenon
<1>13. CASE Stop(p)
  BY <1>5, <1>6, <1>13, Zenon DEF Stop, files
<1> QED
  BY <1>7, <1>8, <1>9, <1>10, <1>11, <1>12, <1>13, Zenon DEF Step

\* The invariant of NodePki is inductive.
LEMMA PkiStep == PkiInv /\ [Next]_vars => PkiInv'
<1> SUFFICES ASSUME PkiInv, [Next]_vars PROVE PkiInv'
  BY Zenon
<1> USE DEF PkiInv
<1>1. ASSUME NEW p \in Process, Step(p) PROVE PkiInv'
  BY <1>1, TypeStep, DirectoryStep, FilesStep, UnchangedStep, Zenon
<1>2. CASE Serve \/ Rotate \/ Tick
  <2>1. RekeyInv' /\ OneBusy'
    BY <1>2, DaemonQuiet DEF RekeyInv, OneBusy, Busy, Steps
  <2>2. \A p \in Process : AtStep(p) => AtStep(p)'
    BY <1>2, DaemonQuiet, SMTT(30) DEF AtStep, Paired
  <2>3. FilesPaired'
    BY <1>2, <2>2, DaemonQuiet, Zenon DEF FilesPaired
  <2>4. Unchanged'
    BY <1>2, DaemonQuiet, PkiAssumption, Zenon DEF Unchanged
  <2> QED
    BY <1>2, <2>1, <2>3, <2>4, DaemonTypeStep, Zenon
<1>3. CASE UNCHANGED vars
  BY <1>3, Zenon DEF vars, files, tls, history, TypeOK, LeafInv, RekeyInv, OneBusy, FilesPaired,
      AtStep, Paired, Unchanged
<1> QED
  BY <1>1, <1>2, <1>3, Zenon DEF Next

\* The invariant of NodePki.
LEMMA PkiInvariant == Spec => []PkiInv
BY PkiInit, PkiStep, PTL DEF Spec

\* Every variable keeps values of its kind; a leaf never runs out while the daemon
\* serves, however many of the rotations that may fail do.
THEOREM PkiTypeCorrect == Spec => []TypeOK
<1>1. PkiInv => TypeOK
  BY Zenon DEF PkiInv
<1> QED
  BY <1>1, PkiInvariant, PTL

\* The leaf a daemon serves with passes verify_server_cert of a peer with the pin.
LEMMA ServedLeafVerifies == PkiInv => PinnedHandshakeSucceeds
<1> SUFFICES ASSUME PkiInv, pc[Daemon] = "up", ~raced, ~cut, NEW skew \in (-ClockSkew)..0
             PROVE  VerifyPinnedChain(leaf, mem[Daemon].cert, skew)
  BY Zenon DEF PinnedHandshakeSucceeds
<1>1. leaf.ca = mem[Daemon].cert /\ leaf.signer = mem[Daemon].key
  BY Zenon DEF PkiInv, LeafInv
<1>2. Paired(Daemon)
  BY PkiAssumption, Zenon DEF PkiInv, FilesPaired, AtStep
<1>3. CheckValidity(leaf, skew)
  <2>1. leaf.left \in 0..LeafTtl
    BY Zenon DEF PkiInv, TypeOK
  <2> QED
    BY <2>1, PkiAssumption DEF CheckValidity
<1> QED
  BY <1>1, <1>2, <1>3, Zenon DEF VerifyPinnedChain, Paired

\* A peer that pins the CA the node serves with is let through by verify_pinned_chain
\* at any time, after any sequence of starts, crashes, re-keys and leaf rotations in
\* which no two processes met in the directory and no re-key was cut in two.
THEOREM PinnedPeersConnect == Spec => []PinnedHandshakeSucceeds
BY ServedLeafVerifies, PkiInvariant, PTL

\* All that was reported is the CA on disk.
LEMMA ReportedOnce == PkiInv => OneFingerprint
<1> SUFFICES ASSUME PkiInv, ~rekeyed, ~raced PROVE Cardinality(reported) <= 1
  BY Zenon DEF OneFingerprint
<1>1. reported \subseteq {key}
  BY Zenon DEF PkiInv, Unchanged
<1>2. IsFiniteSet({key}) /\ Cardinality({key}) = 1
  BY FS_Singleton, Zenon
<1> QED
  BY <1>1, <1>2, FS_Subset, FS_CardinalityType, SMTT(30)

\* Until a re-key a node shows and serves one fingerprint, across any number of
\* crashes inside persist, restarts and `ca show`, unless two processes raced.
THEOREM FingerprintIsStable == Spec => []OneFingerprint
BY ReportedOnce, PkiInvariant, PTL

-----------------------------------------------------------------------------
(***************************************************************************)
(* Federation                                                              *)
(***************************************************************************)
LEMMA NoProbeType == NoProbe \in Probe /\ NoProbe.at = "none"
BY DEF NoProbe, Probe, NoLeaf, Content

\* What is under way survives a step that leaves the daemon up.
LEMMA UpKeepsCA ==
  ASSUME TypeOK, Next, pc[Daemon] = "up", pc'[Daemon] = "up"
  PROVE  mem'[Daemon] = mem[Daemon]
<1>1. CASE Serve \/ Rotate \/ Tick
  BY <1>1, DaemonQuiet, Zenon
<1>2. ASSUME NEW p \in Process, Step(p) PROVE mem'[Daemon] = mem[Daemon]
  <2>1. CASE p # Daemon
    BY <1>2, <2>1, StepMoves, PkiAssumption, Zenon
  <2>2. CASE p = Daemon
    <3>1. Stop(p)
      BY <1>2, <2>2, Zenon DEF Step, Start, RekeyStart, Enter, BackUp, Check, ReadKey, ReadCert,
           Persist, Show
    <3>2. pc'[p] = "idle"
      BY <3>1, Zenon DEF Stop, Goto, TypeOK
    <3> QED
      BY <2>2, <3>2, Zenon
  <2> QED
    BY <2>1, <2>2, Zenon
<1> QED
  BY <1>1, <1>2, Zenon DEF Next

\* The probe's own steps.
LEMMA ConnectKeeps ==
  ASSUME FedInv, Connect
  PROVE  FedInv'
<1>1. PICK pin \in reported \cup {Missing} :
        probe' = [NoProbe EXCEPT !.at = "certificate", !.pin = pin, !.leaf = leaf,
                    !.due = admits /\ pin = mem[Daemon].cert /\ ~raced /\ ~cut,
                    !.trusted = admits]
  BY Zenon DEF Connect
<1>2. pc[Daemon] = "up" /\ UNCHANGED <<vars, admits>>
  BY Zenon DEF Connect
<1>3. /\ pin \in Content
      /\ leaf \in [ca : Content, signer : CA \cup {Missing}, left : 0..LeafTtl]
      /\ leaf.ca = mem[Daemon].cert /\ admits \in BOOLEAN
  BY <1>2, Zenon DEF FedInv, PkiInv, TypeOK, LeafInv, Content, ProbeInv
<1>4. /\ probe'.at = "certificate" /\ probe'.pin = pin /\ probe'.leaf = leaf
      /\ probe'.due = (admits /\ pin = mem[Daemon].cert /\ ~raced /\ ~cut)
      /\ probe'.trusted = admits
  BY <1>1, Zenon DEF NoProbe
<1>5. probe' \in Probe
  <2>1. leaf \in [ca : Content, signer : CA \cup {Missing}, left : Int]
    BY <1>3
  <2> QED
    BY <1>1, <1>3, <2>1, Zenon DEF NoProbe, Probe, Content
<1>6. probe'.due => leaf.ca \in CA /\ leaf.signer = leaf.ca
  <2>1. ASSUME ~raced, ~cut PROVE leaf.ca \in CA /\ leaf.signer = leaf.ca
    BY <1>2, <2>1, PkiAssumption, Zenon DEF FedInv, PkiInv, FilesPaired, AtStep, Paired, LeafInv
  <2> QED
    BY <1>4, <2>1, Zenon
<1>7. PkiInv'
  BY <1>2, PkiStep, Zenon DEF FedInv
<1>8. mem' = mem /\ pc' = pc /\ admits' = admits
  BY <1>2, Zenon DEF vars
<1>9. ProbeInv'
  BY <1>2, <1>3, <1>4, <1>5, <1>6, <1>8, Zenon DEF ProbeInv, InFlight
<1> QED
  BY <1>4, <1>7, <1>9, Zenon DEF FedInv, AnsweredMeansMutualTrust, MutualTrustIsAnswered

\* The peer checks the leaf it was presented.
LEMMA VerifyServerCertKeeps ==
  ASSUME FedInv, VerifyServerCert
  PROVE  FedInv'
<1>1. PICK skew \in (-ClockSkew)..0 :
        probe' = [probe EXCEPT
                    !.at = IF VerifyPinnedChain(probe.leaf, probe.pin, skew)
                           THEN "sent" ELSE "refused",
                    !.leaf = NoLeaf]
  BY Zenon DEF VerifyServerCert
<1>2. /\ probe.at = "certificate" /\ probe \in Probe
      /\ mem' = mem /\ pc' = pc /\ admits' = admits /\ UNCHANGED vars
  BY Zenon DEF VerifyServerCert, vars, FedInv, ProbeInv
<1>3. /\ probe' \in Probe /\ probe'.pin = probe.pin
      /\ probe'.due = probe.due /\ probe'.trusted = probe.trusted
      /\ probe'.at = IF VerifyPinnedChain(probe.leaf, probe.pin, skew)
                     THEN "sent" ELSE "refused"
  <2>1. NoLeaf \in [ca : Content, signer : CA \cup {Missing}, left : Int]
    BY DEF NoLeaf, Content
  <2> QED
    BY <1>1, <1>2, <2>1, Zenon DEF Probe
<1>4. VerifyPinnedChain(probe.leaf, probe.pin, skew) => probe.pin = mem[Daemon].cert
  BY <1>2, Zenon DEF VerifyPinnedChain, FedInv, ProbeInv
<1>5. probe.due => VerifyPinnedChain(probe.leaf, probe.pin, skew)
  BY <1>2, PkiAssumption DEF VerifyPinnedChain, CheckValidity, FedInv, ProbeInv
<1>6. PkiInv'
  BY <1>2, PkiStep, Zenon DEF FedInv
<1>7. ProbeInv'
  BY <1>2, <1>3, <1>4, <1>5, Zenon DEF FedInv, ProbeInv, InFlight
<1> QED
  BY <1>3, <1>5, <1>6, <1>7, Zenon DEF FedInv, AnsweredMeansMutualTrust, MutualTrustIsAnswered

\* The node's side of the handshake, the answer, and the end of the probe.
LEMMA AnswerKeeps ==
  ASSUME FedInv, VerifyClientCert \/ Health \/ ProbeDone
  PROVE  FedInv'
<1>1. PkiInv' /\ mem' = mem /\ pc' = pc /\ admits' = admits
  BY PkiStep, Zenon DEF FedInv, VerifyClientCert, Health, ProbeDone, vars
<1>2. probe \in Probe /\ admits \in BOOLEAN /\ mem[Daemon].cert \in Content
  BY PkiAssumption, Zenon DEF FedInv, ProbeInv, PkiInv, TypeOK
<1>3. CASE VerifyClientCert
  <2>1. /\ probe.at = "sent" /\ probe' \in Probe /\ probe'.pin = probe.pin
        /\ probe'.due = probe.due /\ probe'.trusted = probe.trusted
        /\ probe'.at = IF admits THEN "open" ELSE "refused"
    BY <1>2, <1>3, Zenon DEF VerifyClientCert, Probe
  <2> QED
    BY <1>1, <2>1, Zenon
    DEF FedInv, ProbeInv, InFlight, AnsweredMeansMutualTrust, MutualTrustIsAnswered
<1>4. CASE Health
  <2>1. /\ probe.at = "open" /\ probe' \in Probe /\ probe'.pin = probe.pin
        /\ probe'.due = probe.due /\ probe'.trusted = probe.trusted
        /\ probe'.at = "answered" /\ probe'.health = mem[Daemon].cert
    BY <1>2, <1>4, Zenon DEF Health, Probe
  <2> QED
    BY <1>1, <2>1, Zenon
    DEF FedInv, ProbeInv, InFlight, AnsweredMeansMutualTrust, MutualTrustIsAnswered
<1>5. CASE ProbeDone
  BY <1>1, <1>2, <1>5, NoProbeType, Zenon
  DEF ProbeDone, FedInv, ProbeInv, InFlight, AnsweredMeansMutualTrust, MutualTrustIsAnswered
<1> QED
  BY <1>3, <1>4, <1>5, Zenon

\* A change of trust on the node, at any point of the probe.
LEMMA TrustKeeps ==
  ASSUME FedInv, Trust
  PROVE  FedInv'
<1>1. PkiInv' /\ mem' = mem /\ pc' = pc /\ admits' = ~admits
  BY PkiStep, Zenon DEF FedInv, Trust, vars
<1>2. probe \in Probe /\ admits \in BOOLEAN
  BY Zenon DEF FedInv, ProbeInv
<1>3. CASE InFlight
  <2>1. /\ probe' \in Probe /\ probe'.at = probe.at /\ probe'.pin = probe.pin
        /\ probe'.leaf = probe.leaf
        /\ probe'.due = (probe.due /\ probe.at = "open")
        /\ probe'.trusted = (probe.trusted \/ admits')
    BY <1>1, <1>2, <1>3, Zenon DEF Trust, Probe
  <2>2. probe.at \in {"certificate", "sent", "open"}
    BY <1>3, Zenon DEF InFlight
  <2>3. ProbeInv'
    BY <1>1, <1>2, <2>1, <2>2, Zenon DEF FedInv, ProbeInv, InFlight
  <2> QED
    BY <1>1, <2>1, <2>2, <2>3, Zenon DEF FedInv, AnsweredMeansMutualTrust, MutualTrustIsAnswered
<1>4. CASE ~InFlight
  <2>1. probe' = probe /\ probe.at \notin {"certificate", "sent", "open"}
    BY <1>4, Zenon DEF Trust, InFlight
  <2> QED
    BY <1>1, <1>2, <2>1, Zenon
    DEF FedInv, ProbeInv, InFlight, AnsweredMeansMutualTrust, MutualTrustIsAnswered
<1> QED
  BY <1>3, <1>4, Zenon

\* A step of the node, at any point of the probe.
LEMMA NodeStepKeeps ==
  ASSUME FedInv, NodeStep
  PROVE  FedInv'
<1>1. PkiInv' /\ Next /\ admits' = admits
  BY PkiStep, Zenon DEF FedInv, NodeStep
<1>2. probe \in Probe /\ admits \in BOOLEAN
  BY Zenon DEF FedInv, ProbeInv
<1>3. CASE probe' = NoProbe
  BY <1>1, <1>2, <1>3, NoProbeType, Zenon
  DEF FedInv, ProbeInv, InFlight, AnsweredMeansMutualTrust, MutualTrustIsAnswered
<1>4. ASSUME pc'[Daemon] = "up", probe.at # "none"
      PROVE  pc[Daemon] = "up" /\ mem'[Daemon] = mem[Daemon]
  BY <1>1, <1>4, UpKeepsCA, Zenon DEF FedInv, PkiInv, ProbeInv
<1>5. CASE pc'[Daemon] = "up" /\ probe' = probe
  BY <1>1, <1>2, <1>4, <1>5, Zenon
  DEF FedInv, ProbeInv, InFlight, AnsweredMeansMutualTrust, MutualTrustIsAnswered
<1>6. CASE /\ pc'[Daemon] = "up" /\ probe.at = "certificate" /\ probe.leaf.left >= 0
           /\ probe' = [probe EXCEPT !.leaf.left = @ - 1, !.due = @ /\ probe.leaf.left > 0]
  <2>1. /\ probe.leaf.left \in Int /\ probe.due \in BOOLEAN
        /\ probe.leaf \in [ca : Content, signer : CA \cup {Missing}, left : Int]
    BY <1>2, Zenon DEF Probe
  <2>2. /\ probe'.at = "certificate" /\ probe'.pin = probe.pin
        /\ probe'.leaf = [probe.leaf EXCEPT !.left = @ - 1]
        /\ probe'.due = (probe.due /\ probe.leaf.left > 0)
        /\ probe'.trusted = probe.trusted /\ probe'.health = probe.health
    BY <1>2, <1>6, Zenon DEF Probe
  <2>3. /\ probe'.leaf \in [ca : Content, signer : CA \cup {Missing}, left : Int]
        /\ probe'.leaf.ca = probe.leaf.ca /\ probe'.leaf.signer = probe.leaf.signer
        /\ probe'.leaf.left = probe.leaf.left - 1
    BY <2>1, <2>2
  <2>4. probe' \in Probe
    <3>1. probe' = [at |-> "certificate", pin |-> probe.pin, leaf |-> probe'.leaf,
                    health |-> probe.health, due |-> probe'.due, trusted |-> probe.trusted]
      BY <1>2, <1>6, <2>2, Zenon DEF Probe
    <3> QED
      BY <1>2, <2>1, <2>2, <2>3, <3>1, Zenon DEF Probe
  <2>5. pc'[Daemon] = "up" /\ mem'[Daemon] = mem[Daemon]
    BY <1>4, <1>6, Zenon
  <2>6. ASSUME probe'.due
        PROVE  /\ admits
               /\ probe'.pin = probe'.leaf.ca /\ probe'.leaf.ca \in CA
               /\ probe'.leaf.signer = probe'.leaf.ca
               /\ probe'.leaf.left \in 0..LeafTtl
    <3>1. probe.due /\ probe.leaf.left > 0
      BY <2>2, <2>6, Zenon
    <3>2. /\ admits /\ probe.pin = probe.leaf.ca /\ probe.leaf.ca \in CA
          /\ probe.leaf.signer = probe.leaf.ca /\ probe.leaf.left \in 0..LeafTtl
      BY <1>6, <3>1, Zenon DEF FedInv, ProbeInv
    <3> QED
      BY <2>2, <2>3, <3>1, <3>2, PkiAssumption
  <2>7. probe'.leaf.ca = mem'[Daemon].cert /\ (admits => probe'.trusted)
    BY <1>6, <2>2, <2>3, <2>5, Zenon DEF FedInv, ProbeInv, InFlight
  <2>8. ProbeInv'
    BY <1>1, <1>2, <2>2, <2>4, <2>5, <2>6, <2>7, Zenon DEF ProbeInv, InFlight
  <2> QED
    BY <1>1, <2>2, <2>8, Zenon DEF FedInv, AnsweredMeansMutualTrust, MutualTrustIsAnswered
<1> QED
  BY <1>3, <1>5, <1>6, Zenon DEF NodeStep

\* No probe is under way at first.
LEMMA FedInitial == FedInit => FedInv
BY PkiInit, NoProbeType, Zenon DEF FedInit, FedInv, ProbeInv, InFlight, AnsweredMeansMutualTrust,
   MutualTrustIsAnswered

\* The invariant of Federation is inductive.
LEMMA FedStep == FedInv /\ [FedNext]_fedVars => FedInv'
<1> SUFFICES ASSUME FedInv, [FedNext]_fedVars PROVE FedInv'
  BY Zenon
<1>1. CASE FedNext
  BY <1>1, ConnectKeeps, VerifyServerCertKeeps, AnswerKeeps, TrustKeeps, NodeStepKeeps, Zenon
  DEF FedNext
<1>2. CASE UNCHANGED fedVars
  <2>1. PkiInv' /\ UNCHANGED <<mem, pc, admits, probe>>
    BY <1>2, PkiStep, Zenon DEF fedVars, FedInv, vars
  <2> QED
    BY <2>1, Zenon
    DEF FedInv, ProbeInv, InFlight, AnsweredMeansMutualTrust, MutualTrustIsAnswered
<1> QED
  BY <1>1, <1>2, Zenon

\* The invariant of Federation.
LEMMA FedInvariant == FedSpec => []FedInv
BY FedInitial, FedStep, PTL DEF FedSpec

\* The node that peers probe is the node of NodePki, whatever the peers do: what is
\* proved of Spec above holds of it.
THEOREM ProbedNodeIsNode == FedSpec => Spec
<1>1. [FedNext]_fedVars => [Next]_vars
  BY Zenon DEF FedNext, fedVars, Connect, VerifyServerCert, VerifyClientCert, Health, ProbeDone,
     Trust, NodeStep
<1> QED
  BY <1>1, PTL DEF FedSpec, FedInit, Spec

\* "a probe succeeds only when both nodes trust each other's CA" (peer.rs:5): proved of
\* every interleaving of the probe's steps with re-keys, restarts, leaf rotations and
\* changes of trust on the node.
THEOREM ProbesNeedMutualTrust == FedSpec => []AnsweredMeansMutualTrust
<1>1. FedInv => AnsweredMeansMutualTrust
  BY Zenon DEF FedInv
<1> QED
  BY <1>1, FedInvariant, PTL

\* A probe between nodes that trust each other is never refused, except for a distrust,
\* the end of the daemon or a leaf that runs out, all of them while it is under way.
THEOREM MutualTrustSuffices == FedSpec => []MutualTrustIsAnswered
<1>1. FedInv => MutualTrustIsAnswered
  BY Zenon DEF FedInv
<1> QED
  BY <1>1, FedInvariant, PTL
=============================================================================
