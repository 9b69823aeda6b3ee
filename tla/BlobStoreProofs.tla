--------------------------- MODULE BlobStoreProofs ---------------------------
(***************************************************************************)
(* Proofs about BlobStore, for any number of requests, keys, values and    *)
(* inodes, and any nesting of objects and temporary files ("k.tmp" may be  *)
(* an object, and "k.tmp.tmp" ...).                                        *)
(*                                                                         *)
(* Nothing is promised of a key that puts overlapped on; the invariant     *)
(* says why the others are safe: the file of such a key, and a file opened *)
(* by its name, is in no writer's hands.                                   *)
(***************************************************************************)
EXTENDS BlobStore, TLAPS

Writes(c) == pc[c] \in {"write1", "write2"}
Puts(c) == pc[c] \in {"write1", "write2", "rename"}
Reads(c) == pc[c] \in {"read1", "read2"}
Clean(k) == k \in Key /\ k \notin overlapped

\* A request that is under way has its key and its open file.
LocalsSet ==
  \A c \in Client :
    /\ pc[c] = "idle" => arg[c] = NoArg
    /\ Puts(c) => arg[c].key \in Key /\ arg[c].val \in Val /\ arg[c].ino \in Inode
    /\ Reads(c) => arg[c].key \in Key /\ arg[c].ino \in Inode

\* There are no hard links: rename leaves a file one name.
OneName == \A m, n \in Name : dir[m] = dir[n] /\ dir[m] # None => m = n

\* An object whose path is the temporary file of a put under way is overlapped.
TmpIsOverlapped ==
  \A c \in Client : \A k \in Key : Writing(c, k) => ~Clean(TmpOf[k])

\* A file that is being written is not an object, nor open for reading as one.
WritersApart ==
  \A c \in Client : Writes(c) =>
    /\ \A k \in Key : Clean(k) => dir[k] # arg[c].ino
    /\ \A d \in Client : Reads(d) /\ Clean(arg[d].key) => arg[d].ino # arg[c].ino

\* An object is whole.
ObjectsWhole ==
  \A k \in Key : Clean(k) /\ dir[k] # None => \E v \in Val : file[dir[k]] = Whole(v)

\* What is open for reading is whole, what was read so far is of it, and no other
\* name has come to refer to it.
ReadersWhole ==
  \A c \in Client : Reads(c) /\ Clean(arg[c].key) =>
    /\ \E v \in Val : /\ file[arg[c].ino] = Whole(v)
                      /\ pc[c] = "read2" => arg[c].got = v
    /\ \A n \in Name : dir[n] = arg[c].ino => n = arg[c].key

\* A put that none overlaps has its temporary file to itself, and in it what it has
\* written so far.
PutsAlone ==
  \A c \in Client : Puts(c) /\ Clean(arg[c].key) =>
    /\ dir[TmpOf[arg[c].key]] = arg[c].ino
    /\ \A d \in Client \ {c} :
         /\ Writing(d, arg[c].key) => FALSE
         /\ Writes(d) => arg[d].ino # arg[c].ino
    /\ pc[c] = "write2" => file[arg[c].ino][1] = arg[c].val
    /\ pc[c] = "rename" => file[arg[c].ino] = Whole(arg[c].val)

\* Something is known of a key only while it is not overlapped.
KnownIsClean == \A k \in Key : object[k] # None => Clean(k)

BlobInv ==
  /\ TypeOK /\ LocalsSet /\ OneName /\ TmpIsOverlapped /\ WritersApart
  /\ ObjectsWhole /\ ReadersWhole /\ PutsAlone /\ KnownIsClean /\ CreatedIsKept

-----------------------------------------------------------------------------
\* A file that something refers to is kept as it is.
LEMMA KeptFile ==
  ASSUME NEW d, NEW a, NEW i \in Inode, InUse(i, d, a)
  PROVE  Kept(d, a)[i] = file[i]
BY Zenon DEF Kept

\* The files that are kept are files.
LEMMA KeptType ==
  ASSUME TypeOK, NEW d, NEW a
  PROVE  Kept(d, a) \in [Inode -> Chunks]
BY Zenon DEF Kept, TypeOK, Chunks, Whole

\* The locals of no request.
LEMMA NoArgType == NoArg \in Arg /\ NoArg.ino \notin Inode
BY BlobAssumption DEF NoArg, Arg, Inode

\* It holds of an empty directory.
LEMMA BlobInit == Init => BlobInv
<1> SUFFICES ASSUME Init PROVE BlobInv
  BY Zenon
<1>1. Whole(Gap) \in Chunks
  BY Zenon DEF Whole, Chunks
<1>2. TypeOK
  BY <1>1, NoArgType, Zenon DEF Init, TypeOK, Steps, NoReply, Reply
<1> QED
  BY <1>2, BlobAssumption, Zenon
  DEF Init, BlobInv, LocalsSet, OneName, TmpIsOverlapped, WritersApart, ObjectsWhole,
      ReadersWhole, PutsAlone, KnownIsClean, CreatedIsKept, Puts, Reads, Writes, Writing

\* Requests that end, one or all of them, leave the others and the objects alone.
LEMMA EndKeeps ==
  ASSUME BlobInv,
         \A d \in Client : \/ pc'[d] = pc[d] /\ arg'[d] = arg[d]
                           \/ pc'[d] = "idle" /\ arg'[d] = NoArg,
         pc' \in [Client -> Steps], arg' \in [Client -> Arg], out' \in Reply,
         file' = Kept(dir, arg'),
         UNCHANGED <<dir, overlapped, object>>
  PROVE  BlobInv'
<1> USE DEF BlobInv
<1>1. TypeOK'
  BY KeptType, Zenon DEF TypeOK
<1>2. \A d \in Client : pc'[d] # "idle" => pc'[d] = pc[d] /\ arg'[d] = arg[d]
  BY Zenon
<1>3. \A n \in Name : dir[n] # None => file'[dir[n]] = file[dir[n]]
  BY KeptFile DEF InUse, TypeOK
<1>4. \A d \in Client : Puts(d)' \/ Reads(d)' => file'[arg[d].ino] = file[arg[d].ino]
  <2> SUFFICES ASSUME NEW d \in Client, Puts(d)' \/ Reads(d)'
               PROVE  file'[arg[d].ino] = file[arg[d].ino]
    BY Zenon
  <2>1. pc'[d] = pc[d] /\ arg'[d] = arg[d] /\ arg[d].ino \in Inode
    BY <1>2, Zenon DEF Puts, Reads, LocalsSet
  <2> QED
    BY <2>1, KeptFile DEF InUse
<1>5. LocalsSet'
  BY <1>2, Zenon DEF LocalsSet, Puts, Reads
<1>6. OneName' /\ TmpIsOverlapped' /\ KnownIsClean'
  BY <1>2, Zenon DEF OneName, TmpIsOverlapped, KnownIsClean, Writing, Clean
<1>7. WritersApart'
  BY <1>2, SMTT(30) DEF WritersApart, Writes, Reads, Clean
<1>8. ObjectsWhole' /\ CreatedIsKept'
  BY <1>3, BlobAssumption DEF ObjectsWhole, CreatedIsKept, Clean
<1>9. ReadersWhole'
  BY <1>2, <1>4 DEF ReadersWhole, Reads, Clean
<1>10. PutsAlone'
  BY <1>2, <1>4 DEF PutsAlone, Puts, Writes, Writing, Clean
<1> QED
  BY <1>1, <1>5, <1>6, <1>7, <1>8, <1>9, <1>10, Zenon

\* The same for one request that is answered.
LEMMA AnswerKeeps ==
  ASSUME BlobInv, NEW c \in Client, NEW kind \in {"bytes", "not_found", "error"},
         NEW data \in Chunks, Answer(c, kind, data), UNCHANGED <<dir, overlapped, object>>
  PROVE  BlobInv'
<1>1. /\ pc' = [pc EXCEPT ![c] = "idle"]
      /\ arg' = [arg EXCEPT ![c] = NoArg]
      /\ file' = Kept(dir, arg')
      /\ out' = [kind |-> kind, key |-> arg[c].key, data |-> data]
  BY Zenon DEF Answer, Finish
<1>2. pc' \in [Client -> Steps] /\ arg' \in [Client -> Arg]
  BY <1>1, NoArgType, Zenon DEF BlobInv, TypeOK, Steps
<1>3. out' \in Reply
  <2>1. arg[c].key \in Key \cup {None}
    BY Zenon DEF BlobInv, TypeOK, Arg
  <2> QED
    BY <1>1, <2>1, Zenon DEF Reply
<1>4. \A d \in Client : \/ pc'[d] = pc[d] /\ arg'[d] = arg[d]
                        \/ pc'[d] = "idle" /\ arg'[d] = NoArg
  BY <1>1, Zenon DEF BlobInv, TypeOK
<1> QED
  BY <1>1, <1>2, <1>3, <1>4, EndKeeps, Zenon

-----------------------------------------------------------------------------
\* Opening a temporary file touches no object that is still clean, and no file of
\* another put or of a get that is.
LEMMA PutOpenKeeps ==
  ASSUME BlobInv, NEW c \in Client, NEW k \in Key, NEW v \in Val, NEW i \in Inode,
         PutOpen(c, k, v, i)
  PROVE  BlobInv'
<1> DEFINE t == TmpOf[k]
           locals == [NoArg EXCEPT !.key = k, !.val = v, !.ino = i]
<1> USE DEF BlobInv
<1>1. t \in Name /\ k \in Name /\ k # t /\ i # None
  BY BlobAssumption DEF Inode
<1>2. /\ pc[c] = "idle"
      /\ dir' = [dir EXCEPT ![t] = i]
      /\ file' = [file EXCEPT ![i] = Whole(Gap)]
      /\ pc' = [pc EXCEPT ![c] = "write1"]
      /\ arg' = [arg EXCEPT ![c] = locals]
      /\ out' = NoReply
      /\ overlapped' = overlapped \cup DisturbedByOpen(k)
      /\ object' = [m \in Key |-> IF m \in overlapped' THEN None
                                   ELSE [object EXCEPT ![k] = None][m]]
  BY Zenon DEF PutOpen, Goto, Disturb
<1>3. locals \in Arg /\ locals.key = k /\ locals.val = v /\ locals.ino = i
  BY Zenon DEF NoArg, Arg
<1>4. /\ pc'[c] = "write1" /\ arg'[c] = locals
      /\ \A d \in Client \ {c} : pc'[d] = pc[d] /\ arg'[d] = arg[d]
  BY <1>2, Zenon DEF TypeOK
<1>5. /\ dir'[t] = i
      /\ \A n \in Name \ {t} : dir'[n] = dir[n]
      /\ \A j \in Inode \ {i} : file'[j] = file[j]
  BY <1>1, <1>2, Zenon DEF TypeOK
<1>6. TypeOK'
  <2>1. NoReply \in Reply /\ Whole(Gap) \in Chunks
    BY Zenon DEF NoReply, Reply, Whole, Chunks
  <2>2. overlapped' \subseteq Key /\ object' \in [Key -> Val \cup {None}]
    BY <1>2, Zenon DEF TypeOK, DisturbedByOpen
  <2> QED
    BY <1>1, <1>2, <1>3, <2>1, <2>2, Zenon DEF TypeOK, Steps
<1>7. LocalsSet'
  BY <1>3, <1>4, ZenonT(60) DEF LocalsSet, Puts, Reads
\* The inode is the temporary file's, or no one's.
<1>8. /\ \A n \in Name : dir[n] = i => n = t
      /\ \/ dir[t] = i
         \/ dir[t] = None /\ \A d \in Client : arg[d].ino # i
  BY <1>1, Zenon DEF PutOpen, NextFree, Free, InUse, OneName
<1>9. (\A m \in Key : Clean(m)' => Clean(m)) /\ ~Clean(t)'
  BY <1>2, Zenon DEF Clean, DisturbedByOpen
<1>10. ASSUME Clean(k)', NEW d \in Client
       PROVE  ~Writing(d, k) /\ (Writes(d) => arg[d].ino # i)
  BY <1>2, <1>8, <1>10, Zenon DEF Clean, DisturbedByOpen, Writes
<1>11. \A m \in Key : Clean(m)' => m \in Name /\ m # t /\ dir[m] # i /\ dir'[m] = dir[m]
  BY <1>5, <1>8, <1>9, BlobAssumption, Zenon
<1>12. \A d \in Client : Reads(d)' /\ Clean(arg[d].key)' =>
         /\ d # c /\ Reads(d) /\ Clean(arg[d].key)
         /\ arg'[d] = arg[d] /\ pc'[d] = pc[d]
         /\ arg[d].ino \in Inode \ {i}
  <2> SUFFICES ASSUME NEW d \in Client, Reads(d)', Clean(arg[d].key)'
               PROVE  /\ d # c /\ Reads(d) /\ Clean(arg[d].key)
                      /\ arg'[d] = arg[d] /\ pc'[d] = pc[d]
                      /\ arg[d].ino \in Inode \ {i}
    BY Zenon
  <2>1. d # c /\ Reads(d) /\ arg'[d] = arg[d] /\ pc'[d] = pc[d]
    BY <1>4, Zenon DEF Reads
  <2>2. arg[d].key \in Key /\ Clean(arg[d].key) /\ arg[d].key # t /\ arg[d].ino \in Inode
    BY <2>1, <1>9, Zenon DEF Clean, LocalsSet
  <2>3. arg[d].ino # i
    BY <1>1, <1>8, <2>1, <2>2, SMTT(30) DEF ReadersWhole
  <2> QED
    BY <2>1, <2>2, <2>3, Zenon
<1>13. OneName'
  BY <1>1, <1>5, <1>8 DEF OneName
<1>14. TmpIsOverlapped'
  <2> SUFFICES ASSUME NEW d \in Client, NEW j \in Key, Writing(d, j)' PROVE ~Clean(TmpOf[j])'
    BY Zenon DEF TmpIsOverlapped
  <2>1. CASE d = c
    BY <1>3, <1>4, <1>9, <2>1, Zenon DEF Writing
  <2>2. CASE d # c
    BY <1>4, <1>9, <2>2, Zenon DEF Writing, TmpIsOverlapped, Clean
  <2> QED
    BY <2>1, <2>2, Zenon
<1>15. WritersApart'
  <2> SUFFICES ASSUME NEW d \in Client, Writes(d)'
               PROVE  /\ \A m \in Key : Clean(m)' => dir'[m] # arg'[d].ino
                      /\ \A e \in Client : Reads(e)' /\ Clean(arg[e].key)'
                                             => arg'[e].ino # arg'[d].ino
    BY Zenon DEF WritersApart
  <2>1. CASE d = c
    BY <1>3, <1>4, <1>11, <1>12, <2>1, Zenon
  <2>2. CASE d # c
    <3>1. Writes(d) /\ arg'[d] = arg[d]
      BY <1>4, <2>2, Zenon DEF Writes
    <3> QED
      BY <1>9, <1>11, <1>12, <3>1 DEF WritersApart
  <2> QED
    BY <2>1, <2>2, Zenon
<1>16. ObjectsWhole'
  BY <1>5, <1>9, <1>11 DEF ObjectsWhole, TypeOK
<1>17. ReadersWhole'
  BY <1>5, <1>12 DEF ReadersWhole
<1>18. PutsAlone'
  <2> SUFFICES ASSUME NEW d \in Client, Puts(d)', Clean(arg[d].key)'
               PROVE  /\ dir'[TmpOf[arg'[d].key]] = arg'[d].ino
                      /\ \A e \in Client \ {d} :
                           /\ Writing(e, arg[d].key)' => FALSE
                           /\ Writes(e)' => arg'[e].ino # arg'[d].ino
                      /\ pc'[d] = "write2" => file'[arg'[d].ino][1] = arg'[d].val
                      /\ pc'[d] = "rename" => file'[arg'[d].ino] = Whole(arg'[d].val)
    BY Zenon DEF PutsAlone
  <2>1. CASE d = c
    <3>1. Clean(k)'
      BY <1>3, <1>4, <2>1, Zenon DEF Clean
    <3>2. ASSUME NEW e \in Client \ {d}
          PROVE  ~Writing(e, arg[d].key)' /\ (Writes(e)' => arg'[e].ino # arg'[d].ino)
      <4>1. ~Writing(e, k) /\ (Writes(e) => arg[e].ino # i)
        BY <1>10, <3>1, Zenon
      <4> QED
        BY <1>3, <1>4, <2>1, <4>1, Zenon DEF Writing, Writes
    <3> QED
      BY <1>3, <1>4, <1>5, <2>1, <3>2, Zenon
  <2>2. CASE d # c
    <3>1. /\ Puts(d) /\ arg'[d] = arg[d] /\ pc'[d] = pc[d]
          /\ arg[d].key \in Key /\ Clean(arg[d].key) /\ arg[d].ino \in Inode
      BY <1>4, <1>9, <2>2, Zenon DEF Puts, LocalsSet, Clean
    <3>2. arg[d].key # k
      <4> SUFFICES ASSUME arg[d].key = k PROVE FALSE
        BY Zenon
      <4>1. Clean(k)'
        BY <3>1, Zenon DEF Clean
      <4>2. ~Writing(d, k)
        BY <1>10, <4>1, Zenon
      <4> QED
        BY <3>1, <4>2, Zenon DEF Writing, Puts
    <3>3. TmpOf[arg[d].key] \in Name \ {t}
      BY <3>1, <3>2, BlobAssumption, Zenon
    <3>4. dir[TmpOf[arg[d].key]] = arg[d].ino
      BY <3>1, Zenon DEF PutsAlone
    <3>5. arg[d].ino # i
      BY <1>8, <3>3, <3>4, Zenon
    <3>6. ASSUME NEW e \in Client \ {d}
          PROVE  ~Writing(e, arg[d].key)' /\ (Writes(e)' => arg'[e].ino # arg'[d].ino)
      <4>1. CASE e = c
        BY <1>3, <1>4, <3>1, <3>2, <3>5, <4>1, Zenon DEF Writing
      <4>2. CASE e # c
        <5>1. ~Writing(e, arg[d].key) /\ (Writes(e) => arg[e].ino # arg[d].ino)
          BY <3>1, Zenon DEF PutsAlone
        <5> QED
          BY <1>4, <3>1, <4>2, <5>1, Zenon DEF Writing, Writes
      <4> QED
        BY <4>1, <4>2, Zenon
    <3> QED
      BY <1>5, <3>1, <3>3, <3>4, <3>5, <3>6, SMTT(30) DEF PutsAlone
  <2> QED
    BY <2>1, <2>2, Zenon
<1>19. KnownIsClean' /\ CreatedIsKept'
  <2> SUFFICES ASSUME NEW m \in Key, object'[m] # None
               PROVE  /\ Clean(m)'
                      /\ dir'[m] # None /\ file'[dir'[m]] = Whole(object'[m])
    BY Zenon DEF KnownIsClean, CreatedIsKept
  <2>1. Clean(m)' /\ object'[m] = object[m]
    BY <1>2, Zenon DEF Clean, TypeOK
  <2>2. dir[m] # None /\ file[dir[m]] = Whole(object[m]) /\ dir[m] \in Inode
    BY <1>11, <2>1, SMTT(30) DEF CreatedIsKept, TypeOK
  <2> QED
    BY <1>5, <1>11, <2>1, <2>2, Zenon
<1> QED
  BY <1>6, <1>7, <1>13, <1>14, <1>15, <1>16, <1>17, <1>18, <1>19, Zenon

-----------------------------------------------------------------------------
\* Writing a chunk changes a file that no clean object, get or other put has.
LEMMA PutWriteKeeps ==
  ASSUME BlobInv, NEW c \in Client, PutWrite(c)
  PROVE  BlobInv'
<1> DEFINE i == arg[c].ino
           v == arg[c].val
<1> USE DEF BlobInv
<1>1. PICK n \in 1..2 :
        /\ pc[c] = (IF n = 1 THEN "write1" ELSE "write2")
        /\ file' = [file EXCEPT ![i][n] = v]
        /\ pc' = [pc EXCEPT ![c] = IF n = 1 THEN "write2" ELSE "rename"]
        /\ arg' = [arg EXCEPT ![c] = arg[c]]
        /\ out' = NoReply
        /\ UNCHANGED <<dir, overlapped, object>>
  BY DEF PutWrite, Goto
<1>2. Writes(c) /\ Puts(c) /\ i \in Inode /\ v \in Val /\ arg[c].key \in Key
  BY <1>1, Zenon DEF Writes, Puts, LocalsSet
<1>3. arg' = arg /\ \A d \in Client \ {c} : pc'[d] = pc[d]
  BY <1>1, Zenon DEF TypeOK
<1>4. pc'[c] = IF n = 1 THEN "write2" ELSE "rename"
  BY <1>1, Zenon DEF TypeOK
<1>5. \A j \in Inode \ {i} : file'[j] = file[j]
  BY <1>1, Zenon DEF TypeOK
<1>6. file'[i] = [file[i] EXCEPT ![n] = v] /\ file[i] \in Chunks
  BY <1>1, <1>2, Zenon DEF TypeOK
<1>7. TypeOK'
  <2>1. NoReply \in Reply
    BY Zenon DEF NoReply, Reply, Whole, Chunks
  <2>2. [file[i] EXCEPT ![n] = v] \in Chunks
    BY <1>2, <1>6, Zenon DEF Chunks
  <2>3. file' \in [Inode -> Chunks]
    BY <1>1, <1>2, <2>2, Zenon DEF TypeOK
  <2>4. pc' \in [Client -> Steps]
    BY <1>1, Zenon DEF TypeOK, Steps
  <2> QED
    BY <1>1, <1>3, <2>1, <2>3, <2>4, Zenon DEF TypeOK
<1>8. LocalsSet'
  BY <1>2, <1>3, <1>4, Zenon DEF LocalsSet, Puts, Reads
<1>9. /\ \A d \in Client, k \in Key : Writing(d, k)' => Writing(d, k)
      /\ \A d \in Client : Writes(d)' => Writes(d)
      /\ \A d \in Client : Reads(d)' => d # c /\ Reads(d)
  BY <1>1, <1>3, <1>4 DEF Writing, Writes, Reads
<1>10. OneName' /\ TmpIsOverlapped' /\ WritersApart' /\ KnownIsClean'
  BY <1>1, <1>3, <1>9, SMTT(30) DEF OneName, TmpIsOverlapped, WritersApart, KnownIsClean, Clean
<1>11. \A k \in Key : Clean(k) => dir[k] # i
  BY <1>2, Zenon DEF WritersApart
<1>12. \A k \in Key : Clean(k) /\ dir[k] # None => file'[dir[k]] = file[dir[k]]
  BY <1>5, <1>11, BlobAssumption, SMTT(30) DEF TypeOK
<1>13. ObjectsWhole' /\ CreatedIsKept'
  BY <1>1, <1>12, SMTT(30) DEF ObjectsWhole, CreatedIsKept, KnownIsClean, Clean
<1>14. ReadersWhole'
  <2>1. \A d \in Client : Reads(d)' /\ Clean(arg[d].key) =>
          pc'[d] = pc[d] /\ Reads(d) /\ file'[arg[d].ino] = file[arg[d].ino]
    BY <1>2, <1>3, <1>5, <1>9, SMTT(30) DEF WritersApart, LocalsSet
  <2> QED
    BY <1>1, <1>3, <2>1, SMTT(30) DEF ReadersWhole, Clean
<1>15. ASSUME NEW d \in Client, Puts(d)', Clean(arg[d].key)
       PROVE  /\ pc'[d] = "write2" => file'[arg[d].ino][1] = arg[d].val
              /\ pc'[d] = "rename" => file'[arg[d].ino] = Whole(arg[d].val)
  <2>1. Puts(d) /\ arg[d].ino \in Inode
    BY <1>2, <1>3, <1>15, Zenon DEF Puts, LocalsSet
  <2>2. CASE d # c
    <3>1. arg[d].ino # i /\ pc'[d] = pc[d]
      BY <1>2, <1>3, <1>15, <2>1, <2>2, SMTT(30) DEF PutsAlone
    <3> QED
      BY <1>5, <1>15, <2>1, <3>1, SMTT(30) DEF PutsAlone
  <2>3. CASE d = c /\ n = 1
    BY <1>4, <1>6, <2>3, Zenon DEF Chunks
  <2>4. CASE d = c /\ n = 2
    <3>1. file[i][1] = v
      BY <1>1, <1>15, <2>1, <2>4 DEF PutsAlone
    <3>2. file'[i] = Whole(v)
      BY <1>6, <2>4, <3>1 DEF Chunks, Whole
    <3> QED
      BY <1>4, <2>4, <3>2
  <2> QED
    BY <2>2, <2>3, <2>4
<1>16. PutsAlone'
  <2> SUFFICES ASSUME NEW d \in Client, Puts(d)', Clean(arg[d].key)'
               PROVE  /\ dir'[TmpOf[arg'[d].key]] = arg'[d].ino
                      /\ \A e \in Client \ {d} :
                           /\ Writing(e, arg[d].key)' => FALSE
                           /\ Writes(e)' => arg'[e].ino # arg'[d].ino
                      /\ pc'[d] = "write2" => file'[arg'[d].ino][1] = arg'[d].val
                      /\ pc'[d] = "rename" => file'[arg'[d].ino] = Whole(arg'[d].val)
    BY Zenon DEF PutsAlone
  <2>1. Puts(d) /\ Clean(arg[d].key)
    BY <1>1, <1>2, <1>3, Zenon DEF Puts, Clean
  <2>2. dir'[TmpOf[arg'[d].key]] = arg'[d].ino
    BY <1>1, <1>3, <2>1, Zenon DEF PutsAlone
  <2>3. ASSUME NEW e \in Client \ {d}
        PROVE  ~Writing(e, arg[d].key)' /\ (Writes(e)' => arg'[e].ino # arg'[d].ino)
    <3>1. ~Writing(e, arg[d].key) /\ (Writes(e) => arg[e].ino # arg[d].ino)
      BY <2>1, Zenon DEF PutsAlone
    <3> QED
      BY <1>1, <1>3, <1>4, <3>1, Zenon DEF Writing, Writes
  <2> QED
    BY <1>3, <1>15, <2>1, <2>2, <2>3, Zenon
<1> QED
  BY <1>7, <1>8, <1>10, <1>13, <1>14, <1>16, Zenon

-----------------------------------------------------------------------------
\* The rename of a put that none overlaps moves its own file, which is whole; it
\* takes no file away from a clean get or put.
LEMMA PutRenameKeeps ==
  ASSUME BlobInv, NEW c \in Client, PutRename(c)
  PROVE  BlobInv'
<1> DEFINE k == arg[c].key
           t == TmpOf[k]
           v == arg[c].val
<1> USE DEF BlobInv
<1>1. /\ pc[c] = "rename"
      /\ dir[t] # None
      /\ dir' = [dir EXCEPT ![k] = dir[t], ![t] = None]
      /\ pc' = [pc EXCEPT ![c] = "idle"]
      /\ arg' = [arg EXCEPT ![c] = NoArg]
      /\ file' = Kept(dir', arg')
      /\ out' = [kind |-> "created", key |-> k, data |-> Whole(Gap)]
      /\ overlapped' = overlapped \cup DisturbedByRename(k)
      /\ object' = [m \in Key |-> IF m \in overlapped' THEN None
                                   ELSE [object EXCEPT ![k] = v][m]]
  BY Zenon DEF PutRename, Answer, Finish, Disturb
<1>2. Puts(c) /\ Writing(c, k) /\ k \in Key /\ v \in Val /\ arg[c].ino \in Inode
  BY <1>1, Zenon DEF Puts, Writing, LocalsSet
<1>3. k \in Name /\ t \in Name /\ k # t /\ dir[t] \in Inode
  BY <1>1, <1>2, BlobAssumption, Zenon DEF TypeOK
<1>4. /\ dir'[k] = dir[t] /\ dir'[t] = None
      /\ \A n \in Name \ {k, t} : dir'[n] = dir[n]
  BY <1>1, <1>3, Zenon DEF TypeOK
<1>5. /\ pc'[c] = "idle" /\ arg'[c] = NoArg
      /\ \A d \in Client \ {c} : pc'[d] = pc[d] /\ arg'[d] = arg[d]
  BY <1>1, Zenon DEF TypeOK
<1>6. TypeOK'
  <2>1. out' \in Reply
    BY <1>1, <1>2, Zenon DEF Reply, Whole, Chunks
  <2>2. overlapped' \subseteq Key /\ object' \in [Key -> Val \cup {None}]
    BY <1>1, <1>2, Zenon DEF TypeOK, DisturbedByRename
  <2>3. dir' \in [Name -> Inode \cup {None}]
    BY <1>1, <1>3, Zenon DEF TypeOK
  <2>4. arg' \in [Client -> Arg] /\ pc' \in [Client -> Steps]
    BY <1>1, NoArgType, Zenon DEF TypeOK, Steps
  <2> QED
    BY <1>1, <2>1, <2>2, <2>3, <2>4, KeptType, Zenon DEF TypeOK
<1>7. LocalsSet'
  BY <1>5, Zenon DEF LocalsSet, Puts, Reads
<1>8. \A d \in Client : pc'[d] # "idle" => d # c /\ pc'[d] = pc[d] /\ arg'[d] = arg[d]
  BY <1>5, Zenon
<1>9. (\A m \in Key : Clean(m)' => Clean(m)) /\ ~Clean(t)
  BY <1>1, <1>2, Zenon DEF Clean, TmpIsOverlapped
<1>10. ASSUME NEW d \in Client, Puts(d)' \/ Reads(d)'
       PROVE  arg[d].ino \in Inode /\ file'[arg[d].ino] = file[arg[d].ino]
  <2>1. arg'[d] = arg[d] /\ arg[d].ino \in Inode
    BY <1>8, <1>10, Zenon DEF Puts, Reads, LocalsSet
  <2>2. InUse(arg[d].ino, dir', arg')
    BY <2>1, Zenon DEF InUse
  <2> QED
    BY <1>1, <2>1, <2>2, Zenon DEF Kept
<1>11. \A n \in Name : dir'[n] # None => file'[dir'[n]] = file[dir'[n]]
  <2> SUFFICES ASSUME NEW n \in Name, dir'[n] # None PROVE file'[dir'[n]] = file[dir'[n]]
    BY Zenon
  <2>1. dir'[n] \in Inode
    BY <1>6, Zenon DEF TypeOK
  <2>2. InUse(dir'[n], dir', arg')
    BY Zenon DEF InUse
  <2> QED
    BY <1>1, <2>1, <2>2, Zenon DEF Kept
\* The put's own file, if it is clean.
<1>12. ASSUME Clean(k)
       PROVE  dir[t] = arg[c].ino /\ file[dir[t]] = Whole(v)
  BY <1>1, <1>2, <1>12, Zenon DEF PutsAlone
<1>13. OneName'
  BY <1>3, <1>4, SMTT(30) DEF OneName
<1>14. TmpIsOverlapped'
  BY <1>5, <1>9, SMTT(30) DEF TmpIsOverlapped, Writing, Clean
<1>15. WritersApart'
  <2> SUFFICES ASSUME NEW d \in Client, Writes(d)'
               PROVE  /\ \A m \in Key : Clean(m)' => dir'[m] # arg'[d].ino
                      /\ \A e \in Client : Reads(e)' /\ Clean(arg[e].key)'
                                             => arg'[e].ino # arg'[d].ino
    BY Zenon DEF WritersApart
  <2>1. Writes(d) /\ d # c /\ arg'[d] = arg[d] /\ arg[d].ino \in Inode
    BY <1>8, Zenon DEF Writes, LocalsSet, Puts
  <2>2. ASSUME NEW m \in Key, Clean(m)' PROVE dir'[m] # arg'[d].ino
    <3>1. CASE m = k
      BY <1>2, <1>4, <1>9, <1>12, <2>1, <2>2, <3>1, SMTT(30) DEF PutsAlone
    <3>2. CASE m = t
      BY <1>9, <2>2, <3>2, Zenon
    <3>3. CASE m \notin {k, t}
      BY <1>4, <1>9, <2>1, <2>2, <3>3, BlobAssumption, SMTT(30) DEF WritersApart
    <3> QED
      BY <3>1, <3>2, <3>3, Zenon
  <2>3. ASSUME NEW e \in Client, Reads(e)', Clean(arg[e].key)'
        PROVE  arg'[e].ino # arg'[d].ino
    BY <1>1, <1>8, <2>1, <2>3, SMTT(30) DEF WritersApart, Reads, Clean
  <2> QED
    BY <2>2, <2>3, Zenon
<1>16. ASSUME NEW m \in Key, Clean(m)', dir'[m] # None
       PROVE  /\ Clean(m)
              /\ \/ m = k /\ file'[dir'[m]] = Whole(v)
                 \/ m # k /\ dir'[m] = dir[m] /\ file'[dir'[m]] = file[dir[m]]
  <2>1. m \in Name /\ Clean(m) /\ m # t
    BY <1>9, <1>16, BlobAssumption, Zenon
  <2> QED
    BY <1>4, <1>11, <1>12, <1>16, <2>1, Zenon
<1>17. ObjectsWhole'
  BY <1>2, <1>16, SMTT(30) DEF ObjectsWhole
<1>18. KnownIsClean' /\ CreatedIsKept'
  <2> SUFFICES ASSUME NEW m \in Key, object'[m] # None
               PROVE  /\ Clean(m)'
                      /\ dir'[m] # None /\ file'[dir'[m]] = Whole(object'[m])
    BY Zenon DEF KnownIsClean, CreatedIsKept
  <2>1. Clean(m)' /\ object'[m] = IF m = k THEN v ELSE object[m]
    BY <1>1, Zenon DEF Clean, TypeOK
  <2>2. m # t /\ m \in Name
    BY <1>9, <2>1, BlobAssumption, Zenon
  <2>3. dir'[m] # None
    BY <1>1, <1>4, <2>1, <2>2, Zenon DEF CreatedIsKept
  <2> QED
    BY <1>16, <2>1, <2>3, Zenon DEF CreatedIsKept
<1>19. ReadersWhole'
  <2>1. ASSUME NEW d \in Client, Reads(d)', Clean(arg[d].key)'
        PROVE  /\ Reads(d) /\ Clean(arg[d].key) /\ pc'[d] = pc[d] /\ arg'[d] = arg[d]
               /\ file'[arg[d].ino] = file[arg[d].ino]
               /\ \A n \in Name : dir'[n] = arg[d].ino => n = arg[d].key
    <3>1. d # c /\ Reads(d) /\ pc'[d] = pc[d] /\ arg'[d] = arg[d] /\ Clean(arg[d].key)
      BY <1>1, <1>8, <2>1, SMTT(30) DEF Reads, Clean
    <3>2. arg[d].ino \in Inode /\ file'[arg[d].ino] = file[arg[d].ino]
      BY <1>10, <2>1, Zenon
    <3>3. arg[d].ino # dir[t]
      BY <1>3, <1>9, <3>1, Zenon DEF ReadersWhole
    <3>4. \A n \in Name : dir[n] = arg[d].ino => n = arg[d].key
      BY <3>1, Zenon DEF ReadersWhole
    <3>5. arg[d].ino # None
      BY <3>2, BlobAssumption DEF Inode
    <3> QED
      BY <1>4, <3>1, <3>2, <3>3, <3>4, <3>5, Zenon
  <2> QED
    BY <2>1 DEF ReadersWhole
<1>20. PutsAlone'
  <2> SUFFICES ASSUME NEW d \in Client, Puts(d)', Clean(arg[d].key)'
               PROVE  /\ dir'[TmpOf[arg'[d].key]] = arg'[d].ino
                      /\ \A e \in Client \ {d} :
                           /\ Writing(e, arg[d].key)' => FALSE
                           /\ Writes(e)' => arg'[e].ino # arg'[d].ino
                      /\ pc'[d] = "write2" => file'[arg'[d].ino][1] = arg'[d].val
                      /\ pc'[d] = "rename" => file'[arg'[d].ino] = Whole(arg'[d].val)
    BY Zenon DEF PutsAlone
  <2>1. /\ d # c /\ Puts(d) /\ pc'[d] = pc[d] /\ arg'[d] = arg[d]
        /\ Clean(arg[d].key) /\ arg[d].key \in Key
    BY <1>1, <1>8, SMTT(30) DEF Puts, Clean
  <2>2. arg[d].ino \in Inode /\ file'[arg[d].ino] = file[arg[d].ino]
    BY <1>10, Zenon
  <2>3. arg[d].key # k
    BY <1>2, <2>1, Zenon DEF PutsAlone
  <2>4. TmpOf[arg[d].key] # k
    <3>1. arg[d].key \notin overlapped'
      BY <2>1, Zenon DEF Clean
    <3> QED
      BY <1>1, <2>1, <3>1, Zenon DEF DisturbedByRename, Writing, Puts
  <2>5. dir'[TmpOf[arg[d].key]] = arg[d].ino
    <3>1. TmpOf[arg[d].key] \in Name \ {k, t}
      BY <1>2, <2>1, <2>3, <2>4, BlobAssumption, Zenon
    <3> QED
      BY <1>4, <2>1, <3>1, Zenon DEF PutsAlone
  <2>6. ASSUME NEW e \in Client \ {d}
        PROVE  ~Writing(e, arg[d].key)' /\ (Writes(e)' => arg'[e].ino # arg'[d].ino)
    <3>1. ~Writing(e, arg[d].key) /\ (Writes(e) => arg[e].ino # arg[d].ino)
      BY <2>1, Zenon DEF PutsAlone
    <3> QED
      BY <1>8, <2>1, <3>1, Zenon DEF Writing, Writes
  <2> QED
    BY <2>1, <2>2, <2>5, <2>6, SMTT(30) DEF PutsAlone
<1> QED
  BY <1>6, <1>7, <1>13, <1>14, <1>15, <1>17, <1>18, <1>19, <1>20, Zenon

-----------------------------------------------------------------------------
\* A get opens a whole file, and reads from it.
LEMMA GetOpenKeeps ==
  ASSUME BlobInv, NEW c \in Client, NEW k \in Key, GetOpen(c, k)
  PROVE  BlobInv'
<1> DEFINE locals == [NoArg EXCEPT !.key = k, !.ino = dir[k]]
<1> USE DEF BlobInv
<1>1. /\ pc[c] = "idle" /\ dir[k] # None
      /\ pc' = [pc EXCEPT ![c] = "read1"]
      /\ arg' = [arg EXCEPT ![c] = locals]
      /\ out' = NoReply
      /\ UNCHANGED <<dir, file, overlapped, object>>
  BY Zenon DEF GetOpen, Goto
<1>2. k \in Name /\ dir[k] \in Inode
  BY <1>1, BlobAssumption, Zenon DEF TypeOK
<1>3. locals \in Arg /\ locals.key = k /\ locals.ino = dir[k]
  BY <1>2, Zenon DEF NoArg, Arg
<1>4. /\ pc'[c] = "read1" /\ arg'[c].key = k /\ arg'[c].ino = dir[k]
      /\ \A d \in Client \ {c} : pc'[d] = pc[d] /\ arg'[d] = arg[d]
  <2>1. arg'[c] = locals
    BY <1>1, Zenon DEF TypeOK
  <2> QED
    BY <1>1, <1>3, <2>1, Zenon DEF TypeOK
<1>5. TypeOK'
  <2>1. NoReply \in Reply
    BY Zenon DEF NoReply, Reply, Whole, Chunks
  <2>2. arg' \in [Client -> Arg] /\ pc' \in [Client -> Steps]
    BY <1>1, <1>3, Zenon DEF TypeOK, Steps
  <2> QED
    BY <1>1, <2>1, <2>2, Zenon DEF TypeOK
<1>6. LocalsSet'
  BY <1>2, <1>4, Zenon DEF LocalsSet, Puts, Reads
<1>7. \A d \in Client : Puts(d)' => d # c /\ Puts(d)
  BY <1>4, Zenon DEF Puts
<1>8. OneName' /\ TmpIsOverlapped' /\ KnownIsClean' /\ ObjectsWhole' /\ CreatedIsKept'
  BY <1>1, <1>4, SMTT(30)
  DEF OneName, TmpIsOverlapped, KnownIsClean, ObjectsWhole, CreatedIsKept, Writing, Clean
<1>9. WritersApart'
  <2> SUFFICES ASSUME NEW d \in Client, Writes(d)'
               PROVE  /\ \A m \in Key : Clean(m)' => dir'[m] # arg'[d].ino
                      /\ \A e \in Client : Reads(e)' /\ Clean(arg[e].key)'
                                             => arg'[e].ino # arg'[d].ino
    BY Zenon DEF WritersApart
  <2>1. d # c /\ Writes(d) /\ arg'[d] = arg[d]
    BY <1>4, Zenon DEF Writes
  <2>2. \A m \in Key : Clean(m) => dir[m] # arg[d].ino
    BY <2>1, Zenon DEF WritersApart
  <2>3. ASSUME NEW e \in Client, Reads(e)', Clean(arg[e].key)'
        PROVE  arg'[e].ino # arg'[d].ino
    <3>1. CASE e = c
      BY <1>1, <1>4, <2>1, <2>2, <2>3, <3>1, SMTT(30) DEF Clean
    <3>2. CASE e # c
      BY <1>1, <1>4, <2>1, <2>3, <3>2 DEF WritersApart, Reads, Clean
    <3> QED
      BY <3>1, <3>2, Zenon
  <2> QED
    BY <1>1, <2>1, <2>2, <2>3, Zenon DEF Clean
<1>10. ReadersWhole'
  <2>1. Clean(k) => \E v \in Val : file[dir[k]] = Whole(v)
    BY <1>1, Zenon DEF ObjectsWhole
  <2>2. \A n \in Name : dir[n] = dir[k] => n = k
    BY <1>1, <1>2, Zenon DEF OneName
  <2>3. ASSUME NEW d \in Client, Reads(d)', Clean(arg[d].key)'
        PROVE  /\ \E v \in Val : /\ file'[arg'[d].ino] = Whole(v)
                                 /\ pc'[d] = "read2" => arg'[d].got = v
               /\ \A n \in Name : dir'[n] = arg'[d].ino => n = arg'[d].key
    <3>1. CASE d = c
      BY <1>1, <1>4, <2>1, <2>2, <2>3, <3>1 DEF Clean
    <3>2. CASE d # c
      <4>1. Reads(d) /\ Clean(arg[d].key) /\ pc'[d] = pc[d] /\ arg'[d] = arg[d]
        BY <1>1, <1>4, <2>3, <3>2 DEF Reads, Clean
      <4> QED
        BY <1>1, <4>1, ZenonT(60) DEF ReadersWhole
    <3> QED
      BY <3>1, <3>2, Zenon
  <2> QED
    BY <2>3, Zenon DEF ReadersWhole
<1>11. PutsAlone'
  BY <1>1, <1>4, <1>7 DEF PutsAlone, Puts, Writing, Writes, Clean
<1> QED
  BY <1>5, <1>6, <1>8, <1>9, <1>10, <1>11, Zenon

\* The first chunk of a read; the second ends the get.
LEMMA GetRead1Keeps ==
  ASSUME BlobInv, NEW c \in Client, pc[c] = "read1", GetRead(c)
  PROVE  BlobInv'
<1> DEFINE i == arg[c].ino
           locals == [arg[c] EXCEPT !.got = file[i][1]]
<1> USE DEF BlobInv
<1>1. /\ pc' = [pc EXCEPT ![c] = "read2"]
      /\ arg' = [arg EXCEPT ![c] = locals]
      /\ out' = NoReply
      /\ UNCHANGED <<dir, file, overlapped, object>>
  BY Zenon DEF GetRead, Goto
<1>2. Reads(c) /\ i \in Inode /\ arg[c].key \in Key
  BY Zenon DEF Reads, LocalsSet
<1>3. /\ locals \in Arg /\ locals.key = arg[c].key /\ locals.ino = i
      /\ locals.got = file[i][1]
  <2>1. file[i][1] \in Val \cup {Gap} /\ arg[c] \in Arg
    BY <1>2 DEF TypeOK, Chunks
  <2> QED
    BY <2>1, Zenon DEF Arg
<1>4. /\ pc'[c] = "read2" /\ arg'[c].key = arg[c].key /\ arg'[c].ino = i
      /\ arg'[c].got = file[i][1]
      /\ \A d \in Client \ {c} : pc'[d] = pc[d] /\ arg'[d] = arg[d]
  <2>1. arg'[c] = locals
    BY <1>1, Zenon DEF TypeOK
  <2> QED
    BY <1>1, <1>3, <2>1, Zenon DEF TypeOK
<1>5. TypeOK'
  <2>1. NoReply \in Reply
    BY Zenon DEF NoReply, Reply, Whole, Chunks
  <2>2. arg' \in [Client -> Arg] /\ pc' \in [Client -> Steps]
    BY <1>1, <1>3, Zenon DEF TypeOK, Steps
  <2> QED
    BY <1>1, <2>1, <2>2, Zenon DEF TypeOK
<1>6. LocalsSet'
  BY <1>2, <1>4, Zenon DEF LocalsSet, Puts, Reads
<1>7. OneName' /\ TmpIsOverlapped' /\ KnownIsClean' /\ ObjectsWhole' /\ CreatedIsKept'
  BY <1>1, <1>4, SMTT(30)
  DEF OneName, TmpIsOverlapped, KnownIsClean, ObjectsWhole, CreatedIsKept, Writing, Clean
<1>8. WritersApart'
  BY <1>1, <1>2, <1>4 DEF WritersApart, Writes, Reads, Clean
<1>9. ReadersWhole'
  <2>1. \A v \in Val : file[i] = Whole(v) => arg'[c].got = v
    BY <1>4 DEF Whole
  <2>2. ASSUME NEW d \in Client, Reads(d)', Clean(arg[d].key)'
        PROVE  /\ \E v \in Val : /\ file'[arg'[d].ino] = Whole(v)
                                 /\ pc'[d] = "read2" => arg'[d].got = v
               /\ \A n \in Name : dir'[n] = arg'[d].ino => n = arg'[d].key
    <3>1. Reads(d) /\ Clean(arg[d].key)
      BY <1>1, <1>2, <1>4, <2>2 DEF Reads, Clean
    <3>2. CASE d = c
      BY <1>1, <1>4, <2>1, <3>1, <3>2 DEF ReadersWhole
    <3>3. CASE d # c
      BY <1>1, <1>4, <3>1, <3>3 DEF ReadersWhole
    <3> QED
      BY <3>2, <3>3, Zenon
  <2> QED
    BY <2>2, Zenon DEF ReadersWhole
<1>10. PutsAlone'
  BY <1>1, <1>4, SMTT(30) DEF PutsAlone, Puts, Writing, Writes, Clean
<1> QED
  BY <1>5, <1>6, <1>7, <1>8, <1>9, <1>10, Zenon

\* The reply to a get of a clean key has the bytes of one put.
LEMMA GetRead2Answer ==
  ASSUME BlobInv, NEW c \in Client, pc[c] = "read2", GetRead(c)
  PROVE  /\ Answer(c, "bytes", <<arg[c].got, file[arg[c].ino][2]>>)
         /\ <<arg[c].got, file[arg[c].ino][2]>> \in Chunks
         /\ Clean(arg[c].key) =>
              \E v \in Val : <<arg[c].got, file[arg[c].ino][2]>> = Whole(v)
         /\ UNCHANGED <<dir, overlapped, object>>
<1>1. /\ Answer(c, "bytes", <<arg[c].got, file[arg[c].ino][2]>>)
      /\ UNCHANGED <<dir, overlapped, object>>
  BY Zenon DEF GetRead
<1>2. Reads(c) /\ arg[c].ino \in Inode
  BY Zenon DEF BlobInv, Reads, LocalsSet
<1>3. arg[c].got \in Val \cup {Gap} /\ file[arg[c].ino][2] \in Val \cup {Gap}
  BY <1>2 DEF BlobInv, TypeOK, Arg, Chunks
<1>4. <<arg[c].got, file[arg[c].ino][2]>> \in Chunks
  BY <1>3 DEF Chunks
<1>5. ASSUME Clean(arg[c].key)
      PROVE  \E v \in Val : <<arg[c].got, file[arg[c].ino][2]>> = Whole(v)
  <2>1. PICK v \in Val : file[arg[c].ino] = Whole(v) /\ arg[c].got = v
    BY <1>2, <1>5, Zenon DEF BlobInv, ReadersWhole
  <2>2. file[arg[c].ino][2] = v
    BY <2>1 DEF Whole
  <2>3. <<v, v>> = Whole(v)
    BY DEF Whole
  <2> QED
    BY <2>1, <2>2, <2>3, Zenon
<1> QED
  BY <1>1, <1>4, <1>5, Zenon

-----------------------------------------------------------------------------
\* It is inductive, action by action.
LEMMA BlobStep == BlobInv /\ [Next]_vars => BlobInv'
<1> SUFFICES ASSUME BlobInv, [Next]_vars PROVE BlobInv'
  BY Zenon
<1>1. Whole(Gap) \in Chunks
  BY Zenon DEF Whole, Chunks
<1>2. ASSUME NEW c \in Client, ClientStep(c) PROVE BlobInv'
  <2>1. CASE Reject(c) \/ PutRenameMissing(c) \/ IoError(c)
    BY <1>1, <2>1, AnswerKeeps, Zenon DEF Reject, PutRenameMissing, IoError
  <2>2. ASSUME NEW k \in Key, NEW v \in Val, NEW i \in Inode, PutOpen(c, k, v, i)
        PROVE  BlobInv'
    BY <2>2, PutOpenKeeps, Zenon
  <2>3. CASE PutWrite(c)
    BY <2>3, PutWriteKeeps, Zenon
  <2>4. CASE PutRename(c)
    BY <2>4, PutRenameKeeps, Zenon
  <2>5. ASSUME NEW k \in Key, GetNotFound(c, k) PROVE BlobInv'
    BY <1>1, <2>5, AnswerKeeps, Zenon DEF GetNotFound
  <2>6. ASSUME NEW k \in Key, GetOpen(c, k) PROVE BlobInv'
    BY <2>6, GetOpenKeeps, Zenon
  <2>7. CASE GetRead(c)
    <3>1. CASE pc[c] = "read1"
      BY <2>7, <3>1, GetRead1Keeps, Zenon
    <3>2. CASE pc[c] = "read2"
      BY <2>7, <3>2, GetRead2Answer, AnswerKeeps, Zenon
    <3> QED
      BY <2>7, <3>1, <3>2, Zenon DEF GetRead
  <2>8. CASE Drop(c)
    <3>1. /\ pc' = [pc EXCEPT ![c] = "idle"]
          /\ arg' = [arg EXCEPT ![c] = NoArg]
          /\ file' = Kept(dir, arg')
          /\ out' = NoReply
          /\ UNCHANGED <<dir, overlapped, object>>
      BY <2>8, Zenon DEF Drop, Finish
    <3>2. pc' \in [Client -> Steps] /\ arg' \in [Client -> Arg] /\ out' \in Reply
      BY <1>1, <3>1, NoArgType, Zenon DEF BlobInv, TypeOK, Steps, NoReply, Reply
    <3>3. \A d \in Client : \/ pc'[d] = pc[d] /\ arg'[d] = arg[d]
                            \/ pc'[d] = "idle" /\ arg'[d] = NoArg
      BY <3>1, Zenon DEF BlobInv, TypeOK
    <3> QED
      BY <3>1, <3>2, <3>3, EndKeeps, Zenon
  <2> QED
    BY <1>2, <2>1, <2>2, <2>3, <2>4, <2>5, <2>6, <2>7, <2>8, Zenon DEF ClientStep
<1>3. CASE Restart
  <2>1. pc' \in [Client -> Steps] /\ arg' \in [Client -> Arg] /\ out' \in Reply
    BY <1>1, <1>3, NoArgType, Zenon DEF Restart, Steps, NoReply, Reply
  <2> QED
    BY <1>3, <2>1, EndKeeps, Zenon DEF Restart
<1>4. CASE UNCHANGED vars
  BY <1>4, SMTT(30)
  DEF vars, BlobInv, TypeOK, LocalsSet, OneName, TmpIsOverlapped, WritersApart, ObjectsWhole,
      ReadersWhole, PutsAlone, KnownIsClean, CreatedIsKept, Puts, Reads, Writes, Writing, Clean
<1> QED
  BY <1>2, <1>3, <1>4, Zenon DEF Next

\* The invariant of BlobStore.
LEMMA BlobInvariant == Spec => []BlobInv
BY BlobInit, BlobStep, PTL DEF Spec

\* Every variable keeps values of its kind: no step of put or get computes with a
\* value it has not been given.
THEOREM BlobTypeCorrect == Spec => []TypeOK
<1>1. BlobInv => TypeOK
  BY Zenon DEF BlobInv
<1> QED
  BY <1>1, BlobInvariant, PTL

\* A created object stays, whole, until the next put of it, through any interleaving
\* of other requests, failures, dropped requests and restarts, unless puts overlapped
\* on it or its path is another put's temporary file.
THEOREM CreatedObjectsAreKept == Spec => []CreatedIsKept
<1>1. BlobInv => CreatedIsKept
  BY Zenon DEF BlobInv
<1> QED
  BY <1>1, BlobInvariant, PTL

\* Only the last step of a get answers with bytes.
LEMMA WholeStep ==
  BlobInv /\ GetIsWholeUnlessOverlapped /\ [Next]_vars => GetIsWholeUnlessOverlapped'
<1> SUFFICES ASSUME BlobInv, GetIsWholeUnlessOverlapped, [Next]_vars, out'.kind = "bytes"
             PROVE  out'.key \in overlapped' \/ \E v \in Val : out'.data = Whole(v)
  BY Zenon DEF GetIsWholeUnlessOverlapped
<1>1. CASE UNCHANGED vars
  BY <1>1, Zenon DEF vars, GetIsWholeUnlessOverlapped
<1>2. CASE \E c \in Client : GetRead(c) /\ pc[c] = "read2"
  <2>1. PICK c \in Client : GetRead(c) /\ pc[c] = "read2"
    BY <1>2, Zenon
  <2>2. /\ Answer(c, "bytes", <<arg[c].got, file[arg[c].ino][2]>>)
        /\ Clean(arg[c].key) =>
             \E v \in Val : <<arg[c].got, file[arg[c].ino][2]>> = Whole(v)
        /\ UNCHANGED overlapped
    BY <2>1, GetRead2Answer, Zenon
  <2>3. arg[c].key \in Key
    BY <2>1, Zenon DEF BlobInv, LocalsSet, Reads
  <2>4. out'.key = arg[c].key /\ out'.data = <<arg[c].got, file[arg[c].ino][2]>>
    BY <2>2, Zenon DEF Answer
  <2> QED
    BY <2>2, <2>3, <2>4, Zenon DEF Clean
<1>3. CASE Next /\ ~\E c \in Client : GetRead(c) /\ pc[c] = "read2"
  <2>1. \A c \in Client : \A kind, data : Answer(c, kind, data) => out'.kind = kind
    BY DEF Answer
  <2>2. NoReply.kind = "none"
    BY Zenon DEF NoReply
  <2>3. CASE Restart
    BY <2>2, <2>3, Zenon DEF Restart
  <2>4. ASSUME NEW c \in Client, ClientStep(c) PROVE FALSE
    <3>1. CASE Reject(c) \/ PutRenameMissing(c) \/ IoError(c) \/ \E k \in Key : GetNotFound(c, k)
      BY <2>1, <3>1, Zenon DEF Reject, PutRenameMissing, IoError, GetNotFound
    <3>2. CASE PutRename(c)
      BY <2>1, <3>2, Zenon DEF PutRename
    <3>3. CASE \/ PutWrite(c) \/ Drop(c) \/ \E k \in Key : GetOpen(c, k)
               \/ \E k \in Key, v \in Val, i \in Inode : PutOpen(c, k, v, i)
      BY <2>2, <3>3, Zenon DEF PutWrite, Drop, GetOpen, PutOpen, Goto
    <3>4. CASE GetRead(c)
      BY <1>3, <2>2, <3>4, Zenon DEF GetRead, Goto
    <3> QED
      BY <2>4, <3>1, <3>2, <3>3, <3>4, Zenon DEF ClientStep
  <2> QED
    BY <1>3, <2>3, <2>4, Zenon DEF Next
<1> QED
  BY <1>1, <1>2, <1>3, Zenon

\* A get answers with the bytes of one put, whole, or its key was overlapped: "a
\* concurrent reader never sees a half-written object" (fs_blob.rs:82-83) holds of
\* every key that is put by one request at a time and is no other's temporary file.
THEOREM GetsAreWhole == Spec => []GetIsWholeUnlessOverlapped
<1>1. Init => GetIsWholeUnlessOverlapped
  BY DEF Init, NoReply, GetIsWholeUnlessOverlapped
<1> QED
  BY <1>1, BlobInvariant, WholeStep, PTL DEF Spec
=============================================================================
