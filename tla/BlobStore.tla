------------------------------ MODULE BlobStore ------------------------------
(***************************************************************************)
(* The blob role on a filesystem: PUT writes a temporary file beside the   *)
(* object and renames it, GET reads the object.                            *)
(*                                                                         *)
(* tokio runs each file operation on a blocking thread, which goes on when *)
(* the request that asked for it is dropped.  A file is an inode with two  *)
(* chunks, so that a write can be seen half done; names refer to inodes,   *)
(* and a thread that has a file open keeps its inode through renames.      *)
(***************************************************************************)
EXTENDS Integers, FiniteSets

CONSTANTS
  Client,   \* request slots
  Key,      \* object keys that resolve to a path (bucket and key)
  Name,     \* file paths: the keys' and those of their temporary files
  TmpOf,    \* tmp_path: the temporary file of each key
  Val,      \* object contents
  Gap,      \* a chunk that is not written
  MaxInode, \* bound: inodes of the filesystem
  None      \* no key, value, file, reply

ASSUME BlobAssumption ==
  /\ Key \subseteq Name
  /\ TmpOf \in [Key -> Name]
  /\ \A k \in Key : TmpOf[k] # k
  /\ \A j, k \in Key : TmpOf[j] = TmpOf[k] => j = k
  /\ Gap \notin Val
  /\ MaxInode \in Nat
  /\ None \notin Val \cup Key \cup Nat

VARIABLES
  dir,        \* directory entries: the inode of each name
  file,       \* the two chunks of each inode
  pc,         \* where each slot's request stands
  arg,        \* its locals
  out,        \* the reply the last step gave, if it gave one
  overlapped, \* history: keys that two puts were writing at the same time, or
              \* whose path another key's put used for its temporary file
  object      \* history: the last value created of a key that is not overlapped,
              \* until the next put of the key

vars == <<dir, file, pc, arg, out, overlapped, object>>

-----------------------------------------------------------------------------
Inode == 1..MaxInode

Chunks == [1..2 -> Val \cup {Gap}]
Whole(v) == [i \in 1..2 |-> v]

NoArg == [key |-> None, val |-> None, ino |-> None, got |-> Gap]
Arg == [key : Key \cup {None}, val : Val \cup {None}, ino : Inode \cup {None},
        got : Val \cup {Gap}]

NoReply == [kind |-> "none", key |-> None, data |-> Whole(Gap)]
Reply == [kind : {"none", "created", "bytes", "not_found", "error"},
          key : Key \cup {None}, data : Chunks]

Steps == {"idle", "write1", "write2", "rename", "read1", "read2"}

Writing(c, k) ==
  pc[c] \in {"write1", "write2", "rename"} /\ arg[c].key = k

\* Opening k's temporary file disturbs the object that has that file's path as its
\* own ("k.tmp" is a key too).  k itself is disturbed if another put of it is under
\* way, or one that still writes the file that is opened.
DisturbedByOpen(k) ==
  {j \in Key : j = TmpOf[k]} \cup
  {j \in {k} : \E d \in Client :
     \/ Writing(d, k)
     \/ pc[d] \in {"write1", "write2"} /\ arg[d].ino = dir[TmpOf[k]]}

\* Renaming onto k disturbs a put under way whose temporary file k's path is.
DisturbedByRename(k) ==
  {j \in Key : TmpOf[j] = k /\ \E d \in Client : Writing(d, j)}

\* Nothing more is promised of a disturbed key; known has the values of the others.
Disturb(keys, known) ==
  /\ overlapped' = overlapped \cup keys
  /\ object' = [k \in Key |-> IF k \in overlapped' THEN None ELSE known[k]]

\* A name of the directory d, or a file open in the locals a, refers to the inode.
InUse(i, d, a) == (\E n \in Name : d[n] = i) \/ (\E c \in Client : a[c].ino = i)
Free(i) == ~InUse(i, dir, arg)

\* What is left of the files: an inode that nothing refers to is given back.
Kept(d, a) == [i \in Inode |-> IF InUse(i, d, a) THEN file[i] ELSE Whole(Gap)]

\* Which free inode a new file gets makes no difference: the least one.
NextFree(i) == Free(i) /\ \A j \in 1..(i - 1) : ~Free(j)

-----------------------------------------------------------------------------
Init ==
  /\ dir = [n \in Name |-> None]
  /\ file = [i \in Inode |-> Whole(Gap)]
  /\ pc = [c \in Client |-> "idle"]
  /\ arg = [c \in Client |-> NoArg]
  /\ out = NoReply
  /\ overlapped = {}
  /\ object = [k \in Key |-> None]

Goto(c, step, locals) ==
  /\ pc' = [pc EXCEPT ![c] = step]
  /\ arg' = [arg EXCEPT ![c] = locals]
  /\ out' = NoReply

\* The end of a request, whose step says what becomes of the directory.
Finish(c) ==
  /\ pc' = [pc EXCEPT ![c] = "idle"]
  /\ arg' = [arg EXCEPT ![c] = NoArg]
  /\ file' = Kept(dir', arg')

Answer(c, kind, data) ==
  /\ Finish(c)
  /\ out' = [kind |-> kind, key |-> arg[c].key, data |-> data]

\* No blob role, an empty or oversized body, an unsafe path component, or a
\* directory that cannot be made.
Reject(c) ==
  /\ pc[c] = "idle"
  /\ UNCHANGED <<dir, overlapped, object>>
  /\ Answer(c, "error", Whole(Gap))

-----------------------------------------------------------------------------
(***************************************************************************)
(* put                                                                     *)
(***************************************************************************)
\* Mutant of PutOpen: the object itself is opened and truncated.
PutOpen_InPlace(c, k, v, i) ==
  /\ pc[c] = "idle"
  /\ IF dir[k] = None THEN NextFree(i) ELSE i = dir[k]
  /\ dir' = [dir EXCEPT ![k] = i]
  /\ file' = [file EXCEPT ![i] = Whole(Gap)]
  /\ Goto(c, "write1", [NoArg EXCEPT !.key = k, !.val = v, !.ino = i])
  /\ Disturb(DisturbedByOpen(k), [object EXCEPT ![k] = None])

\* The path is safe and its directory there; fs::write creates the temporary file,
\* or opens and truncates it.
PutOpen(c, k, v, i) ==
  LET t == TmpOf[k]
  IN  /\ pc[c] = "idle"
      /\ IF dir[t] = None THEN NextFree(i) ELSE i = dir[t]
      /\ dir' = [dir EXCEPT ![t] = i]
      /\ file' = [file EXCEPT ![i] = Whole(Gap)]
      /\ Goto(c, "write1", [NoArg EXCEPT !.key = k, !.val = v, !.ino = i])
      /\ Disturb(DisturbedByOpen(k), [object EXCEPT ![k] = None])

PutWrite(c) ==
  /\ \/ /\ pc[c] = "write1"
        /\ file' = [file EXCEPT ![arg[c].ino][1] = arg[c].val]
        /\ Goto(c, "write2", arg[c])
     \/ /\ pc[c] = "write2"
        /\ file' = [file EXCEPT ![arg[c].ino][2] = arg[c].val]
        /\ Goto(c, "rename", arg[c])
  /\ UNCHANGED <<dir, overlapped, object>>

\* Mutant of PutRename: the file is renamed before its last chunk is written.
PutRename_Early(c) ==
  LET k == arg[c].key
      t == TmpOf[k]
  IN  /\ pc[c] \in {"write2", "rename"}
      /\ dir[t] # None
      /\ dir' = [dir EXCEPT ![k] = dir[t], ![t] = None]
      /\ Answer(c, "created", Whole(Gap))
      /\ Disturb(DisturbedByRename(k), [object EXCEPT ![k] = arg[c].val])

\* fs::rename moves whatever the temporary name refers to; it fails if that name
\* is gone.
PutRename(c) ==
  LET k == arg[c].key
      t == TmpOf[k]
  IN  /\ pc[c] = "rename"
      /\ dir[t] # None
      /\ dir' = [dir EXCEPT ![k] = dir[t], ![t] = None]
      /\ Answer(c, "created", Whole(Gap))
      /\ Disturb(DisturbedByRename(k), [object EXCEPT ![k] = arg[c].val])

PutRenameMissing(c) ==
  /\ pc[c] = "rename"
  /\ dir[TmpOf[arg[c].key]] = None
  /\ UNCHANGED <<dir, overlapped, object>>
  /\ Answer(c, "error", Whole(Gap))

-----------------------------------------------------------------------------
(***************************************************************************)
(* get                                                                     *)
(***************************************************************************)
GetNotFound(c, k) ==
  /\ pc[c] = "idle"
  /\ dir[k] = None
  /\ UNCHANGED <<dir, overlapped, object>>
  /\ Answer(c, "not_found", Whole(Gap))

GetOpen(c, k) ==
  /\ pc[c] = "idle"
  /\ dir[k] # None
  /\ Goto(c, "read1", [NoArg EXCEPT !.key = k, !.ino = dir[k]])
  /\ UNCHANGED <<dir, file, overlapped, object>>

\* Mutant of GetRead: the first chunk read is taken for the whole object.
GetRead_Short(c) ==
  /\ pc[c] = "read1"
  /\ UNCHANGED <<dir, overlapped, object>>
  /\ Answer(c, "bytes", <<file[arg[c].ino][1]>>)

GetRead(c) ==
  /\ \/ /\ pc[c] = "read1"
        /\ Goto(c, "read2", [arg[c] EXCEPT !.got = file[arg[c].ino][1]])
        /\ UNCHANGED <<dir, file>>
     \/ /\ pc[c] = "read2"
        /\ UNCHANGED dir
        /\ Answer(c, "bytes", <<arg[c].got, file[arg[c].ino][2]>>)
  /\ UNCHANGED <<overlapped, object>>

-----------------------------------------------------------------------------
\* A file operation fails: the request ends, and a put leaves its temporary file.
IoError(c) ==
  /\ pc[c] # "idle"
  /\ UNCHANGED <<dir, overlapped, object>>
  /\ Answer(c, "error", Whole(Gap))

\* The client goes away and the request is dropped.  The thread of its file
\* operation goes on to the end of that operation, which the steps above do for it;
\* the request asks for no further one.
Drop(c) ==
  /\ pc[c] \in {"rename", "read1", "read2"}
  /\ UNCHANGED <<dir, overlapped, object>>
  /\ Finish(c)
  /\ out' = NoReply

\* The process ends and is started again; the files stay as they are.
Restart ==
  /\ pc' = [c \in Client |-> "idle"]
  /\ arg' = [c \in Client |-> NoArg]
  /\ out' = NoReply
  /\ UNCHANGED <<dir, overlapped, object>>
  /\ file' = Kept(dir, arg')

ClientStep(c) ==
  \/ Reject(c)
  \/ \E k \in Key, v \in Val, i \in Inode : PutOpen(c, k, v, i)
  \/ PutWrite(c)
  \/ PutRename(c)
  \/ PutRenameMissing(c)
  \/ \E k \in Key : GetNotFound(c, k) \/ GetOpen(c, k)
  \/ GetRead(c)
  \/ IoError(c)
  \/ Drop(c)

Next == Restart \/ \E c \in Client : ClientStep(c)

Spec == Init /\ [][Next]_vars

-----------------------------------------------------------------------------
(***************************************************************************)
(* Properties                                                              *)
(***************************************************************************)

\* Every variable holds values of its kind.
TypeOK ==
  /\ dir \in [Name -> Inode \cup {None}]
  /\ file \in [Inode -> Chunks]
  /\ pc \in [Client -> Steps]
  /\ arg \in [Client -> Arg]
  /\ out \in Reply
  /\ overlapped \subseteq Key
  /\ object \in [Key -> Val \cup {None}]

\* A get returns one put's bytes whole, never a mixture and never a part, as long
\* as no two puts of the object (a dropped one counts until its thread is done)
\* were under way at once, and its path was no other put's temporary file.
GetIsWholeUnlessOverlapped ==
  out.kind = "bytes" =>
    out.key \in overlapped \/ \E v \in Val : out.data = Whole(v)

\* Under the same condition a created object is there, whole, until the next put
\* of it, through crashes and failures of other requests.
CreatedIsKept ==
  \A k \in Key : object[k] # None =>
    dir[k] # None /\ file[dir[k]] = Whole(object[k])

\* "a concurrent reader never sees a half-written object" (fs_blob.rs:82-83).
ReaderNeverSeesHalfWritten ==
  out.kind = "bytes" => \E v \in Val : out.data = Whole(v)
=============================================================================
