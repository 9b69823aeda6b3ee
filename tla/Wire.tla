--------------------------------- MODULE Wire ---------------------------------
(***************************************************************************)
(* The wire codec: LEB128 varints, and the version-1 frame of              *)
(* tag-length-value fields.  A byte carries GroupBits bits of a number and *)
(* the continuation bit (7 and 1 in the code, for numbers of 64 bits); the *)
(* instances keep the shape of the code's numbers, a last group with room  *)
(* for one bit.                                                            *)
(*                                                                         *)
(* A buffer is a sequence of bytes.  What may fail returns a set: of the   *)
(* one result, or empty.                                                   *)
(***************************************************************************)
EXTENDS Integers, Sequences

LOCAL INSTANCE FiniteSetsExt
LOCAL INSTANCE SequencesExt

CONSTANTS
  GroupBits,  \* bits of a number in a byte
  Width       \* bits of a number

ASSUME WireAssumption == GroupBits \in Nat \ {0} /\ Width \in Nat \ {0}

Group == 2 ^ GroupBits
Byte == 0 .. 2 * Group - 1
Number == 0 .. 2 ^ Width - 1

-----------------------------------------------------------------------------
(***************************************************************************)
(* codec.rs                                                                *)
(***************************************************************************)
MaxVarintLen == (Width + GroupBits - 1) \div GroupBits

\* write_varint: the groups from the lowest, all but the last with the continuation bit.
WriteVarint(value) ==
  LET n == Min({k \in 1..MaxVarintLen : value < Group ^ k})
  IN  [i \in 1..n |-> ((value \div Group ^ (i - 1)) % Group) + (IF i < n THEN Group ELSE 0)]

\* Mutant of FitsLast: the last group is taken whole.
FitsLast_Whole(payload) == TRUE

\* The last group only has room for the bits that the others leave.
FitsLast(payload) == payload < 2 ^ (Width - GroupBits * (MaxVarintLen - 1))

\* read_varint at position pos: the number and the position after it.
ReadVarint(buf, pos) ==
  LET from[i \in 1..(MaxVarintLen + 1)] ==
        IF i > MaxVarintLen \/ pos + i - 1 > Len(buf) THEN {}
        ELSE LET byte == buf[pos + i - 1]
             IN  IF i = MaxVarintLen /\ ~FitsLast(byte % Group) THEN {}
                 ELSE IF byte < Group THEN {[value |-> byte, next |-> pos + i]}
                 ELSE {[rest EXCEPT !.value = (Group * @) + (byte % Group)] : rest \in from[i + 1]}
  IN  from[1]

-----------------------------------------------------------------------------
(***************************************************************************)
(* v1.rs                                                                   *)
(***************************************************************************)
Magic == 2 * Group - 5
WireVersion == 1

\* Frame::encode
Encode(frame) ==
  <<Magic, WireVersion>> \o WriteVarint(frame.flags) \o
  FlattenSeq([i \in DOMAIN frame.fields |->
               LET field == frame.fields[i]
               IN  WriteVarint(field.tag) \o WriteVarint(Len(field.value)) \o field.value])

\* Mutant of Remaining: a field may not reach the end of the buffer.
Remaining_Short(buf, pos) == Len(buf) - pos

\* Reader::remaining
Remaining(buf, pos) == Len(buf) - pos + 1

\* One field at position pos, and the position after it.
ReadField(buf, pos) ==
  UNION {UNION {IF len.value > Remaining(buf, len.next) THEN {}
                ELSE {[tag |-> tag.value,
                       value |-> SubSeq(buf, len.next, len.next + len.value - 1),
                       next |-> len.next + len.value]} :
                len \in ReadVarint(buf, tag.next)} :
         tag \in ReadVarint(buf, pos)}

\* The fields from each position on, until the input is exhausted.
ReadFields(buf) ==
  LET from[pos \in 1..(Len(buf) + 1)] ==
        IF pos > Len(buf) THEN {<<>>}
        ELSE UNION {{<<[tag |-> f.tag, value |-> f.value]>> \o rest : rest \in from[f.next]} :
                    f \in ReadField(buf, pos)}
  IN  from

\* Frame::decode
Decode(buf) ==
  IF Len(buf) < 2 \/ SubSeq(buf, 1, 2) # <<Magic, WireVersion>> THEN {}
  ELSE UNION {{[flags |-> flags.value, fields |-> fields] :
                 fields \in ReadFields(buf)[flags.next]} : flags \in ReadVarint(buf, 3)}

\* Frame::get and require: the value of the first field with the tag.
Get(frame, tag) ==
  LET at == {i \in DOMAIN frame.fields : frame.fields[i].tag = tag}
  IN  IF at = {} THEN {} ELSE {frame.fields[Min(at)].value}

\* Frame::new and with_field, for the fields given as pairs of tag and value.
Frame(fields) ==
  [flags |-> 0, fields |-> [i \in DOMAIN fields |-> [tag |-> fields[i][1], value |-> fields[i][2]]]]
=============================================================================
