------------------------------- MODULE Buffer -------------------------------
(***************************************************************************)
(* The byte buffer of a connection, as pure operators: only one thread     *)
(* uses it at a time.  A buffer is its vector and the two indices, counted *)
(* like the code's from 0; the byte at index i is data[i + 1].             *)
(***************************************************************************)
EXTENDS Integers, Sequences

CONSTANTS Byte,   \* what a vector may hold
          Zero    \* what resize fills it with

ASSUME ZeroIsByte == Zero \in Byte

IsBuffer(b) == /\ b \in [data : Seq(Byte), readindex : Nat, writeindex : Nat]
               /\ b.readindex =< b.writeindex /\ b.writeindex =< Len(b.data)

newBuffer(initlen) ==
  [data |-> [i \in 1..initlen |-> Zero], readindex |-> 0, writeindex |-> 0]

initBuffer == [data |-> <<>>, readindex |-> 0, writeindex |-> 0]

writableSpace(b) == Len(b.data) - b.writeindex
prependableSpace(b) == b.readindex
datasize(b) == b.writeindex - b.readindex

(* The bytes between readPtr and writePtr. *)
content(b) == [i \in 1..datasize(b) |-> b.data[b.readindex + i]]

grow(b, len) ==
  [data |-> [i \in 1..b.writeindex + len |-> IF i =< Len(b.data) THEN b.data[i] ELSE Zero],
   readindex |-> b.readindex, writeindex |-> b.writeindex]

(* Mistake: the indices move, the bytes stay. *)
moveIndices(b) == [b EXCEPT !.readindex = 0, !.writeindex = datasize(b)]

moveToFront(b) ==
  [data |-> content(b) \o SubSeq(b.data, datasize(b) + 1, Len(b.data)),
   readindex |-> 0, writeindex |-> datasize(b)]

(* Mistake: counts the unread bytes as room. *)
makeSpaceTooSmall(b, len) ==
  IF Len(b.data) < len THEN grow(b, len) ELSE moveToFront(b)

makeSpace(b, len) ==
  IF writableSpace(b) + prependableSpace(b) < len THEN grow(b, len) ELSE moveToFront(b)

(* Bytes stored from writePtr on; the vector keeps its length.             *)
store(b, bytes) ==
  [data |-> SubSeq(SubSeq(b.data, 1, b.writeindex) \o bytes
                     \o SubSeq(b.data, b.writeindex + Len(bytes) + 1, Len(b.data)),
                   1, Len(b.data)),
   readindex |-> b.readindex, writeindex |-> b.writeindex + Len(bytes)]

roomFor(b, len) == IF writableSpace(b) < len THEN makeSpace(b, len) ELSE b

append(b, bytes) == store(roomFor(b, Len(bytes)), bytes)

(* Buffer::Read, when readv has delivered these bytes: into the vector as far as   *)
(* they fit, the rest by way of the second segment.                        *)
bufferRead(b, bytes) ==
  LET fits == writableSpace(b) IN
  IF Len(bytes) =< fits
  THEN store(b, bytes)
  ELSE append(store(b, SubSeq(bytes, 1, fits)), SubSeq(bytes, fits + 1, Len(bytes)))

(* updateReadptr, and Write when write has taken len bytes.                *)
updateReadptr(b, len) ==
  [data |-> b.data, readindex |-> b.readindex + len, writeindex |-> b.writeindex]
=============================================================================
