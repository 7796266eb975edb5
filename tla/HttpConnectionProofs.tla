------------------------ MODULE HttpConnectionProofs ------------------------
(***************************************************************************)
(* The operations of Buffer keep its indices in order and its content: for *)
(* vectors of every size and pieces of every length, also where the vector *)
(* is grown, moved to the front or filled by way of the second segment.    *)
(*                                                                         *)
(* From this it follows that no byte is lost, repeated or reordered between*)
(* the socket and the parser, nor between the answers and the socket: for  *)
(* requests of any kind and number, pieces and buffers of any size.        *)
(***************************************************************************)
EXTENDS HttpConnectionService, WellFoundedInduction, FiniteSetTheorems, TLAPS

(* Two sequences are equal if they have the same elements.                 *)
LEMMA SameElements ==
  ASSUME NEW S, NEW s \in Seq(S), NEW t \in Seq(S), Len(s) = Len(t),
         \A i \in 1..Len(s) : s[i] = t[i]
  PROVE  s = t
  OBVIOUS

LEMMA ConcatElements ==
  ASSUME NEW S, NEW s \in Seq(S), NEW t \in Seq(S)
  PROVE  /\ s \o t \in Seq(S)
         /\ Len(s \o t) = Len(s) + Len(t)
         /\ \A i \in 1..Len(s) : (s \o t)[i] = s[i]
         /\ \A i \in Len(s) + 1..Len(s) + Len(t) : (s \o t)[i] = t[i - Len(s)]
  OBVIOUS

LEMMA PieceElements ==
  ASSUME NEW S, NEW s \in Seq(S), NEW m \in Nat, NEW n \in Nat, m =< n, n =< Len(s)
  PROVE  /\ SubSeq(s, m + 1, n) \in Seq(S)
         /\ Len(SubSeq(s, m + 1, n)) = n - m
         /\ \A i \in 1..n - m : SubSeq(s, m + 1, n)[i] = s[m + i]
  OBVIOUS

(* The constructor and init leave no content.                              *)
LEMMA NewIsEmpty ==
  /\ \A n \in Nat : IsBuffer(newBuffer(n)) /\ content(newBuffer(n)) = <<>>
  /\ IsBuffer(initBuffer) /\ content(initBuffer) = <<>>
  BY ZeroIsByte DEF IsBuffer, newBuffer, initBuffer, content, datasize

(* What is between the two indices are bytes.                              *)
LEMMA ContentIsBytes ==
  ASSUME NEW b, IsBuffer(b)
  PROVE  /\ datasize(b) \in Nat
         /\ content(b) \in Seq(Byte) /\ Len(content(b)) = datasize(b)
<1>1. datasize(b) \in Nat
  BY DEF IsBuffer, datasize
<1>2. ASSUME NEW i \in 1..datasize(b)
      PROVE  b.data[b.readindex + i] \in Byte
  <2>1. b.readindex + i \in 1..Len(b.data)
    BY DEF IsBuffer, datasize
  <2> QED BY <2>1 DEF IsBuffer
<1> QED BY <1>1, <1>2 DEF content

(* The vector in which bytes are stored, byte by byte.                     *)
LEMMA StoreElements ==
  ASSUME NEW b, IsBuffer(b), NEW bytes \in Seq(Byte), Len(bytes) =< writableSpace(b)
  PROVE  store(b, bytes).data = [i \in 1..Len(b.data) |->
                                   IF i > b.writeindex /\ i =< b.writeindex + Len(bytes)
                                   THEN bytes[i - b.writeindex] ELSE b.data[i]]
<1> DEFINE w == b.writeindex
           l == Len(bytes)
           n == Len(b.data)
           front == SubSeq(b.data, 1, w)
           back == SubSeq(b.data, w + l + 1, n)
           c == front \o bytes \o back
           d == [i \in 1..n |-> IF i > w /\ i =< w + l THEN bytes[i - w] ELSE b.data[i]]
<1>1. /\ w \in Nat /\ l \in Nat /\ n \in Nat /\ w + l =< n /\ b.data \in Seq(Byte)
      /\ w + l \in Nat
  BY DEF IsBuffer, writableSpace
<1>2. store(b, bytes).data = SubSeq(c, 1, n)
  BY DEF store
<1> HIDE DEF w, l
<1>3. front \in Seq(Byte) /\ Len(front) = w /\ \A i \in 1..w : front[i] = b.data[i]
  <2>1. 0 \in Nat /\ 0 =< w /\ w =< Len(b.data)
    BY <1>1
  <2>2. /\ SubSeq(b.data, 0 + 1, w) \in Seq(Byte) /\ Len(SubSeq(b.data, 0 + 1, w)) = w - 0
        /\ \A i \in 1..w - 0 : SubSeq(b.data, 0 + 1, w)[i] = b.data[0 + i]
    BY <1>1, <2>1, PieceElements
  <2>3. 0 + 1 = 1 /\ w - 0 = w /\ \A i \in 1..w : 0 + i = i
    BY <1>1
  <2> QED BY <2>2, <2>3
<1>4. back \in Seq(Byte) /\ Len(back) = n - (w + l)
      /\ \A i \in 1..n - (w + l) : back[i] = b.data[(w + l) + i]
  BY <1>1, PieceElements
<1> HIDE DEF front, back, n
<1>5. /\ front \o bytes \in Seq(Byte) /\ Len(front \o bytes) = w + l
      /\ \A i \in 1..w : (front \o bytes)[i] = front[i]
      /\ \A i \in w + 1..w + l : (front \o bytes)[i] = bytes[i - w]
  BY <1>1, <1>3, ConcatElements DEF l
<1>6. /\ c \in Seq(Byte) /\ Len(c) = n
      /\ \A i \in 1..w + l : c[i] = (front \o bytes)[i]
      /\ \A i \in w + l + 1..n : c[i] = back[i - (w + l)]
  <2>1. /\ c \in Seq(Byte) /\ Len(c) = Len(front \o bytes) + Len(back)
        /\ \A i \in 1..Len(front \o bytes) : c[i] = (front \o bytes)[i]
        /\ \A i \in Len(front \o bytes) + 1..Len(front \o bytes) + Len(back) :
              c[i] = back[i - Len(front \o bytes)]
    <3> DEFINE both == front \o bytes
    <3>1. both \in Seq(Byte) /\ back \in Seq(Byte)
      BY <1>4, <1>5
    <3> HIDE DEF both
    <3>2. /\ both \o back \in Seq(Byte) /\ Len(both \o back) = Len(both) + Len(back)
          /\ \A i \in 1..Len(both) : (both \o back)[i] = both[i]
          /\ \A i \in Len(both) + 1..Len(both) + Len(back) :
                (both \o back)[i] = back[i - Len(both)]
      BY <3>1, ConcatElements
    <3> QED BY <3>2 DEF both
  <2>2. (w + l) + (n - (w + l)) = n
    BY <1>1
  <2> QED BY <2>1, <2>2, <1>4, <1>5
<1>7. d \in Seq(Byte) /\ Len(d) = n
  <2>1. ASSUME NEW i \in 1..n
        PROVE  (IF i > w /\ i =< w + l THEN bytes[i - w] ELSE b.data[i]) \in Byte
    BY <1>1 DEF n, l
  <2> QED BY <1>1, <2>1
<1>8. ASSUME NEW i \in 1..n PROVE c[i] = d[i]
  <2>1. CASE i =< w
    <3>1. i \in 1..w /\ i \in 1..w + l
      BY <2>1, <1>1
    <3>2. c[i] = b.data[i]
      BY <3>1, <1>3, <1>5, <1>6
    <3> QED BY <2>1, <3>2, <1>1
  <2>2. CASE i > w /\ i =< w + l
    <3>1. i \in w + 1..w + l /\ i \in 1..w + l
      BY <2>2, <1>1
    <3>2. c[i] = bytes[i - w]
      BY <3>1, <1>5, <1>6
    <3> QED BY <2>2, <3>2
  <2>3. CASE i > w + l
    <3>1. i \in w + l + 1..n /\ i - (w + l) \in 1..n - (w + l) /\ (w + l) + (i - (w + l)) = i
      BY <2>3, <1>1
    <3>2. c[i] = b.data[i]
      BY <3>1, <1>4, <1>6
    <3> QED BY <2>3, <3>2, <1>1
  <2>4. i =< w \/ (i > w /\ i =< w + l) \/ i > w + l
    BY <1>1
  <2> HIDE DEF c, d
  <2> QED BY <2>1, <2>2, <2>3, <2>4
<1>9. c = d
  <2> HIDE DEF c, d
  <2> QED BY <1>6, <1>7, <1>8, SameElements
<1>10. SubSeq(c, 1, n) = c
  <2>1. 0 + 1 = 1 /\ n - 0 = n /\ 0 \in Nat /\ 0 =< n /\ \A i \in 1..n : 0 + i = i
    BY <1>1
  <2> HIDE DEF c, d
  <2>2. /\ SubSeq(c, 0 + 1, n) \in Seq(Byte) /\ Len(SubSeq(c, 0 + 1, n)) = n - 0
        /\ \A i \in 1..n - 0 : SubSeq(c, 0 + 1, n)[i] = c[0 + i]
    BY <1>1, <1>6, <2>1, PieceElements
  <2>3. /\ SubSeq(c, 1, n) \in Seq(Byte) /\ Len(SubSeq(c, 1, n)) = n
        /\ \A i \in 1..n : SubSeq(c, 1, n)[i] = c[i]
    BY <2>1, <2>2
  <2> QED BY <1>6, <2>3, SameElements
<1> QED BY <1>2, <1>9, <1>10 DEF w, l, n

(* Bytes that fit are put behind the content.                              *)
LEMMA StoreAppends ==
  ASSUME NEW b, IsBuffer(b), NEW bytes \in Seq(Byte), Len(bytes) =< writableSpace(b)
  PROVE  /\ IsBuffer(store(b, bytes))
         /\ content(store(b, bytes)) = content(b) \o bytes
<1> SUFFICES ASSUME NEW c, c = store(b, bytes)
             PROVE  IsBuffer(c) /\ content(c) = content(b) \o bytes
  OBVIOUS
<1>1. /\ Len(bytes) \in Nat /\ Len(b.data) \in Nat
      /\ b.readindex \in Nat /\ b.writeindex \in Nat
      /\ b.readindex =< b.writeindex /\ b.writeindex + Len(bytes) =< Len(b.data)
  BY DEF IsBuffer, writableSpace
<1>2. /\ c.readindex = b.readindex
      /\ c.writeindex = b.writeindex + Len(bytes)
      /\ c.data = [i \in 1..Len(b.data) |->
                     IF i > b.writeindex /\ i =< b.writeindex + Len(bytes)
                     THEN bytes[i - b.writeindex] ELSE b.data[i]]
  BY StoreElements DEF store
<1>3. c.data \in Seq(Byte) /\ Len(c.data) = Len(b.data)
  <2>1. ASSUME NEW i \in 1..Len(b.data)
        PROVE  (IF i > b.writeindex /\ i =< b.writeindex + Len(bytes)
                THEN bytes[i - b.writeindex] ELSE b.data[i]) \in Byte
    BY <1>1 DEF IsBuffer
  <2> QED BY <1>1, <1>2, <2>1
<1>4. IsBuffer(c)
  <2>1. c = [data |-> c.data, readindex |-> c.readindex, writeindex |-> c.writeindex]
    BY DEF store
  <2>2. /\ c.readindex \in Nat /\ c.writeindex \in Nat
        /\ c.readindex =< c.writeindex /\ c.writeindex =< Len(c.data)
    BY <1>1, <1>2, <1>3
  <2> QED BY <1>3, <2>1, <2>2 DEF IsBuffer
<1>5. content(c) = content(b) \o bytes
  <2>1. content(b) \in Seq(Byte) /\ Len(content(b)) = b.writeindex - b.readindex
    BY ContentIsBytes DEF datasize
  <2>2. content(c) \in Seq(Byte) /\ Len(content(c)) = b.writeindex + Len(bytes) - b.readindex
    <3>1. content(c) \in Seq(Byte) /\ Len(content(c)) = datasize(c)
      BY <1>4, ContentIsBytes
    <3>2. datasize(c) = b.writeindex + Len(bytes) - b.readindex
      <4>1. c.readindex = b.readindex /\ c.writeindex = b.writeindex + Len(bytes)
        BY <1>2
      <4> QED BY <1>1, <4>1 DEF datasize
    <3> QED BY <3>1, <3>2
  <2>3. content(b) \o bytes \in Seq(Byte) /\ Len(content(b) \o bytes) = Len(content(c))
    <3>1. Len(content(b) \o bytes) = Len(content(b)) + Len(bytes)
      BY <2>1
    <3>2. content(b) \o bytes \in Seq(Byte)
      BY <2>1
    <3>3. Len(content(b)) + Len(bytes) = b.writeindex + Len(bytes) - b.readindex
      BY <1>1, <2>1
    <3> QED BY <3>1, <3>2, <3>3, <2>2
  <2>4. ASSUME NEW i \in 1..Len(content(c))
        PROVE  content(c)[i] = (content(b) \o bytes)[i]
    <3>1. content(c)[i] = c.data[b.readindex + i]
      <4>1. i \in 1..datasize(c)
        BY <1>1, <1>2, <2>2 DEF datasize
      <4> QED BY <4>1, <1>2 DEF content
    <3>2. b.readindex + i \in 1..Len(b.data)
      BY <1>1, <2>2
    <3>3. CASE b.readindex + i > b.writeindex
      <4>1. c.data[b.readindex + i] = bytes[b.readindex + i - b.writeindex]
        BY <3>2, <3>3, <1>1, <1>2, <2>2, SMTT(30)
      <4>2. (content(b) \o bytes)[i] = bytes[i - Len(content(b))]
        <5>1. i \in Len(content(b)) + 1..Len(content(b)) + Len(bytes)
          BY <3>3, <1>1, <2>1, <2>2
        <5> QED BY <5>1, <2>1, ConcatElements
      <4>3. b.readindex + i - b.writeindex = i - Len(content(b))
        BY <1>1, <2>1, <2>2
      <4> QED BY <3>1, <4>1, <4>2, <4>3
    <3>4. CASE b.readindex + i =< b.writeindex
      <4>1. i \in 1..datasize(b)
        BY <3>4, <2>2, <1>1 DEF datasize
      <4>2. content(b)[i] = b.data[b.readindex + i]
        BY <4>1 DEF content
      <4>3. (content(b) \o bytes)[i] = content(b)[i]
        <5>1. i \in 1..Len(content(b))
          BY <4>1, <2>1 DEF datasize
        <5> QED BY <5>1, <2>1, ConcatElements
      <4>4. c.data[b.readindex + i] = b.data[b.readindex + i]
        BY <3>2, <3>4, <1>1, <1>2
      <4> QED BY <3>1, <4>2, <4>3, <4>4
    <3>5. b.readindex + i \in Nat
      BY <3>2, <1>1
    <3>6. b.readindex + i > b.writeindex \/ b.readindex + i =< b.writeindex
      BY <3>5, <1>1
    <3> QED BY <3>3, <3>4, <3>6
  <2> QED BY <2>2, <2>3, <2>4, SameElements
<1> QED BY <1>4, <1>5

(* makeSpace keeps the content and leaves the room that append asserts.    *)
LEMMA RoomIsMade ==
  ASSUME NEW b, IsBuffer(b), NEW len \in Nat
  PROVE  /\ IsBuffer(roomFor(b, len))
         /\ content(roomFor(b, len)) = content(b)
         /\ writableSpace(roomFor(b, len)) >= len
<1>0. Len(b.data) \in Nat
  BY DEF IsBuffer
<1>1. CASE writableSpace(b) >= len
  BY <1>1, <1>0 DEF roomFor, writableSpace, IsBuffer
<1>2. CASE writableSpace(b) < len /\ writableSpace(b) + prependableSpace(b) < len
  <2>1. roomFor(b, len) = grow(b, len)
    BY <1>2 DEF roomFor, makeSpace
  <2>2. grow(b, len) = [data |-> [i \in 1..b.writeindex + len |->
                                    IF i =< Len(b.data) THEN b.data[i] ELSE Zero],
                        readindex |-> b.readindex, writeindex |-> b.writeindex]
    BY DEF grow, IsBuffer
  <2>3. b.writeindex + len \in Nat
    BY DEF IsBuffer
  <2>4. grow(b, len).data \in Seq(Byte) /\ Len(grow(b, len).data) = b.writeindex + len
    <3>1. ASSUME NEW i \in 1..b.writeindex + len
          PROVE  (IF i =< Len(b.data) THEN b.data[i] ELSE Zero) \in Byte
      BY <2>3, <1>0, ZeroIsByte DEF IsBuffer
    <3> QED BY <2>2, <2>3, <3>1
  <2>5. IsBuffer(grow(b, len)) /\ writableSpace(grow(b, len)) >= len
    BY <2>2, <2>3, <2>4 DEF IsBuffer, writableSpace
  <2>6. content(grow(b, len)) = content(b)
    BY <2>2, <2>3, <1>0 DEF content, datasize, IsBuffer
  <2> QED BY <2>1, <2>5, <2>6
<1>3. CASE writableSpace(b) < len /\ ~(writableSpace(b) + prependableSpace(b) < len)
  <2>1. roomFor(b, len) = moveToFront(b)
    BY <1>3 DEF roomFor, makeSpace
  <2> DEFINE k == datasize(b)
             n == Len(b.data)
             rest == SubSeq(b.data, k + 1, n)
             d == content(b) \o rest
  <2>2. moveToFront(b) = [data |-> d, readindex |-> 0, writeindex |-> k]
    BY DEF moveToFront
  <2>3. /\ k \in Nat /\ k =< n /\ n \in Nat /\ b.data \in Seq(Byte)
        /\ content(b) \in Seq(Byte) /\ Len(content(b)) = k
        /\ n - k = writableSpace(b) + prependableSpace(b)
    <3>1. /\ k \in Nat /\ content(b) \in Seq(Byte) /\ Len(content(b)) = k
      BY ContentIsBytes
    <3>2. /\ k =< n /\ n \in Nat /\ b.data \in Seq(Byte)
          /\ n - k = writableSpace(b) + prependableSpace(b)
      BY <1>0 DEF IsBuffer, datasize, writableSpace, prependableSpace
    <3> QED BY <3>1, <3>2
  <2>4. rest \in Seq(Byte) /\ Len(rest) = n - k
    <3> HIDE DEF k
    <3> QED BY <2>3, PieceElements
  <2> HIDE DEF rest, k, n
  <2>5. /\ d \in Seq(Byte) /\ Len(d) = n
        /\ \A i \in 1..k : d[i] = content(b)[i]
    <3> DEFINE c == content(b)
    <3>1. c \in Seq(Byte) /\ Len(c) = k /\ rest \in Seq(Byte) /\ Len(rest) = n - k
      BY <2>3, <2>4
    <3> HIDE DEF c
    <3>2. /\ c \o rest \in Seq(Byte) /\ Len(c \o rest) = Len(c) + Len(rest)
          /\ \A i \in 1..Len(c) : (c \o rest)[i] = c[i]
      BY <3>1, ConcatElements
    <3>3. k + (n - k) = n
      BY <2>3
    <3> QED BY <3>1, <3>2, <3>3 DEF c
  <2> HIDE DEF d
  <2>6. IsBuffer(moveToFront(b)) /\ writableSpace(moveToFront(b)) >= len
    BY <1>3, <2>2, <2>3, <2>5 DEF IsBuffer, writableSpace
  <2>7. content(moveToFront(b)) = content(b)
    <3>1. content(moveToFront(b)) \in Seq(Byte) /\ Len(content(moveToFront(b))) = k
      BY <2>2, <2>3, <2>6, ContentIsBytes DEF datasize
    <3>2. ASSUME NEW i \in 1..k PROVE content(moveToFront(b))[i] = content(b)[i]
      <4>1. content(moveToFront(b))[i] = d[i]
        BY <2>2, <2>3 DEF content, datasize
      <4> QED BY <4>1, <2>5
    <3> QED BY <2>3, <3>1, <3>2, SameElements
  <2> QED BY <2>1, <2>6, <2>7
<1> QED BY <1>1, <1>2, <1>3, <1>0 DEF writableSpace, IsBuffer

(* Buffer::append                                                          *)
THEOREM AppendAppends ==
  ASSUME NEW b, IsBuffer(b), NEW bytes \in Seq(Byte)
  PROVE  IsBuffer(append(b, bytes)) /\ content(append(b, bytes)) = content(b) \o bytes
<1>1. Len(bytes) \in Nat
  OBVIOUS
<1>2. Len(bytes) =< writableSpace(roomFor(b, Len(bytes)))
  BY <1>1, RoomIsMade DEF writableSpace, IsBuffer
<1> QED BY <1>1, <1>2, RoomIsMade, StoreAppends DEF append

(* Buffer::Read                                                            *)
THEOREM ReadAppends ==
  ASSUME NEW b, IsBuffer(b), NEW bytes \in Seq(Byte)
  PROVE  IsBuffer(bufferRead(b, bytes)) /\ content(bufferRead(b, bytes)) = content(b) \o bytes
<1> DEFINE fits == writableSpace(b)
           first == SubSeq(bytes, 1, fits)
           rest == SubSeq(bytes, fits + 1, Len(bytes))
<1>1. fits \in Nat /\ Len(bytes) \in Nat
  BY DEF writableSpace, IsBuffer
<1>2. CASE Len(bytes) =< fits
  BY <1>2, StoreAppends DEF bufferRead
<1>3. CASE ~(Len(bytes) =< fits)
  <2>1. first \in Seq(Byte) /\ Len(first) = fits /\ rest \in Seq(Byte)
    BY <1>1, <1>3
  <2>2. IsBuffer(store(b, first)) /\ content(store(b, first)) = content(b) \o first
    <3>1. Len(first) =< writableSpace(b)
      BY <1>1, <2>1
    <3> HIDE DEF first
    <3> QED BY <2>1, <3>1, StoreAppends
  <2>3. IsBuffer(bufferRead(b, bytes))
        /\ content(bufferRead(b, bytes)) = (content(b) \o first) \o rest
    BY <1>3, <2>1, <2>2, AppendAppends DEF bufferRead
  <2>4. first \o rest = bytes
    <3>1. first \o rest \in Seq(Byte) /\ Len(first \o rest) = Len(bytes)
      BY <1>1, <1>3, <2>1
    <3>2. ASSUME NEW i \in 1..Len(bytes) PROVE (first \o rest)[i] = bytes[i]
      BY <1>1, <1>3, <2>1, SMTT(30)
    <3> HIDE DEF first, rest
    <3> QED BY <3>1, <3>2, SameElements
  <2>5. (content(b) \o first) \o rest = content(b) \o (first \o rest)
    <3> HIDE DEF first, rest
    <3>1. content(b) \in Seq(Byte)
      BY ContentIsBytes
    <3> QED BY <2>1, <3>1
  <2> QED BY <2>3, <2>4, <2>5
<1> QED BY <1>2, <1>3

(* updateReadptr: the content without its first bytes.                     *)
THEOREM ConsumeDrops ==
  ASSUME NEW b, IsBuffer(b), NEW n \in 0..datasize(b)
  PROVE  /\ IsBuffer(updateReadptr(b, n))
         /\ content(updateReadptr(b, n)) = SubSeq(content(b), n + 1, Len(content(b)))
<1> DEFINE s == SubSeq(content(b), n + 1, Len(content(b)))
<1> SUFFICES ASSUME NEW c, c = updateReadptr(b, n)
             PROVE  IsBuffer(c) /\ content(c) = s
  OBVIOUS
<1>1. c = [data |-> b.data, readindex |-> b.readindex + n, writeindex |-> b.writeindex]
  BY DEF updateReadptr, IsBuffer
<1>2. n \in Nat /\ Len(b.data) \in Nat /\ datasize(b) \in Nat
  BY ContentIsBytes DEF IsBuffer
<1>3. IsBuffer(c)
  BY <1>1, <1>2 DEF IsBuffer, datasize
<1>4. content(c) = s
  <2>1. content(b) \in Seq(Byte) /\ Len(content(b)) = datasize(b)
    BY ContentIsBytes
  <2>2. content(c) \in Seq(Byte) /\ Len(content(c)) = datasize(b) - n
    <3>1. content(c) \in Seq(Byte) /\ Len(content(c)) = datasize(c)
      BY <1>3, ContentIsBytes
    <3> QED BY <3>1, <1>1, <1>2 DEF datasize, IsBuffer
  <2>3. s \in Seq(Byte) /\ Len(s) = datasize(b) - n
    BY <1>2, <2>1
  <2>4. ASSUME NEW i \in 1..Len(content(c)) PROVE content(c)[i] = s[i]
    <3>1. content(c)[i] = b.data[b.readindex + n + i]
      BY <1>1, <1>2, <2>2 DEF content, datasize, IsBuffer
    <3>2. s[i] = content(b)[n + i]
      BY <1>2, <2>1, <2>2
    <3>3. n + i \in 1..datasize(b)
      BY <1>2, <2>2
    <3>4. content(b)[n + i] = b.data[b.readindex + (n + i)]
      BY <3>3 DEF content
    <3>5. b.readindex + n + i = b.readindex + (n + i)
      BY <1>2, <2>2 DEF IsBuffer
    <3> HIDE DEF s
    <3> QED BY <3>1, <3>2, <3>4, <3>5
  <2>5. Len(content(c)) = Len(s)
    BY <2>2, <2>3
  <2> HIDE DEF s
  <2> QED BY <2>2, <2>3, <2>4, <2>5, SameElements
<1> QED BY <1>3, <1>4

-----------------------------------------------------------------------------
(* Facts about pieces of sequences.                                        *)
LEMMA PieceOfLonger ==
  ASSUME NEW S, NEW s \in Seq(S), NEW t \in Seq(S), NEW m \in Nat, NEW n \in Nat,
         n =< Len(s)
  PROVE  SubSeq(s \o t, m + 1, n) = SubSeq(s, m + 1, n)
<1> DEFINE a == SubSeq(s \o t, m + 1, n)
           b == SubSeq(s, m + 1, n)
<1>1. a \in Seq(S) /\ b \in Seq(S) /\ Len(a) = Len(b)
  OBVIOUS
<1>2. ASSUME NEW i \in 1..Len(a) PROVE a[i] = b[i]
  OBVIOUS
<1> HIDE DEF a, b
<1> QED BY <1>1, <1>2, SameElements

LEMMA PiecesJoin ==
  ASSUME NEW S, NEW s \in Seq(S), NEW m \in Nat, NEW n \in Nat, NEW k \in Nat,
         m =< n, n =< k, k =< Len(s)
  PROVE  SubSeq(s, m + 1, n) \o SubSeq(s, n + 1, k) = SubSeq(s, m + 1, k)
<1> SUFFICES ASSUME NEW a, a = SubSeq(s, m + 1, n),
                    NEW b, b = SubSeq(s, n + 1, k),
                    NEW c, c = SubSeq(s, m + 1, k)
             PROVE  a \o b = c
  OBVIOUS
<1>1. /\ a \in Seq(S) /\ Len(a) = n - m
      /\ \A i \in 1..n - m : a[i] = s[m + i]
  BY PieceElements
<1>2. /\ b \in Seq(S) /\ Len(b) = k - n
      /\ \A i \in 1..k - n : b[i] = s[n + i]
  BY PieceElements
<1>3. /\ c \in Seq(S) /\ Len(c) = k - m
      /\ \A i \in 1..k - m : c[i] = s[m + i]
  <2>1. m =< k
    OBVIOUS
  <2> QED BY <2>1, PieceElements
<1>4. /\ a \o b \in Seq(S)
      /\ Len(a \o b) = Len(a) + Len(b)
      /\ \A i \in 1..Len(a) : (a \o b)[i] = a[i]
      /\ \A i \in Len(a) + 1..Len(a) + Len(b) : (a \o b)[i] = b[i - Len(a)]
  BY <1>1, <1>2, ConcatElements, SMTT(30)
<1>5. Len(a \o b) = Len(c)
  BY <1>1, <1>2, <1>3, <1>4
<1>6. ASSUME NEW i \in 1..Len(c) PROVE (a \o b)[i] = c[i]
  <2>1. i \in Nat /\ c[i] = s[m + i]
    <3>1. i \in 1..k - m
      BY <1>3
    <3> QED BY <1>3, <3>1
  <2>2. CASE i =< n - m
    BY <1>1, <1>4, <2>1, <2>2
  <2>3. CASE i > n - m
    <3>1. i - (n - m) \in 1..k - n /\ i \in Len(a) + 1..Len(a) + Len(b)
      BY <1>1, <1>2, <1>3, <2>1, <2>3
    <3>2. (a \o b)[i] = s[n + (i - (n - m))]
      BY <3>1, <1>1, <1>2, <1>4, SMTT(30)
    <3>3. n + (i - (n - m)) = m + i
      BY <2>1
    <3> QED BY <2>1, <3>2, <3>3
  <2>4. i =< n - m \/ i > n - m
    BY <2>1
  <2> QED BY <2>2, <2>3, <2>4
<1> QED BY <1>3, <1>4, <1>5, <1>6, SameElements

LEMMA PieceOfPiece ==
  ASSUME NEW S, NEW s \in Seq(S), NEW m \in Nat, NEW k \in Nat, NEW n \in Nat,
         m + n =< k, k =< Len(s)
  PROVE  SubSeq(SubSeq(s, m + 1, k), n + 1, k - m) = SubSeq(s, m + n + 1, k)
<1> SUFFICES ASSUME NEW a, a = SubSeq(s, m + 1, k),
                    NEW b, b = SubSeq(a, n + 1, k - m),
                    NEW c, c = SubSeq(s, m + n + 1, k)
             PROVE  b = c
  OBVIOUS
<1>1. m =< k /\ n =< k - m /\ k - m \in Nat /\ m + n \in Nat
  OBVIOUS
<1>2. /\ a \in Seq(S) /\ Len(a) = k - m
      /\ \A i \in 1..k - m : a[i] = s[m + i]
  BY <1>1, PieceElements, ZenonT(30)
<1>3. /\ b \in Seq(S) /\ Len(b) = k - m - n
      /\ \A i \in 1..k - m - n : b[i] = a[n + i]
  BY <1>1, <1>2, PieceElements
<1>4. /\ c \in Seq(S) /\ Len(c) = k - (m + n)
      /\ \A i \in 1..k - (m + n) : c[i] = s[m + n + i]
  BY <1>1, PieceElements
<1>5. ASSUME NEW i \in 1..Len(b) PROVE b[i] = c[i]
  <2>1. i \in Nat /\ i \in 1..k - m - n /\ i \in 1..k - (m + n) /\ n + i \in 1..k - m
    BY <1>3
  <2>2. b[i] = s[m + (n + i)]
    BY <2>1, <1>2, <1>3
  <2>3. m + (n + i) = m + n + i
    BY <2>1
  <2> QED BY <2>1, <2>2, <2>3, <1>4
<1>6. Len(b) = Len(c)
  BY <1>3, <1>4
<1> QED BY <1>3, <1>4, <1>5, <1>6, SameElements

LEMMA FrontOfConcat ==
  ASSUME NEW S, NEW s \in Seq(S), NEW t \in Seq(S)
  PROVE  s = SubSeq(s \o t, 1, Len(s))
<1> DEFINE a == SubSeq(s \o t, 1, Len(s))
<1>1. a \in Seq(S) /\ Len(a) = Len(s)
  OBVIOUS
<1>2. ASSUME NEW i \in 1..Len(s) PROVE s[i] = a[i]
  OBVIOUS
<1> HIDE DEF a
<1> QED BY <1>1, <1>2, SameElements

LEMMA ConcatIsAssociative ==
  ASSUME NEW S, NEW s \in Seq(S), NEW t \in Seq(S), NEW u \in Seq(S)
  PROVE  (s \o t) \o u = s \o (t \o u)
  OBVIOUS

LEMMA SplitAndJoin ==
  ASSUME NEW S, NEW s \in Seq(S), NEW n \in 0..Len(s)
  PROVE  SubSeq(s, 1, n) \o SubSeq(s, n + 1, Len(s)) = s
<1>1. SubSeq(s, 0 + 1, n) \o SubSeq(s, n + 1, Len(s)) = SubSeq(s, 0 + 1, Len(s))
  <2>1. 0 \in Nat /\ n \in Nat /\ Len(s) \in Nat /\ 0 =< n /\ n =< Len(s) /\ Len(s) =< Len(s)
    OBVIOUS
  <2> QED BY <2>1, PiecesJoin
<1>2. SubSeq(s, 0 + 1, Len(s)) = s /\ 0 + 1 = 1
  OBVIOUS
<1> QED BY <1>1, <1>2

-----------------------------------------------------------------------------
(* The inductive invariant.                                                *)
Inv == TypeOK /\ InputIntact /\ OutputIntact

LEMMA InitEstablishes == Init => Inv
<1> SUFFICES ASSUME Init PROVE Inv
  OBVIOUS
<1>1. /\ IsBuffer(newBuffer(InitLen)) /\ content(newBuffer(InitLen)) = <<>>
  BY ConnectionSizes, NewIsEmpty
<1>2. <<>> \in Seq(Token) /\ <<>> \in Seq(Nat) /\ <<>> \in Seq(Byte) /\ 0 \in 0..SendSpace
  BY ConnectionSizes
<1>5. TypeOK
  <2>1. IsBuffer(inbuffer) /\ IsBuffer(outbuffer)
    BY <1>1 DEF Init
  <2> QED BY <1>2, <2>1 DEF Init, TypeOK, initParser
<1>3. InputIntact
  BY <1>1 DEF Init, InputIntact
<1>4. OutputIntact
  BY <1>1 DEF Init, OutputIntact
<1> QED BY <1>5, <1>3, <1>4 DEF Inv

(* What the steps that touch neither buffer nor socket leave as it is.     *)
LEMMA Untouched ==
  ASSUME Inv, TypeOK', UNCHANGED <<client, output, input>>, open
  PROVE  Inv'
  BY DEF Inv, InputIntact, OutputIntact, client, output, input

LEMMA CloseKeeps ==
  ASSUME Inv, NEW end \in {"closed", "expired"}, handleClose(end)
  PROVE  Inv'
<1>1. IsBuffer(initBuffer)
  BY NewIsEmpty
<1>2. TypeOK'
  BY <1>1 DEF Inv, TypeOK, handleClose, client, initParser
<1>3. ~open'
  BY DEF handleClose, open
<1>4. InputIntact' /\ OutputIntact'
  BY <1>3 DEF Inv, InputIntact, OutputIntact, handleClose, client
<1> QED BY <1>2, <1>4 DEF Inv

LEMMA EventKeeps ==
  ASSUME Inv, handleRequest \/ handleWrite
  PROVE  Inv'
<1>1. TypeOK' /\ UNCHANGED <<client, output, input>> /\ open
  BY DEF Inv, TypeOK, handleRequest, handleWrite, event, client, output, input, open
<1> QED BY <1>1, Untouched

LEMMA ReadKeeps ==
  ASSUME Inv, Read
  PROVE  Inv'
<1>1. CASE readSome
  <2>1. PICK n \in 1..sent - received :
             /\ inbuffer' = bufferRead(inbuffer, SubSeq(asked, received + 1, received + n))
             /\ received' = received + n
    BY <1>1 DEF readSome, readv
  <2> DEFINE bytes == SubSeq(asked, received + 1, received + n)
  <2>2. /\ asked \in Seq(Token) /\ received + n =< Len(asked)
        /\ n \in Nat /\ received \in Nat /\ parsed \in Nat /\ sent \in Nat
        /\ parsed =< received /\ received + n =< sent
    BY DEF Inv, TypeOK, InputIntact
  <2>3. bytes \in Seq(Byte)
    <3>1. bytes \in Seq(Token)
      BY <2>2, PieceElements
    <3> HIDE DEF bytes
    <3> QED BY <3>1, ConnectionSizes
  <2>4. IsBuffer(inbuffer')
        /\ content(inbuffer') = content(inbuffer) \o bytes
    <3>1. IsBuffer(inbuffer) /\ inbuffer' = bufferRead(inbuffer, bytes)
      BY <2>1 DEF Inv, TypeOK
    <3> HIDE DEF bytes
    <3> QED BY <3>1, <2>3, ReadAppends
  <2>5. TypeOK'
    BY <1>1, <2>1, <2>2, <2>4 DEF Inv, TypeOK, readSome, readv, client, output
  <2>6. content(inbuffer)' = SubSeq(asked, parsed + 1, received + n)
    <3>1. content(inbuffer) = SubSeq(asked, parsed + 1, received)
      BY <1>1 DEF Inv, InputIntact, readSome, readv, open
    <3>2. SubSeq(asked, parsed + 1, received) \o bytes = SubSeq(asked, parsed + 1, received + n)
      BY <2>2, PiecesJoin
    <3>3. content(inbuffer)' = content(inbuffer')
      BY DEF content, datasize
    <3> QED BY <2>4, <3>1, <3>2, <3>3
  <2>7. InputIntact'
    BY <1>1, <2>1, <2>2, <2>6 DEF Inv, InputIntact, readSome, readv, client
  <2>8. OutputIntact'
    BY <1>1 DEF Inv, OutputIntact, readSome, readv, output, open
  <2> QED BY <2>5, <2>7, <2>8 DEF Inv
<1>2. CASE readEnd
  <2>1. CASE got /\ pc' = "parse"
             /\ UNCHANGED <<client, output, input, parser, keepalive, armed, got>>
    <3>1. TypeOK' /\ open
      BY <1>2, <2>1 DEF Inv, TypeOK, readEnd, client, output, input, open
    <3> QED BY <2>1, <3>1, Untouched
  <2>2. CASE handleClose("closed")
    BY <2>2, CloseKeeps
  <2> QED BY <1>2, <2>1, <2>2 DEF readEnd
<1> QED BY <1>1, <1>2 DEF Read

(* A set of naturals that has elements has a least one.                    *)
LEMMA LeastElement ==
  ASSUME NEW T, T \subseteq Nat, T # {}
  PROVE  \E i \in T : \A j \in T : i =< j
<1>1. PICK i \in T : \A j \in T : <<j, i>> \notin OpToRel(<, Nat)
  BY NatLessThanWellFounded, WFMin
<1>2. ASSUME NEW j \in T PROVE i =< j
  <2>1. i \in Nat /\ j \in Nat
    OBVIOUS
  <2>2. ~(j < i)
    BY <1>1, <2>1 DEF OpToRel
  <2> QED BY <2>1, <2>2
<1> QED BY <1>2

(* The end of the line is one, and the first.                              *)
LEMMA LineEnds ==
  ASSUME Inv, lineEnds # {}
  PROVE  lineEnd \in lineEnds /\ \A j \in lineEnds : lineEnd =< j
<1>1. lineEnds \subseteq Nat
  BY DEF Inv, TypeOK, lineEnds
<1>2. \E i \in lineEnds : \A j \in lineEnds : i =< j
  BY <1>1, LeastElement
<1> QED BY <1>2 DEF lineEnd

(* A line taken out of the buffer counts as parsed.                        *)
LEMMA ConsumeKeeps ==
  ASSUME Inv, consume, open, lineEnds # {},
         parser' \in [state : {"requestline", "header", "body", "finish"},
                      content_len : Nat, body : Nat, keepalive : BOOLEAN]
  PROVE  Inv'
<1>1. lineEnd \in lineEnds
  BY LineEnds
<1> DEFINE n == lineEnd
<1>2. /\ asked \in Seq(Token) /\ parsed \in Nat /\ received \in Nat /\ received =< Len(asked)
      /\ parsed =< received /\ IsBuffer(inbuffer)
      /\ content(inbuffer) = SubSeq(asked, parsed + 1, received)
  BY DEF Inv, TypeOK, InputIntact
<1>3. datasize(inbuffer) = received - parsed /\ n \in 0..datasize(inbuffer)
      /\ n \in Nat /\ parsed + n =< received
  <2>1. datasize(inbuffer) \in Nat /\ Len(content(inbuffer)) = datasize(inbuffer)
    BY <1>2, ContentIsBytes
  <2>2. Len(content(inbuffer)) = received - parsed
    BY <1>2, PieceElements
  <2>3. n \in 1..datasize(inbuffer)
    BY <1>1 DEF lineEnds
  <2> HIDE DEF n
  <2> QED BY <1>2, <2>1, <2>2, <2>3
<1>4. inbuffer' = updateReadptr(inbuffer, n) /\ parsed' = parsed + n
  BY DEF consume
<1> HIDE DEF n
<1>5. IsBuffer(inbuffer')
      /\ content(inbuffer') = SubSeq(content(inbuffer), n + 1, received - parsed)
  <2>1. Len(content(inbuffer)) = received - parsed
    BY <1>2, <1>3, ContentIsBytes
  <2> QED BY <1>2, <1>3, <1>4, <2>1, ConsumeDrops
<1>6. content(inbuffer') = SubSeq(asked, parsed + n + 1, received)
  BY <1>2, <1>3, <1>5, PieceOfPiece
<1>7. TypeOK'
  BY <1>2, <1>3, <1>4, <1>5 DEF Inv, TypeOK, consume, client, output
<1>8. InputIntact'
  <2>1. content(inbuffer)' = content(inbuffer')
    BY DEF content, datasize
  <2> QED BY <1>2, <1>3, <1>4, <1>6, <2>1 DEF Inv, InputIntact, consume, client
<1>9. OutputIntact'
  BY DEF Inv, OutputIntact, consume, output, open
<1> QED BY <1>7, <1>8, <1>9 DEF Inv

LEMMA ParseKeeps ==
  ASSUME Inv, parseRequestline \/ parseHeadersEnd \/ parseHeader \/ parseBody
  PROVE  Inv'
<1>1. parser \in [state : {"requestline", "header", "body", "finish"},
                  content_len : Nat, body : Nat, keepalive : BOOLEAN]
  BY DEF Inv, TypeOK
<1>2. CASE parseRequestline
  BY <1>1, <1>2, ConsumeKeeps DEF parseRequestline, lineIn, open
<1>3. CASE parseHeadersEnd
  BY <1>1, <1>3, ConsumeKeeps DEF parseHeadersEnd, lineIn, open
<1>4. CASE parseHeader
  <2>1. (IF isLength THEN Length[line[1]] ELSE parser.content_len) \in Nat
    BY <1>1, ConnectionSizes DEF isLength
  <2>2. parser' \in [state : {"requestline", "header", "body", "finish"},
                     content_len : Nat, body : Nat, keepalive : BOOLEAN]
    BY <1>1, <1>4, <2>1 DEF parseHeader
  <2> QED BY <1>4, <2>2, ConsumeKeeps DEF parseHeader, lineIn, open
<1>5. CASE parseBody
  <2>1. Len(line) \in Nat
    <3>1. lineEnd \in 1..datasize(inbuffer)
      BY <1>5, LineEnds DEF parseBody, lineIn, lineEnds
    <3>2. content(inbuffer) \in Seq(Byte) /\ Len(content(inbuffer)) = datasize(inbuffer)
          /\ datasize(inbuffer) \in Nat
      BY ContentIsBytes DEF Inv, TypeOK
    <3> QED BY <3>1, <3>2 DEF line
  <2>2. parser.body + Len(line) \in Nat
    BY <1>1, <2>1
  <2>3. parser' \in [state : {"requestline", "header", "body", "finish"},
                     content_len : Nat, body : Nat, keepalive : BOOLEAN]
    BY <1>1, <1>5, <2>2 DEF parseBody
  <2> QED BY <1>5, <2>3, ConsumeKeeps DEF parseBody, lineIn, open
<1> QED BY <1>2, <1>3, <1>4, <1>5

LEMMA DecisionKeeps ==
  ASSUME Inv, noRequest \/ answer \/ answerBad \/ writeBlocks \/ writeKeeps
  PROVE  Inv'
<1>1. UNCHANGED <<client, output, input>> /\ open
  BY DEF noRequest, answer, answerBad, refuse, writeBlocks, waitFor, writeKeeps,
         keepWith, lineIn, open
<1>2. TypeOK'
  <2>1. CASE noRequest
    BY <2>1 DEF Inv, TypeOK, noRequest, client, output, input
  <2>2. CASE answer \/ answerBad
    <3>1. pc' = "status"
      BY <2>2 DEF answer, answerBad, refuse, Answer
    <3>2. parser.keepalive \in BOOLEAN /\ keepalive \in BOOLEAN
      BY DEF Inv, TypeOK
    <3>3. keepalive' \in BOOLEAN
      BY <2>2, <3>2 DEF answer, answerBad, refuse
    <3> QED BY <2>2, <3>1, <3>3
            DEF Inv, TypeOK, answer, answerBad, refuse, client, output, input
  <2>3. CASE writeBlocks
    BY <2>3 DEF Inv, TypeOK, writeBlocks, waitFor, client, output, input
  <2>4. CASE writeKeeps
    BY <2>4 DEF Inv, TypeOK, writeKeeps, keepWith, initParser, client, output, input
  <2> QED BY <2>1, <2>2, <2>3, <2>4
<1> QED BY <1>1, <1>2, Untouched

LEMMA AbortKeeps ==
  ASSUME Inv, abort
  PROVE  Inv'
<1>1. TypeOK' /\ UNCHANGED <<client, output, input>> /\ open
  BY DEF Inv, TypeOK, abort, lineIn, client, output, input, open
<1> QED BY <1>1, Untouched

(* A part of an answer joins what is still to be sent.                     *)
LEMMA ResponseKeeps ==
  ASSUME Inv, setResponse
  PROVE  Inv'
<1>1. PICK i \in DOMAIN Answer :
        /\ pc = Answer[i]
        /\ outbuffer' = append(outbuffer, <<Answer[i]>>)
        /\ told' = Append(told, Answer[i])
        /\ pc' = IF i = Len(Answer) THEN "write" ELSE Answer[i + 1]
        /\ UNCHANGED <<client, wire, unread, input, parser, keepalive, armed, got>>
  BY DEF setResponse
<1> DEFINE part == <<Answer[i]>>
<1>2. /\ i \in {1, 2, 3} /\ Len(Answer) = 3
      /\ Answer[i] \in {"status", "headers", "page"}
      /\ pc' \in {"headers", "page", "write"}
  BY <1>1 DEF Answer
<1>3. Answer[i] \in Byte /\ part \in Seq(Byte)
  BY <1>2, ConnectionSizes
<1> HIDE DEF part
<1>4. /\ IsBuffer(outbuffer) /\ wire \in Seq(Byte) /\ told \in Seq(Byte)
      /\ content(outbuffer) \in Seq(Byte)
      /\ open /\ wire \o content(outbuffer) = told
  <2>1. open
    BY <1>1, <1>2 DEF open
  <2> QED BY <2>1, ContentIsBytes DEF Inv, TypeOK, OutputIntact
<1>5. IsBuffer(outbuffer') /\ content(outbuffer') = content(outbuffer) \o part
  BY <1>1, <1>3, <1>4, AppendAppends DEF part
<1>6. told' = told \o part /\ told' \in Seq(Byte)
  BY <1>1, <1>3, <1>4 DEF part
<1>7. wire \o content(outbuffer') = told'
  <2>1. (wire \o content(outbuffer)) \o part = wire \o (content(outbuffer) \o part)
    <3>1. /\ wire \in Seq(Byte) /\ part \in Seq(Byte)
          /\ content(outbuffer) \in Seq(Byte)
      BY <1>3, <1>4
    <3> QED BY <3>1, ConcatIsAssociative
  <2> QED BY <2>1, <1>4, <1>5, <1>6
<1>8. TypeOK'
  BY <1>1, <1>2, <1>5, <1>6 DEF Inv, TypeOK, client, input
<1>9. InputIntact'
  BY <1>1, <1>4 DEF Inv, InputIntact, client, input
<1>10. OutputIntact'
  <2>1. content(outbuffer)' = content(outbuffer')
    BY DEF content, datasize
  <2>2. content(outbuffer') \in Seq(Byte)
    BY <1>5, ContentIsBytes
  <2>3. wire' = wire
    BY <1>1
  <2>4. wire = SubSeq(told', 1, Len(wire))
    BY <1>4, <1>7, <2>2, FrontOfConcat
  <2> QED BY <1>7, <2>1, <2>3, <2>4 DEF OutputIntact
<1> QED BY <1>8, <1>9, <1>10 DEF Inv

(* What write takes leaves the buffer and is on the wire.                  *)
LEMMA WriteSomeKeeps ==
  ASSUME Inv, writeSome
  PROVE  Inv'
<1>1. PICK n \in 1..datasize(outbuffer) :
        /\ unread + n =< SendSpace
        /\ wire' = wire \o SubSeq(content(outbuffer), 1, n)
        /\ unread' = unread + n
        /\ outbuffer' = updateReadptr(outbuffer, n)
  BY DEF writeSome, write
<1> DEFINE c == content(outbuffer)
           front == SubSeq(c, 1, n)
           rest == SubSeq(c, n + 1, Len(c))
<1>2. /\ IsBuffer(outbuffer) /\ wire \in Seq(Byte) /\ told \in Seq(Byte)
      /\ c \in Seq(Byte) /\ Len(c) = datasize(outbuffer) /\ datasize(outbuffer) \in Nat
      /\ open /\ wire \o c = told
  <2>1. open
    BY DEF writeSome, write, open
  <2> QED BY <2>1, ContentIsBytes DEF Inv, TypeOK, OutputIntact
<1>3. n \in Nat /\ n \in 0..Len(c) /\ n \in 0..datasize(outbuffer)
  BY <1>2
<1>4. IsBuffer(outbuffer') /\ content(outbuffer') = rest
  BY <1>1, <1>2, <1>3, ConsumeDrops
<1> HIDE DEF c
<1>5. front \in Seq(Byte) /\ rest \in Seq(Byte) /\ front \o rest = c
  BY <1>2, <1>3, SplitAndJoin, SMTT(30)
<1>6. wire' = wire \o front
  BY <1>1 DEF c
<1> HIDE DEF front, rest
<1>7. wire' \in Seq(Byte) /\ wire' \o rest = told
  <2>1. (wire \o front) \o rest = wire \o (front \o rest)
    <3>1. wire \in Seq(Byte) /\ front \in Seq(Byte) /\ rest \in Seq(Byte)
      BY <1>2, <1>5
    <3> QED BY <3>1, ConcatIsAssociative
  <2>2. wire \o front \in Seq(Byte)
    BY <1>2, <1>5
  <2> QED BY <2>1, <2>2, <1>2, <1>5, <1>6
<1>8. TypeOK'
  <2>1. unread' \in 0..SendSpace
    <3>1. SendSpace \in Nat /\ unread \in 0..SendSpace
      BY ConnectionSizes DEF Inv, TypeOK
    <3> QED BY <1>1, <1>3, <3>1
  <2> QED BY <1>4, <1>7, <2>1 DEF Inv, TypeOK, writeSome, write, client, input
<1>9. InputIntact'
  BY DEF Inv, InputIntact, writeSome, write, client, input, open
<1>10. OutputIntact'
  <2>1. content(outbuffer)' = content(outbuffer')
    BY DEF content, datasize
  <2>2. told' = told
    BY DEF writeSome, write
  <2>3. wire' = SubSeq(told, 1, Len(wire'))
    BY <1>5, <1>7, FrontOfConcat
  <2> QED BY <1>4, <1>7, <2>1, <2>2, <2>3 DEF OutputIntact
<1> QED BY <1>8, <1>9, <1>10 DEF Inv

LEMMA WriteKeeps ==
  ASSUME Inv, Write
  PROVE  Inv'
  BY WriteSomeKeeps, DecisionKeeps, CloseKeeps DEF Write, writeFails, writeCloses

LEMMA AskKeeps ==
  ASSUME Inv, NEW r \in Request, Ask(r)
  PROVE  Inv'
<1>1. /\ asked \in Seq(Token) /\ r \in Seq(Token) /\ ends \in Seq(Nat)
      /\ sent \in Nat /\ received \in Nat /\ parsed \in Nat
      /\ parsed =< received /\ received =< sent /\ sent =< Len(asked)
  BY ConnectionSizes DEF Inv, TypeOK, InputIntact
<1>2. /\ asked' = asked \o r /\ asked' \in Seq(Token) /\ Len(asked) =< Len(asked')
      /\ Len(asked) + Len(r) \in Nat
  BY <1>1 DEF Ask
<1>3. ends' \in Seq(Nat) /\ odd' \subseteq 1..Len(ends')
  <2>1. Len(asked') \in Nat
    BY <1>2
  <2>2. ends' = Append(ends, Len(asked'))
    BY DEF Ask
  <2>3. ends' \in Seq(Nat) /\ Len(ends') = Len(ends) + 1 /\ Len(ends) \in Nat
    BY <1>1, <2>1, <2>2
  <2>4. odd \subseteq 1..Len(ends) /\ odd' \subseteq odd \cup {Len(ends')}
    BY DEF Inv, TypeOK, Ask
  <2> QED BY <2>3, <2>4
<1>4. TypeOK'
  BY <1>2, <1>3 DEF Inv, TypeOK, Ask, clientOnly, input
<1>5. InputIntact'
  <2>1. SubSeq(asked \o r, parsed + 1, received) = SubSeq(asked, parsed + 1, received)
    BY <1>1, PieceOfLonger
  <2>2. /\ sent' = sent /\ received' = received /\ parsed' = parsed
        /\ inbuffer' = inbuffer /\ pc' = pc
    BY DEF Ask, clientOnly, input
  <2>3. sent =< Len(asked')
    BY <1>1, <1>2
  <2> QED BY <1>1, <1>2, <2>1, <2>2, <2>3 DEF Inv, InputIntact, open, content, datasize
<1>6. OutputIntact'
  BY DEF Inv, OutputIntact, Ask, clientOnly, open, content, datasize
<1> QED BY <1>4, <1>5, <1>6 DEF Inv

LEMMA ClientKeeps ==
  ASSUME Inv, Arrive \/ HangUp \/ Drain
  PROVE  Inv'
<1>1. TypeOK'
  <2>1. CASE Arrive
    BY <2>1 DEF Inv, TypeOK, Arrive, clientOnly, input
  <2>2. CASE HangUp
    BY <2>2 DEF Inv, TypeOK, HangUp, clientOnly, input
  <2>3. CASE Drain
    <3>1. unread' \in 0..SendSpace
      BY <2>3, ConnectionSizes DEF Inv, TypeOK, Drain
    <3> QED BY <2>3, <3>1 DEF Inv, TypeOK, Drain, clientOnly, input, client
  <2> QED BY <2>1, <2>2, <2>3
<1>2. sent' \in Nat /\ sent =< sent' /\ sent' =< Len(asked)
  BY DEF Inv, TypeOK, InputIntact, Arrive, HangUp, Drain, client
<1>3. UNCHANGED <<asked, input, pc, wire, told, outbuffer>>
  BY DEF Arrive, HangUp, Drain, clientOnly, client
<1>4. InputIntact'
  BY <1>2, <1>3 DEF Inv, TypeOK, InputIntact, input, open, content, datasize
<1>5. OutputIntact'
  BY <1>3 DEF Inv, OutputIntact, open, content, datasize
<1> QED BY <1>1, <1>4, <1>5 DEF Inv

LEMMA NextKeeps == Inv /\ [Next]_vars => Inv'
<1> SUFFICES ASSUME Inv, [Next]_vars PROVE Inv'
  OBVIOUS
<1>1. CASE handleRequest \/ handleWrite
  BY <1>1, EventKeeps
<1>2. CASE Read
  BY <1>2, ReadKeeps
<1>3. CASE processCore
  BY <1>3, ParseKeeps, AbortKeeps, DecisionKeeps, ResponseKeeps DEF processCore
<1>4. CASE Write
  BY <1>4, WriteKeeps
<1>5. CASE handleExpire
  BY <1>5, CloseKeeps DEF handleExpire
<1>6. CASE \E r \in Request : Ask(r)
  BY <1>6, AskKeeps
<1>7. CASE Arrive \/ HangUp \/ Drain
  BY <1>7, ClientKeeps
<1>8. CASE UNCHANGED vars
  <2>1. UNCHANGED <<asked, ends, odd, sent, hup, unread, wire, told, outbuffer, received, parsed,
                    inbuffer, pc, armed, got, keepalive, parser>>
    BY <1>8 DEF vars, client, output, input
  <2>2. TypeOK'
    BY <2>1 DEF Inv, TypeOK
  <2>3. InputIntact' /\ OutputIntact'
    BY <2>1 DEF Inv, InputIntact, OutputIntact, open, content, datasize
  <2> QED BY <2>2, <2>3 DEF Inv
<1> QED BY <1>1, <1>2, <1>3, <1>4, <1>5, <1>6, <1>7, <1>8 DEF Next, Server

LEMMA InvariantHolds == Spec => []Inv
  BY InitEstablishes, NextKeeps, PTL DEF Spec

(* The variables of a connection and of its client have their types.       *)
THEOREM TypeCorrect == Spec => []TypeOK
<1>1. Inv => TypeOK
  BY DEF Inv
<1> QED BY <1>1, InvariantHolds, PTL

(* Connection::Read, Buffer::makeSpace: the unread part of the buffer is   *)
(* what arrived and was not consumed, for every way of cutting the input.  *)
THEOREM InputCorrect == Spec => []InputIntact
<1>1. Inv => InputIntact
  BY DEF Inv
<1> QED BY <1>1, InvariantHolds, PTL

(* Connection::Write: the answers go out whole and in order, however many  *)
(* of their bytes write takes at a time.                                   *)
THEOREM OutputCorrect == Spec => []OutputIntact
<1>1. Inv => OutputIntact
  BY DEF Inv
<1> QED BY <1>1, InvariantHolds, PTL
-----------------------------------------------------------------------------
(* What epoll is asked for.  That it is what the connection needs rests on *)
(* what the handler that has armed it was told of: all that there is to    *)
(* send has gone before anything is read; the answers that keep the        *)
(* connection were asked to; and a handler that gives up in the middle of a*)
(* request has read part of it.                                            *)
KeepAsked == \E i \in 1..parsed : asked[i] = "keep"
inRequest == received > 0 /\ (parser # initParser \/ received > parsed)

Arming ==
  /\ pc # "wait" => armed = "off"
  /\ pc \in {"read", "parse", "status"} => datasize(outbuffer) = 0
  /\ pc = "wait" => (armed = "out" <=> datasize(outbuffer) > 0)
  /\ keepalive \/ parser.keepalive => KeepAsked
  /\ pc = "wait" /\ armed = "in" => parser = initParser /\ (told = <<>> \/ KeepAsked)
  /\ \/ pc = "read" /\ got
     \/ pc = "parse"
     \/ pc = "wait" /\ armed = "off"
     => inRequest

LEMMA ArmingAsNeeded == Arming => ArmedAsNeeded
<1> SUFFICES ASSUME Arming, pc = "wait", armed = "in", answers > 0
             PROVE  KeepAsked
  BY DEF Arming, ArmedAsNeeded, KeepAsked, inRequest
<1>1. told = <<>> => answers = 0
  BY DEF answers, Answer
<1> QED BY <1>1 DEF Arming

LEMMA InitArms == Init => Arming
<1> SUFFICES ASSUME Init PROVE Arming
  OBVIOUS
<1>1. datasize(outbuffer) = 0
  BY DEF Init, newBuffer, datasize
<1> QED BY <1>1 DEF Init, Arming, initParser

(* A client that has asked to keep the connection has done so for good.    *)
LEMMA KeepStays ==
  ASSUME Inv, KeepAsked,
         parsed' \in Nat, parsed =< parsed',
         asked' = asked \/ \E r \in Request : asked' = asked \o r
  PROVE  KeepAsked'
<1>1. PICK i \in 1..parsed : asked[i] = "keep"
  BY DEF KeepAsked
<1>2. /\ parsed \in Nat /\ i \in 1..parsed' /\ i \in 1..Len(asked)
      /\ asked \in Seq(Token)
  BY DEF Inv, TypeOK, InputIntact
<1>3. asked'[i] = "keep"
  <2>1. CASE asked' = asked
    BY <2>1, <1>1
  <2>2. ASSUME NEW r \in Request, asked' = asked \o r
        PROVE  asked'[i] = "keep"
    <3>1. r \in Seq(Token)
      BY ConnectionSizes
    <3> QED BY <3>1, <2>2, <1>1, <1>2, ConcatElements
  <2> QED BY <2>1, <2>2
<1> QED BY <1>2, <1>3 DEF KeepAsked

LEMMA CloseArms ==
  ASSUME Inv, Arming, NEW end \in {"closed", "expired"}, handleClose(end)
  PROVE  Arming'
  BY DEF Arming, handleClose, initParser

LEMMA EventArms ==
  ASSUME Inv, Arming, handleRequest \/ handleWrite
  PROVE  Arming'
<1>1. UNCHANGED <<asked, parsed, parser, keepalive, outbuffer>>
      /\ armed' = "off" /\ got' = FALSE /\ pc = "wait"
      /\ \/ armed = "in" /\ pc' = "read"
         \/ armed = "out" /\ pc' = "write"
  BY DEF handleRequest, handleWrite, event, client, output, input
<1>2. datasize(outbuffer) \in Nat /\ datasize(outbuffer') = datasize(outbuffer)
  BY <1>1, ContentIsBytes DEF Inv, TypeOK
<1>3. KeepAsked' <=> KeepAsked
  BY <1>1 DEF KeepAsked
<1> QED BY <1>1, <1>2, <1>3 DEF Arming, datasize

LEMMA ReadArms ==
  ASSUME Inv, Arming, Read
  PROVE  Arming'
<1>1. CASE readSome
  <2>1. PICK n \in 1..sent - received : received' = received + n
    BY <1>1 DEF readSome, readv
  <2>2. received \in Nat /\ parsed \in Nat /\ parsed =< received /\ n \in Nat /\ n > 0
    BY DEF Inv, TypeOK, InputIntact
  <2>3. /\ UNCHANGED <<asked, parsed, parser, keepalive, armed, outbuffer, told>>
        /\ pc = "read" /\ pc' = "read"
    BY <1>1 DEF readSome, readv, client, output
  <2>4. inRequest'
    BY <2>1, <2>2, <2>3 DEF inRequest
  <2> QED BY <2>3, <2>4 DEF Arming, KeepAsked, datasize
<1>2. CASE readEnd
  <2>1. CASE got /\ pc' = "parse"
             /\ UNCHANGED <<client, output, input, parser, keepalive, armed, got>>
    BY <1>2, <2>1
       DEF readEnd, Arming, KeepAsked, inRequest, datasize, client, output, input
  <2>2. CASE handleClose("closed")
    BY <2>2, CloseArms
  <2> QED BY <1>2, <2>1, <2>2 DEF readEnd
<1> QED BY <1>1, <1>2 DEF Read

(* A line that is consumed leaves the parser in the middle of a request.   *)
LEMMA ParseArms ==
  ASSUME Inv, Arming, Inv', parseRequestline \/ parseHeadersEnd \/ parseHeader \/ parseBody
  PROVE  Arming'
<1>1. /\ pc = "parse" /\ lineEnds # {} /\ consume
      /\ parser.state \in {"requestline", "header", "body"}
  BY DEF parseRequestline, parseHeadersEnd, parseHeader, parseBody, lineIn
<1>2. /\ UNCHANGED <<asked, received, keepalive, armed, pc, outbuffer>>
      /\ parsed' = parsed + lineEnd
  BY <1>1 DEF consume, client, output
<1>3. /\ lineEnd \in 1..datasize(inbuffer) /\ content(inbuffer)[lineEnd] = "crlf"
  BY <1>1, LineEnds DEF lineEnds
<1>4. /\ parsed \in Nat /\ received \in Nat /\ received =< Len(asked) /\ parsed =< received
      /\ asked \in Seq(Token) /\ IsBuffer(inbuffer)
      /\ content(inbuffer) = SubSeq(asked, parsed + 1, received)
  BY <1>1, SMTT(30) DEF Inv, TypeOK, InputIntact, open
<1>5. /\ Len(content(inbuffer)) = received - parsed
      /\ datasize(inbuffer) = received - parsed
      /\ \A i \in 1..received - parsed : content(inbuffer)[i] = asked[parsed + i]
  BY <1>4, ContentIsBytes, PieceElements
<1>6. parser'.state # "requestline"
  <2>1. parser \in [state : {"requestline", "header", "body", "finish"},
                    content_len : Nat, body : Nat, keepalive : BOOLEAN]
    BY DEF Inv, TypeOK
  <2> QED BY <2>1 DEF parseRequestline, parseHeadersEnd, parseHeader, parseBody, lineIn
<1>7. inRequest'
  BY <1>1, <1>2, <1>6 DEF Arming, inRequest, initParser
<1>8. keepalive \/ parser'.keepalive => KeepAsked'
  <2>1. parsed' \in Nat /\ parsed =< parsed'
    BY <1>2, <1>3, <1>4, <1>5
  <2>2. CASE KeepAsked
    BY <2>1, <2>2, <1>2, KeepStays
  <2>3. CASE ~KeepAsked
    <3>1. ~keepalive /\ ~parser.keepalive
      BY <2>3 DEF Arming
    <3>2. CASE parser'.keepalive
      <4>1. line = <<"keep">>
        <5>1. parser \in [state : {"requestline", "header", "body", "finish"},
                          content_len : Nat, body : Nat, keepalive : BOOLEAN]
          BY DEF Inv, TypeOK
        <5> QED BY <5>1, <3>1, <3>2
                DEF parseRequestline, parseHeadersEnd, parseHeader, parseBody
      <4>2. Len(line) = 1 /\ line[1] = "keep"
        BY <4>1
      <4>3. lineEnd = 2 /\ line[1] = content(inbuffer)[1]
        <5>1. content(inbuffer) \in Seq(Token)
          BY <1>4, PieceElements
        <5> QED BY <4>2, <5>1, <1>3, <1>5 DEF line
      <4>4. asked[parsed + 1] = "keep"
        BY <4>2, <4>3, <1>3, <1>5
      <4>5. parsed + 1 \in 1..parsed'
        BY <4>3, <1>2, <1>4
      <4> QED BY <4>4, <4>5, <1>2 DEF KeepAsked
    <3> QED BY <3>1, <3>2
  <2> QED BY <2>2, <2>3
<1> QED BY <1>1, <1>2, <1>7, <1>8 DEF Arming, datasize

(* A handler that waits again has told epoll for what.                     *)
LEMMA DecisionArms ==
  ASSUME Inv, Arming, noRequest \/ abort \/ answer \/ answerBad \/ setResponse
                      \/ writeSome \/ writeBlocks \/ writeKeeps
  PROVE  Arming'
<1>1. /\ UNCHANGED <<asked, received, parsed>>
      /\ KeepAsked' <=> KeepAsked
  BY DEF noRequest, abort, answer, answerBad, refuse, setResponse, writeSome, write,
         writeBlocks, waitFor, writeKeeps, keepWith, client, input, KeepAsked
<1>2. datasize(outbuffer) \in Nat
  BY ContentIsBytes DEF Inv, TypeOK
<1>3. CASE noRequest
  BY <1>1, <1>3 DEF noRequest, Arming, inRequest, lineIn, datasize, output
<1>4. CASE abort \/ answer \/ answerBad
  <2>1. pc = "parse" /\ pc' \in {"aborted", "status"} /\ UNCHANGED <<parser, armed, outbuffer>>
        /\ (keepalive' => keepalive \/ parser.keepalive)
    <3>1. CASE abort
      BY <3>1 DEF abort, lineIn, output
    <3>2. CASE answer \/ answerBad
      <4>1. pc = "parse" /\ pc' = "status" /\ UNCHANGED <<parser, armed, outbuffer>>
        BY <3>2 DEF answer, answerBad, refuse, lineIn, Answer, output
      <4>2. keepalive' => keepalive \/ parser.keepalive
        BY <3>2 DEF answer, answerBad, refuse
      <4> QED BY <4>1, <4>2
    <3> QED BY <1>4, <3>1, <3>2
  <2> QED BY <1>1, <2>1 DEF Arming, datasize
<1>5. CASE setResponse
  <2>1. pc \in {"status", "headers", "page"} /\ pc' \in {"headers", "page", "write"}
        /\ UNCHANGED <<parser, keepalive, armed>>
    BY <1>5 DEF setResponse, Answer
  <2> QED BY <1>1, <2>1 DEF Arming
<1>6. CASE writeSome
  BY <1>1, <1>6 DEF writeSome, write, Arming
<1>7. CASE writeBlocks
  BY <1>1, <1>7 DEF writeBlocks, waitFor, Arming, datasize, output
<1>8. CASE writeKeeps
  BY <1>1, <1>2, <1>8 DEF writeKeeps, keepWith, Arming, initParser, datasize, output
<1> QED BY <1>3, <1>4, <1>5, <1>6, <1>7, <1>8

LEMMA ClientArms ==
  ASSUME Inv, Arming, (\E r \in Request : Ask(r)) \/ Arrive \/ HangUp \/ Drain
  PROVE  Arming'
<1>1. /\ UNCHANGED <<pc, armed, got, parser, keepalive, outbuffer, told, received, parsed>>
      /\ asked' = asked \/ \E r \in Request : asked' = asked \o r
  BY DEF Ask, Arrive, HangUp, Drain, clientOnly, client, input
<1>2. KeepAsked => KeepAsked'
  <2>1. parsed' \in Nat /\ parsed =< parsed'
    BY <1>1 DEF Inv, TypeOK
  <2> QED BY <1>1, <2>1, KeepStays
<1> QED BY <1>1, <1>2 DEF Arming, inRequest, datasize

LEMMA NextArms == Inv /\ Inv' /\ Arming /\ [Next]_vars => Arming'
<1> SUFFICES ASSUME Inv, Inv', Arming, [Next]_vars PROVE Arming'
  OBVIOUS
<1>1. CASE handleRequest \/ handleWrite
  BY <1>1, EventArms
<1>2. CASE Read
  BY <1>2, ReadArms
<1>3. CASE processCore
  BY <1>3, ParseArms, DecisionArms DEF processCore
<1>4. CASE Write
  BY <1>4, DecisionArms, CloseArms DEF Write, writeFails, writeCloses
<1>5. CASE handleExpire
  BY <1>5, CloseArms DEF handleExpire
<1>6. CASE (\E r \in Request : Ask(r)) \/ Arrive \/ HangUp \/ Drain
  BY <1>6, ClientArms
<1>7. CASE UNCHANGED vars
  BY <1>7 DEF vars, client, output, input, Arming, KeepAsked, inRequest, datasize
<1> QED BY <1>1, <1>2, <1>3, <1>4, <1>5, <1>6, <1>7 DEF Next, Server

(* TcpServer::handleWrite, handleRequest: no path through the handlers     *)
(* leaves a connection armed for the wrong event, or for none, for requests*)
(* of any kind and answers that leave in any pieces.                       *)
THEOREM ArmingCorrect == Spec => []ArmedAsNeeded
<1>1. Init => Inv /\ Arming
  BY InitEstablishes, InitArms
<1>2. Inv /\ Arming /\ [Next]_vars => (Inv /\ Arming)'
  BY NextKeeps, NextArms
<1> QED BY <1>1, <1>2, ArmingAsNeeded, PTL DEF Spec

-----------------------------------------------------------------------------
(* Requests.  What the client has asked for is one request after the other,*)
(* exact but for the odd ones.                                             *)
Layout ==
  /\ Len(asked) = start(Len(ends))
  /\ \A i, j \in 1..Len(ends) : i < j => ends[i] < ends[j]
  /\ \A k \in 0..Len(ends) - 1 : start(k) < ends[k + 1] /\ ends[k + 1] =< Len(asked)
  /\ \A k \in 1..Len(ends) : k \notin odd => IsRequest(asked, start(k - 1), ends[k])

(* What is said of a part of the input holds when there is more of it.     *)
LEMMA SamePrefix ==
  ASSUME NEW s, NEW t, NEW n \in Nat, \A i \in 1..n : t[i] = s[i]
  PROVE  /\ \A i \in 2..n : isBlank(t, i) <=> isBlank(s, i)
         /\ \A b \in Nat : \A h \in b + 2..n : headersEnd(t, b, h) <=> headersEnd(s, b, h)
         /\ \A i \in Nat \ {0}, j \in 0..n : \A m : says(t, i, j, m) <=> says(s, i, j, m)
         /\ \A i \in Nat \ {0}, j \in 0..n : size(t, i, j) = size(s, i, j)
<1>1. ASSUME NEW i \in 2..n PROVE isBlank(t, i) <=> isBlank(s, i)
  <2>1. i \in 1..n /\ i - 1 \in 1..n
    OBVIOUS
  <2> QED BY <2>1 DEF isBlank
<1>2. ASSUME NEW b \in Nat, NEW h \in b + 2..n
      PROVE  headersEnd(t, b, h) <=> headersEnd(s, b, h)
  <2>1. h \in 2..n /\ \A i \in b + 2..h - 1 : i \in 2..n
    OBVIOUS
  <2> QED BY <1>1, <2>1 DEF headersEnd
<1>3. ASSUME NEW i \in Nat \ {0}, NEW j \in 0..n
      PROVE  \A m \in i..j : t[m] = s[m]
  OBVIOUS
<1>4. ASSUME NEW i \in Nat \ {0}, NEW j \in 0..n, NEW m
      PROVE  says(t, i, j, m) <=> says(s, i, j, m)
  <2>1. \A a \in i..j : t[a] = s[a]
    BY <1>3
  <2>2. \A a \in i..j : \A l \in a + 1..j : t[l] = s[l]
    BY <2>1
  <2> QED BY <2>1, <2>2 DEF says
<1>5. ASSUME NEW i \in Nat \ {0}, NEW j \in 0..n
      PROVE  size(t, i, j) = size(s, i, j)
  <2>1. {m \in i..j : t[m] # "crlf"} = {m \in i..j : s[m] # "crlf"}
    BY <1>3
  <2> QED BY <2>1 DEF size
<1> QED BY <1>1, <1>2, <1>4, <1>5

LEMMA SameRequest ==
  ASSUME NEW s, NEW t, NEW n \in Nat, \A i \in 1..n : t[i] = s[i],
         NEW b \in Nat, NEW e \in Nat, e =< n, IsRequest(s, b, e)
  PROVE  IsRequest(t, b, e)
<1>1. /\ b + 2 =< e /\ b + 1 \in 1..n /\ b + 2 \in 1..n
      /\ t[b + 1] # "crlf" /\ t[b + 2] = "crlf"
  BY DEF IsRequest
<1>2. ASSUME t[b + 1] = "req"
      PROVE  \E h \in b + 3..e :
               /\ headersEnd(t, b, h)
               /\ \A i \in b + 1..h - 1 : t[i] = "crlf" \/ t[i + 1] = "crlf"
               /\ \A i \in b + 1..h : t[i] # "nolen"
               /\ \A i \in h + 1..e : t[i] \in {"body", "crlf"}
               /\ says(t, b + 1, h, size(t, h + 1, e))
               /\ h < e => t[e] = "crlf" /\ t[e - 1] # "crlf"
  <2>1. s[b + 1] = "req"
    BY <1>1, <1>2
  <2>2. PICK h \in b + 3..e :
               /\ headersEnd(s, b, h)
               /\ \A i \in b + 1..h - 1 : s[i] = "crlf" \/ s[i + 1] = "crlf"
               /\ \A i \in b + 1..h : s[i] # "nolen"
               /\ \A i \in h + 1..e : s[i] \in {"body", "crlf"}
               /\ says(s, b + 1, h, size(s, h + 1, e))
               /\ h < e => s[e] = "crlf" /\ s[e - 1] # "crlf"
    BY <2>1 DEF IsRequest
  <2>3. /\ h \in b + 2..n /\ h \in 0..n /\ e \in 0..n /\ b + 1 \in Nat \ {0}
        /\ h + 1 \in Nat \ {0}
        /\ \A i \in b + 1..e : i \in 1..n
        /\ \A i \in b + 1..h - 1 : i + 1 \in 1..n /\ i \in 1..n
        /\ \A i \in h + 1..e : i \in 1..n
        /\ h < e => e - 1 \in 1..n /\ e \in 1..n
        /\ \A i \in b + 1..h : i \in 1..n
    OBVIOUS
  <2>4. headersEnd(t, b, h)
    BY <2>2, <2>3, SamePrefix
  <2>5. says(t, b + 1, h, size(t, h + 1, e))
    <3>1. size(t, h + 1, e) = size(s, h + 1, e)
      BY <2>3, SamePrefix
    <3>2. \A m : says(t, b + 1, h, m) <=> says(s, b + 1, h, m)
      BY <2>3, SamePrefix
    <3> QED BY <2>2, <3>1, <3>2
  <2>6. \A i \in b + 1..h - 1 : t[i] = "crlf" \/ t[i + 1] = "crlf"
    BY <2>2, <2>3
  <2>7. \A i \in b + 1..h : t[i] # "nolen"
    BY <2>2, <2>3
  <2>8. \A i \in h + 1..e : t[i] \in {"body", "crlf"}
    BY <2>2, <2>3
  <2>9. h < e => t[e] = "crlf" /\ t[e - 1] # "crlf"
    BY <2>2, <2>3
  <2> QED BY <2>4, <2>5, <2>6, <2>7, <2>8, <2>9
<1> QED BY <1>1, <1>2 DEF IsRequest

(* Sizes: of nothing, of a line more, and of a whole and its part.         *)
LEMMA Sizes ==
  ASSUME NEW s, NEW i \in Nat, NEW j \in Nat, i =< j + 1
  PROVE  /\ size(s, i, j) \in Nat
         /\ i = j + 1 => size(s, i, j) = 0
         /\ \A l \in Nat \ {0} :
              s[j + l] = "crlf" /\ (\A m \in 1..l - 1 : s[j + m] # "crlf")
                => size(s, i, j + l) = size(s, i, j) + (l - 1)
         /\ \A k \in Nat : j =< k => size(s, i, j) =< size(s, i, k)
         /\ \A k \in Nat : j < k /\ (\E m \in j + 1..k : s[m] # "crlf")
                => size(s, i, j) < size(s, i, k)
<1> DEFINE T(k) == {m \in i..k : s[m] # "crlf"}
<1>1. ASSUME NEW k \in Nat
      PROVE  IsFiniteSet(T(k)) /\ Cardinality(T(k)) \in Nat /\ size(s, i, k) = Cardinality(T(k))
  <2>1. IsFiniteSet(i..k)
    BY FS_Interval
  <2>2. T(k) \in SUBSET (i..k)
    OBVIOUS
  <2>3. IsFiniteSet(T(k))
    BY <2>1, <2>2, FS_Subset
  <2> QED BY <2>3, FS_CardinalityType DEF size
<1>2. ASSUME i = j + 1 PROVE size(s, i, j) = 0
  <2>1. T(j) = {}
    BY <1>2
  <2> QED BY <2>1, <1>1, FS_EmptySet
<1>3. ASSUME NEW l \in Nat \ {0}, s[j + l] = "crlf", \A m \in 1..l - 1 : s[j + m] # "crlf"
      PROVE  size(s, i, j + l) = size(s, i, j) + (l - 1)
  <2> DEFINE more == j + 1..j + (l - 1)
  <2>1. ASSUME NEW m \in i..j + l PROVE s[m] # "crlf" <=> m \in T(j) \cup more
    <3>1. CASE m =< j
      <4>1. m \in i..j /\ m \notin more
        BY <3>1
      <4> QED BY <4>1
    <3>2. CASE m = j + l
      BY <3>2, <1>3
    <3>3. CASE j < m /\ m < j + l
      <4>1. m - j \in 1..l - 1 /\ j + (m - j) = m /\ m \in more
        BY <3>3
      <4> QED BY <4>1, <1>3
    <3> QED BY <3>1, <3>2, <3>3
  <2>2. T(j) \subseteq i..j + l /\ more \subseteq i..j + l
    OBVIOUS
  <2>3. T(j + l) = T(j) \cup more
    BY <2>1, <2>2
  <2>4. T(j) \cap more = {}
    OBVIOUS
  <2>5. IsFiniteSet(more) /\ Cardinality(more) = l - 1
    <3>1. j + 1 \in Int /\ j + (l - 1) \in Int
      OBVIOUS
    <3>2. /\ IsFiniteSet(more)
          /\ Cardinality(more) = IF j + 1 > j + (l - 1) THEN 0 ELSE j + (l - 1) - (j + 1) + 1
      BY <3>1, FS_Interval
    <3> QED BY <3>2
  <2> HIDE DEF T, more
  <2>6. IsFiniteSet(T(j)) /\ Cardinality(T(j)) \in Nat
    BY <1>1
  <2>7. Cardinality(T(j) \cup more)
          = Cardinality(T(j)) + Cardinality(more) - Cardinality(T(j) \cap more)
    BY <2>5, <2>6, FS_Union
  <2>8. Cardinality(T(j + l)) = Cardinality(T(j)) + (l - 1)
    <3>1. Cardinality(T(j) \cap more) = 0
      BY <2>4, FS_EmptySet
    <3>2. Cardinality(T(j + l)) = Cardinality(T(j) \cup more)
      BY <2>3
    <3>3. l - 1 \in Nat /\ Cardinality(more) = l - 1
      BY <2>5
    <3> QED BY <2>6, <2>7, <3>1, <3>2, <3>3
  <2> QED BY <2>8, <1>1
<1>4. ASSUME NEW k \in Nat, j =< k PROVE size(s, i, j) =< size(s, i, k)
  <2>1. T(j) \in SUBSET T(k)
    BY <1>4
  <2> HIDE DEF T
  <2>2. Cardinality(T(j)) =< Cardinality(T(k))
    BY <2>1, <1>1, FS_Subset
  <2> QED BY <2>2, <1>1
<1>5. ASSUME NEW k \in Nat, j < k, NEW m \in j + 1..k, s[m] # "crlf"
      PROVE  size(s, i, j) < size(s, i, k)
  <2>1. m \in T(k) /\ m \notin T(j) /\ T(j) \in SUBSET (T(k) \ {m})
    BY <1>5
  <2> HIDE DEF T
  <2>2. /\ IsFiniteSet(T(k) \ {m})
        /\ Cardinality(T(k) \ {m}) = Cardinality(T(k)) - 1
    BY <2>1, <1>1, FS_RemoveElement
  <2>3. Cardinality(T(j)) =< Cardinality(T(k) \ {m})
    BY <2>1, <2>2, FS_Subset
  <2>4. Cardinality(T(j)) \in Nat /\ Cardinality(T(k)) \in Nat
    BY <1>1
  <2>5. Cardinality(T(j)) < Cardinality(T(k))
    BY <2>2, <2>3, <2>4
  <2> QED BY <2>5, <1>1
<1> QED BY <1>1, <1>2, <1>3, <1>4, <1>5

(* The headers end in one place and give one length.                       *)
LEMMA HeadersEndOnce ==
  ASSUME NEW s, NEW b \in Nat, NEW g \in Nat, NEW h \in Nat, b + 2 =< g, b + 2 =< h,
         headersEnd(s, b, g), headersEnd(s, b, h)
  PROVE  g = h
<1>1. ~(g < h)
  <2>1. g < h => g \in b + 2..h - 1
    OBVIOUS
  <2> QED BY <2>1 DEF headersEnd
<1>2. ~(h < g)
  <2>1. h < g => h \in b + 2..g - 1
    OBVIOUS
  <2> QED BY <2>1 DEF headersEnd
<1> QED BY <1>1, <1>2

LEMMA SaysOnce ==
  ASSUME NEW s, NEW i \in Nat, NEW j \in Nat, NEW m, NEW n, says(s, i, j, m), says(s, i, j, n)
  PROVE  m = n
<1>1. CASE \A a \in i..j : s[a] \notin DOMAIN Length
  BY <1>1 DEF says
<1>2. CASE ~(\A a \in i..j : s[a] \notin DOMAIN Length)
  <2>1. PICK a \in i..j : /\ s[a] \in DOMAIN Length /\ m = Length[s[a]]
                          /\ \A l \in a + 1..j : s[l] \notin DOMAIN Length
    BY <1>2 DEF says
  <2>2. PICK c \in i..j : /\ s[c] \in DOMAIN Length /\ n = Length[s[c]]
                          /\ \A l \in c + 1..j : s[l] \notin DOMAIN Length
    BY <1>2 DEF says
  <2>3. ~(a < c)
    <3>1. a < c => c \in a + 1..j
      OBVIOUS
    <3> QED BY <3>1, <2>1, <2>2
  <2>4. ~(c < a)
    <3>1. c < a => a \in c + 1..j
      OBVIOUS
    <3> QED BY <3>1, <2>1, <2>2
  <2>5. a = c
    BY <2>3, <2>4
  <2> QED BY <2>1, <2>2, <2>5
<1> QED BY <1>1, <1>2

LEMMA SaysMore ==
  ASSUME NEW s, NEW i \in Nat, NEW j \in Nat, i =< j + 1, NEW n, says(s, i, j, n)
  PROVE  says(s, i, j + 1, IF s[j + 1] \in DOMAIN Length THEN Length[s[j + 1]] ELSE n)
<1>1. \A m \in i..j + 1 : m \in i..j \/ m = j + 1
  OBVIOUS
<1>2. j + 1 \in i..j + 1 /\ \A m \in i..j : m \in i..j + 1
  OBVIOUS
<1>3. CASE s[j + 1] \in DOMAIN Length
  <2>1. \A l \in (j + 1) + 1..j + 1 : s[l] \notin DOMAIN Length
    OBVIOUS
  <2> QED BY <1>2, <1>3, <2>1 DEF says
<1>4. CASE s[j + 1] \notin DOMAIN Length
  <2>1. CASE n = 0 /\ \A m \in i..j : s[m] \notin DOMAIN Length
    BY <2>1, <1>1, <1>4 DEF says
  <2>2. ASSUME NEW m \in i..j, s[m] \in DOMAIN Length, n = Length[s[m]],
               \A l \in m + 1..j : s[l] \notin DOMAIN Length
        PROVE  says(s, i, j + 1, n)
    <3>1. \A l \in m + 1..j + 1 : l \in m + 1..j \/ l = j + 1
      OBVIOUS
    <3>2. \A l \in m + 1..j + 1 : s[l] \notin DOMAIN Length
      BY <3>1, <2>2, <1>4
    <3> QED BY <2>2, <3>2, <1>2 DEF says
  <2> QED BY <2>1, <2>2, <1>4 DEF says
<1> QED BY <1>3, <1>4

(* What the client asks for next comes behind what it has asked for.       *)
LEMMA AskStays ==
  ASSUME Inv, NEW r \in Request, Ask(r)
  PROVE  /\ asked \in Seq(Token) /\ Len(asked) \in Nat /\ Len(ends) \in Nat
         /\ Len(asked') \in Nat /\ Len(asked) < Len(asked')
         /\ \A n \in 1..Len(asked) : asked'[n] = asked[n]
         /\ Len(ends') = Len(ends) + 1 /\ ends'[Len(ends) + 1] = Len(asked')
         /\ \A k \in 1..Len(ends) : ends'[k] = ends[k]
         /\ \A k \in 0..Len(ends) : start(k)' = start(k)
         /\ odd \subseteq odd' /\ odd \subseteq 1..Len(ends)
         /\ \A k \in 1..Len(ends) : k \in odd' <=> k \in odd
         /\ Len(ends) + 1 \notin odd' => IsRequest(asked', Len(asked), Len(asked'))
<1>1. /\ asked \in Seq(Token) /\ r \in Seq(Token) /\ ends \in Seq(Nat) /\ r # <<>>
      /\ Len(asked) \in Nat /\ Len(ends) \in Nat /\ Len(r) \in Nat \ {0}
      /\ odd \subseteq 1..Len(ends)
  <2>1. asked \in Seq(Token) /\ ends \in Seq(Nat) /\ odd \subseteq 1..Len(ends)
    BY DEF Inv, TypeOK
  <2>2. r \in Seq(Token) /\ r # <<>>
    BY ConnectionSizes
  <2> QED BY <2>1, <2>2
<1>2. /\ asked' = asked \o r /\ ends' = Append(ends, Len(asked'))
      /\ odd' = IF IsRequest(asked', Len(asked), Len(asked')) THEN odd
                ELSE odd \cup {Len(ends')}
  BY DEF Ask
<1>3. /\ Len(asked') = Len(asked) + Len(r)
      /\ \A n \in 1..Len(asked) : asked'[n] = asked[n]
  BY <1>1, <1>2, ConcatElements
<1>4. /\ Len(ends') = Len(ends) + 1 /\ ends'[Len(ends) + 1] = Len(asked')
      /\ \A k \in 1..Len(ends) : ends'[k] = ends[k]
  <2>1. Len(asked') \in Nat
    BY <1>1, <1>3
  <2> QED BY <2>1, <1>1, <1>2
<1>5. \A k \in 0..Len(ends) : start(k)' = start(k)
  BY <1>1, <1>4 DEF start
<1>6. /\ odd \subseteq odd'
      /\ \A k \in 1..Len(ends) : k \in odd' <=> k \in odd
      /\ Len(ends) + 1 \notin odd' => IsRequest(asked', Len(asked), Len(asked'))
  BY <1>1, <1>2, <1>4
<1>7. Len(asked') \in Nat /\ Len(asked) < Len(asked')
  BY <1>1, <1>3
<1> QED BY <1>1, <1>3, <1>4, <1>5, <1>6, <1>7

LEMMA Places ==
  ASSUME Inv, Layout, NEW k \in 0..Len(ends)
  PROVE  start(k) \in Nat /\ start(k) =< Len(asked)
         /\ (k < Len(ends) => /\ ends[k + 1] \in Nat /\ ends[k + 1] = start(k + 1)
                              /\ start(k) < ends[k + 1] /\ ends[k + 1] =< Len(asked))
<1>1. asked \in Seq(Token) /\ ends \in Seq(Nat) /\ Len(ends) \in Nat /\ Len(asked) \in Nat
  BY DEF Inv, TypeOK
<1>2. ASSUME NEW i \in 0..Len(ends) - 1
      PROVE  /\ ends[i + 1] \in Nat /\ ends[i + 1] = start(i + 1)
             /\ start(i) < ends[i + 1] /\ ends[i + 1] =< Len(asked)
  <2>1. i + 1 \in 1..Len(ends) /\ i + 1 # 0
    BY <1>1
  <2> QED BY <2>1, <1>1 DEF Layout, start
<1>3. CASE k = 0
  BY <1>1, <1>2, <1>3 DEF start
<1>4. CASE k # 0
  <2>1. k - 1 \in 0..Len(ends) - 1 /\ (k - 1) + 1 = k
    BY <1>1, <1>4
  <2>2. start(k) \in Nat /\ start(k) =< Len(asked)
    BY <2>1, <1>2
  <2>3. k < Len(ends) => k \in 0..Len(ends) - 1
    BY <1>1
  <2> QED BY <2>2, <2>3, <1>2
<1> QED BY <1>3, <1>4

LEMMA StartsRise ==
  ASSUME Inv, Layout, NEW i \in 0..Len(ends), NEW j \in 0..Len(ends), i < j
  PROVE  start(i) < start(j)
<1>1. Len(ends) \in Nat /\ j \in 1..Len(ends) /\ start(j) = ends[j]
  BY DEF Inv, TypeOK, start
<1>2. CASE i = 0
  <2>1. 1 \in 1..Len(ends) /\ 0 \in 0..Len(ends) /\ 0 < Len(ends) /\ 0 + 1 = 1
    BY <1>1
  <2>2. ends[1] \in Nat /\ start(0) < ends[1]
    BY <2>1, Places
  <2>3. 1 < j => ends[1] < ends[j]
    BY <1>1, <2>1 DEF Layout
  <2>4. ends[j] \in Nat /\ start(0) \in Nat
    BY <1>1, <2>1, Places
  <2> QED BY <1>1, <1>2, <2>2, <2>3, <2>4
<1>3. CASE i # 0
  <2>1. i \in 1..Len(ends) /\ start(i) = ends[i]
    BY <1>1, <1>3 DEF start
  <2> QED BY <1>1, <2>1 DEF Layout
<1> QED BY <1>2, <1>3

LEMMA AskExtends ==
  ASSUME Inv, Layout, NEW r \in Request, Ask(r)
  PROVE  Layout'
<1> DEFINE n == Len(ends)
           e == Len(asked')
<1>1. /\ asked \in Seq(Token) /\ Len(asked) \in Nat /\ n \in Nat
      /\ e \in Nat /\ Len(asked) < e
      /\ \A i \in 1..Len(asked) : asked'[i] = asked[i]
      /\ Len(ends') = n + 1 /\ ends'[n + 1] = e
      /\ \A k \in 1..n : ends'[k] = ends[k]
      /\ \A k \in 0..n : start(k)' = start(k)
      /\ \A k \in 1..n : k \in odd' <=> k \in odd
      /\ n + 1 \notin odd' => IsRequest(asked', Len(asked), e)
  BY AskStays
<1>2. /\ \A k \in 0..n : start(k) =< Len(asked) /\ start(k) \in Nat
      /\ \A k \in 0..n - 1 : /\ k + 1 \in 1..n /\ ends[k + 1] \in Nat
                             /\ start(k) < ends[k + 1] /\ ends[k + 1] =< Len(asked)
  <2>1. ASSUME NEW k \in 0..n PROVE start(k) =< Len(asked) /\ start(k) \in Nat
    BY Places
  <2>2. ASSUME NEW k \in 0..n - 1
        PROVE  /\ k + 1 \in 1..n /\ ends[k + 1] \in Nat
               /\ start(k) < ends[k + 1] /\ ends[k + 1] =< Len(asked)
    <3>1. k \in 0..n /\ k < n /\ k + 1 \in 1..n
      BY <1>1
    <3> QED BY <3>1, Places
  <2> QED BY <2>1, <2>2
<1>3. start(n) = Len(asked)
  BY DEF Layout
<1>4. Len(asked') = start(Len(ends))'
  BY <1>1 DEF start
<1> HIDE DEF e
<1>5. ASSUME NEW i \in 1..n + 1, NEW j \in 1..n + 1, i < j
      PROVE  ends'[i] < ends'[j]
  <2>1. i \in 1..n /\ ends[i] = start(i) /\ ends'[i] = ends[i] /\ ends[i] =< Len(asked)
        /\ ends[i] \in Nat
    BY <1>1, <1>2, <1>5 DEF start
  <2>2. CASE j \in 1..n
    BY <2>1, <2>2, <1>1, <1>5 DEF Layout
  <2>3. CASE j = n + 1
    BY <2>1, <2>3, <1>1
  <2> QED BY <2>2, <2>3
<1>6. ASSUME NEW k \in 0..n
      PROVE  start(k)' < ends'[k + 1] /\ ends'[k + 1] =< Len(asked')
  <2>1. CASE k \in 0..n - 1
    <3>1. /\ k \in 0..n /\ start(k)' = start(k) /\ k + 1 \in 1..n
          /\ ends'[k + 1] = ends[k + 1] /\ ends[k + 1] \in Nat
          /\ start(k) < ends[k + 1] /\ ends[k + 1] =< Len(asked)
      BY <2>1, <1>1, <1>2
    <3>2. Len(asked) =< Len(asked')
      BY <1>1 DEF e
    <3>3. Len(asked') \in Nat /\ Len(asked) \in Nat
      BY <1>1 DEF e
    <3> QED BY <3>1, <3>2, <3>3
  <2>2. CASE k = n
    <3>1. start(k)' = Len(asked) /\ ends'[k + 1] = Len(asked')
      BY <2>2, <1>1, <1>3 DEF e
    <3> QED BY <3>1, <1>1 DEF e
  <2> QED BY <2>1, <2>2, <1>1
<1>7. ASSUME NEW k \in 1..n + 1, k \notin odd'
      PROVE  IsRequest(asked', start(k - 1)', ends'[k])
  <2>1. CASE k \in 1..n
    <3>1. /\ k \notin odd /\ k - 1 \in 0..n - 1 /\ k - 1 \in 0..n /\ (k - 1) + 1 = k
          /\ ends'[k] = ends[k]
      BY <2>1, <1>1, <1>7
    <3>2. IsRequest(asked, start(k - 1), ends[k])
      BY <2>1, <3>1 DEF Layout
    <3>3. start(k - 1) \in Nat /\ ends[k] \in Nat /\ ends[k] =< Len(asked)
          /\ start(k - 1)' = start(k - 1)
      BY <3>1, <1>1, <1>2
    <3>4. IsRequest(asked', start(k - 1), ends[k])
      <4> DEFINE b == start(k - 1)
                 f == ends[k]
                 m == Len(asked)
      <4> HIDE DEF b, f, m
      <4>1. /\ b \in Nat /\ f \in Nat /\ m \in Nat /\ f =< m /\ IsRequest(asked, b, f)
            /\ \A i \in 1..m : asked'[i] = asked[i]
        BY <3>2, <3>3, <1>1 DEF b, f, m
      <4>2. IsRequest(asked', b, f)
        BY <4>1, SameRequest
      <4> QED BY <4>2 DEF b, f
    <3> QED BY <3>1, <3>3, <3>4
  <2>2. CASE k = n + 1
    <3>1. k - 1 = n /\ n \in 0..n
      BY <2>2, <1>1
    <3>2. start(k - 1)' = Len(asked)
      BY <3>1, <1>1, <1>3
    <3> QED BY <2>2, <3>2, <1>1, <1>7
  <2> QED BY <2>1, <2>2, <1>1
<1>8. /\ \A i, j \in 1..Len(ends') : i < j => ends'[i] < ends'[j]
      /\ \A k \in 1..Len(ends') : k \notin odd' => IsRequest(asked', start(k - 1)', ends'[k])
  BY <1>1, <1>5, <1>7
<1>9. \A k \in 0..Len(ends') - 1 : start(k)' < ends'[k + 1] /\ ends'[k + 1] =< Len(asked')
  <2>1. Len(ends') - 1 = n
    BY <1>1
  <2> QED BY <2>1, <1>6
<1> QED BY <1>4, <1>8, <1>9 DEF Layout

LEMMA LayoutStays ==
  ASSUME Layout, UNCHANGED <<asked, ends, odd>>
  PROVE  Layout'
  BY DEF Layout, start

(* The parser that has gone astray is so for good, and does not go astray  *)
(* by what the client asks for.                                            *)
LEMMA AstraySame ==
  ASSUME UNCHANGED <<ends, odd, parsed>>
  PROVE  astray' <=> astray
  BY DEF astray, start

LEMMA OddPlaces ==
  ASSUME Inv, Layout, NEW k \in odd
  PROVE  /\ Len(ends) \in Nat /\ k \in 1..Len(ends) /\ k - 1 \in 0..Len(ends)
         /\ start(k - 1) \in Nat
<1>1. Len(ends) \in Nat /\ odd \subseteq 1..Len(ends)
  BY DEF Inv, TypeOK
<1>2. k - 1 \in 0..Len(ends)
  BY <1>1
<1> QED BY <1>1, <1>2, Places

LEMMA AstrayStays ==
  ASSUME Inv, Layout, UNCHANGED <<ends, odd>>, parsed' \in Nat, parsed =< parsed', astray
  PROVE  astray'
<1>1. PICK k \in odd : start(k - 1) < parsed
  BY DEF astray
<1>2. start(k - 1) \in Nat /\ parsed \in Nat
  BY OddPlaces DEF Inv, TypeOK
<1>3. start(k - 1) < parsed'
  BY <1>1, <1>2
<1> QED BY <1>3 DEF astray, start

LEMMA AskAstray ==
  ASSUME Inv, Layout, NEW r \in Request, Ask(r)
  PROVE  astray' <=> astray
<1>1. /\ Len(asked) \in Nat /\ Len(ends) \in Nat
      /\ \A k \in 0..Len(ends) : start(k)' = start(k)
      /\ odd \subseteq odd' /\ odd \subseteq 1..Len(ends)
      /\ Len(ends') = Len(ends) + 1
      /\ \A k \in 1..Len(ends) : k \in odd' <=> k \in odd
  BY AskStays
<1>2. odd' \subseteq 1..Len(ends) + 1
  <2>1. odd' = odd \/ odd' = odd \cup {Len(ends')}
    BY DEF Ask
  <2>2. {Len(ends')} \subseteq 1..Len(ends) + 1 /\ 1..Len(ends) \subseteq 1..Len(ends) + 1
    BY <1>1
  <2> QED BY <2>1, <2>2, <1>1
<1>3. parsed' = parsed /\ parsed =< Len(asked) /\ parsed \in Nat
  BY SMTT(30) DEF Ask, clientOnly, input, Inv, TypeOK, InputIntact
<1>4. PICK n \in Nat : n = Len(ends)
  BY <1>1
<1>5. ASSUME NEW k \in odd PROVE start(k - 1)' = start(k - 1) /\ k \in odd'
  <2>1. k - 1 \in 0..Len(ends)
    BY <1>1
  <2> QED BY <2>1, <1>1
<1>6. ASSUME NEW k \in odd', start(k - 1)' < parsed' PROVE k \in odd
  <2>1. k # n + 1
    <3>1. start(n) = Len(asked) /\ start(n)' = start(n)
      BY <1>1, <1>4 DEF Layout
    <3>2. start((n + 1) - 1)' = Len(asked)
      BY <3>1
    <3> QED BY <3>2, <1>1, <1>3, <1>6
  <2>2. k \in 1..Len(ends)
    BY <2>1, <1>1, <1>2, <1>4
  <2> QED BY <2>2, <1>1
<1> QED BY <1>3, <1>5, <1>6 DEF astray

(* The line that the parser takes, as the client has said it.              *)
LEMMA LineAsAsked ==
  ASSUME Inv, open, lineEnds # {}
  PROVE  /\ lineEnd \in Nat \ {0} /\ parsed \in Nat /\ parsed + lineEnd =< received
         /\ received =< Len(asked) /\ asked \in Seq(Token)
         /\ asked[parsed + lineEnd] = "crlf"
         /\ \A i \in 1..lineEnd - 1 : asked[parsed + i] # "crlf"
         /\ Len(line) = lineEnd - 1 /\ line \in Seq(Token)
         /\ \A i \in 1..lineEnd - 1 : line[i] = asked[parsed + i]
<1>1. /\ parsed \in Nat /\ received \in Nat /\ received =< Len(asked) /\ parsed =< received
      /\ asked \in Seq(Token) /\ IsBuffer(inbuffer)
      /\ content(inbuffer) = SubSeq(asked, parsed + 1, received)
  BY SMTT(30) DEF Inv, TypeOK, InputIntact
<1>2. /\ content(inbuffer) \in Seq(Token)
      /\ Len(content(inbuffer)) = received - parsed
      /\ datasize(inbuffer) = received - parsed
      /\ \A i \in 1..received - parsed : content(inbuffer)[i] = asked[parsed + i]
  BY <1>1, ContentIsBytes, PieceElements
<1>3. /\ lineEnd \in 1..received - parsed /\ content(inbuffer)[lineEnd] = "crlf"
      /\ \A j \in 1..received - parsed : content(inbuffer)[j] = "crlf" => lineEnd =< j
  BY <1>2, LineEnds DEF lineEnds
<1> DEFINE L == lineEnd
<1>4. line = SubSeq(content(inbuffer), 0 + 1, L - 1)
  BY DEF line
<1> HIDE DEF L
<1>5. L \in Nat \ {0} /\ L =< received - parsed /\ L - 1 \in Nat /\ L - 1 =< Len(content(inbuffer))
  BY <1>1, <1>2, <1>3 DEF L
<1>6. /\ line \in Seq(Token) /\ Len(line) = L - 1
      /\ \A i \in 1..L - 1 : line[i] = content(inbuffer)[i]
  <2>1. line \in Seq(Token) /\ Len(line) = (L - 1) - 0
        /\ \A i \in 1..(L - 1) - 0 : line[i] = content(inbuffer)[0 + i]
    <3>1. 0 \in Nat /\ 0 =< L - 1
      BY <1>5
    <3> QED BY <3>1, <1>2, <1>4, <1>5, PieceElements
  <2> QED BY <2>1, <1>5
<1>7. ASSUME NEW i \in 1..L - 1
      PROVE  asked[parsed + i] # "crlf" /\ line[i] = asked[parsed + i]
  <2>1. i \in 1..received - parsed /\ ~(L =< i)
    BY <1>1, <1>5
  <2> QED BY <2>1, <1>2, <1>3, <1>6 DEF L
<1>8. asked[parsed + L] = "crlf" /\ parsed + L =< received
  BY <1>1, <1>2, <1>3, <1>5 DEF L
<1> QED BY <1>1, <1>5, <1>6, <1>7, <1>8 DEF L

LEMMA RequestAt ==
  ASSUME Inv, Layout, NEW k \in 0..Len(ends) - 1, k + 1 \notin odd
  PROVE  /\ start(k) \in Nat /\ ends[k + 1] \in Nat /\ ends[k + 1] =< Len(asked)
         /\ IsRequest(asked, start(k), ends[k + 1])
<1>1. Len(ends) \in Nat
  BY DEF Inv, TypeOK
<1>2. k \in 0..Len(ends) /\ k < Len(ends) /\ k + 1 \in 1..Len(ends) /\ (k + 1) - 1 = k
  BY <1>1
<1>3. IsRequest(asked, start((k + 1) - 1), ends[k + 1])
  BY <1>2 DEF Layout
<1> QED BY <1>2, <1>3, Places

(* Where the parser is: in the request after the k-th, which is exact,     *)
(* behind one of its lines, with all that its lines have said;             *)
InRequest(k, p, q) ==
  LET b == start(k) IN
  /\ k < Len(ends) /\ k + 1 \notin odd /\ b + 2 =< p /\ p < ends[k + 1]
  /\ asked[b + 1] = "req" /\ asked[p] = "crlf"
  /\ q.keepalive <=> some("keep", b + 1, p)
  /\ \/ /\ q.state = "header" /\ q.body = 0
        /\ \A i \in b + 2..p : ~isBlank(asked, i)
        /\ says(asked, b + 1, p, q.content_len)
     \/ /\ q.state = "body" /\ q.body < q.content_len
        /\ \E h \in b + 3..p : /\ headersEnd(asked, b, h)
                               /\ says(asked, b + 1, h, q.content_len)
                               /\ q.body = size(asked, h + 1, p)

(* or behind the k-th, with all that it has said, or with nothing.         *)
BehindIt(k, p, q) ==
  /\ p = start(k)
  /\ \/ q = initParser
     \/ /\ k > 0 /\ k \notin odd /\ q.state = "finish"
        /\ asked[start(k - 1) + 1] = "req"
        /\ q.keepalive <=> some("keep", start(k - 1) + 1, p)

Within(k) == InRequest(k, parsed, parser)
Behind(k) == BehindIt(k, parsed, parser)
At(k) == Within(k) \/ Behind(k)

LEMMA PlaceNext ==
  ASSUME UNCHANGED <<asked, ends, odd>>, NEW k
  PROVE  /\ Within(k)' <=> InRequest(k, parsed', parser')
         /\ Behind(k)' <=> BehindIt(k, parsed', parser')
  BY DEF Within, InRequest, Behind, BehindIt, some, isBlank, headersEnd, says, size, start,
         initParser

(* Before a line is taken the parser has not come to the end.              *)
LEMMA MoreToParse ==
  ASSUME Inv, Layout, NEW k \in 0..Len(ends), At(k), open, lineEnds # {}
  PROVE  /\ k \in 0..Len(ends) - 1 /\ Len(ends) \in Nat
         /\ start(k) \in Nat /\ start(k) =< parsed /\ parsed \in Nat
<1>1. /\ lineEnd \in Nat \ {0} /\ parsed \in Nat /\ parsed + lineEnd =< Len(asked)
      /\ Len(ends) \in Nat /\ Len(asked) \in Nat /\ Len(asked) = start(Len(ends))
      /\ received \in Nat
  BY LineAsAsked, SMTT(30) DEF Inv, TypeOK, Layout
<1>2. start(k) \in Nat
  BY Places
<1>3. start(k) =< parsed
  BY <1>1, <1>2 DEF At, Within, Behind, InRequest, BehindIt
<1>4. k # Len(ends)
  <2>1. CASE Within(k)
    BY <2>1, <1>1 DEF Within, InRequest
  <2>2. CASE Behind(k)
    BY <2>2, <1>1 DEF Behind, BehindIt
  <2> QED BY <2>1, <2>2 DEF At
<1> QED BY <1>1, <1>2, <1>3, <1>4

(* A request line                                                          *)
LEMMA RequestlineParsed ==
  ASSUME Inv, Layout, NEW k \in 0..Len(ends), At(k), parseRequestline, k + 1 \notin odd
  PROVE  Within(k)'
<1>1. /\ open /\ lineEnds # {} /\ parser.state = "requestline" /\ hasFields
      /\ parser' = [parser EXCEPT !.state = "header"]
      /\ parsed' = parsed + lineEnd /\ UNCHANGED <<asked, ends, odd>>
  BY DEF parseRequestline, lineIn, open, consume, client
<1>2. parsed = start(k) /\ parser = initParser
  BY <1>1 DEF At, Within, Behind, InRequest, BehindIt
<1>3. /\ k \in 0..Len(ends) - 1 /\ k < Len(ends) /\ parsed \in Nat
  BY <1>1, MoreToParse
<1> DEFINE p == parsed
           e == ends[k + 1]
<1>4. e \in Nat /\ IsRequest(asked, p, e)
  BY <1>2, <1>3, RequestAt
<1>5. /\ lineEnd \in Nat \ {0} /\ asked[p + lineEnd] = "crlf"
      /\ \A i \in 1..lineEnd - 1 : asked[p + i] # "crlf"
      /\ Len(line) = lineEnd - 1 /\ line \in Seq(Token)
      /\ \A i \in 1..lineEnd - 1 : line[i] = asked[p + i]
  BY <1>1, LineAsAsked
<1> HIDE DEF e, p
<1>6. asked[p + 1] # "crlf" /\ asked[p + 2] = "crlf" /\ p \in Nat
  BY <1>3, <1>4 DEF IsRequest, p
<1>7. lineEnd = 2
  <2>1. lineEnd # 1
    BY <1>5, <1>6
  <2>2. ~(lineEnd > 2)
    BY <1>5, <1>6
  <2> QED BY <2>1, <2>2, <1>5
<1>8. asked[p + 1] = "req"
  <2>1. PICK i \in DOMAIN line : line[i] = "req"
    BY <1>1 DEF hasFields
  <2>2. i = 1
    BY <2>1, <1>5, <1>7
  <2> QED BY <2>1, <2>2, <1>5, <1>7
<1>9. p + 2 < e
  <2>1. \E h \in p + 3..e : headersEnd(asked, p, h)
    BY <1>4, <1>8 DEF IsRequest
  <2> QED BY <2>1, <1>4, <1>6
<1>10. \A n \in p + 1..p + 2 : asked[n] \in {"req", "crlf"}
  <2>1. \A n \in p + 1..p + 2 : n = p + 1 \/ n = p + 2
    BY <1>6
  <2> QED BY <2>1, <1>6, <1>8
<1>11. \A i \in p + 2..p + 2 : ~isBlank(asked, i)
  <2>1. \A i \in p + 2..p + 2 : i - 1 = p + 1
    BY <1>6
  <2> QED BY <2>1, <1>6 DEF isBlank
<1>12. says(asked, p + 1, p + 2, 0)
  <2>1. "req" \notin DOMAIN Length /\ "crlf" \notin DOMAIN Length
    BY ConnectionSizes DEF Word
  <2> QED BY <2>1, <1>10 DEF says
<1>13. ~some("keep", p + 1, p + 2)
  BY <1>10 DEF some
<1>14. parser' = [state |-> "header", content_len |-> 0, body |-> 0, keepalive |-> FALSE]
  BY <1>1, <1>2 DEF initParser
<1>15. parsed' = p + 2
  BY <1>1, <1>7 DEF p
<1>16. InRequest(k, p + 2, parser')
  <2>1. start(k) = p /\ p + 2 =< p + 2
    BY <1>2, <1>6 DEF p
  <2> QED BY <2>1, <1>3, <1>6, <1>8, <1>9, <1>11, <1>12, <1>13, <1>14 DEF InRequest, e
<1> QED BY <1>1, <1>15, <1>16, PlaceNext

(* A line among the headers ends them, or is one and leaves more to come.  *)
LEMMA HeaderLine ==
  ASSUME Inv, Layout, NEW k \in 0..Len(ends), At(k), lineIn("header")
  PROVE  LET p == parsed  b == start(k)  e == ends[k + 1] IN
         /\ k \in 0..Len(ends) - 1 /\ Within(k) /\ b \in Nat /\ p \in Nat /\ e \in Nat
         /\ b + 2 =< p /\ IsRequest(asked, b, e)
         /\ \/ line = <<>> /\ lineEnd = 1 /\ headersEnd(asked, b, p + 1) /\ p + 1 =< e
            \/ /\ line = <<asked[p + 1]>> /\ lineEnd = 2 /\ p + 2 < e
               /\ asked[p + 1] \notin {"crlf", "nolen"} /\ asked[p + 2] = "crlf"
<1> DEFINE p == parsed
           b == start(k)
           e == ends[k + 1]
<1>1. open /\ lineEnds # {} /\ parser.state = "header"
  BY DEF lineIn, open
<1>2. Within(k)
  BY <1>1 DEF At, Behind, BehindIt, initParser
<1>3. /\ k \in 0..Len(ends) - 1 /\ b \in Nat /\ p \in Nat
  BY <1>1, MoreToParse
<1>4. k + 1 \notin odd
  BY <1>2 DEF Within, InRequest
<1>5. e \in Nat /\ IsRequest(asked, b, e)
  BY <1>3, <1>4, RequestAt
<1>6. /\ lineEnd \in Nat \ {0} /\ asked[p + lineEnd] = "crlf"
      /\ \A i \in 1..lineEnd - 1 : asked[p + i] # "crlf"
      /\ Len(line) = lineEnd - 1 /\ line \in Seq(Token)
      /\ \A i \in 1..lineEnd - 1 : line[i] = asked[p + i]
  BY <1>1, LineAsAsked
<1>7. /\ b + 2 =< p /\ p < e
      /\ asked[b + 1] = "req" /\ asked[p] = "crlf"
      /\ \A i \in b + 2..p : ~isBlank(asked, i)
  BY <1>1, <1>2 DEF Within, InRequest
<1> HIDE DEF p, b, e
<1>8. PICK h \in b + 3..e :
        /\ headersEnd(asked, b, h)
        /\ \A i \in b + 1..h - 1 : asked[i] = "crlf" \/ asked[i + 1] = "crlf"
        /\ \A i \in b + 1..h : asked[i] # "nolen"
  BY <1>5, <1>7 DEF IsRequest
<1>9. /\ h > p /\ asked[h] = "crlf" /\ asked[h - 1] = "crlf" /\ h \in Nat
      /\ \A i \in b + 2..h - 1 : ~isBlank(asked, i)
  <2>1. isBlank(asked, h) /\ \A i \in b + 2..h - 1 : ~isBlank(asked, i)
    BY <1>8 DEF headersEnd
  <2>2. ~(h =< p)
    <3>1. h =< p => h \in b + 2..p
      BY <1>3, <1>5
    <3> QED BY <3>1, <2>1, <1>7
  <2> QED BY <2>1, <2>2, <1>3, <1>5 DEF isBlank
<1>10. CASE asked[p + 1] = "crlf"
  <2>1. lineEnd = 1
    BY <1>6, <1>10
  <2>2. line = <<>>
    BY <2>1, <1>6
  <2>3. isBlank(asked, p + 1)
    <3>1. (p + 1) - 1 = p
      BY <1>3
    <3> QED BY <3>1, <1>7, <1>10 DEF isBlank
  <2>4. headersEnd(asked, b, p + 1)
    <3>1. (p + 1) - 1 = p
      BY <1>3
    <3> QED BY <3>1, <2>3, <1>7 DEF headersEnd
  <2>5. p + 1 =< e
    BY <1>3, <1>5, <1>7
  <2> QED BY <1>2, <1>3, <1>5, <1>7, <2>1, <2>2, <2>4, <2>5 DEF p, b, e
<1>11. CASE asked[p + 1] # "crlf"
  <2>1. h # p + 1
    BY <1>9, <1>11
  <2>2. p + 1 \in b + 1..h - 1 /\ p + 1 \in b + 1..h /\ p + 1 + 1 = p + 2
    BY <2>1, <1>3, <1>7, <1>9
  <2>3. asked[p + 2] = "crlf" /\ asked[p + 1] # "nolen"
    BY <2>2, <1>8, <1>11
  <2>4. lineEnd = 2
    <3>1. lineEnd # 1
      BY <1>6, <1>11
    <3>2. ~(lineEnd > 2)
      BY <2>3, <1>3, <1>6
    <3> QED BY <3>1, <3>2, <1>6
  <2>5. line = <<asked[p + 1]>>
    BY <2>4, <1>6
  <2>6. p + 2 < e
    <3>1. h # p + 2
      <4>1. (p + 2) - 1 = p + 1
        BY <1>3
      <4> QED BY <4>1, <1>9, <1>11
    <3> QED BY <3>1, <2>1, <1>3, <1>5, <1>9
  <2> QED BY <1>2, <1>3, <1>5, <1>7, <1>11, <2>3, <2>4, <2>5, <2>6 DEF p, b, e
<1> QED BY <1>10, <1>11

LEMMA SomeGrows ==
  ASSUME NEW t, NEW i \in Nat, NEW j \in Nat, i =< j + 1
  PROVE  some(t, i, j + 1) <=> some(t, i, j) \/ asked[j + 1] = t
<1>1. \A n \in i..j + 1 : n \in i..j \/ n = j + 1
  OBVIOUS
<1>2. j + 1 \in i..j + 1 /\ \A n \in i..j : n \in i..j + 1
  OBVIOUS
<1> QED BY <1>1, <1>2 DEF some

(* A header                                                                *)
LEMMA HeaderParsed ==
  ASSUME Inv, Layout, NEW k \in 0..Len(ends), At(k), parseHeader
  PROVE  Within(k)'
<1>1. /\ lineIn("header") /\ line # <<>> /\ parser.state = "header"
      /\ parser' = [parser EXCEPT !.content_len = IF isLength THEN Length[line[1]] ELSE @,
                                  !.keepalive = @ \/ line = <<"keep">>]
      /\ parsed' = parsed + lineEnd /\ UNCHANGED <<asked, ends, odd>>
  BY DEF parseHeader, lineIn, consume, client
<1> DEFINE p == parsed
           b == start(k)
           e == ends[k + 1]
           w == asked[p + 1]
<1>2. /\ k \in 0..Len(ends) - 1 /\ Within(k) /\ b \in Nat /\ p \in Nat /\ e \in Nat
      /\ b + 2 =< p /\ line = <<w>> /\ lineEnd = 2 /\ p + 2 < e
      /\ w # "crlf" /\ asked[p + 2] = "crlf"
  BY <1>1, HeaderLine
<1>3. /\ k < Len(ends) /\ k + 1 \notin odd /\ asked[b + 1] = "req"
      /\ parser.keepalive <=> some("keep", b + 1, p)
      /\ parser.body = 0 /\ \A i \in b + 2..p : ~isBlank(asked, i)
      /\ says(asked, b + 1, p, parser.content_len)
  BY <1>1, <1>2 DEF Within, InRequest
<1>4. parser \in [state : {"requestline", "header", "body", "finish"},
                  content_len : Nat, body : Nat, keepalive : BOOLEAN]
  BY DEF Inv, TypeOK
<1> HIDE DEF p, b, e, w
<1>5. /\ isLength <=> w \in DOMAIN Length
      /\ line[1] = w /\ (line = <<"keep">> <=> w = "keep")
  BY <1>2 DEF isLength
<1> DEFINE n == IF w \in DOMAIN Length THEN Length[w] ELSE parser.content_len
<1>6. /\ parser'.state = "header" /\ parser'.body = 0 /\ parser'.content_len = n
      /\ parser'.keepalive <=> parser.keepalive \/ w = "keep"
  BY <1>1, <1>3, <1>4, <1>5
<1> HIDE DEF n
<1>7. says(asked, b + 1, p + 2, n)
  <2>1. says(asked, b + 1, p + 1, n)
    <3>1. b + 1 \in Nat /\ b + 1 =< p + 1
      BY <1>2
    <3> QED BY <3>1, <1>2, <1>3, SaysMore DEF n, w
  <2>2. "crlf" \notin DOMAIN Length
    BY ConnectionSizes DEF Word
  <2>3. b + 1 \in Nat /\ p + 1 \in Nat /\ b + 1 =< (p + 1) + 1 /\ (p + 1) + 1 = p + 2
    BY <1>2
  <2> QED BY <2>1, <2>2, <2>3, <1>2, SaysMore
<1>8. some("keep", b + 1, p + 2) <=> some("keep", b + 1, p) \/ w = "keep"
  <2>1. some("keep", b + 1, p + 1) <=> some("keep", b + 1, p) \/ w = "keep"
    <3>1. b + 1 \in Nat /\ b + 1 =< p + 1
      BY <1>2
    <3> QED BY <3>1, <1>2, SomeGrows DEF w
  <2>2. b + 1 \in Nat /\ p + 1 \in Nat /\ b + 1 =< (p + 1) + 1 /\ (p + 1) + 1 = p + 2
    BY <1>2
  <2>3. some("keep", b + 1, (p + 1) + 1) <=>
          some("keep", b + 1, p + 1) \/ asked[(p + 1) + 1] = "keep"
    BY <2>2, SomeGrows
  <2> QED BY <2>1, <2>2, <2>3, <1>2
<1>9. \A i \in b + 2..p + 2 : ~isBlank(asked, i)
  <2>1. ~isBlank(asked, p + 1) /\ ~isBlank(asked, p + 2)
    <3>1. (p + 2) - 1 = p + 1
      BY <1>2
    <3> QED BY <3>1, <1>2 DEF isBlank, w
  <2>2. \A i \in b + 2..p + 2 : i \in b + 2..p \/ i = p + 1 \/ i = p + 2
    BY <1>2
  <2> QED BY <2>1, <2>2, <1>3
<1>10. InRequest(k, p + 2, parser')
  <2>1. b + 2 =< p + 2
    BY <1>2
  <2> QED BY <2>1, <1>2, <1>3, <1>6, <1>7, <1>8, <1>9 DEF InRequest, b, e
<1>11. parsed' = p + 2
  BY <1>1, <1>2 DEF p
<1> QED BY <1>1, <1>10, <1>11, PlaceNext

(* The blank line: there is a body if and only if the headers say so.      *)
LEMMA HeadersEndParsed ==
  ASSUME Inv, Layout, NEW k \in 0..Len(ends), At(k), parseHeadersEnd
  PROVE  /\ k < Len(ends) /\ parsed' =< ends[k + 1]
         /\ \/ Within(k)' /\ parser'.state # "finish"
            \/ Behind(k + 1)' /\ parser'.state = "finish"
<1>1. /\ lineIn("header") /\ line = <<>> /\ parser.state = "header"
      /\ parser' = [parser EXCEPT !.state = IF parser.content_len = 0 THEN "finish" ELSE "body"]
      /\ parsed' = parsed + lineEnd /\ UNCHANGED <<asked, ends, odd>>
  BY DEF parseHeadersEnd, lineIn, consume, client
<1> DEFINE p == parsed
           b == start(k)
           e == ends[k + 1]
<1>2. /\ k \in 0..Len(ends) - 1 /\ Within(k) /\ b \in Nat /\ p \in Nat /\ e \in Nat
      /\ b + 2 =< p /\ IsRequest(asked, b, e)
      /\ lineEnd = 1 /\ headersEnd(asked, b, p + 1) /\ p + 1 =< e
  BY <1>1, HeaderLine
<1>3. /\ k < Len(ends) /\ k + 1 \notin odd /\ asked[b + 1] = "req"
      /\ parser.keepalive <=> some("keep", b + 1, p)
      /\ parser.body = 0
      /\ says(asked, b + 1, p, parser.content_len)
  BY <1>1, <1>2 DEF Within, InRequest
<1>4. parser \in [state : {"requestline", "header", "body", "finish"},
                  content_len : Nat, body : Nat, keepalive : BOOLEAN]
  BY DEF Inv, TypeOK
<1>5. e = start(k + 1) /\ start((k + 1) - 1) = b
  BY <1>2 DEF start
<1> HIDE DEF p, b, e
<1> DEFINE n == parser.content_len
<1>6. /\ parser'.body = 0 /\ parser'.content_len = n /\ n \in Nat
      /\ parser'.keepalive = parser.keepalive
      /\ parser'.state = IF n = 0 THEN "finish" ELSE "body"
  <2> DEFINE s == IF n = 0 THEN "finish" ELSE "body"
  <2>1. parser' = [parser EXCEPT !.state = s]
    BY <1>1
  <2> HIDE DEF s
  <2>2. /\ parser'.body = parser.body /\ parser'.content_len = n
        /\ parser'.keepalive = parser.keepalive /\ parser'.state = s
    BY <2>1, <1>4
  <2> QED BY <2>2, <1>3, <1>4 DEF s
<1> HIDE DEF n
<1>7. parsed' = p + 1
  BY <1>1, <1>2 DEF p
<1>8. asked[p + 1] = "crlf"
  BY <1>2 DEF headersEnd, isBlank
<1>9. says(asked, b + 1, p + 1, n)
  <2>1. b + 1 \in Nat /\ b + 1 =< p + 1 /\ "crlf" \notin DOMAIN Length
    BY <1>2, ConnectionSizes DEF Word
  <2> QED BY <2>1, <1>2, <1>3, <1>8, SaysMore DEF n
<1>10. some("keep", b + 1, p + 1) <=> some("keep", b + 1, p)
  <2>1. b + 1 \in Nat /\ b + 1 =< p + 1
    BY <1>2
  <2> QED BY <2>1, <1>2, <1>8, SomeGrows
<1>11. /\ n = size(asked, p + 2, e)
       /\ p + 1 < e => asked[e] = "crlf" /\ asked[e - 1] # "crlf"
  <2>1. PICK h \in b + 3..e :
          /\ headersEnd(asked, b, h)
          /\ says(asked, b + 1, h, size(asked, h + 1, e))
          /\ h < e => asked[e] = "crlf" /\ asked[e - 1] # "crlf"
    BY <1>2, <1>3 DEF IsRequest
  <2>2. h = p + 1
    <3>1. h \in Nat /\ p + 1 \in Nat /\ b + 2 =< h /\ b + 2 =< p + 1
      BY <1>2
    <3> QED BY <3>1, <2>1, <1>2, HeadersEndOnce
  <2>3. says(asked, b + 1, p + 1, size(asked, p + 2, e))
    <3>1. (p + 1) + 1 = p + 2
      BY <1>2
    <3> QED BY <2>1, <2>2, <3>1
  <2>4. n = size(asked, p + 2, e)
    <3>1. b + 1 \in Nat /\ p + 1 \in Nat
      BY <1>2
    <3> QED BY <3>1, <2>3, <1>9, SaysOnce
  <2> QED BY <2>1, <2>2, <2>4
<1>12. size(asked, p + 2, p + 1) = 0
  <2>1. p + 2 \in Nat /\ p + 1 \in Nat /\ p + 2 =< (p + 1) + 1 /\ p + 2 = (p + 1) + 1
    BY <1>2
  <2> QED BY <2>1, Sizes
<1>13. CASE n = 0
  <2>1. e = p + 1
    <3> SUFFICES ASSUME p + 1 < e PROVE FALSE
      BY <1>2
    <3>1. e - 1 # p + 1 /\ asked[e - 1] # "crlf"
      BY <1>8, <1>11
    <3>2. e - 1 \in (p + 1) + 1..e
      BY <3>1, <1>2
    <3>3. p + 2 \in Nat /\ p + 1 \in Nat /\ p + 2 =< (p + 1) + 1
      BY <1>2
    <3>4. size(asked, p + 2, p + 1) < size(asked, p + 2, e)
      BY <3>1, <3>2, <3>3, <1>2, Sizes
    <3> QED BY <3>4, <1>11, <1>12, <1>13
  <2>2. parser'.state = "finish"
    BY <1>6, <1>13
  <2>3. BehindIt(k + 1, p + 1, parser')
    <3>1. k + 1 > 0
      BY <1>2
    <3> QED BY <3>1, <2>1, <2>2, <1>3, <1>5, <1>6, <1>10 DEF BehindIt
  <2>4. Behind(k + 1)'
    BY <2>3, <1>1, <1>7, PlaceNext
  <2> QED BY <2>2, <2>4, <1>2, <1>3, <1>7 DEF e
<1>14. CASE n # 0
  <2>1. p + 1 < e
    <3>1. e # p + 1
      BY <1>11, <1>12, <1>14
    <3> QED BY <3>1, <1>2
  <2>2. parser'.state = "body"
    BY <1>6, <1>14
  <2>3. parser'.body < parser'.content_len
    BY <1>6, <1>14
  <2>4. p + 1 \in b + 3..p + 1 /\ parser'.body = size(asked, (p + 1) + 1, p + 1)
    <3>1. (p + 1) + 1 = p + 2
      BY <1>2
    <3> QED BY <3>1, <1>2, <1>6, <1>12
  <2>5. InRequest(k, p + 1, parser')
    <3>1. b + 2 =< p + 1
      BY <1>2
    <3> QED BY <3>1, <2>1, <2>2, <2>3, <2>4, <1>2, <1>3, <1>6, <1>8, <1>9, <1>10
        DEF InRequest, b, e
  <2>6. Within(k)'
    BY <2>5, <1>1, <1>7, PlaceNext
  <2> QED BY <2>2, <2>6, <1>2, <1>3, <1>7 DEF e
<1> QED BY <1>13, <1>14

(* A line of a body is part of it, and the last one fills it.              *)
LEMMA BodyLine ==
  ASSUME Inv, Layout, NEW k \in 0..Len(ends), At(k), lineIn("body")
  PROVE  LET p == parsed  b == start(k)  e == ends[k + 1]  q == parsed + lineEnd
             n == parser.body + Len(line) IN
         /\ k \in 0..Len(ends) - 1 /\ Within(k) /\ b \in Nat /\ p \in Nat /\ e \in Nat
         /\ lineEnd \in Nat \ {0} /\ q =< e /\ n =< parser.content_len
         /\ n = parser.content_len <=> q = e
         /\ asked[q] = "crlf" /\ \A i \in p + 1..q : asked[i] # "keep"
         /\ \E h \in b + 3..p : /\ headersEnd(asked, b, h)
                                /\ says(asked, b + 1, h, parser.content_len)
                                /\ n = size(asked, h + 1, q)
<1> DEFINE p == parsed
           b == start(k)
           e == ends[k + 1]
           L == lineEnd
           n == parser.body + Len(line)
           c == parser.content_len
<1>1. open /\ lineEnds # {} /\ parser.state = "body"
  BY DEF lineIn, open
<1>2. Within(k)
  BY <1>1 DEF At, Behind, BehindIt, initParser
<1>3. /\ k \in 0..Len(ends) - 1 /\ b \in Nat /\ p \in Nat
  BY <1>1, MoreToParse
<1>4. k + 1 \notin odd /\ b + 2 =< p /\ p < e /\ asked[b + 1] = "req" /\ asked[p] = "crlf"
  BY <1>1, <1>2 DEF Within, InRequest
<1>5. e \in Nat /\ IsRequest(asked, b, e)
  BY <1>3, <1>4, RequestAt
<1>6. /\ L \in Nat \ {0} /\ asked[p + L] = "crlf"
      /\ \A i \in 1..L - 1 : asked[p + i] # "crlf"
      /\ Len(line) = L - 1
  BY <1>1, LineAsAsked
<1>7. parser.body \in Nat /\ c \in Nat
  BY DEF Inv, TypeOK
<1>8. PICK h \in b + 3..p : /\ headersEnd(asked, b, h)
                            /\ says(asked, b + 1, h, c)
                            /\ parser.body = size(asked, h + 1, p)
                            /\ parser.body < c
  BY <1>1, <1>2 DEF Within, InRequest
<1> HIDE DEF p, b, e, L, c
<1>9. /\ \A i \in h + 1..e : asked[i] \in {"body", "crlf"}
      /\ c = size(asked, h + 1, e)
      /\ asked[e] = "crlf" /\ asked[e - 1] # "crlf"
  <2>1. PICK g \in b + 3..e :
          /\ headersEnd(asked, b, g)
          /\ \A i \in g + 1..e : asked[i] \in {"body", "crlf"}
          /\ says(asked, b + 1, g, size(asked, g + 1, e))
          /\ g < e => asked[e] = "crlf" /\ asked[e - 1] # "crlf"
    BY <1>4, <1>5 DEF IsRequest
  <2>2. g = h
    <3>1. g \in Nat /\ h \in Nat /\ b + 2 =< g /\ b + 2 =< h
      BY <1>3, <1>5
    <3> QED BY <3>1, <2>1, <1>3, <1>8, HeadersEndOnce
  <2>3. c = size(asked, h + 1, e)
    <3>1. b + 1 \in Nat /\ h \in Nat
      BY <1>3
    <3>2. says(asked, b + 1, h, size(asked, h + 1, e))
      BY <2>1, <2>2
    <3> QED BY <3>1, <3>2, <1>8, SaysOnce
  <2>4. h < e
    BY <1>3, <1>4, <1>5
  <2> QED BY <2>1, <2>2, <2>3, <2>4
<1>10. h + 1 \in Nat /\ h + 1 =< p + 1
  BY <1>3
<1>11. p + L =< e
  <2> SUFFICES ASSUME p + L > e PROVE FALSE
    BY <1>3, <1>5, <1>6
  <2>1. e - p \in 1..L - 1 /\ p + (e - p) = e
    BY <1>3, <1>4, <1>5, <1>6
  <2> QED BY <2>1, <1>6, <1>9
<1>12. n = size(asked, h + 1, p + L)
  <2>1. size(asked, h + 1, p + L) = size(asked, h + 1, p) + (L - 1)
    <3>1. \A l \in Nat \ {0} :
            asked[p + l] = "crlf" /\ (\A m \in 1..l - 1 : asked[p + m] # "crlf")
              => size(asked, h + 1, p + l) = size(asked, h + 1, p) + (l - 1)
      BY <1>3, <1>10, Sizes
    <3> QED BY <3>1, <1>6
  <2> QED BY <2>1, <1>6, <1>8
<1>13. n =< c /\ (n = c <=> p + L = e)
  <2>1. p + L \in Nat /\ h + 1 =< (p + L) + 1
    BY <1>3, <1>6, <1>10
  <2>2. CASE p + L = e
    BY <2>2, <1>7, <1>9, <1>12
  <2>3. CASE p + L # e
    <3>1. p + L < e /\ e - 1 # p + L
      BY <2>1, <2>3, <1>5, <1>6, <1>9, <1>11
    <3>2. e - 1 \in (p + L) + 1..e
      BY <3>1, <2>1, <1>5
    <3>3. size(asked, h + 1, p + L) < size(asked, h + 1, e)
      BY <3>1, <3>2, <2>1, <1>5, <1>9, <1>10, Sizes
    <3>4. n < c
      BY <3>3, <1>9, <1>12
    <3>5. n \in Nat
      BY <2>1, <1>10, <1>12, Sizes
    <3> QED BY <2>3, <3>4, <3>5, <1>7
  <2> QED BY <2>2, <2>3
<1>14. \A i \in p + 1..p + L : asked[i] # "keep"
  <2>1. \A i \in p + 1..p + L : i \in h + 1..e
    BY <1>3, <1>5, <1>6, <1>10, <1>11
  <2> QED BY <2>1, <1>9
<1> HIDE DEF n
<1>15. \E g \in b + 3..p : /\ headersEnd(asked, b, g) /\ says(asked, b + 1, g, c)
                           /\ n = size(asked, g + 1, p + L)
  BY <1>8, <1>12
<1> QED BY <1>2, <1>3, <1>5, <1>6, <1>11, <1>13, <1>14, <1>15 DEF p, b, e, L, c, n

(* The body, line by line                                                  *)
LEMMA BodyParsed ==
  ASSUME Inv, Layout, NEW k \in 0..Len(ends), At(k), parseBody
  PROVE  /\ k < Len(ends) /\ parsed' =< ends[k + 1]
         /\ \/ Within(k)' /\ parser'.state # "finish"
            \/ Behind(k + 1)' /\ parser'.state = "finish"
<1> DEFINE p == parsed
           b == start(k)
           e == ends[k + 1]
           q == parsed + lineEnd
           n == parser.body + Len(line)
           c == parser.content_len
<1>1. /\ lineIn("body") /\ parser.state = "body"
      /\ parser' = [parser EXCEPT !.body = @ + Len(line),
                                  !.state = IF n = c THEN "finish" ELSE @]
      /\ parsed' = q /\ UNCHANGED <<asked, ends, odd>>
  BY DEF parseBody, lineIn, consume, client
<1>2. /\ k \in 0..Len(ends) - 1 /\ Within(k) /\ b \in Nat /\ p \in Nat /\ e \in Nat
      /\ lineEnd \in Nat \ {0} /\ q =< e /\ n =< c
      /\ n = c <=> q = e
      /\ asked[q] = "crlf" /\ \A i \in p + 1..q : asked[i] # "keep"
      /\ \E h \in b + 3..p : /\ headersEnd(asked, b, h)
                             /\ says(asked, b + 1, h, c)
                             /\ n = size(asked, h + 1, q)
  BY <1>1, BodyLine
<1>3. /\ k < Len(ends) /\ k + 1 \notin odd /\ b + 2 =< p /\ asked[b + 1] = "req"
      /\ parser.keepalive <=> some("keep", b + 1, p)
  BY <1>1, <1>2 DEF Within, InRequest
<1>4. parser \in [state : {"requestline", "header", "body", "finish"},
                  content_len : Nat, body : Nat, keepalive : BOOLEAN]
  BY DEF Inv, TypeOK
<1>5. e = start(k + 1) /\ start((k + 1) - 1) = b
  BY <1>2 DEF start
<1>6. /\ parser'.body = n /\ parser'.content_len = c /\ parser'.keepalive = parser.keepalive
      /\ parser'.state = IF n = c THEN "finish" ELSE "body"
  BY <1>1, <1>4
<1>7. n \in Int /\ c \in Nat /\ q \in Nat /\ p < q
  <2>1. Len(line) = lineEnd - 1
    BY <1>1, LineAsAsked DEF lineIn, open
  <2> QED BY <2>1, <1>2, <1>4
<1> HIDE DEF p, b, e, q, n, c
<1>8. some("keep", b + 1, q) <=> some("keep", b + 1, p)
  <2>1. \A i \in b + 1..q : i \in b + 1..p \/ i \in p + 1..q
    BY <1>2, <1>7
  <2>2. \A i \in b + 1..p : i \in b + 1..q
    BY <1>2, <1>7
  <2> QED BY <2>1, <2>2, <1>2 DEF some
<1>9. CASE q = e
  <2>1. parser'.state = "finish"
    BY <1>2, <1>6, <1>9
  <2>2. BehindIt(k + 1, q, parser')
    <3>1. k + 1 > 0
      BY <1>2
    <3> QED BY <3>1, <2>1, <1>3, <1>5, <1>6, <1>8, <1>9 DEF BehindIt
  <2>3. Behind(k + 1)'
    BY <2>2, <1>1, PlaceNext
  <2> QED BY <2>1, <2>3, <1>1, <1>2, <1>3 DEF e
<1>10. CASE q # e
  <2>1. parser'.state = "body" /\ q < e /\ n < c
    BY <1>2, <1>6, <1>7, <1>10
  <2>2. \E h \in b + 3..q : /\ headersEnd(asked, b, h) /\ says(asked, b + 1, h, c)
                            /\ n = size(asked, h + 1, q)
    <3>1. \A h \in b + 3..p : h \in b + 3..q
      BY <1>2, <1>7
    <3> QED BY <3>1, <1>2
  <2>3. b + 2 =< q
    BY <1>2, <1>3, <1>7
  <2>4. InRequest(k, q, parser')
    BY <2>1, <2>2, <2>3, <1>2, <1>3, <1>6, <1>8 DEF InRequest, b, e
  <2>5. Within(k)'
    BY <2>4, <1>1, PlaceNext
  <2> QED BY <2>1, <2>5, <1>1, <1>2, <1>3 DEF e
<1> QED BY <1>9, <1>10

(* A line that the parser takes belongs to the request that is next, or is *)
(* where the parser meets with one that is not exact.                      *)
LEMMA ParsePlace ==
  ASSUME Inv, Layout, NEW k \in 0..Len(ends), At(k),
         parseRequestline \/ parseHeadersEnd \/ parseHeader \/ parseBody
  PROVE  /\ UNCHANGED <<asked, ends, odd>> /\ k < Len(ends)
         /\ parsed \in Nat /\ parsed' \in Nat /\ parsed < parsed'
         /\ \/ k + 1 \in odd /\ parsed = start(k)
            \/ /\ k + 1 \notin odd /\ parsed' =< ends[k + 1]
               /\ \/ Within(k)' /\ parser'.state # "finish"
                  \/ Behind(k + 1)' /\ parser'.state = "finish"
<1>1. /\ open /\ lineEnds # {} /\ parser.state \in {"requestline", "header", "body"}
      /\ UNCHANGED <<asked, ends, odd>> /\ parsed' = parsed + lineEnd
  BY DEF parseRequestline, parseHeadersEnd, parseHeader, parseBody, lineIn, consume, client,
         open
<1>2. /\ k \in 0..Len(ends) - 1 /\ Len(ends) \in Nat /\ parsed \in Nat
      /\ lineEnd \in Nat \ {0} /\ ends[k + 1] \in Nat
  <2>1. k \in 0..Len(ends) - 1 /\ Len(ends) \in Nat /\ parsed \in Nat /\ lineEnd \in Nat \ {0}
    BY <1>1, MoreToParse, LineAsAsked
  <2>2. k < Len(ends)
    BY <2>1
  <2> QED BY <2>1, <2>2, Places
<1>3. k < Len(ends) /\ parsed' \in Nat /\ parsed < parsed'
  BY <1>1, <1>2
<1>4. CASE k + 1 \in odd
  <2>1. ~Within(k)
    BY <1>4 DEF Within, InRequest
  <2>2. parsed = start(k)
    BY <2>1 DEF At, Behind, BehindIt
  <2> QED BY <2>2, <1>1, <1>2, <1>3, <1>4
<1>5. CASE k + 1 \notin odd
  <2>1. CASE parseRequestline \/ parseHeader
    <3>1. Within(k)'
      BY <2>1, <1>5, RequestlineParsed, HeaderParsed
    <3>2. parser'.state \in {"header", "body"} /\ parsed' < ends[k + 1]
      BY <3>1, <1>1, PlaceNext DEF InRequest
    <3>3. parsed' =< ends[k + 1]
      BY <3>2, <1>2, <1>3
    <3> QED BY <3>1, <3>2, <3>3, <1>1, <1>2, <1>3, <1>5
  <2>2. CASE parseHeadersEnd \/ parseBody
    <3>1. /\ parsed' =< ends[k + 1]
          /\ \/ Within(k)' /\ parser'.state # "finish"
             \/ Behind(k + 1)' /\ parser'.state = "finish"
      BY <2>2, HeadersEndParsed, BodyParsed
    <3> QED BY <3>1, <1>1, <1>2, <1>3, <1>5
  <2> QED BY <2>1, <2>2
<1> QED BY <1>4, <1>5

(* What is answered: every request behind the parser, but for the one that *)
(* is being answered, and perhaps a line that is no request.  There is more*)
(* to come after an answer only if a request has asked for that.  All this *)
(* as long as the parser is not astray: that it is whole answers holds also*)
(* when it is.                                                             *)
keepIn(k) == some("keep", 1, start(k))

replying == pc \in {"status", "headers", "page", "write"} \/ (pc = "wait" /\ armed = "out")

formed == CASE pc = "headers" -> 1
            [] pc = "page" -> 2
            [] pc = "write" \/ (pc = "wait" /\ armed = "out") -> 3
            [] OTHER -> 0

Answered(k) ==
  LET n == IF parser.state = "finish" THEN k - 1 ELSE k IN
  /\ Len(told) = 3 * n + formed
  /\ IF replying
     THEN IF parser.state = "finish" THEN keepalive <=> keepIn(k)
          ELSE parser.state = "requestline" /\ ~keepalive
     ELSE /\ parser.state = "finish" => pc = "parse"
          /\ keepalive <=> keepIn(n)
          /\ told # <<>> => keepalive

Framing == open /\ ~astray => \E k \in 0..Len(ends) : At(k) /\ Answered(k)

Formed == open => \E n \in Nat : Len(told) = 3 * n + formed

LEMMA AtStays ==
  ASSUME UNCHANGED <<asked, ends, odd, parsed, parser>>, NEW k
  PROVE  (At(k)' <=> At(k)) /\ (Within(k)' <=> Within(k)) /\ (Behind(k)' <=> Behind(k))
<1>1. (Within(k)' <=> Within(k)) /\ (Behind(k)' <=> Behind(k))
  BY PlaceNext DEF Within, Behind
<1> QED BY <1>1 DEF At

LEMMA KeepInStays ==
  ASSUME UNCHANGED <<asked, ends>>
  PROVE  \A k : keepIn(k)' <=> keepIn(k)
  BY DEF keepIn, some, start

LEMMA InitFrames == Init => Layout /\ Framing /\ AbortsOnlyOnInexact
<1> SUFFICES ASSUME Init PROVE Layout /\ Framing /\ AbortsOnlyOnInexact
  OBVIOUS
<1>1. Layout
  BY DEF Init, Layout, start
<1>2. At(0) /\ 0 \in 0..Len(ends)
  BY DEF Init, At, Behind, BehindIt, start
<1>3. ~keepIn(0)
  BY DEF keepIn, some, start
<1>4. Answered(0)
  BY <1>3 DEF Init, Answered, replying, formed, initParser
<1> QED BY <1>1, <1>2, <1>4 DEF Framing, AbortsOnlyOnInexact, Init

LEMMA CloseFrames ==
  ASSUME Inv, Layout, NEW end \in {"closed", "expired"}, handleClose(end)
  PROVE  Layout' /\ Framing' /\ AbortsOnlyOnInexact'
<1>1. UNCHANGED <<asked, ends, odd>> /\ ~open' /\ pc' # "aborted"
  BY DEF handleClose, client, open
<1> QED BY <1>1, LayoutStays DEF Framing, AbortsOnlyOnInexact

(* Steps that only change where the handler is, or what it waits for.      *)
LEMMA MoveFrames ==
  ASSUME Inv, Layout, Framing, open, UNCHANGED <<asked, ends, odd, parsed, parser, told>>,
         \A k \in 0..Len(ends) : At(k) /\ Answered(k) => Answered(k)'
  PROVE  Layout' /\ Framing'
<1>1. Layout'
  BY LayoutStays
<1>2. ASSUME ~astray' PROVE \E k \in 0..Len(ends') : At(k)' /\ Answered(k)'
  <2>1. ~astray
    BY <1>2, AstraySame
  <2>2. PICK k \in 0..Len(ends) : At(k) /\ Answered(k)
    BY <2>1 DEF Framing
  <2>3. At(k)' /\ Answered(k)' /\ k \in 0..Len(ends')
    BY <2>2, AtStays
  <2> QED BY <2>3
<1> QED BY <1>1, <1>2 DEF Framing

LEMMA EventFrames ==
  ASSUME Inv, Layout, Framing, handleRequest \/ handleWrite
  PROVE  Layout' /\ Framing' /\ AbortsOnlyOnInexact'
<1>1. /\ open /\ UNCHANGED <<asked, ends, odd, parsed, parser, told, keepalive>>
      /\ \/ pc = "wait" /\ armed = "in" /\ pc' = "read"
         \/ pc = "wait" /\ armed = "out" /\ pc' = "write"
  BY DEF handleRequest, handleWrite, event, client, output, input, open
<1>2. ASSUME NEW k \in 0..Len(ends), At(k) /\ Answered(k) PROVE Answered(k)'
  BY <1>1, <1>2, KeepInStays DEF Answered, replying, formed
<1> QED BY <1>1, <1>2, MoveFrames DEF AbortsOnlyOnInexact

LEMMA ReadFrames ==
  ASSUME Inv, Layout, Framing, Read
  PROVE  Layout' /\ Framing' /\ AbortsOnlyOnInexact'
<1>1. CASE handleClose("closed")
  BY <1>1, CloseFrames
<1>2. CASE ~handleClose("closed")
  <2>1. /\ UNCHANGED <<asked, ends, odd, parsed, parser, told, keepalive>>
        /\ pc = "read" /\ pc' \in {"read", "parse"}
    BY <1>2 DEF Read, readSome, readv, readEnd, client, output, input
  <2>2. ASSUME NEW k \in 0..Len(ends), At(k) /\ Answered(k) PROVE Answered(k)'
    BY <2>1, <2>2, KeepInStays DEF Answered, replying, formed
  <2> QED BY <2>1, <2>2, MoveFrames DEF AbortsOnlyOnInexact, open
<1> QED BY <1>1, <1>2

LEMMA ParseFrames ==
  ASSUME Inv, Layout, Framing, parseRequestline \/ parseHeadersEnd \/ parseHeader \/ parseBody
  PROVE  Layout' /\ Framing' /\ AbortsOnlyOnInexact'
<1>1. /\ pc = "parse" /\ pc' = "parse" /\ open /\ parser.state # "finish"
      /\ UNCHANGED <<asked, ends, odd, told, keepalive>>
      /\ parsed' = parsed + lineEnd
  BY DEF parseRequestline, parseHeadersEnd, parseHeader, parseBody, lineIn, consume,
         client, output, open
<1>2. Layout' /\ AbortsOnlyOnInexact'
  BY <1>1, LayoutStays DEF AbortsOnlyOnInexact
<1>3. ASSUME ~astray' PROVE \E k \in 0..Len(ends') : At(k)' /\ Answered(k)'
  <2>1. parsed \in Nat /\ lineEnd \in Nat /\ parsed' \in Nat /\ parsed =< parsed'
    <3>1. lineEnds # {}
      BY DEF parseRequestline, parseHeadersEnd, parseHeader, parseBody, lineIn
    <3>2. parsed \in Nat /\ lineEnd \in Nat
      BY <1>1, <3>1, LineAsAsked
    <3> QED BY <3>2, <1>1
  <2>2. ~astray
    BY <2>1, <1>1, <1>3, AstrayStays
  <2>3. PICK k \in 0..Len(ends) : At(k) /\ Answered(k)
    BY <1>1, <2>2 DEF Framing
  <2>4. /\ k < Len(ends) /\ parsed < parsed' /\ Len(ends) \in Nat
        /\ \/ k + 1 \in odd /\ parsed = start(k)
           \/ Within(k)' /\ parser'.state # "finish"
           \/ Behind(k + 1)' /\ parser'.state = "finish"
    BY <2>3, ParsePlace DEF Inv, TypeOK
  <2>5. ~(k + 1 \in odd /\ parsed = start(k))
    <3> SUFFICES ASSUME k + 1 \in odd, parsed = start(k) PROVE FALSE
      OBVIOUS
    <3>1. start((k + 1) - 1)' = parsed
      BY <1>1 DEF start
    <3>2. k + 1 \in odd'
      BY <1>1
    <3> QED BY <3>1, <3>2, <2>4, <1>3 DEF astray
  <2>6. Len(told) = 3 * k /\ (keepalive <=> keepIn(k)) /\ (told # <<>> => keepalive)
    BY <1>1, <2>3, <2>4 DEF Answered, replying, formed
  <2>7. CASE Within(k)' /\ parser'.state # "finish"
    <3>1. Answered(k)'
      BY <1>1, <2>6, <2>7, KeepInStays DEF Answered, replying, formed
    <3> QED BY <1>1, <2>3, <2>7, <3>1 DEF At
  <2>8. CASE Behind(k + 1)' /\ parser'.state = "finish"
    <3>1. k + 1 \in 0..Len(ends') /\ (k + 1) - 1 = k
      BY <1>1, <2>4
    <3>2. Answered(k + 1)'
      BY <1>1, <2>6, <2>8, <3>1, KeepInStays DEF Answered, replying, formed
    <3> QED BY <2>8, <3>1, <3>2 DEF At
  <2> QED BY <2>4, <2>5, <2>7, <2>8
<1> QED BY <1>2, <1>3 DEF Framing

(* parseHeader, parseBody: only a request that is not exact makes them     *)
(* throw.                                                                  *)
LEMMA AbortFrames ==
  ASSUME Inv, Layout, Framing, abort
  PROVE  Layout' /\ Framing' /\ AbortsOnlyOnInexact'
<1>1. open /\ ~open' /\ UNCHANGED <<asked, ends, odd, parsed>>
  BY DEF abort, lineIn, open, client, input
<1>2. Layout' /\ Framing'
  BY <1>1, LayoutStays DEF Framing
<1>3. astray
  <2> SUFFICES ASSUME ~astray PROVE FALSE
    OBVIOUS
  <2>1. PICK k \in 0..Len(ends) : At(k)
    BY <1>1 DEF Framing
  <2>2. CASE lineIn("header") /\ line = <<"nolen">>
    <3>1. line = <<>> \/ (line = <<asked[parsed + 1]>> /\ asked[parsed + 1] # "nolen")
      BY <2>1, <2>2, HeaderLine
    <3> QED BY <3>1, <2>2
  <2>3. CASE lineIn("body") /\ parser.body + Len(line) > parser.content_len
    <3>1. parser.body + Len(line) =< parser.content_len /\ lineEnd \in Nat \ {0}
      BY <2>1, <2>3, BodyLine
    <3>2. Len(line) = lineEnd - 1
      BY <2>3, LineAsAsked DEF lineIn, open
    <3>3. parser.body \in Nat /\ parser.content_len \in Nat
      BY DEF Inv, TypeOK
    <3> QED BY <2>3, <3>1, <3>2, <3>3
  <2> QED BY <2>2, <2>3 DEF abort
<1>4. astray'
  BY <1>1, <1>3, AstraySame
<1> QED BY <1>2, <1>4 DEF AbortsOnlyOnInexact

LEMMA NoRequestFrames ==
  ASSUME Inv, Arming, Layout, Framing, noRequest
  PROVE  Layout' /\ Framing' /\ AbortsOnlyOnInexact'
<1>1. /\ pc = "parse" /\ pc' = "wait" /\ armed = "off" /\ parser.state # "finish"
      /\ UNCHANGED <<asked, ends, odd, parsed, parser, told, keepalive, armed>>
  BY DEF noRequest, lineIn, Arming, client, output, input
<1>2. ASSUME NEW k \in 0..Len(ends), At(k) /\ Answered(k) PROVE Answered(k)'
  BY <1>1, <1>2, KeepInStays DEF Answered, replying, formed
<1> QED BY <1>1, <1>2, MoveFrames DEF AbortsOnlyOnInexact, open

(* Parsing is over behind a request that has been made.                    *)
LEMMA FinishedBehind ==
  ASSUME NEW k \in 0..Len(ends), Len(ends) \in Nat, At(k), parser.state = "finish"
  PROVE  /\ k - 1 \in 0..Len(ends) - 1 /\ (k - 1) + 1 = k /\ parsed = start(k)
         /\ Behind(k) /\ k \notin odd /\ asked[start(k - 1) + 1] = "req"
         /\ parser.keepalive <=> some("keep", start(k - 1) + 1, start(k))
<1>1. ~Within(k)
  BY DEF Within, InRequest
<1>2. Behind(k) /\ k > 0
  BY <1>1 DEF At, Behind, BehindIt, initParser
<1>3. /\ parsed = start(k) /\ k \notin odd /\ asked[start(k - 1) + 1] = "req"
      /\ parser.keepalive <=> some("keep", start(k - 1) + 1, start(k))
  BY <1>2 DEF Behind, BehindIt, initParser
<1>4. k - 1 \in 0..Len(ends) - 1
  BY <1>2
<1>5. (k - 1) + 1 = k
  OBVIOUS
<1> QED BY <1>2, <1>3, <1>4, <1>5

(* A request asks to be kept, or an earlier one has.                       *)
LEMMA KeepInNext ==
  ASSUME Inv, Layout, NEW k \in 0..Len(ends) - 1
  PROVE  keepIn(k + 1) <=> keepIn(k) \/ some("keep", start(k) + 1, start(k + 1))
<1>1. k \in 0..Len(ends) /\ k < Len(ends)
  BY DEF Inv, TypeOK
<1>2. start(k) \in Nat /\ start(k + 1) \in Nat /\ start(k) < start(k + 1)
  BY <1>1, Places
<1>3. \A n : n \in 1..start(k + 1) <=> n \in 1..start(k) \/ n \in start(k) + 1..start(k + 1)
  BY <1>2
<1> QED BY <1>3 DEF keepIn, some

(* GET_REQUEST and BAD_REQUEST: an answer to what the parser is behind, or *)
(* the last one.                                                           *)
LEMMA AnswerFrames ==
  ASSUME Inv, Layout, Framing, answer \/ answerBad
  PROVE  Layout' /\ Framing' /\ AbortsOnlyOnInexact'
<1>1. /\ pc = "parse" /\ pc' = "status" /\ open
      /\ UNCHANGED <<asked, ends, odd, parsed, parser, told>>
  BY DEF answer, answerBad, refuse, lineIn, Answer, open, client, output, input
<1>2. ASSUME NEW k \in 0..Len(ends), At(k) /\ Answered(k) PROVE Answered(k)'
  <2>1. CASE answer
    <3>1. parser.state = "finish" /\ keepalive' = (keepalive \/ parser.keepalive)
      BY <2>1 DEF answer
    <3>2. Len(told) = 3 * (k - 1) + 0 /\ (keepalive <=> keepIn(k - 1))
      BY <3>1, <1>1, <1>2 DEF Answered, replying, formed
    <3>3. /\ k - 1 \in 0..Len(ends) - 1 /\ (k - 1) + 1 = k
          /\ parser.keepalive <=> some("keep", start(k - 1) + 1, start(k))
      <4>1. Len(ends) \in Nat
        BY DEF Inv, TypeOK
      <4> QED BY <4>1, <3>1, <1>2, FinishedBehind
    <3>4. keepIn(k) <=> keepIn(k - 1) \/ some("keep", start(k - 1) + 1, start(k))
      BY <3>3, KeepInNext
    <3>5. keepalive' <=> keepIn(k)'
      BY <3>1, <3>2, <3>3, <3>4, <1>1, KeepInStays
    <3> QED BY <3>1, <3>2, <3>5, <1>1 DEF Answered, replying, formed
  <2>2. CASE answerBad
    BY <2>2, <1>1, <1>2 DEF answerBad, refuse, lineIn, Answered, replying, formed
  <2> QED BY <2>1, <2>2
<1> QED BY <1>1, <1>2, MoveFrames DEF AbortsOnlyOnInexact

(* HttpResponse::setResponse: one part more of this answer.                *)
LEMMA ResponseFrames ==
  ASSUME Inv, Layout, Framing, setResponse
  PROVE  Layout' /\ Framing' /\ AbortsOnlyOnInexact'
<1>1. /\ UNCHANGED <<asked, ends, odd, parsed, parser, keepalive>>
      /\ Len(told') = Len(told) + 1
      /\ \/ pc = "status" /\ pc' = "headers"
         \/ pc = "headers" /\ pc' = "page"
         \/ pc = "page" /\ pc' = "write"
  BY DEF setResponse, Answer, client, input, Inv, TypeOK
<1>2. Layout' /\ open /\ AbortsOnlyOnInexact'
  BY <1>1, LayoutStays DEF open, AbortsOnlyOnInexact
<1>3. ASSUME ~astray' PROVE \E k \in 0..Len(ends') : At(k)' /\ Answered(k)'
  <2>1. PICK k \in 0..Len(ends) : At(k) /\ Answered(k)
    BY <1>1, <1>2, <1>3, AstraySame DEF Framing
  <2>2. Len(told) \in Nat
    BY DEF Inv, TypeOK
  <2>3. Answered(k)'
    BY <1>1, <2>1, <2>2, KeepInStays DEF Answered, replying, formed
  <2>4. At(k)' /\ k \in 0..Len(ends')
    BY <1>1, <2>1, AtStays
  <2> QED BY <2>3, <2>4
<1> QED BY <1>2, <1>3 DEF Framing

(* What is left of an answer goes, or waits for space; the connection goes *)
(* on with the next request only if this is no last answer.                *)
LEMMA WriteFrames ==
  ASSUME Inv, Layout, Framing, Write
  PROVE  Layout' /\ Framing' /\ AbortsOnlyOnInexact'
<1>1. CASE writeSome \/ writeBlocks
  <2>1. /\ open /\ UNCHANGED <<asked, ends, odd, parsed, parser, told, keepalive>>
        /\ pc = "write"
        /\ pc' = "write" \/ (pc' = "wait" /\ armed' = "out")
    BY <1>1 DEF writeSome, write, writeBlocks, waitFor, open, client, output, input
  <2>2. ASSUME NEW k \in 0..Len(ends), At(k) /\ Answered(k) PROVE Answered(k)'
    BY <2>1, <2>2, KeepInStays DEF Answered, replying, formed
  <2> QED BY <2>1, <2>2, MoveFrames DEF AbortsOnlyOnInexact
<1>2. CASE writeFails \/ writeCloses
  BY <1>2, CloseFrames DEF writeFails, writeCloses
<1>3. CASE writeKeeps
  <2>1. /\ open /\ UNCHANGED <<asked, ends, odd, parsed, told, keepalive>> /\ keepalive
        /\ pc = "write" /\ pc' = "wait" /\ armed' = "in" /\ parser' = initParser
    BY <1>3 DEF writeKeeps, keepWith, open, client, output, input
  <2>2. Layout' /\ AbortsOnlyOnInexact'
    BY <2>1, LayoutStays DEF AbortsOnlyOnInexact
  <2>3. ASSUME ~astray' PROVE \E k \in 0..Len(ends') : At(k)' /\ Answered(k)'
    <3>1. PICK k \in 0..Len(ends) : At(k) /\ Answered(k)
      BY <2>1, <2>3, AstraySame DEF Framing
    <3>2. parser.state = "finish" /\ keepIn(k) /\ Len(told) = 3 * (k - 1) + 3
      BY <2>1, <3>1 DEF Answered, replying, formed
    <3>3. Len(ends) \in Nat /\ k \in Nat
      BY DEF Inv, TypeOK
    <3>4. Behind(k)'
      <4>1. parsed = start(k)
        BY <3>1, <3>2, <3>3, FinishedBehind
      <4> QED BY <4>1, <2>1 DEF Behind, BehindIt, start, initParser
    <3>5. Answered(k)'
      BY <2>1, <3>2, <3>3, KeepInStays DEF Answered, replying, formed, initParser
    <3> QED BY <2>1, <3>4, <3>5 DEF At
  <2> QED BY <2>2, <2>3 DEF Framing
<1> QED BY <1>1, <1>2, <1>3 DEF Write

LEMMA AskFrames ==
  ASSUME Inv, Layout, Framing, NEW r \in Request, Ask(r)
  PROVE  Layout' /\ Framing' /\ AbortsOnlyOnInexact'
<1>1. /\ UNCHANGED <<pc, armed, parser, keepalive, told, parsed>>
      /\ open
  BY DEF Ask, clientOnly, input
<1>2. /\ asked \in Seq(Token) /\ Len(asked) \in Nat /\ Len(ends) \in Nat
      /\ \A n \in 1..Len(asked) : asked'[n] = asked[n]
      /\ Len(ends') = Len(ends) + 1
      /\ \A k \in 1..Len(ends) : ends'[k] = ends[k]
      /\ \A k \in 0..Len(ends) : start(k)' = start(k)
      /\ \A k \in 1..Len(ends) : k \in odd' <=> k \in odd
  BY AskStays
<1>3. parsed \in Nat /\ parsed =< Len(asked)
  BY SMTT(30) DEF Inv, TypeOK, InputIntact
<1>4. ASSUME NEW t, NEW i \in Nat, NEW j \in Nat, j =< Len(asked)
      PROVE  some(t, i + 1, j)' <=> some(t, i + 1, j)
  <2>1. \A n \in i + 1..j : asked'[n] = asked[n]
    BY <1>2, <1>4
  <2> QED BY <2>1 DEF some
<1>5. ASSUME NEW k \in 0..Len(ends)
      PROVE  keepIn(k)' <=> keepIn(k)
  <2>1. start(k) \in Nat /\ start(k) =< Len(asked) /\ start(k)' = start(k)
    BY Places, <1>2
  <2>2. some("keep", 0 + 1, start(k))' <=> some("keep", 0 + 1, start(k))
    BY <2>1, <1>4
  <2> QED BY <2>1, <2>2 DEF keepIn, some
<1>6. ASSUME NEW k \in 0..Len(ends), Within(k) PROVE Within(k)'
  <2> DEFINE b == start(k)
             c == parser.content_len
  <2>1. /\ k < Len(ends) /\ k + 1 \notin odd /\ b + 2 =< parsed /\ parsed < ends[k + 1]
        /\ asked[b + 1] = "req" /\ asked[parsed] = "crlf"
        /\ parser.keepalive <=> some("keep", b + 1, parsed)
        /\ \/ /\ parser.state = "header" /\ parser.body = 0
              /\ \A i \in b + 2..parsed : ~isBlank(asked, i)
              /\ says(asked, b + 1, parsed, c)
           \/ /\ parser.state = "body" /\ parser.body < c
              /\ \E h \in b + 3..parsed : /\ headersEnd(asked, b, h)
                                          /\ says(asked, b + 1, h, c)
                                          /\ parser.body = size(asked, h + 1, parsed)
    BY <1>6 DEF Within, InRequest
  <2>2. b \in Nat /\ start(k)' = b /\ k + 1 \in 1..Len(ends) /\ k < Len(ends')
        /\ ends'[k + 1] = ends[k + 1] /\ (k + 1 \in odd' <=> k + 1 \in odd)
    <3>1. k + 1 \in 1..Len(ends)
      BY <2>1, <1>2
    <3> QED BY <3>1, <2>1, <1>2, Places
  <2> HIDE DEF b, c
  <2>3. asked'[b + 1] = "req" /\ asked'[parsed] = "crlf"
    <3>1. b + 1 \in 1..Len(asked) /\ parsed \in 1..Len(asked)
      BY <2>1, <2>2, <1>2, <1>3
    <3> QED BY <3>1, <2>1, <1>2
  <2>4. some("keep", b + 1, parsed)' <=> some("keep", b + 1, parsed)
    <3>1. \A n \in b + 1..parsed : asked'[n] = asked[n]
      BY <2>2, <1>2, <1>3
    <3>2. b' = b
      BY <2>2 DEF b
    <3> QED BY <3>1, <3>2, <1>1 DEF some
  <2>5. /\ \A i \in 2..parsed : isBlank(asked', i) <=> isBlank(asked, i)
        /\ \A h \in b + 2..parsed : headersEnd(asked', b, h) <=> headersEnd(asked, b, h)
        /\ \A j \in 0..parsed : says(asked', b + 1, j, c) <=> says(asked, b + 1, j, c)
        /\ \A i \in Nat \ {0}, j \in 0..parsed : size(asked', i, j) = size(asked, i, j)
    <3>1. \A n \in 1..parsed : asked'[n] = asked[n]
      BY <1>2, <1>3
    <3>2. b + 1 \in Nat \ {0}
      BY <2>2
    <3> QED BY <3>1, <3>2, <2>2, <1>3, SamePrefix
  <2>6. CASE parser.state = "header"
    <3>1. parser.body = 0 /\ says(asked, b + 1, parsed, c)
          /\ \A i \in b + 2..parsed : ~isBlank(asked, i)
      BY <2>1, <2>6
    <3>2. \A i \in b + 2..parsed : i \in 2..parsed
      BY <2>2
    <3>3. \A i \in b + 2..parsed : ~isBlank(asked', i)
      BY <3>1, <3>2, <2>5
    <3>4. says(asked', b + 1, parsed, c)
      BY <3>1, <2>5, <1>3
    <3> QED BY <2>1, <2>2, <2>3, <2>4, <2>6, <3>1, <3>3, <3>4, <1>1
        DEF Within, InRequest, b, c, some
  <2>7. CASE parser.state = "body"
    <3>1. PICK h \in b + 3..parsed : /\ headersEnd(asked, b, h) /\ says(asked, b + 1, h, c)
                                     /\ parser.body = size(asked, h + 1, parsed)
      BY <2>1, <2>7
    <3>2. h \in b + 2..parsed /\ h \in 0..parsed /\ h + 1 \in Nat \ {0} /\ parsed \in 0..parsed
      BY <2>2, <1>3
    <3>3. /\ headersEnd(asked', b, h) /\ says(asked', b + 1, h, c)
          /\ parser.body = size(asked', h + 1, parsed)
      BY <3>1, <3>2, <2>5
    <3>4. parser.body < c
      BY <2>1, <2>7
    <3> QED BY <2>1, <2>2, <2>3, <2>4, <2>7, <3>3, <3>4, <1>1
        DEF Within, InRequest, b, c, some
  <2> QED BY <2>1, <2>6, <2>7
<1>7. ASSUME NEW k \in 0..Len(ends), Behind(k) PROVE Behind(k)'
  <2>1. start(k)' = start(k) /\ start(k) \in Nat /\ start(k) =< Len(asked)
    BY <1>2, Places
  <2>2. CASE parser = initParser
    BY <2>1, <2>2, <1>1, <1>7 DEF Behind, BehindIt, initParser
  <2>3. CASE parser # initParser
    <3>1. /\ k > 0 /\ k \notin odd /\ parser.state = "finish" /\ parsed = start(k)
          /\ asked[start(k - 1) + 1] = "req"
          /\ parser.keepalive <=> some("keep", start(k - 1) + 1, parsed)
      BY <2>3, <1>7 DEF Behind, BehindIt
    <3>2. k - 1 \in 0..Len(ends) /\ k - 1 < Len(ends) /\ (k - 1) + 1 = k /\ k \notin odd'
      BY <3>1, <1>2
    <3>3. start(k - 1)' = start(k - 1) /\ start(k - 1) \in Nat /\ start(k - 1) < start(k)
      BY <3>2, <1>2, Places
    <3>4. asked'[start(k - 1) + 1] = asked[start(k - 1) + 1]
      <4>1. start(k - 1) + 1 \in 1..Len(asked)
        BY <3>3, <2>1, <1>2
      <4> QED BY <4>1, <1>2
    <3>5. some("keep", start(k - 1) + 1, start(k))' <=> some("keep", start(k - 1) + 1, start(k))
      BY <3>3, <2>1, <1>4
    <3> QED BY <3>1, <3>2, <3>3, <3>4, <3>5, <2>1, <1>1
        DEF Behind, BehindIt, initParser, some
  <2> QED BY <2>2, <2>3
<1>8. ASSUME NEW k \in 0..Len(ends), Answered(k), At(k) PROVE Answered(k)'
  <2>1. k - 1 \in 0..Len(ends) \/ parser.state # "finish"
    BY <1>2, <1>8, FinishedBehind
  <2>2. (replying' <=> replying) /\ formed' = formed
    BY <1>1 DEF replying, formed
  <2> QED BY <2>1, <2>2, <1>1, <1>5, <1>8 DEF Answered
<1>9. ASSUME ~astray' PROVE \E k \in 0..Len(ends') : At(k)' /\ Answered(k)'
  <2>1. PICK k \in 0..Len(ends) : At(k) /\ Answered(k)
    BY <1>1, <1>9, AskAstray DEF Framing
  <2>2. k \in 0..Len(ends')
    BY <1>2
  <2> QED BY <2>1, <2>2, <1>6, <1>7, <1>8 DEF At
<1>10. AbortsOnlyOnInexact'
  BY <1>1 DEF AbortsOnlyOnInexact, open
<1> QED BY <1>9, <1>10, AskExtends DEF Framing

LEMMA ClientFrames ==
  ASSUME Inv, Layout, Framing, AbortsOnlyOnInexact,
         UNCHANGED <<asked, ends, odd, received, parsed, parser, told, keepalive, pc, armed>>
  PROVE  Layout' /\ Framing' /\ AbortsOnlyOnInexact'
<1>1. Layout' /\ (astray' <=> astray)
  BY LayoutStays, AstraySame
<1>2. \A k : (At(k)' <=> At(k)) /\ (Answered(k)' <=> Answered(k))
  BY AtStays, KeepInStays DEF Answered, replying, formed
<1> QED BY <1>1, <1>2 DEF Framing, open, AbortsOnlyOnInexact

LEMMA NextFrames ==
  Inv /\ Arming /\ Layout /\ Framing /\ AbortsOnlyOnInexact /\ [Next]_vars
    => Layout' /\ Framing' /\ AbortsOnlyOnInexact'
<1> SUFFICES ASSUME Inv, Arming, Layout, Framing, AbortsOnlyOnInexact, [Next]_vars
             PROVE  Layout' /\ Framing' /\ AbortsOnlyOnInexact'
  OBVIOUS
<1>1. CASE handleRequest \/ handleWrite
  BY <1>1, EventFrames
<1>2. CASE Read
  BY <1>2, ReadFrames
<1>3. CASE processCore
  BY <1>3, ParseFrames, AbortFrames, NoRequestFrames, AnswerFrames, ResponseFrames
     DEF processCore
<1>4. CASE Write
  BY <1>4, WriteFrames
<1>5. CASE handleExpire
  BY <1>5, CloseFrames DEF handleExpire
<1>6. CASE \E r \in Request : Ask(r)
  BY <1>6, AskFrames
<1>7. CASE Arrive \/ HangUp \/ Drain \/ UNCHANGED vars
  <2>1. UNCHANGED <<asked, ends, odd, received, parsed, parser, told, keepalive, pc, armed>>
    BY <1>7 DEF Arrive, HangUp, Drain, clientOnly, vars, client, input, output
  <2> QED BY <2>1, ClientFrames
<1> QED BY <1>1, <1>2, <1>3, <1>4, <1>5, <1>6, <1>7 DEF Next, Server

(* What is answered is whole answers and what is done of the one in work.  *)
LEMMA NextForms == Inv /\ Arming /\ Formed /\ [Next]_vars => Formed'
<1> SUFFICES ASSUME Inv, Arming, Formed, [Next]_vars, open'
             PROVE  \E n \in Nat : Len(told') = 3 * n + formed'
  BY DEF Formed
<1>1. CASE setResponse
  <2>1. PICK n \in Nat : Len(told) = 3 * n + formed
    BY <1>1 DEF setResponse, Answer, Formed, open
  <2>2. /\ Len(told') = Len(told) + 1
        /\ \/ pc = "status" /\ pc' = "headers"
           \/ pc = "headers" /\ pc' = "page"
           \/ pc = "page" /\ pc' = "write"
    BY <1>1 DEF setResponse, Answer, Inv, TypeOK
  <2>3. formed \in Nat /\ formed' = formed + 1
    BY <2>2 DEF formed
  <2> QED BY <2>1, <2>2, <2>3
<1>2. CASE writeKeeps
  <2>1. PICK n \in Nat : Len(told) = 3 * n + 3
    BY <1>2 DEF writeKeeps, keepWith, Formed, open, formed
  <2>2. told' = told /\ formed' = 0
    BY <1>2 DEF writeKeeps, keepWith, output, formed
  <2>3. Len(told') = 3 * (n + 1) + formed' /\ n + 1 \in Nat
    BY <2>1, <2>2
  <2> QED BY <2>3
<1>3. CASE ~setResponse /\ ~writeKeeps
  <2>1. told' = told /\ open /\ formed' = formed
    <3>1. CASE handleRequest \/ handleWrite
      BY <3>1 DEF handleRequest, handleWrite, event, output, open, formed
    <3>2. CASE Read \/ handleExpire
      BY <3>2 DEF Read, readSome, readv, readEnd, handleExpire, handleClose, output, open, formed
    <3>3. CASE parseRequestline \/ parseHeadersEnd \/ parseHeader \/ parseBody
      BY <3>3 DEF parseRequestline, parseHeadersEnd, parseHeader, parseBody, lineIn, consume,
                  output, open, formed
    <3>4. CASE abort \/ answer \/ answerBad
      BY <3>4 DEF abort, answer, answerBad, refuse, lineIn, Answer, output, open, formed
    <3>5. CASE noRequest
      BY <3>5 DEF noRequest, lineIn, output, open, formed, Arming
    <3>6. CASE writeSome \/ writeBlocks \/ writeFails \/ writeCloses
      BY <3>6 DEF writeSome, write, writeBlocks, waitFor, writeFails, writeCloses, handleClose,
                  output, open, formed
    <3>7. CASE (\E r \in Request : Ask(r)) \/ Arrive \/ HangUp \/ Drain
      BY <3>7 DEF Ask, Arrive, HangUp, Drain, clientOnly, open, formed
    <3>8. CASE UNCHANGED vars
      BY <3>8 DEF vars, output, open, formed
    <3> QED BY <1>3, <3>1, <3>2, <3>3, <3>4, <3>5, <3>6, <3>7, <3>8
        DEF Next, Server, processCore, Write
  <2> QED BY <2>1 DEF Formed
<1> QED BY <1>1, <1>2, <1>3

LEMMA InitForms == Init => Formed
<1> SUFFICES ASSUME Init PROVE Len(told) = 3 * 0 + formed
  BY DEF Formed
<1> QED BY DEF Init, formed

Grammar == Inv /\ Arming /\ Layout /\ Framing /\ AbortsOnlyOnInexact /\ Formed

LEMMA InitGrammar == Init => Grammar
  BY InitEstablishes, InitArms, InitFrames, InitForms DEF Grammar

LEMMA NextGrammar == Grammar /\ [Next]_vars => Grammar'
  BY NextKeeps, NextArms, NextFrames, NextForms DEF Grammar

LEMMA GrammarHolds == Spec => []Grammar
  BY InitGrammar, NextGrammar, PTL DEF Spec

(* HttpParser::parseBody, parseHeader: exact requests never end the        *)
(* process, of any number, in any pieces and with bodies of any lines: if  *)
(* it ends then the parser has begun with one that is not.                 *)
THEOREM AbortCorrect == Spec => []AbortsOnlyOnInexact
<1>1. Grammar => AbortsOnlyOnInexact
  BY DEF Grammar
<1> QED BY <1>1, GrammarHolds, PTL

-----------------------------------------------------------------------------
(* The requests that are whole in the first n tokens are the first ones.   *)
LEMMA WholeInPrefix ==
  ASSUME Inv, Layout, NEW n \in Nat, NEW k \in 0..Len(ends),
         start(k) =< n, k < Len(ends) => n < ends[k + 1]
  PROVE  {i \in 1..Len(ends) : ends[i] =< n} = 1..k /\ wholeIn(n) = k
<1>1. Len(ends) \in Nat /\ k \in Nat /\ ends \in Seq(Nat)
  BY DEF Inv, TypeOK
<1>2. ASSUME NEW i \in 1..Len(ends) PROVE ends[i] =< n <=> i \in 1..k
  <2>1. CASE i \in 1..k
    <3>1. k \in 1..Len(ends) /\ k # 0 /\ start(k) = ends[k]
      BY <2>1, <1>1 DEF start
    <3>2. i < k => ends[i] < ends[k]
      BY <3>1 DEF Layout
    <3>3. ends[i] \in Nat /\ ends[k] \in Nat
      BY <3>1, <1>1
    <3> QED BY <2>1, <3>1, <3>2, <3>3, <1>1
  <2>2. CASE i \notin 1..k
    <3>1. k < Len(ends) /\ k + 1 \in 1..Len(ends) /\ k + 1 =< i
      BY <2>2, <1>1
    <3>2. k + 1 < i => ends[k + 1] < ends[i]
      BY <3>1 DEF Layout
    <3>3. ends[i] \in Nat /\ ends[k + 1] \in Nat
      BY <3>1, <1>1
    <3> QED BY <2>2, <3>1, <3>2, <3>3, <1>1
  <2> QED BY <2>1, <2>2
<1>3. {i \in 1..Len(ends) : ends[i] =< n} = 1..k
  BY <1>1, <1>2
<1>4. Cardinality(1..k) = k
  <2>1. Cardinality(1..k) = IF 1 > k THEN 0 ELSE k - 1 + 1
    BY <1>1, FS_Interval
  <2> QED BY <2>1, <1>1
<1> QED BY <1>3, <1>4 DEF wholeIn

LEMMA WholeAt ==
  ASSUME Grammar, NEW k \in 0..Len(ends), At(k)
  PROVE  /\ parsed \in Nat /\ k \in Nat /\ start(k) =< parsed
         /\ k < Len(ends) => parsed < ends[k + 1]
         /\ wholeIn(parsed) = k
<1>1. Inv /\ Layout /\ parsed \in Nat /\ k \in Nat
  BY DEF Grammar, Inv, TypeOK
<1>2. start(k) \in Nat /\ (k < Len(ends) => start(k) < ends[k + 1] /\ ends[k + 1] \in Nat)
  BY <1>1, Places
<1>3. start(k) =< parsed /\ (k < Len(ends) => parsed < ends[k + 1])
  BY <1>1, <1>2 DEF At, Within, Behind, InRequest, BehindIt
<1> QED BY <1>1, <1>3, WholeInPrefix

LEMMA FramingFramed == Grammar => Framed
<1> SUFFICES ASSUME Grammar, open, ~astray
             PROVE  /\ parser.state \in {"requestline", "finish"} <=>
                         parsed \in {0} \cup {ends[i] : i \in DOMAIN ends}
                    /\ parser.state = "requestline" => parser = initParser
  BY DEF Framed
<1>1. PICK k \in 0..Len(ends) : At(k)
  BY DEF Grammar, Framing
<1>2. Inv /\ Layout /\ Len(ends) \in Nat /\ ends \in Seq(Nat) /\ DOMAIN ends = 1..Len(ends)
  BY DEF Grammar, Inv, TypeOK
<1>3. CASE Behind(k)
  <2>1. parsed \in {0} \cup {ends[i] : i \in DOMAIN ends}
    BY <1>2, <1>3 DEF Behind, BehindIt, start
  <2>2. parser = initParser \/ parser.state = "finish"
    BY <1>3 DEF Behind, BehindIt
  <2> QED BY <2>1, <2>2 DEF initParser
<1>4. CASE Within(k)
  <2>1. /\ k < Len(ends) /\ start(k) + 2 =< parsed /\ parsed < ends[k + 1]
        /\ parser.state \in {"header", "body"}
    BY <1>4 DEF Within, InRequest
  <2>2. /\ start(k) \in Nat /\ parsed \in Nat
        /\ {i \in 1..Len(ends) : ends[i] =< parsed} = 1..k
    BY <1>1, <1>2, <2>1, Places, WholeAt, WholeInPrefix
  <2>3. ASSUME NEW i \in 1..Len(ends) PROVE ends[i] # parsed
    <3> SUFFICES ASSUME ends[i] = parsed PROVE FALSE
      OBVIOUS
    <3>1. i \in 1..k
      BY <2>2
    <3>2. k \in 1..Len(ends) /\ start(k) = ends[k] /\ ends[k] \in Nat
      BY <3>1, <1>2 DEF start
    <3>3. i < k => ends[i] < ends[k]
      BY <3>2, <1>2 DEF Layout
    <3>4. ends[i] =< ends[k]
      BY <3>1, <3>2, <3>3, <1>2
    <3> QED BY <3>2, <3>4, <2>1, <2>2
  <2>4. parsed \notin {0} \cup {ends[i] : i \in DOMAIN ends}
    BY <2>1, <2>2, <2>3, <1>2
  <2> QED BY <2>1, <2>4
<1> QED BY <1>1, <1>3, <1>4 DEF At

(* HttpParser::init, parseRequestline, parseHeader, parseBody: for requests*)
(* of any number and length, bodies of any lines and pieces of any size the*)
(* parser looks for a request line just where a request begins, with       *)
(* nothing left of the last one, as long as all it has begun with are      *)
(* exact.                                                                  *)
THEOREM FramingCorrect == Spec => []Framed
  BY GrammarHolds, FramingFramed, PTL

LEMMA FramingAnswers == Grammar => OneAnswerEach
<1> SUFFICES ASSUME Grammar, pc = "wait", ~astray
             PROVE  answers = Cardinality({i \in DOMAIN ends : ends[i] =< parsed})
                          + IF armed = "out" /\ parser.state = "requestline" THEN 1 ELSE 0
  BY DEF OneAnswerEach
<1>1. PICK k \in 0..Len(ends) : At(k) /\ Answered(k)
  BY DEF Grammar, Framing, open
<1>2. Cardinality({i \in DOMAIN ends : ends[i] =< parsed}) = k /\ k \in Nat
  <2>1. DOMAIN ends = 1..Len(ends)
    BY DEF Grammar, Inv, TypeOK
  <2> QED BY <2>1, <1>1, WholeAt DEF wholeIn
<1>3. answers = Len(told) \div 3
  BY DEF answers, Answer
<1>4. \A n \in Nat : (3 * n) \div 3 = n
  OBVIOUS
<1>5. CASE armed # "out"
  <2>1. Len(told) = 3 * k
    BY <1>1, <1>2, <1>5 DEF Answered, replying, formed
  <2> QED BY <2>1, <1>2, <1>3, <1>4, <1>5
<1>6. CASE armed = "out" /\ parser.state = "finish"
  <2>1. Len(told) = 3 * k
    BY <1>1, <1>2, <1>6 DEF Answered, replying, formed
  <2> QED BY <2>1, <1>2, <1>3, <1>4, <1>6
<1>7. CASE armed = "out" /\ parser.state # "finish"
  <2>1. parser.state = "requestline" /\ Len(told) = 3 * (k + 1)
    BY <1>1, <1>2, <1>7 DEF Answered, replying, formed
  <2> QED BY <2>1, <1>2, <1>3, <1>4, <1>7
<1> QED BY <1>5, <1>6, <1>7

(* Connection::processCore: for requests of any number and kind there is   *)
(* one answer to each that the parser has taken and one to a malformed one,*)
(* however they arrive and the answers leave, as long as all that it has   *)
(* begun with are exact.                                                   *)
THEOREM AnsweringCorrect == Spec => []OneAnswerEach
  BY GrammarHolds, FramingAnswers, PTL

-----------------------------------------------------------------------------
(* What the client sees.  A line is refused only where a request is odd, or*)
(* begins with one that the server does not understand.                    *)
Refused ==
  pc = "status" /\ parser.state = "requestline" =>
    \A k \in 0..Len(ends) :
       parsed = start(k) => /\ k < Len(ends)
                            /\ k + 1 \in odd \/ asked[parsed + 1] \notin {"req", "part"}

LEMMA BadLineRefused ==
  ASSUME Grammar, answerBad, NEW k \in 0..Len(ends), parsed = start(k)
  PROVE  k < Len(ends) /\ (k + 1 \in odd \/ asked[parsed + 1] \notin {"req", "part"})
<1> DEFINE p == parsed
<1>1. /\ Inv /\ Layout /\ open /\ lineEnds # {}
      /\ parser.state = "requestline" /\ ~hasFields /\ ~knownMethod
  BY DEF Grammar, answerBad, refuse, lineIn, open
<1>2. /\ lineEnd \in Nat \ {0} /\ p + lineEnd =< Len(asked)
      /\ asked[p + lineEnd] = "crlf"
      /\ \A i \in 1..lineEnd - 1 : asked[p + i] # "crlf"
      /\ Len(line) = lineEnd - 1 /\ line \in Seq(Token)
      /\ \A i \in 1..lineEnd - 1 : line[i] = asked[p + i]
      /\ p \in Nat /\ Len(asked) \in Nat /\ Len(ends) \in Nat
  <2>1. asked \in Seq(Token) /\ received \in Nat /\ ends \in Seq(Nat)
    BY <1>1 DEF Inv, TypeOK
  <2> QED BY <2>1, <1>1, LineAsAsked
<1>3. k < Len(ends)
  <2>1. Len(asked) = start(Len(ends))
    BY <1>1 DEF Layout
  <2> QED BY <2>1, <1>2
<1>4. ASSUME k + 1 \notin odd PROVE asked[p + 1] \notin {"req", "part"}
  <2>1. k \in 0..Len(ends) - 1
    BY <1>2, <1>3
  <2>2. asked[p + 1] # "crlf" /\ asked[p + 2] = "crlf"
    BY <2>1, <1>1, <1>4, RequestAt DEF IsRequest
  <2> HIDE DEF p
  <2>3. lineEnd = 2
    <3>1. lineEnd # 1
      BY <2>2, <1>2
    <3>2. ~(lineEnd > 2)
      BY <2>2, <1>2
    <3> QED BY <3>1, <3>2, <1>2
  <2>4. line = <<asked[p + 1]>> /\ line[1] = asked[p + 1] /\ 1 \in DOMAIN line
    BY <2>3, <1>2
  <2> QED BY <2>4, <1>1 DEF hasFields, knownMethod
<1> QED BY <1>3, <1>4

LEMMA NextRefuses == Grammar /\ Refused /\ [Next]_vars => Refused'
<1> SUFFICES ASSUME Grammar, Refused, [Next]_vars, pc' = "status", parser'.state = "requestline",
                    NEW k \in 0..Len(ends'), parsed' = start(k)'
             PROVE  /\ k < Len(ends')
                    /\ k + 1 \in odd' \/ asked'[parsed' + 1] \notin {"req", "part"}
  BY DEF Refused
<1>1. CASE answerBad
  <2>1. UNCHANGED <<asked, ends, odd, parsed>>
    BY <1>1 DEF answerBad, refuse, client, input
  <2>2. start(k)' = start(k)
    BY <2>1 DEF start
  <2> QED BY <2>1, <2>2, <1>1, BadLineRefused
<1>2. CASE \E r \in Request : Ask(r)
  <2>1. PICK r \in Request : Ask(r)
    BY <1>2
  <2>2. /\ Inv /\ Layout /\ Len(asked) \in Nat /\ Len(ends) \in Nat
        /\ Len(asked') \in Nat /\ Len(asked) < Len(asked')
        /\ \A n \in 1..Len(asked) : asked'[n] = asked[n]
        /\ Len(ends') = Len(ends) + 1 /\ ends'[Len(ends) + 1] = Len(asked')
        /\ \A i \in 0..Len(ends) : start(i)' = start(i)
        /\ odd \subseteq odd'
    BY <2>1, AskStays DEF Grammar
  <2>3. /\ UNCHANGED <<pc, parser, parsed>> /\ parsed \in Nat /\ parsed =< Len(asked)
    BY <2>1, <2>2, SMTT(30) DEF Ask, clientOnly, input, Inv, TypeOK, InputIntact
  <2>4. k # Len(ends) + 1
    <3>1. k = Len(ends) + 1 => start(k)' = Len(asked')
      BY <2>2 DEF start
    <3> QED BY <3>1, <2>2, <2>3
  <2>5. k \in 0..Len(ends) /\ parsed = start(k)
    <3>1. k \in 0..Len(ends) + 1
      BY <2>2
    <3>2. k \in 0..Len(ends)
      BY <3>1, <2>2, <2>4
    <3>3. start(k)' = start(k)
      BY <3>2, <2>2
    <3> QED BY <3>2, <3>3, <2>3
  <2>6. k < Len(ends) /\ (k + 1 \in odd \/ asked[parsed + 1] \notin {"req", "part"})
    BY <2>3, <2>5 DEF Refused
  <2>7. asked'[parsed + 1] = asked[parsed + 1]
    <3>1. start(k) < ends[k + 1] /\ ends[k + 1] =< Len(asked) /\ ends[k + 1] \in Nat
      BY <2>2, <2>5, <2>6, Places
    <3>2. parsed + 1 \in 1..Len(asked)
      BY <3>1, <2>2, <2>3, <2>5
    <3> QED BY <3>2, <2>2
  <2> QED BY <2>2, <2>3, <2>6, <2>7
<1>3. CASE Arrive \/ HangUp \/ Drain \/ UNCHANGED vars
  <2>1. UNCHANGED <<pc, parser, asked, ends, odd, parsed>>
    BY <1>3 DEF Arrive, HangUp, Drain, clientOnly, vars, client, input
  <2>2. start(k)' = start(k)
    BY <2>1 DEF start
  <2> QED BY <2>1, <2>2 DEF Refused
<1>4. CASE answer
  BY <1>4 DEF answer
<1>5. CASE handleRequest \/ handleWrite \/ Read \/ handleExpire
  BY <1>5 DEF handleRequest, handleWrite, event, Read, readSome, readv, readEnd, handleExpire,
              handleClose
<1>6. CASE parseRequestline \/ parseHeadersEnd \/ parseHeader \/ parseBody \/ abort \/ noRequest
  BY <1>6 DEF parseRequestline, parseHeadersEnd, parseHeader, parseBody, abort, noRequest,
              lineIn, consume
<1>7. CASE setResponse
  BY <1>7 DEF setResponse, Answer
<1>8. CASE Write
  BY <1>8 DEF Write, writeSome, write, writeBlocks, waitFor, writeFails,
              writeKeeps, keepWith, writeCloses, handleClose
<1> QED BY <1>1, <1>2, <1>3, <1>4, <1>5, <1>6, <1>7, <1>8 DEF Next, Server, processCore

LEMMA WholeInGrows ==
  ASSUME Inv, NEW n \in Nat, NEW m \in Nat, n =< m
  PROVE  wholeIn(n) \in Nat /\ wholeIn(m) \in Nat /\ wholeIn(n) =< wholeIn(m)
         /\ wholeIn(m) =< Len(ends)
<1> DEFINE S(i) == {k \in 1..Len(ends) : ends[k] =< i}
<1>1. Len(ends) \in Nat /\ \A k \in 1..Len(ends) : ends[k] \in Nat
  BY DEF Inv, TypeOK
<1>2. IsFiniteSet(1..Len(ends)) /\ Cardinality(1..Len(ends)) = Len(ends)
  <2>1. /\ IsFiniteSet(1..Len(ends))
        /\ Cardinality(1..Len(ends)) = IF 1 > Len(ends) THEN 0 ELSE Len(ends) - 1 + 1
    BY <1>1, FS_Interval
  <2> QED BY <2>1, <1>1
<1>3. S(m) \in SUBSET (1..Len(ends)) /\ S(n) \in SUBSET S(m)
  BY <1>1
<1> HIDE DEF S
<1>4. IsFiniteSet(S(m)) /\ Cardinality(S(m)) =< Len(ends)
  BY <1>2, <1>3, FS_Subset
<1>5. IsFiniteSet(S(n)) /\ Cardinality(S(n)) =< Cardinality(S(m))
  BY <1>3, <1>4, FS_Subset
<1>6. Cardinality(S(n)) \in Nat /\ Cardinality(S(m)) \in Nat
  BY <1>4, <1>5, FS_CardinalityType
<1> QED BY <1>4, <1>5, <1>6 DEF wholeIn, S

(* Some request up to the k-th asks to be kept if its tokens do.           *)
LEMMA KeepInRequests ==
  ASSUME Inv, Layout, NEW k \in 0..Len(ends)
  PROVE  keepIn(k) <=> \E i \in 1..k : requests[i].keep
<1>1. Len(ends) \in Nat /\ k \in Nat /\ 1..k \subseteq 1..Len(ends)
  BY DEF Inv, TypeOK
<1>2. ASSUME NEW i \in 1..k
      PROVE  /\ requests[i].keep <=> some("keep", start(i - 1) + 1, start(i))
             /\ start(i) \in Nat /\ start(i - 1) \in Nat /\ start(i - 1) < start(i)
  <2>1. i \in 1..Len(ends) /\ start(i) = ends[i] /\ i - 1 \in 0..Len(ends) /\ i - 1 < Len(ends)
        /\ (i - 1) + 1 = i
    BY <1>1 DEF start
  <2>2. requests[i].keep <=> some("keep", start(i - 1) + 1, start(i))
    BY <2>1 DEF requests
  <2> QED BY <2>1, <2>2, Places
<1>3. ASSUME NEW i \in 1..k
      PROVE  start(i) =< start(k)
  <2>1. i \in 1..Len(ends) /\ k \in 1..Len(ends) /\ start(i) = ends[i] /\ start(k) = ends[k]
    BY <1>1 DEF start
  <2>2. i < k => ends[i] < ends[k]
    BY <2>1 DEF Layout
  <2>3. start(i) \in Nat /\ start(k) \in Nat
    BY <1>1, <1>2, Places
  <2> QED BY <2>1, <2>2, <2>3
<1>4. ASSUME NEW i \in 1..k, requests[i].keep PROVE keepIn(k)
  <2>1. start(k) \in Nat
    BY Places
  <2>2. \A n \in start(i - 1) + 1..start(i) : n \in 1..start(k)
    BY <2>1, <1>2, <1>3
  <2> QED BY <2>2, <1>2, <1>4 DEF keepIn, some
<1>5. ASSUME keepIn(k) PROVE \E i \in 1..k : requests[i].keep
  <2>1. PICK n \in 1..start(k) : asked[n] = "keep"
    BY <1>5 DEF keepIn, some
  <2>2. \A i \in 0..k : start(i) \in Nat
    BY <1>1, Places
  <2> DEFINE S == {i \in 0..k : n =< start(i)}
  <2>3. k \in S /\ S \subseteq Nat
    BY <2>1, <2>2, <1>1
  <2>4. PICK i \in S : \A j \in S : i =< j
    BY <2>3, LeastElement
  <2>5. i \in 0..k /\ n =< start(i)
    OBVIOUS
  <2>6. i # 0
    BY <2>1, <2>2, <2>5, <1>1 DEF start
  <2>7. i - 1 \in 0..k /\ i - 1 \notin S
    BY <2>4, <2>5, <2>6, <1>1
  <2>8. start(i - 1) < n
    BY <2>1, <2>2, <2>7
  <2>9. n \in start(i - 1) + 1..start(i) /\ i \in 1..k
    BY <2>1, <2>2, <2>5, <2>6, <2>7, <2>8, <1>1
  <2> QED BY <2>1, <2>9, <1>2 DEF some
<1> QED BY <1>4, <1>5

LEMMA InitServes == Init => Service!Init
<1> SUFFICES ASSUME Init PROVE Service!Init
  OBVIOUS
<1>1. /\ asked = <<>> /\ ends = <<>> /\ odd = {} /\ sent = 0 /\ told = <<>> /\ wire = <<>>
      /\ open /\ ~astray
  BY DEF Init, open, astray
<1>2. requests = <<>>
  BY <1>1 DEF requests
<1>3. wholeIn(sent) = 0
  <2>1. {k \in 1..Len(ends) : ends[k] =< sent} = {}
    BY <1>1
  <2> QED BY <2>1, FS_EmptySet DEF wholeIn
<1>4. begun = 0 /\ Len(wire) = 0
  BY <1>1 DEF begun, Answer
<1>5. mode = "open"
  BY <1>1 DEF mode
<1> QED BY <1>2, <1>3, <1>4, <1>5 DEF Service!Init

(* Steps that the client does not see.                                     *)
Unseen == UNCHANGED <<asked, ends, odd, sent, told, wire>>

LEMMA UnseenServes ==
  ASSUME Unseen
  PROVE  requests' = requests /\ wholeIn(sent)' = wholeIn(sent) /\ begun' = begun
         /\ Len(wire)' = Len(wire)
<1>1. requests' = requests
  BY DEF Unseen, requests, some, start, kindOf
<1>2. wholeIn(sent)' = wholeIn(sent) /\ begun' = begun /\ Len(wire)' = Len(wire)
  BY DEF Unseen, wholeIn, begun
<1> QED BY <1>1, <1>2

LEMMA StutterServes ==
  ASSUME Unseen, mode' = mode
  PROVE  UNCHANGED Service!vars
  BY UnseenServes DEF Service!vars

LEMMA CloseServes ==
  ASSUME Unseen, ~open'
  PROVE  Service!Next
<1>1. mode' = "closed"
  BY DEF mode
<1> QED BY <1>1, UnseenServes DEF Service!Next, Service!Close

LEMMA HandleCloseServes ==
  ASSUME NEW end \in {"closed", "expired"}, handleClose(end)
  PROVE  Service!Next
<1>1. Unseen /\ ~open'
  BY DEF handleClose, Unseen, open, client
<1> QED BY <1>1, CloseServes

LEMMA HandlersServe ==
  ASSUME Grammar, \/ handleRequest \/ handleWrite \/ Read
                  \/ abort \/ noRequest \/ writeBlocks \/ writeKeeps \/ writeFails
                  \/ writeCloses \/ handleExpire
  PROVE  [Service!Next]_Service!vars
<1>1. CASE \E end \in {"closed", "expired"} : handleClose(end)
  BY <1>1, HandleCloseServes
<1>2. CASE abort
  <2>1. Unseen /\ ~open'
    BY <1>2 DEF abort, Unseen, open, client, output
  <2> QED BY <2>1, CloseServes
<1>3. CASE ~abort /\ ~\E end \in {"closed", "expired"} : handleClose(end)
  <2>1. CASE handleRequest \/ handleWrite \/ Read
    <3>1. Unseen /\ UNCHANGED <<keepalive, parsed>> /\ pc \in {"wait", "read"}
          /\ pc' \in {"read", "parse", "write"}
      BY <1>3, <2>1 DEF handleRequest, handleWrite, event, Read, readSome, readv, readEnd,
                        Unseen, client, output, input
    <3>2. mode' = mode
      BY <3>1, AstraySame DEF Unseen, mode, open, Answer
    <3> QED BY <3>1, <3>2, StutterServes
  <2>2. CASE noRequest
    <3>1. Unseen /\ UNCHANGED <<keepalive, parsed>> /\ pc = "parse" /\ pc' = "wait"
      BY <2>2 DEF noRequest, Unseen, client, output, input
    <3>2. mode' = mode
      BY <3>1, AstraySame DEF Unseen, mode, open, Answer
    <3> QED BY <3>1, <3>2, StutterServes
  <2>3. CASE writeBlocks \/ writeKeeps
    <3>1. Unseen /\ UNCHANGED <<keepalive, parsed>> /\ pc = "write" /\ pc' = "wait"
      BY <2>3 DEF writeBlocks, waitFor, writeKeeps, keepWith, Unseen, client, output, input
    <3>2. mode' = mode
      BY <3>1, AstraySame DEF Unseen, mode, open, Answer
    <3> QED BY <3>1, <3>2, StutterServes
  <2>4. CASE writeFails \/ writeCloses \/ handleExpire
    BY <1>3, <2>4 DEF writeFails, writeCloses, handleExpire
  <2> QED BY <1>3, <2>1, <2>2, <2>3, <2>4
<1> QED BY <1>1, <1>2, <1>3

(* To decide on an answer is not yet to answer.                            *)
LEMMA AnswerServes ==
  ASSUME Grammar, answer \/ answerBad
  PROVE  [Service!Next]_Service!vars
<1>1. Unseen /\ pc = "parse" /\ pc' = "status" /\ open /\ open' /\ UNCHANGED parsed
  BY DEF answer, answerBad, refuse, lineIn, Answer, Unseen, client, output, input, open
<1>2. astray' <=> astray
  BY <1>1, AstraySame DEF Unseen
<1>3. ~astray => (told # <<>> => keepalive)
  BY <1>1 DEF Grammar, Framing, Answered, replying
<1>4. mode' = mode
  BY <1>1, <1>2, <1>3 DEF mode, Answer
<1> QED BY <1>1, <1>4, StutterServes

(* While the server reads, parses or begins an answer, all others are out. *)
LEMMA AllOut ==
  ASSUME Grammar, pc \in {"parse", "status"}
  PROVE  Len(wire) = Len(told)
<1>1. datasize(outbuffer) = 0 /\ IsBuffer(outbuffer) /\ wire \in Seq(Byte)
      /\ wire \o content(outbuffer) = told
  BY DEF Grammar, Arming, Inv, TypeOK, OutputIntact, open
<1>2. content(outbuffer) = <<>>
  BY <1>1 DEF content
<1> QED BY <1>1, <1>2

LEMMA Begun ==
  ASSUME NEW n \in Nat, NEW j \in {0, 1, 2, 3}, Len(told) = 3 * n + j
  PROVE  begun = IF j = 0 THEN n ELSE n + 1
<1>1. begun = (3 * n + j + 2) \div 3
  BY DEF begun, Answer
<1> QED BY <1>1

(* Lines that are parsed are not seen, unless the parser meets with a      *)
(* request that is not exact: it may then be lost.                         *)
LEMMA ParseServes ==
  ASSUME Grammar, parseRequestline \/ parseHeadersEnd \/ parseHeader \/ parseBody
  PROVE  [Service!Next]_Service!vars
<1>1. /\ Unseen /\ UNCHANGED keepalive /\ pc = "parse" /\ pc' = "parse" /\ open /\ open'
      /\ UNCHANGED <<ends, odd>> /\ parsed' = parsed + lineEnd /\ parser.state # "finish"
      /\ lineEnds # {}
  BY DEF parseRequestline, parseHeadersEnd, parseHeader, parseBody, lineIn, consume, Unseen,
         client, output, open
<1>2. Inv /\ Layout
  BY DEF Grammar
<1>3. CASE astray' <=> astray
  <2>1. mode' = mode
    BY <1>1, <1>3 DEF Unseen, mode
  <2> QED BY <2>1, <1>1, StutterServes
<1>4. CASE ~(astray' <=> astray)
  <2>1. ~astray /\ astray'
    <3>1. parsed \in Nat /\ lineEnd \in Nat
      BY <1>1, <1>2, LineAsAsked
    <3>2. parsed' \in Nat /\ parsed =< parsed'
      BY <3>1, <1>1
    <3> QED BY <3>2, <1>1, <1>2, <1>4, AstrayStays
  <2>2. PICK k \in 0..Len(ends) : At(k) /\ Answered(k)
    BY <2>1, <1>1 DEF Grammar, Framing
  <2>3. /\ k < Len(ends) /\ Len(ends) \in Nat /\ k \in Nat
        /\ parsed \in Nat /\ parsed' \in Nat /\ parsed < parsed'
        /\ \/ k + 1 \in odd /\ parsed = start(k)
           \/ k + 1 \notin odd /\ parsed' =< ends[k + 1]
    BY <2>2, <1>2, ParsePlace DEF Inv, TypeOK
  <2>4. k + 1 \in odd
    <3> SUFFICES ASSUME k + 1 \notin odd PROVE FALSE
      OBVIOUS
    <3>1. PICK j \in odd : start(j - 1)' < parsed'
      BY <2>1, <1>1 DEF astray
    <3>2. start(j - 1)' = start(j - 1)
      BY <1>1 DEF start
    <3>3. /\ j \in 1..Len(ends) /\ j - 1 \in 0..Len(ends) /\ start(j - 1) \in Nat
      BY <1>2, OddPlaces
    <3>4. parsed =< start(j - 1)
      BY <2>1, <2>3, <3>3 DEF astray
    <3>5. start(k) \in Nat /\ start(k) =< parsed /\ ends[k + 1] \in Nat
          /\ ends[k + 1] = start(k + 1)
      BY <2>2, <2>3, <1>2, Places DEF At, Within, Behind, InRequest, BehindIt
    <3>6. CASE j - 1 < k
      <4>1. start(j - 1) < start(k)
        BY <3>3, <3>6, <1>2, StartsRise
      <4> QED BY <4>1, <2>3, <3>3, <3>4, <3>5
    <3>7. CASE j - 1 = k
      BY <3>3, <3>7, <2>3
    <3>8. CASE j - 1 > k
      <4>1. k + 1 \in 0..Len(ends) /\ (k + 1 = j - 1 \/ k + 1 < j - 1)
        BY <2>3, <3>3, <3>8
      <4>2. k + 1 < j - 1 => start(k + 1) < start(j - 1)
        BY <4>1, <3>3, <1>2, StartsRise
      <4>3. start(k + 1) =< start(j - 1)
        BY <4>1, <4>2, <3>3, <3>5
      <4>4. parsed' =< ends[k + 1]
        BY <2>3
      <4> QED BY <4>3, <4>4, <2>3, <3>1, <3>2, <3>3, <3>5
    <3> QED BY <3>3, <3>6, <3>7, <3>8, <2>3
  <2>5. Len(told) = 3 * k /\ (told # <<>> => keepalive)
    BY <1>1, <2>2, <2>3 DEF Answered, replying, formed
  <2>6. begun = k /\ Len(wire) = 3 * k
    <3>1. Len(told) = 3 * k + 0
      BY <2>5, <2>3
    <3> QED BY <3>1, <2>3, <2>5, <1>1, Begun, AllOut
  <2>7. mode = "open" /\ mode' = "lost"
    BY <2>1, <2>5, <1>1 DEF mode
  <2>8. requests[k + 1].kind = "odd" /\ Len(requests) = Len(ends)
    <3>1. k + 1 \in 1..Len(ends)
      BY <2>3
    <3> QED BY <3>1, <2>3, <2>4 DEF requests, kindOf
  <2>9. Service!turn("odd")
    <3>1. Len(Answer) = 3
      BY DEF Answer
    <3> QED BY <3>1, <2>3, <2>6, <2>7, <2>8 DEF Service!turn
  <2> QED BY <2>7, <2>9, <1>1, UnseenServes DEF Service!Next, Service!Lose
<1> QED BY <1>3, <1>4

(* An answer begins: the next one, or, if the parser is lost, some.        *)
LEMMA ResponseServes ==
  ASSUME Grammar, Refused, setResponse
  PROVE  [Service!Next]_Service!vars
<1>1. /\ UNCHANGED <<asked, ends, odd, sent, wire, parser, parsed, keepalive>>
      /\ Len(told) \in Nat /\ Len(told') = Len(told) + 1 /\ told' # <<>> /\ open /\ open'
      /\ \/ pc = "status" /\ pc' = "headers"
         \/ pc = "headers" /\ pc' = "page"
         \/ pc = "page" /\ pc' = "write"
  <2>1. told \in Seq(Byte)
    BY DEF Grammar, Inv, TypeOK
  <2>2. PICK x : told' = Append(told, x)
    BY DEF setResponse
  <2>3. Len(told) \in Nat /\ Len(told') = Len(told) + 1 /\ told' # <<>>
    BY <2>1, <2>2
  <2> QED BY <2>3 DEF setResponse, Answer, client, input, open
<1>2. Inv /\ Layout /\ Len(ends) \in Nat /\ sent \in Nat /\ parsed \in Nat /\ parsed =< sent
  BY SMTT(30) DEF Grammar, Inv, TypeOK, InputIntact
<1>3. requests' = requests /\ wholeIn(sent)' = wholeIn(sent) /\ Len(wire)' = Len(wire)
  BY <1>1 DEF requests, some, start, kindOf, wholeIn
<1>4. astray' <=> astray
  BY <1>1, AstraySame
<1>5. PICK n \in Nat : Len(told) = 3 * n + formed
  BY <1>1 DEF Grammar, Formed
<1>6. CASE pc # "status"
  <2>1. formed \in {1, 2}
    BY <1>1, <1>6 DEF formed
  <2>2. begun' = begun
    <3>1. begun = (Len(told) + 2) \div 3 /\ begun' = (Len(told) + 3) \div 3
      BY <1>1 DEF begun, Answer
    <3> QED BY <3>1, <2>1, <1>5
  <2>3. told # <<>>
    BY <2>1, <1>5
  <2>4. mode' = mode
    BY <2>3, <1>1, <1>4, <1>6 DEF mode, Answer
  <2> QED BY <2>2, <2>4, <1>3 DEF Service!vars
<1>7. CASE pc = "status"
  <2>1. /\ Len(told) = 3 * n /\ Len(wire) = 3 * n /\ begun = n /\ begun' = n + 1
        /\ Len(Answer) = 3
    <3>1. formed = 0
      BY <1>7 DEF formed
    <3>2. Len(told) = 3 * n + 0
      BY <3>1, <1>5
    <3>3. Len(wire) = Len(told) /\ begun = n
      BY <3>2, <1>7, AllOut, Begun
    <3>4. begun' = (3 * n + 3) \div 3
      BY <3>2, <1>1 DEF begun, Answer
    <3> QED BY <3>2, <3>3, <3>4 DEF Answer
  <2>2. CASE astray
    <3>1. mode = "lost" /\ mode' = "lost"
      BY <2>2, <1>1, <1>4 DEF mode
    <3> QED BY <3>1, <2>1, <1>3 DEF Service!Next, Service!AnswerLost
  <2>3. CASE ~astray
    <3>1. PICK k \in 0..Len(ends) : At(k) /\ Answered(k)
      BY <2>3, <1>1 DEF Grammar, Framing
    <3>2. mode = "open" /\ mode' = IF keepalive THEN "open" ELSE "last"
      BY <2>3, <1>1, <1>4, <1>7 DEF mode, Answer
    <3>3. Len(requests) = Len(ends)
      BY <1>2 DEF requests
    <3>4. CASE parser.state = "finish"
      <4>1. /\ k - 1 \in 0..Len(ends) - 1 /\ k \notin odd /\ k \in 1..Len(ends)
            /\ asked[start(k - 1) + 1] = "req"
        BY <3>1, <3>4, <1>2, FinishedBehind
      <4>2. n = k - 1 /\ n + 1 = k /\ n < Len(requests)
        <5>1. Len(told) = 3 * (k - 1) + 0
          BY <3>1, <3>4, <1>7 DEF Answered, formed
        <5> QED BY <5>1, <4>1, <2>1, <3>3, <1>2
      <4>3. requests[n + 1].kind = "page"
        BY <4>1, <4>2 DEF requests, kindOf
      <4>4. n < wholeIn(sent)
        <5>1. wholeIn(parsed) = k
          BY <3>1, WholeAt
        <5>2. wholeIn(parsed) =< wholeIn(sent) /\ wholeIn(sent) \in Nat
          BY <1>2, WholeInGrows
        <5> QED BY <5>1, <5>2, <4>2
      <4>5. keepalive <=> \E i \in 1..n + 1 : requests[i].keep
        <5>1. keepalive <=> keepIn(k)
          BY <3>1, <3>4, <1>7 DEF Answered, replying
        <5> QED BY <5>1, <4>2, <1>2, KeepInRequests
      <4>6. Service!reply("page")
        BY <2>1, <3>2, <4>2, <4>3, <1>3 DEF Service!reply, Service!turn
      <4>7. mode' = IF \E i \in 1..begun + 1 : requests[i].keep THEN "open" ELSE "last"
        BY <2>1, <3>2, <4>5
      <4> QED BY <2>1, <4>4, <4>6, <4>7 DEF Service!Next, Service!Answer
    <3>5. CASE parser.state # "finish"
      <4>1. n = k /\ parser.state = "requestline" /\ ~keepalive
        <5>1. Len(told) = 3 * k + 0 /\ parser.state = "requestline" /\ ~keepalive
          BY <3>1, <3>5, <1>7 DEF Answered, replying, formed
        <5> QED BY <5>1, <2>1, <1>2
      <4>2. parsed = start(k)
        BY <4>1, <3>1 DEF At, Within, Behind, InRequest, BehindIt
      <4>3. k < Len(ends) /\ (k + 1 \in odd \/ asked[parsed + 1] \notin {"req", "part"})
        BY <4>1, <4>2, <1>7 DEF Refused
      <4>4. k + 1 \in 1..Len(ends) /\ (k + 1) - 1 = k /\ n < Len(requests)
        BY <4>1, <4>3, <3>3, <1>2
      <4>5. requests[n + 1].kind \in {"malformed", "odd"}
        BY <4>1, <4>2, <4>3, <4>4 DEF requests, kindOf
      <4>6. Service!reply("malformed") \/ Service!reply("odd")
        BY <2>1, <3>2, <4>4, <4>5, <1>3 DEF Service!reply, Service!turn
      <4>7. mode' = "last"
        BY <3>2, <4>1
      <4> QED BY <4>6, <4>7 DEF Service!Next, Service!Refuse
    <3> QED BY <3>4, <3>5
  <2> QED BY <2>2, <2>3
<1> QED BY <1>6, <1>7

(* Parts of the answer leave, never more than there are.                   *)
LEMMA SendServes ==
  ASSUME Grammar, Grammar', writeSome
  PROVE  [Service!Next]_Service!vars
<1>1. /\ UNCHANGED <<asked, ends, odd, sent, told, keepalive, pc, parsed>>
      /\ pc = "write" /\ open
  BY DEF writeSome, write, client, input, open
<1>2. PICK n \in Nat : Len(told) = 3 * n + 3
  BY <1>1 DEF Grammar, Formed, formed
<1>3. Len(Answer) * begun = Len(told)
  <2>1. begun = n + 1
    BY <1>2, Begun
  <2> QED BY <2>1, <1>2 DEF Answer
<1>4. PICK m \in 1..datasize(outbuffer) : wire' = wire \o SubSeq(content(outbuffer), 1, m)
  BY DEF writeSome, write
<1>5. Len(wire') \in Len(wire) + 1..Len(told)
  <2>1. /\ wire \in Seq(Byte) /\ IsBuffer(outbuffer) /\ wire' \in Seq(Byte)
        /\ told \in Seq(Byte) /\ wire \o content(outbuffer) = told
    BY <1>1 DEF Grammar, Inv, TypeOK, OutputIntact, open
  <2>2. /\ content(outbuffer) \in Seq(Byte) /\ Len(content(outbuffer)) = datasize(outbuffer)
        /\ datasize(outbuffer) \in Nat
    BY <2>1, ContentIsBytes
  <2> DEFINE c == content(outbuffer)
             front == SubSeq(c, 1, m)
  <2> HIDE DEF c
  <2>3. m \in Nat \ {0} /\ m =< Len(c) /\ c \in Seq(Byte)
    BY <2>2 DEF c
  <2>4. front \in Seq(Byte) /\ Len(front) = m
    BY <2>3
  <2>5. wire' = wire \o front /\ wire \o c = told
    BY <1>4, <2>1 DEF c
  <2> HIDE DEF front
  <2>6. Len(wire') = Len(wire) + m /\ Len(told) = Len(wire) + Len(c)
    <3>1. wire \in Seq(Byte) /\ c \in Seq(Byte) /\ front \in Seq(Byte)
      BY <2>1, <2>3, <2>4
    <3>2. Len(wire \o front) = Len(wire) + Len(front) /\ Len(wire \o c) = Len(wire) + Len(c)
      BY <3>1
    <3> QED BY <3>2, <2>4, <2>5
  <2> QED BY <2>1, <2>3, <2>6
<1>6. requests' = requests /\ wholeIn(sent)' = wholeIn(sent) /\ begun' = begun
  BY <1>1 DEF requests, some, start, kindOf, wholeIn, begun
<1>7. mode' = mode /\ mode # "closed"
  BY <1>1, AstraySame DEF mode, open
<1>8. Len(wire)' = Len(wire')
  OBVIOUS
<1> QED BY <1>3, <1>5, <1>6, <1>7, <1>8 DEF Service!Next, Service!Send

(* What the client asks for joins the requests.                            *)
LEMMA AskServes ==
  ASSUME Grammar, NEW r \in Request, Ask(r)
  PROVE  Service!Next
<1>1. UNCHANGED <<sent, told, wire, keepalive, pc, parsed>>
  BY DEF Ask, clientOnly, input
<1>2. /\ Inv /\ Layout /\ asked \in Seq(Token) /\ Len(asked) \in Nat /\ Len(ends) \in Nat
      /\ \A n \in 1..Len(asked) : asked'[n] = asked[n]
      /\ Len(ends') = Len(ends) + 1 /\ ends'[Len(ends) + 1] = Len(asked')
      /\ \A k \in 1..Len(ends) : ends'[k] = ends[k]
      /\ \A k \in 0..Len(ends) : start(k)' = start(k)
      /\ \A k \in 1..Len(ends) : k \in odd' <=> k \in odd
      /\ Len(asked') \in Nat /\ Len(asked) < Len(asked')
  BY AskStays DEF Grammar
<1>3. PICK l \in Nat : l = Len(ends)
  BY <1>2
<1> DEFINE new == [kind |-> kindOf(l + 1)',
                   keep |-> some("keep", start(l) + 1, ends[l + 1])']
<1>4. requests' = [k \in 1..Len(ends') |->
                     [kind |-> kindOf(k)',
                      keep |-> some("keep", start(k - 1) + 1, ends[k])']]
  BY DEF requests
<1>5. requests' = Append(requests, new)
  <2> DEFINE kinds == [kind : {"page", "malformed", "part", "odd"}, keep : BOOLEAN]
  <2>1. requests \in Seq(kinds) /\ Len(requests) = l
    BY <1>3 DEF requests, kindOf, some
  <2>2. requests' \in Seq(kinds) /\ Len(requests') = l + 1
    <3>1. Len(ends') \in Nat /\ Len(ends') = l + 1
      BY <1>2, <1>3
    <3>2. \A k : [kind |-> kindOf(k)',
                  keep |-> some("keep", start(k - 1) + 1, ends[k])'] \in kinds
      BY DEF kindOf, some
    <3> HIDE DEF kinds
    <3>3. \A k \in 1..l + 1 : requests'[k] \in kinds
      BY <3>1, <3>2, <1>4
    <3>4. requests' = [k \in 1..l + 1 |-> requests'[k]]
      BY <3>1, <1>4
    <3> QED BY <3>3, <3>4
  <2>3. ASSUME NEW k \in 1..l
        PROVE  requests'[k] = requests[k]
    <3>1. k - 1 \in 0..l /\ k - 1 < l /\ (k - 1) + 1 = k /\ k \in 1..Len(ends')
          /\ k \in 1..Len(ends) /\ k - 1 \in 0..Len(ends)
      BY <1>2, <1>3
    <3>2. /\ start(k - 1)' = start(k - 1) /\ start(k - 1) \in Nat
          /\ ends'[k] = ends[k] /\ ends[k] \in Nat
          /\ start(k - 1) < ends[k] /\ ends[k] =< Len(asked)
      BY <3>1, <1>2, <1>3, Places
    <3>3. asked'[start(k - 1) + 1] = asked[start(k - 1) + 1]
      <4>1. start(k - 1) + 1 \in 1..Len(asked)
        BY <3>2, <1>2
      <4> QED BY <4>1, <1>2
    <3>4. some("keep", start(k - 1) + 1, ends[k])' = some("keep", start(k - 1) + 1, ends[k])
      <4>1. \A n \in start(k - 1) + 1..ends[k] : asked'[n] = asked[n]
        BY <3>2, <1>2
      <4> QED BY <4>1, <3>2 DEF some
    <3>5. kindOf(k)' = kindOf(k)
      BY <3>1, <3>2, <3>3, <1>2 DEF kindOf
    <3>6. requests[k] = [kind |-> kindOf(k),
                         keep |-> some("keep", start(k - 1) + 1, ends[k])]
      BY <3>1 DEF requests
    <3> QED BY <3>1, <3>4, <3>5, <3>6, <1>4
  <2>4. requests'[l + 1] = new
    <3>1. l + 1 \in 1..Len(ends') /\ (l + 1) - 1 = l
      BY <1>2, <1>3
    <3>2. requests'[l + 1] = [kind |-> kindOf(l + 1)',
                              keep |-> some("keep", start((l + 1) - 1) + 1, ends[l + 1])']
      BY <3>1, <1>4
    <3> QED BY <3>1, <3>2
  <2>5. new \in kinds
    BY DEF kindOf, some
  <2> HIDE DEF new, kinds
  <2>6. /\ Append(requests, new) \in Seq(kinds) /\ Len(Append(requests, new)) = l + 1
        /\ Append(requests, new)[l + 1] = new
        /\ \A k \in 1..l : Append(requests, new)[k] = requests[k]
    BY <2>1, <2>5
  <2>7. \A k \in 1..l + 1 : k \in 1..l \/ k = l + 1
    BY <1>3
  <2>8. \A k \in 1..l + 1 : requests'[k] = Append(requests, new)[k]
    BY <2>3, <2>4, <2>6, <2>7
  <2> QED BY <2>2, <2>6, <2>8, SameElements
<1>6. new.kind \in {"page", "malformed", "part", "odd"} /\ new.keep \in BOOLEAN
      /\ new = [kind |-> new.kind, keep |-> new.keep]
  BY DEF kindOf, some
<1>7. wholeIn(sent)' = wholeIn(sent)
  <2>1. sent \in Nat /\ sent =< Len(asked)
    BY <1>2 DEF Inv, TypeOK, InputIntact
  <2>2. {k \in 1..Len(ends') : ends'[k] =< sent} = {k \in 1..Len(ends) : ends[k] =< sent}
    <3>1. ~(ends'[l + 1] =< sent)
      BY <2>1, <1>2, <1>3
    <3>2. \A k : k \in 1..Len(ends') <=> k \in 1..Len(ends) \/ k = l + 1
      BY <1>2, <1>3
    <3> QED BY <3>1, <3>2, <1>2
  <2> QED BY <2>2, <1>1 DEF wholeIn
<1>8. mode' = mode /\ begun' = begun /\ Len(wire)' = Len(wire)
  <2>1. astray' <=> astray
    BY <1>2, AskAstray
  <2> QED BY <2>1, <1>1 DEF mode, begun, open
<1> HIDE DEF new
<1>9. \E kind \in {"page", "malformed", "part", "odd"}, keep \in BOOLEAN :
         requests' = Append(requests, [kind |-> kind, keep |-> keep])
  BY <1>5, <1>6
<1> QED BY <1>7, <1>8, <1>9 DEF Service!Next, Service!Ask

LEMMA ArriveServes ==
  ASSUME Grammar, Arrive
  PROVE  [Service!Next]_Service!vars
<1>1. UNCHANGED <<asked, ends, odd, told, wire, keepalive, pc, parsed>>
  BY DEF Arrive, clientOnly, input
<1>2. Inv /\ sent \in Nat /\ sent' \in Nat /\ sent =< sent' /\ Len(ends) \in Nat
  <2>1. Inv /\ sent \in Nat /\ Len(asked) \in Nat /\ Len(ends) \in Nat
    BY DEF Grammar, Inv, TypeOK
  <2> QED BY <2>1 DEF Arrive
<1>3. wholeIn(sent) \in Nat /\ wholeIn(sent') \in Nat
      /\ wholeIn(sent) =< wholeIn(sent') /\ wholeIn(sent') =< Len(ends)
  BY <1>2, WholeInGrows
<1>4. wholeIn(sent)' = wholeIn(sent')
  BY <1>1 DEF wholeIn
<1>5. requests' = requests /\ begun' = begun /\ Len(wire)' = Len(wire) /\ mode' = mode
  BY <1>1, AstraySame DEF requests, some, start, kindOf, begun, mode, open
<1>6. Len(requests) = Len(ends)
  BY <1>2 DEF requests
<1>7. CASE wholeIn(sent') = wholeIn(sent)
  BY <1>4, <1>5, <1>7 DEF Service!vars
<1>8. CASE wholeIn(sent') # wholeIn(sent)
  <2>1. wholeIn(sent') \in wholeIn(sent) + 1..Len(requests)
    BY <1>2, <1>3, <1>6, <1>8
  <2> QED BY <2>1, <1>4, <1>5 DEF Service!Next, Service!Arrive
<1> QED BY <1>7, <1>8

LEMMA StepServes ==
  Grammar /\ Grammar' /\ Refused /\ [Next]_vars => [Service!Next]_Service!vars
<1> SUFFICES ASSUME Grammar, Grammar', Refused, [Next]_vars
             PROVE  [Service!Next]_Service!vars
  OBVIOUS
<1>1. CASE handleRequest \/ handleWrite \/ Read \/ handleExpire
  BY <1>1, HandlersServe
<1>2. CASE processCore
  BY <1>2, HandlersServe, ParseServes, AnswerServes, ResponseServes DEF processCore
<1>3. CASE Write
  BY <1>3, HandlersServe, SendServes DEF Write
<1>4. CASE \E r \in Request : Ask(r)
  BY <1>4, AskServes
<1>5. CASE Arrive
  BY <1>5, ArriveServes
<1>6. CASE HangUp \/ Drain \/ UNCHANGED vars
  <2>1. Unseen /\ UNCHANGED <<keepalive, pc, parsed>>
    BY <1>6 DEF HangUp, Drain, clientOnly, vars, client, output, input, Unseen
  <2>2. mode' = mode
    BY <2>1, AstraySame DEF mode, open, Unseen
  <2> QED BY <2>1, <2>2, StutterServes
<1> QED BY <1>1, <1>2, <1>3, <1>4, <1>5, <1>6 DEF Next, Server

(* TcpServer::handleRequest, handleWrite, Connection, HttpParser: for      *)
(* requests, buffers and pieces of any size what the client sees of a      *)
(* connection is answers in the order of its requests, one at a time, no   *)
(* page before its request is there and nothing after the last answer; one *)
(* that is not exact may cost the order, never an answer's being whole.    *)
THEOREM ServiceImplemented == Spec => ImplementsService
<1>1. Init => Grammar /\ Refused /\ Service!Init
  <2>1. Init => Refused
    BY DEF Init, Refused
  <2> QED BY <2>1, InitGrammar, InitServes
<1>2. Grammar /\ Refused /\ [Next]_vars => Grammar' /\ Refused' /\ [Service!Next]_Service!vars
  BY NextGrammar, NextRefuses, StepServes
<1> QED BY <1>1, <1>2, PTL DEF Spec, ImplementsService, Service!Spec
=============================================================================
