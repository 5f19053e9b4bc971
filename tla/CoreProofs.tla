------------------------------ MODULE CoreProofs ------------------------------
(***************************************************************************)
(* Proofs about the algorithms of wsCore: RingBuffer, for every initial    *)
(* capacity and any bytes; as S, Sonyflake, for every set of machine       *)
(* numbers of 16 bits; and AStar, for maps of any size.                    *)
(***************************************************************************)
EXTENDS RingBuffer, AStar, SequenceTheorems, WellFoundedInduction, TLAPS

-----------------------------------------------------------------------------
(* Positions                                                               *)

\* What % does to a position that has gone around at most once.
LEMMA Wrap ==
    ASSUME NEW c \in Nat \ {0}, NEW x \in Nat, x < 2 * c
    PROVE  x % c = IF x < c THEN x ELSE x - c
  <1>1. CASE x < c
    BY <1>1, SMT
  <1>2. CASE x >= c
    BY <1>2, SMT
  <1> QED BY <1>1, <1>2

\* The number of bytes and their cells fit the block; Content is a sequence of
\* them.
LEMMA UsedType ==
    ASSUME TypeOK
    PROVE  /\ capacity \in Nat \ {0} /\ used \in 0..capacity - 1
           /\ readPos + used = IF readPos <= writePos THEN writePos
                                                      ELSE writePos + capacity
           /\ DOMAIN Content = 1..used
           /\ \A j \in 1..used : Content[j] = Cell(j - 1)
  BY RingBufferAssumption DEF TypeOK, used, Content

-----------------------------------------------------------------------------
(* writeData                                                               *)

\* expand() keeps the bytes in their order, seen from the new read position.
LEMMA GrowKeepsCells ==
    ASSUME TypeOK, NEW c \in Nat, c >= capacity, NEW r,
           r = IF readPos > writePos THEN readPos + (c - capacity) ELSE readPos,
           NEW j \in 0..used - 1
    PROVE  /\ r \in 0..c - 1
           /\ r + j < c => Moved(c)[r + j] = Cell(j)
           /\ r + j >= c => r + j - c \in 0..c - 1 /\ Moved(c)[r + j - c] = Cell(j)
  <1> USE RingBufferAssumption DEF TypeOK
  <1>1. CASE readPos <= writePos
    BY <1>1 DEF used, Cell, Moved
  <1>2. CASE readPos > writePos
    <2>1. CASE readPos + j < capacity
      BY <1>2, <2>1 DEF used, Cell, Moved
    <2>2. CASE readPos + j >= capacity
      BY <1>2, <2>2 DEF used, Cell, Moved
    <2> QED BY <2>1, <2>2
  <1> QED BY <1>1, <1>2

\* What a write does to the block: the cells of the buffer stay, and the bytes
\* of s follow them.
LEMMA WriteLayout ==
    ASSUME TypeOK, NEW s \in Seq(Bytes), s # <<>>, writeData(s)
    PROVE  /\ capacity' \in InitialCapacity..MaxCapacity
           /\ data' \in [0..capacity' - 1 -> Bytes \cup {Junk}]
           /\ readPos' \in 0..capacity' - 1 /\ writePos' \in 0..capacity' - 1
           /\ used' = used + Len(s)
           /\ \A j \in 0..used - 1 : Cell(j)' = Cell(j)
           /\ \A j \in used..used + Len(s) - 1 : Cell(j)' = s[j - used + 1]
  <1>1. Len(s) \in Nat \ {0} /\ \A i \in 1..Len(s) : s[i] \in Bytes
    BY EmptySeq, ElementOfSeq
  <1>2. PICK c \in capacity..MaxCapacity :
          /\ IF Len(s) > available
             THEN Expanded(c, Len(s) - available + capacity)
             ELSE c = capacity
          /\ capacity' = c
          /\ readPos' = IF readPos > writePos THEN readPos + (c - capacity)
                                              ELSE readPos
          /\ data' = Copied(Moved(c), c, s)
          /\ writePos' = (writePos + Len(s)) % c
    BY DEF writeData
  <1> DEFINE n == Len(s)
             r == IF readPos > writePos THEN readPos + (c - capacity) ELSE readPos
             w == IF writePos + n < c THEN writePos + n ELSE writePos + n - c
             tmp == IF n < c - writePos THEN n ELSE c - writePos
  <1>3. /\ n \in Nat \ {0}
        /\ capacity \in Nat \ {0} /\ c \in Nat \ {0} /\ c >= capacity
        /\ readPos \in 0..capacity - 1 /\ writePos \in 0..capacity - 1
        /\ used \in 0..capacity - 1
    BY <1>1, RingBufferAssumption, UsedType DEF TypeOK
  <1>4. n + used < c
    BY <1>2, <1>3 DEF available, Expanded
  <1>5. capacity' = c /\ readPos' = r /\ writePos' = w
    <2>1. writePos + n \in Nat /\ writePos + n < 2 * c
      BY <1>3, <1>4
    <2>2. (writePos + n) % c = w
      <3> DEFINE x == writePos + n
      <3>1. x \in Nat /\ x < 2 * c /\ c \in Nat \ {0}
        BY <1>3, <2>1
      <3>2. w = IF x < c THEN x ELSE x - c
        BY <1>3
      <3> HIDE DEF x, w
      <3>3. x % c = w
        BY <3>1, <3>2, Wrap
      <3> QED BY <3>3 DEF x
    <2> QED BY <1>2, <2>2
  <1>6. /\ r \in 0..c - 1 /\ w \in 0..c - 1
        /\ used + n = IF r <= w THEN w - r ELSE c - r + w
    <2>1. r \in 0..c - 1
      BY <1>3
    <2>2. w \in 0..c - 1
      BY <1>3, <1>4
    <2>3. used + n = IF r <= w THEN w - r ELSE c - r + w
      <3>1. CASE readPos <= writePos /\ writePos + n < c
        BY <1>3, <1>4, <3>1 DEF used
      <3>2. CASE readPos <= writePos /\ ~(writePos + n < c)
        BY <1>3, <1>4, <3>2 DEF used
      <3>3. CASE ~(readPos <= writePos) /\ writePos + n < c
        BY <1>3, <1>4, <3>3 DEF used
      <3>4. CASE ~(readPos <= writePos) /\ ~(writePos + n < c)
        BY <1>3, <1>4, <3>4 DEF used
      <3> QED BY <3>1, <3>2, <3>3, <3>4
    <2> QED BY <2>1, <2>2, <2>3
  <1>7. used' = used + n
    BY <1>5, <1>6 DEF used
  <1>8. /\ data' = [i \in 0..c - 1 |-> data'[i]]
        /\ \A i \in 0..c - 1 :
             data'[i] = IF i >= writePos /\ i < writePos + tmp THEN s[i - writePos + 1]
                        ELSE IF i < n - tmp THEN s[tmp + i + 1] ELSE Moved(c)[i]
    BY <1>2 DEF Copied
  <1>9. \A i \in 0..c - 1 : Moved(c)[i] \in Bytes \cup {Junk}
    BY <1>3 DEF Moved, TypeOK
  <1>10. \A i \in 0..c - 1 : data'[i] \in Bytes \cup {Junk}
    <2> TAKE i \in 0..c - 1
    <2>1. CASE i >= writePos /\ i < writePos + tmp
      <3>1. i - writePos + 1 \in 1..n
        BY <1>3, <2>1
      <3> QED BY <1>1, <1>8, <2>1, <3>1
    <2>2. CASE ~(i >= writePos /\ i < writePos + tmp) /\ i < n - tmp
      <3>1. tmp + i + 1 \in 1..n
        BY <1>3, <2>2
      <3> QED BY <1>1, <1>8, <2>2, <3>1
    <2>3. CASE ~(i >= writePos /\ i < writePos + tmp) /\ ~(i < n - tmp)
      BY <1>8, <1>9, <2>3
    <2> QED BY <2>1, <2>2, <2>3
  <1>11. data' \in [0..c - 1 -> Bytes \cup {Junk}]
    BY <1>8, <1>10
  <1>12. \A j : Cell(j)' = IF r + j < c THEN data'[r + j] ELSE data'[r + j - c]
    BY <1>5 DEF Cell
  <1>13. ASSUME NEW j \in 0..used - 1 PROVE Cell(j)' = Cell(j)
    <2>1. /\ r + j < c => Moved(c)[r + j] = Cell(j)
          /\ r + j >= c => r + j - c \in 0..c - 1 /\ Moved(c)[r + j - c] = Cell(j)
      BY <1>3, GrowKeepsCells
    <2>2. CASE r + j < c
      <3>1. /\ r + j \in 0..c - 1
            /\ ~(r + j >= writePos /\ r + j < writePos + tmp) /\ ~(r + j < n - tmp)
        BY <1>3, <1>4, <1>6, <2>2 DEF used
      <3>2. data'[r + j] = Moved(c)[r + j]
        BY <1>8, <3>1
      <3> QED BY <1>12, <2>1, <2>2, <3>2
    <2>3. CASE ~(r + j < c)
      <3>1. /\ r + j - c \in 0..c - 1 /\ r + j >= c
            /\ ~(r + j - c >= writePos /\ r + j - c < writePos + tmp)
            /\ ~(r + j - c < n - tmp)
        BY <1>3, <1>4, <1>6, <2>3 DEF used
      <3>2. data'[r + j - c] = Moved(c)[r + j - c]
        BY <1>8, <3>1
      <3> QED BY <1>12, <2>1, <2>3, <3>1, <3>2
    <2> QED BY <2>2, <2>3
  <1>14. ASSUME NEW j \in used..used + n - 1 PROVE Cell(j)' = s[j - used + 1]
    <2> DEFINE i == IF r + j < c THEN r + j ELSE r + j - c
    <2>1. /\ i \in 0..c - 1
          /\ i = IF writePos + (j - used) < c THEN writePos + (j - used)
                                              ELSE writePos + (j - used) - c
      BY <1>3, <1>4 DEF used
    <2>2. Cell(j)' = data'[i]
      BY <1>12
    <2>3. CASE writePos + (j - used) < c
      <3>1. i >= writePos /\ i < writePos + tmp /\ i - writePos + 1 = j - used + 1
        BY <1>3, <2>1, <2>3
      <3> QED BY <1>8, <2>1, <2>2, <3>1
    <2>4. CASE ~(writePos + (j - used) < c)
      <3>1. tmp = c - writePos /\ i = writePos + (j - used) - c
        BY <1>3, <1>4, <2>1, <2>4
      <3>2. i < writePos /\ i < n - tmp /\ tmp + i + 1 = j - used + 1
        <4> HIDE DEF tmp, i
        <4> QED BY <1>3, <1>4, <3>1
      <3> HIDE DEF tmp, i, n
      <3>3. data'[i] = s[tmp + i + 1]
        <4>1. ~(i >= writePos /\ i < writePos + tmp)
          BY <1>3, <2>1, <3>2
        <4> QED BY <1>8, <2>1, <3>2, <4>1
      <3> QED BY <2>2, <3>2, <3>3
    <2> QED BY <2>3, <2>4
  <1>15. c \in InitialCapacity..MaxCapacity
    BY RingBufferAssumption DEF TypeOK
  <1> QED BY <1>5, <1>6, <1>7, <1>11, <1>13, <1>14, <1>15
-----------------------------------------------------------------------------
(* readData                                                                *)

\* What a read does: n bytes are taken from the front, and the cells of the
\* others stay.
LEMMA ReadLayout ==
    ASSUME TypeOK, NEW length \in Nat, readData(length)
    PROVE  \E n \in 0..used :
              /\ UNCHANGED <<data, capacity, writePos>>
              /\ readPos' \in 0..capacity - 1
              /\ used' = used - n
              /\ \A j \in 0..used - n - 1 : Cell(j)' = Cell(n + j)
              /\ last' = Call("read", [j \in 1..n |-> Cell(j - 1)])
  <1> DEFINE n == IF length = 0 \/ length > used THEN used ELSE length
             tmp == IF n < capacity - readPos THEN n ELSE capacity - readPos
             out == [j \in 1..n |-> IF j <= tmp THEN data[readPos + j - 1]
                                                ELSE data[j - tmp - 1]]
             r == IF readPos + n < capacity THEN readPos + n
                                            ELSE readPos + n - capacity
  <1>1. /\ capacity \in Nat \ {0} /\ used \in 0..capacity - 1
        /\ readPos \in 0..capacity - 1 /\ writePos \in 0..capacity - 1
    BY RingBufferAssumption, UsedType DEF TypeOK
  <1>2. n \in 0..used
    BY <1>1
  <1>3. /\ last' = Call("read", out)
        /\ readPos' = (readPos + n) % capacity
        /\ UNCHANGED <<data, capacity, writePos>>
    BY DEF readData
  <1>4. out = [j \in 1..n |-> Cell(j - 1)]
    <2>1. ASSUME NEW j \in 1..n PROVE out[j] = Cell(j - 1)
      <3> HIDE DEF n
      <3>1. CASE readPos + (j - 1) < capacity
        <4>1. j <= tmp /\ readPos + j - 1 = readPos + (j - 1)
          BY <1>1, <1>2, <3>1
        <4> QED BY <3>1, <4>1 DEF Cell
      <3>2. CASE ~(readPos + (j - 1) < capacity)
        <4>1. ~(j <= tmp) /\ j - tmp - 1 = readPos + (j - 1) - capacity
          BY <1>1, <1>2, <3>2
        <4> QED BY <3>2, <4>1 DEF Cell
      <3> QED BY <3>1, <3>2
    <2> HIDE DEF n, tmp
    <2> QED BY <2>1
  <1> HIDE DEF n
  <1>5. readPos' = r
    <2> DEFINE x == readPos + n
    <2>1. x \in Nat /\ x < 2 * capacity
      BY <1>1, <1>2
    <2>2. r = IF x < capacity THEN x ELSE x - capacity
      BY <1>1, <1>2
    <2> HIDE DEF x, r
    <2>3. x % capacity = r
      BY <1>1, <2>1, <2>2, Wrap
    <2> QED BY <1>3, <2>3 DEF x
  <1>6. r \in 0..capacity - 1
    BY <1>1, <1>2
  <1>7. used' = used - n
    <2>1. used' = IF r <= writePos THEN writePos - r ELSE capacity - r + writePos
      <3> HIDE DEF r
      <3> QED BY <1>3, <1>5 DEF used
    <2>2. CASE readPos <= writePos
      BY <1>1, <1>2, <2>1, <2>2 DEF used
    <2>3. CASE ~(readPos <= writePos)
      BY <1>1, <1>2, <2>1, <2>3 DEF used
    <2> QED BY <2>2, <2>3
  <1>8. ASSUME NEW j \in 0..used - n - 1 PROVE Cell(j)' = Cell(n + j)
    <2>1. Cell(j)' = IF r + j < capacity THEN data[r + j] ELSE data[r + j - capacity]
      <3> HIDE DEF r
      <3> QED BY <1>3, <1>5 DEF Cell
    <2>2. CASE readPos + n < capacity
      <3>1. r = readPos + n
        BY <2>2
      <3>2. r + j = readPos + (n + j)
        BY <1>1, <1>2, <3>1
      <3> HIDE DEF r
      <3> QED BY <1>1, <1>2, <1>6, <2>1, <3>2 DEF Cell
    <2>3. CASE ~(readPos + n < capacity)
      <3>1. /\ r + j < capacity /\ ~(readPos + (n + j) < capacity)
            /\ r + j = readPos + (n + j) - capacity
        BY <1>1, <1>2, <2>3
      <3> HIDE DEF r
      <3> QED BY <2>1, <3>1 DEF Cell
    <2> QED BY <2>2, <2>3
  <1> QED BY <1>2, <1>3, <1>4, <1>5, <1>6, <1>7, <1>8

-----------------------------------------------------------------------------
(* The invariant                                                           *)

\* Every cell between the two positions was written.
Filled == \A j \in 0..used - 1 : Cell(j) \in Bytes

IInv == TypeOK /\ Filled

LEMMA FunctionIsSeq ==
    ASSUME NEW S, NEW n \in Nat, NEW f \in [1..n -> S]
    PROVE  f \in Seq(S) /\ Len(f) = n
  <1>1. f \in Seq(S)
    BY SeqDef
  <1> QED BY <1>1, LenProperties

LEMMA InitInv == Init => IInv
  <1> SUFFICES ASSUME Init PROVE IInv
    OBVIOUS
  <1> USE RingBufferAssumption
  <1>1. last \in [op : {"none", "write", "read", "truncate"}, bytes : Seq(Bytes)]
    BY EmptySeq DEF Init, Call
  <1>2. TypeOK
    BY <1>1 DEF Init, Blank, TypeOK
  <1>3. used = 0
    BY DEF Init, used
  <1> QED BY <1>2, <1>3 DEF IInv, Filled

LEMMA WriteInv ==
    ASSUME IInv, NEW s \in Seq(Bytes), s # <<>>, writeData(s)
    PROVE  IInv'
  <1>1. TypeOK
    BY DEF IInv
  <1>2. /\ capacity' \in InitialCapacity..MaxCapacity
        /\ data' \in [0..capacity' - 1 -> Bytes \cup {Junk}]
        /\ readPos' \in 0..capacity' - 1 /\ writePos' \in 0..capacity' - 1
        /\ used' = used + Len(s)
        /\ \A j \in 0..used - 1 : Cell(j)' = Cell(j)
        /\ \A j \in used..used + Len(s) - 1 : Cell(j)' = s[j - used + 1]
    BY <1>1, WriteLayout
  <1>3. last' \in [op : {"none", "write", "read", "truncate"}, bytes : Seq(Bytes)]
    BY DEF writeData, Call
  <1>4. TypeOK'
    BY <1>2, <1>3 DEF TypeOK
  <1>5. ASSUME NEW j \in 0..used' - 1 PROVE Cell(j)' \in Bytes
    <2>1. used \in Nat /\ Len(s) \in Nat
      BY <1>1, UsedType, EmptySeq
    <2>2. CASE j < used
      BY <1>2, <2>1, <2>2 DEF IInv, Filled
    <2>3. CASE ~(j < used)
      <3>1. j \in used..used + Len(s) - 1 /\ j - used + 1 \in 1..Len(s)
        BY <1>2, <2>1, <2>3
      <3>2. s[j - used + 1] \in Bytes
        BY <3>1, ElementOfSeq
      <3> QED BY <1>2, <3>1, <3>2
    <2> QED BY <2>2, <2>3
  <1> QED BY <1>4, <1>5 DEF IInv, Filled

LEMMA ReadInv ==
    ASSUME IInv, NEW length \in Nat, readData(length)
    PROVE  IInv'
  <1>1. TypeOK
    BY DEF IInv
  <1>2. PICK n \in 0..used :
              /\ UNCHANGED <<data, capacity, writePos>>
              /\ readPos' \in 0..capacity - 1
              /\ used' = used - n
              /\ \A j \in 0..used - n - 1 : Cell(j)' = Cell(n + j)
              /\ last' = Call("read", [j \in 1..n |-> Cell(j - 1)])
    BY <1>1, ReadLayout
  <1>3. used \in Nat /\ n \in Nat
    BY <1>1, UsedType
  <1>4. [j \in 1..n |-> Cell(j - 1)] \in Seq(Bytes)
    <2>1. \A j \in 1..n : Cell(j - 1) \in Bytes
      <3> TAKE j \in 1..n
      <3>1. j - 1 \in 0..used - 1
        BY <1>3
      <3> QED BY <3>1 DEF IInv, Filled
    <2>2. [j \in 1..n |-> Cell(j - 1)] \in [1..n -> Bytes]
      BY <2>1
    <2> QED BY <1>3, <2>2, FunctionIsSeq
  <1>5. TypeOK'
    BY <1>1, <1>2, <1>4 DEF TypeOK, Call
  <1>6. ASSUME NEW j \in 0..used' - 1 PROVE Cell(j)' \in Bytes
    <2>1. j \in 0..used - n - 1 /\ n + j \in 0..used - 1
      BY <1>2, <1>3
    <2> QED BY <1>2, <2>1 DEF IInv, Filled
  <1> QED BY <1>5, <1>6 DEF IInv, Filled

LEMMA TruncateInv ==
    ASSUME IInv, NEW resize \in BOOLEAN, truncate(resize)
    PROVE  IInv' /\ used' = 0
  <1> USE RingBufferAssumption
  <1>1. last' \in [op : {"none", "write", "read", "truncate"}, bytes : Seq(Bytes)]
    BY EmptySeq DEF truncate, Call
  <1>2. /\ capacity' \in InitialCapacity..MaxCapacity
        /\ data' \in [0..capacity' - 1 -> Bytes \cup {Junk}]
    BY DEF truncate, Blank, IInv, TypeOK
  <1>3. readPos' = 0 /\ writePos' = 0 /\ 0 \in 0..capacity' - 1
    BY <1>2 DEF truncate
  <1>4. TypeOK'
    BY <1>1, <1>2, <1>3 DEF TypeOK
  <1>5. used' = 0
    BY <1>3 DEF used
  <1> QED BY <1>4, <1>5 DEF IInv, Filled

LEMMA NextInv == IInv /\ [Next]_vars => IInv'
  <1> SUFFICES ASSUME IInv, [Next]_vars PROVE IInv'
    OBVIOUS
  <1>1. ASSUME NEW n \in 1..MaxLength, NEW s \in [1..n -> Bytes], writeData(s)
        PROVE  IInv'
    <2>1. s \in Seq(Bytes) /\ s # <<>>
      BY FunctionIsSeq, EmptySeq
    <2> QED BY <1>1, <2>1, WriteInv
  <1>2. ASSUME NEW length \in 0..MaxLength, readData(length) PROVE IInv'
    BY <1>2, ReadInv
  <1>3. ASSUME NEW resize \in BOOLEAN, truncate(resize) PROVE IInv'
    BY <1>3, TruncateInv
  <1>4. CASE UNCHANGED vars
    BY <1>4 DEF vars, IInv, TypeOK, Filled, used, Cell
  <1> QED BY <1>1, <1>2, <1>3, <1>4 DEF Next

\* No position leaves the block and only written bytes are delivered, in every
\* state of every instance.
THEOREM TypeCorrect == Spec => []TypeOK
  <1>1. IInv => TypeOK
    BY DEF IInv
  <1> QED BY <1>1, InitInv, NextInv, PTL DEF Spec

-----------------------------------------------------------------------------
(* Refinement                                                              *)

\* The content is a sequence of bytes.
ContentOK == Content \in Seq(Bytes) /\ Len(Content) = used

LEMMA ContentType == IInv => ContentOK
  <1> SUFFICES ASSUME IInv PROVE ContentOK
    OBVIOUS
  <1>1. TypeOK /\ used \in Nat
    BY UsedType DEF IInv
  <1>2. Content \in [1..used -> Bytes]
    <2>1. \A j \in 1..used : Cell(j - 1) \in Bytes
      <3> TAKE j \in 1..used
      <3>1. j - 1 \in 0..used - 1
        BY <1>1
      <3> QED BY <3>1 DEF IInv, Filled
    <2> QED BY <2>1 DEF Content
  <1> QED BY <1>1, <1>2, FunctionIsSeq DEF ContentOK

LEMMA ContentTypeNext == IInv' => ContentOK'
  BY ContentType, PTL

LEMMA WriteRefines ==
    ASSUME IInv, NEW s \in Seq(Bytes), s # <<>>, writeData(s)
    PROVE  BQ!Write(s)
  <1>1. TypeOK /\ used \in Nat /\ Len(s) \in Nat
    BY UsedType, EmptySeq DEF IInv
  <1>2. /\ used' = used + Len(s)
        /\ \A j \in 0..used - 1 : Cell(j)' = Cell(j)
        /\ \A j \in used..used + Len(s) - 1 : Cell(j)' = s[j - used + 1]
    BY <1>1, WriteLayout
  <1>3. Content \in Seq(Bytes) /\ Len(Content) = used
    BY ContentType DEF ContentOK
  <1>4. IInv'
    BY WriteInv
  <1>5. Content' \in Seq(Bytes) /\ Len(Content') = used'
    BY <1>4, ContentTypeNext DEF ContentOK
  <1>6. /\ Content \o s \in Seq(Bytes) /\ Len(Content \o s) = used + Len(s)
        /\ \A i \in 1..used + Len(s) :
             (Content \o s)[i] = IF i <= used THEN Content[i] ELSE s[i - used]
    BY <1>3, ConcatProperties
  <1>7. ASSUME NEW i \in 1..used' PROVE Content'[i] = (Content \o s)[i]
    <2>1. Content'[i] = Cell(i - 1)'
      BY DEF Content
    <2>2. i \in 1..used + Len(s)
      BY <1>2
    <2>3. CASE i <= used
      <3>1. i - 1 \in 0..used - 1 /\ i \in 1..used
        BY <1>1, <2>2, <2>3
      <3>2. Content[i] = Cell(i - 1)
        BY <3>1 DEF Content
      <3> QED BY <1>2, <1>6, <2>1, <2>2, <2>3, <3>1, <3>2
    <2>4. CASE ~(i <= used)
      <3>1. i - 1 \in used..used + Len(s) - 1 /\ (i - 1) - used + 1 = i - used
        BY <1>1, <2>2, <2>4
      <3>2. Cell(i - 1)' = s[i - used]
        BY <1>2, <3>1
      <3> QED BY <1>6, <2>1, <2>2, <2>4, <3>2
    <2> QED BY <2>3, <2>4
  <1>8. Content' = Content \o s
    BY <1>2, <1>5, <1>6, <1>7, SeqEqual
  <1>9. last' = BQ!Call("write", s)
    BY DEF writeData, Call, BQ!Call
  <1> QED BY <1>8, <1>9 DEF BQ!Write

LEMMA ReadRefines ==
    ASSUME IInv, NEW length \in Nat, readData(length)
    PROVE  \E n \in 0..Len(Content) : BQ!Read(n)
  <1>1. TypeOK /\ used \in Nat
    BY UsedType DEF IInv
  <1>2. PICK n \in 0..used :
              /\ UNCHANGED <<data, capacity, writePos>>
              /\ readPos' \in 0..capacity - 1
              /\ used' = used - n
              /\ \A j \in 0..used - n - 1 : Cell(j)' = Cell(n + j)
              /\ last' = Call("read", [j \in 1..n |-> Cell(j - 1)])
    BY <1>1, ReadLayout
  <1>3. Content \in Seq(Bytes) /\ Len(Content) = used
    BY ContentType DEF ContentOK
  <1>4. \A i \in 1..used : Content[i] = Cell(i - 1) /\ Content[i] \in Bytes
    <2> TAKE i \in 1..used
    <2>1. Content[i] = Cell(i - 1)
      BY DEF Content
    <2> QED BY <1>3, <2>1, ElementOfSeq
  <1>5. Content' \in Seq(Bytes) /\ Len(Content') = used'
    BY ReadInv, ContentTypeNext DEF ContentOK
  <1>6. Content' = SubSeq(Content, n + 1, used)
    <2>1. /\ SubSeq(Content, n + 1, used) \in Seq(Bytes)
          /\ Len(SubSeq(Content, n + 1, used)) = used - n
          /\ \A i \in 1..used - n : SubSeq(Content, n + 1, used)[i] = Content[n + i]
      <3>1. \A i \in n + 1..used : Content[i] \in Bytes
        BY <1>1, <1>4
      <3>2. /\ SubSeq(Content, n + 1, used) \in Seq(Bytes)
            /\ Len(SubSeq(Content, n + 1, used)) =
                 IF n + 1 <= used THEN used - (n + 1) + 1 ELSE 0
            /\ \A i \in 1..used - (n + 1) + 1 :
                 SubSeq(Content, n + 1, used)[i] = Content[(n + 1) + i - 1]
        BY <1>1, <3>1, SubSeqProperties
      <3>3. \A i \in 1..used - n : (n + 1) + i - 1 = n + i
        BY <1>1
      <3> QED BY <1>1, <3>2, <3>3
    <2>2. ASSUME NEW i \in 1..used - n
          PROVE  Content'[i] = SubSeq(Content, n + 1, used)[i]
      <3>1. /\ i - 1 \in 0..used - n - 1 /\ n + i \in 1..used
            /\ n + (i - 1) = (n + i) - 1
        BY <1>1
      <3>2. Content'[i] = Cell(i - 1)'
        BY <1>2 DEF Content
      <3>3. Content[n + i] = Cell((n + i) - 1)
        BY <1>4, <3>1
      <3> QED BY <1>2, <2>1, <3>1, <3>2, <3>3
    <2> QED BY <1>2, <1>5, <2>1, <2>2, SeqEqual
  <1>7. [j \in 1..n |-> Cell(j - 1)] = SubSeq(Content, 1, n)
    <2> DEFINE out == [j \in 1..n |-> Cell(j - 1)]
    <2>1. out \in Seq(Bytes) /\ Len(out) = n
      <3>1. out \in [1..n -> Bytes]
        BY <1>1, <1>4
      <3> HIDE DEF out
      <3> QED BY <3>1, FunctionIsSeq
    <2>2. /\ SubSeq(Content, 1, n) \in Seq(Bytes)
          /\ Len(SubSeq(Content, 1, n)) = n
          /\ \A i \in 1..n : SubSeq(Content, 1, n)[i] = Content[i]
      <3>1. \A i \in 1..n : Content[i] \in Bytes
        BY <1>1, <1>4
      <3>2. /\ SubSeq(Content, 1, n) \in Seq(Bytes)
            /\ Len(SubSeq(Content, 1, n)) = IF 1 <= n THEN n - 1 + 1 ELSE 0
            /\ \A i \in 1..n - 1 + 1 : SubSeq(Content, 1, n)[i] = Content[1 + i - 1]
        BY <1>1, <3>1, SubSeqProperties
      <3> QED BY <1>1, <3>2
    <2>3. \A i \in 1..n : out[i] = SubSeq(Content, 1, n)[i]
      BY <1>1, <1>4, <2>2
    <2> HIDE DEF out
    <2>4. out = SubSeq(Content, 1, n)
      BY <2>1, <2>2, <2>3, SeqEqual
    <2> QED BY <2>4 DEF out
  <1>8. BQ!Read(n)
    BY <1>2, <1>3, <1>6, <1>7 DEF BQ!Read, BQ!Call, Call
  <1> QED BY <1>3, <1>8

LEMMA InitRefines == Init => BQ!Init
  <1> SUFFICES ASSUME Init PROVE BQ!Init
    OBVIOUS
  <1>1. used = 0 /\ IInv
    BY InitInv DEF Init, used
  <1>2. Content = <<>>
    BY <1>1, ContentType, EmptySeq DEF ContentOK
  <1> QED BY <1>2 DEF BQ!Init, Init, BQ!Call, Call

\* Every step of the ring is a step of the queue of bytes, or none.
LEMMA NextRefines == IInv /\ [Next]_vars => [BQ!Next]_<<Content, last>>
  <1> SUFFICES ASSUME IInv, [Next]_vars
               PROVE  BQ!Next \/ UNCHANGED <<Content, last>>
    OBVIOUS
  <1>1. ASSUME NEW n \in 1..MaxLength, NEW s \in [1..n -> Bytes], writeData(s)
        PROVE  BQ!Next
    <2>1. s \in Seq(Bytes) /\ s # <<>>
      BY FunctionIsSeq, EmptySeq
    <2>2. BQ!Write(s)
      BY <1>1, <2>1, WriteRefines
    <2> QED BY <2>2 DEF BQ!Next
  <1>2. ASSUME NEW length \in 0..MaxLength, readData(length) PROVE BQ!Next
    BY <1>2, ReadRefines DEF BQ!Next
  <1>3. ASSUME NEW resize \in BOOLEAN, truncate(resize) PROVE BQ!Next
    <2>1. IInv' /\ used' = 0
      BY <1>3, TruncateInv
    <2>2. Content' = <<>>
      BY <2>1, ContentTypeNext, EmptySeq DEF ContentOK
    <2>3. last' = BQ!Call("truncate", <<>>)
      BY <1>3 DEF truncate, BQ!Call, Call
    <2> QED BY <2>2, <2>3 DEF BQ!Next, BQ!Clear
  <1>4. CASE UNCHANGED vars
    BY <1>4 DEF vars, Content, used, Cell
  <1> QED BY <1>1, <1>2, <1>3, <1>4 DEF Next

\* Bytes come out of the ring once and in the order in which they went in, for
\* every initial capacity and every mixture of reads, writes and growth.
THEOREM RingImplementsQueue == Spec => ImplementsByteQueue
  <1>1. IInv /\ [Next]_vars => IInv' /\ [BQ!Next]_<<Content, last>>
    BY NextInv, NextRefines
  <1> QED BY <1>1, InitInv, InitRefines, PTL
          DEF Spec, ImplementsByteQueue, BQ!Spec
-----------------------------------------------------------------------------
(* Sonyflake                                                               *)

CONSTANTS MachineIds, MaxTick, MaxIds
VARIABLES clock, lastTick, sequence, machineId, waiting, ids
S == INSTANCE Sonyflake


Ids == [tick : Nat, machine : 0..S!MachineSize - 1, seq : 0..S!SequenceSize - 1, id : Nat]

FlakeTypeOK ==
    /\ clock \in Nat /\ lastTick \in Nat /\ lastTick <= clock
    /\ sequence \in 0..S!SequenceSize - 1
    /\ machineId \in 0..S!MachineSize - 1
    /\ waiting \in BOOLEAN
    /\ ids \in Seq(Ids)

\* All that most steps need to know of the two sizes.
LEMMA Sizes == S!MachineSize \in Nat /\ S!SequenceSize \in Nat /\ S!SequenceSize > 1
  BY DEF S!MachineSize, S!SequenceSize

LEMMA IdsType ==
    ASSUME NEW e \in Ids
    PROVE  /\ e.tick \in Nat
           /\ e.machine \in Nat /\ e.machine < S!MachineSize
           /\ e.seq \in Nat /\ e.seq < S!SequenceSize
           /\ e.id \in Nat
  <1>1. /\ e.tick \in Nat /\ e.machine \in 0..S!MachineSize - 1
        /\ e.seq \in 0..S!SequenceSize - 1 /\ e.id \in Nat
    BY DEF Ids
  <1> QED BY <1>1, Sizes

Earlier(e, tick, seq) == e.tick < tick \/ (e.tick = tick /\ e.seq < seq)

\* Ids are made in the order of their ticks and sequence numbers, and the last
\* one has lastTick and sequence; in waitNextTick the tick is used up.
Ordered ==
    /\ \A i \in 1..Len(ids) :
          /\ ids[i].id = S!Id(ids[i].tick, ids[i].machine, ids[i].seq)
          /\ IF waiting THEN ids[i].tick <= lastTick
                        ELSE Earlier(ids[i], lastTick, sequence + 1)
    /\ \A i, j \in 1..Len(ids) : i < j => Earlier(ids[i], ids[j].tick, ids[j].seq)

FlakeInv == FlakeTypeOK /\ Ordered

\* An id that is made of an earlier pair is another one, and a smaller one when
\* the machine is the same.
LEMMA EarlierIds ==
    ASSUME NEW e \in Ids, NEW f \in Ids, Earlier(e, f.tick, f.seq),
           e.id = S!Id(e.tick, e.machine, e.seq), f.id = S!Id(f.tick, f.machine, f.seq)
    PROVE  e.id # f.id /\ (e.machine = f.machine => e.id < f.id)
  <1>1. /\ e.tick \in Nat /\ e.machine \in Nat /\ e.seq \in Nat
        /\ f.tick \in Nat /\ f.machine \in Nat /\ f.seq \in Nat
        /\ e.machine < 65536 /\ f.machine < 65536 /\ e.seq < 256 /\ f.seq < 256
    BY IdsType DEF S!MachineSize, S!SequenceSize
  <1>2. /\ e.id = (e.tick * 65536 + e.machine) * 256 + e.seq
        /\ f.id = (f.tick * 65536 + f.machine) * 256 + f.seq
    BY DEF S!Id, S!MachineSize, S!SequenceSize
  <1>3. CASE e.tick < f.tick
    BY <1>1, <1>2, <1>3
  <1>4. CASE e.tick = f.tick /\ e.seq < f.seq
    <2>1. CASE e.machine = f.machine
      BY <1>1, <1>2, <1>4, <2>1
    <2>2. CASE e.machine # f.machine
      BY <1>1, <1>2, <1>4, <2>2
    <2> QED BY <2>1, <2>2
  <1> QED BY <1>3, <1>4 DEF Earlier

\* nextId returns a pair that is later than all before.
LEMMA ReturnOrdered ==
    ASSUME FlakeInv, NEW tick \in Nat, NEW seq \in 0..S!SequenceSize - 1, tick <= clock,
           \A i \in 1..Len(ids) : Earlier(ids[i], tick, seq),
           S!Return(tick, seq)
    PROVE  FlakeInv'
  <1> DEFINE e == S!Made(tick, seq)
  <1>1. FlakeTypeOK /\ Ordered
    BY DEF FlakeInv
  <1>2. e \in Ids
    <2>1. S!Id(tick, machineId, seq) \in Nat
      BY <1>1, Sizes DEF S!Id, FlakeTypeOK
    <2> QED BY <1>1, <2>1 DEF S!Made, Ids, FlakeTypeOK
  <1>3. /\ ids' \in Seq(Ids) /\ Len(ids') = Len(ids) + 1 /\ Len(ids) \in Nat
        /\ \A i \in 1..Len(ids) : ids'[i] = ids[i]
        /\ ids'[Len(ids) + 1] = e
    <2> HIDE DEF e
    <2>1. ids' = Append(ids, e)
      BY DEF S!Return, e
    <2> QED BY <1>1, <1>2, <2>1, AppendProperties, LenProperties DEF FlakeTypeOK
  <1>4. FlakeTypeOK'
    BY <1>1, <1>3 DEF FlakeTypeOK, S!Return
  <1>5. e.tick = tick /\ e.seq = seq /\ e.id = S!Id(e.tick, e.machine, e.seq)
    BY DEF S!Made
  <1> HIDE DEF e
  <1>6. ASSUME NEW i \in 1..Len(ids')
        PROVE  /\ ids'[i].id = S!Id(ids'[i].tick, ids'[i].machine, ids'[i].seq)
               /\ Earlier(ids'[i], tick, seq + 1)
    <2>1. CASE i \in 1..Len(ids)
      <3>1. ids[i].tick \in Nat /\ ids[i].seq \in Nat
        BY <1>1, <2>1, ElementOfSeq, IdsType DEF FlakeTypeOK
      <3>2. ids[i].tick < tick \/ (ids[i].tick = tick /\ ids[i].seq < seq + 1)
        BY <2>1, <3>1, Sizes DEF Earlier
      <3>3. ids[i].id = S!Id(ids[i].tick, ids[i].machine, ids[i].seq)
        BY <1>1, <2>1 DEF Ordered
      <3> QED BY <1>3, <2>1, <3>2, <3>3 DEF Earlier
    <2>2. CASE i = Len(ids) + 1
      BY <1>3, <1>5, <2>2 DEF Earlier
    <2> QED BY <1>3, <2>1, <2>2
  <1>7. ASSUME NEW i \in 1..Len(ids'), NEW j \in 1..Len(ids'), i < j
        PROVE  Earlier(ids'[i], ids'[j].tick, ids'[j].seq)
    <2>1. i \in 1..Len(ids) /\ (j \in 1..Len(ids) \/ j = Len(ids) + 1)
      BY <1>3, <1>7
    <2>2. CASE j \in 1..Len(ids)
      BY <1>1, <1>3, <1>7, <2>1, <2>2 DEF Ordered
    <2>3. CASE j = Len(ids) + 1
      BY <1>3, <1>5, <2>1, <2>3
    <2> QED BY <2>1, <2>2, <2>3
  <1>8. waiting' = FALSE /\ lastTick' = tick /\ sequence' = seq
    BY DEF S!Return
  <1>9. Ordered'
    BY <1>6, <1>7, <1>8 DEF Ordered, Earlier
  <1> QED BY <1>4, <1>9 DEF FlakeInv

LEMMA FlakeInvInductive ==
    ASSUME MachineIds \subseteq 0..S!MachineSize - 1, MaxTick \in Nat
    PROVE  /\ S!Init => FlakeInv
           /\ FlakeInv /\ [S!Next]_(S!vars) => FlakeInv'
  <1>1. S!Init => FlakeInv
    <2> SUFFICES ASSUME S!Init PROVE FlakeInv
      OBVIOUS
    <2>1. ids \in Seq(Ids) /\ Len(ids) = 0
      BY EmptySeq DEF S!Init
    <2>2. FlakeTypeOK
      <3>1. clock \in Nat /\ machineId \in 0..S!MachineSize - 1
        BY DEF S!Init
      <3>2. lastTick = 0 /\ sequence = 0 /\ 0 \in 0..S!SequenceSize - 1
        BY Sizes DEF S!Init
      <3>3. lastTick \in Nat /\ lastTick <= clock
        BY <3>1, <3>2
      <3>4. waiting \in BOOLEAN
        BY DEF S!Init
      <3>5. sequence \in 0..S!SequenceSize - 1
        BY <3>2
      <3> QED BY <2>1, <3>1, <3>3, <3>4, <3>5 DEF FlakeTypeOK
    <2> QED BY <2>1, <2>2 DEF FlakeInv, Ordered
  <1>2. ASSUME FlakeInv, [S!Next]_(S!vars) PROVE FlakeInv'
    <2>1. FlakeTypeOK /\ Ordered
      BY <1>2 DEF FlakeInv
    <2>2. \A i \in 1..Len(ids) : ids[i].tick \in Nat /\ ids[i].seq \in Nat
                                 /\ ids[i].seq < S!SequenceSize
      BY <2>1, ElementOfSeq, IdsType DEF FlakeTypeOK
    <2>10. /\ clock \in Nat /\ lastTick \in Nat /\ lastTick <= clock
           /\ sequence \in Nat /\ sequence < S!SequenceSize
      BY <2>1, Sizes DEF FlakeTypeOK
    <2>11. \A i \in 1..Len(ids) :
              IF waiting THEN ids[i].tick <= lastTick
              ELSE \/ ids[i].tick < lastTick
                   \/ ids[i].tick = lastTick /\ ids[i].seq < sequence + 1
      BY <2>1 DEF Ordered, Earlier
    <2>3. CASE S!ClockGoesOn
      <3>1. UNCHANGED <<lastTick, sequence, machineId, waiting, ids>>
        BY <2>3 DEF S!ClockGoesOn
      <3>2. clock' \in Nat /\ lastTick <= clock'
        BY <2>3, <2>10 DEF S!ClockGoesOn
      <3>3. FlakeTypeOK'
        BY <2>1, <3>1, <3>2 DEF FlakeTypeOK
      <3> QED BY <2>1, <3>1, <3>3 DEF FlakeInv, Ordered, Earlier
    <2>4. CASE S!NewTick
      <3>1. \A i \in 1..Len(ids) : Earlier(ids[i], clock, 0)
        BY <2>2, <2>10, <2>11, <2>4 DEF S!NewTick, S!MayCall, Earlier
      <3> QED BY <1>2, <2>1, <2>4, <3>1, ReturnOrdered, Sizes
              DEF S!NewTick, FlakeTypeOK
    <2>5. CASE S!SameTick
      <3>1. \A i \in 1..Len(ids) : Earlier(ids[i], clock, sequence + 1)
        BY <2>2, <2>10, <2>11, <2>5 DEF S!SameTick, S!MayCall, Earlier
      <3> QED BY <1>2, <2>1, <2>5, <3>1, ReturnOrdered, Sizes
              DEF S!SameTick, FlakeTypeOK
    <2>6. CASE S!Overflow
      <3>1. FlakeTypeOK'
        BY <2>1, <2>6, Sizes DEF S!Overflow, FlakeTypeOK
      <3>2. \A i \in 1..Len(ids) : ids[i].tick <= lastTick
        BY <2>2, <2>10, <2>11, <2>6 DEF S!Overflow, S!MayCall
      <3> QED BY <2>1, <2>6, <3>1, <3>2 DEF S!Overflow, FlakeInv, Ordered, Earlier
    <2>7. CASE S!waitNextTick
      <3>1. \A i \in 1..Len(ids) : Earlier(ids[i], clock, sequence)
        BY <2>2, <2>10, <2>11, <2>7 DEF S!waitNextTick, Earlier
      <3> QED BY <1>2, <2>1, <2>7, <3>1, ReturnOrdered DEF S!waitNextTick, FlakeTypeOK
    <2>8. CASE S!SetMachineId
      BY <2>1, <2>8 DEF S!SetMachineId, FlakeInv, FlakeTypeOK, Ordered
    <2>9. CASE UNCHANGED S!vars
      BY <2>1, <2>9 DEF S!vars, FlakeInv, FlakeTypeOK, Ordered
    <2> QED BY <1>2, <2>3, <2>4, <2>5, <2>6, <2>7, <2>8, <2>9 DEF S!Next
  <1> QED BY <1>1, <1>2

\* No two ids are equal, and those of one machine ascend.
THEOREM IdsUniqueAndAscending ==
    ASSUME MachineIds \subseteq 0..S!MachineSize - 1, MaxTick \in Nat
    PROVE  S!Spec => [](S!Unique /\ S!Ascending)
  <1>1. FlakeInv => S!Unique /\ S!Ascending
    <2> SUFFICES ASSUME FlakeInv, NEW i \in 1..Len(ids), NEW j \in 1..Len(ids), i < j
                 PROVE  /\ ids[i].id # ids[j].id
                        /\ ids[i].machine = ids[j].machine => ids[i].id < ids[j].id
      BY DEF S!Unique, S!Ascending
    <2>1. ids[i] \in Ids /\ ids[j] \in Ids
      BY ElementOfSeq DEF FlakeInv, FlakeTypeOK
    <2> QED BY <2>1, EarlierIds DEF FlakeInv, Ordered
  <1> QED BY <1>1, FlakeInvInductive, PTL DEF S!Spec

-----------------------------------------------------------------------------
(* AStar: the types                                                        *)

LEMMA CellTypes ==
    /\ \A i \in Cells : i \in Nat
    /\ \A q \in Queries : /\ Grid(q) \subseteq Cells /\ {q.start, q.end} \subseteq Grid(q)
                          /\ q.block \subseteq Grid(q) /\ q.w \in Nat \ {0}
    /\ NoNode \notin Cells
  <1>1. \A i \in Cells : i \in Nat
    BY DEF Cells, Grid
  <1> QED BY <1>1, AStarAssumption DEF Cells, NoNode

\* Costs are positive and estimates are natural numbers.
LEMMA CostTypes ==
    ASSUME NEW q \in Queries, NEW i \in Cells, NEW j \in Cells
    PROVE  /\ CommonCost(q, i, j) \in Nat \ {0}
           /\ ManhattanDistance(q, i, j) \in Nat
  <1>1. CommonCost(q, i, j) \in Nat \ {0}
    BY DEF CommonCost
  <1>2. \A k \in Cells : X(q, k) \in Int /\ Y(q, k) \in Int
    BY CellTypes DEF X, Y
  <1>3. \A n \in Int : Abs(n) \in Nat
    BY DEF Abs
  <1>4. /\ Abs(X(q, i) - X(q, j)) \in Nat
        /\ Abs(Y(q, i) - Y(q, j)) \in Nat
    BY <1>2, <1>3
  <1>5. ManhattanDistance(q, i, j) \in Nat
    BY <1>4 DEF ManhattanDistance
  <1> QED BY <1>1, <1>5

LEMMA BlankType ==
    ASSUME NEW i \in Cells, NEW gen \in 0..Generations - 1
    PROVE  BlankNode(i, gen) \in PathNodes
  BY DEF BlankNode, PathNodes

\* A visited node is one of this search.  It stays as it is, or it is open and
\* the node that visits it becomes its parent.
LEMMA VisitedNode ==
    ASSUME AStarTypeOK, NEW i \in Cells, NEW j \in Cells
    PROVE  /\ Visited(i, j) \in PathNodes
           /\ Visited(i, j).generation = searchGeneration
           /\ \/ Visited(i, j) = nodes[j]
                 /\ (nodes[j].isClosed \/ nodes[j].g > 0)
              \/ /\ ~Visited(i, j).isClosed /\ Visited(i, j).parent = i
                 /\ nodes[j].generation = searchGeneration => ~nodes[j].isClosed
                 /\ Visited(i, j).g > nodes[i].g
  <1> DEFINE node == GetNode(nodes, j, searchGeneration)
             g    == nodes[i].g + CommonCost(map, i, j)
             f    == g + ManhattanDistance(map, j, map.end)
  <1>1. /\ nodes[i] \in PathNodes /\ nodes[j] \in PathNodes
        /\ searchGeneration \in 0..Generations - 1 /\ map \in Queries /\ map.end \in Cells
    BY CellTypes DEF AStarTypeOK
  <1>2. node \in PathNodes /\ node.generation = searchGeneration
    BY <1>1, BlankType DEF GetNode, BlankNode, PathNodes
  <1>3. g \in Nat /\ f \in Nat /\ g > nodes[i].g
    BY <1>1, CostTypes DEF PathNodes
  <1>4. \/ node = nodes[j] /\ nodes[j].generation = searchGeneration
        \/ node.g = 0 /\ ~node.isClosed /\ nodes[j].generation # searchGeneration
    BY <1>1 DEF GetNode, BlankNode
  <1>5. CASE ~node.isClosed /\ (node.g = 0 \/ g < node.g)
    <2>1. Visited(i, j) = [node EXCEPT !.g = g, !.parent = i, !.f = f]
      BY <1>5 DEF Visited
    <2>2. /\ Visited(i, j) \in PathNodes /\ Visited(i, j).g = g
          /\ Visited(i, j).parent = i
          /\ Visited(i, j).isClosed = node.isClosed
          /\ Visited(i, j).generation = node.generation
      BY <1>2, <1>3, <2>1 DEF PathNodes
    <2> QED BY <1>2, <1>3, <1>4, <1>5, <2>2
  <1>6. CASE ~(~node.isClosed /\ (node.g = 0 \/ g < node.g))
    <2>1. Visited(i, j) = node
      BY <1>6 DEF Visited
    <2>2. node.isClosed \/ node.g > 0
      BY <1>2, <1>6 DEF PathNodes
    <2> QED BY <1>2, <1>4, <2>1, <2>2
  <1> QED BY <1>5, <1>6

\* The nodes when a search starts: the start and the end are new, and no node
\* but them is of this search.
LEMMA SearchNodes ==
    ASSUME AStarTypeOK, NextSearch, map' \in Queries,
           \A i \in Cells : nodes[i].generation <= searchGeneration
    PROVE  /\ searchGeneration' \in 1..Generations - 1
           /\ nodes' \in [Cells -> PathNodes]
           /\ \A i \in Cells : IF i \in {map'.start, map'.end}
                               THEN nodes'[i] = BlankNode(i, searchGeneration')
                               ELSE nodes'[i].generation < searchGeneration'
  <1> DEFINE wraps   == searchGeneration + 1 = Generations
             cleared == IF wraps THEN [i \in Cells |-> BlankNode(i, 0)] ELSE nodes
  <1>1. searchGeneration' = IF wraps THEN 1 ELSE searchGeneration + 1
    BY DEF NextSearch
  <1>2. searchGeneration' \in 1..Generations - 1
    BY <1>1, AStarAssumption DEF AStarTypeOK
  <1>3. cleared \in [Cells -> PathNodes]
    BY BlankType, AStarAssumption DEF AStarTypeOK
  <1>4. \A i \in Cells : cleared[i].generation < searchGeneration'
    <2>1. CASE wraps
      BY <1>2, <2>1 DEF BlankNode
    <2>2. CASE ~wraps
      <3>1. \A i \in Cells : nodes[i].generation \in Nat
        BY DEF AStarTypeOK, PathNodes
      <3>2. searchGeneration' = searchGeneration + 1 /\ cleared = nodes
        BY <1>1, <2>2
      <3> QED BY <3>1, <3>2 DEF AStarTypeOK
    <2> QED BY <2>1, <2>2
  <1>5. nodes' = [i \in Cells |-> IF i \in {map'.start, map'.end}
                                  THEN GetNode(cleared, i, searchGeneration')
                                  ELSE cleared[i]]
    BY DEF NextSearch
  <1>6. \A i \in Cells : cleared[i].generation \in Int
    BY <1>3 DEF PathNodes
  <1>7. \A i \in Cells : GetNode(cleared, i, searchGeneration') = BlankNode(i, searchGeneration')
    BY <1>2, <1>4, <1>6 DEF GetNode
  <1> HIDE DEF cleared
  <1>8. nodes' \in [Cells -> PathNodes]
    BY <1>2, <1>3, <1>5, <1>7, BlankType
  <1> QED BY <1>2, <1>4, <1>5, <1>7, <1>8

LEMMA SeqAddFront ==
    ASSUME NEW Items, NEW s \in Seq(Items), NEW x \in Items
    PROVE  /\ <<x>> \o s \in Seq(Items) /\ Len(<<x>> \o s) = Len(s) + 1
           /\ (<<x>> \o s)[1] = x
           /\ \A n \in 1..Len(s) : (<<x>> \o s)[n + 1] = s[n]
           /\ \A n \in 1..Len(s) + 1 : (<<x>> \o s)[n] = IF n = 1 THEN x ELSE s[n - 1]
  OBVIOUS

\* The searches so far, and where findPath is.
SearchOK ==
    /\ \A i \in Cells : nodes[i].generation <= searchGeneration
    /\ searching => map.start # map.end /\ searchGeneration > 0
    /\ ~searching => current = NoNode
    /\ current = NoNode /\ searching => lastPath = <<>>

LEMMA AStarInitOK == AStarInit => AStarTypeOK /\ SearchOK
  <1> SUFFICES ASSUME AStarInit
               PROVE  AStarTypeOK /\ SearchOK
    OBVIOUS
  <1>1. map \in Queries /\ 0 \in 0..Generations - 1
    BY AStarAssumption DEF AStarInit
  <1>2. nodes \in [Cells -> PathNodes] /\ \A i \in Cells : nodes[i].generation = 0
    BY <1>1, BlankType DEF AStarInit, BlankNode
  <1>3. /\ count \in Nat /\ searches \in 0..MaxSearches /\ lastPath \in Seq(Cells)
        /\ openHeap \subseteq [f : Nat, node : Cells] /\ searchGeneration = 0
    BY AStarAssumption DEF AStarInit
  <1>4. AStarTypeOK
    BY <1>1, <1>2, <1>3 DEF AStarInit, AStarTypeOK
  <1>5. SearchOK
    BY <1>2, <1>3 DEF AStarInit, SearchOK
  <1> QED BY <1>4, <1>5

LEMMA ExpandTypes ==
    ASSUME AStarTypeOK, NEW e \in openHeap, Expand(e)
    PROVE  /\ nodes' \in [Cells -> PathNodes]
           /\ openHeap' \subseteq [f : Nat, node : Cells]
           /\ \A i \in Cells : \/ nodes'[i].generation = nodes[i].generation
                               \/ nodes'[i].generation = searchGeneration
  <1> DEFINE Around == Neighbours(map, e.node)
  <1>1. e.node \in Cells /\ Around \subseteq Cells
    BY CellTypes DEF AStarTypeOK, Neighbours
  <1>2. nodes' = [j \in Cells |->
                 IF j = e.node THEN [nodes[j] EXCEPT !.isClosed = TRUE]
                 ELSE IF j \in Around THEN Visited(e.node, j) ELSE nodes[j]]
    BY DEF Expand
  <1>3. openHeap' = Behind(e) \cup {[f |-> nodes'[j].f, node |-> j] :
                                            j \in {k \in Around : nodes'[k] # nodes[k]}}
    BY DEF Expand
  <1>4. \A i \in Cells : nodes[i] \in PathNodes
    BY DEF AStarTypeOK
  <1>5. /\ [nodes[e.node] EXCEPT !.isClosed = TRUE] \in PathNodes
        /\ [nodes[e.node] EXCEPT !.isClosed = TRUE].generation = nodes[e.node].generation
    <2>1. nodes[e.node] \in PathNodes
      BY <1>1, <1>4
    <2> QED BY <2>1 DEF PathNodes
  <1>6. \A j \in Around : /\ Visited(e.node, j) \in PathNodes
                          /\ Visited(e.node, j).generation = searchGeneration
    BY <1>1, VisitedNode
  <1>7. nodes' \in [Cells -> PathNodes]
    BY <1>1, <1>2, <1>4, <1>5, <1>6
  <1>8. \A i \in Cells : \/ nodes'[i].generation = nodes[i].generation
                         \/ nodes'[i].generation = searchGeneration
    BY <1>2, <1>5, <1>6
  <1>9. \A j \in Around : [f |-> nodes'[j].f, node |-> j] \in [f : Nat, node : Cells]
    BY <1>1, <1>7 DEF PathNodes
  <1> QED BY <1>3, <1>7, <1>8, <1>9 DEF Behind, AStarTypeOK

LEMMA SearchStep ==
    ASSUME AStarTypeOK, SearchOK, [AStarNext]_astarVars
    PROVE  AStarTypeOK' /\ SearchOK'
  <1> USE DEF Called
  <1>1. ASSUME NEW q \in Queries, FindNothing(q)
        PROVE  AStarTypeOK' /\ SearchOK'
    <2>1. searches' \in 0..MaxSearches /\ lastPath' \in Seq(Cells)
      BY <1>1, AStarAssumption DEF FindNothing, AStarTypeOK
    <2> QED BY <1>1, <2>1 DEF FindNothing, AStarTypeOK, SearchOK
  <1>2. ASSUME NEW q \in Queries, FindPath(q)
        PROVE  AStarTypeOK' /\ SearchOK'
    <2>1. searches' \in 0..MaxSearches /\ lastPath' = <<>> /\ map' = q
      BY <1>2, AStarAssumption DEF FindPath, AStarTypeOK
    <2>2. /\ searchGeneration' \in 1..Generations - 1
          /\ nodes' \in [Cells -> PathNodes]
          /\ \A i \in Cells : IF i \in {q.start, q.end}
                              THEN nodes'[i] = BlankNode(i, searchGeneration')
                              ELSE nodes'[i].generation < searchGeneration'
      BY <1>2, <2>1, SearchNodes DEF FindPath, SearchOK
    <2>3. \A i \in Cells : nodes'[i].generation <= searchGeneration'
      <3>1. \A i \in Cells : nodes'[i].generation \in Int
        BY <2>2 DEF PathNodes
      <3> QED BY <2>2, <3>1 DEF BlankNode
    <2>4. openHeap' \subseteq [f : Nat, node : Cells]
      <3>1. q.start \in Cells /\ nodes'[q.start].f \in Nat
        BY <2>2, CellTypes DEF PathNodes
      <3> QED BY <1>2, <3>1 DEF FindPath
    <2> QED BY <1>2, <2>1, <2>2, <2>3, <2>4, CellTypes DEF FindPath, AStarTypeOK, SearchOK
  <1>3. ASSUME NEW e \in openHeap, Expand(e)
        PROVE  AStarTypeOK' /\ SearchOK'
    <2>1. /\ UNCHANGED <<maxCount, map, searching, found, searchGeneration, current,
                         lastPath, searches>>
          /\ count' = count + 1
      BY <1>3 DEF Expand, Round
    <2>2. \A i \in Cells : nodes'[i].generation <= searchGeneration'
      BY <1>3, <2>1, ExpandTypes DEF SearchOK, AStarTypeOK
    <2> QED BY <1>3, <2>1, <2>2, ExpandTypes DEF AStarTypeOK, SearchOK
  <1>4. ASSUME NEW e \in openHeap, Reach(e)
        PROVE  AStarTypeOK' /\ SearchOK'
    BY <1>4, CellTypes DEF Reach, Round, Behind, AStarTypeOK, SearchOK
  <1>5. CASE FollowParent
    <2>1. current \in Cells /\ nodes[current] \in PathNodes /\ searching
      BY <1>5 DEF FollowParent, AStarTypeOK, SearchOK
    <2>2. lastPath' \in Seq(Cells)
      BY <1>5, <2>1, SeqAddFront DEF FollowParent, AStarTypeOK
    <2>3. current' \in Cells
      BY <1>5, <2>1 DEF FollowParent, PathNodes
    <2> QED BY <1>5, <2>1, <2>2, <2>3, CellTypes DEF FollowParent, AStarTypeOK, SearchOK
  <1>6. CASE ReturnPath \/ GiveUp
    <2>1. /\ UNCHANGED <<maxCount, map, nodes, searchGeneration, lastPath, searches>>
          /\ searching' = FALSE /\ openHeap' = {} /\ current' = NoNode
          /\ count' \in {count, count + 1}
      BY <1>6 DEF ReturnPath, GiveUp, Return
    <2>2. found' \in BOOLEAN
      BY <1>6 DEF ReturnPath, GiveUp, Return
    <2>3. AStarTypeOK'
      <3>1. count' \in Nat
        BY <2>1 DEF AStarTypeOK
      <3>2. openHeap' \subseteq [f : Nat, node : Cells] /\ current' \in Cells \cup {NoNode}
        BY <2>1
      <3>3. searching' \in BOOLEAN
        BY <2>1
      <3>4. /\ maxCount' \in Limits /\ map' \in Queries
            /\ nodes' \in [Cells -> PathNodes]
            /\ searchGeneration' \in 0..Generations - 1
        BY <2>1 DEF AStarTypeOK
      <3>5. lastPath' \in Seq(Cells) /\ searches' \in 0..MaxSearches
        BY <2>1 DEF AStarTypeOK
      <3> QED BY <2>2, <3>1, <3>2, <3>3, <3>4, <3>5, Zenon DEF AStarTypeOK
    <2>4. SearchOK'
      BY <2>1 DEF SearchOK
    <2> QED BY <2>3, <2>4
  <1>7. CASE Terminated \/ UNCHANGED astarVars
    BY <1>7 DEF Terminated, astarVars, AStarTypeOK, SearchOK
  <1> QED BY <1>1, <1>2, <1>3, <1>4, <1>5, <1>6, <1>7 DEF AStarNext

\* The nodes, the heap and the path are what their types say.
THEOREM AStarTypeSafe == AStarSpec => []AStarTypeOK
  <1>1. AStarSpec => [](AStarTypeOK /\ SearchOK)
    BY AStarInitOK, SearchStep, PTL DEF AStarSpec
  <1> QED BY <1>1, PTL

-----------------------------------------------------------------------------
(* AStar: what a search knows                                              *)

\* The nodes of this search to which it has found a way.
Reached(i) ==
    /\ nodes[i].generation = searchGeneration
    /\ i = map.start \/ nodes[i].g > 0

\* A step on the way to i that was found.
Leads(p, i) ==
    Reached(p) /\ nodes[p].isClosed /\ nodes[p].g < nodes[i].g /\ CanStep(map, p, i)

\* The parents of the nodes that were reached lead to the start by closed ones.
Tree ==
    /\ Reached(map.start) /\ nodes[map.start].parent = map.start
    /\ ~nodes[map.end].isClosed
    /\ \A i \in Cells : nodes[i].generation = searchGeneration =>
         /\ i \in Grid(map)
         /\ Reached(i) /\ i # map.start => Leads(nodes[i].parent, i)
         /\ ~Reached(i) => nodes[i].parent = i /\ ~nodes[i].isClosed

\* Around a closed node all are reached, and one that is reached and open is in
\* the heap, with the cost that it has now.
Frontier ==
    /\ \A e \in openHeap : Reached(e.node)
    /\ ~nodes[map.start].isClosed => \A e \in openHeap : e.node = map.start
    /\ \A i \in Cells : Reached(i) =>
         IF nodes[i].isClosed THEN \A j \in Neighbours(map, i) : Reached(j)
         ELSE current = NoNode => [f |-> nodes[i].f, node |-> i] \in openHeap

LEMMA SearchBegins ==
    ASSUME AStarTypeOK, SearchOK, NEW q \in Queries, FindPath(q)
    PROVE  Tree' /\ Frontier'
  <1>1. map' = q /\ q.start # q.end
    BY DEF FindPath, Called
  <1>2. /\ searchGeneration' \in 1..Generations - 1
        /\ nodes' \in [Cells -> PathNodes]
        /\ \A i \in Cells : IF i \in {q.start, q.end}
                            THEN nodes'[i] = BlankNode(i, searchGeneration')
                            ELSE nodes'[i].generation < searchGeneration'
    BY <1>1, SearchNodes DEF FindPath, SearchOK
  <1>3. \A i \in Cells : nodes'[i].generation = searchGeneration' =>
            /\ i \in {q.start, q.end} /\ nodes'[i].g = 0 /\ ~nodes'[i].isClosed
            /\ nodes'[i].parent = i
    <2>1. \A i \in Cells : nodes'[i].generation \in Int
      BY <1>2 DEF PathNodes
    <2> QED BY <1>2, <2>1 DEF BlankNode
  <1>4. /\ {q.start, q.end} \subseteq Cells /\ {q.start, q.end} \subseteq Grid(q)
        /\ \A i \in {q.start, q.end} : nodes'[i].generation = searchGeneration'
    BY <1>2, CellTypes DEF BlankNode
  <1>5. \A i \in Cells : Reached(i)' <=> i = q.start
    BY <1>1, <1>3, <1>4 DEF Reached
  <1>6. Tree'
    BY <1>1, <1>3, <1>4, <1>5 DEF Tree
  <1>7. openHeap' = {[f |-> nodes'[q.start].f, node |-> q.start]}
    BY DEF FindPath
  <1>8. Frontier'
    BY <1>1, <1>3, <1>4, <1>5, <1>7 DEF Frontier
  <1> QED BY <1>6, <1>8

\* A round closes one node and gives some around it, which are open, a way
\* through it.
LEMMA ExpandNodes ==
    ASSUME AStarTypeOK, Tree, Frontier, NEW e \in openHeap, Expand(e)
    PROVE  /\ e.node \in Cells /\ Reached(e.node) /\ ~nodes[e.node].isClosed
           /\ e.node # map.end
           /\ nodes'[e.node] = [nodes[e.node] EXCEPT !.isClosed = TRUE]
           /\ Neighbours(map, e.node) \subseteq Cells
           /\ \A j \in Cells \ {e.node} :
                \/ nodes'[j] = nodes[j]
                \/ /\ j \in Neighbours(map, e.node) /\ j # map.start
                   /\ nodes[j].generation = searchGeneration => ~nodes[j].isClosed
                   /\ nodes'[j].generation = searchGeneration
                   /\ ~nodes'[j].isClosed /\ nodes'[j].parent = e.node
                   /\ nodes'[j].g > nodes[e.node].g
           /\ \A j \in Neighbours(map, e.node) : Reached(j)'
           /\ \A j \in Cells : Reached(j) => Reached(j)'
  <1> DEFINE i == e.node
             Around == Neighbours(map, e.node)
  <1>1. i \in Cells /\ Around \subseteq Cells /\ map.start \in Cells
    BY CellTypes DEF AStarTypeOK, Neighbours
  <1>2. Reached(i) /\ ~nodes[i].isClosed /\ i # map.end
    BY DEF Frontier, Expand, Round, Least, Live
  <1>3. nodes' = [j \in Cells |->
                 IF j = i THEN [nodes[j] EXCEPT !.isClosed = TRUE]
                 ELSE IF j \in Around THEN Visited(i, j) ELSE nodes[j]]
    BY DEF Expand
  <1>4. \A j \in Cells : nodes[j] \in PathNodes
    BY DEF AStarTypeOK
  <1>5. i \notin Around
    BY DEF Neighbours, Adjacent
  <1>6. i # map.start => nodes[map.start].isClosed
    BY DEF Frontier
  <1>7. nodes[map.start].generation = searchGeneration
    BY DEF Tree, Reached
  <1>8. \A j \in Cells \ {i} :
                \/ nodes'[j] = nodes[j]
                \/ /\ j \in Around /\ j # map.start
                   /\ nodes[j].generation = searchGeneration => ~nodes[j].isClosed
                   /\ nodes'[j].generation = searchGeneration
                   /\ ~nodes'[j].isClosed /\ nodes'[j].parent = i
                   /\ nodes'[j].g > nodes[i].g
    <2> SUFFICES ASSUME NEW j \in Around, j # i, Visited(i, j) # nodes[j]
                 PROVE  /\ j # map.start
                        /\ nodes[j].generation = searchGeneration => ~nodes[j].isClosed
                        /\ Visited(i, j).generation = searchGeneration
                        /\ ~Visited(i, j).isClosed /\ Visited(i, j).parent = i
                        /\ Visited(i, j).g > nodes[i].g
      BY <1>1, <1>3
    <2>1. j \in Cells
      BY <1>1
    <2>2. /\ nodes[j].generation = searchGeneration => ~nodes[j].isClosed
          /\ Visited(i, j).generation = searchGeneration
          /\ ~Visited(i, j).isClosed /\ Visited(i, j).parent = i
          /\ Visited(i, j).g > nodes[i].g
      BY <1>1, <2>1, VisitedNode
    <2> QED BY <1>6, <1>7, <2>2
  <1>9. UNCHANGED <<map, searchGeneration>>
    BY DEF Expand
  <1>10. \A j \in Around : Reached(j)'
    <2> SUFFICES ASSUME NEW j \in Around
                 PROVE  Reached(j)'
      OBVIOUS
    <2>1. nodes'[j] = Visited(i, j) /\ j \in Cells /\ nodes[j] \in PathNodes
          /\ nodes[i] \in PathNodes
      BY <1>1, <1>3, <1>4, <1>5
    <2>2. nodes'[j].generation = searchGeneration
      BY <1>1, <2>1, VisitedNode
    <2>3. CASE nodes'[j] # nodes[j]
      <3>1. nodes'[j].g > nodes[i].g
        BY <1>1, <2>1, <2>3, VisitedNode
      <3>2. nodes[i].g \in Nat /\ nodes'[j].g \in Nat
        BY <1>1, <2>1, VisitedNode DEF PathNodes
      <3> QED BY <1>9, <2>2, <3>1, <3>2 DEF Reached
    <2>4. CASE nodes'[j] = nodes[j]
      <3>1. nodes[j].isClosed \/ nodes[j].g > 0
        <4>1. \/ nodes[j].isClosed \/ nodes[j].g > 0
              \/ nodes'[j].g > nodes[i].g
          BY <1>1, <2>1, VisitedNode
        <4> QED BY <2>1, <2>4, <4>1 DEF PathNodes
      <3>2. Reached(j)
        BY <2>1, <2>2, <2>4, <3>1 DEF Reached, Tree
      <3> QED BY <1>9, <2>4, <3>2 DEF Reached
    <2> QED BY <2>3, <2>4
  <1>11. \A j \in Cells : Reached(j) => Reached(j)'
    <2> SUFFICES ASSUME NEW j \in Cells, Reached(j)
                 PROVE  Reached(j)'
      OBVIOUS
    <2>1. CASE j = i
      <3>1. nodes'[j].generation = nodes[j].generation /\ nodes'[j].g = nodes[j].g
        BY <1>1, <1>3, <1>4, <2>1 DEF PathNodes
      <3> QED BY <1>9, <3>1 DEF Reached
    <2>2. CASE j # i
      BY <1>8, <1>9, <1>10, <2>2 DEF Reached
    <2> QED BY <2>1, <2>2
  <1> QED BY <1>1, <1>2, <1>3, <1>8, <1>10, <1>11

LEMMA ExpandTree ==
    ASSUME AStarTypeOK, Tree, Frontier, NEW e \in openHeap, Expand(e)
    PROVE  Tree'
  <1> DEFINE i == e.node
  <1>1. /\ i \in Cells /\ Reached(i) /\ ~nodes[i].isClosed /\ i # map.end
        /\ nodes'[i] = [nodes[i] EXCEPT !.isClosed = TRUE]
        /\ \A j \in Cells \ {i} :
             \/ nodes'[j] = nodes[j]
             \/ /\ j \in Neighbours(map, i) /\ j # map.start
                /\ nodes[j].generation = searchGeneration => ~nodes[j].isClosed
                /\ nodes'[j].generation = searchGeneration
                /\ ~nodes'[j].isClosed /\ nodes'[j].parent = i
                /\ nodes'[j].g > nodes[i].g
        /\ \A j \in Neighbours(map, i) : Reached(j)'
        /\ \A j \in Cells : Reached(j) => Reached(j)'
    BY ExpandNodes
  <1>2. UNCHANGED <<map, searchGeneration>>
    BY DEF Expand
  <1>3. map.start \in Cells /\ map.end \in Cells /\ \A j \in Cells : nodes[j] \in PathNodes
    BY CellTypes DEF AStarTypeOK
  <1>4. /\ nodes'[i].g = nodes[i].g /\ nodes'[i].parent = nodes[i].parent
        /\ nodes'[i].generation = nodes[i].generation /\ nodes'[i].isClosed
    <2>1. nodes[i] \in PathNodes
      BY <1>1, <1>3
    <2> QED BY <1>1, <2>1 DEF PathNodes
  <1>5. \A p \in Cells : nodes[p].isClosed /\ Reached(p) => nodes'[p] = nodes[p] /\ Reached(p)'
    BY <1>1 DEF Reached
  <1>6. Reached(map.start)' /\ nodes'[map.start].parent = map.start
    BY <1>1, <1>3, <1>4, <1>2 DEF Tree
  <1>7. ~nodes'[map.end].isClosed
    BY <1>1, <1>3 DEF Tree
  <1>8. ASSUME NEW k \in Cells, nodes'[k].generation = searchGeneration
        PROVE  /\ k \in Grid(map)
               /\ Reached(k)' /\ k # map.start => Leads(nodes[k].parent, k)'
               /\ ~Reached(k)' => nodes'[k].parent = k /\ ~nodes'[k].isClosed
    <2>1. CASE k # i /\ nodes'[k] # nodes[k]
      <3>1. /\ k \in Neighbours(map, i) /\ nodes'[k].parent = i
            /\ nodes'[k].g > nodes[i].g /\ Reached(k)' /\ Reached(i)'
        BY <1>1, <2>1
      <3>2. k \in Grid(map) /\ CanStep(map, i, k)
        BY <3>1 DEF Neighbours, CanStep
      <3>3. nodes'[i].g < nodes'[k].g
        <4>1. nodes'[k] \in PathNodes /\ nodes[i] \in PathNodes
          BY <1>1, <1>3, ExpandTypes
        <4>2. nodes'[k].g \in Nat /\ nodes[i].g \in Nat
          BY <4>1 DEF PathNodes
        <4> QED BY <1>4, <3>1, <4>2
      <3>4. Leads(i, k)'
        BY <1>2, <1>4, <3>1, <3>2, <3>3 DEF Leads
      <3>5. Leads(nodes[k].parent, k)'
        BY <3>1, <3>4 DEF Leads, Reached
      <3> QED BY <3>1, <3>2, <3>5
    <2>2. CASE k = i \/ nodes'[k] = nodes[k]
      <3>1. /\ nodes'[k].g = nodes[k].g /\ nodes'[k].parent = nodes[k].parent
            /\ nodes'[k].generation = nodes[k].generation
            /\ Reached(k)' <=> Reached(k)
        BY <1>2, <1>4, <2>2 DEF Reached
      <3>2. k \in Grid(map) /\ (~Reached(k) => nodes[k].parent = k /\ ~nodes[k].isClosed)
        BY <3>1, <1>2, <1>8 DEF Tree
      <3>3. Reached(k)' /\ k # map.start => Leads(nodes[k].parent, k)'
        <4> SUFFICES ASSUME Reached(k)', k # map.start
                     PROVE  Leads(nodes[k].parent, k)'
          OBVIOUS
        <4>1. PICK p \in Cells : p = nodes[k].parent
          BY <1>3 DEF PathNodes
        <4>2. Leads(p, k)
          BY <3>1, <4>1, <1>8 DEF Tree
        <4>3. nodes'[p] = nodes[p] /\ Reached(p)'
          BY <1>5, <4>2 DEF Leads
        <4>4. Leads(p, k)'
          BY <1>2, <3>1, <4>2, <4>3 DEF Leads
        <4>5. nodes'[k].parent = p
          BY <3>1, <4>1
        <4> QED BY <4>4, <4>5 DEF Leads, Reached
      <3>4. ~Reached(k) => ~nodes'[k].isClosed
        BY <1>1, <2>2, <3>2
      <3> QED BY <3>1, <3>2, <3>3, <3>4
    <2> QED BY <2>1, <2>2
  <1> QED BY <1>2, <1>6, <1>7, <1>8 DEF Tree

LEMMA ExpandFrontier ==
    ASSUME AStarTypeOK, Tree, Frontier, NEW e \in openHeap, Expand(e)
    PROVE  Frontier'
  <1> DEFINE i == e.node
             Around == Neighbours(map, i)
  <1>1. /\ i \in Cells /\ Reached(i) /\ ~nodes[i].isClosed
        /\ nodes'[i] = [nodes[i] EXCEPT !.isClosed = TRUE]
        /\ Around \subseteq Cells
        /\ \A j \in Cells \ {i} :
             \/ nodes'[j] = nodes[j]
             \/ /\ j \in Around /\ j # map.start
                /\ ~nodes'[j].isClosed
        /\ \A j \in Around : Reached(j)'
        /\ \A j \in Cells : Reached(j) => Reached(j)'
    BY ExpandNodes
  <1>2. UNCHANGED <<map, searchGeneration, current>>
    BY DEF Expand
  <1>3. openHeap' = Behind(e) \cup {[f |-> nodes'[j].f, node |-> j] :
                                            j \in {k \in Around : nodes'[k] # nodes[k]}}
    BY DEF Expand
  <1>4. /\ e \in Least /\ current = NoNode
        /\ map.start \in Cells /\ \A o \in openHeap : o.node \in Cells /\ o.f \in Nat
    BY CellTypes DEF Expand, Round, AStarTypeOK
  <1>5. nodes'[i].isClosed
    <2>1. nodes[i] \in PathNodes
      BY <1>1 DEF AStarTypeOK
    <2> QED BY <1>1, <2>1 DEF PathNodes
  <1>6. \A o \in openHeap' : Reached(o.node)'
    BY <1>1, <1>3, <1>4 DEF Frontier, Behind
  <1>7. nodes'[map.start].isClosed
    BY <1>1, <1>4, <1>5 DEF Frontier
  <1>8. ASSUME NEW k \in Cells, Reached(k)', nodes'[k].isClosed, NEW j \in Neighbours(map, k)
        PROVE  Reached(j)'
    <2>1. CASE k = i
      BY <1>1, <2>1
    <2>2. CASE k # i
      <3>1. nodes'[k] = nodes[k]
        BY <1>1, <1>8, <2>2
      <3>2. Reached(k) /\ nodes[k].isClosed
        BY <1>2, <1>8, <3>1 DEF Reached
      <3>3. j \in Cells
        BY CellTypes DEF AStarTypeOK, Neighbours
      <3> QED BY <1>1, <3>2, <3>3 DEF Frontier
    <2> QED BY <2>1, <2>2
  <1>9. ASSUME NEW k \in Cells, Reached(k)', ~nodes'[k].isClosed
        PROVE  [f |-> nodes'[k].f, node |-> k] \in openHeap'
    <2>1. k # i
      BY <1>5, <1>9
    <2>2. CASE nodes'[k] # nodes[k]
      BY <1>1, <1>3, <2>1, <2>2
    <2>3. CASE nodes'[k] = nodes[k]
      <3> DEFINE o == [f |-> nodes[k].f, node |-> k]
      <3>1. Reached(k) /\ ~nodes[k].isClosed
        BY <1>2, <1>9, <2>3 DEF Reached
      <3>2. o \in openHeap
        BY <1>4, <3>1 DEF Frontier
      <3>3. o \in Live
        BY <3>1, <3>2 DEF Live
      <3>4. e.f <= o.f /\ o # e
        BY <1>4, <2>1, <3>3 DEF Least
      <3>5. o \in Behind(e)
        BY <1>4, <3>2, <3>4 DEF Behind
      <3> QED BY <1>3, <2>3, <3>5
    <2> QED BY <2>2, <2>3
  <1> QED BY <1>2, <1>6, <1>7, <1>8, <1>9 DEF Frontier

-----------------------------------------------------------------------------
(* AStar: the path                                                         *)

\* The way behind current leads to the end, and its costs grow.
Following ==
    LET way == Way(current)
    IN  /\ Reached(current) /\ way[Len(way)] = map.end
        /\ \A n \in 1..Len(lastPath) : CanStep(map, way[n], way[n + 1])
        /\ \A n, m \in 1..Len(way) : n < m => nodes[way[n]].g < nodes[way[m]].g

LEMMA WayType ==
    ASSUME AStarTypeOK, NEW i \in Cells
    PROVE  /\ Way(i) \in Seq(Cells) /\ Len(Way(i)) = Len(lastPath) + 1 /\ Way(i)[1] = i
           /\ Len(lastPath) \in Nat /\ DOMAIN Way(i) = 1..Len(lastPath) + 1
           /\ \A n \in 1..Len(lastPath) + 1 : Way(i)[n] \in Cells
  <1>1. lastPath \in Seq(Cells)
    BY DEF AStarTypeOK
  <1>2. /\ Way(i) \in Seq(Cells) /\ Len(Way(i)) = Len(lastPath) + 1 /\ Way(i)[1] = i
        /\ Len(lastPath) \in Nat
    BY <1>1, SeqAddFront, LenProperties DEF Way
  <1> HIDE DEF Way
  <1> QED BY <1>2, LenProperties, ElementOfSeq

LEMMA FollowingInjective ==
    AStarTypeOK /\ current \in Cells /\ Following => IsInjective(Way(current))
  <1> SUFFICES ASSUME AStarTypeOK, current \in Cells, Following
               PROVE  IsInjective(Way(current))
    OBVIOUS
  <1>1. \A n \in 1..Len(lastPath) + 1 : nodes[Way(current)[n]].g \in Nat
    <2>1. \A n \in 1..Len(lastPath) + 1 : Way(current)[n] \in Cells
      BY WayType
    <2> QED BY <2>1 DEF AStarTypeOK, PathNodes
  <1>2. /\ DOMAIN Way(current) = 1..Len(lastPath) + 1
        /\ Len(Way(current)) = Len(lastPath) + 1 /\ Len(lastPath) \in Nat
    BY WayType
  <1>3. \A n, m \in 1..Len(lastPath) + 1 :
            n < m => nodes[Way(current)[n]].g < nodes[Way(current)[m]].g
    BY <1>2 DEF Following
  <1>4. ASSUME NEW n \in 1..Len(lastPath) + 1, NEW m \in 1..Len(lastPath) + 1,
               Way(current)[n] = Way(current)[m]
        PROVE  n = m
    <2>1. ~(n < m) /\ ~(m < n)
      BY <1>1, <1>3, <1>4
    <2> QED BY <1>2, <2>1
  <1> QED BY <1>2, <1>4 DEF IsInjective

LEMMA ReachFollows ==
    ASSUME AStarTypeOK, SearchOK, Tree, Frontier, NEW e \in openHeap, Reach(e)
    PROVE  Tree' /\ Frontier' /\ Following'
  <1>1. /\ UNCHANGED <<map, nodes, searchGeneration, lastPath>>
        /\ current' = map.end /\ lastPath = <<>> /\ map.end \in Cells
        /\ openHeap' \subseteq openHeap /\ current' # NoNode
    BY CellTypes DEF Reach, Round, Behind, SearchOK, AStarTypeOK
  <1>2. Tree'
    BY <1>1 DEF Tree, Leads, Reached
  <1>3. Frontier'
    BY <1>1 DEF Frontier, Reached
  <1>4. Reached(map.end)
    BY DEF Reach, Frontier
  <1>5. Way(map.end) = <<map.end>>
    BY <1>1 DEF Way
  <1>6. Following'
    BY <1>1, <1>4, <1>5 DEF Following, Reached, Way
  <1> QED BY <1>2, <1>3, <1>6

LEMMA FollowStep ==
    ASSUME AStarTypeOK, SearchOK, Tree, Following, FollowParent
    PROVE  Following'
  <1>1. /\ UNCHANGED <<map, nodes, searchGeneration>> /\ current \in Cells
        /\ lastPath' = <<current>> \o lastPath /\ current' = nodes[current].parent
        /\ nodes[current].parent # current
    BY DEF FollowParent, AStarTypeOK
  <1>2. PICK p \in Cells : p = nodes[current].parent
    BY <1>1 DEF AStarTypeOK, PathNodes
  <1>3. Leads(p, current)
    BY <1>1, <1>2 DEF Following, Reached, Tree
  <1> DEFINE way == Way(current)
             k   == Len(lastPath) + 1
  <1>4. /\ way \in Seq(Cells) /\ Len(way) = k /\ way[1] = current /\ k \in Nat \ {0}
        /\ \A n \in 1..k : way[n] \in Cells
    BY <1>1, WayType
  <1>5. lastPath' = way
    BY <1>1 DEF Way
  <1>6. Way(current)' = <<p>> \o way
    BY <1>1, <1>2, <1>5 DEF Way
  <1>7. /\ Len(<<p>> \o way) = k + 1
        /\ \A n \in 1..k + 1 : (<<p>> \o way)[n] = IF n = 1 THEN p ELSE way[n - 1]
    BY <1>4, SeqAddFront
  <1>8. /\ way[k] = map.end
        /\ \A n \in 1..k - 1 : CanStep(map, way[n], way[n + 1])
        /\ \A n, m \in 1..k : n < m => nodes[way[n]].g < nodes[way[m]].g
    BY <1>4, WayType DEF Following
  <1>9. \A c \in Cells : nodes[c].g \in Nat
    BY DEF AStarTypeOK, PathNodes
  <1> DEFINE next == <<p>> \o way
  <1> HIDE DEF way, k
  <1>10. next[k + 1] = map.end
    BY <1>4, <1>7, <1>8
  <1>11. ASSUME NEW n \in 1..k
         PROVE  CanStep(map, next[n], next[n + 1])
    <2>1. CASE n = 1
      BY <1>3, <1>4, <1>7, <2>1 DEF Leads
    <2>2. CASE n # 1
      <3>1. n - 1 \in 1..k - 1 /\ next[n] = way[n - 1] /\ next[n + 1] = way[(n - 1) + 1]
        BY <1>4, <1>7, <2>2
      <3> QED BY <1>8, <3>1
    <2> QED BY <2>1, <2>2
  <1>12. ASSUME NEW n \in 1..k + 1, NEW m \in 1..k + 1, n < m
         PROVE  nodes[next[n]].g < nodes[next[m]].g
    <2>1. m - 1 \in 1..k /\ next[m] = way[m - 1] /\ way[m - 1] \in Cells
      BY <1>4, <1>7, <1>12
    <2>2. CASE n # 1
      <3>1. n - 1 \in 1..k /\ next[n] = way[n - 1] /\ n - 1 < m - 1
        BY <1>4, <1>7, <1>12, <2>2
      <3> QED BY <1>8, <2>1, <3>1
    <2>3. CASE n = 1
      <3>1. next[n] = p /\ nodes[p].g < nodes[way[1]].g /\ 1 \in 1..k
        BY <1>3, <1>4, <1>7, <2>3 DEF Leads
      <3>2. nodes[way[1]].g <= nodes[way[m - 1]].g
        <4>1. CASE m - 1 = 1
          BY <1>4, <1>9, <4>1
        <4>2. CASE m - 1 > 1
          BY <1>4, <1>8, <1>9, <2>1, <3>1, <4>2
        <4> QED BY <2>1, <4>1, <4>2
      <3>3. PICK x, y, z \in Nat : /\ x = nodes[p].g /\ y = nodes[way[1]].g
                                  /\ z = nodes[way[m - 1]].g
        BY <1>2, <1>4, <1>9, <2>1, <3>1
      <3>4. x < y /\ y <= z
        BY <3>1, <3>2, <3>3
      <3>5. x < z
        BY <3>4
      <3> QED BY <2>1, <3>1, <3>3, <3>5
    <2> QED BY <2>2, <2>3
  <1>13. Reached(p)
    BY <1>3 DEF Leads
  <1>14. Len(lastPath') = k
    BY <1>4, <1>5
  <1>15. Reached(current)'
    BY <1>1, <1>2, <1>13 DEF Reached
  <1> QED BY <1>1, <1>6, <1>7, <1>10, <1>11, <1>12, <1>14, <1>15 DEF Following

LEMMA LeastNumber ==
    ASSUME NEW T, T \subseteq Nat, T # {}
    PROVE  \E x \in T : \A y \in T : x <= y
  <1>1. PICK x \in T : \A y \in T : <<y, x>> \notin OpToRel(<, Nat)
    BY NatLessThanWellFounded, WFMin, Zenon
  <1>2. \A y \in T : ~(y < x)
    BY <1>1 DEF OpToRel
  <1> QED BY <1>2

\* popOpen() returns null only when there is no live entry.
LEMMA NoneLeast ==
    ASSUME AStarTypeOK, Least = {}
    PROVE  Live = {}
  <1> SUFFICES ASSUME Live # {}
               PROVE  FALSE
    OBVIOUS
  <1> DEFINE T == {o.f : o \in Live}
  <1>1. \A o \in Live : o.f \in Nat
    BY DEF Live, AStarTypeOK
  <1>2. T \subseteq Nat /\ T # {}
    BY <1>1
  <1>3. PICK x \in T : \A y \in T : x <= y
    BY <1>2, LeastNumber
  <1>4. PICK e \in Live : e.f = x
    BY <1>3
  <1>5. \A o \in Live : e.f <= o.f
    BY <1>3, <1>4
  <1> QED BY <1>4, <1>5 DEF Least

\* When nothing is left in the heap, what was reached is what can be reached.
LEMMA NoWay ==
    ASSUME AStarTypeOK, SearchOK, Tree, Frontier, current = NoNode, Least = {}
    PROVE  map \notin Solvable
  <1> DEFINE Known == {i \in Grid(map) : Reached(i)}
  <1>1. /\ map \in Queries /\ Grid(map) \subseteq Cells
        /\ map.start \in Grid(map) /\ map.end \in Grid(map)
    BY CellTypes DEF AStarTypeOK
  <1>2. \A i \in Known : nodes[i].isClosed
    <2> SUFFICES ASSUME NEW i \in Known, ~nodes[i].isClosed
                 PROVE  FALSE
      OBVIOUS
    <2>1. [f |-> nodes[i].f, node |-> i] \in openHeap
      BY <1>1 DEF Frontier
    <2>2. [f |-> nodes[i].f, node |-> i] \in Live
      BY <2>1 DEF Live
    <2> QED BY <2>2, NoneLeast
  <1>3. ASSUME NEW i \in Known, NEW j \in Grid(map), CanStep(map, i, j)
        PROVE  j \in Known
    <2>1. j \in Neighbours(map, i)
      BY <1>3 DEF CanStep, Neighbours
    <2> QED BY <1>1, <1>2, <2>1 DEF Frontier
  <1>4. map.start \in Known /\ map.end \notin Known
    BY <1>1, <1>2 DEF Tree
  <1>5. Known \in SUBSET Grid(map)
    OBVIOUS
  <1> HIDE DEF Known
  <1> QED BY <1>3, <1>4, <1>5 DEF Solvable

\* A blocked end cannot be reached from anywhere else.
LEMMA EndBlocked ==
    ASSUME NEW q \in Queries, q.start # q.end, q.end \in q.block
    PROVE  q \notin Solvable
  <1> DEFINE Known == (Grid(q) \ q.block) \cup {q.start}
  <1>1. Known \in SUBSET Grid(q) /\ q.start \in Known /\ q.end \notin Known
    BY CellTypes
  <1>2. \A i \in Known : \A j \in Grid(q) : CanStep(q, i, j) => j \in Known
    BY DEF CanStep
  <1> HIDE DEF Known
  <1> QED BY <1>1, <1>2 DEF Solvable

-----------------------------------------------------------------------------
(* AStar: what findPath returns                                            *)

AStarInv ==
    /\ AStarTypeOK /\ SearchOK
    /\ searching => Tree /\ Frontier
    /\ current # NoNode => Following
    /\ PathIsWay /\ FindsAWay

LEMMA ReturnPathOK ==
    ASSUME AStarInv, ReturnPath
    PROVE  PathIsWay' /\ FindsAWay'
  <1>1. /\ UNCHANGED <<map, nodes, searchGeneration, lastPath>> /\ current' = NoNode
        /\ current # NoNode /\ current \in Cells /\ nodes[current].parent = current
        /\ found' = (lastPath # <<>>) /\ map \in Queries
    BY DEF ReturnPath, Return, AStarInv, AStarTypeOK
  <1>2. AStarTypeOK /\ SearchOK /\ searching /\ Tree /\ Following
    BY <1>1 DEF AStarInv, SearchOK
  <1>3. current = map.start
    <2> SUFFICES ASSUME current # map.start
                 PROVE  FALSE
      OBVIOUS
    <2>1. Leads(nodes[current].parent, current)
      BY <1>1, <1>2 DEF Following, Reached, Tree
    <2>2. nodes[current].g \in Nat
      BY <1>1, <1>2 DEF AStarTypeOK, PathNodes
    <2> QED BY <1>1, <2>1, <2>2 DEF Leads
  <1> DEFINE way == Way(map.start)
  <1>4. way' = way
    BY <1>1 DEF Way
  <1>5. /\ Len(way) = Len(lastPath) + 1 /\ way[1] = map.start /\ way[Len(way)] = map.end
        /\ \A n \in 1..Len(lastPath) : CanStep(map, way[n], way[n + 1])
        /\ IsInjective(way)
    BY <1>1, <1>2, <1>3, WayType, FollowingInjective DEF Following
  <1>6. lastPath # <<>>
    <2> SUFFICES ASSUME lastPath = <<>>
                 PROVE  FALSE
      OBVIOUS
    <2>1. way[1] = map.end
      BY <1>5
    <2> QED BY <1>2, <1>5, <2>1 DEF SearchOK
  <1> HIDE DEF way
  <1>7. PathIsWay'
    BY <1>1, <1>4, <1>5, <1>6 DEF PathIsWay, way
  <1>8. FindsAWay'
    BY <1>1, <1>6 DEF FindsAWay
  <1> QED BY <1>7, <1>8

LEMMA GiveUpOK ==
    ASSUME AStarInv, GiveUp
    PROVE  PathIsWay' /\ FindsAWay'
  <1>1. /\ AStarTypeOK /\ SearchOK /\ Tree /\ Frontier /\ lastPath = <<>>
        /\ current = NoNode /\ current' = NoNode /\ found' = FALSE
        /\ UNCHANGED <<map, maxCount>> /\ count' = count + 1
        /\ count >= maxCount \/ Least = {}
    BY DEF GiveUp, Return, AStarInv, SearchOK
  <1>2. PathIsWay'
    BY <1>1 DEF PathIsWay
  <1>3. CASE Least = {}
    BY <1>1, <1>2, <1>3, NoWay DEF FindsAWay
  <1>4. CASE count >= maxCount
    <2>1. count' > maxCount'
      BY <1>1, <1>4, AStarAssumption DEF AStarTypeOK
    <2> QED BY <1>2, <2>1 DEF FindsAWay
  <1> QED BY <1>1, <1>3, <1>4

LEMMA AStarStep ==
    ASSUME AStarInv, [AStarNext]_astarVars
    PROVE  AStarInv'
  <1>1. AStarTypeOK /\ SearchOK /\ AStarTypeOK' /\ SearchOK' /\ PathIsWay /\ FindsAWay
    BY SearchStep DEF AStarInv
  <1>a. (AStarTypeOK /\ current \in Cells /\ Following => IsInjective(Way(current)))'
    BY FollowingInjective, PTL
  <1>2. ASSUME NEW q \in Queries, FindNothing(q)
        PROVE  AStarInv'
    <2>1. /\ ~searching' /\ current' = NoNode /\ map' = q /\ found' = (q.start = q.end)
          /\ q.start = q.end \/ q.end \in q.block
      BY <1>1, <1>2 DEF FindNothing, Called, SearchOK
    <2>2. PathIsWay'
      BY <2>1 DEF PathIsWay
    <2>3. FindsAWay'
      BY <2>1, EndBlocked DEF FindsAWay
    <2> QED BY <1>1, <2>1, <2>2, <2>3 DEF AStarInv
  <1>3. ASSUME NEW q \in Queries, FindPath(q)
        PROVE  AStarInv'
    <2>1. searching' /\ current' = NoNode
      BY <1>1, <1>3 DEF FindPath, Called, SearchOK
    <2>2. Tree' /\ Frontier'
      BY <1>1, <1>3, SearchBegins
    <2> QED BY <1>1, <2>1, <2>2 DEF AStarInv, PathIsWay, FindsAWay
  <1>4. ASSUME NEW e \in openHeap, Expand(e)
        PROVE  AStarInv'
    <2>1. searching /\ searching' /\ current' = NoNode
      BY <1>4 DEF Expand, Round
    <2>2. Tree' /\ Frontier'
      BY <1>1, <1>4, <2>1, ExpandTree, ExpandFrontier DEF AStarInv
    <2> QED BY <1>1, <2>1, <2>2 DEF AStarInv, PathIsWay, FindsAWay
  <1>5. ASSUME NEW e \in openHeap, Reach(e)
        PROVE  AStarInv'
    <2>1. searching /\ searching' /\ current' \in Cells
      BY <1>1, <1>5, CellTypes DEF Reach, Round, AStarTypeOK
    <2>2. Tree' /\ Frontier' /\ Following'
      BY <1>1, <1>5, <2>1, ReachFollows DEF AStarInv
    <2>3. IsInjective(Way(current))'
      BY <1>1, <1>a, <2>1, <2>2
    <2> QED BY <1>1, <2>1, <2>2, <2>3 DEF AStarInv, PathIsWay, FindsAWay
  <1>6. CASE FollowParent
    <2>1. /\ searching /\ searching' /\ current # NoNode /\ current \in Cells
          /\ UNCHANGED <<map, nodes, openHeap, searchGeneration>>
          /\ current' = nodes[current].parent
      BY <1>1, <1>6 DEF FollowParent, SearchOK, AStarTypeOK
    <2>2. current' \in Cells
      BY <1>1, <2>1 DEF AStarTypeOK, PathNodes
    <2>3. Tree /\ Frontier /\ Following
      BY <2>1 DEF AStarInv
    <2>4. Tree'
      BY <2>1, <2>3 DEF Tree, Leads, Reached
    <2>5. current' # NoNode
      BY <2>2, CellTypes
    <2>6. Frontier'
      BY <2>1, <2>3, <2>5 DEF Frontier, Reached
    <2>7. Following'
      BY <1>1, <1>6, <2>3, FollowStep
    <2>8. IsInjective(Way(current))'
      BY <1>1, <1>a, <2>2, <2>7
    <2> QED BY <1>1, <2>1, <2>4, <2>6, <2>7, <2>8 DEF AStarInv, PathIsWay, FindsAWay
  <1>7. CASE ReturnPath \/ GiveUp
    <2>1. ~searching' /\ current' = NoNode
      BY <1>7 DEF ReturnPath, GiveUp, Return
    <2> QED BY <1>1, <1>7, <2>1, ReturnPathOK, GiveUpOK DEF AStarInv
  <1>8. CASE Terminated \/ UNCHANGED astarVars
    <2>1. UNCHANGED astarVars
      BY <1>8 DEF Terminated
    <2> QED BY <1>1, <2>1
            DEF astarVars, AStarInv, Tree, Leads, Reached, Frontier, Following, Way,
                PathIsWay, FindsAWay
  <1> QED BY <1>2, <1>3, <1>4, <1>5, <1>6, <1>7, <1>8 DEF AStarNext

LEMMA AStarReachable == AStarSpec => []AStarInv
  <1>1. AStarInit => AStarInv
    BY AStarInitOK DEF AStarInit, AStarInv, PathIsWay, FindsAWay
  <1> QED BY <1>1, AStarStep, PTL DEF AStarSpec

\* However many searches were made before, and whatever was left of them in the
\* nodes, a path that is found is a way, and the loop over the parents ends.
THEOREM FoundPathIsWay == AStarSpec => []PathIsWay
  BY AStarReachable, PTL DEF AStarInv

\* findPath gives up only after maxCount rounds or when there is no way.
THEOREM WayIsFound == AStarSpec => []FindsAWay
  BY AStarReachable, PTL DEF AStarInv
=============================================================================
