----------------------------- MODULE RingBuffer -----------------------------
(***************************************************************************)
(* RingBuffer (wsCore): bytes are written behind writePos and read from    *)
(* readPos in a block of memory that is used in a circle and that          *)
(* writeData makes larger when it is full.  A cell always stays free: with *)
(* readPos = writePos the buffer is empty.                                 *)
(*                                                                         *)
(* All other readers and writers of the class call readData and writeData. *)
(* Copies, moves and swap are not modelled, nor are null pointers and an   *)
(* allocation that fails, which throws.                                    *)
(***************************************************************************)
EXTENDS Integers, Sequences

CONSTANTS
    Bytes,
    Junk,             \* a cell that was never written
    InitialCapacity,  \* 4096
    MaxLength,        \* bound: bytes passed to one writeData
    MaxCapacity       \* bound: the largest block

ASSUME RingBufferAssumption ==
    /\ Junk \notin Bytes
    /\ InitialCapacity \in Nat \ {0} /\ MaxLength \in Nat /\ MaxCapacity \in Nat
    /\ InitialCapacity <= MaxCapacity

VARIABLES
    data, capacity, readPos, writePos,
    last              \* the last call and the bytes it wrote or delivered

vars == <<data, capacity, readPos, writePos, last>>

TypeOK ==
    /\ capacity \in InitialCapacity..MaxCapacity
    /\ data \in [0..capacity - 1 -> Bytes \cup {Junk}]
    /\ readPos \in 0..capacity - 1 /\ writePos \in 0..capacity - 1
    /\ last \in [op : {"none", "write", "read", "truncate"}, bytes : Seq(Bytes)]

Call(op, bytes) == [op |-> op, bytes |-> bytes]

Blank == [i \in 0..InitialCapacity - 1 |-> Junk]

Init == /\ data = Blank /\ capacity = InitialCapacity
        /\ readPos = 0 /\ writePos = 0
        /\ last = Call("none", <<>>)

-----------------------------------------------------------------------------
used == IF readPos <= writePos THEN writePos - readPos
                               ELSE capacity - readPos + writePos

\* Mutated form: no cell stays free.
availableAll == capacity - used

available == capacity - used - 1

\* The bytes in the buffer, in the order in which readData delivers them.
Cell(j) == IF readPos + j < capacity THEN data[readPos + j]
                                     ELSE data[readPos + j - capacity]
Content == [j \in 1..used |-> Cell(j - 1)]

-----------------------------------------------------------------------------
(* expand                                                                  *)

\* The capacity doubles until it is size at least.
Expanded(newCap, size) ==
    /\ size <= newCap /\ (newCap = capacity \/ newCap < 2 * size)
    /\ \E k \in 0..newCap : newCap = capacity * 2^k

\* Mutated form: the bytes up to the end of the block stay where they are.
MovedNot(newCap) == [i \in 0..newCap - 1 |-> IF i < capacity THEN data[i] ELSE Junk]

\* When they go on at its beginning, the bytes up to the end of the block move
\* to the end of the larger one.
Moved(newCap) ==
    [i \in 0..newCap - 1 |->
        IF readPos > writePos /\ i >= newCap - (capacity - readPos)
        THEN data[i - (newCap - capacity)]
        ELSE IF i < capacity THEN data[i] ELSE Junk]

-----------------------------------------------------------------------------
\* The two copies of writeData: up to the end of the block, and from its
\* beginning.
Copied(block, newCap, s) ==
    LET tmp == IF Len(s) < newCap - writePos THEN Len(s) ELSE newCap - writePos
    IN [i \in 0..newCap - 1 |->
          IF i >= writePos /\ i < writePos + tmp THEN s[i - writePos + 1]
          ELSE IF i < Len(s) - tmp THEN s[tmp + i + 1] ELSE block[i]]

writeData(s) ==
    \E newCap \in capacity..MaxCapacity :
        /\ IF Len(s) > available
           THEN Expanded(newCap, Len(s) - available + capacity)
           ELSE newCap = capacity
        /\ capacity' = newCap
        /\ readPos' = IF readPos > writePos THEN readPos + (newCap - capacity)
                                            ELSE readPos
        /\ data' = Copied(Moved(newCap), newCap, s)
        /\ writePos' = (writePos + Len(s)) % newCap
        /\ last' = Call("write", s)

\* All the bytes when length is 0; also two copies.
readData(length) ==
    LET n   == IF length = 0 \/ length > used THEN used ELSE length
        tmp == IF n < capacity - readPos THEN n ELSE capacity - readPos
        out == [j \in 1..n |-> IF j <= tmp THEN data[readPos + j - 1]
                                           ELSE data[j - tmp - 1]]
    IN /\ last' = Call("read", out)
       /\ readPos' = (readPos + n) % capacity
       /\ UNCHANGED <<data, capacity, writePos>>

\* truncate(resize)
truncate(resize) ==
    /\ IF resize THEN data' = Blank /\ capacity' = InitialCapacity
                 ELSE UNCHANGED <<data, capacity>>
    /\ readPos' = 0 /\ writePos' = 0
    /\ last' = Call("truncate", <<>>)

Next == \/ \E n \in 1..MaxLength : \E s \in [1..n -> Bytes] : writeData(s)
        \/ \E length \in 0..MaxLength : readData(length)
        \/ \E resize \in BOOLEAN : truncate(resize)

Spec == Init /\ [][Next]_vars

-----------------------------------------------------------------------------
\* However writing, reading, growing and wrapping around the end of the block
\* follow each other, bytes come out once and in order: RingBuffer implements
\* ByteQueue.
BQ == INSTANCE ByteQueue WITH content <- Content
ImplementsByteQueue == BQ!Spec
=============================================================================
