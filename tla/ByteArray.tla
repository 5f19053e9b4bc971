------------------------------ MODULE ByteArray ------------------------------
(***************************************************************************)
(* ByteArray (wsCore) as the sockets use it: bytes are appended, read from *)
(* a position that may be moved back, and cut off at the head.  A          *)
(* ByteArray is a record of its bytes and of the read position; the write  *)
(* position is the length of data.  The memory is not modelled: expand()   *)
(* doubles the capacity until the bytes fit or throws.                     *)
(***************************************************************************)
EXTENDS Sequences, Integers

ByteArrays(Bytes) == [data : Seq(Bytes), readPos : Nat]

NewByteArray == [data |-> <<>>, readPos |-> 0]

size(b)          == Len(b.data)
readAvailable(b) == size(b) - b.readPos

\* What a reader has not come to yet.
Unread(b) == SubSeq(b.data, b.readPos + 1, size(b))

writeData(b, bytes) == [b EXCEPT !.data = @ \o bytes]

\* readPosition(value) does not go beyond the write position.
readPosition(b, value) ==
    [b EXCEPT !.readPos = IF value > size(b) THEN size(b) ELSE value]

\* Positions are unsigned: going back beyond 0 gives a huge one.
seek(b, pos) ==
    readPosition(b, IF b.readPos + pos < 0 THEN size(b) ELSE b.readPos + pos)

\* How many bytes readData delivers, all of them when length is 0.
ReadLength(b, length) ==
    IF length = 0 \/ length > readAvailable(b) THEN readAvailable(b) ELSE length
ReadBytes(b, length) == SubSeq(Unread(b), 1, ReadLength(b, length))
readData(b, length)  == [b EXCEPT !.readPos = @ + ReadLength(b, length)]

truncate(b) == [b EXCEPT !.data = <<>>, !.readPos = 0]

\* Mutated form: the read position stays behind the bytes that are cut.
cutHeadKeepsPos(b, length) ==
    IF length >= size(b) THEN truncate(b)
    ELSE [b EXCEPT !.data = SubSeq(@, length + 1, Len(@))]

cutHead(b, length) ==
    IF length >= size(b) THEN truncate(b)
    ELSE [data    |-> SubSeq(b.data, length + 1, size(b)),
          readPos |-> IF b.readPos > length THEN b.readPos - length ELSE 0]
=============================================================================
