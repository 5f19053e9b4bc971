------------------------------ MODULE ByteQueue ------------------------------
(***************************************************************************)
(* What a buffer promises to those who write to it and read from it: bytes *)
(* come out once, in the order in which they went in.  RingBuffer          *)
(* implements this specification.                                          *)
(***************************************************************************)
EXTENDS Sequences, Integers

CONSTANTS Bytes, MaxLength

VARIABLES content,  \* the bytes that were written and not read
          last      \* the last call and the bytes it wrote or delivered

Call(op, bytes) == [op |-> op, bytes |-> bytes]

Init == content = <<>> /\ last = Call("none", <<>>)

Write(s) == /\ content' = content \o s
            /\ last' = Call("write", s)

Read(n) == /\ content' = SubSeq(content, n + 1, Len(content))
           /\ last' = Call("read", SubSeq(content, 1, n))

Clear == /\ content' = <<>>
         /\ last' = Call("truncate", <<>>)

Next == \/ \E n \in 1..MaxLength : \E s \in [1..n -> Bytes] : Write(s)
        \/ \E n \in 0..Len(content) : Read(n)
        \/ Clear

Spec == Init /\ [][Next]_<<content, last>>
=============================================================================
