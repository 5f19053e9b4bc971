---------------------------- MODULE SequenceLemmas ----------------------------
(***************************************************************************)
(* Facts about sequences and functions that the proofs of several          *)
(* components need: sequences without duplicates, what a queue gains at    *)
(* its end and loses at its head, concatenations, and ByteArrays.          *)
(***************************************************************************)
EXTENDS Integers, Sequences, Functions, ByteArray, SequenceTheorems, TLAPS

-----------------------------------------------------------------------------
(* Sequences without duplicates                                            *)

\* Appending a new element keeps a sequence free of duplicates.
LEMMA AppendFresh ==
    ASSUME NEW S, NEW s \in Seq(S), NEW x \in S
    PROVE  /\ Append(s, x) \in Seq(S)
           /\ Range(Append(s, x)) = Range(s) \cup {x}
           /\ IsInjective(s) /\ x \notin Range(s) => IsInjective(Append(s, x))
  BY AppendProperties DEF Range, IsInjective

\* The tail of a sequence without duplicates loses exactly its head.
LEMMA TailFresh ==
    ASSUME NEW S, NEW s \in Seq(S), s # <<>>, IsInjective(s)
    PROVE  /\ Tail(s) \in Seq(S) /\ Head(s) \in S
           /\ Head(s) \in Range(s)
           /\ Range(Tail(s)) = Range(s) \ {Head(s)}
           /\ IsInjective(Tail(s))
  <1>1. /\ Len(s) \in Nat \ {0} /\ DOMAIN s = 1..Len(s)
        /\ Head(s) = s[1]
        /\ DOMAIN Tail(s) = 1..Len(s) - 1
        /\ \A i \in 1..Len(s) - 1 : Tail(s)[i] = s[i + 1]
    BY EmptySeq, HeadTailProperties, LenProperties
  <1>2. Head(s) \in Range(s)
    BY <1>1 DEF Range
  <1>3. Range(Tail(s)) \subseteq Range(s) \ {Head(s)}
    BY <1>1 DEF Range, IsInjective
  <1>4. Range(s) \ {Head(s)} \subseteq Range(Tail(s))
    <2> SUFFICES ASSUME NEW i \in 1..Len(s), s[i] # Head(s)
                 PROVE  s[i] \in Range(Tail(s))
      BY <1>1 DEF Range
    <2>1. i - 1 \in 1..Len(s) - 1 /\ Tail(s)[i - 1] = s[i]
      BY <1>1
    <2> QED BY <2>1, <1>1 DEF Range
  <1>5. IsInjective(Tail(s))
    BY <1>1 DEF IsInjective
  <1> QED BY <1>2, <1>3, <1>4, <1>5, HeadTailProperties

-----------------------------------------------------------------------------
(* Concatenations                                                          *)

LEMMA ConcatAppend ==
    ASSUME NEW S, NEW s \in Seq(S), NEW t \in Seq(S), NEW x \in S
    PROVE  s \o Append(t, x) = Append(s \o t, x)
  <1>1. <<x>> \in Seq(S)
    OBVIOUS
  <1> QED BY <1>1, AppendIsConcat, ConcatAssociative, ConcatProperties

\* Three sequences can be joined from either end; cited by the name Joins.
Joins(s, t, u) == (s \o t) \o u = s \o (t \o u)

LEMMA Associative ==
    ASSUME NEW S, NEW s \in Seq(S), NEW t \in Seq(S), NEW u \in Seq(S)
    PROVE  Joins(s, t, u)
  BY ConcatAssociative DEF Joins

\* The head and the tail of a concatenation, and its elements.
LEMMA ConcatHeadTail ==
    ASSUME NEW S, NEW s \in Seq(S), s # <<>>, NEW t \in Seq(S)
    PROVE  /\ s \o t # <<>>
           /\ Head(s \o t) = Head(s)
           /\ Tail(s \o t) = Tail(s) \o t
  <1>1. /\ s \o t \in Seq(S) /\ Len(s \o t) = Len(s) + Len(t)
        /\ Len(s) \in Nat \ {0} /\ Len(t) \in Nat
        /\ \A i \in 1..Len(s) + Len(t) :
              (s \o t)[i] = IF i <= Len(s) THEN s[i] ELSE t[i - Len(s)]
    BY ConcatProperties, EmptySeq, LenProperties
  <1>2. s \o t # <<>> /\ Head(s \o t) = Head(s)
    BY <1>1, EmptySeq
  <1>3. /\ Tail(s) \in Seq(S) /\ Len(Tail(s)) = Len(s) - 1
        /\ \A i \in 1..Len(s) - 1 : Tail(s)[i] = s[i + 1]
    BY HeadTailProperties
  <1>4. /\ Tail(s \o t) \in Seq(S) /\ Len(Tail(s \o t)) = Len(s) + Len(t) - 1
        /\ \A i \in 1..Len(s) + Len(t) - 1 : Tail(s \o t)[i] = (s \o t)[i + 1]
    BY <1>1, <1>2, HeadTailProperties
  <1>5. /\ Tail(s) \o t \in Seq(S) /\ Len(Tail(s) \o t) = Len(s) - 1 + Len(t)
        /\ \A i \in 1..Len(s) - 1 + Len(t) :
              (Tail(s) \o t)[i] = IF i <= Len(s) - 1 THEN Tail(s)[i]
                                  ELSE t[i - (Len(s) - 1)]
    BY <1>3, ConcatProperties
  <1>6. ASSUME NEW i \in 1..Len(s) + Len(t) - 1
        PROVE  Tail(s \o t)[i] = (Tail(s) \o t)[i]
    <2>1. CASE i <= Len(s) - 1
      BY <1>1, <1>3, <1>4, <1>5, <2>1
    <2>2. CASE i > Len(s) - 1
      <3>1. (Tail(s) \o t)[i] = t[i - (Len(s) - 1)]
        BY <1>1, <1>5, <2>2
      <3>2. Tail(s \o t)[i] = t[i + 1 - Len(s)]
        BY <1>1, <1>4, <2>2
      <3>3. i + 1 - Len(s) = i - (Len(s) - 1)
        BY <1>1
      <3> QED BY <3>1, <3>2, <3>3
    <2> QED BY <1>1, <2>1, <2>2
  <1>7. Tail(s \o t) = Tail(s) \o t
    BY <1>1, <1>4, <1>5, <1>6, SeqEqual
  <1> QED BY <1>2, <1>7

\* A head that moves from one sequence to the end of the sequence before it.
LEMMA HeadMoves ==
    ASSUME NEW S, NEW p \in Seq(S), NEW s \in Seq(S), s # <<>>
    PROVE  Append(p, Head(s)) \o Tail(s) = p \o s
  <1>1. /\ Head(s) \in S /\ Tail(s) \in Seq(S) /\ <<Head(s)>> \in Seq(S)
        /\ Len(s) \in Nat \ {0}
    BY HeadTailProperties, EmptySeq
  <1>2. s = <<Head(s)>> \o Tail(s)
    BY <1>1, SubSeqRecursiveFirst, SubSeqFull, TailIsSubSeq
  <1>3. Append(p, Head(s)) \o Tail(s) = (p \o <<Head(s)>>) \o Tail(s)
    BY <1>1, AppendIsConcat
  <1>4. @ = p \o (<<Head(s)>> \o Tail(s))
    BY <1>1, ConcatAssociative
  <1> QED BY <1>2, <1>3, <1>4

LEMMA RangeConcat ==
    ASSUME NEW S, NEW s \in Seq(S), NEW t \in Seq(S)
    PROVE  Range(s \o t) = Range(s) \cup Range(t)
  <1>1. /\ Len(s) \in Nat /\ Len(t) \in Nat
        /\ DOMAIN s = 1..Len(s) /\ DOMAIN t = 1..Len(t)
        /\ DOMAIN (s \o t) = 1..Len(s) + Len(t)
        /\ \A i \in 1..Len(s) + Len(t) :
              (s \o t)[i] = IF i <= Len(s) THEN s[i] ELSE t[i - Len(s)]
    BY ConcatProperties, LenProperties
  <1>2. Range(s \o t) \subseteq Range(s) \cup Range(t)
    BY <1>1 DEF Range
  <1>3. Range(s) \subseteq Range(s \o t)
    BY <1>1 DEF Range
  <1>4. ASSUME NEW j \in 1..Len(t) PROVE t[j] \in Range(s \o t)
    <2>1. /\ Len(s) + j \in 1..Len(s) + Len(t)
          /\ (s \o t)[Len(s) + j] = t[j]
      BY <1>1
    <2> QED BY <1>1, <2>1 DEF Range
  <1> QED BY <1>1, <1>2, <1>3, <1>4 DEF Range

\* What is left of a sequence when its first n elements are cut off.
LEMMA CutFirst ==
    ASSUME NEW S, NEW s \in Seq(S), NEW n \in Nat, n <= Len(s)
    PROVE  /\ SubSeq(s, n + 1, Len(s)) \in Seq(S)
           /\ Len(SubSeq(s, n + 1, Len(s))) = Len(s) - n
           /\ \A i \in 1..(Len(s) - n) : SubSeq(s, n + 1, Len(s))[i] = s[n + i]
  <1>1. PICK m \in Int : m = n + 1
    OBVIOUS
  <1>2. PICK l \in Int : l = Len(s)
    BY LenProperties
  <1>3. \A i \in m..l : s[i] \in S
    BY <1>1, <1>2
  <1>4. /\ SubSeq(s, m, l) \in Seq(S)
        /\ Len(SubSeq(s, m, l)) = IF m <= l THEN l - m + 1 ELSE 0
        /\ \A i \in 1..(l - m + 1) : SubSeq(s, m, l)[i] = s[m + i - 1]
    BY <1>3, SubSeqProperties
  <1>5. l - m + 1 = l - n /\ \A i \in 1..(l - n) : m + i - 1 = n + i
    BY <1>1
  <1>6. Len(SubSeq(s, m, l)) = l - n
    BY <1>1, <1>2, <1>4
  <1> QED BY <1>1, <1>2, <1>4, <1>5, <1>6

\* The first n elements of a sequence.
LEMMA TakeFirst ==
    ASSUME NEW S, NEW s \in Seq(S), NEW n \in Nat, n <= Len(s)
    PROVE  /\ SubSeq(s, 1, n) \in Seq(S) /\ Len(SubSeq(s, 1, n)) = n
           /\ \A i \in 1..n : SubSeq(s, 1, n)[i] = s[i]
  <1>1. \A i \in 1..n : s[i] \in S
    OBVIOUS
  <1>2. /\ SubSeq(s, 1, n) \in Seq(S)
        /\ Len(SubSeq(s, 1, n)) = IF 1 <= n THEN n - 1 + 1 ELSE 0
        /\ \A i \in 1..(n - 1 + 1) : SubSeq(s, 1, n)[i] = s[1 + i - 1]
    BY <1>1, SubSeqProperties
  <1> QED BY <1>2

\* Cutting off the first elements of a concatenation, when they all belong to
\* its first part.
LEMMA CutConcat ==
    ASSUME NEW S, NEW s \in Seq(S), NEW t \in Seq(S), NEW n \in Nat, n <= Len(s)
    PROVE  SubSeq(s \o t, n + 1, Len(s \o t)) = SubSeq(s, n + 1, Len(s)) \o t
  <1>1. PICK l \in Nat, k \in Nat : l = Len(s) /\ k = Len(t)
    BY LenProperties
  <1>2. /\ s \o t \in Seq(S) /\ Len(s \o t) = l + k
        /\ \A i \in 1..(l + k) : (s \o t)[i] = IF i <= l THEN s[i] ELSE t[i - l]
    BY <1>1, ConcatProperties
  <1>3. n <= Len(s \o t)
    BY <1>1, <1>2
  <1>4. PICK c \in Seq(S) :
          /\ c = SubSeq(s \o t, n + 1, Len(s \o t))
          /\ Len(c) = l + k - n /\ \A i \in 1..(l + k - n) : c[i] = (s \o t)[n + i]
    <2>1. PICK p \in Seq(S) : p = s \o t
      BY <1>2
    <2>2. n <= Len(p) /\ Len(p) = l + k
      BY <1>2, <1>3, <2>1
    <2>3. /\ SubSeq(p, n + 1, Len(p)) \in Seq(S)
          /\ Len(SubSeq(p, n + 1, Len(p))) = Len(p) - n
          /\ \A i \in 1..(Len(p) - n) : SubSeq(p, n + 1, Len(p))[i] = p[n + i]
      BY <2>2, CutFirst
    <2>4. PICK c : c = SubSeq(p, n + 1, Len(p))
      OBVIOUS
    <2>5. Len(p) - n = l + k - n
      BY <2>2
    <2>6. c \in Seq(S) /\ Len(c) = l + k - n /\ \A i \in 1..(l + k - n) : c[i] = p[n + i]
      BY <2>3, <2>4, <2>5
    <2> QED BY <2>1, <2>4, <2>6
  <1>5. PICK d \in Seq(S) : d = SubSeq(s, n + 1, Len(s))
    BY CutFirst
  <1>6. Len(d) = l - n /\ \A i \in 1..(l - n) : d[i] = s[n + i]
    BY <1>1, <1>5, CutFirst
  <1>7. /\ d \o t \in Seq(S) /\ Len(d \o t) = l - n + k
        /\ \A i \in 1..(l - n + k) :
             (d \o t)[i] = IF i <= l - n THEN d[i] ELSE t[i - (l - n)]
    <2>1. /\ d \o t \in Seq(S) /\ Len(d \o t) = Len(d) + Len(t)
          /\ \A i \in 1..(Len(d) + Len(t)) :
               (d \o t)[i] = IF i <= Len(d) THEN d[i] ELSE t[i - Len(d)]
      BY ConcatProperties
    <2> QED BY <1>1, <1>6, <2>1
  <1>8. l + k - n = l - n + k
    BY <1>1
  <1>9. ASSUME NEW i \in 1..(l + k - n) PROVE c[i] = (d \o t)[i]
    <2>1. PICK j \in 1..(l + k) : j = n + i
      BY <1>1
    <2>2. c[i] = IF j <= l THEN s[j] ELSE t[j - l]
      BY <1>2, <1>4, <2>1
    <2>3. CASE j <= l
      <3>1. i \in 1..(l - n)
        BY <1>1, <2>1, <2>3
      <3> QED BY <1>1, <1>6, <1>7, <1>8, <2>1, <2>2, <2>3, <3>1
    <2>4. CASE ~(j <= l)
      <3>1. ~(i <= l - n) /\ j - l = i - (l - n)
        BY <1>1, <2>1, <2>4
      <3> QED BY <1>7, <1>8, <2>2, <2>4, <3>1
    <2> QED BY <2>3, <2>4
  <1>10. c = d \o t
    BY <1>4, <1>7, <1>8, <1>9, SeqEqual
  <1> QED BY <1>4, <1>5, <1>10

\* Cutting off twice.
LEMMA CutAgain ==
    ASSUME NEW S, NEW s \in Seq(S), NEW m \in Nat, NEW n \in Nat, m + n <= Len(s)
    PROVE  LET c == SubSeq(s, m + 1, Len(s))
           IN  SubSeq(s, m + n + 1, Len(s)) = SubSeq(c, n + 1, Len(c))
  <1>1. PICK l \in Nat, k \in Nat : l = Len(s) /\ k = m + n
    BY LenProperties
  <1>2. m <= Len(s) /\ k <= Len(s)
    BY <1>1
  <1>3. PICK c \in Seq(S) :
          /\ c = SubSeq(s, m + 1, Len(s))
          /\ Len(c) = l - m /\ \A i \in 1..(l - m) : c[i] = s[m + i]
    <2>1. /\ SubSeq(s, m + 1, Len(s)) \in Seq(S)
          /\ Len(SubSeq(s, m + 1, Len(s))) = Len(s) - m
          /\ \A i \in 1..(Len(s) - m) : SubSeq(s, m + 1, Len(s))[i] = s[m + i]
      BY <1>2, CutFirst
    <2> QED BY <1>1, <2>1
  <1>4. PICK d \in Seq(S) : d = SubSeq(s, k + 1, Len(s))
    BY <1>1, CutFirst
  <1>5. Len(d) = l - k /\ \A i \in 1..(l - k) : d[i] = s[k + i]
    BY <1>1, <1>2, <1>4, CutFirst
  <1>6. n <= Len(c)
    BY <1>1, <1>3
  <1>7. PICK e \in Seq(S) :
          /\ e = SubSeq(c, n + 1, Len(c))
          /\ Len(e) = l - m - n /\ \A i \in 1..(l - m - n) : e[i] = c[n + i]
    <2>1. /\ SubSeq(c, n + 1, Len(c)) \in Seq(S)
          /\ Len(SubSeq(c, n + 1, Len(c))) = Len(c) - n
          /\ \A i \in 1..(Len(c) - n) : SubSeq(c, n + 1, Len(c))[i] = c[n + i]
      BY <1>6, CutFirst
    <2> QED BY <1>3, <2>1
  <1>8. l - m - n = l - k
    BY <1>1
  <1>9. ASSUME NEW i \in 1..(l - k) PROVE d[i] = e[i]
    <2>1. PICK j \in 1..(l - m) : j = n + i
      BY <1>1
    <2>2. e[i] = s[m + j]
      BY <1>3, <1>7, <1>8, <2>1
    <2>3. m + j = k + i
      BY <1>1, <2>1
    <2> QED BY <1>5, <2>2, <2>3
  <1>10. d = e
    BY <1>5, <1>7, <1>8, <1>9, SeqEqual
  <1> QED BY <1>1, <1>3, <1>4, <1>7, <1>10

\* The first elements of a sequence of first elements.
LEMMA TakeAgain ==
    ASSUME NEW S, NEW s \in Seq(S), NEW n \in Nat, n <= Len(s), NEW m \in 0..n
    PROVE  SubSeq(SubSeq(s, 1, n), 1, m) = SubSeq(s, 1, m)
  <1>1. PICK c \in Seq(S) : c = SubSeq(s, 1, n)
    BY TakeFirst
  <1>2. Len(c) = n /\ \A i \in 1..n : c[i] = s[i]
    BY <1>1, TakeFirst
  <1>3. m \in Nat /\ m <= n /\ m <= Len(s) /\ m <= Len(c)
    BY <1>2, LenProperties
  <1>4. PICK d \in Seq(S), e \in Seq(S) : d = SubSeq(c, 1, m) /\ e = SubSeq(s, 1, m)
    BY <1>3, TakeFirst
  <1>5. Len(d) = m /\ \A i \in 1..m : d[i] = c[i]
    BY <1>3, <1>4, TakeFirst
  <1>6. Len(e) = m /\ \A i \in 1..m : e[i] = s[i]
    BY <1>3, <1>4, TakeFirst
  <1>7. d = e
    BY <1>2, <1>3, <1>5, <1>6, SeqEqual
  <1> QED BY <1>1, <1>4, <1>7

\* What is taken and what is left make up the sequence.
LEMMA TakeAndCut ==
    ASSUME NEW S, NEW s \in Seq(S), NEW n \in 0..Len(s)
    PROVE  SubSeq(s, 1, n) \o SubSeq(s, n + 1, Len(s)) = s
  <1>1. Len(s) \in Nat
    BY LenProperties
  <1>2. 1 \in 1..Len(s) + 1 /\ n \in 1 - 1..Len(s) /\ Len(s) \in n..Len(s)
    BY <1>1
  <1> QED BY <1>2, ConcatAdjacentSubSeq, SubSeqFull
-----------------------------------------------------------------------------
(* ByteArrays                                                              *)

LEMMA AsRecord ==
    ASSUME NEW S, NEW b \in ByteArrays(S)
    PROVE  b = [data |-> b.data, readPos |-> b.readPos]
  BY DEF ByteArrays

\* What the lemmas below are told of a ByteArray, and what that says of it.
Sound(b, S) == b \in ByteArrays(S) /\ b.readPos <= size(b)

LEMMA UnreadProperties ==
    ASSUME NEW S, NEW b, Sound(b, S)
    PROVE  /\ b.data \in Seq(S) /\ b.readPos \in Nat /\ Len(b.data) \in Nat
           /\ b.readPos <= Len(b.data) /\ b.readPos + readAvailable(b) = Len(b.data)
           /\ Unread(b) = SubSeq(b.data, b.readPos + 1, Len(b.data))
           /\ Unread(b) \in Seq(S) /\ readAvailable(b) \in Nat
           /\ Len(Unread(b)) = readAvailable(b)
  <1>1. b.data \in Seq(S) /\ b.readPos \in Nat /\ b.readPos <= Len(b.data)
    BY DEF Sound, ByteArrays, size
  <1>2. PICK d \in Seq(S), r \in Nat, l \in Nat : d = b.data /\ r = b.readPos /\ l = Len(d)
    BY <1>1, LenProperties
  <1>3. /\ SubSeq(d, r + 1, Len(d)) \in Seq(S)
        /\ Len(SubSeq(d, r + 1, Len(d))) = l - r
    BY <1>1, <1>2, CutFirst
  <1>4. Unread(b) = SubSeq(d, r + 1, Len(d)) /\ readAvailable(b) = l - r
    BY <1>2 DEF Unread, size, readAvailable
  <1>5. r <= l /\ l - r \in Nat /\ r + (l - r) = l
    BY <1>1, <1>2
  <1> QED BY <1>2, <1>3, <1>4, <1>5

LEMMA WriteUnread ==
    ASSUME NEW S, NEW b, Sound(b, S), NEW t \in Seq(S)
    PROVE  /\ Sound(writeData(b, t), S)
           /\ writeData(b, t).readPos = b.readPos
           /\ Unread(writeData(b, t)) = Unread(b) \o t
  <1>1. PICK d \in Seq(S), r \in Nat : d = b.data /\ r = b.readPos /\ r <= Len(d)
    BY UnreadProperties
  <1>2. d \o t \in Seq(S) /\ Len(d \o t) = Len(d) + Len(t)
        /\ Len(d) \in Nat /\ Len(t) \in Nat
    BY ConcatProperties, LenProperties
  <1>3. PICK c : c = writeData(b, t)
    OBVIOUS
  <1>4. c \in ByteArrays(S) /\ c.data = d \o t /\ c.readPos = r
    BY <1>1, <1>2, <1>3 DEF Sound, writeData, ByteArrays
  <1>5. r <= Len(d \o t)
    BY <1>1, <1>2
  <1>6. Unread(c) = SubSeq(d \o t, r + 1, Len(d \o t)) /\ Sound(c, S)
    BY <1>4, <1>5 DEF Unread, size, Sound
  <1>7. SubSeq(d \o t, r + 1, Len(d \o t)) = SubSeq(d, r + 1, Len(d)) \o t
    BY <1>1, CutConcat
  <1> QED BY <1>1, <1>3, <1>4, <1>6, <1>7, UnreadProperties

\* The read position moves n bytes on.
Past(b, n) == [b EXCEPT !.readPos = b.readPos + n]

LEMMA PastUnread ==
    ASSUME NEW S, NEW b, Sound(b, S), NEW n \in 0..readAvailable(b)
    PROVE  /\ Sound(Past(b, n), S)
           /\ Past(b, n).data = b.data /\ Past(b, n).readPos = b.readPos + n
           /\ Unread(Past(b, n)) = SubSeq(Unread(b), n + 1, Len(Unread(b)))
  <1>1. PICK d \in Seq(S), r \in Nat, l \in Nat, a \in Nat :
          /\ d = b.data /\ r = b.readPos /\ l = Len(d) /\ a = readAvailable(b)
          /\ r + a = l /\ Unread(b) = SubSeq(d, r + 1, Len(d))
    BY UnreadProperties
  <1>2. r + n \in Nat /\ r + n <= l /\ n \in Nat
    BY <1>1
  <1>3. PICK c : c = Past(b, n)
    OBVIOUS
  <1>4. c \in ByteArrays(S) /\ c.data = d /\ c.readPos = r + n
    BY <1>1, <1>2, <1>3 DEF Sound, Past, ByteArrays
  <1>5. Sound(c, S) /\ Unread(c) = SubSeq(d, r + n + 1, Len(d))
    BY <1>1, <1>2, <1>4 DEF Unread, size, Sound
  <1>6. SubSeq(d, r + n + 1, Len(d))
          = SubSeq(SubSeq(d, r + 1, Len(d)), n + 1, Len(SubSeq(d, r + 1, Len(d))))
    <2>1. d \in Seq(S) /\ r \in Nat /\ n \in Nat /\ r + n <= Len(d)
      BY <1>1, <1>2
    <2> QED BY ONLY <2>1, CutAgain
  <1> QED BY <1>1, <1>3, <1>4, <1>5, <1>6

LEMMA TruncateUnread ==
    ASSUME NEW S, NEW b \in ByteArrays(S)
    PROVE  /\ Sound(truncate(b), S) /\ truncate(b).readPos = 0
           /\ truncate(b).data = <<>> /\ Unread(truncate(b)) = <<>>
  <1>1. PICK c : c = truncate(b)
    OBVIOUS
  <1>2. <<>> \in Seq(S) /\ Len(<<>>) = 0
    BY EmptySeq
  <1>3. c \in ByteArrays(S) /\ c.data = <<>> /\ c.readPos = 0
    BY <1>1, <1>2 DEF truncate, ByteArrays
  <1> QED BY <1>1, <1>2, <1>3, SubSeqEmpty DEF Sound, size, Unread

LEMMA CutUnread ==
    ASSUME NEW S, NEW b, Sound(b, S)
    PROVE  /\ Sound(cutHead(b, b.readPos), S)
           /\ Unread(cutHead(b, b.readPos)) = Unread(b)
  <1>1. PICK d \in Seq(S), r \in Nat, l \in Nat :
          /\ d = b.data /\ r = b.readPos /\ l = Len(d) /\ size(b) = l
          /\ Unread(b) = SubSeq(d, r + 1, Len(d))
    BY UnreadProperties DEF size
  <1>2. CASE r >= l
    <2>1. cutHead(b, b.readPos) = truncate(b)
      BY <1>1, <1>2 DEF cutHead
    <2>2. Unread(b) = <<>>
      BY <1>1, <1>2, SubSeqEmpty
    <2> QED BY <2>1, <2>2, TruncateUnread DEF Sound
  <1>3. CASE ~(r >= l)
    <2>1. cutHead(b, r) = [data    |-> SubSeq(b.data, r + 1, size(b)),
                           readPos |-> IF b.readPos > r THEN b.readPos - r ELSE 0]
      BY <1>1, <1>3, Zenon DEF cutHead
    <2>2. ~(b.readPos > r) /\ SubSeq(b.data, r + 1, size(b)) = Unread(b)
      BY <1>1
    <2>3. PICK c : c = cutHead(b, b.readPos)
      OBVIOUS
    <2>4. PICK u \in Seq(S) : u = Unread(b) /\ Len(u) \in Nat
      BY UnreadProperties
    <2>5. c = [data |-> u, readPos |-> 0]
      BY <1>1, <2>1, <2>2, <2>3, <2>4
    <2>6. c \in ByteArrays(S) /\ c.data = u /\ c.readPos = 0
      BY <2>5 DEF ByteArrays
    <2>7. Sound(c, S) /\ Unread(c) = SubSeq(u, 0 + 1, Len(u))
      BY <2>4, <2>6 DEF Sound, size, Unread
    <2>8. SubSeq(u, 0 + 1, Len(u)) = u
      BY SubSeqFull
    <2> QED BY <2>3, <2>4, <2>7, <2>8
  <1> QED BY <1>2, <1>3

\* readData delivers what is next and moves past it; seek goes back.
LEMMA ReadUnread ==
    ASSUME NEW S, NEW b, Sound(b, S), NEW k \in Nat
    PROVE  \E n \in 0..readAvailable(b) :
             /\ Len(ReadBytes(b, k)) = n /\ ReadBytes(b, k) = SubSeq(Unread(b), 1, n)
             /\ n = 0 => readAvailable(b) = 0
             /\ readData(b, k) = Past(b, n)
             /\ \A m \in 0..n :
                  /\ SubSeq(ReadBytes(b, k), 1, m) = SubSeq(Unread(b), 1, m)
                  /\ m < n => seek(readData(b, k), m - n) = Past(b, m)
  <1>1. PICK r \in Nat, l \in Nat, a \in Nat, u \in Seq(S) :
          /\ r = b.readPos /\ l = size(b) /\ a = readAvailable(b) /\ r + a = l
          /\ u = Unread(b) /\ Len(u) = a
    BY UnreadProperties DEF size
  <1>2. PICK n \in 0..a : n = ReadLength(b, k)
    BY <1>1 DEF ReadLength
  <1>3. n = 0 => a = 0
    BY <1>1, <1>2 DEF ReadLength
  <1>4. ReadBytes(b, k) = SubSeq(u, 1, n)
    BY <1>1, <1>2 DEF ReadBytes
  <1>5. n \in Nat /\ n <= Len(u)
    BY <1>1, <1>2
  <1>6. Len(ReadBytes(b, k)) = n
    BY <1>4, <1>5, TakeFirst
  <1>7. readData(b, k) = Past(b, n)
    BY <1>2 DEF readData, Past
  <1>8. ASSUME NEW m \in 0..n
        PROVE  SubSeq(ReadBytes(b, k), 1, m) = SubSeq(u, 1, m)
    BY <1>4, <1>5, TakeAgain
  <1>9. ASSUME NEW m \in 0..n, m < n
        PROVE  seek(readData(b, k), m - n) = Past(b, m)
    <2>1. PICK c : c = Past(b, n)
      OBVIOUS
    <2>2. c.readPos = r + n /\ size(c) = l
      BY <1>1, <1>2, <2>1, PastUnread DEF size
    <2>3. /\ r + n + (m - n) = r + m /\ ~(r + m < 0) /\ ~(r + m > l)
      BY <1>1, <1>2
    <2>4. seek(c, m - n) = [c EXCEPT !.readPos = r + m]
      BY <2>2, <2>3 DEF seek, readPosition
    <2>5. c = [b EXCEPT !.readPos = r + n] /\ Past(b, m) = [b EXCEPT !.readPos = r + m]
      BY <1>1, <2>1 DEF Past
    <2>6. b = [data |-> b.data, readPos |-> b.readPos]
      BY AsRecord DEF Sound
    <2>7. [c EXCEPT !.readPos = r + m] = [b EXCEPT !.readPos = r + m]
      BY <2>5, <2>6
    <2> QED BY <1>7, <2>1, <2>4, <2>5, <2>7
  <1> QED BY <1>1, <1>2, <1>3, <1>4, <1>6, <1>7, <1>8, <1>9
===============================================================================
