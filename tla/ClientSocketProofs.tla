-------------------------- MODULE ClientSocketProofs --------------------------
(***************************************************************************)
(* Proofs about ClientSocket, for any numbers of connections and of bytes  *)
(* in each direction, and any size of the chunks.                          *)
(***************************************************************************)
EXTENDS ClientSocket, SequenceLemmas

-----------------------------------------------------------------------------
(* The two threads                                                         *)

Resetting == mainPc \in {"reset", "resetReader", "resetWriter"}

\* A status of CONNECTING is known to update(), which therefore does not reset;
\* during a reset the status is DISCONNECTED throughout.
Asking ==
    /\ workerPc = "connect" => status = "CONNECTING"
    /\ status = "CONNECTING" => lastStatus = "CONNECTING"
    /\ Resetting => status = "DISCONNECTED"
    /\ workerPc = "none" => /\ status = "DISCONNECTED" /\ lastStatus = "DISCONNECTED"
                            /\ mainPc \in {"idle", "deliver", "join", "destroyed"}
    /\ workerPc = "exited" => mainPc \in {"join", "destroyed"}

\* What the local variables of tryToRecv and tryToSend hold outside of them,
\* and that tryToSend never counts less than there is to send.
Taking  == taken # <<>> => workerPc = "store"
Sending == /\ workerPc # "send" => remain = 0
           /\ workerPc = "send" => readAvailable(writerBuffer) <= remain

\* A session that failed half-way leaves the read position moved only until
\* reset() has come to writerBuffer, on a socket that will not connect before,
\* unless a tryToSend of the last session fails after reset().  It does not when
\* the application sends while it is connected only: then a socket that was
\* never connected has nothing to send.
SendsConnected == SendsWhen \subseteq {"CONNECTED"}

HalfSent ==
    /\ socket \in {"none", "new"} => status # "CONNECTED"
    /\ SendsConnected /\ socket \in {"none", "new"}
         /\ mainPc \notin {"resetReader", "resetWriter"} => writerBuffer.data = <<>>
    /\ crossed => ~SendsConnected
    /\ writerBuffer.readPos # 0 =>
          \/ crossed
          \/ workerPc = "send"
          \/ /\ mainPc \in {"resetReader", "resetWriter"}
             /\ workerPc \in {"failed", "loop"}
          \/ /\ socket = "dead"
             /\ \/ workerPc = "failed"
                \/ workerPc \in {"loop", "connect"} /\ status # "CONNECTED"
                \/ workerPc = "exited"

-----------------------------------------------------------------------------
(* Increasing sequences                                                    *)

LEMMA ConcatIncreasing ==
    ASSUME NEW S \in SUBSET Nat, NEW s \in Seq(S), NEW t \in Seq(S)
    PROVE  Increasing(s \o t) <=> /\ Increasing(s) /\ Increasing(t)
                                  /\ \A x \in Range(s), y \in Range(t) : x < y
  <1>1. PICK l \in Nat, k \in Nat : l = Len(s) /\ k = Len(t)
    BY LenProperties
  <1>2. PICK p \in Seq(S) : p = s \o t
    BY ConcatProperties
  <1>3. /\ Len(p) = l + k
        /\ \A i \in 1..(l + k) : p[i] = IF i <= l THEN s[i] ELSE t[i - l]
    BY <1>1, <1>2, ConcatProperties
  <1>4. DOMAIN s = 1..l /\ DOMAIN t = 1..k
    BY <1>1, LenProperties
  <1>5. ASSUME NEW i \in 1..l PROVE i \in 1..(l + k) /\ p[i] = s[i]
    BY <1>1, <1>3
  <1>6. ASSUME NEW j \in 1..k PROVE l + j \in 1..(l + k) /\ p[l + j] = t[j]
    <2>1. PICK m \in 1..(l + k) : m = l + j
      BY <1>1
    <2>2. ~(m <= l) /\ m - l = j
      BY <1>1, <2>1
    <2> QED BY <1>3, <2>1, <2>2
  <1>7. ASSUME Increasing(p)
        PROVE  /\ Increasing(s) /\ Increasing(t)
               /\ \A x \in Range(s), y \in Range(t) : x < y
    <2>1. \A i, j \in 1..(l + k) : i < j => p[i] < p[j]
      BY <1>3, <1>7 DEF Increasing
    <2>2. Increasing(s)
      BY <1>1, <1>5, <2>1 DEF Increasing
    <2>3. ASSUME NEW i \in 1..k, NEW j \in 1..k, i < j PROVE t[i] < t[j]
      <3>1. l + i < l + j
        BY <1>1, <2>3
      <3> QED BY <1>6, <2>1, <3>1
    <2>4. ASSUME NEW i \in 1..l, NEW j \in 1..k PROVE s[i] < t[j]
      <3>1. i < l + j
        BY <1>1
      <3> QED BY <1>5, <1>6, <2>1, <3>1
    <2> QED BY <1>1, <1>4, <2>2, <2>3, <2>4 DEF Increasing, Range
  <1>8. ASSUME Increasing(s), Increasing(t), \A x \in Range(s), y \in Range(t) : x < y
        PROVE  Increasing(p)
    <2> SUFFICES ASSUME NEW i \in 1..(l + k), NEW j \in 1..(l + k), i < j
                 PROVE  p[i] < p[j]
      BY <1>3 DEF Increasing
    <2>1. CASE j <= l
      <3>1. i \in 1..l /\ j \in 1..l
        BY <1>1, <2>1
      <3> QED BY <1>1, <1>5, <1>8, <3>1 DEF Increasing
    <2>2. CASE i <= l /\ ~(j <= l)
      <3>1. i \in 1..l /\ j - l \in 1..k
        BY <1>1, <2>2
      <3>2. p[i] = s[i] /\ p[j] = t[j - l]
        BY <1>3, <2>2
      <3> QED BY <1>4, <1>8, <3>1, <3>2 DEF Range
    <2>3. CASE ~(i <= l)
      <3>1. i - l \in 1..k /\ j - l \in 1..k
        BY <1>1, <2>3
      <3>3. PICK m \in 1..k, n \in 1..k : m = i - l /\ n = j - l
        BY <3>1
      <3>2. m < n /\ p[i] = t[m] /\ p[j] = t[n]
        BY <1>1, <1>3, <2>3, <3>3
      <3> QED BY <1>1, <1>8, <3>2 DEF Increasing
    <2> QED BY <2>1, <2>2, <2>3
  <1> QED BY <1>2, <1>7, <1>8

\* A piece that is taken out of an increasing sequence.
LEMMA DropMiddle ==
    ASSUME NEW S \in SUBSET Nat, NEW s \in Seq(S), NEW t \in Seq(S), NEW u \in Seq(S),
           Increasing((s \o t) \o u)
    PROVE  /\ Increasing(s \o u)
           /\ Range(s \o u) = Range((s \o t) \o u) \ Range(t)
           /\ Range(t) \subseteq Range((s \o t) \o u)
  <1>1. PICK st \in Seq(S) : st = s \o t
    BY ConcatProperties
  <1>2. /\ Increasing(st) /\ Increasing(u)
        /\ \A x \in Range(st), y \in Range(u) : x < y
    BY <1>1, ConcatIncreasing
  <1>3. /\ Increasing(s) /\ Increasing(t)
        /\ \A x \in Range(s), y \in Range(t) : x < y
    BY <1>1, <1>2, ConcatIncreasing
  <1>4. /\ Range(st) = Range(s) \cup Range(t) /\ Range(st \o u) = Range(st) \cup Range(u)
        /\ Range(s \o u) = Range(s) \cup Range(u)
    <2>1. s \in Seq(S) /\ t \in Seq(S) /\ u \in Seq(S) /\ st \in Seq(S)
      OBVIOUS
    <2>2. /\ Range(s \o t) = Range(s) \cup Range(t) /\ Range(s \o u) = Range(s) \cup Range(u)
          /\ Range(st \o u) = Range(st) \cup Range(u)
      BY ONLY <2>1, RangeConcat
    <2> QED BY <1>1, <2>2
  <1>5. Increasing(s \o u)
    BY <1>2, <1>3, <1>4, ConcatIncreasing
  <1>6. /\ Range(s) \subseteq Nat /\ Range(t) \subseteq Nat /\ Range(u) \subseteq Nat
    BY LenProperties DEF Range
  <1>7. /\ \A x \in Range(s) : x \notin Range(t)
        /\ \A x \in Range(u) : x \notin Range(t)
    <2>1. \A x \in Nat : ~(x < x)
      OBVIOUS
    <2> QED BY <1>2, <1>3, <1>4, <1>6, <2>1
  <1> QED BY <1>1, <1>4, <1>5, <1>7

LEMMA DropLast ==
    ASSUME NEW S \in SUBSET Nat, NEW s \in Seq(S), NEW t \in Seq(S), Increasing(s \o t)
    PROVE  /\ Increasing(s) /\ Range(s) = Range(s \o t) \ Range(t)
           /\ Range(t) \subseteq Range(s \o t)
  <1>1. PICK u \in Seq(S) : u = <<>>
    BY EmptySeq
  <1>2. (s \o t) \o u = s \o t /\ s \o u = s
    BY <1>1, ConcatEmptySeq, ConcatProperties
  <1>3. Increasing((s \o t) \o u)
    BY <1>2
  <1>4. /\ Increasing(s \o u)
        /\ Range(s \o u) = Range((s \o t) \o u) \ Range(t)
        /\ Range(t) \subseteq Range((s \o t) \o u)
    BY <1>3, DropMiddle
  <1> QED BY <1>2, <1>4

\* A number that is greater than all of a sequence, at its end.
LEMMA AddLast ==
    ASSUME NEW S \in SUBSET Nat, NEW s \in Seq(S), NEW x \in S, Increasing(s),
           \A y \in Range(s) : y < x
    PROVE  Increasing(Append(s, x)) /\ Range(Append(s, x)) = Range(s) \cup {x}
  <1>1. Append(s, x) = s \o <<x>> /\ <<x>> \in Seq(S) /\ Len(<<x>>) = 1 /\ <<x>>[1] = x
    BY AppendIsConcat
  <1>2. Increasing(<<x>>)
    BY <1>1 DEF Increasing
  <1>3. Range(<<x>>) = {x}
    BY DEF Range
  <1>4. PICK t \in Seq(S) : t = <<x>>
    BY <1>1
  <1>5. Increasing(s \o t) /\ Range(s \o t) = Range(s) \cup Range(t)
    <2>1. Range(s \o t) = Range(s) \cup Range(t)
      <3>1. s \in Seq(S) /\ t \in Seq(S)
        OBVIOUS
      <3> QED BY ONLY <3>1, RangeConcat
    <2> QED BY <1>2, <1>3, <1>4, <2>1, ConcatIncreasing
  <1> QED BY <1>1, <1>3, <1>4, <1>5

-----------------------------------------------------------------------------
(* Connections                                                             *)

LEMMA InitStatus == Init => StatusOK /\ Asking
  <1> SUFFICES ASSUME Init PROVE StatusOK /\ Asking
    OBVIOUS
  <1>1. connects \in 0..MaxConnects
    BY ClientSocketAssumption DEF Init
  <1> QED BY <1>1 DEF Init, StatusOK, Asking, Resetting, SocketStatus

LEMMA NextStatus == StatusOK /\ Asking /\ [Next]_vars => StatusOK' /\ Asking'
  <1> SUFFICES ASSUME StatusOK, Asking, [Next]_vars PROVE StatusOK' /\ Asking'
    OBVIOUS
  <1> USE DEF StatusOK, Asking, Resetting, SocketStatus
  <1>1. CASE Loop
    BY <1>1 DEF Loop, sockVars, boundVars
  <1>2. CASE WorkerConnect
    BY <1>2 DEF WorkerConnect, boundVars
  <1>3. CASE Recv \/ Store \/ RecvNothing \/ RecvClosed
    BY <1>3 DEF Recv, Store, RecvNothing, RecvClosed, sockVars, boundVars
  <1>4. CASE SendBegin \/ SendChunk \/ SendFails \/ SendDone
    BY <1>4 DEF SendBegin, SendChunk, SendFails, SendDone, sockVars, boundVars
  <1>5. CASE Failed
    BY <1>5 DEF Failed, sockVars, boundVars
  <1>6. CASE Connect
    <2>1. connects' \in 0..MaxConnects
      BY <1>6, ClientSocketAssumption DEF Connect
    <2> QED BY <1>6, <2>1 DEF Connect, InApplication
  <1>7. CASE Close \/ Send \/ Destroy \/ Joined
    BY <1>7 DEF Close, Send, Destroy, Joined, InApplication, sockVars, boundVars
  <1>8. CASE Arrive \/ PeerCloses
    BY <1>8 DEF Arrive, PeerCloses, boundVars
  <1>9. CASE Update \/ Remember \/ Switch
    BY <1>9 DEF Update, Remember, Switch, Goto, sockVars, boundVars
  <1>10. CASE Reset
    BY <1>10 DEF Reset, boundVars
  <1>11. CASE ResetReader \/ ResetWriter \/ CallbackReturns
    BY <1>11 DEF ResetReader, ResetWriter, CallbackReturns, Goto, sockVars, boundVars
  <1>12. CASE Deliver \/ NothingToDeliver
    BY <1>12 DEF Deliver, NothingToDeliver, Goto, sockVars, boundVars
  <1>13. CASE UNCHANGED vars
    BY <1>13 DEF vars, sockVars, boundVars
  <1> QED BY <1>1, <1>2, <1>3, <1>4, <1>5, <1>6, <1>7, <1>8, <1>9, <1>10, <1>11, <1>12,
             <1>13 DEF Next, Worker, UpdateStep, Terminated

\* The worker's ::connect, which holds no lock, keeps its status and its
\* socket, whatever the application calls meanwhile.
THEOREM ConnectAlone == Spec => []ConnectUndisturbed
  <1>1. StatusOK /\ Asking => ConnectUndisturbed
    BY DEF StatusOK, Asking, Resetting, ConnectUndisturbed
  <1> QED BY <1>1, InitStatus, NextStatus, PTL DEF Spec

-----------------------------------------------------------------------------
(* What comes in                                                           *)

InPath  == ((received \o Unread(readerBuffer)) \o taken) \o kin
InputOf(path) == Increasing(path) /\ Range(path) = 1..arrived \ dropped

LEMMA SeqOfNat == 1..MaxIn \in SUBSET Nat /\ 1..MaxOut \in SUBSET Nat
  OBVIOUS

LEMMA InitInput == Init => InputOK /\ Taking /\ InputOf(InPath)
  <1> SUFFICES ASSUME Init PROVE InputOK /\ Taking /\ InputOf(InPath)
    OBVIOUS
  <1>1. <<>> \in Seq(1..MaxIn) /\ Len(<<>>) = 0
    BY EmptySeq
  <1>2. InputOK
    BY <1>1, ClientSocketAssumption DEF Init, InputOK, NewByteArray, ByteArrays, size
  <1>3. Unread(readerBuffer) = <<>>
    BY DEF Init, NewByteArray, Unread, size
  <1>4. <<>> \o <<>> = <<>>
    BY <1>1, ConcatEmptySeq
  <1>5. InPath = <<>>
    BY <1>3, <1>4 DEF Init, InPath
  <1>6. Increasing(<<>>) /\ Range(<<>>) = {}
    BY DEF Increasing, Range
  <1> QED BY <1>2, <1>5, <1>6 DEF Init, InputOf, Taking

LEMMA InputTypes ==
    ASSUME InputOK
    PROVE  /\ Sound(readerBuffer, 1..MaxIn) /\ Unread(readerBuffer) \in Seq(1..MaxIn)
           /\ received \in Seq(1..MaxIn) /\ taken \in Seq(1..MaxIn) /\ kin \in Seq(1..MaxIn)
           /\ received \o Unread(readerBuffer) \in Seq(1..MaxIn)
           /\ (received \o Unread(readerBuffer)) \o taken \in Seq(1..MaxIn)
           /\ InPath \in Seq(1..MaxIn)
  <1>1. Sound(readerBuffer, 1..MaxIn)
    BY DEF InputOK, Sound
  <1>2. PICK u \in Seq(1..MaxIn) : u = Unread(readerBuffer)
    BY <1>1, UnreadProperties
  <1>3. received \in Seq(1..MaxIn) /\ taken \in Seq(1..MaxIn) /\ kin \in Seq(1..MaxIn)
    BY DEF InputOK
  <1>4. PICK v \in Seq(1..MaxIn) : v = received \o u
    BY <1>3, ConcatProperties
  <1>5. PICK w \in Seq(1..MaxIn) : w = v \o taken
    BY <1>3, ConcatProperties
  <1>6. w \o kin \in Seq(1..MaxIn)
    BY <1>3, ConcatProperties
  <1> QED BY <1>1, <1>2, <1>3, <1>4, <1>5, <1>6 DEF InPath

LEMMA ArriveInput ==
    ASSUME InputOK, Taking, InputOf(InPath), Arrive
    PROVE  InputOK' /\ Taking' /\ InputOf(InPath)'
  <1> DEFINE S == 1..MaxIn
  <1>1. PICK x \in S : x = arrived + 1 /\ x = arrived'
    BY ClientSocketAssumption DEF Arrive, InputOK
  <1>2. kin' = Append(kin, x) /\ kin \in Seq(S) /\ kin' \in Seq(S)
    BY <1>1, AppendProperties DEF Arrive, InputOK
  <1>3. UNCHANGED inVars /\ workerPc' = workerPc
    BY DEF Arrive
  <1>4. InputOK'
    <2>1. arrived' \in 0..MaxIn /\ 1..arrived \subseteq 1..arrived'
      BY <1>1 DEF InputOK
    <2> QED BY <1>2, <1>3, <2>1 DEF InputOK, inVars
  <1>5. PICK w \in Seq(S) : w = (received \o Unread(readerBuffer)) \o taken
    BY InputTypes
  <1>6. InPath' = Append(InPath, x)
    <2>1. InPath = w \o kin /\ InPath' = w \o Append(kin, x)
      BY <1>2, <1>3, <1>5 DEF InPath, inVars
    <2> QED BY <1>2, <2>1, ConcatAppend
  <1>7. \A y \in Range(InPath) : y < x
    BY <1>1 DEF InputOf, InputOK
  <1>8. Increasing(Append(InPath, x)) /\ Range(Append(InPath, x)) = Range(InPath) \cup {x}
    <2>1. PICK p \in Seq(S) : p = InPath
      BY InputTypes
    <2>2. Increasing(p) /\ \A y \in Range(p) : y < x
      BY <1>7, <2>1 DEF InputOf
    <2>3. Increasing(Append(p, x)) /\ Range(Append(p, x)) = Range(p) \cup {x}
      <3>1. PICK T \in SUBSET Nat : T = S
        BY SeqOfNat
      <3>2. p \in Seq(T) /\ x \in T
        BY <3>1
      <3> HIDE DEF S
      <3> QED BY <2>2, <3>2, AddLast
    <2> QED BY <2>1, <2>3
  <1>9. (1..arrived \ dropped) \cup {x} = 1..arrived' \ dropped
    BY <1>1 DEF InputOK
  <1> QED BY <1>3, <1>4, <1>6, <1>8, <1>9 DEF InputOf, Taking, inVars

LEMMA RecvInput ==
    ASSUME InputOK, Taking, InputOf(InPath), Recv
    PROVE  InputOK' /\ Taking' /\ InputOf(InPath)'
  <1> DEFINE S == 1..MaxIn
  <1>1. kin \in Seq(S) /\ Len(kin) \in Nat /\ Chunk \in Nat
    BY LenProperties, ClientSocketAssumption DEF InputOK
  <1>2. PICK n \in 0..Len(kin) :
          /\ n <= Chunk
          /\ taken' = SubSeq(kin, 1, n) /\ kin' = SubSeq(kin, n + 1, Len(kin))
    <2>1. (IF Len(kin) < Chunk THEN Len(kin) ELSE Chunk) \in 0..Len(kin)
          /\ (IF Len(kin) < Chunk THEN Len(kin) ELSE Chunk) <= Chunk
      BY <1>1
    <2> QED BY <2>1 DEF Recv
  <1>3. taken = <<>> /\ workerPc' = "store"
    BY DEF Recv, Taking
  <1>4. n \in Nat /\ n <= Len(kin)
    BY <1>1
  <1>5. taken' \in Seq(S) /\ Len(taken') = n
    BY <1>1, <1>2, <1>4, TakeFirst
  <1>6. kin' \in Seq(S)
    BY <1>1, <1>2, <1>4, CutFirst
  <1>7. UNCHANGED <<readerBuffer, received, dropped, arrived>>
    BY DEF Recv, boundVars
  <1>8. InputOK'
    BY <1>2, <1>5, <1>6, <1>7 DEF InputOK
  <1>9. InPath' = InPath
    <2>1. PICK v \in Seq(S) : v = received \o Unread(readerBuffer)
      BY InputTypes
    <2>2. v \o <<>> = v
      BY ConcatEmptySeq
    <2>3. InPath = v \o kin /\ InPath' = (v \o taken') \o kin'
      BY <1>3, <1>7, <2>1, <2>2 DEF InPath
    <2>4. (v \o taken') \o kin' = v \o (taken' \o kin')
      <3>1. Joins(v, taken', kin')
        BY <1>5, <1>6, Associative
      <3> QED BY <3>1 DEF Joins
    <2>5. taken' \o kin' = kin
      BY <1>1, <1>2, TakeAndCut
    <2> QED BY <2>3, <2>4, <2>5
  <1> QED BY <1>3, <1>7, <1>8, <1>9 DEF InputOf, Taking

LEMMA StoreInput ==
    ASSUME InputOK, Taking, InputOf(InPath), Store
    PROVE  InputOK' /\ Taking' /\ InputOf(InPath)'
  <1> DEFINE S == 1..MaxIn
  <1>1. /\ readerBuffer' = writeData(readerBuffer, taken) /\ taken' = <<>>
        /\ UNCHANGED <<kin, received, dropped, arrived>>
    BY DEF Store, sockVars, boundVars
  <1>2. /\ Sound(readerBuffer', S)
        /\ Unread(readerBuffer') = Unread(readerBuffer) \o taken
    BY <1>1, InputTypes, WriteUnread
  <1>3. <<>> \in Seq(S) /\ Len(<<>>) = 0
    BY EmptySeq
  <1>4. InputOK'
    BY <1>1, <1>2, <1>3, ClientSocketAssumption DEF InputOK, Sound
  <1>5. PICK u \in Seq(S) : u = Unread(readerBuffer)
    BY InputTypes
  <1>6. received \o (u \o taken) = (received \o u) \o taken
    <2>1. Joins(received, u, taken)
      BY InputTypes, Associative
    <2> QED BY <2>1 DEF Joins
  <1>7. PICK w \in Seq(S) : w = (received \o u) \o taken
    BY <1>5, InputTypes
  <1>8. w \o <<>> = w
    BY ConcatEmptySeq
  <1>9. InPath' = InPath
    BY <1>1, <1>2, <1>5, <1>6, <1>7, <1>8 DEF InPath
  <1> QED BY <1>1, <1>4, <1>9 DEF InputOf, Taking

LEMMA ResetInput ==
    ASSUME InputOK, Taking, InputOf(InPath), Reset
    PROVE  InputOK' /\ Taking' /\ InputOf(InPath)'
  <1> DEFINE S == 1..MaxIn
  <1>1. /\ kin' = <<>> /\ dropped' = dropped \cup Range(kin)
        /\ UNCHANGED <<readerBuffer, taken, received, arrived, workerPc>>
    BY DEF Reset, boundVars
  <1>2. PICK w \in Seq(S) : w = (received \o Unread(readerBuffer)) \o taken
    BY InputTypes
  <1>3. kin \in Seq(S) /\ InPath = w \o kin
    BY <1>2 DEF InputOK, InPath
  <1>4. /\ Increasing(w) /\ Range(w) = Range(InPath) \ Range(kin)
        /\ Range(kin) \subseteq Range(InPath)
    BY <1>3, SeqOfNat, DropLast DEF InputOf
  <1>5. <<>> \in Seq(S) /\ w \o <<>> = w
    BY EmptySeq, ConcatEmptySeq
  <1>6. InPath' = w
    BY <1>1, <1>2, <1>5 DEF InPath
  <1>7. InputOf(InPath)'
    BY <1>1, <1>4, <1>6 DEF InputOf
  <1>8. InputOK'
    BY <1>1, <1>4, <1>5 DEF InputOK, InputOf
  <1> QED BY <1>1, <1>7, <1>8 DEF Taking

LEMMA ResetReaderInput ==
    ASSUME InputOK, Taking, InputOf(InPath), ResetReader
    PROVE  InputOK' /\ Taking' /\ InputOf(InPath)'
  <1> DEFINE S == 1..MaxIn
  <1>1. /\ readerBuffer' = truncate(readerBuffer)
        /\ dropped' = dropped \cup Range(Unread(readerBuffer))
        /\ UNCHANGED <<kin, taken, received, arrived, workerPc>>
    BY DEF ResetReader, Goto, sockVars, boundVars
  <1>2. Sound(readerBuffer', S) /\ Unread(readerBuffer') = <<>>
    BY <1>1, InputTypes, TruncateUnread DEF Sound
  <1>3. PICK u \in Seq(S), r \in Seq(S), t \in Seq(S), k \in Seq(S) :
          u = Unread(readerBuffer) /\ r = received /\ t = taken /\ k = kin
    BY InputTypes
  <1>4. PICK tk \in Seq(S) : tk = t \o k
    BY ConcatProperties
  <1>5. InPath = (r \o u) \o tk
    <2>1. PICK ru \in Seq(S) : ru = r \o u
      BY ConcatProperties
    <2>2. (ru \o t) \o k = ru \o tk
      <3>1. Joins(ru, t, k)
        BY Associative
      <3> QED BY <1>4, <3>1 DEF Joins
    <2> QED BY <1>3, <2>1, <2>2 DEF InPath
  <1>6. InPath' = r \o tk
    <2>1. r \o <<>> = r
      BY ConcatEmptySeq
    <2>2. (r \o t) \o k = r \o tk
      <3>1. Joins(r, t, k)
        BY Associative
      <3> QED BY <1>4, <3>1 DEF Joins
    <2> QED BY <1>1, <1>2, <1>3, <2>1, <2>2 DEF InPath
  <1>7. /\ Increasing(r \o tk) /\ Range(r \o tk) = Range(InPath) \ Range(u)
        /\ Range(u) \subseteq Range(InPath)
    BY <1>5, SeqOfNat, DropMiddle DEF InputOf
  <1>8. InputOf(InPath)'
    BY <1>1, <1>3, <1>6, <1>7 DEF InputOf
  <1>9. InputOK'
    BY <1>1, <1>2, <1>3, <1>7 DEF InputOK, InputOf, Sound
  <1> QED BY <1>1, <1>8, <1>9 DEF Taking

\* onReceived takes some of the bytes, or there are none; the rest stays in
\* front of what will come.
LEMMA DeliverInput ==
    ASSUME InputOK, Taking, InputOf(InPath), Deliver \/ NothingToDeliver
    PROVE  InputOK' /\ Taking' /\ InputOf(InPath)'
  <1> DEFINE S == 1..MaxIn
  <1>1. UNCHANGED <<kin, taken, dropped, arrived, workerPc>>
    BY DEF Deliver, NothingToDeliver, Goto, sockVars, boundVars
  <1>2. PICK u \in Seq(S), r \in Seq(S), t \in Seq(S), k \in Seq(S) :
          u = Unread(readerBuffer) /\ r = received /\ t = taken /\ k = kin
    BY InputTypes
  <1>3. Sound(readerBuffer', S) /\ received' \in Seq(S)
        /\ received' \o Unread(readerBuffer') = r \o u
    <2>1. CASE Deliver
      <3>1. PICK n \in 0..readAvailable(readerBuffer) :
              LET read == readPosition(readerBuffer, readerBuffer.readPos + n)
              IN /\ readerBuffer' = cutHead(read, read.readPos)
                 /\ received' = r \o SubSeq(u, 1, n)
        BY <1>2, <2>1 DEF Deliver
      <3>2. /\ readerBuffer.readPos \in Nat /\ readAvailable(readerBuffer) \in Nat
            /\ readerBuffer.readPos + readAvailable(readerBuffer) = size(readerBuffer)
            /\ Len(u) = readAvailable(readerBuffer) /\ size(readerBuffer) \in Nat
        BY <1>2, InputTypes, UnreadProperties DEF size
      <3>3. ~(readerBuffer.readPos + n > size(readerBuffer)) /\ n \in 0..Len(u) /\ n \in Nat
            /\ n <= Len(u)
        BY <3>2
      <3>4. PICK b : b = Past(readerBuffer, n)
        OBVIOUS
      <3>5. readPosition(readerBuffer, readerBuffer.readPos + n) = b
        BY <3>3, <3>4 DEF readPosition, Past
      <3>6. Sound(b, S) /\ Unread(b) = SubSeq(u, n + 1, Len(u))
        BY <1>2, <3>4, InputTypes, PastUnread
      <3>7. Sound(readerBuffer', S) /\ Unread(readerBuffer') = SubSeq(u, n + 1, Len(u))
        BY <3>1, <3>5, <3>6, CutUnread
      <3>8. PICK f \in Seq(S), g \in Seq(S) :
              f = SubSeq(u, 1, n) /\ g = SubSeq(u, n + 1, Len(u))
        BY <3>3, TakeFirst, CutFirst
      <3>9. f \o g = u
        BY <3>3, <3>8, TakeAndCut
      <3>10. received' = r \o f /\ r \o f \in Seq(S)
        BY <3>1, <3>8, ConcatProperties
      <3>11. (r \o f) \o g = r \o u
        <4>1. (r \o f) \o g = r \o (f \o g)
          <5>1. Joins(r, f, g)
            BY Associative
          <5> QED BY <5>1 DEF Joins
        <4> QED BY <3>9, <4>1
      <3> QED BY <3>7, <3>8, <3>10, <3>11
    <2>2. CASE NothingToDeliver
      <3>1. received' = r
        BY <1>2, <2>2 DEF NothingToDeliver
      <3>2. \/ readerBuffer' = readerBuffer
            \/ readerBuffer' = cutHead(readerBuffer, readerBuffer.readPos)
        BY <2>2 DEF NothingToDeliver
      <3>3. Sound(readerBuffer', S) /\ Unread(readerBuffer') = u
        BY <1>2, <3>2, InputTypes, CutUnread
      <3> QED BY <3>1, <3>3
    <2> QED BY <2>1, <2>2
  <1>4. InPath' = InPath
    BY <1>1, <1>2, <1>3 DEF InPath
  <1>5. InputOK'
    BY <1>1, <1>3 DEF InputOK, Sound
  <1> QED BY <1>1, <1>4, <1>5 DEF InputOf, Taking

LEMMA NextInput ==
    InputOK /\ Taking /\ InputOf(InPath) /\ [Next]_vars
        => InputOK' /\ Taking' /\ InputOf(InPath)'
  <1> SUFFICES ASSUME InputOK, Taking, InputOf(InPath), [Next]_vars
               PROVE  InputOK' /\ Taking' /\ InputOf(InPath)'
    OBVIOUS
  <1>1. ASSUME readerBuffer' = readerBuffer, taken' = taken, received' = received,
               dropped' = dropped, kin' = kin, arrived' = arrived,
               workerPc' = workerPc \/ workerPc # "store"
        PROVE  InputOK' /\ Taking' /\ InputOf(InPath)'
    BY <1>1 DEF InputOK, Taking, InputOf, InPath
  <1>2. CASE Loop \/ WorkerConnect \/ RecvNothing \/ RecvClosed \/ Failed
    <2>1. /\ readerBuffer' = readerBuffer /\ taken' = taken /\ received' = received
          /\ dropped' = dropped /\ kin' = kin /\ arrived' = arrived /\ workerPc # "store"
      BY <1>2
      DEF Loop, WorkerConnect, RecvNothing, RecvClosed, Failed, sockVars, inVars, boundVars
    <2> QED BY <1>1, <2>1
  <1>3. CASE SendBegin \/ SendChunk \/ SendFails \/ SendDone
    <2>1. /\ readerBuffer' = readerBuffer /\ taken' = taken /\ received' = received
          /\ dropped' = dropped /\ kin' = kin /\ arrived' = arrived /\ workerPc # "store"
      BY <1>3 DEF SendBegin, SendChunk, SendFails, SendDone, sockVars, inVars, boundVars
    <2> QED BY <1>1, <2>1
  <1>4. CASE Connect \/ Close \/ Send \/ Destroy \/ Joined \/ PeerCloses
    <2>1. /\ readerBuffer' = readerBuffer /\ taken' = taken /\ received' = received
          /\ dropped' = dropped /\ kin' = kin /\ arrived' = arrived
          /\ workerPc' = workerPc \/ workerPc # "store"
      BY <1>4
      DEF Connect, Close, Send, Destroy, Joined, PeerCloses, sockVars, inVars, boundVars
    <2> QED BY <1>1, <2>1
  <1>5. CASE Update \/ Remember \/ Switch \/ ResetWriter \/ CallbackReturns
    <2>1. /\ readerBuffer' = readerBuffer /\ taken' = taken /\ received' = received
          /\ dropped' = dropped /\ kin' = kin /\ arrived' = arrived /\ workerPc' = workerPc
      BY <1>5
      DEF Update, Remember, Switch, ResetWriter, CallbackReturns, Goto, sockVars, inVars,
          boundVars
    <2> QED BY <1>1, <2>1
  <1>6. CASE UNCHANGED vars
    <2>1. /\ readerBuffer' = readerBuffer /\ taken' = taken /\ received' = received
          /\ dropped' = dropped /\ kin' = kin /\ arrived' = arrived /\ workerPc' = workerPc
      BY <1>6 DEF vars, sockVars, inVars, boundVars
    <2> QED BY <1>1, <2>1
  <1> QED BY <1>2, <1>3, <1>4, <1>5, <1>6, ArriveInput, RecvInput, StoreInput, ResetInput,
             ResetReaderInput, DeliverInput
          DEF Next, Worker, UpdateStep, Terminated

-----------------------------------------------------------------------------
(* What goes out                                                           *)

OutPath == wire \o Unread(writerBuffer)
OutputOf(path) == Increasing(path) /\ Range(path) = 1..sent \ lost

LEMMA InitOutput == Init => OutputOK /\ Sending /\ OutputOf(OutPath)
  <1> SUFFICES ASSUME Init PROVE OutputOK /\ Sending /\ OutputOf(OutPath)
    OBVIOUS
  <1>1. <<>> \in Seq(1..MaxOut) /\ Len(<<>>) = 0
    BY EmptySeq
  <1>2. OutputOK
    BY <1>1, ClientSocketAssumption DEF Init, OutputOK, NewByteArray, ByteArrays, size
  <1>3. Unread(writerBuffer) = <<>>
    BY DEF Init, NewByteArray, Unread, size
  <1>4. <<>> \o <<>> = <<>>
    BY <1>1, ConcatEmptySeq
  <1>5. OutPath = <<>>
    BY <1>3, <1>4 DEF Init, OutPath
  <1>6. Increasing(<<>>) /\ Range(<<>>) = {}
    BY DEF Increasing, Range
  <1> QED BY <1>2, <1>5, <1>6 DEF Init, OutputOf, Sending

LEMMA OutputTypes ==
    ASSUME OutputOK
    PROVE  /\ Sound(writerBuffer, 1..MaxOut) /\ Unread(writerBuffer) \in Seq(1..MaxOut)
           /\ wire \in Seq(1..MaxOut) /\ OutPath \in Seq(1..MaxOut)
           /\ remain \in Nat /\ readAvailable(writerBuffer) \in Nat
           /\ size(writerBuffer) \in Nat
           /\ Len(Unread(writerBuffer)) = readAvailable(writerBuffer)
           /\ readAvailable(writerBuffer) <= size(writerBuffer)
           /\ readAvailable(writerBuffer) = size(writerBuffer) - writerBuffer.readPos
  <1>1. Sound(writerBuffer, 1..MaxOut) /\ wire \in Seq(1..MaxOut)
    BY DEF OutputOK, Sound
  <1>2. PICK u \in Seq(1..MaxOut) : u = Unread(writerBuffer)
    BY <1>1, UnreadProperties
  <1>3. wire \o u \in Seq(1..MaxOut)
    BY <1>1, <1>2, ConcatProperties
  <1>4. /\ writerBuffer.readPos \in Nat /\ size(writerBuffer) \in Nat
        /\ readAvailable(writerBuffer) \in Nat
        /\ Len(Unread(writerBuffer)) = readAvailable(writerBuffer)
        /\ readAvailable(writerBuffer) = size(writerBuffer) - writerBuffer.readPos
    BY <1>1, UnreadProperties DEF size, readAvailable
  <1>5. readAvailable(writerBuffer) <= size(writerBuffer)
    BY <1>4
  <1>6. remain \in Nat
    BY <1>4 DEF OutputOK
  <1> QED BY <1>1, <1>2, <1>3, <1>4, <1>5, <1>6 DEF OutPath

LEMMA SendChunkOutput ==
    ASSUME OutputOK, Sending, OutputOf(OutPath), SendChunk
    PROVE  OutputOK' /\ Sending' /\ OutputOf(OutPath)'
  <1> DEFINE S == 1..MaxOut
  <1>1. /\ workerPc = "send" /\ workerPc' = workerPc
        /\ UNCHANGED <<lost, sent>>
    BY DEF SendChunk
  <1>2. PICK u \in Seq(S), w \in Seq(S), a \in Nat, z \in Nat, r \in Nat :
          /\ u = Unread(writerBuffer) /\ w = wire /\ a = readAvailable(writerBuffer)
          /\ Len(u) = a /\ z = size(writerBuffer) /\ r = remain
          /\ a <= r /\ r <= z /\ a = z - writerBuffer.readPos
    BY <1>1, OutputTypes DEF OutputOK, Sending
  <1>3. Chunk \in Nat /\ Sound(writerBuffer, S)
    BY ClientSocketAssumption, OutputTypes
  <1>4. PICK n \in 0..a :
          /\ Len(ReadBytes(writerBuffer, Chunk)) = n
          /\ readData(writerBuffer, Chunk) = Past(writerBuffer, n)
          /\ \A m \in 0..n :
               /\ SubSeq(ReadBytes(writerBuffer, Chunk), 1, m) = SubSeq(u, 1, m)
               /\ m < n => seek(readData(writerBuffer, Chunk), m - n) = Past(writerBuffer, m)
    <2>1. PICK n \in 0..readAvailable(writerBuffer) :
            /\ Len(ReadBytes(writerBuffer, Chunk)) = n
            /\ readData(writerBuffer, Chunk) = Past(writerBuffer, n)
            /\ \A m \in 0..n :
                 /\ SubSeq(ReadBytes(writerBuffer, Chunk), 1, m)
                      = SubSeq(Unread(writerBuffer), 1, m)
                 /\ m < n => seek(readData(writerBuffer, Chunk), m - n)
                               = Past(writerBuffer, m)
      BY <1>3, ReadUnread
    <2> QED BY <1>2, <2>1
  <1>5. PICK m \in 0..n :
          /\ writerBuffer' = Past(writerBuffer, m) /\ remain' = r - m
          /\ wire' = w \o SubSeq(u, 1, m)
    <2>1. PICK m \in 0..n :
            /\ writerBuffer' = IF m < n THEN seek(readData(writerBuffer, Chunk), m - n)
                               ELSE readData(writerBuffer, Chunk)
            /\ remain' = r - m
            /\ wire' = w \o SubSeq(ReadBytes(writerBuffer, Chunk), 1, m)
      BY <1>2, <1>4 DEF SendChunk
    <2>2. m < n \/ m = n
      BY <1>2, <1>4
    <2>3. writerBuffer' = Past(writerBuffer, m)
      BY <1>4, <2>1, <2>2
    <2> QED BY <1>4, <2>1, <2>3
  <1>6. m \in 0..a /\ m \in 0..Len(u) /\ m \in Nat /\ m <= Len(u)
    BY <1>2, <1>4
  <1>7. /\ Sound(writerBuffer', S) /\ writerBuffer'.data = writerBuffer.data
        /\ writerBuffer'.readPos = writerBuffer.readPos + m
        /\ Unread(writerBuffer') = SubSeq(u, m + 1, Len(u))
    <2>1. m \in 0..readAvailable(writerBuffer)
      BY <1>2, <1>6
    <2> QED BY <1>2, <1>3, <1>5, <2>1, PastUnread
  <1>8. PICK f \in Seq(S), g \in Seq(S) :
          f = SubSeq(u, 1, m) /\ g = SubSeq(u, m + 1, Len(u))
    BY <1>6, TakeFirst, CutFirst
  <1>9. f \o g = u
    BY <1>6, <1>8, TakeAndCut
  <1>10. wire' = w \o f /\ wire' \in Seq(S)
    BY <1>5, <1>8, ConcatProperties
  <1>11. (w \o f) \o g = w \o u
    <2>1. (w \o f) \o g = w \o (f \o g)
      <3>1. Joins(w, f, g)
        BY Associative
      <3> QED BY <3>1 DEF Joins
    <2> QED BY <1>9, <2>1
  <1>12. OutPath' = OutPath
    BY <1>2, <1>7, <1>8, <1>10, <1>11 DEF OutPath
  <1>13. size(writerBuffer') = z
    BY <1>2, <1>7 DEF size
  <1>14. readAvailable(writerBuffer') = a - m
    <2>1. writerBuffer.readPos \in Nat
      BY <1>3, UnreadProperties
    <2>2. readAvailable(writerBuffer') = z - (writerBuffer.readPos + m)
      BY <1>7, <1>13 DEF readAvailable
    <2> QED BY <1>2, <1>6, <2>1, <2>2
  <1>15. r - m \in 0..z /\ a - m <= r - m
    BY <1>2, <1>6
  <1> QED BY <1>1, <1>5, <1>7, <1>10, <1>12, <1>13, <1>14, <1>15
          DEF OutputOK, Sending, OutputOf, Sound

LEMMA SendFailsOutput ==
    ASSUME OutputOK, Sending, OutputOf(OutPath), SendFails
    PROVE  OutputOK' /\ Sending' /\ OutputOf(OutPath)'
  <1> DEFINE S == 1..MaxOut
  <1>1. /\ workerPc' = "failed" /\ remain' = 0
        /\ writerBuffer' = readData(writerBuffer, Chunk)
        /\ lost' = lost \cup Range(ReadBytes(writerBuffer, Chunk))
        /\ UNCHANGED <<wire, sent>>
    BY DEF SendFails
  <1>2. PICK u \in Seq(S), w \in Seq(S), a \in Nat :
          /\ u = Unread(writerBuffer) /\ w = wire /\ a = readAvailable(writerBuffer)
          /\ Len(u) = a
    BY OutputTypes
  <1>3. Chunk \in Nat /\ Sound(writerBuffer, S)
    BY ClientSocketAssumption, OutputTypes
  <1>4. PICK n \in 0..a :
          /\ ReadBytes(writerBuffer, Chunk) = SubSeq(u, 1, n)
          /\ readData(writerBuffer, Chunk) = Past(writerBuffer, n)
    BY <1>2, <1>3, ReadUnread
  <1>5. n \in 0..Len(u) /\ n \in Nat /\ n <= Len(u)
    BY <1>2
  <1>6. /\ Sound(writerBuffer', S) /\ writerBuffer'.data = writerBuffer.data
        /\ Unread(writerBuffer') = SubSeq(u, n + 1, Len(u))
    BY <1>1, <1>2, <1>3, <1>4, PastUnread
  <1>7. PICK f \in Seq(S), g \in Seq(S) :
          f = SubSeq(u, 1, n) /\ g = SubSeq(u, n + 1, Len(u))
    BY <1>5, TakeFirst, CutFirst
  <1>8. OutPath = (w \o f) \o g
    <2>1. (w \o f) \o g = w \o (f \o g)
      <3>1. Joins(w, f, g)
        BY Associative
      <3> QED BY <3>1 DEF Joins
    <2>2. f \o g = u
      BY <1>5, <1>7, TakeAndCut
    <2> QED BY <1>2, <2>1, <2>2 DEF OutPath
  <1>9. OutPath' = w \o g
    BY <1>1, <1>2, <1>6, <1>7 DEF OutPath
  <1>10. /\ Increasing(w \o g) /\ Range(w \o g) = Range(OutPath) \ Range(f)
         /\ Range(f) \subseteq Range(OutPath)
    BY <1>8, SeqOfNat, DropMiddle DEF OutputOf
  <1>11. lost' = lost \cup Range(f)
    BY <1>1, <1>4, <1>7
  <1>12. OutputOf(OutPath)'
    BY <1>1, <1>9, <1>10, <1>11 DEF OutputOf
  <1>13. lost' \subseteq 1..sent
    BY <1>10, <1>11 DEF OutputOK, OutputOf
  <1>14. 0 \in 0..size(writerBuffer')
    BY <1>6, UnreadProperties DEF size
  <1> QED BY <1>1, <1>6, <1>12, <1>13, <1>14 DEF OutputOK, Sending, Sound

LEMMA SendDoneOutput ==
    ASSUME OutputOK, Sending, OutputOf(OutPath), SendDone
    PROVE  OutputOK' /\ Sending' /\ OutputOf(OutPath)'
  <1> DEFINE S == 1..MaxOut
  <1>1. /\ workerPc = "send" /\ workerPc' = "loop" /\ remain = 0 /\ remain' = 0
        /\ writerBuffer' = truncate(writerBuffer) /\ UNCHANGED <<wire, sent, lost>>
    BY DEF SendDone
  <1>2. PICK u \in Seq(S) : u = Unread(writerBuffer) /\ Len(u) = 0
    BY <1>1, OutputTypes DEF Sending
  <1>3. u = <<>>
    BY <1>2, EmptySeq
  <1>4. Sound(writerBuffer', S) /\ Unread(writerBuffer') = <<>>
    BY <1>1, OutputTypes, TruncateUnread DEF Sound
  <1>5. OutPath' = OutPath
    BY <1>1, <1>2, <1>3, <1>4 DEF OutPath
  <1>6. 0 \in 0..size(writerBuffer')
    BY <1>4, UnreadProperties DEF size
  <1> QED BY <1>1, <1>4, <1>5, <1>6 DEF OutputOK, OutputOf, Sending, Sound

LEMMA SendOutput ==
    ASSUME OutputOK, Sending, OutputOf(OutPath), Send
    PROVE  OutputOK' /\ Sending' /\ OutputOf(OutPath)'
  <1> DEFINE S == 1..MaxOut
  <1>1. PICK x \in S : x = sent + 1 /\ x = sent'
    BY ClientSocketAssumption DEF Send, OutputOK
  <1>2. /\ workerPc # "send" /\ workerPc' = workerPc
        /\ writerBuffer' = writeData(writerBuffer, <<x>>)
        /\ UNCHANGED <<remain, wire, lost>>
    BY <1>1 DEF Send
  <1>3. PICK t \in Seq(S) : t = <<x>>
    <2>1. <<x>> \in Seq(S)
      BY <1>1
    <2> QED BY <2>1
  <1>4. Sound(writerBuffer', S) /\ Unread(writerBuffer') = Unread(writerBuffer) \o t
    BY <1>2, <1>3, OutputTypes, WriteUnread
  <1>5. PICK u \in Seq(S), w \in Seq(S) : u = Unread(writerBuffer) /\ w = wire
    BY OutputTypes
  <1>6. PICK p \in Seq(S) : p = w \o u /\ p = OutPath
    BY <1>5, OutputTypes DEF OutPath
  <1>7. OutPath' = Append(p, x)
    <2>1. (w \o u) \o t = w \o (u \o t)
      <3>1. Joins(w, u, t)
        BY Associative
      <3> QED BY <3>1 DEF Joins
    <2>2. p \o t = Append(p, x)
      BY <1>3, AppendIsConcat
    <2> QED BY <1>2, <1>4, <1>5, <1>6, <2>1, <2>2 DEF OutPath
  <1>8. Increasing(p) /\ \A y \in Range(p) : y < x
    BY <1>1, <1>6 DEF OutputOf, OutputOK
  <1>9. Increasing(Append(p, x)) /\ Range(Append(p, x)) = Range(p) \cup {x}
    <2>1. PICK T \in SUBSET Nat : T = S
      BY SeqOfNat
    <2>2. p \in Seq(T) /\ x \in T
      BY <2>1
    <2> HIDE DEF S
    <2> QED BY <1>8, <2>2, AddLast
  <1>10. (1..sent \ lost) \cup {x} = 1..sent' \ lost /\ 1..sent \subseteq 1..sent'
         /\ sent' \in 0..MaxOut
    BY <1>1 DEF OutputOK
  <1>11. OutputOf(OutPath)'
    BY <1>2, <1>6, <1>7, <1>9, <1>10 DEF OutputOf
  <1>12. 0 \in 0..size(writerBuffer')
    BY <1>4, UnreadProperties DEF size
  <1> QED BY <1>2, <1>4, <1>10, <1>11, <1>12 DEF OutputOK, Sending, Sound

LEMMA ResetWriterOutput ==
    ASSUME OutputOK, Sending, OutputOf(OutPath), ResetWriter
    PROVE  OutputOK' /\ Sending' /\ OutputOf(OutPath)'
  <1> DEFINE S == 1..MaxOut
  <1>1. /\ writerBuffer' = truncate(writerBuffer) /\ workerPc # "send"
        /\ lost' = lost \cup Range(Unread(writerBuffer))
        /\ UNCHANGED <<remain, wire, sent, workerPc>>
    BY DEF ResetWriter, Goto
  <1>2. PICK u \in Seq(S), w \in Seq(S) : u = Unread(writerBuffer) /\ w = wire
    BY OutputTypes
  <1>3. Sound(writerBuffer', S) /\ Unread(writerBuffer') = <<>>
    BY <1>1, OutputTypes, TruncateUnread DEF Sound
  <1>4. OutPath = w \o u /\ OutPath' = w
    <2>1. w \o <<>> = w
      BY ConcatEmptySeq
    <2> QED BY <1>1, <1>2, <1>3, <2>1 DEF OutPath
  <1>5. /\ Increasing(w) /\ Range(w) = Range(OutPath) \ Range(u)
        /\ Range(u) \subseteq Range(OutPath)
    BY <1>4, SeqOfNat, DropLast DEF OutputOf
  <1>6. OutputOf(OutPath)'
    BY <1>1, <1>2, <1>4, <1>5 DEF OutputOf
  <1>7. lost' \subseteq 1..sent
    BY <1>1, <1>2, <1>5 DEF OutputOK, OutputOf
  <1>8. 0 \in 0..size(writerBuffer')
    BY <1>3, UnreadProperties DEF size
  <1> QED BY <1>1, <1>3, <1>6, <1>7, <1>8 DEF OutputOK, Sending, Sound

LEMMA NextOutput ==
    StatusOK /\ OutputOK /\ Sending /\ OutputOf(OutPath) /\ [Next]_vars
        => OutputOK' /\ Sending' /\ OutputOf(OutPath)'
  <1> SUFFICES ASSUME StatusOK, OutputOK, Sending, OutputOf(OutPath), [Next]_vars
               PROVE  OutputOK' /\ Sending' /\ OutputOf(OutPath)'
    OBVIOUS
  <1>1. ASSUME writerBuffer' = writerBuffer, remain' = remain, wire' = wire, lost' = lost,
               sent' = sent, workerPc' = workerPc \/ "send" \notin {workerPc, workerPc'}
        PROVE  OutputOK' /\ Sending' /\ OutputOf(OutPath)'
    BY <1>1 DEF OutputOK, Sending, OutputOf, OutPath
  <1>2. CASE Loop \/ WorkerConnect \/ RecvNothing \/ RecvClosed \/ Failed
    <2>1. /\ writerBuffer' = writerBuffer /\ remain' = remain /\ wire' = wire
          /\ lost' = lost /\ sent' = sent /\ "send" \notin {workerPc, workerPc'}
      BY <1>2
      DEF Loop, WorkerConnect, RecvNothing, RecvClosed, Failed, outVars, StatusOK,
          SocketStatus
    <2> QED BY <1>1, <2>1
  <1>3. CASE Recv \/ Store
    <2>1. /\ writerBuffer' = writerBuffer /\ remain' = remain /\ wire' = wire
          /\ lost' = lost /\ sent' = sent /\ "send" \notin {workerPc, workerPc'}
      BY <1>3 DEF Recv, Store, outVars
    <2> QED BY <1>1, <2>1
  <1>4. CASE Connect \/ Close \/ Destroy \/ Joined \/ PeerCloses \/ Arrive
    <2>1. /\ writerBuffer' = writerBuffer /\ remain' = remain /\ wire' = wire
          /\ lost' = lost /\ sent' = sent
          /\ workerPc' = workerPc \/ "send" \notin {workerPc, workerPc'}
      BY <1>4 DEF Connect, Close, Destroy, Joined, PeerCloses, Arrive, outVars
    <2> QED BY <1>1, <2>1
  <1>5. CASE Update \/ Remember \/ Switch \/ Reset \/ ResetReader \/ CallbackReturns
             \/ Deliver \/ NothingToDeliver
    <2>1. /\ writerBuffer' = writerBuffer /\ remain' = remain /\ wire' = wire
          /\ lost' = lost /\ sent' = sent /\ workerPc' = workerPc
      BY <1>5
      DEF Update, Remember, Switch, Reset, ResetReader, CallbackReturns, Deliver,
          NothingToDeliver, Goto, outVars
    <2> QED BY <1>1, <2>1
  <1>6. CASE UNCHANGED vars
    <2>1. /\ writerBuffer' = writerBuffer /\ remain' = remain /\ wire' = wire
          /\ lost' = lost /\ sent' = sent /\ workerPc' = workerPc
      BY <1>6 DEF vars, outVars
    <2> QED BY <1>1, <2>1
  <1>7. CASE SendBegin
    <2>1. /\ workerPc' = "send" /\ remain' = size(writerBuffer)
          /\ writerBuffer' = writerBuffer /\ wire' = wire /\ lost' = lost /\ sent' = sent
      BY <1>7 DEF SendBegin
    <2> QED BY <2>1, OutputTypes DEF OutputOK, Sending, OutputOf, OutPath
  <1> QED BY <1>2, <1>3, <1>4, <1>5, <1>6, <1>7, SendChunkOutput, SendFailsOutput,
             SendDoneOutput, SendOutput, ResetWriterOutput
          DEF Next, Worker, UpdateStep, Terminated

LEMMA PathsImply ==
    ASSUME InputOK, InputOf(InPath), OutputOK, Sending, OutputOf(OutPath)
    PROVE  BytesConserved
  <1>1. InputConserved
    BY DEF InputConserved, InputOf, InPath
  <1>2. ASSUME workerPc = "send", remain = 0
        PROVE  Unread(writerBuffer) = <<>>
    <2>1. PICK u \in Seq(1..MaxOut) : u = Unread(writerBuffer) /\ Len(u) = 0
      BY <1>2, OutputTypes DEF Sending
    <2> QED BY <2>1, EmptySeq
  <1>3. OutputConserved
    BY <1>2 DEF OutputConserved, OutputOf, OutPath
  <1> QED BY <1>1, <1>3 DEF BytesConserved

\* A history that only a failed tryToSend and the end of reset() change.
CrossedOK == crossed \in BOOLEAN

LEMMA NextCrossed == CrossedOK /\ [Next]_vars => CrossedOK'
  <1> SUFFICES ASSUME CrossedOK, [Next]_vars PROVE CrossedOK'
    OBVIOUS
  <1> USE DEF CrossedOK
  <1>1. CASE SendFails
    BY <1>1, Zenon DEF SendFails
  <1>2. CASE ResetWriter
    BY <1>2 DEF ResetWriter
  <1>3. CASE Loop \/ WorkerConnect \/ Recv \/ Store \/ RecvNothing \/ RecvClosed \/ SendBegin
             \/ SendChunk \/ SendDone \/ Failed
    BY <1>3
    DEF Loop, WorkerConnect, Recv, Store, RecvNothing, RecvClosed, SendBegin, SendChunk,
        SendDone, Failed, outVars
  <1>4. CASE Connect \/ Close \/ Send \/ Destroy \/ Joined \/ Arrive \/ PeerCloses
    BY <1>4 DEF Connect, Close, Send, Destroy, Joined, Arrive, PeerCloses, outVars
  <1>5. CASE Update \/ Remember \/ Switch \/ Reset \/ ResetReader \/ CallbackReturns
             \/ Deliver \/ NothingToDeliver
    BY <1>5
    DEF Update, Remember, Switch, Reset, ResetReader, CallbackReturns, Deliver,
        NothingToDeliver, Goto, outVars
  <1>6. CASE UNCHANGED vars
    BY <1>6 DEF vars, outVars
  <1> QED BY <1>1, <1>2, <1>3, <1>4, <1>5, <1>6 DEF Next, Worker, UpdateStep, Terminated

\* The values of all variables.
THEOREM TypeCorrect == Spec => []TypeOK
  <1>1. TypeOK <=> StatusOK /\ InputOK /\ OutputOK /\ CrossedOK
    BY DEF TypeOK, CrossedOK
  <1>2. Init => CrossedOK
    BY DEF Init, CrossedOK
  <1> QED BY <1>1, <1>2, InitStatus, NextStatus, InitInput, NextInput, InitOutput, NextOutput,
             NextCrossed, PTL
          DEF Spec

\* In both directions and across any number of sessions, whatever the threads
\* do between the locks, a byte is delivered once and in order, or dropped
\* with its session.
THEOREM EachByteOnce == Spec => []BytesConserved
  <1>1. InputOK /\ InputOf(InPath) /\ OutputOK /\ Sending /\ OutputOf(OutPath)
          => BytesConserved
    BY PathsImply
  <1> QED BY <1>1, InitStatus, NextStatus, InitInput, NextInput, InitOutput, NextOutput, PTL
          DEF Spec

-----------------------------------------------------------------------------
(* Sessions that fail while they send                                      *)

LEMMA NextHalfSent ==
    ASSUME StatusOK, Asking, OutputOK, HalfSent, [Next]_vars
    PROVE  HalfSent'
  <1>1. /\ writerBuffer.data \in Seq(1..MaxOut) /\ writerBuffer.readPos \in Nat
        /\ writerBuffer.readPos <= Len(writerBuffer.data) /\ remain \in 0..Len(writerBuffer.data)
        /\ writerBuffer.data = <<>> => writerBuffer.readPos = 0 /\ remain = 0
    <2>1. /\ Sound(writerBuffer, 1..MaxOut) /\ remain \in 0..Len(writerBuffer.data)
      BY OutputTypes DEF OutputOK, size
    <2>2. /\ writerBuffer.data \in Seq(1..MaxOut) /\ writerBuffer.readPos \in Nat
          /\ writerBuffer.readPos <= Len(writerBuffer.data)
      BY <2>1, UnreadProperties
    <2>3. Len(<<>>) = 0
      OBVIOUS
    <2> QED BY <2>1, <2>2, <2>3
  <1> USE DEF StatusOK, Asking, Resetting, HalfSent, SocketStatus
  <1>2. CASE Loop
    BY <1>2 DEF Loop, sockVars, outVars
  <1>3. CASE WorkerConnect
    BY <1>3 DEF WorkerConnect, outVars
  <1>4. CASE Recv \/ Store \/ RecvNothing \/ RecvClosed
    BY <1>4 DEF Recv, Store, RecvNothing, RecvClosed, sockVars, outVars
  <1>5. CASE SendBegin
    BY <1>5 DEF SendBegin, sockVars
  <1>6. CASE SendChunk
    BY <1>6 DEF SendChunk, sockVars
  <1>7. CASE SendFails
    <2>1. writerBuffer'.data = writerBuffer.data
      BY <1>7, <1>1 DEF SendFails, readData
    <2>2. /\ workerPc = "send" /\ remain > 0 /\ socket # "established" /\ workerPc' = "failed"
          /\ UNCHANGED <<status, socket, mainPc>>
      BY <1>7 DEF SendFails, sockVars
    <2>3. writerBuffer.data # <<>>
      BY <1>1, <2>2
    <2>4. crossed' <=> \/ crossed
                       \/ socket = "new" /\ mainPc \notin {"resetReader", "resetWriter"}
      BY <1>7, Zenon DEF SendFails
    <2> QED BY <2>1, <2>2, <2>3, <2>4
  <1>8. CASE SendDone \/ ResetWriter
    <2>1. writerBuffer'.data = <<>> /\ writerBuffer'.readPos = 0
      <3>1. writerBuffer' = truncate(writerBuffer)
        BY <1>8 DEF SendDone, ResetWriter
      <3> QED BY <3>1, OutputTypes, TruncateUnread DEF Sound
    <2>2. UNCHANGED <<status, socket>> /\ (crossed' => crossed)
      BY <1>8 DEF SendDone, ResetWriter, Goto, sockVars
    <2> QED BY <2>1, <2>2
  <1>9. CASE Failed
    BY <1>9 DEF Failed, sockVars, outVars
  <1>10. CASE Connect
    BY <1>1, <1>10 DEF Connect, InApplication, outVars
  <1>11. CASE Send
    <2>1. /\ status \in SendsWhen /\ workerPc # "send"
          /\ UNCHANGED <<status, socket, mainPc, workerPc, crossed>>
      BY <1>11 DEF Send, sockVars
    <2>2. writerBuffer'.readPos = writerBuffer.readPos
      BY <1>11, <1>1 DEF Send, writeData
    <2>3. SendsConnected => status = "CONNECTED"
      BY <2>1 DEF SendsConnected
    <2> QED BY <2>1, <2>2, <2>3
  <1>12. CASE Close \/ Destroy \/ Joined
    BY <1>12 DEF Close, Destroy, Joined, InApplication, sockVars, outVars
  <1>13. CASE Arrive \/ PeerCloses
    BY <1>13 DEF Arrive, PeerCloses, outVars
  <1>14. CASE Update \/ Remember \/ Switch
    <2>1. /\ mainPc \notin {"resetReader", "resetWriter"}
          /\ mainPc' \notin {"resetReader", "resetWriter"}
          /\ UNCHANGED <<status, socket, workerPc, writerBuffer, crossed>>
      BY <1>14 DEF Update, Remember, Switch, Goto, sockVars, outVars
    <2> QED BY <2>1
  <1>15. CASE Reset
    BY <1>15 DEF Reset, outVars
  <1>16. CASE ResetReader \/ CallbackReturns
    BY <1>16 DEF ResetReader, CallbackReturns, Goto, sockVars, outVars
  <1>17. CASE Deliver \/ NothingToDeliver
    BY <1>17 DEF Deliver, NothingToDeliver, Goto, sockVars, outVars
  <1>18. CASE UNCHANGED vars
    BY <1>18 DEF vars, sockVars, outVars
  <1> QED BY <1>2, <1>3, <1>4, <1>5, <1>6, <1>7, <1>8, <1>9, <1>10, <1>11, <1>12, <1>13,
             <1>14, <1>15, <1>16, <1>17, <1>18 DEF Next, Worker, UpdateStep, Terminated

\* At whatever status the application sends, tryToSend, which counts from
\* size(), begins with nothing read, whichever way the sessions before have
\* ended, unless one of the last session has failed on the next one's socket;
\* and that only happens to bytes that were sent while not connected.
THEOREM SendingBeginsClean == Spec => []NothingHalfSent
  <1>1. Init => HalfSent
    BY DEF Init, HalfSent, NewByteArray
  <1>2. StatusOK /\ Asking /\ OutputOK /\ HalfSent /\ [Next]_vars => HalfSent'
    BY NextHalfSent
  <1>3. StatusOK /\ HalfSent => NothingHalfSent
    BY DEF HalfSent, NothingHalfSent, SendsConnected
  <1> QED BY <1>1, <1>2, <1>3, InitStatus, NextStatus, InitOutput, NextOutput, PTL DEF Spec
===============================================================================
