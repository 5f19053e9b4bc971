-------------------------- MODULE ServerSocketProofs --------------------------
(***************************************************************************)
(* Proofs about ServerSocket, for any number of connections, ids, bytes    *)
(* and configurations.                                                     *)
(***************************************************************************)
EXTENDS ServerSocket, FiniteSetTheorems, WellFoundedInduction, SequenceLemmas

-----------------------------------------------------------------------------
(* Types and positions of the two threads                                  *)

\* Where each thread stands says which client it works on; an event thread
\* that waits or has left has served every event.
Control ==
    /\ eventPc \in {"add", "ctl", "read", "setnew", "send", "cut"} => client \in Clients
    /\ eventPc \in {"wait", "accept", "exited"} => client = NoClient
    /\ eventPc \in {"wait", "exited"} =>
          ~listenEvent /\ \A c \in Clients : events[c] = {}
    /\ again => eventPc \in {"read", "setnew"}
    /\ mainPc \in {"recv", "flush", "cut", "close"} <=> iter \in Clients

\* A non-empty set of numbers has a smallest.
LEMMA Minimum ==
    ASSUME NEW T \in SUBSET Nat, T # {}
    PROVE  \E x \in T : \A y \in T : x <= y
  <1>1. PICK x \in T : \A y \in T : ~ (<<y, x>> \in OpToRel(<, Nat))
    BY NatLessThanWellFounded, WFMin, Zenon
  <1>2. \A y, z \in Nat : y < z => <<y, z>> \in OpToRel(<, Nat)
    BY Zenon DEF OpToRel
  <1>3. \A y \in T : ~(y < x)
    BY <1>1, <1>2
  <1> QED BY <1>3

LEMMA IdsFinite == IsFiniteSet(Ids) /\ Cardinality(Ids) = IdSpace
  <1>1. IdSpace \in Nat \ {0} /\ 0 \in Int /\ IdSpace - 1 \in Int
    BY ServerSocketAssumption
  <1> QED BY <1>1, FS_Interval DEF Ids

\* getNextClientID finds an id that no client has, if there is one.
LEMMA NextClientIDFree ==
    ASSUME TypeOK, NoClient \in Range(allClients)
    PROVE  NextClientID \in Ids /\ allClients[NextClientID] = NoClient
  <1> DEFINE after(k) == (nextID + k) % IdSpace
             free     == {k \in 1..IdSpace : allClients[after(k)] = NoClient}
             least    == CHOOSE k \in free : \A j \in free : k <= j
  <1>1. IdSpace \in Nat \ {0} /\ nextID \in 0..IdSpace - 1
    BY ServerSocketAssumption DEF TypeOK, MainThreadOK, Ids
  <1>2. ASSUME NEW k \in Nat PROVE after(k) \in Ids
    BY <1>1 DEF Ids
  <1>3. free # {}
    <2>1. PICK i \in Ids : allClients[i] = NoClient
      BY DEF Range, TypeOK, MainThreadOK
    <2>2. i \in 0..IdSpace - 1
      BY DEF Ids
    <2>3. \E k \in 1..IdSpace : nextID + k = i \/ nextID + k = i + IdSpace
      <3>1. CASE i > nextID
        <4>1. i - nextID \in 1..IdSpace /\ nextID + (i - nextID) = i
          BY <1>1, <2>2, <3>1
        <4> QED BY <4>1
      <3>2. CASE i <= nextID
        <4>1. /\ i + IdSpace - nextID \in 1..IdSpace
              /\ nextID + (i + IdSpace - nextID) = i + IdSpace
          BY <1>1, <2>2, <3>2
        <4> QED BY <4>1
      <3> QED BY <1>1, <2>2, <3>1, <3>2
    <2>4. i % IdSpace = i /\ (i + IdSpace) % IdSpace = i
      BY <1>1, <2>2
    <2> QED BY <2>1, <2>3, <2>4
  <1>4. free \in SUBSET Nat
    OBVIOUS
  <1>5. \E k \in free : \A j \in free : k <= j
    <2> HIDE DEF free
    <2> QED BY <1>3, <1>4, Minimum
  <1>6. least \in free
    <2> HIDE DEF free
    <2> QED BY <1>5
  <1>7. least \in Nat /\ allClients[after(least)] = NoClient
    <2> HIDE DEF least
    <2> QED BY <1>6
  <1>8. NextClientID = after(least)
    BY DEF NextClientID
  <1> HIDE DEF least, free
  <1> QED BY <1>2, <1>7, <1>8

LEMMA InitTypeOK == Init => TypeOK /\ Control
  <1> SUFFICES ASSUME Init PROVE TypeOK /\ Control
    OBVIOUS
  <1> USE ServerSocketAssumption DEF Init
  <1>1. /\ load \in Loads /\ allClients \in [Ids -> Clients \cup {NoClient}]
        /\ nextID \in Ids /\ Adopted \subseteq Clients
    BY DEF Ids, Adopted
  <1>2. numClients \in 0..IdSpace
    <2> DEFINE used == {i \in Ids : allClients[i] # NoClient}
               f == [i \in used |-> allClients[i]]
    <2>1. IsFiniteSet(used) /\ Cardinality(used) <= IdSpace
      BY IdsFinite, FS_Subset
    <2>2. f \in Surjection(used, Adopted)
      BY DEF Surjection, Adopted
    <2>3. IsFiniteSet(Adopted) /\ Cardinality(Adopted) <= Cardinality(used)
      <3> HIDE DEF used, f
      <3> QED BY <2>1, <2>2, FS_Surjection
    <2>4. Cardinality(Adopted) \in Nat /\ Cardinality(used) \in Nat
      BY <2>1, <2>3, FS_CardinalityType
    <2> HIDE DEF used
    <2> QED BY <2>1, <2>3, <2>4
  <1>3. /\ wire \in [Clients -> Seq(Nat)] /\ astray \in [Clients -> Seq(Nat)]
        /\ writerBuffer \in [Clients -> ByteArrays(Nat)]
    BY DEF ByteArrays, NewByteArray
  <1>4. TypeOK
    <2>1. KernelOK /\ EventThreadOK
      BY <1>1 DEF KernelOK, EventThreadOK
    <2>2. InputOK /\ OutputOK
      BY <1>1, <1>3 DEF InputOK, OutputOK
    <2>3. SharedOK /\ MainThreadOK
      BY <1>1, <1>2 DEF SharedOK, MainThreadOK
    <2> QED BY <1>1, <2>1, <2>2, <2>3 DEF TypeOK
  <1>5. Control
    BY DEF Control
  <1> QED BY <1>4, <1>5

\* What writeFromBuffer leaves of a buffer: its bytes after the ones sent.
LEMMA CutSentType ==
    ASSUME NEW b \in ByteArrays(Nat), NEW n \in Nat
    PROVE  /\ CutSent(b, n) \in ByteArrays(Nat)
           /\ b.readPos = 0 /\ n <= Len(b.data) =>
                 /\ CutSent(b, n).readPos = 0
                 /\ CutSent(b, n).data = SubSeq(b.data, n + 1, Len(b.data))
  <1> DEFINE read == seek(b, n)
  <1>1. /\ b = [data |-> b.data, readPos |-> b.readPos]
        /\ b.data \in Seq(Nat) /\ Len(b.data) \in Nat /\ b.readPos \in Nat
    BY LenProperties DEF ByteArrays
  <1>2. /\ read.data = b.data /\ read.readPos \in Nat /\ read.readPos <= Len(b.data)
        /\ b.readPos = 0 /\ n <= Len(b.data) => read.readPos = n
        /\ read \in ByteArrays(Nat)
    BY <1>1 DEF seek, readPosition, size, ByteArrays
  <1>3. CASE read.readPos >= Len(b.data)
    <2>1. CutSent(b, n).data = <<>> /\ CutSent(b, n).readPos = 0
          /\ CutSent(b, n) \in ByteArrays(Nat)
      <3> HIDE DEF read
      <3>1. cutHead(read, read.readPos) = [data |-> <<>>, readPos |-> 0]
        BY <1>2, <1>3 DEF cutHead, truncate, size, ByteArrays
      <3>2. CutSent(b, n) = cutHead(read, read.readPos)
        BY DEF CutSent, read
      <3> QED BY <1>2, <3>1, <3>2 DEF ByteArrays
    <2>2. b.readPos = 0 /\ n <= Len(b.data) => n = Len(b.data)
      BY <1>1, <1>2, <1>3
    <2>3. SubSeq(b.data, Len(b.data) + 1, Len(b.data)) = <<>>
      BY <1>1
    <2> QED BY <2>1, <2>2, <2>3
  <1>4. CASE read.readPos < Len(b.data)
    <2> HIDE DEF read
    <2>1. cutHead(read, read.readPos)
            = [data |-> SubSeq(b.data, read.readPos + 1, Len(b.data)), readPos |-> 0]
      <3>1. /\ size(read) = Len(b.data) /\ ~(read.readPos >= size(read))
            /\ ~(read.readPos > read.readPos)
        BY <1>1, <1>2, <1>4 DEF size
      <3>2. cutHead(read, read.readPos)
              = [data    |-> SubSeq(read.data, read.readPos + 1, size(read)),
                 readPos |-> IF read.readPos > read.readPos THEN read.readPos - read.readPos
                                                            ELSE 0]
        BY <3>1, Zenon DEF cutHead
      <3> QED BY <1>2, <3>1, <3>2
    <2>2. SubSeq(b.data, read.readPos + 1, Len(b.data)) \in Seq(Nat)
      BY <1>1, <1>2, <1>4, SubSeqProperties
    <2>3. CutSent(b, n) = cutHead(read, read.readPos)
      BY DEF CutSent, read
    <2>4. CutSent(b, n)
            = [data |-> SubSeq(b.data, read.readPos + 1, Len(b.data)), readPos |-> 0]
      BY <2>1, <2>3
    <2>5. CutSent(b, n) \in ByteArrays(Nat)
      BY <2>2, <2>4 DEF ByteArrays
    <2>6. b.readPos = 0 /\ n <= Len(b.data) => read.readPos = n
      BY <1>2
    <2> QED BY <2>4, <2>5, <2>6
  <1> QED BY <1>1, <1>2, <1>3, <1>4

\* A thread in Flush or in EventSend: what SendBytes does to the wire.
LEMMA SendBytesType ==
    ASSUME TypeOK, NEW c \in Clients, NEW n \in Nat, NEW err \in BOOLEAN,
           NEW who \in {"main", "event"}, SendBytes(c, n, err, who)
    PROVE  /\ n <= readAvailable(writerBuffer[c])
           /\ SubSeq(Unread(writerBuffer[c]), 1, n) \in Seq(Nat)
           /\ wire' \in [Clients -> Seq(Nat)] /\ astray' \in [Clients -> Seq(Nat)]
           /\ isClosing' \subseteq Clients
           /\ writerMtx' \in [Clients -> {"free", "main", "event"}]
  <1> DEFINE b == writerBuffer[c]
  <1>1. /\ b.data \in Seq(Nat) /\ Len(b.data) \in Nat /\ b.readPos \in Nat
        /\ n <= Len(b.data) - b.readPos /\ n >= 0
    BY LenProperties DEF TypeOK, OutputOK, ByteArrays, SendBytes, readAvailable, size
  <1>2. Unread(b) \in Seq(Nat) /\ Len(Unread(b)) = Len(b.data) - b.readPos
    <2> HIDE DEF b
    <2>1. \A i \in b.readPos + 1 .. Len(b.data) : b.data[i] \in Nat
      BY <1>1
    <2>2. Unread(b) = SubSeq(b.data, b.readPos + 1, Len(b.data))
      BY DEF Unread, size
    <2>3. /\ Unread(b) \in Seq(Nat)
          /\ Len(Unread(b)) = IF b.readPos + 1 <= Len(b.data)
                              THEN Len(b.data) - (b.readPos + 1) + 1 ELSE 0
      BY <1>1, <2>1, <2>2, SubSeqProperties
    <2> QED BY <1>1, <2>3
  <1>3. SubSeq(Unread(b), 1, n) \in Seq(Nat)
    <2> HIDE DEF b
    <2> QED BY <1>1, <1>2, SubSeqProperties
  <1>4. wire' \in [Clients -> Seq(Nat)] /\ astray' \in [Clients -> Seq(Nat)]
    <2>1. PICK bytes \in Seq(Nat) : bytes = SubSeq(Unread(b), 1, n)
      BY <1>3
    <2>2. /\ wire \in [Clients -> Seq(Nat)] /\ astray \in [Clients -> Seq(Nat)]
          /\ \/ astray' = [astray EXCEPT ![c] = astray[c] \o bytes] /\ wire' = wire
             \/ wire' = [wire EXCEPT ![c] = wire[c] \o bytes] /\ astray' = astray
      BY <2>1 DEF TypeOK, OutputOK, SendBytes
    <2>3. wire[c] \o bytes \in Seq(Nat) /\ astray[c] \o bytes \in Seq(Nat)
      BY <2>2, ConcatProperties
    <2> QED BY <2>2, <2>3
  <1> QED BY <1>1, <1>3, <1>4
          DEF TypeOK, OutputOK, SharedOK, SendBytes, readAvailable, size

\* What the event thread leaves to the main thread, the application and the
\* environment, and the other way round.
LEMMA EventThreadFrame ==
    ASSUME EventThread
    PROVE  /\ UNCHANGED <<mainVars, load, seen, sent>>
           /\ UNCHANGED <<peerClosed, numClients, isRunning>>
  BY DEF EventThread, Wait, ListenEvent, Accept, AcceptFails, AcceptDone, AddClient,
         EpollAdd, ReadEvent, WriteEvent, HupEvent, Event, EventDone, BatchDone, Recv,
         RecvClosed, RecvNothing, SetNewData, EventSend, EventCut, SendBytes, CutHead,
         kernel, sockets, shared, flags, buffers, mainVars, histories

LEMMA MainThreadFrame ==
    ASSUME MainThread \/ UpdateBegin \/ Cleanup
    PROVE  UNCHANGED <<evVars, load, seen, sent, backlog, listenReady, peerClosed>>
  BY DEF MainThread, Adopt, NewData, NoNewData, AdoptDone, OnRecv, Flush, FlushCut,
         DestroyClient, KeepClient, UpdateEnd, CleanupJoined, UpdateBegin, Cleanup,
         CloseSockets, SendBytes, CutHead, kernel, sockets, shared, flags, buffers, histories

LEMMA OthersFrame ==
    ASSUME Environment \/ \E c \in Clients : Kick(c) \/ Send(c)
    PROVE  UNCHANGED <<evVars, mainVars, load, destroyed>>
  BY DEF Environment, Connect, Arrive, PeerCloses, Writable, Kick, Send, histories

\* The rest of the operations, for a part of the state none of them changes.
Elsewhere == \/ ListenEvent \/ AcceptFails \/ AcceptDone \/ EventDone \/ BatchDone
             \/ RecvNothing \/ AdoptDone \/ KeepClient \/ UpdateBegin \/ UNCHANGED vars

LEMMA NextKernelOK == TypeOK /\ Control /\ [Next]_vars => KernelOK'
  <1> SUFFICES ASSUME TypeOK, Control, [Next]_vars PROVE KernelOK'
    OBVIOUS
  <1> USE DEF TypeOK, Control, KernelOK, kernel, sockets
  <1>1. CASE Wait
    BY <1>1 DEF Wait
  <1>2. CASE Accept
    <2>1. PICK c \in Clients : \/ socket' = socket
                              \/ \E n \in FreeNumbers(c) : socket' = [socket EXCEPT ![c] = n]
      BY <1>2 DEF Accept
    <2>2. FreeNumbers(c) \subseteq Clients
      BY DEF FreeNumbers
    <2>3. socket' \in [Clients -> Clients]
      BY <2>1, <2>2
    <2> QED BY <1>2, <2>3 DEF Accept
  <1>3. CASE EpollAdd
    BY <1>3 DEF EpollAdd, Events
  <1>4. CASE DestroyClient \/ CleanupJoined
    BY <1>4 DEF DestroyClient, CleanupJoined, CloseSockets
  <1>5. ASSUME NEW c \in Clients, Connect(c) PROVE KernelOK'
    BY <1>5 DEF Connect
  <1>6. ASSUME NEW c \in Clients, NEW n \in Nat,
               Arrive(c, n) \/ PeerCloses(c) \/ Writable(c)
        PROVE  KernelOK'
    BY <1>6 DEF Arrive, PeerCloses, Writable, Edge, Events
  <1>7. ASSUME NEW c \in Clients,
               \/ Kick(c) \/ Send(c) \/ ReadEvent(c) \/ WriteEvent(c) \/ HupEvent(c)
               \/ Adopt(c) \/ NewData(c) \/ NoNewData(c)
        PROVE  KernelOK'
    BY <1>7 DEF Kick, Send, ReadEvent, WriteEvent, HupEvent, Adopt, NewData, NoNewData
  <1>8. CASE \/ Elsewhere \/ AddClient \/ Recv \/ RecvClosed \/ SetNewData \/ EventSend
             \/ EventCut \/ OnRecv \/ Flush \/ FlushCut \/ UpdateEnd \/ Cleanup
    BY <1>8
    DEF Elsewhere, ListenEvent, AcceptFails, AcceptDone, EventDone, BatchDone,
        RecvNothing, AdoptDone, KeepClient, UpdateBegin, vars, AddClient, Recv,
        RecvClosed, SetNewData, EventSend, EventCut, OnRecv, Flush, FlushCut, UpdateEnd,
        Cleanup, SendBytes, CutHead
  <1> QED BY <1>1, <1>2, <1>3, <1>4, <1>5, <1>6, <1>7, <1>8
          DEF Next, EventThread, MainThread, Environment, Terminated, Elsewhere

LEMMA NextInputOK == TypeOK /\ Control /\ [Next]_vars => InputOK'
  <1> SUFFICES ASSUME TypeOK, Control, [Next]_vars PROVE InputOK'
    OBVIOUS
  <1> USE ServerSocketAssumption DEF TypeOK, Control, InputOK, kernel, sockets, buffers, shared,
                                     histories
  <1>1. CASE Recv
    BY <1>1 DEF Recv
  <1>2. CASE OnRecv
    BY <1>2 DEF OnRecv
  <1>3. ASSUME NEW C, CloseSockets(C), UNCHANGED <<load, readerBuffer>>
        PROVE  InputOK'
    <2>1. \A c \in Clients : kin'[c] \in Nat /\ (kin'[c] = 0 \/ kin'[c] = kin[c])
      BY <1>3 DEF CloseSockets
    <2>2. kin' \in [Clients -> Nat]
      BY <1>3 DEF CloseSockets
    <2>3. ASSUME NEW c \in Clients PROVE kin'[c] + readerBuffer[c] <= load.in[c]
      <3>1. /\ kin[c] \in Nat /\ readerBuffer[c] \in Nat /\ load.in[c] \in Nat
            /\ kin[c] + readerBuffer[c] <= load.in[c]
        OBVIOUS
      <3>2. kin'[c] = 0 \/ kin'[c] = kin[c]
        BY <2>1
      <3> QED BY ONLY <3>1, <3>2, SMT
    <2> QED BY <1>3, <2>2, <2>3
  <1>4. ASSUME NEW c \in Clients, NEW n \in 1..load.in[c], Arrive(c, n)
        PROVE  InputOK'
    BY <1>4 DEF Arrive
  <1>5. ASSUME NEW c \in Clients,
               \/ Kick(c) \/ Send(c) \/ ReadEvent(c) \/ WriteEvent(c) \/ HupEvent(c)
               \/ Adopt(c) \/ NewData(c) \/ NoNewData(c) \/ Connect(c) \/ PeerCloses(c)
               \/ Writable(c)
        PROVE  InputOK'
    BY <1>5 DEF Kick, Send, ReadEvent, WriteEvent, HupEvent, Adopt, NewData, NoNewData,
                Connect, PeerCloses, Writable
  <1>6. CASE \/ Elsewhere \/ Wait \/ Accept \/ EpollAdd \/ AddClient \/ RecvClosed
             \/ SetNewData \/ EventSend \/ EventCut \/ Flush \/ FlushCut \/ UpdateEnd
             \/ Cleanup
    BY <1>6
    DEF Elsewhere, ListenEvent, AcceptFails, AcceptDone, EventDone, BatchDone,
        RecvNothing, AdoptDone, KeepClient, UpdateBegin, vars, Wait, Accept, EpollAdd,
        AddClient, RecvClosed, SetNewData, EventSend, EventCut, Flush, FlushCut,
        UpdateEnd, Cleanup, SendBytes, CutHead
  <1>7. CASE DestroyClient \/ CleanupJoined
    BY <1>3, <1>7 DEF DestroyClient, CleanupJoined
  <1> QED BY <1>1, <1>2, <1>4, <1>5, <1>6, <1>7
          DEF Next, EventThread, MainThread, Environment, Terminated, Elsewhere

LEMMA NextOutputOK == TypeOK /\ Control /\ [Next]_vars => OutputOK'
  <1> SUFFICES ASSUME TypeOK, Control, [Next]_vars PROVE OutputOK'
    OBVIOUS
  <1> USE ServerSocketAssumption DEF kernel, sockets, buffers, shared, histories
  <1>1. ASSUME NEW c \in Clients, NEW n \in Nat, NEW err \in BOOLEAN,
               NEW who \in {"main", "event"}, SendBytes(c, n, err, who)
        PROVE  OutputOK'
    BY <1>1, SendBytesType DEF SendBytes, TypeOK, OutputOK
  <1>2. ASSUME NEW c \in Clients, NEW n \in Nat, CutHead(c, n)
        PROVE  OutputOK'
    <2>1. CutSent(writerBuffer[c], n) \in ByteArrays(Nat)
      BY CutSentType DEF TypeOK, OutputOK
    <2> QED BY <1>2, <2>1 DEF CutHead, TypeOK, OutputOK
  <1>3. CASE EventSend
    <2>1. \A n \in 0..load.out[client] : n \in Nat
      OBVIOUS
    <2> QED BY <1>1, <1>3, <2>1 DEF EventSend, Control
  <1>4. CASE Flush
    <2>1. \A n \in 0..load.out[iter] : n \in Nat
      OBVIOUS
    <2> QED BY <1>1, <1>4, <2>1 DEF Flush, Control
  <1>5. CASE EventCut
    BY <1>2, <1>5 DEF EventCut, Control, TypeOK, EventThreadOK
  <1>6. CASE FlushCut
    BY <1>2, <1>6 DEF FlushCut, Control, TypeOK, MainThreadOK
  <1>7. ASSUME NEW c \in Clients, Send(c) PROVE OutputOK'
    <2>1. writeData(writerBuffer[c], <<sent[c] + 1>>) \in ByteArrays(Nat)
      <3>1. /\ writerBuffer[c] \in [data : Seq(Nat), readPos : Nat]
            /\ <<sent[c] + 1>> \in Seq(Nat)
        BY DEF TypeOK, OutputOK, ByteArrays
      <3>2. writerBuffer[c].data \o <<sent[c] + 1>> \in Seq(Nat)
        BY <3>1, ConcatProperties
      <3> QED BY <3>1, <3>2 DEF writeData, ByteArrays
    <2> QED BY <1>7, <2>1 DEF Send, TypeOK, OutputOK
  <1>8. ASSUME NEW c \in Clients,
               \/ Kick(c) \/ ReadEvent(c) \/ WriteEvent(c) \/ HupEvent(c)
               \/ Adopt(c) \/ NewData(c) \/ NoNewData(c) \/ Connect(c) \/ PeerCloses(c)
               \/ Writable(c) \/ \E n \in 1..load.in[c] : Arrive(c, n)
        PROVE  OutputOK'
    BY <1>8 DEF Kick, ReadEvent, WriteEvent, HupEvent, Adopt, NewData, NoNewData,
                Connect, PeerCloses, Writable, Arrive, TypeOK, OutputOK
  <1>9. CASE \/ Elsewhere \/ Wait \/ Accept \/ EpollAdd \/ AddClient \/ Recv \/ RecvClosed
             \/ SetNewData \/ OnRecv \/ UpdateEnd \/ Cleanup \/ DestroyClient
             \/ CleanupJoined
    BY <1>9
    DEF Elsewhere, ListenEvent, AcceptFails, AcceptDone, EventDone, BatchDone,
        RecvNothing, AdoptDone, KeepClient, UpdateBegin, vars, Wait, Accept, EpollAdd,
        AddClient, Recv, RecvClosed, SetNewData, OnRecv, UpdateEnd, Cleanup,
        DestroyClient, CleanupJoined, TypeOK, OutputOK
  <1>10. CASE EventThread
    BY <1>3, <1>5, <1>8, <1>9, <1>10 DEF EventThread, Elsewhere
  <1>11. CASE MainThread \/ UpdateBegin \/ Cleanup
    BY <1>4, <1>6, <1>8, <1>9, <1>11 DEF MainThread, Elsewhere
  <1>12. CASE Environment \/ \E c \in Clients : Kick(c) \/ Send(c)
    BY <1>7, <1>8, <1>12 DEF Environment
  <1>13. CASE UNCHANGED vars
    BY <1>9, <1>13 DEF Elsewhere
  <1> QED BY <1>10, <1>11, <1>12, <1>13 DEF Next, Terminated

LEMMA NextSharedOK == TypeOK /\ Control /\ [Next]_vars => SharedOK'
  <1> SUFFICES ASSUME TypeOK, Control, [Next]_vars PROVE SharedOK'
    OBVIOUS
  <1> USE DEF TypeOK, Control, SharedOK, shared, flags, buffers
  <1>1. CASE AddClient
    BY <1>1 DEF AddClient
  <1>2. CASE EventSend \/ Flush
    BY <1>2 DEF EventSend, Flush, SendBytes
  <1>3. CASE UpdateEnd
    <2>1. numClients' \in 0..IdSpace
      <3>1. {i \in Ids : allClients[i] # NoClient} \in SUBSET Ids
        OBVIOUS
      <3> QED BY <1>3, <3>1, IdsFinite, FS_Subset, FS_CardinalityType DEF UpdateEnd
    <2> QED BY <1>3, <2>1 DEF UpdateEnd
  <1>4. CASE CleanupJoined
    BY <1>4, ServerSocketAssumption DEF CleanupJoined, Adopted, MainThreadOK
  <1>5. CASE SetNewData \/ RecvClosed
    BY <1>5 DEF SetNewData, RecvClosed
  <1>6. ASSUME NEW c \in Clients,
               \/ HupEvent(c) \/ Adopt(c) \/ NewData(c) \/ NoNewData(c) \/ Kick(c)
        PROVE  SharedOK'
    BY <1>6 DEF HupEvent, Adopt, NewData, NoNewData, Kick
  <1>7. ASSUME NEW c \in Clients, NEW n \in Nat,
               \/ Send(c) \/ ReadEvent(c) \/ WriteEvent(c) \/ Connect(c)
               \/ PeerCloses(c) \/ Writable(c) \/ Arrive(c, n)
        PROVE  SharedOK'
    BY <1>7 DEF Send, ReadEvent, WriteEvent, Connect, PeerCloses, Writable, Arrive
  <1>8. CASE \/ Elsewhere \/ Wait \/ Accept \/ EpollAdd \/ Recv \/ EventCut \/ OnRecv
             \/ FlushCut \/ Cleanup \/ DestroyClient
    BY <1>8
    DEF Elsewhere, ListenEvent, AcceptFails, AcceptDone, EventDone, BatchDone,
        RecvNothing, AdoptDone, KeepClient, UpdateBegin, vars, Wait, Accept, EpollAdd,
        Recv, EventCut, OnRecv, FlushCut, Cleanup, DestroyClient, CutHead
  <1> QED BY <1>1, <1>2, <1>3, <1>4, <1>5, <1>6, <1>7, <1>8
          DEF Next, EventThread, MainThread, Environment, Terminated, Elsewhere

LEMMA NextEventThreadOK ==
    TypeOK /\ Control /\ [Next]_vars => EventThreadOK'
  <1> SUFFICES ASSUME TypeOK, Control, [Next]_vars PROVE EventThreadOK'
    OBVIOUS
  <1> USE DEF TypeOK, Control, EventThreadOK, evVars
  <1>1. CASE UNCHANGED evVars
    BY <1>1
  <1>2. CASE Wait
    BY <1>2 DEF Wait, KernelOK
  <1>3. CASE \/ ListenEvent \/ AcceptFails \/ AcceptDone \/ EventDone \/ BatchDone
             \/ AddClient \/ EpollAdd
    BY <1>3 DEF ListenEvent, AcceptFails, AcceptDone, EventDone, BatchDone,
                AddClient, EpollAdd
  <1>4. CASE Accept
    BY <1>4 DEF Accept, KernelOK
  <1>5. ASSUME NEW c \in Clients, ReadEvent(c) \/ WriteEvent(c) \/ HupEvent(c)
        PROVE  EventThreadOK'
    BY <1>5 DEF ReadEvent, WriteEvent, HupEvent, Event
  <1>6. CASE Recv \/ RecvClosed \/ RecvNothing \/ SetNewData
    BY <1>6 DEF Recv, RecvClosed, RecvNothing, SetNewData
  <1>7. CASE EventSend
    BY <1>7 DEF EventSend
  <1>8. CASE EventCut
    BY <1>8 DEF EventCut
  <1> QED BY <1>1, <1>2, <1>3, <1>4, <1>5, <1>6, <1>7, <1>8, MainThreadFrame, OthersFrame
          DEF Next, EventThread, Terminated, vars

LEMMA NextMainThreadOK == TypeOK /\ Control /\ [Next]_vars => MainThreadOK'
  <1> SUFFICES ASSUME TypeOK, Control, [Next]_vars PROVE MainThreadOK'
    OBVIOUS
  <1> USE DEF TypeOK, Control, MainThreadOK, mainVars
  <1>1. CASE UNCHANGED mainVars
    BY <1>1
  <1>2. ASSUME NEW c \in Clients, Adopt(c) PROVE MainThreadOK'
    <2>1. nextID' \in Ids
      BY <1>2, NextClientIDFree DEF Adopt
    <2> QED BY <1>2, <2>1 DEF Adopt
  <1>3. ASSUME NEW c \in Clients, NewData(c) \/ NoNewData(c) PROVE MainThreadOK'
    BY <1>3 DEF NewData, NoNewData
  <1>4. CASE AdoptDone
    BY <1>4 DEF AdoptDone, Adopted
  <1>5. CASE OnRecv \/ FlushCut \/ KeepClient \/ UpdateEnd \/ UpdateBegin \/ Cleanup
    BY <1>5 DEF OnRecv, FlushCut, KeepClient, UpdateEnd, UpdateBegin, Cleanup
  <1>6. CASE Flush
    BY <1>6 DEF Flush
  <1>7. CASE DestroyClient \/ CleanupJoined
    <2>1. allClients' \in [Ids -> Clients \cup {NoClient}]
      BY <1>7 DEF DestroyClient, CleanupJoined, CloseSockets
    <2> QED BY <1>7, <2>1 DEF DestroyClient, CleanupJoined
  <1> QED BY <1>1, <1>2, <1>3, <1>4, <1>5, <1>6, <1>7, EventThreadFrame, OthersFrame
          DEF Next, MainThread, Terminated, vars

LEMMA NextControl == TypeOK /\ Control /\ [Next]_vars => Control'
  <1> SUFFICES ASSUME TypeOK, Control, [Next]_vars PROVE Control'
    OBVIOUS
  <1> USE ServerSocketAssumption DEF TypeOK, Control, EventThreadOK, MainThreadOK
  <1>1. CASE UNCHANGED <<evVars, mainPc, iter>>
    BY <1>1 DEF evVars
  <1>2. CASE EventThread
    <2>1. UNCHANGED <<mainPc, iter>>
      BY <1>2, EventThreadFrame DEF mainVars
    <2>2. CASE \/ Wait \/ ListenEvent \/ AcceptFails \/ AcceptDone \/ EventDone
               \/ BatchDone \/ AddClient \/ EpollAdd
      BY <2>1, <2>2 DEF Wait, ListenEvent, AcceptFails, AcceptDone, EventDone, BatchDone,
                        AddClient, EpollAdd
    <2>3. CASE Accept
      BY <2>1, <2>3 DEF Accept, KernelOK
    <2>4. ASSUME NEW c \in Clients, ReadEvent(c) \/ WriteEvent(c) \/ HupEvent(c)
          PROVE  Control'
      BY <2>1, <2>4 DEF ReadEvent, WriteEvent, HupEvent, Event
    <2>5. CASE Recv \/ RecvClosed \/ RecvNothing \/ SetNewData \/ EventSend \/ EventCut
      BY <2>1, <2>5 DEF Recv, RecvClosed, RecvNothing, SetNewData, EventSend, EventCut
    <2> QED BY <1>2, <2>2, <2>3, <2>4, <2>5 DEF EventThread
  <1>3. CASE MainThread \/ UpdateBegin \/ Cleanup
    <2>1. UNCHANGED evVars
      BY <1>3, MainThreadFrame
    <2>2. ASSUME NEW c \in Clients, Adopt(c) \/ NewData(c) \/ NoNewData(c)
          PROVE  Control'
      BY <2>1, <2>2 DEF Adopt, NewData, NoNewData, evVars
    <2>3. CASE \/ AdoptDone \/ OnRecv \/ Flush \/ FlushCut \/ DestroyClient \/ KeepClient
               \/ UpdateEnd \/ CleanupJoined \/ UpdateBegin \/ Cleanup
      BY <2>1, <2>3 DEF AdoptDone, OnRecv, Flush, FlushCut, DestroyClient, KeepClient,
                        UpdateEnd, CleanupJoined, UpdateBegin, Cleanup, evVars
    <2> QED BY <1>3, <2>2, <2>3 DEF MainThread
  <1> QED BY <1>1, <1>2, <1>3, OthersFrame DEF Next, Terminated, vars, mainVars

LEMMA NextTypeOK == TypeOK /\ Control /\ [Next]_vars => TypeOK' /\ Control'
  <1> SUFFICES ASSUME TypeOK, Control, [Next]_vars PROVE TypeOK' /\ Control'
    OBVIOUS
  <1>1. load' \in Loads /\ seen' \subseteq Clients /\ destroyed' \subseteq Clients
    <2> USE DEF TypeOK, histories
    <2>1. CASE EventThread
      <3>1. UNCHANGED <<load, seen>>
        BY <2>1, EventThreadFrame
      <3>2. CASE Accept
        BY <3>1, <3>2 DEF Accept, KernelOK
      <3>3. CASE UNCHANGED destroyed
        BY <3>1, <3>3
      <3> QED BY <2>1, <3>2, <3>3
          DEF EventThread, Wait, ListenEvent, AcceptFails, AcceptDone, AddClient, EpollAdd,
              ReadEvent, WriteEvent, HupEvent, EventDone, BatchDone, Recv, RecvClosed,
              RecvNothing, SetNewData, EventSend, EventCut, SendBytes, CutHead
    <2>2. CASE MainThread \/ UpdateBegin \/ Cleanup
      <3>1. UNCHANGED <<load, seen>>
        BY <2>2, MainThreadFrame
      <3>2. CASE DestroyClient \/ CleanupJoined
        BY <3>1, <3>2 DEF DestroyClient, CleanupJoined, CloseSockets, Control, Adopted,
                          MainThreadOK
      <3>3. CASE UNCHANGED destroyed
        BY <3>1, <3>3
      <3> QED BY <2>2, <3>2, <3>3
          DEF MainThread, Adopt, NewData, NoNewData, AdoptDone, OnRecv, Flush, FlushCut,
              KeepClient, UpdateEnd, UpdateBegin, Cleanup, SendBytes, CutHead
    <2>3. CASE Environment \/ \E c \in Clients : Kick(c) \/ Send(c)
      BY <2>3 DEF Environment, Connect, Arrive, PeerCloses, Writable, Kick, Send
    <2>4. CASE UNCHANGED vars
      BY <2>4 DEF vars
    <2> QED BY <2>1, <2>2, <2>3, <2>4 DEF Next, Terminated
  <1> QED BY <1>1, NextKernelOK, NextInputOK, NextOutputOK, NextSharedOK,
             NextEventThreadOK, NextMainThreadOK, NextControl DEF TypeOK

\* The variables have their types: no id is out of range, the counts of bytes
\* are never negative and numClients never exceeds the number of ids.
THEOREM TypeCorrect == Spec => []TypeOK
  BY InitTypeOK, NextTypeOK, PTL DEF Spec

-----------------------------------------------------------------------------
(* Input                                                                   *)

\* DataAnnounced, more precisely: a thread in readIntoBuffer is about to set
\* the flag only once its first recv has succeeded.
Announced ==
    \A c \in Clients :
        readerBuffer[c] > 0 =>
            \/ c \in hasNewData
            \/ client = c /\ (eventPc = "setnew" \/ (eventPc = "read" /\ again))
            \/ iter = c /\ mainPc = "recv"

LEMMA InitInput == Init => Announced /\ NoLostEdge /\ NoLostConnection
  <1> SUFFICES ASSUME Init PROVE Announced /\ NoLostEdge /\ NoLostConnection
    OBVIOUS
  <1>1. inEpoll \subseteq Clients
    BY InitTypeOK DEF TypeOK, KernelOK
  <1>2. kin = [c \in Clients |-> 0] /\ readerBuffer = [c \in Clients |-> 0] /\ backlog = {}
    BY DEF Init
  <1> QED BY <1>1, <1>2 DEF Announced, NoLostEdge, NoLostConnection

LEMMA NextAnnounced == TypeOK /\ Control /\ Announced /\ [Next]_vars => Announced'
  <1> SUFFICES ASSUME TypeOK, Control, Announced, [Next]_vars PROVE Announced'
    OBVIOUS
  <1> USE DEF Announced
  <1>1. CASE EventThread
    <2>1. UNCHANGED <<iter, mainPc>>
      BY <1>1, EventThreadFrame DEF mainVars
    <2>2. CASE Recv
      BY <2>1, <2>2 DEF Recv, flags, TypeOK, InputOK
    <2>3. CASE SetNewData
      BY <2>1, <2>3 DEF SetNewData, buffers
    <2>4. CASE RecvClosed \/ RecvNothing
      BY <2>1, <2>4 DEF RecvClosed, RecvNothing, shared, buffers, flags
    <2>5. CASE \/ Wait \/ ListenEvent \/ Accept \/ AcceptFails \/ AcceptDone \/ AddClient
               \/ EpollAdd \/ EventDone \/ BatchDone
      BY <2>1, <2>5 DEF Wait, ListenEvent, Accept, AcceptFails, AcceptDone, AddClient,
                        EpollAdd, EventDone, BatchDone, shared, buffers, flags
    <2>6. ASSUME NEW c \in Clients, ReadEvent(c) \/ WriteEvent(c) \/ HupEvent(c)
          PROVE  Announced'
      BY <2>1, <2>6 DEF ReadEvent, WriteEvent, HupEvent, Event, shared, buffers, flags
    <2>7. CASE EventSend \/ EventCut
      BY <2>1, <2>7 DEF EventSend, EventCut, SendBytes, CutHead, flags
    <2> QED BY <1>1, <2>2, <2>3, <2>4, <2>5, <2>6, <2>7 DEF EventThread
  <1>2. CASE MainThread \/ UpdateBegin \/ Cleanup
    <2>1. UNCHANGED <<client, eventPc, again>>
      BY <1>2, MainThreadFrame DEF evVars
    <2>2. ASSUME NEW c \in Clients, NewData(c) PROVE Announced'
      BY <2>1, <2>2 DEF NewData, buffers
    <2>3. CASE OnRecv
      BY <2>1, <2>3 DEF OnRecv, flags, TypeOK, InputOK
    <2>4. ASSUME NEW c \in Clients, Adopt(c) \/ NoNewData(c) PROVE Announced'
      BY <2>1, <2>4 DEF Adopt, NoNewData, flags, buffers
    <2>5. CASE Flush \/ FlushCut
      BY <2>1, <2>5 DEF Flush, FlushCut, SendBytes, CutHead, flags
    <2>6. CASE \/ AdoptDone \/ DestroyClient \/ KeepClient \/ UpdateEnd \/ CleanupJoined
               \/ UpdateBegin \/ Cleanup
      BY <2>1, <2>6 DEF AdoptDone, DestroyClient, KeepClient, UpdateEnd, CleanupJoined,
                        UpdateBegin, Cleanup, shared, flags, buffers
    <2> QED BY <1>2, <2>2, <2>3, <2>4, <2>5, <2>6 DEF MainThread
  <1>3. CASE Environment \/ \E c \in Clients : Kick(c) \/ Send(c)
    <2>1. UNCHANGED <<evVars, mainVars>>
      BY <1>3, OthersFrame
    <2>2. UNCHANGED <<hasNewData, readerBuffer>>
      BY <1>3 DEF Environment, Connect, Arrive, PeerCloses, Writable, Kick, Send, shared,
                  flags, buffers
    <2> QED BY <2>1, <2>2 DEF evVars, mainVars
  <1>4. CASE UNCHANGED vars
    BY <1>4 DEF vars, shared, flags, buffers, evVars, mainVars
  <1> QED BY <1>1, <1>2, <1>3, <1>4 DEF Next, Terminated

\* A byte arrives with its edge, an edge becomes an event, and the event of a
\* client that is not closing starts a readIntoBuffer, which ends it only when
\* the receive buffer is empty.
LEMMA NextNoLostEdge ==
    TypeOK /\ Control /\ NoLostEdge /\ [Next]_vars => NoLostEdge'
  <1> SUFFICES ASSUME TypeOK, Control, NoLostEdge, [Next]_vars PROVE NoLostEdge'
    OBVIOUS
  <1> USE DEF NoLostEdge
  <1>1. CASE EventThread
    <2>1. CASE Wait
      BY <2>1 DEF Wait, Control, shared, flags, TypeOK, KernelOK
    <2>2. CASE EpollAdd
      BY <2>2 DEF EpollAdd, shared, flags, TypeOK, KernelOK, InputOK, Control
    <2>3. ASSUME NEW c \in Clients, ReadEvent(c) \/ WriteEvent(c) \/ HupEvent(c)
          PROVE  NoLostEdge'
      <3> USE DEF Event, TypeOK, KernelOK, EventThreadOK
      <3>1. CASE ReadEvent(c)
        <4>1. client' = c /\ (c \in isClosing \/ eventPc' = "read")
          BY <3>1 DEF ReadEvent
        <4>2. \A d \in Clients \ {c} : events'[d] = events[d]
          BY <3>1 DEF ReadEvent
        <4> QED BY <3>1, <4>1, <4>2 DEF ReadEvent, kernel, sockets, shared, flags
      <3>2. CASE WriteEvent(c) \/ HupEvent(c)
        <4>1. \A d \in Clients : "in" \in events[d] => "in" \in events'[d]
          BY <3>2 DEF WriteEvent, HupEvent
        <4>2. eventPc = "events" /\ UNCHANGED <<kin, ready, inEpoll>>
              /\ isClosing \subseteq isClosing'
          BY <3>2 DEF WriteEvent, HupEvent, kernel, sockets, shared, flags
        <4> QED BY <4>1, <4>2
      <3> QED BY <2>3, <3>1, <3>2
    <2>4. CASE Recv
      <3>1. CASE kin[client] < Chunk
        <4>1. kin'[client] = 0 /\ \A c \in Clients \ {client} : kin'[c] = kin[c]
          BY <2>4, <3>1 DEF Recv, TypeOK, InputOK, Control
        <4> QED BY <2>4, <4>1 DEF Recv, flags, TypeOK, KernelOK
      <3>2. CASE ~(kin[client] < Chunk)
        BY <2>4, <3>2 DEF Recv, More, flags, TypeOK, InputOK
      <3> QED BY <3>1, <3>2
    <2>5. CASE RecvClosed \/ RecvNothing
      BY <2>5 DEF RecvClosed, RecvNothing, kernel, sockets, shared, flags, TypeOK, InputOK
    <2>6. CASE EventSend
      BY <2>6 DEF EventSend, SendBytes
    <2>7. CASE EventCut
      BY <2>7 DEF EventCut, CutHead, kernel, sockets, flags
    <2>8. CASE \/ ListenEvent \/ Accept \/ AcceptFails \/ AcceptDone \/ AddClient
               \/ EventDone \/ BatchDone \/ SetNewData
      BY <2>8 DEF ListenEvent, Accept, AcceptFails, AcceptDone, AddClient, EventDone,
                  BatchDone, SetNewData, kernel, sockets, shared, flags
    <2> QED BY <1>1, <2>1, <2>2, <2>3, <2>4, <2>5, <2>6, <2>7, <2>8 DEF EventThread
  <1>2. CASE MainThread \/ UpdateBegin \/ Cleanup
    <2>1. UNCHANGED <<events, client, eventPc>>
      BY <1>2, MainThreadFrame DEF evVars
    <2>2. CASE DestroyClient
      BY <2>1, <2>2 DEF DestroyClient, CloseSockets, shared, flags, TypeOK, KernelOK
    <2>3. CASE CleanupJoined
      BY <2>1, <2>3 DEF CleanupJoined, CloseSockets, TypeOK, KernelOK
    <2>4. ASSUME NEW c \in Clients, Adopt(c) \/ NewData(c) \/ NoNewData(c)
          PROVE  NoLostEdge'
      BY <2>1, <2>4 DEF Adopt, NewData, NoNewData, kernel, sockets, flags
    <2>5. CASE Flush
      BY <2>1, <2>5 DEF Flush, SendBytes
    <2>6. CASE \/ AdoptDone \/ OnRecv \/ FlushCut \/ KeepClient \/ UpdateEnd
               \/ UpdateBegin \/ Cleanup
      BY <2>1, <2>6 DEF AdoptDone, OnRecv, FlushCut, KeepClient, UpdateEnd, UpdateBegin,
                        Cleanup, CutHead, kernel, sockets, shared, flags
    <2> QED BY <1>2, <2>2, <2>3, <2>4, <2>5, <2>6 DEF MainThread
  <1>3. CASE Environment \/ \E c \in Clients : Kick(c) \/ Send(c)
    <2>1. UNCHANGED <<events, client, eventPc>>
      BY <1>3, OthersFrame DEF evVars
    <2>2. ASSUME NEW c \in Clients, NEW n \in 1..load.in[c], Arrive(c, n)
          PROVE  NoLostEdge'
      BY <2>1, <2>2 DEF Arrive, Edge, shared, flags, TypeOK, KernelOK, InputOK
    <2>3. ASSUME NEW c \in Clients, PeerCloses(c) \/ Writable(c)
          PROVE  NoLostEdge'
      BY <2>1, <2>3 DEF PeerCloses, Writable, Edge, shared, flags, TypeOK, KernelOK
    <2>4. ASSUME NEW c \in Clients, Connect(c) \/ Kick(c) \/ Send(c)
          PROVE  NoLostEdge'
      BY <2>1, <2>4 DEF Connect, Kick, Send, kernel, sockets, shared, flags
    <2> QED BY <1>3, <2>2, <2>3, <2>4 DEF Environment
  <1>4. CASE UNCHANGED vars
    BY <1>4 DEF vars, kernel, sockets, shared, flags, evVars
  <1> QED BY <1>1, <1>2, <1>3, <1>4 DEF Next, Terminated

LEMMA NextNoLostConnection ==
    TypeOK /\ Control /\ NoLostConnection /\ [Next]_vars => NoLostConnection'
  <1> SUFFICES ASSUME TypeOK, Control, NoLostConnection, [Next]_vars
               PROVE  NoLostConnection'
    OBVIOUS
  <1> USE DEF NoLostConnection
  <1>1. CASE EventThread
    <2>1. load' = load
      BY <1>1, EventThreadFrame
    <2>2. CASE \/ Wait \/ ListenEvent \/ Accept \/ AcceptFails \/ AcceptDone \/ AddClient
               \/ EpollAdd \/ EventDone \/ BatchDone
      BY <2>1, <2>2 DEF Wait, ListenEvent, Accept, AcceptFails, AcceptDone, AddClient,
                        EpollAdd, EventDone, BatchDone, Control, kernel, sockets
    <2>3. ASSUME NEW c \in Clients, ReadEvent(c) \/ WriteEvent(c) \/ HupEvent(c)
          PROVE  NoLostConnection'
      BY <2>1, <2>3 DEF ReadEvent, WriteEvent, HupEvent, Event, kernel, sockets
    <2>4. CASE Recv \/ RecvClosed \/ RecvNothing \/ SetNewData \/ EventSend \/ EventCut
      BY <2>1, <2>4 DEF Recv, RecvClosed, RecvNothing, SetNewData, EventSend, EventCut,
                        SendBytes, CutHead, kernel, sockets
    <2> QED BY <1>1, <2>2, <2>3, <2>4 DEF EventThread
  <1>2. CASE MainThread \/ UpdateBegin \/ Cleanup
    BY <1>2, MainThreadFrame DEF evVars
  <1>3. CASE Environment \/ \E c \in Clients : Kick(c) \/ Send(c)
    BY <1>3, OthersFrame
    DEF Environment, Connect, Arrive, PeerCloses, Writable, Kick, Send, kernel, sockets, evVars
  <1>4. CASE UNCHANGED vars
    BY <1>4 DEF vars, kernel, sockets, evVars, histories
  <1> QED BY <1>1, <1>2, <1>3, <1>4 DEF Next, Terminated

\* However the event thread's edge-triggered loop, update() and the peers
\* interleave, no byte and no connection waits where nobody will look for it.
THEOREM NothingStranded == Spec => []InputNotStranded
  <1>1. Announced => DataAnnounced
    BY DEF Announced, DataAnnounced
  <1>2. Announced /\ NoLostEdge /\ NoLostConnection => InputNotStranded
    BY <1>1 DEF InputNotStranded
  <1>3. TypeOK /\ Control /\ Announced /\ NoLostEdge /\ NoLostConnection /\ [Next]_vars
          => (TypeOK /\ Control /\ Announced /\ NoLostEdge /\ NoLostConnection)'
    BY NextTypeOK, NextAnnounced, NextNoLostEdge, NextNoLostConnection
  <1> QED BY <1>2, <1>3, InitTypeOK, InitInput, PTL DEF Spec

-----------------------------------------------------------------------------
(* Output                                                                  *)

\* The bytes at the head of c's buffer that the thread which holds the mutex
\* has sent and not cut off yet.
InHand(c) == CASE writerMtx[c] = "event" -> length
               [] writerMtx[c] = "main"  -> sentLength
               [] OTHER                  -> 0

\* A thread holds a client's writerMtx between its send and its cutHead only.
OneWriter ==
    \A c \in Clients :
        /\ writerMtx[c] = "event" <=> eventPc = "cut" /\ client = c
        /\ writerMtx[c] = "main" <=> mainPc = "cut" /\ iter = c

\* The bytes that have left c's buffer for a socket, its own or, once c is
\* destroyed, another's; until then there are none of these.
Out(c) == wire[c] \o astray[c]
Strays == \A c \in Clients : astray[c] # <<>> => c \in destroyed

\* The bytes are numbered in the order of Send.  A first part of them has left,
\* and the buffer starts with what the holder of the mutex has in hand and ends
\* with the last one.
Numbered ==
    \A c \in Clients :
        LET data == writerBuffer[c].data
        IN  /\ writerBuffer[c].readPos = 0
            /\ InHand(c) <= Len(data) /\ InHand(c) <= Len(Out(c))
            /\ Len(Out(c)) - InHand(c) + Len(data) = sent[c]
            /\ \A i \in 1..Len(Out(c)) : Out(c)[i] = i
            /\ \A i \in 1..Len(data) : data[i] = Len(Out(c)) - InHand(c) + i

LEMMA InitOutput == Init => OneWriter /\ Strays /\ Numbered
  <1> SUFFICES ASSUME Init, NEW c \in Clients
               PROVE  /\ writerMtx[c] = "free" /\ sent[c] = 0
                      /\ Out(c) = <<>> /\ astray[c] = <<>>
                      /\ writerBuffer[c].data = <<>> /\ writerBuffer[c].readPos = 0
                      /\ eventPc # "cut" /\ mainPc # "cut"
    BY DEF OneWriter, Strays, Numbered, InHand
  <1> QED BY DEF Init, NewByteArray, Out

\* What the proofs below need of the types.
LEMMA OutputTypes ==
    ASSUME TypeOK, NEW c \in Clients
    PROVE  /\ wire[c] \in Seq(Nat) /\ astray[c] \in Seq(Nat)
           /\ Out(c) \in Seq(Nat) /\ Len(Out(c)) \in Nat
           /\ writerBuffer[c].data \in Seq(Nat) /\ Len(writerBuffer[c].data) \in Nat
           /\ writerBuffer[c] \in ByteArrays(Nat)
           /\ InHand(c) \in Nat /\ sent[c] \in Nat
           /\ writerMtx[c] \in {"free", "main", "event"}
  <1>1. /\ wire[c] \in Seq(Nat) /\ astray[c] \in Seq(Nat) /\ sent[c] \in Nat
        /\ writerBuffer[c] \in ByteArrays(Nat)
        /\ writerMtx[c] \in {"free", "main", "event"}
    BY DEF TypeOK, OutputOK
  <1>2. InHand(c) \in Nat
    BY <1>1 DEF InHand, TypeOK, EventThreadOK, MainThreadOK
  <1>3. writerBuffer[c].data \in Seq(Nat)
    BY <1>1 DEF ByteArrays
  <1>4. Out(c) \in Seq(Nat)
    BY <1>1, ConcatProperties DEF Out
  <1> QED BY <1>1, <1>2, <1>3, <1>4, LenProperties

\* Whether it goes on the wire or astray, what is sent follows what has left.
LEMMA SendOut ==
    ASSUME TypeOK, Strays, NEW c \in Clients, NEW n \in Nat, NEW err \in BOOLEAN,
           NEW who \in {"main", "event"}, SendBytes(c, n, err, who)
    PROVE  /\ Out(c)' = Out(c) \o SubSeq(Unread(writerBuffer[c]), 1, n)
           /\ \A d \in Clients \ {c} : Out(d)' = Out(d)
           /\ Strays'
  <1>1. PICK bytes \in Seq(Nat) : bytes = SubSeq(Unread(writerBuffer[c]), 1, n)
    BY SendBytesType
  <1>2. /\ wire[c] \in Seq(Nat) /\ astray[c] \in Seq(Nat) /\ destroyed' = destroyed
        /\ wire \in [Clients -> Seq(Nat)] /\ astray \in [Clients -> Seq(Nat)]
    BY DEF TypeOK, OutputOK, SendBytes, histories
  <1>3. CASE c \in destroyed
    <2>1. astray' = [astray EXCEPT ![c] = astray[c] \o bytes] /\ wire' = wire
      BY <1>1, <1>3 DEF SendBytes
    <2>2. wire[c] \o (astray[c] \o bytes) = (wire[c] \o astray[c]) \o bytes
      <3>1. PICK w \in Seq(Nat), a \in Seq(Nat) : w = wire[c] /\ a = astray[c]
        BY <1>2
      <3>2. Joins(w, a, bytes)
        BY Associative
      <3> QED BY <3>1, <3>2 DEF Joins
    <2>3. /\ astray'[c] = astray[c] \o bytes /\ wire'[c] = wire[c]
          /\ \A d \in Clients \ {c} : astray'[d] = astray[d] /\ wire'[d] = wire[d]
      BY <1>2, <2>1
    <2> QED BY <1>1, <1>2, <1>3, <2>2, <2>3 DEF Out, Strays
  <1>4. CASE c \notin destroyed
    <2>1. wire' = [wire EXCEPT ![c] = wire[c] \o bytes] /\ astray' = astray
      BY <1>1, <1>4 DEF SendBytes
    <2>2. astray[c] = <<>>
      BY <1>4 DEF Strays
    <2>3. wire[c] \o bytes \in Seq(Nat) /\ wire[c] \o <<>> = wire[c]
          /\ (wire[c] \o bytes) \o <<>> = wire[c] \o bytes
      BY <1>2, ConcatProperties, ConcatEmptySeq
    <2>4. /\ astray'[c] = <<>> /\ wire'[c] = wire[c] \o bytes
          /\ \A d \in Clients \ {c} : astray'[d] = astray[d] /\ wire'[d] = wire[d]
      BY <1>2, <2>1, <2>2
    <2> QED BY <1>1, <1>2, <2>1, <2>2, <2>3, <2>4 DEF Out, Strays
  <1> QED BY <1>3, <1>4

\* A send takes the next bytes of the buffer, in their order.
LEMMA SendNumbers ==
    ASSUME TypeOK, Strays, Numbered, NEW c \in Clients, NEW n \in Nat, NEW err \in BOOLEAN,
           NEW who \in {"main", "event"}, SendBytes(c, n, err, who)
    PROVE  /\ writerMtx[c] = "free" /\ n <= Len(writerBuffer[c].data)
           /\ Len(Out(c)') = Len(Out(c)) + n
           /\ \A i \in 1..Len(Out(c)') : Out(c)'[i] = i
           /\ \A d \in Clients \ {c} : Out(d)' = Out(d) /\ writerMtx'[d] = writerMtx[d]
           /\ writerMtx'[c] = who /\ UNCHANGED <<writerBuffer, sent>> /\ Strays'
  <1>1. /\ writerMtx[c] = "free" /\ UNCHANGED <<writerBuffer, sent>>
        /\ writerMtx' = [writerMtx EXCEPT ![c] = who]
        /\ Out(c)' = Out(c) \o SubSeq(Unread(writerBuffer[c]), 1, n)
        /\ \A d \in Clients \ {c} : Out(d)' = Out(d)
        /\ Strays'
    BY SendOut DEF SendBytes, Locked, histories
  <1>2. InHand(c) = 0
    BY <1>1 DEF InHand
  <1>3. PICK data \in Seq(Nat) : data = writerBuffer[c].data
    BY OutputTypes
  <1>4. PICK w \in Seq(Nat) : w = Out(c)
    BY OutputTypes
  <1>5. /\ n <= Len(data) /\ Len(data) \in Nat /\ Len(w) \in Nat
        /\ Unread(writerBuffer[c]) = SubSeq(data, 1, Len(data))
        /\ \A i \in 1..Len(data) : data[i] = Len(w) + i
        /\ \A i \in 1..Len(w) : w[i] = i
    <2>1. /\ writerBuffer[c].readPos = 0 /\ Len(data) \in Nat /\ Len(w) \in Nat
          /\ \A i \in 1..Len(data) : data[i] = Len(w) - 0 + i
          /\ \A i \in 1..Len(w) : w[i] = i
      BY <1>2, <1>3, <1>4, LenProperties DEF Numbered
    <2>2. n <= Len(data) - 0
      BY <1>3, <2>1, SendBytesType DEF readAvailable, size
    <2>3. Unread(writerBuffer[c]) = SubSeq(data, 1, Len(data))
      BY <1>3, <2>1 DEF Unread, size
    <2>4. Len(data) - 0 = Len(data) /\ Len(w) - 0 = Len(w)
      BY <2>1
    <2> QED BY <2>1, <2>2, <2>3, <2>4
  <1>6. SubSeq(data, 1, Len(data)) = data
    BY SubSeqFull
  <1>7. /\ SubSeq(data, 1, n) \in Seq(Nat) /\ Len(SubSeq(data, 1, n)) = n
        /\ \A i \in 1..n : SubSeq(data, 1, n)[i] = data[i]
    BY <1>5, TakeFirst
  <1>8. Out(c)' = w \o SubSeq(data, 1, n)
    BY <1>1, <1>4, <1>5, <1>6 DEF TypeOK, OutputOK
  <1>9. /\ Len(Out(c)') = Len(w) + n
        /\ \A i \in 1..(Len(w) + n) :
             Out(c)'[i] = IF i <= Len(w) THEN w[i] ELSE SubSeq(data, 1, n)[i - Len(w)]
    BY <1>7, <1>8, ConcatProperties
  <1>10. ASSUME NEW i \in 1..Len(Out(c)') PROVE Out(c)'[i] = i
    <2>1. CASE i <= Len(w)
      BY <1>5, <1>9, <2>1
    <2>2. CASE ~(i <= Len(w))
      <3>1. i - Len(w) \in 1..n /\ i - Len(w) \in 1..Len(data)
        BY <1>5, <1>9, <2>2
      <3>2. Out(c)'[i] = SubSeq(data, 1, n)[i - Len(w)]
        BY <1>9, <2>2
      <3>3. SubSeq(data, 1, n)[i - Len(w)] = data[i - Len(w)]
        BY <1>7, <3>1
      <3>4. data[i - Len(w)] = Len(w) + (i - Len(w))
        BY <1>5, <3>1
      <3>5. Len(w) + (i - Len(w)) = i
        BY <1>5, <1>9
      <3> QED BY <3>2, <3>3, <3>4, <3>5
    <2> QED BY <2>1, <2>2
  <1> QED BY <1>1, <1>3, <1>4, <1>5, <1>9, <1>10 DEF TypeOK, OutputOK

\* A cutHead takes off the head of the buffer what is in hand, no more.
LEMMA CutNumbers ==
    ASSUME TypeOK, Numbered, NEW c \in Clients, NEW n \in Nat, n = InHand(c), CutHead(c, n)
    PROVE  /\ writerBuffer'[c].readPos = 0
           /\ Len(writerBuffer'[c].data) = Len(writerBuffer[c].data) - n
           /\ \A i \in 1..Len(writerBuffer'[c].data) :
                 writerBuffer'[c].data[i] = Len(Out(c)) + i
           /\ writerMtx'[c] = "free" /\ UNCHANGED <<wire, astray, destroyed, sent>>
           /\ \A d \in Clients \ {c} : /\ writerBuffer'[d] = writerBuffer[d]
                                       /\ writerMtx'[d] = writerMtx[d]
  <1>1. PICK data \in Seq(Nat) : data = writerBuffer[c].data
    BY OutputTypes
  <1>2. /\ writerBuffer[c].readPos = 0 /\ n <= Len(data)
        /\ \A i \in 1..Len(data) : data[i] = Len(Out(c)) - n + i
        /\ writerBuffer[c] \in ByteArrays(Nat)
        /\ Len(data) \in Nat /\ Len(Out(c)) \in Nat
    BY <1>1, OutputTypes DEF Numbered
  <1>3. /\ writerBuffer'[c] = CutSent(writerBuffer[c], n)
        /\ writerMtx'[c] = "free" /\ UNCHANGED <<wire, astray, destroyed, sent>>
        /\ \A d \in Clients \ {c} : /\ writerBuffer'[d] = writerBuffer[d]
                                    /\ writerMtx'[d] = writerMtx[d]
    BY DEF CutHead, TypeOK, OutputOK, kernel, sockets, histories
  <1>4. /\ writerBuffer'[c].readPos = 0
        /\ writerBuffer'[c].data = SubSeq(data, n + 1, Len(data))
    <2>1. PICK b \in ByteArrays(Nat) : b = writerBuffer[c]
      BY <1>2
    <2>2. b.readPos = 0 /\ n <= Len(b.data) /\ b.data = data
      BY <1>1, <1>2, <2>1
    <2>3. CutSent(b, n).readPos = 0 /\ CutSent(b, n).data = SubSeq(b.data, n + 1, Len(b.data))
      BY <2>2, CutSentType
    <2> QED BY <1>3, <2>1, <2>2, <2>3
  <1>5. /\ Len(SubSeq(data, n + 1, Len(data))) = Len(data) - n
        /\ \A i \in 1..(Len(data) - n) : SubSeq(data, n + 1, Len(data))[i] = data[n + i]
    <2>1. data \in Seq(Nat) /\ n \in Nat /\ n <= Len(data)
      BY <1>2
    <2> QED BY ONLY <2>1, CutFirst
  <1>6. ASSUME NEW i \in 1..(Len(data) - n)
        PROVE  SubSeq(data, n + 1, Len(data))[i] = Len(Out(c)) + i
    <2>1. n + i \in 1..Len(data)
      BY <1>2
    <2>2. data[n + i] = Len(Out(c)) - n + (n + i)
      BY <1>2, <2>1
    <2>3. Len(Out(c)) - n + (n + i) = Len(Out(c)) + i
      BY <1>2
    <2> QED BY <1>5, <2>2, <2>3
  <1> QED BY <1>1, <1>3, <1>4, <1>5, <1>6

\* Neither thread's hand changes, nor what it holds.
LEMMA StutterOutput ==
    ASSUME OneWriter, Strays, Numbered,
           wire' = wire, astray' = astray, destroyed \subseteq destroyed',
           writerBuffer' = writerBuffer, writerMtx' = writerMtx,
           sent' = sent, length' = length, sentLength' = sentLength,
           \/ eventPc' = eventPc /\ client' = client
           \/ eventPc # "cut" /\ eventPc' # "cut",
           \/ mainPc' = mainPc /\ iter' = iter
           \/ mainPc # "cut" /\ mainPc' # "cut"
    PROVE  OneWriter' /\ Strays' /\ Numbered'
  BY DEF OneWriter, Strays, Numbered, InHand, Out

LEMMA SendOutput ==
    ASSUME TypeOK, Control, OneWriter, Strays, Numbered, EventSend \/ Flush
    PROVE  OneWriter' /\ Strays' /\ Numbered'
  <1>1. \E c \in Clients, n \in Nat, err \in BOOLEAN, who \in {"main", "event"} :
          /\ SendBytes(c, n, err, who)
          /\ \/ /\ who = "event" /\ EventSend /\ c = client /\ length' = n
                /\ eventPc = "send" /\ eventPc' = "cut"
                /\ UNCHANGED <<client, mainPc, iter, sentLength>>
             \/ /\ who = "main" /\ Flush /\ c = iter /\ sentLength' = n
                /\ mainPc = "flush" /\ mainPc' = "cut"
                /\ UNCHANGED <<iter, eventPc, client, length>>
    <2>1. \A m : m \in Nat => \A n \in 0..m : n \in Nat
      OBVIOUS
    <2>2. ASSUME NEW l \in Clients PROVE load.out[l] \in Nat
      BY ServerSocketAssumption DEF TypeOK
    <2>3. CASE EventSend
      <3>1. client \in Clients /\ eventPc = "send" /\ eventPc' = "cut"
            /\ UNCHANGED <<client, mainPc, iter, sentLength>>
        BY <2>3 DEF EventSend, Control, mainVars
      <3> QED BY <2>1, <2>2, <2>3, <3>1 DEF EventSend
    <2>4. CASE Flush
      <3>1. iter \in Clients /\ mainPc = "flush" /\ mainPc' = "cut"
            /\ UNCHANGED <<iter, eventPc, client, length>>
        BY <2>4 DEF Flush, Control, evVars
      <3> QED BY <2>1, <2>2, <2>4, <3>1 DEF Flush
    <2> QED BY <2>3, <2>4
  <1>2. PICK c \in Clients, n \in Nat, err \in BOOLEAN, who \in {"main", "event"} :
          /\ SendBytes(c, n, err, who)
          /\ \/ /\ who = "event" /\ EventSend /\ c = client /\ length' = n
                /\ eventPc = "send" /\ eventPc' = "cut"
                /\ UNCHANGED <<client, mainPc, iter, sentLength>>
             \/ /\ who = "main" /\ Flush /\ c = iter /\ sentLength' = n
                /\ mainPc = "flush" /\ mainPc' = "cut"
                /\ UNCHANGED <<iter, eventPc, client, length>>
    BY <1>1
  <1>3. /\ writerMtx[c] = "free" /\ n <= Len(writerBuffer[c].data)
        /\ Len(Out(c)') = Len(Out(c)) + n
        /\ \A i \in 1..Len(Out(c)') : Out(c)'[i] = i
        /\ \A d \in Clients \ {c} : Out(d)' = Out(d) /\ writerMtx'[d] = writerMtx[d]
        /\ writerMtx'[c] = who /\ UNCHANGED <<writerBuffer, sent>> /\ Strays'
    BY <1>2, SendNumbers
  <1>4. OneWriter'
    BY <1>2, <1>3 DEF OneWriter
  <1>5. InHand(c) = 0 /\ InHand(c)' = n
    BY <1>2, <1>3 DEF InHand
  <1>6. \A d \in Clients \ {c} : InHand(d)' = InHand(d)
    BY <1>2, <1>3 DEF InHand, OneWriter
  <1>7. ASSUME NEW d \in Clients
        PROVE  LET data == writerBuffer'[d].data
               IN  /\ writerBuffer'[d].readPos = 0
                   /\ InHand(d)' <= Len(data) /\ InHand(d)' <= Len(Out(d)')
                   /\ Len(Out(d)') - InHand(d)' + Len(data) = sent'[d]
                   /\ \A i \in 1..Len(Out(d)') : Out(d)'[i] = i
                   /\ \A i \in 1..Len(data) : data[i] = Len(Out(d)') - InHand(d)' + i
    <2>1. CASE d = c
      <3>1. Len(Out(c)) \in Nat /\ Len(writerBuffer[c].data) \in Nat
        BY OutputTypes
      <3>2. /\ writerBuffer[c].readPos = 0
            /\ Len(Out(c)) - 0 + Len(writerBuffer[c].data) = sent[c]
            /\ \A i \in 1..Len(writerBuffer[c].data) :
                 writerBuffer[c].data[i] = Len(Out(c)) - 0 + i
        BY <1>5 DEF Numbered
      <3>3. Len(Out(c)') - n = Len(Out(c)) - 0 /\ n <= Len(Out(c)')
        BY <1>3, <3>1
      <3> QED BY <1>3, <1>5, <2>1, <3>2, <3>3
    <2>2. CASE d # c
      BY <1>3, <1>6, <2>2 DEF Numbered
    <2> QED BY <2>1, <2>2
  <1>8. Numbered'
    BY <1>7 DEF Numbered
  <1> QED BY <1>3, <1>4, <1>8

LEMMA CutOutput ==
    ASSUME TypeOK, Control, OneWriter, Strays, Numbered, EventCut \/ FlushCut
    PROVE  OneWriter' /\ Strays' /\ Numbered'
  <1>1. \E c \in Clients, n \in Nat :
          /\ CutHead(c, n) /\ n = InHand(c)
          /\ \/ /\ writerMtx[c] = "event" /\ c = client
                /\ eventPc = "cut" /\ eventPc' = "events"
                /\ UNCHANGED <<client, mainPc, iter, sentLength>>
             \/ /\ writerMtx[c] = "main" /\ c = iter
                /\ mainPc = "cut" /\ mainPc' = "close"
                /\ UNCHANGED <<iter, eventPc, client, length>>
    <2>1. CASE EventCut
      <3>1. /\ client \in Clients /\ eventPc = "cut" /\ eventPc' = "events"
            /\ length \in Nat /\ UNCHANGED <<client, mainPc, iter, sentLength>>
        BY <2>1 DEF EventCut, Control, mainVars, TypeOK, EventThreadOK
      <3>2. writerMtx[client] = "event" /\ length = InHand(client)
        BY <3>1 DEF OneWriter, InHand
      <3> QED BY <2>1, <3>1, <3>2 DEF EventCut
    <2>2. CASE FlushCut
      <3>1. /\ iter \in Clients /\ mainPc = "cut" /\ mainPc' = "close"
            /\ sentLength \in Nat /\ UNCHANGED <<iter, eventPc, client, length>>
        BY <2>2 DEF FlushCut, Control, evVars, TypeOK, MainThreadOK
      <3>2. writerMtx[iter] = "main" /\ sentLength = InHand(iter)
        BY <3>1 DEF OneWriter, InHand
      <3> QED BY <2>2, <3>1, <3>2 DEF FlushCut
    <2> QED BY <2>1, <2>2
  <1>2. PICK c \in Clients, n \in Nat :
          /\ CutHead(c, n) /\ n = InHand(c)
          /\ \/ /\ writerMtx[c] = "event" /\ c = client
                /\ eventPc = "cut" /\ eventPc' = "events"
                /\ UNCHANGED <<client, mainPc, iter, sentLength>>
             \/ /\ writerMtx[c] = "main" /\ c = iter
                /\ mainPc = "cut" /\ mainPc' = "close"
                /\ UNCHANGED <<iter, eventPc, client, length>>
    BY <1>1
  <1>3. /\ writerBuffer'[c].readPos = 0
        /\ Len(writerBuffer'[c].data) = Len(writerBuffer[c].data) - n
        /\ \A i \in 1..Len(writerBuffer'[c].data) :
              writerBuffer'[c].data[i] = Len(Out(c)) + i
        /\ writerMtx'[c] = "free" /\ UNCHANGED <<wire, astray, destroyed, sent>>
        /\ \A d \in Clients \ {c} : /\ writerBuffer'[d] = writerBuffer[d]
                                    /\ writerMtx'[d] = writerMtx[d]
    BY <1>2, CutNumbers
  <1>10. \A d \in Clients : Out(d)' = Out(d)
    BY <1>3 DEF Out
  <1>4. OneWriter'
    BY <1>2, <1>3 DEF OneWriter
  <1>5. InHand(c)' = 0
    BY <1>3 DEF InHand
  <1>6. \A d \in Clients \ {c} : InHand(d)' = InHand(d)
    BY <1>2, <1>3 DEF InHand, OneWriter
  <1>7. ASSUME NEW d \in Clients
        PROVE  LET data == writerBuffer'[d].data
               IN  /\ writerBuffer'[d].readPos = 0
                   /\ InHand(d)' <= Len(data) /\ InHand(d)' <= Len(Out(d)')
                   /\ Len(Out(d)') - InHand(d)' + Len(data) = sent'[d]
                   /\ \A i \in 1..Len(Out(d)') : Out(d)'[i] = i
                   /\ \A i \in 1..Len(data) : data[i] = Len(Out(d)') - InHand(d)' + i
    <2>1. CASE d = c
      <3>1. Len(Out(c)) \in Nat /\ Len(writerBuffer[c].data) \in Nat
        BY OutputTypes
      <3>2. /\ n <= Len(writerBuffer[c].data)
            /\ Len(Out(c)) - n + Len(writerBuffer[c].data) = sent[c]
            /\ \A i \in 1..Len(Out(c)) : Out(c)[i] = i
        BY <1>2 DEF Numbered
      <3>3. /\ 0 <= Len(writerBuffer'[c].data) /\ 0 <= Len(Out(c))
            /\ Len(Out(c)) - 0 + Len(writerBuffer'[c].data) = sent[c]
            /\ Len(Out(c)) - 0 = Len(Out(c))
        BY <1>3, <3>1, <3>2
      <3> QED BY <1>3, <1>5, <1>10, <2>1, <3>2, <3>3
    <2>2. CASE d # c
      BY <1>3, <1>6, <1>10, <2>2 DEF Numbered
    <2> QED BY <2>1, <2>2
  <1>8. Numbered'
    BY <1>7 DEF Numbered
  <1>9. Strays'
    BY <1>3 DEF Strays
  <1> QED BY <1>4, <1>8, <1>9

\* Client::send appends the next byte, when no thread holds the mutex.
LEMMA AppendOutput ==
    ASSUME TypeOK, Control, OneWriter, Strays, Numbered, NEW c \in Clients, Send(c)
    PROVE  OneWriter' /\ Strays' /\ Numbered'
  <1>1. /\ writerMtx[c] = "free" /\ UNCHANGED <<wire, astray, writerMtx, evVars, mainVars>>
        /\ destroyed' = destroyed
        /\ sent' = [sent EXCEPT ![c] = sent[c] + 1]
        /\ writerBuffer' = [writerBuffer EXCEPT ![c] =
                               writeData(writerBuffer[c], <<sent[c] + 1>>)]
    BY DEF Send, Locked, kernel, sockets
  <1>2. OneWriter' /\ Strays'
    BY <1>1 DEF OneWriter, Strays, evVars, mainVars
  <1>11. \A d \in Clients : Out(d)' = Out(d)
    BY <1>1 DEF Out
  <1>3. \A d \in Clients : InHand(d)' = InHand(d)
    BY <1>1 DEF InHand, evVars, mainVars
  <1>4. InHand(c) = 0
    BY <1>1 DEF InHand
  <1>5. PICK data \in Seq(Nat) : data = writerBuffer[c].data
    BY OutputTypes
  <1>6. /\ sent[c] \in Nat /\ Len(Out(c)) \in Nat /\ Len(data) \in Nat
        /\ writerBuffer[c] \in ByteArrays(Nat)
    BY <1>5, OutputTypes
  <1>7. /\ writerBuffer[c].readPos = 0
        /\ Len(Out(c)) + Len(data) = sent[c]
        /\ \A i \in 1..Len(Out(c)) : Out(c)[i] = i
        /\ \A i \in 1..Len(data) : data[i] = Len(Out(c)) + i
    <2>1. /\ writerBuffer[c].readPos = 0
          /\ Len(Out(c)) - 0 + Len(data) = sent[c]
          /\ \A i \in 1..Len(Out(c)) : Out(c)[i] = i
          /\ \A i \in 1..Len(data) : data[i] = Len(Out(c)) - 0 + i
      BY <1>4, <1>5 DEF Numbered
    <2>2. Len(Out(c)) - 0 = Len(Out(c))
      BY <1>6
    <2> QED BY <2>1, <2>2
  <1>8. /\ writerBuffer'[c].data = Append(data, sent[c] + 1)
        /\ writerBuffer'[c].readPos = 0
    <2>1. writerBuffer'[c] = writeData(writerBuffer[c], <<sent[c] + 1>>)
      BY <1>1 DEF TypeOK, OutputOK
    <2>2. /\ writeData(writerBuffer[c], <<sent[c] + 1>>).data = data \o <<sent[c] + 1>>
          /\ writeData(writerBuffer[c], <<sent[c] + 1>>).readPos = writerBuffer[c].readPos
      BY <1>5, <1>6 DEF writeData, ByteArrays
    <2>3. data \o <<sent[c] + 1>> = Append(data, sent[c] + 1)
      BY <1>6, AppendIsConcat
    <2> QED BY <1>7, <2>1, <2>2, <2>3
  <1>9. /\ Len(writerBuffer'[c].data) = Len(data) + 1
        /\ \A i \in 1..(Len(data) + 1) : writerBuffer'[c].data[i] = Len(Out(c)) + i
    <2>1. PICK x \in Nat : x = sent[c] + 1
      BY <1>6
    <2>2. /\ Len(Append(data, x)) = Len(data) + 1
          /\ \A i \in 1..Len(data) : Append(data, x)[i] = data[i]
          /\ Append(data, x)[Len(data) + 1] = x
      BY AppendProperties
    <2>3. x = Len(Out(c)) + (Len(data) + 1)
      <3>1. Len(Out(c)) + Len(data) = sent[c]
        BY <1>7
      <3>2. PICK a \in Nat, b \in Nat, s \in Nat :
                a = Len(Out(c)) /\ b = Len(data) /\ s = sent[c]
        BY <1>6
      <3>3. a + b = s /\ x = s + 1
        BY <2>1, <3>1, <3>2
      <3>4. x = a + (b + 1)
        BY ONLY <3>3, SMT
      <3> QED BY <3>2, <3>4
    <2>4. \A i \in 1..(Len(data) + 1) : i = Len(data) + 1 \/ i \in 1..Len(data)
      BY <1>6
    <2> QED BY <1>7, <1>8, <2>1, <2>2, <2>3, <2>4
  <1>10. ASSUME NEW d \in Clients
         PROVE  LET b == writerBuffer'[d].data
                IN  /\ writerBuffer'[d].readPos = 0
                    /\ InHand(d)' <= Len(b) /\ InHand(d)' <= Len(Out(d)')
                    /\ Len(Out(d)') - InHand(d)' + Len(b) = sent'[d]
                    /\ \A i \in 1..Len(Out(d)') : Out(d)'[i] = i
                    /\ \A i \in 1..Len(b) : b[i] = Len(Out(d)') - InHand(d)' + i
    <2>1. CASE d = c
      <3>1. sent'[c] = sent[c] + 1 /\ Out(c)' = Out(c) /\ InHand(c)' = 0
        BY <1>1, <1>3, <1>4, <1>11 DEF TypeOK, OutputOK
      <3>2. /\ 0 <= Len(data) + 1 /\ 0 <= Len(Out(c))
            /\ Len(Out(c)) - 0 + (Len(data) + 1) = sent[c] + 1
            /\ Len(Out(c)) - 0 = Len(Out(c))
        <4>1. PICK a, b, x : /\ a = Len(Out(c)) /\ b = Len(data) /\ x = sent[c]
                             /\ a \in Nat /\ b \in Nat /\ x \in Nat /\ a + b = x
          BY <1>6, <1>7
        <4>2. a \in Nat /\ b \in Nat /\ x \in Nat /\ a + b = x
          BY <4>1
        <4>3. /\ 0 <= b + 1 /\ 0 <= a /\ a - 0 + (b + 1) = x + 1 /\ a - 0 = a
          BY ONLY <4>2, SMT
        <4> QED BY <4>1, <4>3
      <3> QED BY <1>7, <1>8, <1>9, <2>1, <3>1, <3>2
    <2>2. CASE d # c
      <3>1. sent'[d] = sent[d] /\ writerBuffer'[d] = writerBuffer[d]
        BY <1>1, <2>2 DEF TypeOK, OutputOK
      <3>2. PICK n, b : n = InHand(d) /\ b = writerBuffer[d]
        OBVIOUS
      <3>3. /\ b.readPos = 0 /\ n <= Len(b.data) /\ n <= Len(Out(d))
            /\ Len(Out(d)) - n + Len(b.data) = sent[d]
            /\ \A i \in 1..Len(Out(d)) : Out(d)[i] = i
            /\ \A i \in 1..Len(b.data) : b.data[i] = Len(Out(d)) - n + i
        BY <3>2 DEF Numbered
      <3>4. writerBuffer'[d] = b /\ Out(d)' = Out(d) /\ InHand(d)' = n /\ sent'[d] = sent[d]
        BY <1>3, <1>11, <3>1, <3>2
      <3> QED BY <3>3, <3>4, Zenon
    <2> QED BY <2>1, <2>2
  <1> QED BY <1>2, <1>10 DEF Numbered

LEMMA NextOutput ==
    TypeOK /\ Control /\ OneWriter /\ Strays /\ Numbered /\ [Next]_vars
        => OneWriter' /\ Strays' /\ Numbered'
  <1> SUFFICES ASSUME TypeOK, Control, OneWriter, Strays, Numbered, [Next]_vars
               PROVE  OneWriter' /\ Strays' /\ Numbered'
    OBVIOUS
  <1>1. CASE EventThread
    <2>1. mainPc' = mainPc /\ iter' = iter /\ sentLength' = sentLength /\ sent' = sent
      BY <1>1, EventThreadFrame DEF mainVars
    <2>2. ASSUME NEW c \in Clients, ReadEvent(c) \/ WriteEvent(c) \/ HupEvent(c)
          PROVE  OneWriter' /\ Strays' /\ Numbered'
      <3>1. /\ wire' = wire /\ astray' = astray /\ writerBuffer' = writerBuffer
            /\ writerMtx' = writerMtx /\ length' = length
            /\ destroyed \subseteq destroyed'
        BY <2>2 DEF ReadEvent, WriteEvent, HupEvent, kernel, sockets, shared, buffers, histories
      <3>2. eventPc # "cut" /\ eventPc' # "cut"
        BY <2>2 DEF ReadEvent, WriteEvent, HupEvent, Event
      <3> QED BY <2>1, <3>1, <3>2, StutterOutput
    <2>3. CASE \/ Wait \/ ListenEvent \/ Accept \/ AcceptFails \/ AcceptDone \/ AddClient
               \/ EpollAdd \/ EventDone \/ BatchDone
      <3>1. /\ wire' = wire /\ astray' = astray /\ writerBuffer' = writerBuffer
            /\ writerMtx' = writerMtx /\ length' = length
            /\ destroyed \subseteq destroyed'
        BY <2>3
        DEF Wait, ListenEvent, Accept, AcceptFails, AcceptDone, AddClient, EpollAdd,
            EventDone, BatchDone, kernel, sockets, shared, buffers, histories
      <3>2. eventPc # "cut" /\ eventPc' # "cut"
        BY <2>3
        DEF Wait, ListenEvent, Accept, AcceptFails, AcceptDone, AddClient, EpollAdd,
            EventDone, BatchDone
      <3> QED BY <2>1, <3>1, <3>2, StutterOutput
    <2>4. CASE Recv \/ RecvClosed \/ RecvNothing \/ SetNewData
      <3>1. /\ wire' = wire /\ astray' = astray /\ writerBuffer' = writerBuffer
            /\ writerMtx' = writerMtx /\ length' = length
            /\ destroyed \subseteq destroyed'
        BY <2>4
        DEF Recv, RecvClosed, RecvNothing, SetNewData, kernel, sockets, shared, buffers,
            histories
      <3>2. eventPc # "cut" /\ eventPc' # "cut"
        BY <2>4 DEF Recv, RecvClosed, RecvNothing, SetNewData
      <3> QED BY <2>1, <3>1, <3>2, StutterOutput
    <2> QED BY <1>1, <2>2, <2>3, <2>4, SendOutput, CutOutput DEF EventThread
  <1>2. CASE MainThread \/ UpdateBegin \/ Cleanup
    <2>1. eventPc' = eventPc /\ client' = client /\ length' = length /\ sent' = sent
      BY <1>2, MainThreadFrame DEF evVars
    <2>2. ASSUME NEW c \in Clients, Adopt(c) \/ NewData(c) \/ NoNewData(c)
          PROVE  OneWriter' /\ Strays' /\ Numbered'
      <3>1. /\ wire' = wire /\ astray' = astray /\ writerBuffer' = writerBuffer
            /\ writerMtx' = writerMtx /\ sentLength' = sentLength
            /\ destroyed \subseteq destroyed'
        BY <2>2 DEF Adopt, NewData, NoNewData, kernel, sockets, buffers, histories
      <3>2. mainPc # "cut" /\ mainPc' # "cut"
        BY <2>2 DEF Adopt, NewData, NoNewData
      <3> QED BY <2>1, <3>1, <3>2, StutterOutput
    <2>3. CASE \/ AdoptDone \/ OnRecv \/ DestroyClient \/ KeepClient \/ UpdateEnd
               \/ CleanupJoined \/ UpdateBegin \/ Cleanup
      <3>1. /\ wire' = wire /\ astray' = astray /\ writerBuffer' = writerBuffer
            /\ writerMtx' = writerMtx /\ sentLength' = sentLength
            /\ destroyed \subseteq destroyed'
        BY <2>3
        DEF AdoptDone, OnRecv, DestroyClient, KeepClient, UpdateEnd, CleanupJoined,
            UpdateBegin, Cleanup, CloseSockets, kernel, sockets, shared, buffers, histories
      <3>2. mainPc # "cut" /\ mainPc' # "cut"
        BY <2>3
        DEF AdoptDone, OnRecv, DestroyClient, KeepClient, UpdateEnd, CleanupJoined,
            UpdateBegin, Cleanup
      <3> QED BY <2>1, <3>1, <3>2, StutterOutput
    <2> QED BY <1>2, <2>2, <2>3, SendOutput, CutOutput DEF MainThread
  <1>3. ASSUME NEW c \in Clients, NEW n \in Nat,
               Connect(c) \/ PeerCloses(c) \/ Writable(c) \/ Arrive(c, n) \/ Kick(c)
        PROVE  OneWriter' /\ Strays' /\ Numbered'
    <2>1. /\ wire' = wire /\ astray' = astray /\ writerBuffer' = writerBuffer
          /\ writerMtx' = writerMtx /\ destroyed \subseteq destroyed'
          /\ length' = length /\ sentLength' = sentLength /\ sent' = sent
          /\ eventPc' = eventPc /\ client' = client /\ mainPc' = mainPc /\ iter' = iter
      BY <1>3
      DEF Connect, PeerCloses, Writable, Arrive, Kick, kernel, sockets, shared, buffers, evVars,
          mainVars, histories
    <2> QED BY <2>1, StutterOutput
  <1>4. CASE UNCHANGED vars
    <2>1. /\ wire' = wire /\ astray' = astray /\ writerBuffer' = writerBuffer
          /\ writerMtx' = writerMtx /\ destroyed \subseteq destroyed'
          /\ length' = length /\ sentLength' = sentLength /\ sent' = sent
          /\ eventPc' = eventPc /\ client' = client /\ mainPc' = mainPc /\ iter' = iter
      BY <1>4 DEF vars, kernel, sockets, shared, buffers, evVars, mainVars, histories
    <2> QED BY <2>1, StutterOutput
  <1>5. ASSUME NEW c \in Clients, NEW n \in 1..load.in[c]
        PROVE  n \in Nat
    BY <1>5, ServerSocketAssumption DEF TypeOK
  <1> QED BY <1>1, <1>2, <1>3, <1>4, <1>5, AppendOutput DEF Next, Environment, Terminated

LEMMA NumberedImplies == TypeOK /\ Strays /\ Numbered => OutputConserved
  <1> SUFFICES ASSUME TypeOK, Strays, Numbered, NEW c \in Clients
               PROVE  /\ Len(Out(c)) <= sent[c] /\ Out(c) = [i \in 1..Len(Out(c)) |-> i]
                      /\ astray[c] # <<>> => c \in destroyed
                      /\ writerMtx[c] = "free" =>
                            Out(c) \o Unread(writerBuffer[c]) = [i \in 1..sent[c] |-> i]
    BY DEF OutputConserved, Out
  <1>1. PICK data \in Seq(Nat) : data = writerBuffer[c].data
    BY OutputTypes
  <1>2. PICK w \in Seq(Nat) : w = Out(c)
    BY OutputTypes
  <1>3. /\ Len(w) \in Nat /\ Len(data) \in Nat /\ InHand(c) \in Nat /\ sent[c] \in Nat
    BY <1>1, <1>2, OutputTypes
  <1>4. /\ writerBuffer[c].readPos = 0 /\ InHand(c) <= Len(data)
        /\ Len(w) - InHand(c) + Len(data) = sent[c]
        /\ \A i \in 1..Len(w) : w[i] = i
        /\ \A i \in 1..Len(data) : data[i] = Len(w) - InHand(c) + i
    BY <1>1, <1>2 DEF Numbered
  <1>5. Len(w) <= sent[c]
    BY <1>3, <1>4
  <1>6. w = [i \in 1..Len(w) |-> i]
    BY <1>4, LenProperties
  <1>7. ASSUME writerMtx[c] = "free"
        PROVE  w \o Unread(writerBuffer[c]) = [i \in 1..sent[c] |-> i]
    <2>1. InHand(c) = 0
      BY <1>7 DEF InHand
    <2>2. Unread(writerBuffer[c]) = data
      BY <1>1, <1>4, SubSeqFull DEF Unread, size
    <2>3. /\ DOMAIN (w \o data) = 1..Len(w) + Len(data)
          /\ \A i \in 1..Len(w) + Len(data) :
               (w \o data)[i] = IF i <= Len(w) THEN w[i] ELSE data[i - Len(w)]
          /\ w \o data \in Seq(Nat)
      BY ConcatProperties, LenProperties
    <2>4. sent[c] = Len(w) + Len(data)
      BY <1>3, <1>4, <2>1
    <2>5. ASSUME NEW i \in 1..Len(w) + Len(data) PROVE (w \o data)[i] = i
      <3>1. CASE i <= Len(w)
        BY <1>3, <1>4, <2>3, <3>1
      <3>2. CASE ~(i <= Len(w))
        <4>1. i - Len(w) \in 1..Len(data)
          BY <1>3, <3>2
        <4>2. data[i - Len(w)] = Len(w) - 0 + (i - Len(w))
          BY <1>4, <2>1, <4>1
        <4>3. Len(w) - 0 + (i - Len(w)) = i
          BY <1>3
        <4> QED BY <2>3, <3>2, <4>2, <4>3
      <3> QED BY <3>1, <3>2
    <2>6. w \o data = [i \in DOMAIN (w \o data) |-> (w \o data)[i]]
      BY <2>3, LenProperties
    <2> QED BY <2>2, <2>3, <2>4, <2>5, <2>6
  <1>8. astray[c] # <<>> => c \in destroyed
    BY DEF Strays
  <1> QED BY <1>2, <1>5, <1>6, <1>7, <1>8

\* Whichever of the two threads writes, however much the sockets take at a time
\* and whichever descriptor numbers are used again, no byte is lost, sent twice
\* or out of order, and none reaches another's peer before its client is
\* destroyed.
THEOREM OutputInOrder == Spec => []OutputConserved
  <1>1. TypeOK /\ Control /\ OneWriter /\ Strays /\ Numbered /\ [Next]_vars
          => (TypeOK /\ Control /\ OneWriter /\ Strays /\ Numbered)'
    BY NextTypeOK, NextOutput
  <1> QED BY <1>1, InitTypeOK, InitOutput, NumberedImplies, PTL DEF Spec

-----------------------------------------------------------------------------
(* Connections                                                             *)

Taken == IF eventPc = "add" THEN {client} ELSE {}

\* What Placed says, without the cardinalities, and what it takes to keep it:
\* no two ids have one client; the places where a connection can be do not
\* overlap; epfd watches only clients that are still to be destroyed, and the
\* event thread adds none but a client that it has announced; the client
\* update() works on and those it has still to come to are in allClients, and
\* no client is both.
Distinct ==
    \A i, j \in Ids : i # j /\ allClients[i] # NoClient => allClients[i] # allClients[j]
OnePlace ==
    /\ seen = backlog \cup Taken \cup addingClients \cup Adopted \cup destroyed
    /\ backlog \cap (Taken \cup addingClients \cup Adopted \cup destroyed) = {}
    /\ Taken \cap (addingClients \cup Adopted \cup destroyed) = {}
    /\ addingClients \cap (Adopted \cup destroyed) = {}
    /\ Adopted \cap destroyed = {}
Watched ==
    /\ inEpoll \subseteq addingClients \cup Adopted
    /\ eventPc = "ctl" => client \in addingClients \cup Adopted \cup destroyed
Visited ==
    /\ todo \subseteq Adopted /\ iter \notin todo
    /\ mainPc # "next" => mainPc \in {"recv", "flush", "cut", "close"} \/ todo = {}
    /\ mainPc \in {"recv", "flush", "cut", "close"} => iter \in Adopted
Apart == Distinct /\ OnePlace /\ Watched /\ Visited

LEMMA InitApart == Init => Apart
  <1> SUFFICES ASSUME Init PROVE Apart
    OBVIOUS
  <1>1. Distinct
    BY ServerSocketAssumption DEF Init, Distinct, Ids
  <1>2. OnePlace
    BY DEF Init, OnePlace, Taken
  <1>3. Watched /\ Visited
    BY DEF Init, Watched, Visited
  <1> QED BY <1>1, <1>2, <1>3 DEF Apart

LEMMA AdoptedTypes == TypeOK => Adopted \subseteq Clients /\ NoClient \notin Adopted
  BY DEF TypeOK, MainThreadOK, Adopted

\* CloseSockets takes its clients out of allClients and out of epfd.
LEMMA CloseSocketsApart ==
    ASSUME TypeOK, Distinct, OnePlace, Watched, NEW C \in SUBSET Adopted, CloseSockets(C),
           UNCHANGED <<seen, backlog, addingClients, eventPc, client>>
    PROVE  Distinct' /\ OnePlace' /\ Watched' /\ Adopted' = Adopted \ C
  <1>1. \A i \in Ids : allClients'[i] = IF allClients[i] \in C THEN NoClient ELSE allClients[i]
    BY DEF CloseSockets
  <1>2. Adopted' = Adopted \ C
    BY <1>1, AdoptedTypes DEF Adopted
  <1>3. Distinct'
    BY <1>1 DEF Distinct
  <1>4. Taken' = Taken /\ destroyed' = destroyed \cup C /\ inEpoll' = inEpoll \ C
    BY DEF Taken, CloseSockets
  <1>5. OnePlace'
    BY <1>2, <1>4 DEF OnePlace
  <1>6. Watched'
    BY <1>2, <1>4 DEF Watched
  <1> QED BY <1>2, <1>3, <1>5, <1>6

LEMMA EventThreadApart ==
    ASSUME TypeOK, Control, Apart, EventThread
    PROVE  Apart'
  <1>1. allClients' = allClients /\ mainPc' = mainPc /\ iter' = iter /\ todo' = todo
        /\ seen' = seen
    BY EventThreadFrame DEF mainVars
  <1>2. Adopted' = Adopted /\ Distinct' /\ Visited'
    BY <1>1 DEF Apart, Adopted, Distinct, Visited
  <1>3. CASE Accept
    <2>1. PICK c \in backlog :
            /\ eventPc = "accept" /\ backlog' = backlog \ {c}
            /\ \/ client' = c /\ eventPc' = "add" /\ destroyed' = destroyed
               \/ /\ destroyed' = destroyed \cup {c}
                  /\ client' = client /\ eventPc' = eventPc
      BY <1>3 DEF Accept
    <2>2. addingClients' = addingClients /\ inEpoll' = inEpoll
      BY <1>3 DEF Accept, shared
    <2>3. OnePlace'
      BY <1>1, <1>2, <2>1, <2>2 DEF Apart, OnePlace, Taken
    <2>4. Watched'
      BY <1>2, <2>1, <2>2 DEF Apart, Watched
    <2> QED BY <1>2, <2>3, <2>4 DEF Apart
  <1>4. CASE AddClient
    <2>1. /\ eventPc = "add" /\ eventPc' = "ctl" /\ client' = client
          /\ addingClients' = addingClients \cup {client}
          /\ inEpoll' = inEpoll /\ backlog' = backlog /\ destroyed' = destroyed
      BY <1>4 DEF AddClient, kernel, sockets, histories
    <2>2. OnePlace'
      BY <1>1, <1>2, <2>1 DEF Apart, OnePlace, Taken
    <2>3. Watched'
      BY <1>2, <2>1 DEF Apart, Watched
    <2> QED BY <1>2, <2>2, <2>3 DEF Apart
  <1>5. CASE EpollAdd
    <2>1. /\ eventPc = "ctl" /\ eventPc' = "accept"
          /\ addingClients' = addingClients /\ backlog' = backlog /\ destroyed' = destroyed
          /\ \/ inEpoll' = inEpoll
             \/ client \notin destroyed /\ inEpoll' = inEpoll \cup {client}
      BY <1>5, Zenon DEF EpollAdd, shared, histories
    <2>2. OnePlace'
      BY <1>1, <1>2, <2>1 DEF Apart, OnePlace, Taken
    <2>3. Watched'
      BY <1>2, <2>1 DEF Apart, Watched
    <2> QED BY <1>2, <2>2, <2>3 DEF Apart
  <1>6. ASSUME eventPc \notin {"add", "ctl"}, eventPc' \notin {"add", "ctl"},
               addingClients' = addingClients, backlog' = backlog,
               destroyed' = destroyed, inEpoll' = inEpoll
        PROVE  Apart'
    <2>1. OnePlace'
      BY <1>1, <1>2, <1>6 DEF Apart, OnePlace, Taken
    <2>2. Watched'
      BY <1>2, <1>6 DEF Apart, Watched
    <2> QED BY <1>2, <2>1, <2>2 DEF Apart
  <1>7. ASSUME NEW c \in Clients, ReadEvent(c) \/ WriteEvent(c) \/ HupEvent(c)
        PROVE  Apart'
    <2>1. eventPc \notin {"add", "ctl"} /\ eventPc' \notin {"add", "ctl"}
      BY <1>7 DEF ReadEvent, WriteEvent, HupEvent, Event
    <2>2. addingClients' = addingClients /\ backlog' = backlog /\ destroyed' = destroyed
          /\ inEpoll' = inEpoll
      BY <1>7 DEF ReadEvent, WriteEvent, HupEvent, kernel, sockets, shared, histories
    <2> QED BY <1>6, <2>1, <2>2
  <1>8. CASE \/ Wait \/ ListenEvent \/ AcceptFails \/ AcceptDone \/ EventDone \/ BatchDone
    <2>1. eventPc \notin {"add", "ctl"} /\ eventPc' \notin {"add", "ctl"}
      BY <1>8 DEF Wait, ListenEvent, AcceptFails, AcceptDone, EventDone, BatchDone
    <2>2. addingClients' = addingClients /\ backlog' = backlog /\ destroyed' = destroyed
          /\ inEpoll' = inEpoll
      BY <1>8
      DEF Wait, ListenEvent, AcceptFails, AcceptDone, EventDone, BatchDone, kernel, sockets, shared,
          histories
    <2> QED BY <1>6, <2>1, <2>2
  <1>9. CASE Recv \/ RecvClosed \/ RecvNothing \/ SetNewData
    <2>1. eventPc \notin {"add", "ctl"} /\ eventPc' \notin {"add", "ctl"}
      BY <1>9 DEF Recv, RecvClosed, RecvNothing, SetNewData
    <2>2. addingClients' = addingClients /\ backlog' = backlog /\ destroyed' = destroyed
          /\ inEpoll' = inEpoll
      BY <1>9 DEF Recv, RecvClosed, RecvNothing, SetNewData, kernel, sockets, shared, histories
    <2> QED BY <1>6, <2>1, <2>2
  <1>10. CASE EventSend \/ EventCut
    <2>1. eventPc \notin {"add", "ctl"} /\ eventPc' \notin {"add", "ctl"}
      BY <1>10 DEF EventSend, EventCut
    <2>2. addingClients' = addingClients /\ backlog' = backlog /\ destroyed' = destroyed
          /\ inEpoll' = inEpoll
      BY <1>10 DEF EventSend, EventCut, SendBytes, CutHead, kernel, sockets, histories
    <2> QED BY <1>6, <2>1, <2>2
  <1> QED BY <1>3, <1>4, <1>5, <1>7, <1>8, <1>9, <1>10 DEF EventThread

LEMMA MainThreadApart ==
    ASSUME TypeOK, Control, Apart, MainThread \/ UpdateBegin \/ Cleanup
    PROVE  Apart'
  <1>1. eventPc' = eventPc /\ client' = client /\ seen' = seen
    BY MainThreadFrame DEF evVars
  <1>2. Taken' = Taken
    BY <1>1 DEF Taken
  <1>3. ASSUME NEW c \in Clients, Adopt(c)
        PROVE  Apart'
    <2>1. NextClientID \in Ids /\ allClients[NextClientID] = NoClient
      BY <1>3, NextClientIDFree DEF Adopt
    <2>2. PICK id \in Ids : id = NextClientID
      BY <2>1
    <2>3. /\ c \in addingClients /\ addingClients' = addingClients \ {c}
          /\ allClients' = [allClients EXCEPT ![id] = c] /\ mainPc = "adopt"
          /\ mainPc' = mainPc /\ iter' = iter /\ todo' = todo
          /\ backlog' = backlog /\ destroyed' = destroyed /\ inEpoll' = inEpoll
      BY <1>3, <2>1, <2>2 DEF Adopt, kernel, sockets, histories
    <2>4. \A i \in Ids : allClients'[i] = IF i = id THEN c ELSE allClients[i]
      BY <2>3 DEF TypeOK, MainThreadOK
    <2>5. allClients[id] = NoClient /\ c # NoClient
      BY <2>1, <2>2, ServerSocketAssumption
    <2>6. Adopted' = Adopted \cup {c}
      <3>1. ASSUME NEW x \in Adopted' PROVE x \in Adopted \cup {c}
        BY <2>4 DEF Adopted
      <3>2. c \in Adopted'
        BY <2>4, <2>5 DEF Adopted
      <3>3. ASSUME NEW x \in Adopted PROVE x \in Adopted'
        BY <2>4, <2>5 DEF Adopted
      <3> QED BY <3>1, <3>2, <3>3
    <2>7. c \notin Adopted
      BY <2>3 DEF Apart, OnePlace
    <2>8. Distinct'
      <3>1. \A i \in Ids : allClients[i] # c
        BY <2>5, <2>7 DEF Adopted
      <3> QED BY <2>4, <2>5, <3>1 DEF Apart, Distinct
    <2>9. OnePlace'
      BY <1>1, <1>2, <2>3, <2>6, <2>7 DEF Apart, OnePlace
    <2>10. Watched'
      BY <1>1, <2>3, <2>6 DEF Apart, Watched
    <2>11. Visited'
      BY <2>3, <2>6 DEF Apart, Visited
    <2> QED BY <2>8, <2>9, <2>10, <2>11 DEF Apart
  <1>4. ASSUME allClients' = allClients, addingClients' = addingClients,
               backlog' = backlog, destroyed' = destroyed, inEpoll' = inEpoll
        PROVE  Adopted' = Adopted /\ Distinct' /\ OnePlace' /\ Watched'
    <2>1. Adopted' = Adopted /\ Distinct'
      BY <1>4 DEF Adopted, Apart, Distinct
    <2>2. OnePlace'
      BY <1>1, <1>2, <1>4, <2>1 DEF Apart, OnePlace
    <2>3. Watched'
      BY <1>1, <1>4, <2>1 DEF Apart, Watched
    <2> QED BY <2>1, <2>2, <2>3
  <1>5. CASE DestroyClient
    <2>1. /\ mainPc = "close" /\ mainPc' = "next" /\ CloseSockets({iter})
          /\ iter' = NoClient /\ todo' = todo
          /\ UNCHANGED <<backlog, addingClients, eventPc, client, seen>>
      BY <1>1, <1>5 DEF DestroyClient, shared
    <2>2. {iter} \subseteq Adopted
      BY <2>1 DEF Apart, Visited
    <2>3. Distinct' /\ OnePlace' /\ Watched' /\ Adopted' = Adopted \ {iter}
      BY <2>1, <2>2, CloseSocketsApart DEF Apart
    <2>4. Visited'
      BY <2>1, <2>3, AdoptedTypes DEF Apart, Visited
    <2> QED BY <2>3, <2>4 DEF Apart
  <1>6. CASE CleanupJoined
    <2>1. /\ mainPc = "join" /\ mainPc' = "cleaned" /\ CloseSockets(Adopted)
          /\ iter' = iter /\ todo' = todo
          /\ UNCHANGED <<backlog, addingClients, eventPc, client, seen>>
      BY <1>1, <1>6 DEF CleanupJoined
    <2>2. Distinct' /\ OnePlace' /\ Watched' /\ Adopted' = Adopted \ Adopted
      BY <2>1, CloseSocketsApart DEF Apart
    <2>3. Visited'
      BY <2>1, <2>2 DEF Apart, Visited
    <2> QED BY <2>2, <2>3 DEF Apart
  <1>7. ASSUME NEW c \in Clients, NewData(c) \/ NoNewData(c)
        PROVE  Apart'
    <2>1. allClients' = allClients /\ addingClients' = addingClients
          /\ backlog' = backlog /\ destroyed' = destroyed /\ inEpoll' = inEpoll
      BY <1>7 DEF NewData, NoNewData, kernel, sockets, histories
    <2>2. c \in todo /\ iter' = c /\ todo' = todo \ {c} /\ mainPc' \in {"recv", "flush"}
      BY <1>7 DEF NewData, NoNewData
    <2>3. Adopted' = Adopted /\ Distinct' /\ OnePlace' /\ Watched'
      BY <1>4, <2>1
    <2>4. Visited'
      BY <2>2, <2>3 DEF Apart, Visited
    <2> QED BY <2>3, <2>4 DEF Apart
  <1>8. CASE AdoptDone \/ OnRecv \/ KeepClient \/ UpdateEnd \/ UpdateBegin \/ Cleanup
    <2>1. allClients' = allClients /\ addingClients' = addingClients
          /\ backlog' = backlog /\ destroyed' = destroyed /\ inEpoll' = inEpoll
      BY <1>8
      DEF AdoptDone, OnRecv, KeepClient, UpdateEnd, UpdateBegin, Cleanup, kernel, sockets, shared,
          histories
    <2>2. Adopted' = Adopted /\ Distinct' /\ OnePlace' /\ Watched'
      BY <1>4, <2>1
    <2>3. CASE AdoptDone
      <3>1. /\ mainPc = "adopt" /\ mainPc' = "next" /\ iter' = iter /\ todo' = Adopted
        BY <2>3 DEF AdoptDone
      <3>2. iter \notin Adopted
        BY <3>1, AdoptedTypes DEF Control
      <3> QED BY <2>2, <3>1, <3>2 DEF Apart, Visited
    <2>4. CASE OnRecv \/ UpdateEnd \/ UpdateBegin \/ Cleanup
      <3>1. iter' = iter /\ todo' = todo
        BY <2>4 DEF OnRecv, UpdateEnd, UpdateBegin, Cleanup
      <3>2. \/ mainPc = "recv" /\ mainPc' = "flush"
            \/ mainPc = "next" /\ todo = {} /\ mainPc' = "idle"
            \/ mainPc = "idle" /\ mainPc' \in {"adopt", "join"}
        BY <2>4 DEF OnRecv, UpdateEnd, UpdateBegin, Cleanup
      <3>3. Visited'
        BY <2>2, <3>1, <3>2 DEF Apart, Visited
      <3> QED BY <2>2, <3>3 DEF Apart
    <2>5. CASE KeepClient
      <3>1. mainPc' = "next" /\ iter' = NoClient /\ todo' = todo
        BY <2>5 DEF KeepClient
      <3>2. Visited'
        BY <2>2, <3>1, AdoptedTypes DEF Apart, Visited
      <3> QED BY <2>2, <3>2 DEF Apart
    <2> QED BY <1>8, <2>3, <2>4, <2>5
  <1>9. CASE Flush \/ FlushCut
    <2>1. allClients' = allClients /\ addingClients' = addingClients
          /\ backlog' = backlog /\ destroyed' = destroyed /\ inEpoll' = inEpoll
      BY <1>9 DEF Flush, FlushCut, SendBytes, CutHead, kernel, sockets, histories
    <2>2. Adopted' = Adopted /\ Distinct' /\ OnePlace' /\ Watched'
      BY <1>4, <2>1
    <2>3. /\ iter' = iter /\ todo' = todo
          /\ mainPc \in {"flush", "cut"} /\ mainPc' \in {"cut", "close"}
      BY <1>9 DEF Flush, FlushCut
    <2>4. Visited'
      BY <2>2, <2>3 DEF Apart, Visited
    <2> QED BY <2>2, <2>4 DEF Apart
  <1> QED BY <1>3, <1>5, <1>6, <1>7, <1>8, <1>9 DEF MainThread

LEMMA NextApart == TypeOK /\ Control /\ Apart /\ [Next]_vars => Apart'
  <1> SUFFICES ASSUME TypeOK, Control, Apart, [Next]_vars PROVE Apart'
    OBVIOUS
  <1>1. ASSUME NEW c \in Clients, Connect(c)
        PROVE  Apart'
    <2>1. /\ c \notin seen /\ seen' = seen \cup {c} /\ backlog' = backlog \cup {c}
          /\ UNCHANGED <<eventPc, client, addingClients, allClients, destroyed, inEpoll,
                         todo, iter, mainPc>>
      BY <1>1 DEF Connect, shared, evVars, mainVars
    <2>2. Adopted' = Adopted /\ Taken' = Taken /\ Distinct'
      BY <2>1 DEF Apart, Adopted, Taken, Distinct
    <2>3. OnePlace'
      BY <2>1, <2>2 DEF Apart, OnePlace
    <2>4. Watched' /\ Visited'
      BY <2>1, <2>2 DEF Apart, Watched, Visited
    <2> QED BY <2>2, <2>3, <2>4 DEF Apart
  <1>2. ASSUME UNCHANGED <<eventPc, client, addingClients, allClients, destroyed, inEpoll,
                           todo, iter, mainPc>>,
               seen' = seen, backlog' = backlog
        PROVE  Apart'
    <2>1. Adopted' = Adopted /\ Taken' = Taken /\ Distinct'
      BY <1>2 DEF Apart, Adopted, Taken, Distinct
    <2>2. OnePlace'
      BY <1>2, <2>1 DEF Apart, OnePlace
    <2>3. Watched' /\ Visited'
      BY <1>2, <2>1 DEF Apart, Watched, Visited
    <2> QED BY <2>1, <2>2, <2>3 DEF Apart
  <1>3. ASSUME NEW c \in Clients, NEW n,
               PeerCloses(c) \/ Writable(c) \/ Arrive(c, n) \/ Kick(c) \/ Send(c)
        PROVE  Apart'
    <2>1. UNCHANGED <<eventPc, client, addingClients, allClients, destroyed, inEpoll,
                      todo, iter, mainPc>>
      BY <1>3
      DEF PeerCloses, Writable, Arrive, Kick, Send, kernel, sockets, shared, evVars, mainVars,
          histories
    <2>2. seen' = seen /\ backlog' = backlog
      BY <1>3 DEF PeerCloses, Writable, Arrive, Kick, Send, kernel, sockets, histories
    <2> QED BY <1>2, <2>1, <2>2
  <1>4. CASE UNCHANGED vars
    <2>1. UNCHANGED <<eventPc, client, addingClients, allClients, destroyed, inEpoll,
                      todo, iter, mainPc>>
      BY <1>4 DEF vars, kernel, sockets, shared, evVars, mainVars, histories
    <2>2. seen' = seen /\ backlog' = backlog
      BY <1>4 DEF vars, kernel, sockets, histories
    <2> QED BY <1>2, <2>1, <2>2
  <1> QED BY <1>1, <1>3, <1>4, EventThreadApart, MainThreadApart
          DEF Next, Environment, Terminated

LEMMA DisjointSum ==
    ASSUME NEW S, NEW T, IsFiniteSet(S), IsFiniteSet(T), S \cap T = {}
    PROVE  /\ IsFiniteSet(S \cup T)
           /\ Cardinality(S \cup T) = Cardinality(S) + Cardinality(T)
  <1>1. Cardinality(S) \in Nat /\ Cardinality(T) \in Nat
    BY FS_CardinalityType
  <1>2. /\ IsFiniteSet(S \cup T)
        /\ Cardinality(S \cup T) = Cardinality(S) + Cardinality(T) - Cardinality(S \cap T)
    BY FS_Union
  <1>3. Cardinality(S \cap T) = 0
    BY FS_EmptySet
  <1> QED BY <1>1, <1>2, <1>3

LEMMA ApartImplies == TypeOK /\ Control /\ Apart => Placed
  <1> SUFFICES ASSUME TypeOK, Control, Apart PROVE Placed
    OBVIOUS
  <1>1. \A S \in SUBSET Clients : IsFiniteSet(S) /\ Cardinality(S) \in Nat
    BY ServerSocketAssumption, FS_Subset, FS_CardinalityType
  <1>2. /\ backlog \subseteq Clients /\ Taken \subseteq Clients
        /\ addingClients \subseteq Clients /\ Adopted \subseteq Clients
        /\ destroyed \subseteq Clients
    BY AdoptedTypes DEF TypeOK, KernelOK, SharedOK, Control, Taken
  <1> DEFINE A == backlog \cup Taken
             B == A \cup addingClients
             C == B \cup Adopted
  <1>3. Cardinality(A) = Cardinality(backlog) + Cardinality(Taken)
    BY <1>1, <1>2, DisjointSum DEF Apart, OnePlace
  <1>4. Cardinality(B) = Cardinality(A) + Cardinality(addingClients)
    <2>1. A \in SUBSET Clients /\ A \cap addingClients = {}
      BY <1>2 DEF Apart, OnePlace
    <2> QED BY <1>1, <1>2, <2>1, DisjointSum
  <1>5. Cardinality(C) = Cardinality(B) + Cardinality(Adopted)
    <2>1. B \in SUBSET Clients /\ B \cap Adopted = {}
      BY <1>2 DEF Apart, OnePlace
    <2> QED BY <1>1, <1>2, <2>1, DisjointSum
  <1>6. Cardinality(seen) = Cardinality(C) + Cardinality(destroyed)
    <2>1. C \in SUBSET Clients /\ C \cap destroyed = {} /\ seen = C \cup destroyed
      BY <1>2 DEF Apart, OnePlace
    <2> QED BY <1>1, <1>2, <2>1, DisjointSum
  <1>7. Cardinality(seen) = Cardinality(backlog) + Cardinality(Taken)
          + Cardinality(addingClients) + Cardinality(Adopted) + Cardinality(destroyed)
    BY <1>3, <1>4, <1>5, <1>6
  <1>8. seen = backlog \cup Taken \cup addingClients \cup Adopted \cup destroyed
    BY DEF Apart, OnePlace
  <1>9. destroyed \cap inEpoll = {}
    BY DEF Apart, OnePlace, Watched
  <1>10. \A i, j \in Ids : i # j /\ allClients[i] # NoClient
                              => allClients[i] # allClients[j]
    BY DEF Apart, Distinct
  <1> QED BY <1>7, <1>8, <1>9, <1>10 DEF Placed, Taken

\* However accept, addClient, update() and cleanup() interleave, a connection
\* is in one place at most, has one id, and is not watched once it is closed.
THEOREM EachInOnePlace == Spec => []Placed
  <1>1. TypeOK /\ Control /\ Apart /\ [Next]_vars => (TypeOK /\ Control /\ Apart)'
    BY NextTypeOK, NextApart
  <1> QED BY <1>1, InitTypeOK, InitApart, ApartImplies, PTL DEF Spec
===============================================================================
