------------------------ MODULE ServerSocketIOCPProofs ------------------------
(***************************************************************************)
(* Proofs about ServerSocketIOCP, for any number of connections, event     *)
(* threads, OverlappedData and bytes, and any configuration.               *)
(***************************************************************************)
EXTENDS ServerSocketIOCP, FiniteSetTheorems, SequenceLemmas

-----------------------------------------------------------------------------
(* Threads, hands and labels                                               *)

\* Where a thread serves an OverlappedData, and where the main thread works on
\* a client.
Serving == {"closing", "accept", "add", "firstrecv", "receive", "write", "setnew",
            "nextrecv", "release"}
Visiting == {"recv", "flush", "send", "close"}

Control ==
    /\ \A t \in Threads : at[t] = NoData <=> thread[t] \notin Serving
    /\ mainPc \in Visiting => iter \in allClients /\ iter \notin todo
    /\ mainPc \notin Visiting \cup {"next"} => todo = {}
    /\ mainPc = "new" => /\ accepts = {} /\ recvs = {} /\ port = <<>>
                         /\ \A c \in Clients : sends[c] = <<>>
                         /\ \A t \in Threads : thread[t] = "none"
    /\ mainPc = "listen" => left > 0

\* The OverlappedData of the completions, and of what is being sent to c.
PortDatas  == [i \in 1..Len(port) |-> port[i].data]
InPort     == Range(PortDatas)
Sending(c) == Range(sends[c])

\* Each hand holds OverlappedData of the list, and no two hold the same one.
Hands ==
    /\ ioDataPosted \cap ioDataPool = {}
    /\ accepts \subseteq ioDataPosted /\ recvs \subseteq ioDataPosted
    /\ InPort \subseteq ioDataPosted
    /\ \A c \in Clients : Sending(c) \subseteq ioDataPosted
    /\ \A t \in Threads : at[t] \in ioDataPosted \cup {NoData}
Apart ==
    /\ accepts \cap recvs = {} /\ accepts \cap InPort = {} /\ recvs \cap InPort = {}
    /\ \A c \in Clients : Sending(c) \cap (accepts \cup recvs \cup InPort) = {}
    /\ \A c, e \in Clients : c # e => Sending(c) \cap Sending(e) = {}
    /\ \A t \in Threads : at[t] \notin accepts \cup recvs \cup InPort
    /\ \A t \in Threads, c \in Clients : at[t] \notin Sending(c)
    /\ \A t, u \in Threads : t # u /\ at[t] # NoData => at[t] # at[u]
Once ==
    /\ \A c \in Clients : IsInjective(sends[c])
    /\ IsInjective(PortDatas)

\* What the OverlappedData of an operation says, wherever the operation is.
PortLabel(d, result) ==
    /\ ioData[d].op \in Operations
    /\ ioData[d].op # "CLOSE_SERVER" => ioData[d].client \in Clients
    /\ ioData[d].op \in {"ACCEPT", "CLOSE_SERVER"} => result = "ok"
ThreadLabel(d, where) ==
    /\ ioData[d].op \in Operations
    /\ ioData[d].op # "CLOSE_SERVER" => ioData[d].client \in Clients
    /\ ioData[d].op = "CLOSE_SERVER" => where = "release"
    /\ where \in {"accept", "add", "firstrecv"} => ioData[d].op = "ACCEPT"
    /\ where \in {"receive", "write", "setnew", "nextrecv"} => ioData[d].op = "RECEIVE"
    /\ where = "closing" => ioData[d].op \in {"RECEIVE", "SEND"}
Labels ==
    /\ \A d \in accepts : ioData[d].op = "ACCEPT" /\ ioData[d].client = NoClient
    /\ \A d \in recvs : ioData[d].op = "RECEIVE" /\ ioData[d].client \in Clients
    /\ \A c \in Clients : \A d \in Sending(c) :
          ioData[d].op = "SEND" /\ ioData[d].client = c
    /\ \A i \in 1..Len(port) : PortLabel(port[i].data, port[i].result)
    /\ \A t \in Threads : at[t] # NoData => ThreadLabel(at[t], thread[t])

Posting == TypeOK /\ Control /\ Hands /\ Apart /\ Once /\ Labels

LEMMA ServesData ==
    ASSUME Posting, NEW t \in Threads, thread[t] \in Serving
    PROVE  /\ at[t] \in Datas /\ at[t] \in ioDataPosted /\ at[t] # NoData
           /\ ThreadLabel(at[t], thread[t])
           /\ thread[t] # "release" => client(t) \in Clients
  <1>1. at[t] # NoData /\ at[t] \in ioDataPosted /\ at[t] \in Datas
    BY DEF Posting, Control, Hands, TypeOK, DatasOK
  <1>2. ThreadLabel(at[t], thread[t])
    BY <1>1 DEF Posting, Labels
  <1>3. thread[t] # "release" => ioData[at[t]].client \in Clients
    BY <1>2 DEF ThreadLabel
  <1> QED BY <1>1, <1>2, <1>3 DEF client

LEMMA InitPosting == Init => Posting
  <1> SUFFICES ASSUME Init PROVE Posting
    OBVIOUS
  <1> USE IOCPAssumption
  <1>1. NewByteArray \in ByteArrays(Nat) /\ 0 <= size(NewByteArray)
    BY EmptySeq DEF NewByteArray, ByteArrays, size
  <1>2. <<>> \in Seq(Nat) /\ <<>> \in Seq(Datas) /\ Len(<<>>) = 0
        /\ <<>> \in Seq([data : Datas, result : {"ok", "zero", "error", "aborted"}])
    BY EmptySeq
  <1>3. TypeOK
    <2>1. PeersOK /\ PostedOK /\ ClientsOK
      BY <1>1, <1>2 DEF Init, PeersOK, PostedOK, ClientsOK
    <2>2. DatasOK
      BY <1>2 DEF Init, DatasOK, Free, Data
    <2>3. ThreadsOK /\ HistoriesOK
      BY DEF Init, ThreadsOK, HistoriesOK
    <2>4. MainThreadOK
      <3>1. NewByteArray.readPos = 0
        BY DEF NewByteArray
      <3> QED BY <1>1, <3>1 DEF Init, MainThreadOK
    <2> QED BY <2>1, <2>2, <2>3, <2>4 DEF TypeOK
  <1>4. Control
    BY DEF Init, Control, Serving, Visiting
  <1>5. /\ accepts = {} /\ recvs = {} /\ InPort = {}
        /\ \A c \in Clients : sends[c] = <<>> /\ Sending(c) = {}
        /\ \A t \in Threads : at[t] = NoData
        /\ Len(port) = 0 /\ ioDataPosted = {} /\ DOMAIN PortDatas = {}
    BY <1>2 DEF Init, InPort, PortDatas, Sending, Range
  <1>6. Hands /\ Apart
    BY <1>5 DEF Hands, Apart
  <1>7. Once
    BY <1>5 DEF Once, IsInjective
  <1>8. Labels
    BY <1>5 DEF Labels
  <1> QED BY <1>3, <1>4, <1>6, <1>7, <1>8 DEF Posting

-----------------------------------------------------------------------------
(* Types                                                                   *)

LEMMA RunType ==
    ASSUME NEW m \in Nat, NEW n \in Nat
    PROVE  Run(m, n) \in Seq(Nat) /\ (m <= n => Len(Run(m, n)) = n - m)
  <1>1. \A i \in 1..n - m : m + i \in Nat
    OBVIOUS
  <1>2. CASE m <= n
    <2>1. n - m \in Nat
      BY <1>2
    <2> QED BY <1>1, <2>1 DEF Run
  <1>3. CASE ~(m <= n)
    <2>1. Run(m, n) = <<>>
      BY <1>3 DEF Run
    <2> QED BY <1>3, <2>1, EmptySeq
  <1> QED BY <1>2, <1>3

\* What one step of an event thread, of the system or of a peer leaves alone.
LEMMA EventThreadFrame ==
    ASSUME NEW t \in Threads, EventThread(t)
    PROVE  UNCHANGED <<peers, sends, numClients, mainVars, load, seen, delivered, sent>>
  BY DEF EventThread, GetQueuedCompletionStatus, Closing, Release, Accept, AddClient,
         FirstReceive, PostAccept, Receive, Write, SetNewData, NextReceive,
         mainVars, clients, posted, histories

LEMMA SystemFrame ==
    System \/ Peers =>
        UNCHANGED <<clients, ioDataPool, ioDataPosted, threads, mainVars, load, destroyed,
                    delivered, sent>>
  BY DEF System, Peers, CompleteReceive, CompleteAccept, CompleteSend, Connect, Arrive,
         PeerLeaves, datas, histories

LEMMA NextPeersOK == Posting /\ [Next]_vars => PeersOK'
  <1> SUFFICES ASSUME Posting, [Next]_vars PROVE PeersOK'
    OBVIOUS
  <1>1. PeersOK
    BY DEF Posting, TypeOK
  <1>2. CASE UNCHANGED peers
    BY <1>1, <1>2 DEF PeersOK, peers
  <1>3. ASSUME NEW c \in Clients, NEW d \in Datas, CompleteAccept(d, c) PROVE PeersOK'
    BY <1>1, <1>3 DEF CompleteAccept, PeersOK
  <1>4. ASSUME NEW d \in Datas, CompleteReceive(d) PROVE PeersOK'
    <2> DEFINE c == ioData[d].client
               n == IF kin[c] < Chunk THEN kin[c] ELSE Chunk
    <2>1. UNCHANGED <<backlog, arrived, wire, gone>>
      BY <1>4 DEF CompleteReceive
    <2>2. kin' = kin \/ kin' = [kin EXCEPT ![c] = @ - n]
      BY <1>4 DEF CompleteReceive
    <2>3. c \in Clients => kin[c] - n \in Nat /\ kin[c] - n <= arrived[c]
      <3>1. Chunk \in Nat
        BY IOCPAssumption
      <3>2. c \in Clients => kin[c] \in Nat /\ arrived[c] \in Nat /\ kin[c] <= arrived[c]
        BY <1>1 DEF PeersOK
      <3> QED BY <3>1, <3>2
    <2> HIDE DEF c, n
    <2> QED BY <1>1, <2>1, <2>2, <2>3 DEF PeersOK
  <1>5. ASSUME NEW c \in Clients, CompleteSend(c) PROVE PeersOK'
    <2>1. UNCHANGED <<backlog, arrived, kin>>
      BY <1>5 DEF CompleteSend
    <2>2. gone' = gone \/ gone' = [gone EXCEPT ![c] = "reset"]
      BY <1>5 DEF CompleteSend
    <2>3. wire' \in [Clients -> Seq(Nat)]
      <3>1. sends[c] \in Seq(Datas) /\ sends[c] # <<>>
        BY <1>5 DEF CompleteSend, Posting, TypeOK, PostedOK
      <3>2. Head(sends[c]) \in Datas
        BY <3>1, HeadTailProperties
      <3>3. ioData[Head(sends[c])].bytes \in Seq(Nat)
        BY <3>2 DEF Posting, TypeOK, DatasOK
      <3>4. wire[c] \o ioData[Head(sends[c])].bytes \in Seq(Nat)
        BY <1>1, <3>3, ConcatProperties DEF PeersOK
      <3>5. \/ wire' = wire
            \/ wire' = [wire EXCEPT ![c] = @ \o ioData[Head(sends[c])].bytes]
        BY <1>5 DEF CompleteSend
      <3> QED BY <1>1, <3>4, <3>5 DEF PeersOK
    <2> QED BY <1>1, <2>1, <2>2, <2>3 DEF PeersOK
  <1>6. ASSUME NEW c \in Clients,
               Connect(c) \/ Arrive(c) \/ \E how \in {"closed", "reset"} : PeerLeaves(c, how)
        PROVE  PeersOK'
    <2>1. CASE Connect(c)
      BY <1>1, <2>1 DEF Connect, PeersOK
    <2>2. CASE Arrive(c)
      BY <1>1, <2>2 DEF Arrive, PeersOK
    <2>3. ASSUME NEW how \in {"closed", "reset"}, PeerLeaves(c, how) PROVE PeersOK'
      BY <1>1, <2>3 DEF PeerLeaves, PeersOK
    <2> QED BY <1>6, <2>1, <2>2, <2>3
  <1>7. CASE System \/ Peers
    BY <1>3, <1>4, <1>5, <1>6, <1>7 DEF System, Peers
  <1>8. CASE \/ MainThread \/ StartListen \/ StartListenFails \/ UpdateBegin \/ Cleanup
             \/ \E c \in Clients : Kick(c) \/ Send(c)
    BY <1>2, <1>8 DEF MainThread, StartListenPosts, OnRecv, Flush, FlushChunk, UpdateCloses,
        UpdateEnd, PostCloseServer, CleanupPosted, CleanupJoined, UpdateNewData,
        UpdateNoNewData, StartListen, StartListenFails, UpdateBegin, Cleanup, Kick, Send
  <1>9. CASE UNCHANGED vars
    BY <1>2, <1>9 DEF vars
  <1> QED BY <1>2, <1>7, <1>8, <1>9, EventThreadFrame DEF Next, Terminated

LEMMA NextPostedOK == Posting /\ [Next]_vars => PostedOK'
  <1> SUFFICES ASSUME Posting, [Next]_vars PROVE PostedOK'
    OBVIOUS
  <1>1. PostedOK
    BY DEF Posting, TypeOK
  <1>2. CASE UNCHANGED posted
    BY <1>1, <1>2 DEF PostedOK, posted
  <1>3. CASE postAcceptEx /\ UNCHANGED <<recvs, sends, port>>
    BY <1>1, <1>3 DEF postAcceptEx, PostedOK
  <1>4. ASSUME NEW d \in Datas, NEW r \in {"ok", "zero", "error", "aborted"},
               port' = Append(port, Completion(d, r))
        PROVE  port' \in Seq([data : Datas, result : {"ok", "zero", "error", "aborted"}])
    <2>1. Completion(d, r) \in [data : Datas, result : {"ok", "zero", "error", "aborted"}]
      BY DEF Completion
    <2> QED BY <1>1, <1>4, <2>1, AppendProperties DEF PostedOK
  <1>5. ASSUME NEW c \in Clients, NEW d \in Datas, CompleteAccept(d, c) PROVE PostedOK'
    BY <1>1, <1>4, <1>5 DEF CompleteAccept, PostedOK
  <1>6. ASSUME NEW d \in Datas, CompleteReceive(d) PROVE PostedOK'
    <2>1. \E r \in {"ok", "zero", "error", "aborted"} : port' = Append(port, Completion(d, r))
      BY <1>6 DEF CompleteReceive
    <2>2. recvs' = recvs \ {d} /\ UNCHANGED <<accepts, sends>>
      BY <1>6 DEF CompleteReceive
    <2> QED BY <1>1, <1>4, <2>1, <2>2 DEF PostedOK
  <1>7. ASSUME NEW c \in Clients, CompleteSend(c) PROVE PostedOK'
    <2>1. sends[c] \in Seq(Datas) /\ sends[c] # <<>>
      BY <1>1, <1>7 DEF CompleteSend, PostedOK
    <2>2. Head(sends[c]) \in Datas /\ Tail(sends[c]) \in Seq(Datas)
      BY <2>1, HeadTailProperties
    <2>3. \E r \in {"ok", "zero", "error", "aborted"} :
             port' = Append(port, Completion(Head(sends[c]), r))
      BY <1>7 DEF CompleteSend
    <2>4. sends' = [sends EXCEPT ![c] = Tail(sends[c])] /\ UNCHANGED <<accepts, recvs>>
      BY <1>7 DEF CompleteSend
    <2> QED BY <1>1, <1>4, <2>2, <2>3, <2>4 DEF PostedOK
  <1>8. ASSUME NEW t \in Threads, GetQueuedCompletionStatus(t) PROVE PostedOK'
    BY <1>1, <1>8, HeadTailProperties DEF GetQueuedCompletionStatus, PostedOK
  <1>9. ASSUME NEW t \in Threads, FirstReceive(t) \/ NextReceive(t) PROVE PostedOK'
    <2>1. thread[t] \in Serving
      BY <1>9 DEF FirstReceive, NextReceive, Goto, Serving
    <2>2. at[t] \in Datas
      BY <2>1, ServesData
    <2>3. UNCHANGED <<accepts, sends, port>> /\ (recvs' = recvs \/ recvs' = recvs \cup {at[t]})
      BY <1>9 DEF FirstReceive, NextReceive, PostReceive
    <2> QED BY <1>1, <2>2, <2>3 DEF PostedOK
  <1>10. CASE FlushChunk
    <2>1. UNCHANGED <<accepts, recvs, port>>
      BY <1>10 DEF FlushChunk
    <2>2. PICK d \in Datas :
             sends' = sends \/ sends' = [sends EXCEPT ![iter] = Append(sends[iter], d)]
      BY <1>10 DEF FlushChunk
    <2>3. iter \in Clients
      BY <1>10 DEF FlushChunk, MainGoto, Posting, Control, Visiting, TypeOK, MainThreadOK
    <2>4. Append(sends[iter], d) \in Seq(Datas)
      BY <1>1, <2>3, AppendProperties DEF PostedOK
    <2> QED BY <1>1, <2>1, <2>2, <2>4 DEF PostedOK
  <1>11. CASE PostCloseServer
    BY <1>1, <1>4, <1>11 DEF PostCloseServer, PostedOK
  <1>12. ASSUME NEW t \in Threads, EventThread(t) PROVE PostedOK'
    <2>1. CASE PostAccept(t)
      BY <1>3, <2>1 DEF PostAccept
    <2>2. CASE \/ Closing(t) \/ Release(t) \/ Accept(t) \/ AddClient(t) \/ Receive(t)
               \/ Write(t) \/ SetNewData(t)
      BY <1>2, <2>2 DEF Closing, Release, Accept, AddClient, Receive, Write, SetNewData
    <2> QED BY <1>8, <1>9, <1>12, <2>1, <2>2 DEF EventThread
  <1>13. CASE MainThread
    <2>1. CASE StartListenPosts
      BY <1>3, <2>1 DEF StartListenPosts
    <2>2. CASE \/ OnRecv \/ Flush \/ UpdateCloses \/ UpdateEnd \/ CleanupPosted
               \/ CleanupJoined \/ \E c \in Clients : UpdateNewData(c) \/ UpdateNoNewData(c)
      BY <1>2, <2>2 DEF OnRecv, Flush, UpdateCloses, UpdateEnd, CleanupPosted,
                        CleanupJoined, UpdateNewData, UpdateNoNewData
    <2> QED BY <1>10, <1>11, <1>13, <2>1, <2>2 DEF MainThread
  <1>14. CASE \/ Peers \/ StartListen \/ StartListenFails \/ UpdateBegin \/ Cleanup
              \/ \E c \in Clients : Kick(c) \/ Send(c)
    BY <1>2, <1>14 DEF Peers, Connect, Arrive, PeerLeaves, StartListen, StartListenFails,
                       UpdateBegin, Cleanup, Kick, Send
  <1>15. CASE UNCHANGED vars
    BY <1>2, <1>15 DEF vars
  <1> QED BY <1>5, <1>6, <1>7, <1>12, <1>13, <1>14, <1>15 DEF Next, System, Terminated

LEMMA NextClientsOK == Posting /\ [Next]_vars => ClientsOK'
  <1> SUFFICES ASSUME Posting, [Next]_vars PROVE ClientsOK'
    OBVIOUS
  <1>1. ClientsOK /\ MainThreadOK
    BY DEF Posting, TypeOK
  <1>2. CASE UNCHANGED clients
    BY <1>1, <1>2 DEF ClientsOK, clients
  <1>3. ASSUME NEW t \in Threads, EventThread(t) PROVE ClientsOK'
    <2>1. CASE Closing(t)
      <3>1. client(t) \in Clients
        BY <2>1, ServesData DEF Closing, Goto, Serving
      <3> QED BY <1>1, <2>1, <3>1 DEF Closing, ClientsOK
    <2>2. CASE AddClient(t)
      <3>1. client(t) \in Clients
        BY <2>2, ServesData DEF AddClient, Goto, Serving
      <3> QED BY <1>1, <2>2, <3>1 DEF AddClient, ClientsOK
    <2>3. CASE Write(t)
      <3>1. client(t) \in Clients /\ ioData[at[t]].bytes \in Seq(Nat)
        BY <2>3, ServesData DEF Write, Goto, Serving, Posting, TypeOK, DatasOK
      <3>2. writeData(readerBuffer[client(t)], ioData[at[t]].bytes) \in ByteArrays(Nat)
        <4>1. PICK b \in ByteArrays(Nat) : b = readerBuffer[client(t)]
          BY <1>1, <3>1 DEF ClientsOK
        <4>2. b.data \o ioData[at[t]].bytes \in Seq(Nat)
          BY <3>1, ConcatProperties DEF ByteArrays
        <4> QED BY <4>1, <4>2 DEF writeData, ByteArrays
      <3>3. /\ UNCHANGED <<addingClients, numClients, isClosing, hasNewData>>
            /\ readerBuffer' = [readerBuffer EXCEPT ![client(t)] =
                                    writeData(readerBuffer[client(t)], ioData[at[t]].bytes)]
        BY <2>3 DEF Write
      <3> QED BY <1>1, <3>2, <3>3 DEF ClientsOK
    <2>4. CASE SetNewData(t)
      <3>1. client(t) \in Clients
        BY <2>4, ServesData DEF SetNewData, Goto, Serving
      <3> QED BY <1>1, <2>4, <3>1 DEF SetNewData, ClientsOK
    <2>5. CASE \/ GetQueuedCompletionStatus(t) \/ Release(t) \/ Accept(t) \/ FirstReceive(t)
               \/ PostAccept(t) \/ Receive(t) \/ NextReceive(t)
      BY <1>2, <2>5 DEF GetQueuedCompletionStatus, Release, Accept, FirstReceive,
                        PostAccept, Receive, NextReceive
    <2> QED BY <1>3, <2>1, <2>2, <2>3, <2>4, <2>5 DEF EventThread
  <1>4. CASE MainThread
    <2>1. CASE OnRecv
      <3>1. iter \in Clients
        BY <1>1, <2>1 DEF OnRecv, MainGoto, Posting, Control, Visiting, MainThreadOK
      <3>2. truncate(readerBuffer[iter]) \in ByteArrays(Nat)
        BY <1>1, <3>1, TruncateUnread DEF ClientsOK, Sound
      <3> QED BY <1>1, <2>1, <3>2 DEF OnRecv, ClientsOK
    <2>2. CASE UpdateEnd
      <3>1. Cardinality(allClients) \in Nat
        BY <1>1, IOCPAssumption, FS_Subset, FS_CardinalityType DEF MainThreadOK
      <3> QED BY <1>1, <2>2, <3>1 DEF UpdateEnd, ClientsOK
    <2>3. CASE CleanupJoined
      BY <1>1, <2>3 DEF CleanupJoined, ClientsOK, MainThreadOK
    <2>4. ASSUME NEW c \in Clients, UpdateNewData(c) \/ UpdateNoNewData(c) PROVE ClientsOK'
      BY <1>1, <2>4 DEF UpdateNewData, UpdateNoNewData, ClientsOK
    <2>5. CASE \/ StartListenPosts \/ Flush \/ FlushChunk \/ UpdateCloses
               \/ PostCloseServer \/ CleanupPosted
      BY <1>2, <2>5 DEF StartListenPosts, Flush, FlushChunk, UpdateCloses,
                        PostCloseServer, CleanupPosted
    <2> QED BY <1>4, <2>1, <2>2, <2>3, <2>4, <2>5 DEF MainThread
  <1>5. CASE UpdateBegin
    BY <1>1, <1>5 DEF UpdateBegin, ClientsOK
  <1>6. ASSUME NEW c \in Clients, Kick(c) PROVE ClientsOK'
    BY <1>1, <1>6 DEF Kick, ClientsOK
  <1>7. CASE StartListen \/ StartListenFails \/ Cleanup \/ \E c \in Clients : Send(c)
    BY <1>2, <1>7 DEF StartListen, StartListenFails, Cleanup, Send
  <1>8. CASE UNCHANGED vars
    BY <1>2, <1>8 DEF vars
  <1> QED BY <1>2, <1>3, <1>4, <1>5, <1>6, <1>7, <1>8, SystemFrame DEF Next, Terminated

LEMMA NextDatasOK == Posting /\ [Next]_vars => DatasOK'
  <1> SUFFICES ASSUME Posting, [Next]_vars PROVE DatasOK'
    OBVIOUS
  <1>1. DatasOK
    BY DEF Posting, TypeOK
  <1>2. CASE UNCHANGED datas
    BY <1>1, <1>2 DEF DatasOK, datas
  <1>3. ASSUME NEW op \in Operations, NEW c \in Clients \cup {NoClient},
               NEW bytes \in Seq(Nat)
        PROVE  Data(op, c, bytes) \in [op : Operations \cup {"none"},
                                       client : Clients \cup {NoClient}, bytes : Seq(Nat)]
    BY DEF Data
  <1>4. <<>> \in Seq(Nat)
    BY EmptySeq
  <1>5. ASSUME NEW d \in Datas, NEW op \in Operations, NEW c \in Clients \cup {NoClient},
               NEW bytes \in Seq(Nat), createOverlappedData(d, Data(op, c, bytes))
        PROVE  DatasOK'
    BY <1>1, <1>3, <1>5 DEF createOverlappedData, DatasOK
  <1>6. CASE postAcceptEx
    <2>1. "ACCEPT" \in Operations
      BY DEF Operations
    <2> QED BY <1>4, <1>5, <1>6, <2>1 DEF postAcceptEx
  <1>7. ASSUME NEW t \in Threads, FirstReceive(t) \/ NextReceive(t) PROVE DatasOK'
    <2>1. client(t) \in Clients
      BY <1>7, ServesData DEF FirstReceive, NextReceive, Goto, Serving
    <2>2. "RECEIVE" \in Operations
      BY DEF Operations
    <2>3. /\ ioData' = [ioData EXCEPT ![at[t]] = Data("RECEIVE", client(t), <<>>)]
          /\ UNCHANGED <<ioDataPool, ioDataPosted>>
      BY <1>7 DEF FirstReceive, NextReceive, PostReceive
    <2>4. Data("RECEIVE", client(t), <<>>) \in
             [op : Operations \cup {"none"}, client : Clients \cup {NoClient},
              bytes : Seq(Nat)]
      BY <1>3, <1>4, <2>1, <2>2
    <2> QED BY <1>1, <2>3, <2>4 DEF DatasOK
  <1>8. ASSUME NEW t \in Threads, Release(t) PROVE DatasOK'
    <2>1. at[t] \in Datas
      BY <1>8, ServesData DEF Release, Goto, Serving
    <2>2. Free \in [op : Operations \cup {"none"}, client : Clients \cup {NoClient},
                    bytes : Seq(Nat)]
      BY <1>4 DEF Free, Data
    <2> QED BY <1>1, <1>8, <2>1, <2>2 DEF Release, releaseOverlappedData, DatasOK
  <1>9. ASSUME NEW c \in Clients, NEW d \in Datas, CompleteAccept(d, c) PROVE DatasOK'
    BY <1>1, <1>9 DEF CompleteAccept, DatasOK
  <1>10. ASSUME NEW d \in Datas, CompleteReceive(d) PROVE DatasOK'
    <2> DEFINE c == ioData[d].client
               n == IF kin[c] < Chunk THEN kin[c] ELSE Chunk
               bytes == Run(arrived[c] - kin[c], arrived[c] - kin[c] + n)
    <2>1. c \in Clients
      BY <1>10 DEF CompleteReceive, Posting, Labels
    <2>2. bytes \in Seq(Nat)
      <3>1. kin[c] \in Nat /\ arrived[c] \in Nat /\ kin[c] <= arrived[c] /\ Chunk \in Nat
        BY <2>1, IOCPAssumption DEF Posting, TypeOK, PeersOK
      <3>2. arrived[c] - kin[c] \in Nat /\ arrived[c] - kin[c] + n \in Nat
        BY <3>1
      <3> QED BY <3>2, RunType
    <2>3. UNCHANGED <<ioDataPool, ioDataPosted>>
      BY <1>10 DEF CompleteReceive
    <2>4. ioData' = ioData \/ ioData' = [ioData EXCEPT ![d].bytes = bytes]
      BY <1>10 DEF CompleteReceive
    <2> HIDE DEF bytes
    <2> QED BY <1>1, <2>2, <2>3, <2>4 DEF DatasOK
  <1>11. CASE FlushChunk
    <2>1. iter \in Clients
      BY <1>11 DEF FlushChunk, MainGoto, Posting, Control, Visiting, TypeOK, MainThreadOK
    <2>2. Sound(writerBuffer[iter], Nat)
      BY <2>1 DEF Posting, TypeOK, MainThreadOK, Sound
    <2>3. ReadBytes(writerBuffer[iter], Chunk) \in Seq(Nat)
      <3>1. PICK b : b = writerBuffer[iter]
        OBVIOUS
      <3>2. Chunk \in Nat /\ Sound(b, Nat)
        BY <2>2, <3>1, IOCPAssumption
      <3>3. PICK n \in 0..readAvailable(b) : ReadBytes(b, Chunk) = SubSeq(Unread(b), 1, n)
        BY <3>2, ReadUnread
      <3>4. /\ Unread(b) \in Seq(Nat) /\ readAvailable(b) \in Nat
            /\ Len(Unread(b)) = readAvailable(b)
        BY <3>2, UnreadProperties
      <3>5. n \in Nat /\ n <= Len(Unread(b))
        BY <3>4
      <3>6. SubSeq(Unread(b), 1, n) \in Seq(Nat)
        BY <3>4, <3>5, TakeFirst
      <3> QED BY <3>1, <3>3, <3>6
    <2>4. "SEND" \in Operations
      BY DEF Operations
    <2>5. PICK d \in Datas :
            createOverlappedData(d, Data("SEND", iter, ReadBytes(writerBuffer[iter], Chunk)))
      BY <1>11 DEF FlushChunk
    <2> QED BY <1>5, <2>1, <2>3, <2>4, <2>5
  <1>12. CASE PostCloseServer
    <2>1. "CLOSE_SERVER" \in Operations
      BY DEF Operations
    <2> QED BY <1>4, <1>5, <1>12, <2>1 DEF PostCloseServer
  <1>13. ASSUME NEW t \in Threads, EventThread(t) PROVE DatasOK'
    <2>1. CASE PostAccept(t)
      BY <1>6, <2>1 DEF PostAccept
    <2>2. CASE \/ GetQueuedCompletionStatus(t) \/ Closing(t) \/ Accept(t) \/ AddClient(t)
               \/ Receive(t) \/ Write(t) \/ SetNewData(t)
      BY <1>2, <2>2 DEF GetQueuedCompletionStatus, Closing, Accept, AddClient, Receive,
                        Write, SetNewData
    <2> QED BY <1>7, <1>8, <1>13, <2>1, <2>2 DEF EventThread
  <1>14. CASE MainThread
    <2>1. CASE StartListenPosts
      BY <1>6, <2>1 DEF StartListenPosts
    <2>2. CASE \/ OnRecv \/ Flush \/ UpdateCloses \/ UpdateEnd \/ CleanupPosted
               \/ CleanupJoined \/ \E c \in Clients : UpdateNewData(c) \/ UpdateNoNewData(c)
      BY <1>2, <2>2 DEF OnRecv, Flush, UpdateCloses, UpdateEnd, CleanupPosted,
                        CleanupJoined, UpdateNewData, UpdateNoNewData
    <2> QED BY <1>11, <1>12, <1>14, <2>1, <2>2 DEF MainThread
  <1>15. CASE \/ Peers \/ StartListen \/ StartListenFails \/ UpdateBegin \/ Cleanup
              \/ \E c \in Clients : Kick(c) \/ Send(c) \/ CompleteSend(c)
    BY <1>2, <1>15 DEF Peers, Connect, Arrive, PeerLeaves, StartListen, StartListenFails,
                       UpdateBegin, Cleanup, Kick, Send, CompleteSend
  <1>16. CASE UNCHANGED vars
    BY <1>2, <1>16 DEF vars
  <1> QED BY <1>9, <1>10, <1>13, <1>14, <1>15, <1>16 DEF Next, System, Terminated

\* A completion that is taken from the port, and where it is served.
LEMMA TakenData ==
    ASSUME Posting, port # <<>>
    PROVE  LET d == Head(port).data
               where == Serves(ioData[d].op, Head(port).result)
           IN  /\ d \in Datas /\ d = PortDatas[1] /\ PortLabel(d, Head(port).result)
               /\ where \in {"closing", "release", "accept", "receive"}
               /\ ThreadLabel(d, where)
               /\ Head(port).result \in {"ok", "zero", "error", "aborted"}
  <1> DEFINE d == Head(port).data
             where == Serves(ioData[d].op, Head(port).result)
  <1>1. port \in Seq([data : Datas, result : {"ok", "zero", "error", "aborted"}])
    BY DEF Posting, TypeOK, PostedOK
  <1>2. /\ Head(port) = port[1] /\ 1 \in 1..Len(port)
        /\ Head(port) \in [data : Datas, result : {"ok", "zero", "error", "aborted"}]
    <2>1. PICK S : S = [data : Datas, result : {"ok", "zero", "error", "aborted"}]
      OBVIOUS
    <2>2. port \in Seq(S)
      BY <1>1, <2>1
    <2>3. Head(port) = port[1] /\ Head(port) \in S
      BY <2>2, HeadTailProperties
    <2>4. Len(port) \in Nat /\ Len(port) # 0
      BY <2>2, EmptySeq, LenProperties
    <2> QED BY <2>1, <2>3, <2>4
  <1>3. d \in Datas /\ d = PortDatas[1] /\ PortLabel(d, Head(port).result)
        /\ Head(port).result \in {"ok", "zero", "error", "aborted"}
    BY <1>2 DEF PortDatas, Posting, Labels
  <1> HIDE DEF d
  <1>4. where \in {"closing", "release", "accept", "receive"} /\ ThreadLabel(d, where)
    <2>1. ioData[d].op \in {"ACCEPT", "RECEIVE", "SEND", "CLOSE_SERVER"}
      BY <1>3 DEF PortLabel, Operations
    <2>2. CASE Head(port).result \in {"error", "zero"}
      <3>1. where = "closing"
        BY <2>2 DEF Serves
      <3> QED BY <1>3, <2>1, <2>2, <3>1 DEF ThreadLabel, PortLabel
    <2>3. CASE Head(port).result = "aborted"
      <3>1. where = "release"
        BY <2>3 DEF Serves
      <3> QED BY <1>3, <2>1, <2>3, <3>1 DEF ThreadLabel, PortLabel
    <2>4. CASE Head(port).result = "ok"
      <3>1. /\ ioData[d].op \in {"SEND", "CLOSE_SERVER"} => where = "release"
            /\ ioData[d].op = "ACCEPT" => where = "accept"
            /\ ioData[d].op = "RECEIVE" => where = "receive"
        BY <2>4 DEF Serves
      <3> QED BY <1>3, <2>1, <2>4, <3>1 DEF ThreadLabel, PortLabel
    <2> QED BY <1>3, <2>2, <2>3, <2>4
  <1> QED BY <1>3, <1>4 DEF d

\* The main thread, the system and the peers leave the event threads alone, but
\* for startListen.
LEMMA OthersFrame ==
    ASSUME \/ MainThread \/ System \/ Peers \/ StartListenFails \/ UpdateBegin \/ Cleanup
           \/ \E c \in Clients : Kick(c) \/ Send(c)
    PROVE  UNCHANGED threads
  BY SystemFrame
  DEF MainThread, StartListenPosts, OnRecv, Flush, FlushChunk, UpdateCloses, UpdateEnd,
      PostCloseServer, CleanupPosted, CleanupJoined, UpdateNewData, UpdateNoNewData,
      StartListenFails, UpdateBegin, Cleanup, Kick, Send, threads

LEMMA NextThreads ==
    Posting /\ [Next]_vars =>
        ThreadsOK' /\ \A t \in Threads : at'[t] = NoData <=> thread'[t] \notin Serving
  <1> DEFINE Idle == \A t \in Threads : at[t] = NoData <=> thread[t] \notin Serving
  <1> SUFFICES ASSUME Posting, [Next]_vars PROVE ThreadsOK' /\ Idle'
    OBVIOUS
  <1>1. ThreadsOK /\ Idle
    BY DEF Posting, TypeOK, Control
  <1>2. CASE UNCHANGED threads
    BY <1>1, <1>2 DEF ThreadsOK, threads
  <1>3. ASSUME NEW t \in Threads, GetQueuedCompletionStatus(t) PROVE ThreadsOK' /\ Idle'
    <2> DEFINE d == Head(port).data
               where == Serves(ioData[d].op, Head(port).result)
    <2>1. /\ d \in Datas /\ d # NoData /\ where \in {"closing", "release", "accept", "receive"}
      BY <1>3, TakenData, IOCPAssumption DEF GetQueuedCompletionStatus
    <2>2. at' = [at EXCEPT ![t] = d] /\ thread' = [thread EXCEPT ![t] = where]
      BY <1>3 DEF GetQueuedCompletionStatus, Goto
    <2> HIDE DEF d, where
    <2> QED BY <1>1, <2>1, <2>2 DEF ThreadsOK, Serving
  <1>4. ASSUME NEW t \in Threads, Release(t) PROVE ThreadsOK' /\ Idle'
    <2>1. AfterRelease(ioData[at[t]].op) \in {"exited", "postaccept", "wait"}
      BY DEF AfterRelease
    <2>2. /\ thread' = [thread EXCEPT ![t] = AfterRelease(ioData[at[t]].op)]
          /\ at' = [at EXCEPT ![t] = NoData]
      BY <1>4 DEF Release, Goto
    <2> QED BY <1>1, <2>1, <2>2 DEF ThreadsOK, Serving
  <1>5. ASSUME NEW t \in Threads, FirstReceive(t) \/ NextReceive(t) PROVE ThreadsOK' /\ Idle'
    <2>1. /\ \E to \in {"postaccept", "wait"} : thread' = [thread EXCEPT ![t] = to]
          /\ at' = [at EXCEPT ![t] = NoData]
      BY <1>5 DEF FirstReceive, NextReceive, PostReceive, Goto
    <2> QED BY <1>1, <2>1 DEF ThreadsOK, Serving
  <1>6. ASSUME NEW t \in Threads,
               \/ Closing(t) \/ Accept(t) \/ AddClient(t) \/ Receive(t) \/ Write(t)
               \/ SetNewData(t)
        PROVE  ThreadsOK' /\ Idle'
    <2>1. /\ thread[t] \in Serving /\ at' = at
          /\ \E to \in {"release", "add", "firstrecv", "write", "setnew", "nextrecv"} :
                thread' = [thread EXCEPT ![t] = to]
      BY <1>6 DEF Closing, Accept, AddClient, Receive, Write, SetNewData, Goto, Serving
    <2> QED BY <1>1, <2>1 DEF ThreadsOK, Serving
  <1>7. ASSUME NEW t \in Threads, PostAccept(t) PROVE ThreadsOK' /\ Idle'
    <2>1. /\ thread[t] = "postaccept" /\ at' = at
          /\ thread' = [thread EXCEPT ![t] = "wait"]
      BY <1>7 DEF PostAccept, Goto
    <2> QED BY <1>1, <2>1 DEF ThreadsOK, Serving
  <1>8. CASE StartListen
    <2>1. \A t \in Threads : thread[t] = "none"
      BY <1>8 DEF StartListen, MainGoto, Posting, Control
    <2>2. at' = at /\ thread' = [t \in Threads |-> "wait"]
      BY <1>8 DEF StartListen
    <2> QED BY <1>1, <2>1, <2>2 DEF ThreadsOK, Serving
  <1>9. CASE UNCHANGED vars
    BY <1>2, <1>9 DEF vars
  <1>10. ASSUME NEW t \in Threads, EventThread(t) PROVE ThreadsOK' /\ Idle'
    BY <1>3, <1>4, <1>5, <1>6, <1>7, <1>10 DEF EventThread
  <1> QED BY <1>2, <1>8, <1>9, <1>10, OthersFrame DEF Next, Terminated

LEMMA NextMainThread ==
    Posting /\ [Next]_vars =>
        /\ MainThreadOK'
        /\ mainPc' \in Visiting => iter' \in allClients' /\ iter' \notin todo'
        /\ mainPc' \notin Visiting \cup {"next"} => todo' = {}
        /\ mainPc' = "listen" => left' > 0
  <1> DEFINE Place == /\ mainPc \in Visiting => iter \in allClients /\ iter \notin todo
                      /\ mainPc \notin Visiting \cup {"next"} => todo = {}
                      /\ mainPc = "listen" => left > 0
  <1> SUFFICES ASSUME Posting, [Next]_vars PROVE MainThreadOK' /\ Place'
    OBVIOUS
  <1>1. MainThreadOK /\ Place
    BY DEF Posting, TypeOK, Control
  <1>2. CASE UNCHANGED mainVars
    BY <1>1, <1>2 DEF MainThreadOK, mainVars
  <1>3. CASE StartListen \/ StartListenPosts \/ StartListenFails
    BY <1>1, <1>3, IOCPAssumption
       DEF StartListen, StartListenPosts, StartListenFails, MainGoto, MainThreadOK, Visiting
  <1>4. CASE UpdateBegin
    BY <1>1, <1>4 DEF UpdateBegin, MainGoto, MainThreadOK, Visiting, Posting, TypeOK,
                      ClientsOK
  <1>5. ASSUME NEW c \in Clients, UpdateNewData(c) \/ UpdateNoNewData(c)
        PROVE  MainThreadOK' /\ Place'
    BY <1>1, <1>5 DEF UpdateNewData, UpdateNoNewData, MainGoto, MainThreadOK, Visiting
  <1>6. CASE OnRecv \/ UpdateEnd \/ CleanupPosted
    BY <1>1, <1>6 DEF OnRecv, UpdateEnd, CleanupPosted, MainGoto, MainThreadOK, Visiting
  <1>7. CASE UpdateCloses
    BY <1>1, <1>7 DEF UpdateCloses, MainGoto, MainThreadOK, Visiting
  <1>8. CASE CleanupJoined
    BY <1>1, <1>8 DEF CleanupJoined, MainGoto, MainThreadOK, Visiting
  <1>9. CASE Cleanup
    <2>1. Cardinality({t \in Threads : thread[t] # "none"}) \in Nat
      BY IOCPAssumption, FS_Subset, FS_CardinalityType
    <2> QED BY <1>1, <1>9, <2>1 DEF Cleanup, MainGoto, MainThreadOK, Visiting
  <1>10. CASE PostCloseServer
    BY <1>1, <1>10 DEF PostCloseServer, MainGoto, MainThreadOK, Visiting
  <1>11. ASSUME NEW c \in Clients, NEW b, Sound(b, Nat),
                writerBuffer' = [writerBuffer EXCEPT ![c] = b]
         PROVE  /\ writerBuffer' \in [Clients -> ByteArrays(Nat)]
                /\ \A e \in Clients : writerBuffer'[e].readPos <= size(writerBuffer'[e])
    BY <1>1, <1>11 DEF MainThreadOK, Sound
  <1>12. \A c \in Clients : Sound(writerBuffer[c], Nat)
    BY <1>1 DEF MainThreadOK, Sound
  <1>13. ASSUME NEW c \in Clients, Send(c) PROVE MainThreadOK' /\ Place'
    <2>1. PICK x : x = sent'[c]
      OBVIOUS
    <2>2. x \in Nat
      BY <1>13, <2>1 DEF Send, Posting, TypeOK, HistoriesOK
    <2>3. Sound(writeData(writerBuffer[c], <<x>>), Nat)
      <3>1. <<x>> \in Seq(Nat)
        BY <2>2
      <3> QED BY <1>12, <3>1, WriteUnread
    <2>4. /\ UNCHANGED <<mainPc, left, allClients, iter, todo>>
          /\ writerBuffer' = [writerBuffer EXCEPT ![c] = writeData(writerBuffer[c], <<x>>)]
      BY <1>13, <2>1 DEF Send
    <2> QED BY <1>1, <1>11, <2>3, <2>4 DEF MainThreadOK
  <1>14. CASE Flush
    <2>1. iter \in Clients
      BY <1>1, <1>14 DEF Flush, MainGoto, Visiting, MainThreadOK
    <2>2. Sound(readPosition(writerBuffer[iter], 0), Nat)
      <3>1. PICK b : b = writerBuffer[iter]
        OBVIOUS
      <3>2. b \in ByteArrays(Nat) /\ size(b) \in Nat
        BY <2>1, <3>1, <1>12, UnreadProperties DEF Sound, size
      <3>3. /\ readPosition(b, 0).data = b.data /\ readPosition(b, 0).readPos = 0
            /\ readPosition(b, 0) \in ByteArrays(Nat)
        BY <3>2 DEF readPosition, ByteArrays
      <3> QED BY <3>1, <3>2, <3>3 DEF Sound, size
    <2>3. /\ writerBuffer' = [writerBuffer EXCEPT ![iter] = readPosition(writerBuffer[iter], 0)]
          /\ UNCHANGED <<left, allClients, iter, todo>>
          /\ mainPc = "flush" /\ mainPc' \in {"close", "send"}
      BY <1>14 DEF Flush, MainGoto
    <2> QED BY <1>1, <1>11, <2>1, <2>2, <2>3 DEF MainThreadOK, Visiting
  <1>15. CASE FlushChunk
    <2> DEFINE rest == readData(writerBuffer[iter], Chunk)
    <2>1. iter \in Clients
      BY <1>1, <1>15 DEF FlushChunk, MainGoto, Visiting, MainThreadOK
    <2>2. Sound(rest, Nat)
      <3>1. PICK b : b = writerBuffer[iter]
        OBVIOUS
      <3>2. Chunk \in Nat /\ Sound(b, Nat)
        BY <2>1, <3>1, <1>12, IOCPAssumption
      <3>3. PICK n \in 0..readAvailable(b) : readData(b, Chunk) = Past(b, n)
        BY <3>2, ReadUnread
      <3>4. Sound(Past(b, n), Nat)
        BY <3>2, PastUnread
      <3> QED BY <3>1, <3>3, <3>4
    <2>3. Sound(truncate(rest), Nat)
      BY <2>2, TruncateUnread DEF Sound
    <2>4. /\ \/ writerBuffer' = [writerBuffer EXCEPT ![iter] = rest]
             \/ writerBuffer' = [writerBuffer EXCEPT ![iter] = truncate(rest)]
          /\ UNCHANGED <<left, allClients, iter, todo>>
          /\ mainPc = "send" /\ mainPc' \in {"close", "send"}
      BY <1>15 DEF FlushChunk, MainGoto
    <2> HIDE DEF rest
    <2> QED BY <1>1, <1>11, <2>1, <2>2, <2>3, <2>4 DEF MainThreadOK, Visiting
  <1>16. CASE MainThread
    BY <1>3, <1>5, <1>6, <1>7, <1>8, <1>10, <1>14, <1>15, <1>16 DEF MainThread
  <1>17. ASSUME NEW c \in Clients, Kick(c) PROVE UNCHANGED mainVars
    BY <1>17 DEF Kick
  <1>18. CASE UNCHANGED vars
    BY <1>2, <1>18 DEF vars
  <1> QED BY <1>2, <1>3, <1>4, <1>9, <1>13, <1>16, <1>17, <1>18, EventThreadFrame, SystemFrame
          DEF Next, Terminated

LEMMA NextHistoriesOK == Posting /\ [Next]_vars => HistoriesOK'
  <1> SUFFICES ASSUME Posting, [Next]_vars PROVE HistoriesOK'
    OBVIOUS
  <1>1. HistoriesOK
    BY DEF Posting, TypeOK
  <1>2. ASSUME NEW t \in Threads, EventThread(t) PROVE HistoriesOK'
    <2>1. UNCHANGED <<load, seen, delivered, sent>>
      BY <1>2, EventThreadFrame
    <2>2. CASE Accept(t)
      <3>1. client(t) \in Clients
        BY <2>2, ServesData DEF Accept, Goto, Serving
      <3>2. destroyed' = destroyed \/ destroyed' = destroyed \cup {client(t)}
        BY <2>2 DEF Accept
      <3> QED BY <1>1, <2>1, <3>1, <3>2 DEF HistoriesOK
    <2>3. CASE UNCHANGED destroyed
      BY <1>1, <2>1, <2>3 DEF HistoriesOK
    <2> QED BY <1>2, <2>2, <2>3
        DEF EventThread, GetQueuedCompletionStatus, Closing, Release, AddClient,
            FirstReceive, PostAccept, Receive, Write, SetNewData, NextReceive, histories
  <1>3. CASE OnRecv
    <2>1. iter \in Clients /\ readerBuffer[iter] \in ByteArrays(Nat)
      BY <1>3 DEF OnRecv, MainGoto, Posting, Control, Visiting, TypeOK, MainThreadOK,
                  ClientsOK
    <2>2. size(readerBuffer[iter]) \in Nat
      BY <2>1, LenProperties DEF size, ByteArrays
    <2> QED BY <1>1, <1>3, <2>1, <2>2 DEF OnRecv, HistoriesOK
  <1>4. CASE UpdateCloses \/ CleanupJoined
    BY <1>1, <1>4 DEF UpdateCloses, CleanupJoined, HistoriesOK, Posting, TypeOK, ClientsOK,
                      MainThreadOK
  <1>5. CASE UNCHANGED histories
    BY <1>1, <1>5 DEF histories, HistoriesOK
  <1>6. CASE \/ StartListenPosts \/ Flush \/ FlushChunk \/ UpdateEnd \/ PostCloseServer
             \/ CleanupPosted \/ StartListen \/ StartListenFails \/ UpdateBegin \/ Cleanup
             \/ \E c \in Clients : UpdateNewData(c) \/ UpdateNoNewData(c) \/ Kick(c)
    BY <1>5, <1>6 DEF StartListenPosts, Flush, FlushChunk, UpdateEnd, PostCloseServer,
        CleanupPosted, StartListen, StartListenFails, UpdateBegin, Cleanup, UpdateNewData,
        UpdateNoNewData, Kick
  <1>7. ASSUME NEW c \in Clients, Send(c) PROVE HistoriesOK'
    BY <1>1, <1>7 DEF Send, HistoriesOK
  <1>8. CASE System \/ Peers
    <2>1. UNCHANGED <<load, destroyed, delivered, sent>>
      BY <1>8, SystemFrame
    <2>2. seen' \subseteq Clients
      BY <1>1, <1>8 DEF System, Peers, CompleteReceive, CompleteAccept, CompleteSend,
                        Connect, Arrive, PeerLeaves, HistoriesOK, histories
    <2> QED BY <1>1, <2>1, <2>2 DEF HistoriesOK
  <1>9. CASE UNCHANGED vars
    BY <1>5, <1>9 DEF vars
  <1> QED BY <1>2, <1>3, <1>4, <1>6, <1>7, <1>8, <1>9 DEF Next, MainThread, Terminated

LEMMA NextTypeOK == Posting /\ [Next]_vars => TypeOK'
  BY NextPeersOK, NextPostedOK, NextClientsOK, NextDatasOK, NextThreads, NextMainThread,
     NextHistoriesOK DEF TypeOK

LEMMA NextControl == Posting /\ [Next]_vars => Control'
  <1> SUFFICES ASSUME Posting, [Next]_vars PROVE Control'
    OBVIOUS
  <1> DEFINE Quiet == /\ accepts = {} /\ recvs = {} /\ port = <<>>
                      /\ \A c \in Clients : sends[c] = <<>>
                      /\ \A t \in Threads : thread[t] = "none"
  <1>1. mainPc = "new" => Quiet
    BY DEF Posting, Control
  <1>2. mainPc' = "new" => Quiet'
    <2> SUFFICES ASSUME mainPc' = "new" PROVE Quiet'
      OBVIOUS
    <2>1. CASE UNCHANGED <<posted, threads, mainPc>>
      BY <1>1, <2>1 DEF posted, threads
    <2>2. ASSUME NEW t \in Threads, EventThread(t) PROVE FALSE
      <3>1. mainPc = "new"
        BY <2>2, EventThreadFrame DEF mainVars
      <3>2. thread[t] # "none"
        BY <2>2 DEF EventThread, GetQueuedCompletionStatus, Closing, Release, Accept,
                    AddClient, FirstReceive, PostAccept, Receive, Write, SetNewData,
                    NextReceive, Goto
      <3> QED BY <1>1, <3>1, <3>2
    <2>3. CASE System
      <3>1. mainPc = "new"
        BY <2>3, SystemFrame DEF mainVars
      <3> QED BY <1>1, <2>3, <3>1
              DEF System, CompleteReceive, CompleteAccept, CompleteSend
    <2>4. ~ MainThread /\ ~ UpdateBegin /\ ~ Cleanup /\ ~ StartListen /\ ~ StartListenFails
      BY DEF MainThread, StartListenPosts, OnRecv, Flush, FlushChunk, UpdateCloses,
             UpdateEnd, PostCloseServer, CleanupPosted, CleanupJoined, UpdateNewData,
             UpdateNoNewData, UpdateBegin, Cleanup, StartListen, StartListenFails, MainGoto
    <2>5. CASE Peers \/ (\E c \in Clients : Kick(c) \/ Send(c)) \/ UNCHANGED vars
      BY <2>1, <2>5 DEF Peers, Connect, Arrive, PeerLeaves, Kick, Send, vars, threads,
                        mainVars
    <2> QED BY <2>2, <2>3, <2>4, <2>5 DEF Next, Terminated
  <1> QED BY <1>2, NextThreads, NextMainThread DEF Control

-----------------------------------------------------------------------------
(* From hand to hand                                                       *)

\* A new OverlappedData is in no hand.
LEMMA NewIsFree ==
    ASSUME Posting, NEW d \in Datas, NewData(d)
    PROVE  d \notin ioDataPosted
  BY DEF NewData, Posting, Hands

LEMMA PortElements ==
    ASSUME PostedOK
    PROVE  /\ Len(port) \in Nat /\ port # <<>> => Len(port) \in Nat \ {0}
           /\ port # <<>> => Head(port) = port[1]
           /\ \A i \in 1..Len(port) :
                 /\ port[i].data \in Datas
                 /\ port[i].result \in {"ok", "zero", "error", "aborted"}
  <1>1. PICK S : S = [data : Datas, result : {"ok", "zero", "error", "aborted"}]
    OBVIOUS
  <1>2. port \in Seq(S)
    BY <1>1 DEF PostedOK
  <1>3. Len(port) \in Nat /\ (port # <<>> => Len(port) \in Nat \ {0} /\ Head(port) = port[1])
    BY <1>2, EmptySeq, LenProperties
  <1>4. \A i \in 1..Len(port) : port[i] \in S
    BY <1>2, ElementOfSeq
  <1> QED BY <1>1, <1>3, <1>4

\* A completion joins the port.
LEMMA PortGains ==
    ASSUME PostedOK, NEW d \in Datas, NEW r, port' = Append(port, Completion(d, r))
    PROVE  /\ InPort' = InPort \cup {d}
           /\ IsInjective(PortDatas) /\ d \notin InPort => IsInjective(PortDatas')
           /\ Len(port') = Len(port) + 1 /\ Len(port) \in Nat
           /\ port'[Len(port) + 1] = Completion(d, r)
           /\ \A i \in 1..Len(port) : port'[i] = port[i]
  <1>1. PICK S : S = [data : Datas, result : {"ok", "zero", "error", "aborted"}] /\ port \in Seq(S)
    BY DEF PostedOK
  <1>2. Len(port) \in Nat /\ \A i \in 1..Len(port) : port[i].data \in Datas
    BY <1>1, PortElements
  <1>3. PortDatas \in Seq(Datas) /\ Len(PortDatas) = Len(port)
    BY <1>2 DEF PortDatas
  <1>4. /\ Len(port') = Len(port) + 1
        /\ port'[Len(port) + 1] = Completion(d, r)
        /\ \A i \in 1..Len(port) : port'[i] = port[i]
    BY <1>1, <1>2, AppendProperties
  <1>5. PortDatas' = Append(PortDatas, d)
    <2>1. Append(PortDatas, d) \in Seq(Datas) /\ Len(Append(PortDatas, d)) = Len(port) + 1
      BY <1>2, <1>3, AppendProperties
    <2>2. Append(PortDatas, d) = [i \in 1..Len(port) + 1 |-> Append(PortDatas, d)[i]]
      BY <2>1, LenProperties
    <2>3. ASSUME NEW i \in 1..Len(port) + 1 PROVE Append(PortDatas, d)[i] = port'[i].data
      <3>1. CASE i \in 1..Len(port)
        BY <1>2, <1>3, <1>4, <3>1, AppendProperties DEF PortDatas
      <3>2. CASE i = Len(port) + 1
        BY <1>2, <1>3, <1>4, <3>2, AppendProperties DEF Completion
      <3>3. \A n \in Nat : i \in 1..n + 1 => i \in 1..n \/ i = n + 1
        OBVIOUS
      <3>4. i \in 1..Len(port) \/ i = Len(port) + 1
        BY <1>2, <3>3
      <3> QED BY <3>1, <3>2, <3>4
    <2>4. PortDatas' = [i \in 1..Len(port) + 1 |-> port'[i].data]
      BY <1>4 DEF PortDatas
    <2> QED BY <2>2, <2>3, <2>4
  <1> QED BY <1>2, <1>3, <1>4, <1>5, AppendFresh DEF InPort

\* The first completion leaves it.
LEMMA PortLoses ==
    ASSUME PostedOK, port # <<>>, port' = Tail(port)
    PROVE  /\ Head(port).data \in InPort
           /\ IsInjective(PortDatas) =>
                 InPort' = InPort \ {Head(port).data} /\ IsInjective(PortDatas')
           /\ Len(port) \in Nat \ {0} /\ Len(port') = Len(port) - 1
           /\ Head(port) = port[1]
           /\ \A i \in 1..Len(port) - 1 : port'[i] = port[i + 1]
  <1>1. PICK S : S = [data : Datas, result : {"ok", "zero", "error", "aborted"}] /\ port \in Seq(S)
    BY DEF PostedOK
  <1>2. /\ Len(port) \in Nat \ {0} /\ \A i \in 1..Len(port) : port[i].data \in Datas
        /\ Head(port) = port[1]
    BY <1>1, PortElements
  <1>3. PortDatas \in Seq(Datas) /\ Len(PortDatas) = Len(port)
        /\ Head(PortDatas) = Head(port).data /\ PortDatas # <<>>
    BY <1>2 DEF PortDatas
  <1>4. /\ Len(port') = Len(port) - 1
        /\ \A i \in 1..Len(port) - 1 : port'[i] = port[i + 1]
    BY <1>1, <1>2, HeadTailProperties
  <1>5. PortDatas' = Tail(PortDatas)
    <2>1. Tail(PortDatas) \in Seq(Datas) /\ Len(Tail(PortDatas)) = Len(port) - 1
          /\ \A i \in 1..Len(port) - 1 : Tail(PortDatas)[i] = PortDatas[i + 1]
      BY <1>3, HeadTailProperties
    <2>2. Tail(PortDatas) = [i \in 1..Len(port) - 1 |-> Tail(PortDatas)[i]]
      BY <2>1, LenProperties
    <2>3. ASSUME NEW i \in 1..Len(port) - 1 PROVE Tail(PortDatas)[i] = port'[i].data
      <3>1. i + 1 \in 1..Len(port)
        BY <1>2
      <3> QED BY <1>4, <2>1, <3>1 DEF PortDatas
    <2>4. PortDatas' = [i \in 1..Len(port) - 1 |-> port'[i].data]
      BY <1>4 DEF PortDatas
    <2> QED BY <2>2, <2>3, <2>4
  <1>6. Head(port).data \in InPort
    <2>1. 1 \in DOMAIN PortDatas /\ PortDatas[1] = Head(port).data
      BY <1>2 DEF PortDatas
    <2> QED BY <2>1 DEF InPort, Range
  <1> QED BY <1>2, <1>3, <1>4, <1>5, <1>6, TailFresh DEF InPort

\* Who holds an OverlappedData, and the connections whose operations are lost.
Held(d)  == \/ d \in accepts \cup recvs \cup InPort
            \/ \E c \in Clients : d \in Sending(c)
            \/ \E t \in Threads : at[t] = d
Ended(c) == c \in Clients /\ (c \in destroyed \/ gone[c] = "reset")
Lost     == \A d \in ioDataPosted : ~ Held(d) => Ended(ioData[d].client)

Circulation == Hands /\ Apart /\ Once /\ Labels

\* What a step drops from all hands is of a connection that has ended.
DropsEnded ==
    \A d \in ioDataPosted' : ~ Held(d)' =>
        \/ d \in ioDataPosted /\ ~ Held(d) /\ ioData'[d] = ioData[d]
        \/ Ended(ioData[d].client)'

\* The OverlappedData on which a client depends for its input: that of the
\* AcceptEx which took it, and then that of its receive.
Reading(d)     == d \in recvs \cup InPort \/ \E t \in Threads : at[t] = d
ReaderOf(d, c) == /\ Reading(d) /\ ioData[d].op \in {"ACCEPT", "RECEIVE"}
                  /\ ioData[d].client = c
\* How it changes in a step.
ReadersMove ==
    \A e \in Datas, b \in Clients :
        /\ ReaderOf(e, b)' => ReaderOf(e, b) \/ CompleteAccept(e, b)
        /\ ReaderOf(e, b) => \/ ReaderOf(e, b)' \/ Ended(b)'
                             \/ \E t \in Threads : Release(t) /\ at[t] = e

\* The OverlappedData of the accepts that are under way or completed.
Outstanding == accepts \cup {d \in InPort : ioData[d].op = "ACCEPT"}

\* The threads that hold an OverlappedData keep it, and serve the same.
SameThreads == at' = at /\ \A t \in Threads : at[t] # NoData => thread'[t] = thread[t]

LEMMA SameHands ==
    ASSUME Posting, UNCHANGED <<posted, datas, at>>,
           \A t \in Threads : at[t] # NoData => ThreadLabel(at[t], thread[t])'
    PROVE  /\ Circulation' /\ DropsEnded /\ ReadersMove
           /\ Outstanding' = Outstanding
  <1>1. UNCHANGED <<accepts, recvs, sends, port, ioData, ioDataPool, ioDataPosted, at>>
    BY DEF posted, datas
  <1>2. InPort' = InPort /\ PortDatas' = PortDatas /\ \A c \in Clients : Sending(c)' = Sending(c)
    BY <1>1 DEF InPort, PortDatas, Sending
  <1>3. Hands' /\ Apart' /\ Once'
    BY <1>1, <1>2 DEF Posting, Hands, Apart, Once
  <1>4. Labels'
    BY <1>1, <1>2 DEF Posting, Labels, PortLabel
  <1>5. DropsEnded
    BY <1>1, <1>2 DEF DropsEnded, Held
  <1>6. ReadersMove
    BY <1>1, <1>2 DEF ReadersMove, ReaderOf, Reading
  <1>7. Outstanding' = Outstanding
    BY <1>1, <1>2 DEF Outstanding
  <1> QED BY <1>3, <1>4, <1>5, <1>6, <1>7 DEF Circulation

\* What is in a hand has a label, and keeps it as long as its content is kept.
LEMMA InHands ==
    ASSUME Posting
    PROVE  /\ ioDataPosted \subseteq Datas /\ NoData \notin ioDataPosted
           /\ accepts \cup recvs \cup InPort \subseteq ioDataPosted
           /\ \A c \in Clients : Sending(c) \subseteq ioDataPosted
           /\ \A t \in Threads : at[t] # NoData => at[t] \in ioDataPosted
           /\ \A i \in 1..Len(port) : port[i].data \in InPort
           /\ \A e \in Datas : Reading(e) => e \in ioDataPosted
  <1>1. \A i \in 1..Len(port) : port[i].data \in InPort
    BY DEF InPort, PortDatas, Range
  <1>2. \A e \in Datas : Reading(e) => e \in ioDataPosted
    BY IOCPAssumption DEF Posting, Hands, Reading
  <1> QED BY <1>1, <1>2, IOCPAssumption DEF Posting, TypeOK, DatasOK, Hands

LEMMA LabelsStay ==
    ASSUME Posting,
           \A i \in 1..Len(port) :
              ioData'[port[i].data].op = ioData[port[i].data].op
              /\ ioData'[port[i].data].client = ioData[port[i].data].client,
           NEW T \in SUBSET Threads,
           \A t \in T : at[t] # NoData => ioData'[at[t]].op = ioData[at[t]].op
                                          /\ ioData'[at[t]].client = ioData[at[t]].client,
           \A t \in T : at[t] # NoData => at'[t] = at[t] /\ thread'[t] = thread[t]
    PROVE  /\ port' = port =>
                \A i \in 1..Len(port') : PortLabel(port[i].data, port[i].result)'
           /\ \A t \in T : at[t] # NoData => ThreadLabel(at[t], thread[t])'
  <1>1. \A i \in 1..Len(port) : PortLabel(port[i].data, port[i].result)
    BY DEF Posting, Labels
  <1>2. \A t \in Threads : at[t] # NoData => ThreadLabel(at[t], thread[t])
    BY DEF Posting, Labels
  <1>3. ASSUME port' = port
        PROVE  \A i \in 1..Len(port') : PortLabel(port[i].data, port[i].result)'
    BY <1>1, <1>3 DEF PortLabel
  <1>4. ASSUME NEW t \in T, at[t] # NoData PROVE ThreadLabel(at[t], thread[t])'
    <2>1. ThreadLabel(at[t], thread[t])
      BY <1>2, <1>4
    <2> QED BY <1>4, <2>1 DEF ThreadLabel
  <1> QED BY <1>3, <1>4

LEMMA Created ==
    ASSUME Posting, NEW d \in Datas, NEW content, createOverlappedData(d, content)
    PROVE  /\ d \notin ioDataPosted /\ ~ Held(d)
           /\ ioDataPool' = ioDataPool \ {d} /\ ioDataPosted' = ioDataPosted \cup {d}
           /\ ioData'[d] = content /\ \A e \in ioDataPosted : ioData'[e] = ioData[e]
  <1>1. d \notin ioDataPosted /\ d # NoData
    BY NewIsFree, IOCPAssumption DEF createOverlappedData
  <1>2. ~ Held(d)
    BY <1>1, InHands DEF Held
  <1> QED BY <1>1, <1>2, InHands DEF createOverlappedData, Posting, TypeOK, DatasOK

\* A new OverlappedData for an AcceptEx.
LEMMA AcceptPosted ==
    ASSUME Posting, postAcceptEx, UNCHANGED <<recvs, sends, port>>, SameThreads
    PROVE  /\ Circulation' /\ DropsEnded /\ ReadersMove
           /\ \E d \in Datas \ Outstanding : Outstanding' = Outstanding \cup {d}
  <1>1. PICK d \in Datas : /\ createOverlappedData(d, Data("ACCEPT", NoClient, <<>>))
                           /\ accepts' = accepts \cup {d}
    BY DEF postAcceptEx
  <1>2. d \notin ioDataPosted
    BY <1>1, Created
  <1>3. /\ ioDataPool' = ioDataPool \ {d} /\ ioDataPosted' = ioDataPosted \cup {d}
        /\ ioData'[d].op = "ACCEPT" /\ ioData'[d].client = NoClient
        /\ \A e \in ioDataPosted : ioData'[e] = ioData[e]
    BY <1>1, Created DEF Data
  <1>4. InPort' = InPort /\ PortDatas' = PortDatas /\ \A c \in Clients : Sending(c)' = Sending(c)
    BY DEF InPort, PortDatas, Sending
  <1>5. at' = at
    BY DEF SameThreads
  <1>6. d \notin accepts /\ d \notin recvs /\ d \notin InPort
        /\ (\A c \in Clients : d \notin Sending(c)) /\ \A t \in Threads : at[t] # d
    BY <1>1, Created DEF Held
  <1>7. Hands'
    BY <1>1, <1>3, <1>4, <1>5 DEF Posting, Hands
  <1>8. Apart'
    BY <1>1, <1>4, <1>5, <1>6 DEF Posting, Apart
  <1>9. Once'
    BY <1>4 DEF Posting, Once
  <1>10. Labels'
    <2>1. /\ \A e \in accepts' : ioData'[e].op = "ACCEPT" /\ ioData'[e].client = NoClient
          /\ \A e \in recvs' : ioData'[e].op = "RECEIVE" /\ ioData'[e].client \in Clients
          /\ \A c \in Clients : \A e \in Sending(c)' :
                ioData'[e].op = "SEND" /\ ioData'[e].client = c
      BY <1>1, <1>3, <1>4, InHands DEF Posting, Labels
    <2>2. /\ \A i \in 1..Len(port') : PortLabel(port[i].data, port[i].result)'
          /\ \A t \in Threads : at[t] # NoData => ThreadLabel(at[t], thread[t])'
      BY <1>3, InHands, LabelsStay DEF SameThreads
    <2> QED BY <1>5, <2>1, <2>2 DEF Labels
  <1>11. DropsEnded
    <2> SUFFICES ASSUME NEW e \in ioDataPosted', ~ Held(e)'
                 PROVE  e \in ioDataPosted /\ ~ Held(e) /\ ioData'[e] = ioData[e]
      BY DEF DropsEnded
    <2>1. e \notin accepts' /\ e # d
      BY <1>1 DEF Held
    <2> QED BY <1>1, <1>3, <1>4, <1>5, <2>1 DEF Held
  <1>12. ReadersMove
    <2> SUFFICES ASSUME NEW e \in Datas, NEW b \in Clients
                 PROVE  /\ ReaderOf(e, b)' => ReaderOf(e, b) \/ CompleteAccept(e, b)
                        /\ ReaderOf(e, b) => \/ ReaderOf(e, b)' \/ Ended(b)'
                                             \/ \E u \in Threads : Release(u) /\ at[u] = e
      BY DEF ReadersMove
    <2>1. Reading(e)' <=> Reading(e)
      BY <1>4, <1>5 DEF Reading
    <2>2. Reading(e) => ioData'[e] = ioData[e]
      BY <1>3, InHands
    <2> QED BY <2>1, <2>2 DEF ReaderOf

  <1>13. \E e \in Datas \ Outstanding : Outstanding' = Outstanding \cup {e}
    <2>1. d \notin Outstanding
      BY <1>6 DEF Outstanding
    <2>2. \A e \in InPort : ioData'[e] = ioData[e]
      BY <1>3, InHands
    <2> QED BY <1>1, <1>4, <2>1, <2>2 DEF Outstanding
  <1> QED BY <1>7, <1>8, <1>9, <1>10, <1>11, <1>12, <1>13 DEF Circulation

\* The labels of a port that gains a completion.
LEMMA PortKeepsLabels ==
    ASSUME Posting, NEW d, NEW r, PortLabel(d, r)',
           Len(port') = Len(port) + 1, port'[Len(port) + 1] = Completion(d, r),
           \A i \in 1..Len(port) : port'[i] = port[i],
           \A i \in 1..Len(port) :
              ioData'[port[i].data].op = ioData[port[i].data].op
              /\ ioData'[port[i].data].client = ioData[port[i].data].client
    PROVE  \A i \in 1..Len(port') : PortLabel(port[i].data, port[i].result)'
  <1>1. \A i \in 1..Len(port) : PortLabel(port[i].data, port[i].result)
    BY DEF Posting, Labels
  <1>2. Len(port) \in Nat
    BY PortElements DEF Posting, TypeOK
  <1>3. ASSUME NEW i \in 1..Len(port') PROVE PortLabel(port[i].data, port[i].result)'
    <2>1. \A n \in Nat : i \in 1..n + 1 => i \in 1..n \/ i = n + 1
      OBVIOUS
    <2>2. i \in 1..Len(port) \/ i = Len(port) + 1
      BY <1>2, <1>3, <2>1
    <2>3. CASE i \in 1..Len(port)
      BY <1>1, <2>3 DEF PortLabel
    <2>4. CASE i = Len(port) + 1
      <3>1. port'[i].data = d /\ port'[i].result = r
        BY <2>4 DEF Completion
      <3> QED BY <3>1 DEF PortLabel
    <2> QED BY <2>2, <2>3, <2>4
  <1> QED BY <1>3

\* A new OverlappedData for a piece of output.
LEMMA SendPosted ==
    ASSUME Posting, FlushChunk
    PROVE  /\ Circulation' /\ DropsEnded /\ ReadersMove
           /\ Outstanding' = Outstanding
  <1> DEFINE content == Data("SEND", iter, ReadBytes(writerBuffer[iter], Chunk))
  <1>1. PICK x \in Clients : x = iter
    BY DEF FlushChunk, MainGoto, Posting, Control, Visiting, TypeOK, MainThreadOK
  <1>2. PICK d \in Datas : /\ createOverlappedData(d, content)
                           /\ \/ sends' = [sends EXCEPT ![x] = Append(sends[x], d)]
                              \/ gone[x] = "reset" /\ sends' = sends
    BY <1>1 DEF FlushChunk
  <1>3. /\ ioDataPool' = ioDataPool \ {d} /\ ioDataPosted' = ioDataPosted \cup {d}
        /\ ioData'[d].op = "SEND" /\ ioData'[d].client = x
        /\ \A e \in ioDataPosted : ioData'[e] = ioData[e]
    BY <1>1, <1>2, Created DEF Data
  <1>4. UNCHANGED <<accepts, recvs, port, at, thread, gone>>
    BY DEF FlushChunk, threads, peers
  <1>5. InPort' = InPort /\ PortDatas' = PortDatas
    BY <1>4 DEF InPort, PortDatas
  <1>6. d \notin accepts /\ d \notin recvs /\ d \notin InPort
        /\ (\A c \in Clients : d \notin Sending(c)) /\ \A t \in Threads : at[t] # d
    BY <1>2, Created DEF Held
  <1>7. /\ \A c \in Clients : c # x => Sending(c)' = Sending(c) /\ sends'[c] = sends[c]
        /\ Sending(x) \subseteq Sending(x)'
        /\ Sending(x)' \subseteq Sending(x) \cup {d}
        /\ d \in Sending(x)' \/ gone[x] = "reset"
        /\ IsInjective(sends'[x])
    <2>1. sends \in [Clients -> Seq(Datas)] /\ sends[x] \in Seq(Datas)
          /\ IsInjective(sends[x])
      BY <1>2 DEF Posting, TypeOK, PostedOK, Once
    <2>2. \A c \in Clients : c # x => sends'[c] = sends[c]
      BY <1>2, <2>1
    <2>3. CASE sends' = [sends EXCEPT ![x] = Append(sends[x], d)]
      <3>1. sends'[x] = Append(sends[x], d)
        BY <1>1, <2>1, <2>3
      <3>2. Range(Append(sends[x], d)) = Range(sends[x]) \cup {d}
            /\ IsInjective(Append(sends[x], d))
        BY <1>1, <1>6, <2>1, AppendFresh DEF Sending
      <3> QED BY <2>2, <3>1, <3>2 DEF Sending
    <2>4. CASE gone[x] = "reset" /\ sends' = sends
      BY <2>1, <2>4 DEF Sending
    <2> QED BY <1>2, <2>3, <2>4
  <1>8. Hands'
    <2>1. \A c \in Clients : Sending(c)' \subseteq ioDataPosted'
      BY <1>3, <1>7 DEF Posting, Hands
    <2> QED BY <1>3, <1>4, <1>5, <2>1 DEF Posting, Hands
  <1>9. Apart'
    <2>1. \A c \in Clients : Sending(c)' \subseteq Sending(c) \cup {d}
      BY <1>7
    <2>2. \A c \in Clients : Sending(c)' \cap (accepts' \cup recvs' \cup InPort') = {}
      BY <1>4, <1>5, <1>6, <2>1 DEF Posting, Apart
    <2>3. \A c, e \in Clients : c # e => Sending(c)' \cap Sending(e)' = {}
      BY <1>6, <1>7 DEF Posting, Apart
    <2>4. \A t \in Threads, c \in Clients : at'[t] \notin Sending(c)'
      BY <1>4, <1>6, <2>1 DEF Posting, Apart
    <2> QED BY <1>4, <1>5, <2>2, <2>3, <2>4 DEF Posting, Apart
  <1>10. Once'
    BY <1>5, <1>7 DEF Posting, Once
  <1>11. Labels'
    <2>1. /\ \A e \in accepts' : ioData'[e].op = "ACCEPT" /\ ioData'[e].client = NoClient
          /\ \A e \in recvs' : ioData'[e].op = "RECEIVE" /\ ioData'[e].client \in Clients
          /\ \A c \in Clients : \A e \in Sending(c)' :
                ioData'[e].op = "SEND" /\ ioData'[e].client = c
      BY <1>3, <1>4, <1>7, InHands DEF Posting, Labels
    <2>2. /\ \A i \in 1..Len(port') : PortLabel(port[i].data, port[i].result)'
          /\ \A t \in Threads : at[t] # NoData => ThreadLabel(at[t], thread[t])'
      BY <1>3, <1>4, InHands, LabelsStay
    <2> QED BY <1>4, <2>1, <2>2 DEF Labels
  <1>12. DropsEnded
    <2> SUFFICES ASSUME NEW e \in ioDataPosted', ~ Held(e)'
                 PROVE  \/ e \in ioDataPosted /\ ~ Held(e) /\ ioData'[e] = ioData[e]
                        \/ Ended(ioData[e].client)'
      BY DEF DropsEnded
    <2>1. CASE e = d
      <3>1. gone'[x] = "reset"
        BY <1>1, <1>4, <1>7, <2>1 DEF Held
      <3> QED BY <1>1, <1>3, <2>1, <3>1 DEF Ended
    <2>2. CASE e # d
      BY <1>3, <1>4, <1>5, <1>7, <2>2 DEF Held
    <2> QED BY <2>1, <2>2
  <1>13. ReadersMove
    <2> SUFFICES ASSUME NEW e \in Datas, NEW b \in Clients
                 PROVE  /\ ReaderOf(e, b)' => ReaderOf(e, b) \/ CompleteAccept(e, b)
                        /\ ReaderOf(e, b) => \/ ReaderOf(e, b)' \/ Ended(b)'
                                             \/ \E u \in Threads : Release(u) /\ at[u] = e
      BY DEF ReadersMove
    <2>1. Reading(e)' <=> Reading(e)
      BY <1>4, <1>5 DEF Reading
    <2>2. Reading(e) => ioData'[e] = ioData[e]
      BY <1>3, InHands
    <2> QED BY <2>1, <2>2 DEF ReaderOf

  <1>14. Outstanding' = Outstanding
    <2>1. \A e \in InPort : ioData'[e] = ioData[e]
      BY <1>3, InHands
    <2> QED BY <1>4, <1>5, <2>1 DEF Outstanding
  <1> QED BY <1>8, <1>9, <1>10, <1>11, <1>12, <1>13, <1>14 DEF Circulation

\* A new OverlappedData that cleanup() posts to the port itself.
LEMMA ClosePosted ==
    ASSUME Posting, PostCloseServer
    PROVE  /\ Circulation' /\ DropsEnded /\ ReadersMove
           /\ Outstanding' = Outstanding
  <1>1. PICK d \in Datas :
            /\ createOverlappedData(d, Data("CLOSE_SERVER", NoClient, <<>>))
            /\ port' = Append(port, Completion(d, "ok"))
    BY DEF PostCloseServer
  <1>2. /\ ioDataPool' = ioDataPool \ {d} /\ ioDataPosted' = ioDataPosted \cup {d}
        /\ ioData'[d].op = "CLOSE_SERVER"
        /\ \A e \in ioDataPosted : ioData'[e] = ioData[e]
    BY <1>1, Created DEF Data
  <1>3. UNCHANGED <<accepts, recvs, sends, at, thread>>
    BY DEF PostCloseServer, threads
  <1>4. \A c \in Clients : Sending(c)' = Sending(c)
    BY <1>3 DEF Sending
  <1>5. d \notin accepts /\ d \notin recvs /\ d \notin InPort
        /\ (\A c \in Clients : d \notin Sending(c)) /\ \A t \in Threads : at[t] # d
    BY <1>1, Created DEF Held
  <1>6. /\ InPort' = InPort \cup {d} /\ IsInjective(PortDatas')
        /\ Len(port') = Len(port) + 1 /\ Len(port) \in Nat
        /\ port'[Len(port) + 1] = Completion(d, "ok")
        /\ \A i \in 1..Len(port) : port'[i] = port[i]
    BY <1>1, <1>5, PortGains DEF Posting, TypeOK, Once
  <1>7. Hands'
    BY <1>2, <1>3, <1>4, <1>6 DEF Posting, Hands
  <1>8. Apart'
    BY <1>3, <1>4, <1>5, <1>6 DEF Posting, Apart
  <1>9. Once'
    BY <1>3, <1>6 DEF Posting, Once
  <1>10. Labels'
    <2>1. /\ \A e \in accepts' : ioData'[e].op = "ACCEPT" /\ ioData'[e].client = NoClient
          /\ \A e \in recvs' : ioData'[e].op = "RECEIVE" /\ ioData'[e].client \in Clients
          /\ \A c \in Clients : \A e \in Sending(c)' :
                ioData'[e].op = "SEND" /\ ioData'[e].client = c
      BY <1>2, <1>3, <1>4, InHands DEF Posting, Labels
    <2>2. PortLabel(d, "ok")'
      BY <1>2 DEF PortLabel, Operations
    <2>3. \A i \in 1..Len(port') : PortLabel(port[i].data, port[i].result)'
      BY <1>2, <1>6, <2>2, PortKeepsLabels, InHands DEF Completion
    <2>4. \A t \in Threads : at[t] # NoData => ThreadLabel(at[t], thread[t])'
      BY <1>2, <1>3, InHands, LabelsStay
    <2> QED BY <1>3, <2>1, <2>3, <2>4 DEF Labels
  <1>11. DropsEnded
    <2> SUFFICES ASSUME NEW e \in ioDataPosted', ~ Held(e)'
                 PROVE  e \in ioDataPosted /\ ~ Held(e) /\ ioData'[e] = ioData[e]
      BY DEF DropsEnded
    <2>1. e # d
      BY <1>6 DEF Held
    <2> QED BY <1>2, <1>3, <1>4, <1>6, <2>1 DEF Held
  <1>12. ReadersMove
    <2> SUFFICES ASSUME NEW e \in Datas, NEW b \in Clients
                 PROVE  /\ ReaderOf(e, b)' => ReaderOf(e, b) \/ CompleteAccept(e, b)
                        /\ ReaderOf(e, b) => \/ ReaderOf(e, b)' \/ Ended(b)'
                                             \/ \E u \in Threads : Release(u) /\ at[u] = e
      BY DEF ReadersMove
    <2>1. e # d => (Reading(e)' <=> Reading(e))
      BY <1>3, <1>6 DEF Reading
    <2>2. Reading(e) => e # d /\ ioData'[e] = ioData[e]
      BY <1>1, <1>2, Created, InHands
    <2> QED BY <1>2, <2>1, <2>2 DEF ReaderOf

  <1>13. Outstanding' = Outstanding
    <2>1. \A e \in InPort : ioData'[e] = ioData[e]
      BY <1>2, InHands
    <2> QED BY <1>2, <1>3, <1>6, <2>1 DEF Outstanding
  <1> QED BY <1>7, <1>8, <1>9, <1>10, <1>11, <1>12, <1>13 DEF Circulation

\* The system completes an AcceptEx with a connection,
LEMMA AcceptDone ==
    ASSUME Posting, NEW d \in Datas, NEW c \in Clients, CompleteAccept(d, c)
    PROVE  /\ Circulation' /\ DropsEnded /\ ReadersMove
           /\ Outstanding' = Outstanding
  <1>1. /\ d \in accepts /\ accepts' = accepts \ {d}
        /\ port' = Append(port, Completion(d, "ok"))
        /\ UNCHANGED <<recvs, sends, ioDataPool, ioDataPosted, at, thread>>
    BY DEF CompleteAccept, threads
  <1>2. /\ ioData'[d].op = "ACCEPT" /\ ioData'[d].client = c
        /\ \A e \in Datas : e # d => ioData'[e] = ioData[e]
    <2>1. ioData' = [ioData EXCEPT ![d].client = c] /\ ioData[d].op = "ACCEPT"
      BY <1>1 DEF CompleteAccept, Posting, Labels
    <2> QED BY <2>1 DEF Posting, TypeOK, DatasOK
  <1>3. \A e \in Clients : Sending(e)' = Sending(e)
    BY <1>1 DEF Sending
  <1>4. d \notin recvs /\ d \notin InPort /\ d \in ioDataPosted
        /\ (\A e \in Clients : d \notin Sending(e)) /\ \A t \in Threads : at[t] # d
    BY <1>1, InHands DEF Posting, Apart
  <1>5. /\ InPort' = InPort \cup {d} /\ IsInjective(PortDatas')
        /\ Len(port') = Len(port) + 1 /\ Len(port) \in Nat
        /\ port'[Len(port) + 1] = Completion(d, "ok")
        /\ \A i \in 1..Len(port) : port'[i] = port[i]
    BY <1>1, <1>4, PortGains DEF Posting, TypeOK, Once
  <1>6. Hands'
    BY <1>1, <1>3, <1>4, <1>5 DEF Posting, Hands
  <1>7. Apart'
    BY <1>1, <1>3, <1>4, <1>5 DEF Posting, Apart
  <1>8. Once'
    BY <1>1, <1>5 DEF Posting, Once
  <1>9. Labels'
    <2>1. \A e \in ioDataPosted : e # d => ioData'[e] = ioData[e]
      BY <1>2, InHands
    <2>2. /\ \A e \in accepts' : ioData'[e].op = "ACCEPT" /\ ioData'[e].client = NoClient
          /\ \A e \in recvs' : ioData'[e].op = "RECEIVE" /\ ioData'[e].client \in Clients
          /\ \A b \in Clients : \A e \in Sending(b)' :
                ioData'[e].op = "SEND" /\ ioData'[e].client = b
      BY <1>1, <1>3, <1>4, <2>1, InHands DEF Posting, Labels
    <2>3. PortLabel(d, "ok")'
      BY <1>2 DEF PortLabel, Operations
    <2>4. \A i \in 1..Len(port) : ioData'[port[i].data] = ioData[port[i].data]
      BY <1>4, <2>1, InHands
    <2>5. \A i \in 1..Len(port') : PortLabel(port[i].data, port[i].result)'
      BY <1>5, <2>3, <2>4, PortKeepsLabels
    <2>6. \A t \in Threads : at[t] # NoData => ThreadLabel(at[t], thread[t])'
      BY <1>1, <1>4, <2>1, <2>4, InHands, LabelsStay
    <2> QED BY <1>1, <2>2, <2>5, <2>6 DEF Labels
  <1>10. DropsEnded
    <2> SUFFICES ASSUME NEW e \in ioDataPosted', ~ Held(e)'
                 PROVE  e \in ioDataPosted /\ ~ Held(e) /\ ioData'[e] = ioData[e]
      BY DEF DropsEnded
    <2>1. e # d
      BY <1>5 DEF Held
    <2> QED BY <1>1, <1>2, <1>3, <1>5, <2>1, InHands DEF Held
  <1>11. ReadersMove
    <2> SUFFICES ASSUME NEW e \in Datas, NEW b \in Clients
                 PROVE  /\ ReaderOf(e, b)' => ReaderOf(e, b) \/ CompleteAccept(e, b)
                        /\ ReaderOf(e, b) => \/ ReaderOf(e, b)' \/ Ended(b)'
                                             \/ \E u \in Threads : Release(u) /\ at[u] = e
      BY DEF ReadersMove
    <2>1. e # d => (Reading(e)' <=> Reading(e)) /\ ioData'[e] = ioData[e]
      BY <1>1, <1>2, <1>5 DEF Reading
    <2>2. ~ Reading(d)
      BY <1>1, <1>4 DEF Reading
    <2>3. ReaderOf(d, b)' => b = c
      BY <1>2 DEF ReaderOf
    <2> QED BY <2>1, <2>2, <2>3 DEF ReaderOf

  <1>12. Outstanding' = Outstanding
    <2>1. \A e \in InPort : e # d /\ ioData'[e] = ioData[e]
      BY <1>2, <1>4, InHands
    <2> QED BY <1>1, <1>2, <1>5, <2>1 DEF Outstanding
  <1> QED BY <1>6, <1>7, <1>8, <1>9, <1>10, <1>11, <1>12 DEF Circulation

\* a WSARecv with bytes or a result,
LEMMA ReceiveDone ==
    ASSUME Posting, NEW d \in Datas, CompleteReceive(d)
    PROVE  /\ Circulation' /\ DropsEnded /\ ReadersMove
           /\ Outstanding' = Outstanding
  <1>1. /\ d \in recvs /\ recvs' = recvs \ {d}
        /\ UNCHANGED <<accepts, sends, ioDataPool, ioDataPosted, at, thread>>
    BY DEF CompleteReceive, threads
  <1>2. PICK r \in {"ok", "zero", "error", "aborted"} : port' = Append(port, Completion(d, r))
    BY DEF CompleteReceive
  <1>3. /\ ioData'[d].op = "RECEIVE" /\ ioData'[d].client \in Clients
        /\ ioData[d].op = "RECEIVE" /\ ioData'[d].client = ioData[d].client
        /\ \A e \in Datas : e # d => ioData'[e] = ioData[e]
    <2>1. ioData[d].op = "RECEIVE" /\ ioData[d].client \in Clients
      BY <1>1 DEF Posting, Labels
    <2>2. ioData' = ioData \/ \E bytes : ioData' = [ioData EXCEPT ![d].bytes = bytes]
      BY DEF CompleteReceive
    <2>3. CASE ioData' = ioData
      BY <2>1, <2>3
    <2>4. ASSUME NEW bytes, ioData' = [ioData EXCEPT ![d].bytes = bytes]
          PROVE  /\ ioData'[d].op = ioData[d].op /\ ioData'[d].client = ioData[d].client
                 /\ \A e \in Datas : e # d => ioData'[e] = ioData[e]
      BY <2>4 DEF Posting, TypeOK, DatasOK
    <2> QED BY <2>1, <2>2, <2>3, <2>4
  <1>4. \A e \in Clients : Sending(e)' = Sending(e)
    BY <1>1 DEF Sending
  <1>5. d \notin accepts /\ d \notin InPort /\ d \in ioDataPosted
        /\ (\A e \in Clients : d \notin Sending(e)) /\ \A t \in Threads : at[t] # d
    BY <1>1, InHands DEF Posting, Apart
  <1>6. /\ InPort' = InPort \cup {d} /\ IsInjective(PortDatas')
        /\ Len(port') = Len(port) + 1 /\ Len(port) \in Nat
        /\ port'[Len(port) + 1] = Completion(d, r)
        /\ \A i \in 1..Len(port) : port'[i] = port[i]
    BY <1>2, <1>5, PortGains DEF Posting, TypeOK, Once
  <1>7. Hands'
    BY <1>1, <1>4, <1>5, <1>6 DEF Posting, Hands
  <1>8. Apart'
    BY <1>1, <1>4, <1>5, <1>6 DEF Posting, Apart
  <1>9. Once'
    BY <1>1, <1>6 DEF Posting, Once
  <1>10. Labels'
    <2>1. \A e \in ioDataPosted : e # d => ioData'[e] = ioData[e]
      BY <1>3, InHands
    <2>2. /\ \A e \in accepts' : ioData'[e].op = "ACCEPT" /\ ioData'[e].client = NoClient
          /\ \A e \in recvs' : ioData'[e].op = "RECEIVE" /\ ioData'[e].client \in Clients
          /\ \A b \in Clients : \A e \in Sending(b)' :
                ioData'[e].op = "SEND" /\ ioData'[e].client = b
      BY <1>1, <1>4, <1>5, <2>1, InHands DEF Posting, Labels
    <2>3. PortLabel(d, r)'
      BY <1>3 DEF PortLabel, Operations
    <2>4. \A i \in 1..Len(port) : ioData'[port[i].data] = ioData[port[i].data]
      BY <1>5, <2>1, InHands
    <2>5. \A i \in 1..Len(port') : PortLabel(port[i].data, port[i].result)'
      BY <1>6, <2>3, <2>4, PortKeepsLabels
    <2>6. \A t \in Threads : at[t] # NoData => ThreadLabel(at[t], thread[t])'
      BY <1>1, <1>5, <2>1, <2>4, InHands, LabelsStay
    <2> QED BY <1>1, <2>2, <2>5, <2>6 DEF Labels
  <1>11. DropsEnded
    <2> SUFFICES ASSUME NEW e \in ioDataPosted', ~ Held(e)'
                 PROVE  e \in ioDataPosted /\ ~ Held(e) /\ ioData'[e] = ioData[e]
      BY DEF DropsEnded
    <2>1. e # d
      BY <1>6 DEF Held
    <2> QED BY <1>1, <1>3, <1>4, <1>6, <2>1, InHands DEF Held
  <1>12. ReadersMove
    <2> SUFFICES ASSUME NEW e \in Datas, NEW b \in Clients
                 PROVE  /\ ReaderOf(e, b)' => ReaderOf(e, b) \/ CompleteAccept(e, b)
                        /\ ReaderOf(e, b) => \/ ReaderOf(e, b)' \/ Ended(b)'
                                             \/ \E u \in Threads : Release(u) /\ at[u] = e
      BY DEF ReadersMove
    <2>1. e # d => (Reading(e)' <=> Reading(e)) /\ ioData'[e] = ioData[e]
      BY <1>1, <1>3, <1>6 DEF Reading
    <2>2. Reading(d) /\ Reading(d)'
      BY <1>1, <1>6 DEF Reading
    <2>3. ReaderOf(d, b)' <=> ReaderOf(d, b)
      BY <1>3, <2>2 DEF ReaderOf
    <2> QED BY <2>1, <2>3 DEF ReaderOf

  <1>13. Outstanding' = Outstanding
    <2>1. \A e \in InPort : e # d /\ ioData'[e] = ioData[e]
      BY <1>3, <1>5, InHands
    <2> QED BY <1>1, <1>3, <1>6, <2>1 DEF Outstanding
  <1> QED BY <1>7, <1>8, <1>9, <1>10, <1>11, <1>12, <1>13 DEF Circulation

\* or the oldest WSASend of a client.
LEMMA SendDone ==
    ASSUME Posting, NEW c \in Clients, CompleteSend(c)
    PROVE  /\ Circulation' /\ DropsEnded /\ ReadersMove
           /\ Outstanding' = Outstanding
  <1> DEFINE d == Head(sends[c])
  <1>1. /\ sends[c] # <<>> /\ sends' = [sends EXCEPT ![c] = Tail(sends[c])]
        /\ UNCHANGED <<accepts, recvs, ioData, ioDataPool, ioDataPosted, at, thread>>
    BY DEF CompleteSend, threads, datas
  <1>2. /\ sends[c] \in Seq(Datas) /\ sends \in [Clients -> Seq(Datas)]
        /\ IsInjective(sends[c])
    BY DEF Posting, TypeOK, PostedOK, Once
  <1>3. /\ d \in Sending(c) /\ d \in Datas
        /\ Sending(c)' = Sending(c) \ {d} /\ IsInjective(sends'[c])
    <2>1. sends'[c] = Tail(sends[c])
      BY <1>1, <1>2
    <2> QED BY <1>1, <1>2, <2>1, TailFresh DEF Sending
  <1>4. \A e \in Clients : e # c => Sending(e)' = Sending(e) /\ sends'[e] = sends[e]
    BY <1>1, <1>2 DEF Sending
  <1>5. PICK r \in {"ok", "zero", "error", "aborted"} : port' = Append(port, Completion(d, r))
    BY DEF CompleteSend
  <1>6. PICK x \in Datas : x = d
    BY <1>3
  <1>7. /\ x \notin accepts /\ x \notin recvs /\ x \notin InPort /\ x \in ioDataPosted
        /\ (\A e \in Clients : e # c => x \notin Sending(e)) /\ \A t \in Threads : at[t] # x
        /\ ioData[x].op = "SEND" /\ ioData[x].client \in Clients
        /\ Sending(c)' = Sending(c) \ {x} /\ x \in Sending(c)
    BY <1>3, <1>6, InHands DEF Posting, Apart, Labels
  <1>8. /\ InPort' = InPort \cup {x} /\ IsInjective(PortDatas')
        /\ Len(port') = Len(port) + 1 /\ Len(port) \in Nat
        /\ port'[Len(port) + 1] = Completion(x, r)
        /\ \A i \in 1..Len(port) : port'[i] = port[i]
    BY <1>5, <1>6, <1>7, PortGains DEF Posting, TypeOK, Once
  <1> HIDE DEF d
  <1>9. \A e \in Clients : Sending(e)' \subseteq Sending(e) /\ x \notin Sending(e)'
    BY <1>4, <1>7
  <1>10. Hands'
    <2>1. \A e \in Clients : Sending(e)' \subseteq ioDataPosted'
      BY <1>1, <1>9 DEF Posting, Hands
    <2> QED BY <1>1, <1>7, <1>8, <2>1 DEF Posting, Hands
  <1>11. Apart'
    <2>1. \A e \in Clients : Sending(e)' \cap (accepts' \cup recvs' \cup InPort') = {}
      BY <1>1, <1>8, <1>9 DEF Posting, Apart
    <2>2. \A e, b \in Clients : e # b => Sending(e)' \cap Sending(b)' = {}
      BY <1>9 DEF Posting, Apart
    <2>3. \A t \in Threads, e \in Clients : at'[t] \notin Sending(e)'
      BY <1>1, <1>9 DEF Posting, Apart
    <2> QED BY <1>1, <1>7, <1>8, <2>1, <2>2, <2>3 DEF Posting, Apart
  <1>12. Once'
    BY <1>3, <1>4, <1>8 DEF Posting, Once
  <1>13. Labels'
    <2>1. /\ \A e \in accepts' : ioData'[e].op = "ACCEPT" /\ ioData'[e].client = NoClient
          /\ \A e \in recvs' : ioData'[e].op = "RECEIVE" /\ ioData'[e].client \in Clients
          /\ \A b \in Clients : \A e \in Sending(b)' :
                ioData'[e].op = "SEND" /\ ioData'[e].client = b
      BY <1>1, <1>9 DEF Posting, Labels
    <2>2. PortLabel(x, r)'
      BY <1>1, <1>7 DEF PortLabel, Operations
    <2>3. \A i \in 1..Len(port') : PortLabel(port[i].data, port[i].result)'
      BY <1>1, <1>8, <2>2, PortKeepsLabels
    <2>4. \A t \in Threads : at[t] # NoData => ThreadLabel(at[t], thread[t])'
      BY <1>1, LabelsStay
    <2> QED BY <1>1, <2>1, <2>3, <2>4 DEF Labels
  <1>14. DropsEnded
    <2> SUFFICES ASSUME NEW e \in ioDataPosted', ~ Held(e)'
                 PROVE  e \in ioDataPosted /\ ~ Held(e) /\ ioData'[e] = ioData[e]
      BY DEF DropsEnded
    <2>1. e # x
      BY <1>8 DEF Held
    <2> QED BY <1>1, <1>4, <1>7, <1>8, <2>1 DEF Held
  <1>15. ReadersMove
    <2> SUFFICES ASSUME NEW e \in Datas, NEW b \in Clients
                 PROVE  /\ ReaderOf(e, b)' => ReaderOf(e, b) \/ CompleteAccept(e, b)
                        /\ ReaderOf(e, b) => \/ ReaderOf(e, b)' \/ Ended(b)'
                                             \/ \E u \in Threads : Release(u) /\ at[u] = e
      BY DEF ReadersMove
    <2>1. e # x => (Reading(e)' <=> Reading(e))
      BY <1>1, <1>8 DEF Reading
    <2> QED BY <1>1, <1>7, <2>1 DEF ReaderOf

  <1>16. Outstanding' = Outstanding
    BY <1>1, <1>7, <1>8 DEF Outstanding
  <1> QED BY <1>10, <1>11, <1>12, <1>13, <1>14, <1>15, <1>16 DEF Circulation

\* A thread takes the first completion of the port,
LEMMA Taken ==
    ASSUME Posting, NEW t \in Threads, GetQueuedCompletionStatus(t)
    PROVE  /\ Circulation' /\ DropsEnded /\ ReadersMove
           /\ Outstanding' = Outstanding \ {Head(port).data}
  <1> DEFINE where == Serves(ioData[Head(port).data].op, Head(port).result)
  <1>1. PICK d \in Datas : d = Head(port).data
    BY TakenData DEF GetQueuedCompletionStatus
  <1>2. /\ port # <<>> /\ port' = Tail(port)
        /\ UNCHANGED <<accepts, recvs, sends, ioData, ioDataPool, ioDataPosted>>
    BY DEF GetQueuedCompletionStatus, datas
  <1>3. thread[t] = "wait" /\ at[t] = NoData
    BY DEF GetQueuedCompletionStatus, Goto, Posting, Control, Serving
  <1>4. /\ at'[t] = d /\ \A u \in Threads : u # t => at'[u] = at[u]
        /\ thread'[t] = where /\ \A u \in Threads : u # t => thread'[u] = thread[u]
    BY <1>1 DEF GetQueuedCompletionStatus, Goto, Posting, TypeOK, ThreadsOK
  <1>5. ThreadLabel(d, where)
    BY <1>1, <1>2, TakenData
  <1> HIDE DEF where
  <1>6. /\ d \in InPort /\ InPort' = InPort \ {d} /\ IsInjective(PortDatas')
        /\ Len(port) \in Nat \ {0} /\ Len(port') = Len(port) - 1
        /\ \A i \in 1..Len(port) - 1 : port'[i] = port[i + 1]
    BY <1>1, <1>2, PortLoses DEF Posting, TypeOK, Once
  <1>7. /\ d \notin accepts /\ d \notin recvs /\ d \in ioDataPosted
        /\ (\A e \in Clients : d \notin Sending(e)) /\ \A u \in Threads : at[u] # d
    BY <1>6, InHands DEF Posting, Apart
  <1>8. \A e \in Clients : Sending(e)' = Sending(e)
    BY <1>2 DEF Sending
  <1>9. Hands'
    BY <1>2, <1>4, <1>6, <1>7, <1>8 DEF Posting, Hands
  <1>10. Apart'
    <2>1. \A u \in Threads : at'[u] \notin accepts' \cup recvs' \cup InPort'
      BY <1>2, <1>4, <1>6, <1>7 DEF Posting, Apart
    <2>2. \A u \in Threads, c \in Clients : at'[u] \notin Sending(c)'
      BY <1>4, <1>7, <1>8 DEF Posting, Apart
    <2>3. \A u, v \in Threads : u # v /\ at'[u] # NoData => at'[u] # at'[v]
      BY <1>4, <1>7 DEF Posting, Apart
    <2> QED BY <1>2, <1>6, <1>8, <2>1, <2>2, <2>3 DEF Posting, Apart
  <1>11. Once'
    BY <1>2, <1>6 DEF Posting, Once
  <1>12. Labels'
    <2>1. /\ \A e \in accepts' : ioData'[e].op = "ACCEPT" /\ ioData'[e].client = NoClient
          /\ \A e \in recvs' : ioData'[e].op = "RECEIVE" /\ ioData'[e].client \in Clients
          /\ \A b \in Clients : \A e \in Sending(b)' :
                ioData'[e].op = "SEND" /\ ioData'[e].client = b
      BY <1>2, <1>8 DEF Posting, Labels
    <2>2. \A i \in 1..Len(port') : PortLabel(port[i].data, port[i].result)'
      <3>1. \A i \in 1..Len(port) : PortLabel(port[i].data, port[i].result)
        BY DEF Posting, Labels
      <3>2. ASSUME NEW i \in 1..Len(port')
            PROVE  i + 1 \in 1..Len(port) /\ port'[i] = port[i + 1]
        BY <1>6
      <3>3. ASSUME NEW i \in 1..Len(port') PROVE PortLabel(port[i].data, port[i].result)'
        <4>1. PortLabel(port[i + 1].data, port[i + 1].result)
          BY <3>1, <3>2
        <4> QED BY <1>2, <3>2, <4>1 DEF PortLabel
      <3> QED BY <3>3
    <2>3. ASSUME NEW u \in Threads, at'[u] # NoData PROVE ThreadLabel(at[u], thread[u])'
      <3>1. CASE u = t
        BY <1>2, <1>4, <1>5, <3>1 DEF ThreadLabel
      <3>2. CASE u # t
        <4>1. at'[u] = at[u] /\ thread'[u] = thread[u] /\ ThreadLabel(at[u], thread[u])
          BY <1>4, <2>3, <3>2 DEF Posting, Labels
        <4> QED BY <1>2, <4>1 DEF ThreadLabel
      <3> QED BY <3>1, <3>2
    <2> QED BY <2>1, <2>2, <2>3 DEF Labels
  <1>13. DropsEnded
    <2> SUFFICES ASSUME NEW e \in ioDataPosted', ~ Held(e)'
                 PROVE  e \in ioDataPosted /\ ~ Held(e) /\ ioData'[e] = ioData[e]
      BY DEF DropsEnded
    <2>1. e # d /\ e \in Datas
      BY <1>2, <1>4, InHands DEF Held
    <2>2. \A u \in Threads : at[u] # e
      BY <1>3, <1>4, <2>1, InHands, IOCPAssumption DEF Held
    <2> QED BY <1>2, <1>6, <1>8, <2>1, <2>2 DEF Held
  <1>14. ReadersMove
    <2> SUFFICES ASSUME NEW e \in Datas, NEW b \in Clients
                 PROVE  /\ ReaderOf(e, b)' => ReaderOf(e, b) \/ CompleteAccept(e, b)
                        /\ ReaderOf(e, b) => \/ ReaderOf(e, b)' \/ Ended(b)'
                                             \/ \E u \in Threads : Release(u) /\ at[u] = e
      BY DEF ReadersMove
    <2>1. e # d => (Reading(e)' <=> Reading(e))
      BY <1>2, <1>3, <1>4, <1>6, IOCPAssumption DEF Reading
    <2>2. Reading(d) /\ Reading(d)'
      BY <1>4, <1>6 DEF Reading
    <2> QED BY <1>2, <2>1, <2>2 DEF ReaderOf

  <1>15. Outstanding' = Outstanding \ {Head(port).data}
    BY <1>1, <1>2, <1>6, <1>7 DEF Outstanding
  <1> QED BY <1>9, <1>10, <1>11, <1>12, <1>13, <1>14, <1>15 DEF Circulation

\* gives it back to the pool,
LEMMA Released ==
    ASSUME Posting, NEW t \in Threads, Release(t)
    PROVE  /\ Circulation' /\ DropsEnded /\ ReadersMove
           /\ Outstanding' = Outstanding
  <1>1. PICK d \in Datas : d = at[t]
    BY ServesData DEF Release, Goto, Serving
  <1>2. /\ d # NoData /\ d \in ioDataPosted
    BY <1>1, ServesData DEF Release, Goto, Serving
  <1>3. /\ ioDataPosted' = ioDataPosted \ {d} /\ ioDataPool' \subseteq ioDataPool \cup {d}
        /\ \A e \in Datas : e # d => ioData'[e] = ioData[e]
    BY <1>1 DEF Release, releaseOverlappedData, Posting, TypeOK, DatasOK
  <1>4. UNCHANGED <<accepts, recvs, sends, port>>
    BY DEF Release, posted
  <1>5. /\ at'[t] = NoData /\ \A u \in Threads : u # t => at'[u] = at[u] /\ at[u] # d
        /\ \A u \in Threads : u # t => thread'[u] = thread[u]
    BY <1>1, <1>2 DEF Release, Goto, Posting, TypeOK, ThreadsOK, Apart
  <1>6. InPort' = InPort /\ PortDatas' = PortDatas /\ \A c \in Clients : Sending(c)' = Sending(c)
    BY <1>4 DEF InPort, PortDatas, Sending
  <1>7. /\ d \notin accepts /\ d \notin recvs /\ d \notin InPort
        /\ \A c \in Clients : d \notin Sending(c)
    BY <1>1 DEF Posting, Apart
  <1>8. Hands'
    BY <1>3, <1>4, <1>5, <1>6, <1>7 DEF Posting, Hands
  <1>9. Apart'
    BY <1>4, <1>5, <1>6, InHands DEF Posting, Apart
  <1>10. Once'
    BY <1>4, <1>6 DEF Posting, Once
  <1>11. Labels'
    <2>1. \A e \in ioDataPosted : e # d => ioData'[e] = ioData[e]
      BY <1>3, InHands
    <2>2. /\ \A e \in accepts' : ioData'[e].op = "ACCEPT" /\ ioData'[e].client = NoClient
          /\ \A e \in recvs' : ioData'[e].op = "RECEIVE" /\ ioData'[e].client \in Clients
          /\ \A b \in Clients : \A e \in Sending(b)' :
                ioData'[e].op = "SEND" /\ ioData'[e].client = b
      BY <1>4, <1>6, <1>7, <2>1, InHands DEF Posting, Labels
    <2>3. \A i \in 1..Len(port) : ioData'[port[i].data] = ioData[port[i].data]
      BY <1>7, <2>1, InHands
    <2>4. \A u \in Threads \ {t} : at[u] # NoData => ioData'[at[u]] = ioData[at[u]]
      BY <1>5, <2>1, InHands
    <2>5. /\ \A i \in 1..Len(port') : PortLabel(port[i].data, port[i].result)'
          /\ \A u \in Threads \ {t} : at[u] # NoData => ThreadLabel(at[u], thread[u])'
      <3>1. Threads \ {t} \in SUBSET Threads
        OBVIOUS
      <3> QED BY <1>4, <1>5, <2>3, <2>4, <3>1, LabelsStay
    <2> QED BY <1>5, <2>2, <2>5 DEF Labels
  <1>12. DropsEnded
    <2> SUFFICES ASSUME NEW e \in ioDataPosted', ~ Held(e)'
                 PROVE  e \in ioDataPosted /\ ~ Held(e) /\ ioData'[e] = ioData[e]
      BY DEF DropsEnded
    <2>1. e # d /\ e \in Datas /\ \A u \in Threads : at[u] # e
      BY <1>1, <1>3, <1>5, InHands DEF Held
    <2> QED BY <1>3, <1>4, <1>6, <2>1 DEF Held
  <1>13. ReadersMove
    <2> SUFFICES ASSUME NEW e \in Datas, NEW b \in Clients
                 PROVE  /\ ReaderOf(e, b)' => ReaderOf(e, b) \/ CompleteAccept(e, b)
                        /\ ReaderOf(e, b) => \/ ReaderOf(e, b)' \/ Ended(b)'
                                             \/ \E u \in Threads : Release(u) /\ at[u] = e
      BY DEF ReadersMove
    <2>1. e # d => (Reading(e)' <=> Reading(e)) /\ ioData'[e] = ioData[e]
      <3>1. \A u \in Threads : (at[u] = e /\ e # d) <=> (at'[u] = e /\ e # d)
        BY <1>1, <1>5, IOCPAssumption
      <3> QED BY <1>3, <1>4, <1>6, <3>1 DEF Reading
    <2>2. ~ Reading(d)'
      BY <1>2, <1>4, <1>5, <1>6, <1>7 DEF Reading
    <2> QED BY <1>1, <2>1, <2>2 DEF ReaderOf

  <1>14. Outstanding' = Outstanding
    <2>1. \A e \in InPort : e # d /\ ioData'[e] = ioData[e]
      BY <1>3, <1>7, InHands
    <2> QED BY <1>4, <1>6, <2>1 DEF Outstanding
  <1> QED BY <1>8, <1>9, <1>10, <1>11, <1>12, <1>13, <1>14 DEF Circulation

\* or posts it again, for the next receive.
LEMMA ReceivePosted ==
    ASSUME Posting, NEW t \in Threads, FirstReceive(t) \/ NextReceive(t)
    PROVE  /\ Circulation' /\ DropsEnded /\ ReadersMove
           /\ Outstanding' = Outstanding
  <1>1. PICK d \in Datas : d = at[t]
    BY ServesData DEF FirstReceive, NextReceive, Goto, Serving
  <1>2. PICK c \in Clients : c = client(t)
    BY ServesData DEF FirstReceive, NextReceive, Goto, Serving
  <1>3. d # NoData /\ d \in ioDataPosted
    BY <1>1, ServesData DEF FirstReceive, NextReceive, Goto, Serving
  <1>4. UNCHANGED <<accepts, sends, port, ioDataPool, ioDataPosted, gone, destroyed>>
    BY DEF FirstReceive, NextReceive, peers, histories
  <1>5. /\ ioData'[d].op = "RECEIVE" /\ ioData'[d].client = c
        /\ \A e \in Datas : e # d => ioData'[e] = ioData[e]
    BY <1>1, <1>2 DEF FirstReceive, NextReceive, PostReceive, Data, Posting, TypeOK, DatasOK
  <1>6. /\ at'[t] = NoData /\ \A u \in Threads : u # t => at'[u] = at[u] /\ at[u] # d
        /\ \A u \in Threads : u # t => thread'[u] = thread[u]
    BY <1>1, <1>3 DEF FirstReceive, NextReceive, PostReceive, Goto, Posting, TypeOK,
                      ThreadsOK, Apart
  <1>7. recvs' = recvs \cup {d} \/ (recvs' = recvs /\ Ended(c)')
    BY <1>1, <1>2, <1>4 DEF FirstReceive, NextReceive, PostReceive, Ended
  <1>8. InPort' = InPort /\ PortDatas' = PortDatas /\ \A e \in Clients : Sending(e)' = Sending(e)
    BY <1>4 DEF InPort, PortDatas, Sending
  <1>9. /\ d \notin accepts /\ d \notin recvs /\ d \notin InPort
        /\ \A e \in Clients : d \notin Sending(e)
    BY <1>1 DEF Posting, Apart
  <1>10. Hands'
    BY <1>3, <1>4, <1>6, <1>7, <1>8 DEF Posting, Hands
  <1>11. Apart'
    <2>1. recvs' \subseteq recvs \cup {d}
      BY <1>7
    <2>2. \A u \in Threads : at'[u] \notin accepts' \cup recvs' \cup InPort'
      BY <1>3, <1>4, <1>6, <1>8, <2>1, InHands DEF Posting, Apart
    <2>3. \A e \in Clients : Sending(e)' \cap (accepts' \cup recvs' \cup InPort') = {}
      BY <1>4, <1>8, <1>9, <2>1 DEF Posting, Apart
    <2>4. \A u \in Threads, e \in Clients : at'[u] \notin Sending(e)'
      BY <1>6, <1>8, InHands DEF Posting, Apart
    <2>5. \A u, v \in Threads : u # v /\ at'[u] # NoData => at'[u] # at'[v]
      BY <1>6 DEF Posting, Apart
    <2> QED BY <1>4, <1>8, <1>9, <2>1, <2>2, <2>3, <2>4, <2>5 DEF Posting, Apart
  <1>12. Once'
    BY <1>4, <1>8 DEF Posting, Once
  <1>13. Labels'
    <2>1. \A e \in ioDataPosted : e # d => ioData'[e] = ioData[e]
      BY <1>5, InHands
    <2>2. /\ \A e \in accepts' : ioData'[e].op = "ACCEPT" /\ ioData'[e].client = NoClient
          /\ \A b \in Clients : \A e \in Sending(b)' :
                ioData'[e].op = "SEND" /\ ioData'[e].client = b
      BY <1>4, <1>8, <1>9, <2>1, InHands DEF Posting, Labels
    <2>3. \A e \in recvs' : ioData'[e].op = "RECEIVE" /\ ioData'[e].client \in Clients
      BY <1>5, <1>7, <1>9, <2>1, InHands DEF Posting, Labels
    <2>4. \A i \in 1..Len(port) : ioData'[port[i].data] = ioData[port[i].data]
      BY <1>9, <2>1, InHands
    <2>5. \A u \in Threads \ {t} : at[u] # NoData => ioData'[at[u]] = ioData[at[u]]
      BY <1>6, <2>1, InHands
    <2>6. /\ \A i \in 1..Len(port') : PortLabel(port[i].data, port[i].result)'
          /\ \A u \in Threads \ {t} : at[u] # NoData => ThreadLabel(at[u], thread[u])'
      <3>1. Threads \ {t} \in SUBSET Threads
        OBVIOUS
      <3> QED BY <1>4, <1>6, <2>4, <2>5, <3>1, LabelsStay
    <2> QED BY <1>6, <2>2, <2>3, <2>6 DEF Labels
  <1>14. DropsEnded
    <2> SUFFICES ASSUME NEW e \in ioDataPosted', ~ Held(e)'
                 PROVE  \/ e \in ioDataPosted /\ ~ Held(e) /\ ioData'[e] = ioData[e]
                        \/ Ended(ioData[e].client)'
      BY DEF DropsEnded
    <2>1. CASE e = d
      <3>1. Ended(c)'
        BY <1>7, <2>1 DEF Held
      <3> QED BY <1>5, <2>1, <3>1
    <2>2. CASE e # d
      <3>1. e \in Datas /\ \A u \in Threads : at[u] # e
        BY <1>1, <1>4, <1>6, <2>2, InHands DEF Held
      <3> QED BY <1>4, <1>5, <1>7, <1>8, <2>2, <3>1 DEF Held
    <2> QED BY <2>1, <2>2
  <1>15. ReadersMove
    <2> SUFFICES ASSUME NEW e \in Datas, NEW b \in Clients
                 PROVE  /\ ReaderOf(e, b)' => ReaderOf(e, b) \/ CompleteAccept(e, b)
                        /\ ReaderOf(e, b) => \/ ReaderOf(e, b)' \/ Ended(b)'
                                             \/ \E u \in Threads : Release(u) /\ at[u] = e
      BY DEF ReadersMove
    <2>1. e # d => (Reading(e)' <=> Reading(e)) /\ ioData'[e] = ioData[e]
      <3>1. \A u \in Threads : (at[u] = e /\ e # d) <=> (at'[u] = e /\ e # d)
        BY <1>1, <1>6, IOCPAssumption
      <3> QED BY <1>4, <1>5, <1>7, <1>8, <3>1 DEF Reading
    <2>2. ReaderOf(d, c)
      <3>1. ThreadLabel(d, thread[t]) /\ thread[t] \in {"firstrecv", "nextrecv"}
        BY <1>1, ServesData DEF FirstReceive, NextReceive, Goto, Serving
      <3> QED BY <1>1, <1>2, <3>1 DEF ThreadLabel, ReaderOf, Reading, client
    <2>3. ReaderOf(d, c)' \/ Ended(c)'
      BY <1>5, <1>7 DEF ReaderOf, Reading
    <2>4. ReaderOf(d, b) \/ ReaderOf(d, b)' => b = c
      BY <1>5, <2>2 DEF ReaderOf
    <2> QED BY <2>1, <2>2, <2>3, <2>4 DEF ReaderOf

  <1>16. Outstanding' = Outstanding
    <2>1. \A e \in InPort : e # d /\ ioData'[e] = ioData[e]
      BY <1>5, <1>9, InHands
    <2> QED BY <1>4, <1>8, <2>1 DEF Outstanding
  <1> QED BY <1>10, <1>11, <1>12, <1>13, <1>14, <1>15, <1>16 DEF Circulation

\* A thread goes on in the handler of an operation.
LEMMA Handled ==
    ASSUME Posting, NEW t \in Threads,
           \/ Closing(t) \/ Accept(t) \/ AddClient(t) \/ Receive(t) \/ Write(t)
           \/ SetNewData(t)
    PROVE  /\ Circulation' /\ DropsEnded /\ ReadersMove
           /\ Outstanding' = Outstanding
  <1>1. UNCHANGED <<posted, datas, at>>
    BY DEF Closing, Accept, AddClient, Receive, Write, SetNewData
  <1>2. PICK to : thread' = [thread EXCEPT ![t] = to] /\
            \/ thread[t] \in {"closing", "accept", "receive"} /\ to = "release"
            \/ thread[t] = "accept" /\ to = "add"
            \/ thread[t] = "add" /\ to = "firstrecv"
            \/ thread[t] = "receive" /\ to = "write"
            \/ thread[t] = "write" /\ to = "setnew"
            \/ thread[t] = "setnew" /\ to = "nextrecv"
    BY DEF Closing, Accept, AddClient, Receive, Write, SetNewData, Goto
  <1>3. /\ thread'[t] = to /\ \A u \in Threads : u # t => thread'[u] = thread[u]
        /\ UNCHANGED <<ioData, at>>
    BY <1>1, <1>2 DEF Posting, TypeOK, ThreadsOK, datas
  <1>4. \A u \in Threads : at[u] # NoData => ThreadLabel(at[u], thread[u])
    BY DEF Posting, Labels
  <1>5. ASSUME NEW u \in Threads, at[u] # NoData PROVE ThreadLabel(at[u], thread[u])'
    <2>1. ThreadLabel(at[u], thread[u])
      BY <1>4, <1>5
    <2>2. CASE u = t
      BY <1>2, <1>3, <2>1, <2>2 DEF ThreadLabel
    <2>3. CASE u # t
      BY <1>3, <2>1, <2>3 DEF ThreadLabel
    <2> QED BY <2>2, <2>3
  <1> QED BY <1>1, <1>5, SameHands

LEMMA NextCirculation == Posting /\ [Next]_vars => Circulation' /\ DropsEnded /\ ReadersMove
  <1> SUFFICES ASSUME Posting, [Next]_vars PROVE Circulation' /\ DropsEnded /\ ReadersMove
    OBVIOUS
  <1>1. \A t \in Threads : at[t] # NoData => ThreadLabel(at[t], thread[t])
    BY DEF Posting, Labels
  <1>2. CASE UNCHANGED <<posted, datas, threads>>
    <2>1. \A t \in Threads : at[t] # NoData => ThreadLabel(at[t], thread[t])'
      BY <1>1, <1>2 DEF threads, datas, ThreadLabel
    <2> QED BY <1>2, <2>1, SameHands DEF threads
  <1>3. CASE StartListen
    <2>1. UNCHANGED <<posted, datas, at>> /\ mainPc = "new"
      BY <1>3 DEF StartListen, MainGoto
    <2>2. \A t \in Threads : at[t] = NoData
      BY <2>1 DEF Posting, Control, Serving
    <2> QED BY <2>1, <2>2, SameHands
  <1>4. CASE StartListenPosts
    BY <1>4, AcceptPosted DEF StartListenPosts, SameThreads, threads
  <1>5. ASSUME NEW t \in Threads, EventThread(t) PROVE Circulation' /\ DropsEnded /\ ReadersMove
    <2>1. CASE PostAccept(t)
      <3>1. thread[t] = "postaccept" /\ thread' = [thread EXCEPT ![t] = "wait"] /\ at' = at
        BY <2>1 DEF PostAccept, Goto
      <3>2. at[t] = NoData
        BY <3>1 DEF Posting, Control, Serving
      <3>3. SameThreads
        BY <3>1, <3>2 DEF SameThreads, Posting, TypeOK, ThreadsOK
      <3> QED BY <2>1, <3>3, AcceptPosted DEF PostAccept
    <2> QED BY <1>5, <2>1, Taken, Released, ReceivePosted, Handled DEF EventThread
  <1>6. CASE MainThread
    <2>1. CASE \/ OnRecv \/ Flush \/ UpdateCloses \/ UpdateEnd \/ CleanupPosted
               \/ CleanupJoined \/ \E c \in Clients : UpdateNewData(c) \/ UpdateNoNewData(c)
      BY <1>2, <2>1 DEF OnRecv, Flush, UpdateCloses, UpdateEnd, CleanupPosted,
                        CleanupJoined, UpdateNewData, UpdateNoNewData
    <2> QED BY <1>4, <1>6, <2>1, SendPosted, ClosePosted DEF MainThread
  <1>7. CASE System
    BY <1>7, AcceptDone, ReceiveDone, SendDone DEF System
  <1>8. CASE \/ Peers \/ StartListenFails \/ UpdateBegin \/ Cleanup
             \/ \E c \in Clients : Kick(c) \/ Send(c)
    BY <1>2, <1>8 DEF Peers, Connect, Arrive, PeerLeaves, StartListenFails, UpdateBegin,
                      Cleanup, Kick, Send
  <1>9. CASE UNCHANGED vars
    BY <1>2, <1>9 DEF vars
  <1> QED BY <1>3, <1>5, <1>6, <1>7, <1>8, <1>9 DEF Next, Terminated

LEMMA NextPosting == Posting /\ [Next]_vars => Posting'
  BY NextTypeOK, NextControl, NextCirculation DEF Posting, Circulation

-----------------------------------------------------------------------------
(* Nothing is lost but what belongs to a connection that has ended         *)

\* A connection that has ended stays so.
LEMMA EndsForGood ==
    ASSUME Posting, [Next]_vars
    PROVE  /\ destroyed \subseteq destroyed'
           /\ \A c \in Clients : gone[c] = "reset" => gone'[c] = "reset"
  <1>1. destroyed \subseteq destroyed'
    <2>1. CASE \/ MainThread \/ StartListen \/ StartListenFails \/ UpdateBegin \/ Cleanup
               \/ \E c \in Clients : Kick(c) \/ Send(c)
      BY <2>1 DEF MainThread, StartListenPosts, OnRecv, Flush, FlushChunk, UpdateCloses,
        UpdateEnd, PostCloseServer, CleanupPosted, CleanupJoined, UpdateNewData,
        UpdateNoNewData, StartListen, StartListenFails, UpdateBegin, Cleanup, Kick, Send,
        histories
    <2>2. ASSUME NEW t \in Threads, EventThread(t) PROVE destroyed \subseteq destroyed'
      BY <2>2 DEF EventThread, GetQueuedCompletionStatus, Closing, Release, Accept,
        AddClient, FirstReceive, PostAccept, Receive, Write, SetNewData, NextReceive,
        histories
    <2> QED BY <2>1, <2>2, SystemFrame DEF Next, Terminated, vars, histories
  <1>2. ASSUME NEW c \in Clients, gone[c] = "reset" PROVE gone'[c] = "reset"
    <2>1. CASE UNCHANGED gone
      BY <1>2, <2>1
    <2>2. CASE \/ MainThread \/ StartListen \/ StartListenFails \/ UpdateBegin \/ Cleanup
               \/ \E e \in Clients : Kick(e) \/ Send(e)
      BY <2>1, <2>2 DEF MainThread, StartListenPosts, OnRecv, Flush, FlushChunk, UpdateCloses,
        UpdateEnd, PostCloseServer, CleanupPosted, CleanupJoined, UpdateNewData,
        UpdateNoNewData, StartListen, StartListenFails, UpdateBegin, Cleanup, Kick, Send,
        peers
    <2>3. ASSUME NEW t \in Threads, EventThread(t) PROVE UNCHANGED gone
      BY <2>3, EventThreadFrame DEF peers
    <2>4. CASE System \/ Peers
      <3>1. gone \in [Clients -> {"no", "closed", "reset"}]
        BY DEF Posting, TypeOK, PeersOK
      <3>2. \/ gone' = gone
            \/ \E e \in Clients : gone' = [gone EXCEPT ![e] = "reset"]
            \/ \E e \in Clients, how \in {"closed", "reset"} :
                  gone[e] = "no" /\ gone' = [gone EXCEPT ![e] = how]
        BY <2>4 DEF System, Peers, CompleteReceive, CompleteAccept, CompleteSend, Connect,
                    Arrive, PeerLeaves
      <3> QED BY <1>2, <3>1, <3>2
    <2> QED BY <2>1, <2>2, <2>3, <2>4 DEF Next, Terminated, vars, peers
  <1> QED BY <1>1, <1>2

LEMMA NextLost == Posting /\ Lost /\ [Next]_vars => Lost'
  <1> SUFFICES ASSUME Posting, Lost, [Next]_vars,
                      NEW d \in ioDataPosted', ~ Held(d)'
               PROVE  Ended(ioData[d].client)'
    BY DEF Lost
  <1>1. CASE d \in ioDataPosted /\ ~ Held(d) /\ ioData'[d] = ioData[d]
    <2>1. Ended(ioData[d].client)
      BY <1>1 DEF Lost
    <2> QED BY <1>1, <2>1, EndsForGood DEF Ended
  <1> QED BY <1>1, NextCirculation DEF DropsEnded

\* All the entries of Holders are the same one.
LEMMA HoldersAre ==
    ASSUME Posting, NEW d \in Datas
    PROVE  /\ \A h, k \in Holders(d) : h = k
           /\ Holders(d) # {} <=> Held(d)
  <1> DEFINE InAccepts == {<<"accepts">> : x \in {d} \cap accepts}
             InRecvs == {<<"recvs">> : x \in {d} \cap recvs}
             InSends(c) ==
                {<<"sends", c, i>> : i \in {j \in DOMAIN sends[c] : sends[c][j] = d}}
             AtPort == {<<"port", i>> : i \in {j \in DOMAIN port : port[j].data = d}}
             AtThreads == {<<"thread", t>> : t \in {u \in Threads : at[u] = d}}
  <1>0. \A h : h \in Holders(d) <=> \/ h \in InAccepts \/ h \in InRecvs
                                    \/ \E c \in Clients : h \in InSends(c)
                                    \/ h \in AtPort \/ h \in AtThreads
    <2> DEFINE All == UNION {InSends(c) : c \in Clients}
    <2>1. Holders(d) = InAccepts \cup InRecvs \cup All \cup AtPort \cup AtThreads
      BY DEF Holders
    <2>2. \A h : h \in All <=> \E c \in Clients : h \in InSends(c)
      <3> HIDE DEF InSends
      <3> QED OBVIOUS
    <2> HIDE DEF InAccepts, InRecvs, InSends, AtPort, AtThreads, All
    <2>3. \A h : h \in Holders(d) <=> \/ h \in InAccepts \/ h \in InRecvs \/ h \in All
                                      \/ h \in AtPort \/ h \in AtThreads
      BY <2>1
    <2> QED BY <2>2, <2>3
  <1>1. \A h \in Holders(d) :
           \/ h = <<"accepts">> /\ d \in accepts
           \/ h = <<"recvs">> /\ d \in recvs
           \/ \E c \in Clients : \E i \in DOMAIN sends[c] : h = <<"sends", c, i>> /\ sends[c][i] = d
           \/ \E i \in DOMAIN port : h = <<"port", i>> /\ port[i].data = d
           \/ \E t \in Threads : h = <<"thread", t>> /\ at[t] = d
    BY <1>0, Zenon
  <1>2. /\ \A c \in Clients : \A i \in DOMAIN sends[c] : sends[c][i] \in Sending(c)
        /\ DOMAIN port = 1..Len(port)
        /\ \A i \in DOMAIN port : port[i].data \in InPort
    <2>1. DOMAIN port = 1..Len(port)
      BY LenProperties DEF Posting, TypeOK, PostedOK
    <2> QED BY <2>1, InHands DEF Sending, Range
  <1>3. /\ \A c \in Clients : \A i, j \in DOMAIN sends[c] :
              sends[c][i] = sends[c][j] => i = j
        /\ \A i, j \in DOMAIN port : port[i].data = port[j].data => i = j
    BY <1>2 DEF Posting, Once, IsInjective, PortDatas
  <1>4. d # NoData
    BY IOCPAssumption
  <1>5. \A h, k \in Holders(d) : h = k
    <2> SUFFICES ASSUME NEW h \in Holders(d), NEW k \in Holders(d) PROVE h = k
      OBVIOUS
    <2>1. CASE d \in accepts
      BY <1>1, <1>2, <2>1 DEF Posting, Apart
    <2>2. CASE d \in recvs
      BY <1>1, <1>2, <2>2 DEF Posting, Apart
    <2>3. ASSUME NEW c \in Clients, d \in Sending(c) PROVE h = k
      BY <1>1, <1>2, <1>3, <2>3 DEF Posting, Apart
    <2>4. CASE d \in InPort
      BY <1>1, <1>2, <1>3, <2>4 DEF Posting, Apart
    <2>5. ASSUME NEW t \in Threads, at[t] = d PROVE h = k
      BY <1>1, <1>2, <1>4, <2>5 DEF Posting, Apart
    <2> QED BY <1>1, <1>2, <2>1, <2>2, <2>3, <2>4, <2>5
  <1>6. Holders(d) # {} => Held(d)
    BY <1>1, <1>2 DEF Held
  <1>7. Held(d) => Holders(d) # {}
    <2>1. d \in accepts => <<"accepts">> \in Holders(d)
      BY DEF Holders
    <2>2. d \in recvs => <<"recvs">> \in Holders(d)
      BY DEF Holders
    <2>3. ASSUME NEW c \in Clients, d \in Sending(c) PROVE Holders(d) # {}
      <3>1. PICK i \in DOMAIN sends[c] : sends[c][i] = d
        BY <2>3 DEF Sending, Range
      <3>2. <<"sends", c, i>> \in Holders(d)
        BY <1>0, <3>1, Zenon
      <3> QED BY <3>2
    <2>4. ASSUME d \in InPort PROVE Holders(d) # {}
      <3>1. PICK i \in DOMAIN port : port[i].data = d
        BY <1>2, <2>4 DEF InPort, PortDatas, Range
      <3>2. <<"port", i>> \in Holders(d)
        BY <1>0, <3>1, Zenon
      <3> QED BY <3>2
    <2>5. ASSUME NEW t \in Threads, at[t] = d PROVE <<"thread", t>> \in Holders(d)
      BY <1>0, <2>5, Zenon
    <2> QED BY <2>1, <2>2, <2>3, <2>4, <2>5 DEF Held
  <1> QED BY <1>5, <1>6, <1>7

LEMMA LostHolder == Posting /\ Lost => OneHolder
  <1> SUFFICES ASSUME Posting, Lost PROVE OneHolder
    OBVIOUS
  <1>1. ioDataPosted \cap ioDataPool = {}
    BY DEF Posting, Hands
  <1>2. ASSUME NEW d \in Datas
        PROVE  Cardinality(Holders(d)) <= IF d \in ioDataPosted THEN 1 ELSE 0
    <2>1. CASE Holders(d) = {}
      BY <2>1, FS_EmptySet
    <2>2. CASE Holders(d) # {}
      <3>1. PICK h : Holders(d) = {h}
        BY <2>2, HoldersAre
      <3>2. Cardinality(Holders(d)) = 1
        BY <3>1, FS_Singleton
      <3>3. d \in ioDataPosted
        BY <2>2, HoldersAre, InHands, IOCPAssumption DEF Held
      <3> QED BY <3>2, <3>3
    <2> QED BY <2>1, <2>2
  <1>3. ASSUME NEW d \in ioDataPosted, Holders(d) = {}
        PROVE  LET c == ioData[d].client
               IN  c \in Clients /\ (c \in destroyed \/ gone[c] = "reset")
    BY <1>3, HoldersAre, InHands DEF Lost, Ended
  <1> QED BY <1>1, <1>2, <1>3 DEF OneHolder

\* Every operation that is posted comes back to exactly one thread.
THEOREM InvariantPosting == Spec => [](Posting /\ Lost)
  <1>1. Init => Posting /\ Lost
    BY InitPosting DEF Lost, Init
  <1>2. Posting /\ Lost /\ [Next]_vars => (Posting /\ Lost)'
    BY NextPosting, NextLost
  <1> QED BY <1>1, <1>2, PTL DEF Spec

\* The types of the Windows server, of its OverlappedData and of its threads.
THEOREM TypeCorrect == Spec => []TypeOK
  <1>1. Posting => TypeOK
    BY DEF Posting
  <1> QED BY <1>1, InvariantPosting, PTL

\* An OverlappedData is in one pair of hands (the system's, the completion
\* port's or an event thread's) from createOverlappedData to
\* releaseOverlappedData, and what is lost is of a connection that has ended.
THEOREM HeldOnce == Spec => []OneHolder
  BY InvariantPosting, LostHolder, PTL

-----------------------------------------------------------------------------
(* The accepts                                                             *)

\* An OverlappedData that stays in a hand, other than the system's for reading,
\* keeps its content.
LEMMA ContentStays ==
    ASSUME Posting, [Next]_vars
    PROVE  /\ \A e \in InPort : ioData'[e] = ioData[e]
           /\ \A c \in Clients : \A e \in Sending(c) : ioData'[e] = ioData[e]
           /\ \A u \in Threads : at[u] # NoData /\ at'[u] = at[u] =>
                 ioData'[at[u]] = ioData[at[u]]
  <1>1. \A e \in ioDataPosted : ioData'[e] = ioData[e] \/ e \in accepts \/ e \in recvs
                                \/ \E t \in Threads : at[t] = e /\ at'[t] = NoData
    <2>1. CASE \A e \in ioDataPosted : ioData'[e] = ioData[e]
      BY <2>1
    <2>2. ASSUME NEW d \in Datas, NEW content, createOverlappedData(d, content)
          PROVE  \A e \in ioDataPosted : ioData'[e] = ioData[e]
      BY <2>2, Created
    <2>3. CASE postAcceptEx \/ FlushChunk \/ PostCloseServer
      BY <2>2, <2>3 DEF postAcceptEx, FlushChunk, PostCloseServer
    <2>4. ASSUME NEW t \in Threads, Release(t) \/ FirstReceive(t) \/ NextReceive(t)
          PROVE  /\ \A e \in ioDataPosted : ioData'[e] = ioData[e] \/ e = at[t]
                 /\ at'[t] = NoData
      <3>1. \E content : ioData' = [ioData EXCEPT ![at[t]] = content]
        BY <2>4 DEF Release, releaseOverlappedData, FirstReceive, NextReceive, PostReceive
      <3>2. at' = [at EXCEPT ![t] = NoData]
        BY <2>4 DEF Release, FirstReceive, NextReceive, PostReceive
      <3> QED BY <3>1, <3>2 DEF Posting, TypeOK, DatasOK, ThreadsOK
    <2>5. ASSUME NEW d \in Datas, CompleteReceive(d)
          PROVE  \A e \in ioDataPosted : ioData'[e] = ioData[e] \/ e \in recvs
      <3>1. d \in recvs
        BY <2>5 DEF CompleteReceive
      <3>2. ioData' = ioData \/ \E bytes : ioData' = [ioData EXCEPT ![d].bytes = bytes]
        BY <2>5 DEF CompleteReceive
      <3> QED BY <3>1, <3>2 DEF Posting, TypeOK, DatasOK
    <2>6. ASSUME NEW d \in Datas, NEW c \in Clients, CompleteAccept(d, c)
          PROVE  \A e \in ioDataPosted : ioData'[e] = ioData[e] \/ e \in accepts
      <3>1. d \in accepts
        BY <2>6 DEF CompleteAccept
      <3>2. ioData' = [ioData EXCEPT ![d].client = c]
        BY <2>6 DEF CompleteAccept
      <3> QED BY <3>1, <3>2 DEF Posting, TypeOK, DatasOK
    <2>7. CASE UNCHANGED ioData
      BY <2>7
    <2>8. ASSUME NEW t \in Threads, EventThread(t)
          PROVE  \/ UNCHANGED ioData \/ postAcceptEx
                 \/ Release(t) \/ FirstReceive(t) \/ NextReceive(t)
      BY <2>8 DEF EventThread, GetQueuedCompletionStatus, Closing, Accept, AddClient,
                  PostAccept, Receive, Write, SetNewData, datas
    <2>9. CASE MainThread
      <3>1. UNCHANGED ioData \/ postAcceptEx \/ FlushChunk \/ PostCloseServer
        BY <2>9 DEF MainThread, StartListenPosts, OnRecv, Flush, UpdateCloses, UpdateEnd,
             CleanupPosted, CleanupJoined, UpdateNewData, UpdateNoNewData, datas
      <3> QED BY <2>3, <2>7, <3>1
    <2>10. CASE \/ Peers \/ StartListen \/ StartListenFails \/ UpdateBegin \/ Cleanup
                \/ \E c \in Clients : Kick(c) \/ Send(c) \/ CompleteSend(c)
      BY <2>7, <2>10 DEF Peers, Connect, Arrive, PeerLeaves, StartListen, StartListenFails,
             UpdateBegin, Cleanup, Kick, Send, CompleteSend, datas
    <2>11. CASE UNCHANGED vars
      BY <2>7, <2>11 DEF vars, datas
    <2> QED BY <2>3, <2>4, <2>5, <2>6, <2>7, <2>8, <2>9, <2>10, <2>11
            DEF Next, System, Terminated
  <1>2. \A e \in InPort : ioData'[e] = ioData[e]
    BY <1>1, InHands DEF Posting, Apart
  <1>3. \A c \in Clients : \A e \in Sending(c) : ioData'[e] = ioData[e]
    BY <1>1, InHands DEF Posting, Apart
  <1>4. ASSUME NEW u \in Threads, at[u] # NoData, at'[u] = at[u]
        PROVE  ioData'[at[u]] = ioData[at[u]]
    <2>1. at[u] \in ioDataPosted /\ at[u] \notin accepts /\ at[u] \notin recvs
      BY <1>4, InHands DEF Posting, Apart
    <2>2. \A t \in Threads : at[t] = at[u] => t = u
      BY <1>4 DEF Posting, Apart
    <2> QED BY <1>1, <1>4, <2>1, <2>2
  <1> QED BY <1>2, <1>3, <1>4

\* A step of a thread leaves the others where they are.
LEMMA OtherThreads ==
    ASSUME Posting, NEW t \in Threads, EventThread(t), NEW u \in Threads, u # t
    PROVE  thread'[u] = thread[u] /\ at'[u] = at[u]
  <1>1. \E to : thread' = [thread EXCEPT ![t] = to]
    BY DEF EventThread, GetQueuedCompletionStatus, Closing, Release, Accept, AddClient,
           FirstReceive, PostAccept, Receive, Write, SetNewData, NextReceive, Goto
  <1>2. at' = at \/ \E d : at' = [at EXCEPT ![t] = d]
    BY DEF EventThread, GetQueuedCompletionStatus, Closing, Release, Accept, AddClient,
           FirstReceive, PostAccept, Receive, Write, SetNewData, NextReceive, PostReceive
  <1> QED BY <1>1, <1>2 DEF Posting, TypeOK, ThreadsOK

Reposters == {t \in Threads : Reposting(t)}
ToPost    == IF mainPc = "listen" THEN left ELSE 0

\* The number of the accepts: Outstanding need not be known to be finite, for
\* the OverlappedData need not be.
Accepting == /\ IsFiniteSet(Outstanding)
             /\ Listening => Cardinality(Outstanding) + Cardinality(Reposters) + ToPost
                                = NumAccept

\* A thread that does not change keeps what it is going to post.
LEMMA RepostingStays ==
    ASSUME Posting, [Next]_vars, NEW u \in Threads,
           thread'[u] = thread[u], at'[u] = at[u]
    PROVE  Reposting(u)' <=> Reposting(u)
  <1>1. thread[u] = "release" => ioData'[at[u]] = ioData[at[u]]
    <2>1. thread[u] = "release" => at[u] # NoData
      BY DEF Posting, Control, Serving
    <2> QED BY <2>1, ContentStays
  <1> QED BY <1>1 DEF Reposting

\* What a step of an event thread does to the threads that are going to post an
\* AcceptEx.
LEMMA ThreadReposts ==
    ASSUME Posting, [Next]_vars, NEW t \in Threads, EventThread(t)
    PROVE  /\ PostAccept(t) => t \in Reposters /\ Reposters' = Reposters \ {t}
           /\ GetQueuedCompletionStatus(t) =>
                 /\ t \notin Reposters
                 /\ Reposters' = IF ioData[Head(port).data].op = "ACCEPT"
                                 THEN Reposters \cup {t} ELSE Reposters
           /\ ~ PostAccept(t) /\ ~ GetQueuedCompletionStatus(t) => Reposters' = Reposters
  <1>1. \A u \in Threads : u # t => (Reposting(u)' <=> Reposting(u))
    BY OtherThreads, RepostingStays
  <1>2. ASSUME PostAccept(t) PROVE t \in Reposters /\ Reposters' = Reposters \ {t}
    <2>1. thread[t] = "postaccept" /\ thread'[t] = "wait"
      BY <1>2 DEF PostAccept, Goto, Posting, TypeOK, ThreadsOK
    <2>2. Reposting(t) /\ ~ Reposting(t)'
      BY <2>1 DEF Reposting
    <2> QED BY <1>1, <2>2 DEF Reposters
  <1>3. ASSUME GetQueuedCompletionStatus(t)
        PROVE  /\ t \notin Reposters
               /\ Reposters' = IF ioData[Head(port).data].op = "ACCEPT"
                               THEN Reposters \cup {t} ELSE Reposters
    <2> DEFINE where == Serves(ioData[Head(port).data].op, Head(port).result)
    <2>1. PICK d \in Datas : d = Head(port).data
      BY <1>3, TakenData DEF GetQueuedCompletionStatus
    <2>2. /\ thread[t] = "wait" /\ thread'[t] = where /\ at'[t] = d /\ ioData' = ioData
      BY <1>3, <2>1 DEF GetQueuedCompletionStatus, Goto, Posting, TypeOK, ThreadsOK, datas
    <2>3. /\ PortLabel(d, Head(port).result) /\ ThreadLabel(d, where)
          /\ where \in {"closing", "release", "accept", "receive"}
      BY <1>3, <2>1, TakenData DEF GetQueuedCompletionStatus
    <2>4. ~ Reposting(t)
      BY <2>2 DEF Reposting
    <2>5. ioData[d].op = "ACCEPT" => where = "accept"
      BY <2>1, <2>3 DEF PortLabel, Serves
    <2> HIDE DEF where
    <2>6. Reposting(t)' <=> ioData[d].op = "ACCEPT"
      BY <2>2, <2>3, <2>5 DEF Reposting, ThreadLabel
    <2> QED BY <1>1, <2>1, <2>4, <2>6 DEF Reposters
  <1>4. ASSUME ~ PostAccept(t), ~ GetQueuedCompletionStatus(t)
        PROVE  Reposting(t)' <=> Reposting(t)
    <2>1. CASE Release(t)
      <3>1. PICK op : op = ioData[at[t]].op
        OBVIOUS
      <3>2. thread[t] = "release" /\ thread'[t] = AfterRelease(op)
        BY <2>1, <3>1 DEF Release, Goto, Posting, TypeOK, ThreadsOK
      <3>3. /\ AfterRelease(op) \in {"exited", "postaccept", "wait"}
            /\ AfterRelease(op) = "postaccept" <=> op = "ACCEPT"
        BY DEF AfterRelease
      <3> QED BY <3>1, <3>2, <3>3 DEF Reposting
    <2>2. CASE FirstReceive(t) \/ NextReceive(t)
      BY <2>2 DEF FirstReceive, NextReceive, Goto, Reposting, Posting, TypeOK, ThreadsOK
    <2>3. CASE \/ Closing(t) \/ Accept(t) \/ AddClient(t) \/ Receive(t) \/ Write(t)
               \/ SetNewData(t)
      <3>1. thread[t] \in Serving
        BY <2>3 DEF Closing, Accept, AddClient, Receive, Write, SetNewData, Goto, Serving
      <3>2. ThreadLabel(at[t], thread[t])
        BY <3>1, ServesData
      <3>3. UNCHANGED <<ioData, at>>
        BY <2>3 DEF Closing, Accept, AddClient, Receive, Write, SetNewData, datas
      <3>4. /\ \/ thread[t] \in {"closing", "accept", "receive"} /\ thread'[t] = "release"
               \/ thread[t] = "accept" /\ thread'[t] = "add"
               \/ thread[t] = "add" /\ thread'[t] = "firstrecv"
               \/ thread[t] = "receive" /\ thread'[t] = "write"
               \/ thread[t] = "write" /\ thread'[t] = "setnew"
               \/ thread[t] = "setnew" /\ thread'[t] = "nextrecv"
        BY <2>3 DEF Closing, Accept, AddClient, Receive, Write, SetNewData, Goto, Posting,
                    TypeOK, ThreadsOK
      <3> QED BY <3>2, <3>3, <3>4 DEF ThreadLabel, Reposting
    <2> QED BY <1>4, <2>1, <2>2, <2>3 DEF EventThread
  <1> QED BY <1>1, <1>2, <1>3, <1>4 DEF Reposters

\* The main thread, the system and the peers, but for startListen().
LEMMA OtherSteps ==
    ASSUME Posting, [Next]_vars,
           ~ StartListen, ~ StartListenPosts, \A t \in Threads : ~ EventThread(t)
    PROVE  /\ UNCHANGED threads /\ Outstanding' = Outstanding
           /\ ToPost' = ToPost
  <1>1. ASSUME UNCHANGED <<posted, datas, threads>> PROVE Outstanding' = Outstanding
    <2>1. \A t \in Threads : at[t] # NoData => ThreadLabel(at[t], thread[t])'
      BY <1>1 DEF Posting, Labels, threads, datas, ThreadLabel
    <2> QED BY <1>1, <2>1, SameHands DEF threads
  <1>2. UNCHANGED threads
    BY OthersFrame DEF Next, Terminated, vars
  <1>3. ToPost' = ToPost
    <2>1. CASE MainThread
      BY <2>1 DEF MainThread, OnRecv, Flush, FlushChunk, UpdateCloses, UpdateEnd,
          PostCloseServer, CleanupPosted, CleanupJoined, UpdateNewData, UpdateNoNewData,
          MainGoto, ToPost
    <2>2. CASE StartListenFails \/ UpdateBegin \/ Cleanup \/ \E c \in Clients : Kick(c) \/ Send(c)
      BY <2>2 DEF StartListenFails, UpdateBegin, Cleanup, Kick, Send, MainGoto, ToPost,
                  mainVars
    <2>3. CASE UNCHANGED mainVars
      BY <2>3 DEF ToPost, mainVars
    <2> QED BY <2>1, <2>2, <2>3, SystemFrame DEF Next, Terminated, vars
  <1>4. Outstanding' = Outstanding
    <2>1. CASE MainThread
      <3>1. CASE \/ OnRecv \/ Flush \/ UpdateCloses \/ UpdateEnd \/ CleanupPosted
                 \/ CleanupJoined \/ \E c \in Clients : UpdateNewData(c) \/ UpdateNoNewData(c)
        BY <1>1, <3>1 DEF OnRecv, Flush, UpdateCloses, UpdateEnd, CleanupPosted,
                          CleanupJoined, UpdateNewData, UpdateNoNewData
      <3> QED BY <2>1, <3>1, SendPosted, ClosePosted DEF MainThread
    <2>2. CASE System
      BY <2>2, AcceptDone, ReceiveDone, SendDone DEF System
    <2>3. CASE \/ Peers \/ StartListenFails \/ UpdateBegin \/ Cleanup
               \/ \E c \in Clients : Kick(c) \/ Send(c)
      BY <1>1, <2>3 DEF Peers, Connect, Arrive, PeerLeaves, StartListenFails, UpdateBegin,
                        Cleanup, Kick, Send
    <2>4. CASE UNCHANGED vars
      BY <1>1, <2>4 DEF vars
    <2> QED BY <2>1, <2>2, <2>3, <2>4 DEF Next, Terminated
  <1> QED BY <1>2, <1>3, <1>4

LEMMA InitAccepting == Init => Accepting
  <1> SUFFICES ASSUME Init PROVE Accepting
    OBVIOUS
  <1>1. Outstanding = {}
    BY EmptySeq DEF Init, Outstanding, InPort, PortDatas, Range
  <1>2. ~ Listening
    BY DEF Init, Listening
  <1> QED BY <1>1, <1>2, FS_EmptySet DEF Accepting

LEMMA NextAccepting == Posting /\ Accepting /\ [Next]_vars => Accepting'
  <1> SUFFICES ASSUME Posting, Accepting, [Next]_vars PROVE Accepting'
    OBVIOUS
  <1>1. /\ IsFiniteSet(Outstanding) /\ Cardinality(Outstanding) \in Nat
        /\ IsFiniteSet(Reposters) /\ Cardinality(Reposters) \in Nat
        /\ ToPost \in Nat
    <2>1. IsFiniteSet(Reposters)
      BY FS_Subset, IOCPAssumption DEF Reposters
    <2> QED BY <2>1, FS_CardinalityType DEF Accepting, ToPost, Posting, TypeOK, MainThreadOK
  <1>2. CASE StartListen
    <2>1. /\ UNCHANGED <<posted, datas, at>> /\ mainPc = "new" /\ mainPc' = "listen"
          /\ left' = NumAccept /\ \A t \in Threads : thread'[t] = "wait"
      BY <1>2 DEF StartListen, MainGoto
    <2>2. Outstanding = {} /\ Outstanding' = {}
      <3>1. accepts = {} /\ port = <<>>
        BY <2>1 DEF Posting, Control
      <3>2. accepts' = {} /\ port' = <<>>
        BY <2>1, <3>1 DEF posted
      <3>3. InPort = {} /\ InPort' = {}
        BY <3>1, <3>2, EmptySeq DEF InPort, PortDatas, Range
      <3> QED BY <3>1, <3>2, <3>3 DEF Outstanding
    <2>3. Reposters' = {}
      BY <2>1 DEF Reposters, Reposting
    <2>4. ToPost' = NumAccept /\ NumAccept \in Nat
      BY <2>1, IOCPAssumption DEF ToPost
    <2> QED BY <1>1, <2>2, <2>3, <2>4, FS_EmptySet DEF Accepting
  <1>3. CASE StartListenPosts
    <2>1. /\ postAcceptEx /\ UNCHANGED <<recvs, sends, port, threads, at>>
          /\ mainPc = "listen" /\ left' = left - 1
          /\ mainPc' = IF left = 1 THEN "idle" ELSE "listen"
      BY <1>3 DEF StartListenPosts, MainGoto, threads
    <2>2. \E d \in Datas \ Outstanding : Outstanding' = Outstanding \cup {d}
      BY <2>1, AcceptPosted DEF SameThreads, threads
    <2>3. /\ IsFiniteSet(Outstanding')
          /\ Cardinality(Outstanding') = Cardinality(Outstanding) + 1
      BY <1>1, <2>2, FS_AddElement
    <2>4. Reposters' = Reposters
      BY <2>1, RepostingStays DEF Reposters, threads
    <2>5. ToPost' = ToPost - 1
      BY <2>1 DEF ToPost, Posting, TypeOK, MainThreadOK
    <2>6. Listening' <=> Listening
      BY <2>1 DEF Listening, threads
    <2> QED BY <1>1, <2>3, <2>4, <2>5, <2>6 DEF Accepting
  <1>4. ASSUME NEW t \in Threads, EventThread(t) PROVE Accepting'
    <2>1. Listening
      <3>1. thread[t] # "none"
        BY <1>4 DEF EventThread, GetQueuedCompletionStatus, Closing, Release, Accept,
                    AddClient, FirstReceive, PostAccept, Receive, Write, SetNewData,
                    NextReceive, Goto
      <3> QED BY <3>1 DEF Listening
    <2>2. ToPost' = ToPost
      BY <1>4, EventThreadFrame DEF mainVars, ToPost
    <2>3. Cardinality(Outstanding) + Cardinality(Reposters) + ToPost = NumAccept
      BY <2>1 DEF Accepting
    <2>4. CASE PostAccept(t)
      <3>1. SameThreads
        <4>1. thread[t] = "postaccept" /\ at' = at
          BY <2>4 DEF PostAccept, Goto
        <4>2. at[t] = NoData
          BY <4>1 DEF Posting, Control, Serving
        <4> QED BY <1>4, <4>1, <4>2, OtherThreads DEF SameThreads
      <3>2. \E d \in Datas \ Outstanding : Outstanding' = Outstanding \cup {d}
        BY <2>4, <3>1, AcceptPosted DEF PostAccept
      <3>3. /\ IsFiniteSet(Outstanding')
            /\ Cardinality(Outstanding') = Cardinality(Outstanding) + 1
        BY <1>1, <3>2, FS_AddElement
      <3>4. t \in Reposters /\ Reposters' = Reposters \ {t}
        BY <1>4, <2>4, ThreadReposts
      <3>5. Cardinality(Reposters') = Cardinality(Reposters) - 1
        BY <1>1, <3>4, FS_RemoveElement
      <3> QED BY <1>1, <2>2, <2>3, <3>3, <3>5 DEF Accepting
    <2>5. CASE GetQueuedCompletionStatus(t)
      <3>1. PICK d \in Datas : d = Head(port).data
        BY <2>5, TakenData DEF GetQueuedCompletionStatus
      <3>2. Outstanding' = Outstanding \ {d}
        BY <2>5, <3>1, Taken
      <3>3. /\ t \notin Reposters
            /\ Reposters' = IF ioData[d].op = "ACCEPT" THEN Reposters \cup {t} ELSE Reposters
        BY <1>4, <2>5, <3>1, ThreadReposts
      <3>4. d \in InPort
        BY <2>5, <3>1, PortLoses DEF GetQueuedCompletionStatus, Posting, TypeOK
      <3>5. CASE ioData[d].op = "ACCEPT"
        <4>1. d \in Outstanding
          BY <3>4, <3>5 DEF Outstanding
        <4>2. /\ IsFiniteSet(Outstanding')
              /\ Cardinality(Outstanding') = Cardinality(Outstanding) - 1
          BY <1>1, <3>2, <4>1, FS_RemoveElement
        <4>3. Cardinality(Reposters') = Cardinality(Reposters) + 1
          BY <1>1, <3>3, <3>5, FS_AddElement
        <4> QED BY <1>1, <2>2, <2>3, <4>2, <4>3 DEF Accepting
      <3>6. CASE ioData[d].op # "ACCEPT"
        <4>1. d \notin Outstanding
          BY <3>6 DEF Outstanding, Posting, Labels
        <4>2. Outstanding' = Outstanding /\ Reposters' = Reposters
          BY <3>2, <3>3, <3>6, <4>1
        <4> QED BY <1>1, <2>2, <2>3, <4>2 DEF Accepting
      <3> QED BY <3>5, <3>6
    <2>6. CASE ~ PostAccept(t) /\ ~ GetQueuedCompletionStatus(t)
      <3>1. Outstanding' = Outstanding
        BY <1>4, <2>6, Released, ReceivePosted, Handled DEF EventThread
      <3>2. Reposters' = Reposters
        BY <1>4, <2>6, ThreadReposts
      <3> QED BY <1>1, <2>2, <2>3, <3>1, <3>2 DEF Accepting
    <2> QED BY <2>4, <2>5, <2>6
  <1>5. ASSUME ~ StartListen, ~ StartListenPosts, \A t \in Threads : ~ EventThread(t)
        PROVE  Accepting'
    <2>1. UNCHANGED threads /\ Outstanding' = Outstanding /\ ToPost' = ToPost
      BY <1>5, OtherSteps
    <2>2. Reposters' = Reposters
      BY <2>1, RepostingStays DEF Reposters, threads
    <2>3. Listening' <=> Listening
      BY <2>1 DEF Listening, threads
    <2> QED BY <2>1, <2>2, <2>3 DEF Accepting
  <1> QED BY <1>2, <1>3, <1>4, <1>5

LEMMA AcceptingKept == Posting /\ Accepting => AcceptsKept
  <1> SUFFICES ASSUME Posting, Accepting PROVE AcceptsKept
    OBVIOUS
  <1>1. DOMAIN port = 1..Len(port)
    BY LenProperties DEF Posting, TypeOK, PostedOK
  <1>2. InPort = {d \in Datas : \E i \in DOMAIN port : port[i].data = d}
    BY <1>1, PortElements DEF InPort, PortDatas, Range, Posting, TypeOK
  <1>3. accepts \cup Accepted = Outstanding
    BY <1>2 DEF Accepted, Outstanding
  <1> QED BY <1>3 DEF Accepting, AcceptsKept, Reposters, ToPost

\* The server never stops listening: NUM_ACCEPTEX accepts are under way, or
\* completed and going to be posted again by the thread that serves them.
THEOREM NeverDeaf == Spec => []AcceptsKept
  <1>1. Init => Posting /\ Accepting
    BY InitPosting, InitAccepting
  <1>2. Posting /\ Accepting /\ [Next]_vars => (Posting /\ Accepting)'
    BY NextPosting, NextAccepting
  <1> QED BY <1>1, <1>2, AcceptingKept, PTL DEF Spec

-----------------------------------------------------------------------------
(* The receives                                                            *)

\* The clients that addClient() has taken or that were turned away.
Known == addingClients \cup allClients \cup destroyed

OneReader ==
    \A c \in Clients :
        /\ \A d, e \in Datas : ReaderOf(d, c) /\ ReaderOf(e, c) => d = e
        /\ c \notin seen \/ c \in backlog => \A d \in Datas : ~ ReaderOf(d, c)
Members ==
    /\ backlog \subseteq seen /\ Known \subseteq seen \ backlog
    /\ addingClients \cap allClients = {}
    /\ (addingClients \cup allClients) \cap destroyed = {}
    /\ \A i \in 1..Len(port) :
          ioData[port[i].data].op = "ACCEPT" => ioData[port[i].data].client \notin Known
    /\ \A t \in Threads : /\ thread[t] \in {"accept", "add"} => client(t) \notin Known
                          /\ thread[t] = "firstrecv" => client(t) \in Known
Kept ==
    /\ \A c \in (addingClients \cup allClients) \ isClosing :
          gone[c] # "reset" => \E d \in Datas : ReaderOf(d, c)
    /\ \A i \in 1..Len(port) :
          ioData[port[i].data].op = "RECEIVE" /\ port[i].result = "aborted" =>
              ioData[port[i].data].client \in destroyed
    /\ \A t \in Threads : thread[t] = "release" =>
          /\ ioData[at[t]].op = "ACCEPT" => client(t) \in destroyed
          /\ ioData[at[t]].op = "RECEIVE" => client(t) \in destroyed \cup isClosing

\* What the system has received of a client's input for the server, and what a
\* WSARecv takes.
Received(c) == arrived[c] - kin[c]
Takes(d) == \A c \in Clients : c = ioData[d].client =>
                /\ Received(c) <= Received(c)'
                /\ ioData'[d].bytes = Run(Received(c), Received(c)')

\* A completion at the port has been there, or is that of an operation of the
\* system or of cleanup().
LEMMA NextPort ==
    ASSUME Posting, [Next]_vars, NEW i \in 1..Len(port')
    PROVE  \/ \E j \in 1..Len(port) : port'[i] = port[j]
           \/ \E d \in Datas, r \in {"ok", "zero", "error", "aborted"} :
                 /\ port'[i] = Completion(d, r)
                 /\ \/ \E c \in Clients : CompleteAccept(d, c) /\ ioData'[d].client = c
                    \/ /\ CompleteReceive(d)
                       /\ ioData'[d].op = "RECEIVE" /\ ioData'[d].client = ioData[d].client
                       /\ r = "aborted" => ioData[d].client \in destroyed
                       /\ r = "ok" => Takes(d)
                    \/ ioData'[d].op \in {"SEND", "CLOSE_SERVER"}
  <1>1. PostedOK /\ Len(port) \in Nat
    BY PortElements DEF Posting, TypeOK
  <1>2. ASSUME NEW d \in Datas, NEW r \in {"ok", "zero", "error", "aborted"},
               port' = Append(port, Completion(d, r))
        PROVE  (\E j \in 1..Len(port) : port'[i] = port[j]) \/ port'[i] = Completion(d, r)
    <2>1. \A n \in Nat : i \in 1..n + 1 => i \in 1..n \/ i = n + 1
      OBVIOUS
    <2> QED BY <1>1, <1>2, <2>1, PortGains
  <1>3. CASE UNCHANGED port
    BY <1>3
  <1>4. ASSUME NEW t \in Threads, EventThread(t)
        PROVE  \E j \in 1..Len(port) : port'[i] = port[j]
    <2>1. CASE GetQueuedCompletionStatus(t)
      <3>1. port # <<>> /\ port' = Tail(port)
        BY <2>1 DEF GetQueuedCompletionStatus
      <3>2. /\ Len(port) \in Nat \ {0} /\ Len(port') = Len(port) - 1
            /\ \A j \in 1..Len(port) - 1 : port'[j] = port[j + 1]
        BY <1>1, <3>1, PortLoses
      <3>3. i + 1 \in 1..Len(port) /\ port'[i] = port[i + 1]
        BY <3>2
      <3> QED BY <3>3
    <2>2. CASE UNCHANGED port
      BY <2>2
    <2> QED BY <1>4, <2>1, <2>2 DEF EventThread, Closing, Release, Accept, AddClient,
          FirstReceive, PostAccept, Receive, Write, SetNewData, NextReceive, posted
  <1>5. ASSUME NEW d \in Datas, NEW c \in Clients, CompleteAccept(d, c)
        PROVE  /\ port' = Append(port, Completion(d, "ok")) /\ ioData'[d].client = c
    BY <1>5 DEF CompleteAccept, Posting, TypeOK, DatasOK
  <1>6. ASSUME NEW d \in Datas, CompleteReceive(d)
        PROVE  /\ \E r \in {"ok", "zero", "error", "aborted"} :
                     /\ port' = Append(port, Completion(d, r))
                     /\ r = "aborted" => ioData[d].client \in destroyed
                     /\ r = "ok" => Takes(d)
               /\ ioData'[d].op = "RECEIVE" /\ ioData'[d].client = ioData[d].client
    <2>1. \E r \in {"ok", "zero", "error", "aborted"} :
             /\ port' = Append(port, Completion(d, r))
             /\ r = "aborted" => ioData[d].client \in destroyed
             /\ r = "ok" => Takes(d)
      <3> DEFINE c == ioData[d].client
                 n == IF kin[c] < Chunk THEN kin[c] ELSE Chunk
      <3>1. c \in Clients
        BY <1>6 DEF CompleteReceive, Posting, Labels
      <3>2. /\ arrived[c] \in Nat /\ kin[c] \in Nat /\ kin[c] <= arrived[c]
            /\ Chunk \in Nat /\ arrived' = arrived /\ kin \in [Clients -> Nat]
            /\ ioData[d] \in [op : Operations \cup {"none"}, client : Clients \cup {NoClient},
                              bytes : Seq(Nat)]
            /\ ioData \in [Datas -> [op : Operations \cup {"none"},
                                     client : Clients \cup {NoClient}, bytes : Seq(Nat)]]
        BY <1>6, <3>1, IOCPAssumption DEF CompleteReceive, Posting, TypeOK, PeersOK, DatasOK
      <3>3. ASSUME kin' = [kin EXCEPT ![c] = kin[c] - n],
                   ioData' = [ioData EXCEPT ![d].bytes =
                                 Run(arrived[c] - kin[c], arrived[c] - kin[c] + n)]
            PROVE  Takes(d)
        <4>1. PICK x \in Clients : x = c
          BY <3>1
        <4>2. n \in Nat /\ n <= kin[x] /\ kin'[x] = kin[x] - n
          BY <3>1, <3>2, <3>3, <4>1
        <4>3. ioData'[d].bytes = Run(arrived[x] - kin[x], arrived[x] - kin[x] + n)
          <5> HIDE DEF n, c
          <5> QED BY <3>2, <3>3, <4>1
        <4>4. arrived'[x] - kin'[x] = arrived[x] - kin[x] + n
          BY <3>2, <4>1, <4>2
        <4> HIDE DEF n
        <4>5. Received(x) <= Received(x)' /\ ioData'[d].bytes = Run(Received(x), Received(x)')
          BY <3>2, <4>1, <4>2, <4>3, <4>4 DEF Received
        <4> QED BY <4>1, <4>5 DEF Takes
      <3>4. \/ \E r \in {"zero", "error", "aborted"} :
                  /\ port' = Append(port, Completion(d, r))
                  /\ r = "aborted" => c \in destroyed
            \/ /\ port' = Append(port, Completion(d, "ok"))
               /\ kin' = [kin EXCEPT ![c] = kin[c] - n]
               /\ ioData' = [ioData EXCEPT ![d].bytes =
                                 Run(arrived[c] - kin[c], arrived[c] - kin[c] + n)]
        BY <1>6 DEF CompleteReceive
      <3> QED BY <3>3, <3>4
    <2>2. ioData' = ioData \/ \E bytes : ioData' = [ioData EXCEPT ![d].bytes = bytes]
      BY <1>6 DEF CompleteReceive
    <2>3. ioData[d].op = "RECEIVE"
      BY <1>6 DEF CompleteReceive, Posting, Labels
    <2>4. ioData'[d].op = ioData[d].op /\ ioData'[d].client = ioData[d].client
      BY <2>2 DEF Posting, TypeOK, DatasOK
    <2> QED BY <2>1, <2>3, <2>4
  <1>7. ASSUME NEW c \in Clients, CompleteSend(c)
        PROVE  \E d \in Datas, r \in {"ok", "zero", "error", "aborted"} :
                  port' = Append(port, Completion(d, r)) /\ ioData'[d].op = "SEND"
    <2>1. sends[c] \in Seq(Datas) /\ sends[c] # <<>> /\ ioData' = ioData
      BY <1>7 DEF CompleteSend, datas, Posting, TypeOK, PostedOK
    <2>2. Head(sends[c]) \in Datas /\ Head(sends[c]) \in Sending(c)
      <3>1. 1 \in DOMAIN sends[c] /\ Head(sends[c]) = sends[c][1]
        BY <2>1, EmptySeq, LenProperties
      <3> QED BY <2>1, <3>1, HeadTailProperties DEF Sending, Range
    <2>3. \E r \in {"ok", "zero", "error", "aborted"} :
             port' = Append(port, Completion(Head(sends[c]), r))
      BY <1>7 DEF CompleteSend
    <2>4. ioData[Head(sends[c])].op = "SEND"
      BY <2>2 DEF Posting, Labels
    <2> QED BY <2>1, <2>2, <2>3, <2>4
  <1>8. CASE PostCloseServer
    <2>1. PICK d \in Datas :
             /\ createOverlappedData(d, Data("CLOSE_SERVER", NoClient, <<>>))
             /\ port' = Append(port, Completion(d, "ok"))
      BY <1>8 DEF PostCloseServer
    <2>2. ioData'[d].op = "CLOSE_SERVER"
      BY <2>1, Created DEF Data
    <2> QED BY <1>2, <2>1, <2>2
  <1>9. CASE System
    BY <1>2, <1>5, <1>6, <1>7, <1>9 DEF System
  <1>10. CASE \/ MainThread /\ ~ PostCloseServer
              \/ Peers \/ StartListen \/ StartListenFails \/ UpdateBegin \/ Cleanup
              \/ \E c \in Clients : Kick(c) \/ Send(c)
    BY <1>3, <1>10 DEF MainThread, StartListenPosts, OnRecv, Flush, FlushChunk, UpdateCloses,
        UpdateEnd, CleanupPosted, CleanupJoined, UpdateNewData, UpdateNoNewData, Peers,
        Connect, Arrive, PeerLeaves, StartListen, StartListenFails, UpdateBegin, Cleanup,
        Kick, Send, posted
  <1>11. CASE UNCHANGED vars
    BY <1>3, <1>11 DEF vars, posted
  <1> QED BY <1>4, <1>8, <1>9, <1>10, <1>11 DEF Next, Terminated

\* What a step does to the connections that the system has for accept.
LEMMA NextBacklog ==
    ASSUME Posting, [Next]_vars
    PROVE  /\ seen \subseteq seen'
           /\ \A c \in Clients : c \in backlog' => c \in backlog \/ c \in seen' \ seen
           /\ \A d \in Datas, c \in Clients : CompleteAccept(d, c) => c \in backlog \ backlog'
           /\ \A d, e \in Datas, c \in Clients :
                 CompleteAccept(d, c) /\ CompleteAccept(e, c) => d = e
  <1>1. CASE UNCHANGED <<seen, backlog>>
    BY <1>1 DEF CompleteAccept
  <1>2. CASE System
    <2>1. seen' = seen /\ backlog' \subseteq backlog
      BY <1>2 DEF System, CompleteReceive, CompleteAccept, CompleteSend, histories
    <2> QED BY <2>1 DEF CompleteAccept
  <1>3. CASE Peers
    BY <1>3 DEF Peers, Connect, Arrive, PeerLeaves, histories, CompleteAccept
  <1>4. CASE \/ MainThread \/ StartListen \/ StartListenFails \/ UpdateBegin \/ Cleanup
             \/ \E c \in Clients : Kick(c) \/ Send(c)
    <2>1. UNCHANGED <<seen, backlog>>
      BY <1>4 DEF MainThread, StartListenPosts, OnRecv, Flush, FlushChunk, UpdateCloses,
        UpdateEnd, PostCloseServer, CleanupPosted, CleanupJoined, UpdateNewData,
        UpdateNoNewData, StartListen, StartListenFails, UpdateBegin, Cleanup, Kick, Send,
        histories, peers
    <2> QED BY <1>1, <2>1
  <1>5. ASSUME NEW t \in Threads, EventThread(t) PROVE UNCHANGED <<seen, backlog>>
    BY <1>5, EventThreadFrame DEF peers
  <1>6. CASE UNCHANGED vars
    BY <1>1, <1>6 DEF vars, histories, peers
  <1> QED BY <1>1, <1>2, <1>3, <1>4, <1>5, <1>6 DEF Next, Terminated

LEMMA NextOneReader == Posting /\ Members /\ OneReader /\ [Next]_vars => OneReader'
  <1> SUFFICES ASSUME Posting, Members, OneReader, [Next]_vars, NEW c \in Clients
               PROVE  /\ \A d, e \in Datas : ReaderOf(d, c)' /\ ReaderOf(e, c)' => d = e
                      /\ c \notin seen' \/ c \in backlog' =>
                            \A d \in Datas : ~ ReaderOf(d, c)'
    BY DEF OneReader
  <1>1. \A d \in Datas : ReaderOf(d, c)' => ReaderOf(d, c) \/ CompleteAccept(d, c)
    BY NextCirculation DEF ReadersMove
  <1>2. \A d, e \in Datas : ReaderOf(d, c) /\ ReaderOf(e, c) => d = e
    BY DEF OneReader
  <1>3. c \notin seen \/ c \in backlog => \A d \in Datas : ~ ReaderOf(d, c)
    BY DEF OneReader
  <1>4. backlog \subseteq seen
    BY DEF Members
  <1> QED BY <1>1, <1>2, <1>3, <1>4, NextBacklog

\* The clients that are known: a thread gains one, and the main thread moves
\* them from adding to all, and from there to destroyed.
LEMMA NextKnown ==
    ASSUME Posting, Members, [Next]_vars
    PROVE  /\ \/ Known' = Known
              \/ \E t \in Threads : /\ Accept(t) \/ AddClient(t)
                                    /\ Known' = Known \cup {client(t)}
           /\ addingClients' \cap allClients' = {}
           /\ (addingClients' \cup allClients') \cap destroyed' = {}
           /\ \/ addingClients' \cup allClients' \subseteq addingClients \cup allClients
              \/ \E t \in Threads :
                    /\ AddClient(t)
                    /\ addingClients' \cup allClients'
                          = addingClients \cup allClients \cup {client(t)}
           /\ isClosing \subseteq isClosing'
  <1>1. /\ addingClients \cap allClients = {}
        /\ (addingClients \cup allClients) \cap destroyed = {}
    BY DEF Members
  <1>2. ASSUME UNCHANGED <<addingClients, allClients, destroyed>>, isClosing \subseteq isClosing'
        PROVE  /\ Known' = Known
               /\ addingClients' \cap allClients' = {}
               /\ (addingClients' \cup allClients') \cap destroyed' = {}
               /\ addingClients' \cup allClients' \subseteq addingClients \cup allClients
               /\ isClosing \subseteq isClosing'
    BY <1>1, <1>2 DEF Known
  <1>3. ASSUME NEW t \in Threads, Accept(t)
        PROVE  /\ Known' = Known \/ Known' = Known \cup {client(t)}
               /\ addingClients' \cap allClients' = {}
               /\ (addingClients' \cup allClients') \cap destroyed' = {}
               /\ addingClients' \cup allClients' \subseteq addingClients \cup allClients
               /\ isClosing \subseteq isClosing'
    <2>1. /\ UNCHANGED <<addingClients, allClients, isClosing>>
          /\ destroyed' = destroyed \/ destroyed' = destroyed \cup {client(t)}
          /\ thread[t] = "accept"
      BY <1>3 DEF Accept, Goto, clients, mainVars
    <2>2. client(t) \notin Known
      BY <2>1 DEF Members
    <2> QED BY <1>1, <2>1, <2>2 DEF Known
  <1>4. ASSUME NEW t \in Threads, AddClient(t)
        PROVE  /\ Known' = Known \cup {client(t)}
               /\ addingClients' \cap allClients' = {}
               /\ (addingClients' \cup allClients') \cap destroyed' = {}
               /\ addingClients' \cup allClients'
                     = addingClients \cup allClients \cup {client(t)}
               /\ isClosing \subseteq isClosing'
    <2>1. /\ UNCHANGED <<allClients, destroyed, isClosing>> /\ thread[t] = "add"
          /\ addingClients' = addingClients \cup {client(t)}
      BY <1>4 DEF AddClient, Goto, histories, mainVars
    <2>2. client(t) \notin Known
      BY <2>1 DEF Members
    <2> QED BY <1>1, <2>1, <2>2 DEF Known
  <1>5. ASSUME UpdateBegin \/ UpdateCloses \/ CleanupJoined
        PROVE  /\ Known' = Known
               /\ addingClients' \cap allClients' = {}
               /\ (addingClients' \cup allClients') \cap destroyed' = {}
               /\ addingClients' \cup allClients' \subseteq addingClients \cup allClients
               /\ isClosing \subseteq isClosing'
    <2>1. CASE UpdateBegin
      BY <1>1, <2>1 DEF UpdateBegin, Known, histories
    <2>2. CASE UpdateCloses
      <3>1. PICK C : /\ C \subseteq {iter}
                     /\ destroyed' = destroyed \cup C /\ allClients' = allClients \ C
        BY <2>2 DEF UpdateCloses
      <3>2. iter \in allClients
        BY <2>2 DEF UpdateCloses, MainGoto, Posting, Control, Visiting
      <3>3. UNCHANGED <<addingClients, isClosing>>
        BY <2>2 DEF UpdateCloses, clients
      <3> QED BY <1>1, <3>1, <3>2, <3>3 DEF Known
    <2>3. CASE CleanupJoined
      BY <1>1, <2>3 DEF CleanupJoined, Known
    <2> QED BY <1>5, <2>1, <2>2, <2>3
  <1>6. ASSUME NEW t \in Threads, EventThread(t), ~ Accept(t), ~ AddClient(t)
        PROVE  UNCHANGED <<addingClients, allClients, destroyed>> /\ isClosing \subseteq isClosing'
    BY <1>6 DEF EventThread, GetQueuedCompletionStatus, Closing, Release, FirstReceive,
        PostAccept, Receive, Write, SetNewData, NextReceive, clients, mainVars, histories
  <1>7. CASE /\ ~ UpdateBegin /\ ~ UpdateCloses /\ ~ CleanupJoined
             /\ \/ MainThread \/ StartListen \/ StartListenFails \/ UpdateBegin \/ Cleanup
                \/ \E c \in Clients : Kick(c) \/ Send(c)
    <2>1. UNCHANGED <<addingClients, allClients, destroyed>> /\ isClosing \subseteq isClosing'
      BY <1>7 DEF MainThread, StartListenPosts, OnRecv, Flush, FlushChunk, UpdateEnd,
        PostCloseServer, CleanupPosted, UpdateNewData, UpdateNoNewData, StartListen,
        StartListenFails, Cleanup, Kick, Send, clients, mainVars, histories
    <2> QED BY <1>2, <2>1
  <1>8. CASE System \/ Peers
    BY <1>2, <1>8, SystemFrame DEF clients, mainVars
  <1>9. CASE UNCHANGED vars
    BY <1>2, <1>9 DEF vars, clients, mainVars, histories
  <1> QED BY <1>2, <1>3, <1>4, <1>5, <1>6, <1>7, <1>8, <1>9 DEF Next, Terminated

\* What a thread is at after its step.
LEMMA ThreadMoves ==
    ASSUME Posting, [Next]_vars, NEW u \in Threads
    PROVE  \/ thread'[u] = thread[u] /\ at'[u] = at[u]
           \/ thread'[u] \in {"none", "wait", "postaccept", "exited"}
           \/ /\ GetQueuedCompletionStatus(u) /\ at'[u] = Head(port).data
              /\ thread'[u] = Serves(ioData[Head(port).data].op, Head(port).result)
              /\ at'[u] \in Datas /\ ioData' = ioData
           \/ /\ at'[u] = at[u] /\ at[u] \in Datas /\ ioData' = ioData
              /\ ThreadLabel(at[u], thread[u])
              /\ \/ Closing(u) /\ thread[u] = "closing" /\ thread'[u] = "release"
                 \/ Accept(u) /\ thread[u] = "accept" /\ thread'[u] \in {"add", "release"}
                 \/ AddClient(u) /\ thread[u] = "add" /\ thread'[u] = "firstrecv"
                 \/ Receive(u) /\ thread[u] = "receive" /\ thread'[u] \in {"release", "write"}
                 \/ Write(u) /\ thread[u] = "write" /\ thread'[u] = "setnew"
                 \/ SetNewData(u) /\ thread[u] = "setnew" /\ thread'[u] = "nextrecv"
  <1>1. CASE UNCHANGED threads
    BY <1>1 DEF threads
  <1>2. CASE StartListen
    BY <1>2 DEF StartListen
  <1>3. ASSUME NEW t \in Threads, EventThread(t), t # u
        PROVE  thread'[u] = thread[u] /\ at'[u] = at[u]
    BY <1>3, OtherThreads
  <1>4. CASE EventThread(u)
    <2>1. CASE GetQueuedCompletionStatus(u)
      <3>1. Head(port).data \in Datas
        BY <2>1, TakenData DEF GetQueuedCompletionStatus
      <3> QED BY <2>1, <3>1 DEF GetQueuedCompletionStatus, Goto, Posting, TypeOK, ThreadsOK,
                                datas
    <2>2. CASE \/ Closing(u) \/ Accept(u) \/ AddClient(u) \/ Receive(u) \/ Write(u)
               \/ SetNewData(u)
      <3>1. at' = at /\ ioData' = ioData /\ thread[u] \in Serving
        BY <2>2 DEF Closing, Accept, AddClient, Receive, Write, SetNewData, Goto, datas,
                    Serving
      <3>2. ThreadLabel(at[u], thread[u]) /\ at[u] \in Datas
        BY <3>1, ServesData
      <3>3. \/ Closing(u) /\ thread[u] = "closing" /\ thread'[u] = "release"
            \/ Accept(u) /\ thread[u] = "accept" /\ thread'[u] \in {"add", "release"}
            \/ AddClient(u) /\ thread[u] = "add" /\ thread'[u] = "firstrecv"
            \/ Receive(u) /\ thread[u] = "receive" /\ thread'[u] \in {"release", "write"}
            \/ Write(u) /\ thread[u] = "write" /\ thread'[u] = "setnew"
            \/ SetNewData(u) /\ thread[u] = "setnew" /\ thread'[u] = "nextrecv"
        BY <2>2 DEF Closing, Accept, AddClient, Receive, Write, SetNewData, Goto, Posting,
                    TypeOK, ThreadsOK
      <3> QED BY <3>1, <3>2, <3>3
    <2>3. CASE Release(u)
      <3>1. AfterRelease(ioData[at[u]].op) \in {"exited", "postaccept", "wait"}
        BY DEF AfterRelease
      <3> QED BY <2>3, <3>1 DEF Release, Goto, Posting, TypeOK, ThreadsOK
    <2>4. CASE FirstReceive(u) \/ NextReceive(u) \/ PostAccept(u)
      BY <2>4 DEF FirstReceive, NextReceive, PostAccept, Goto, Posting, TypeOK, ThreadsOK
    <2> QED BY <1>4, <2>1, <2>2, <2>3, <2>4 DEF EventThread
  <1>5. CASE UNCHANGED vars
    BY <1>1, <1>5 DEF vars
  <1> QED BY <1>1, <1>2, <1>3, <1>4, <1>5, OthersFrame DEF Next, Terminated

\* Who the readers are.
LEMMA Readers ==
    ASSUME Posting
    PROVE  /\ \A i \in 1..Len(port) : ioData[port[i].data].op \in {"ACCEPT", "RECEIVE"} =>
                 /\ ioData[port[i].data].client \in Clients /\ port[i].data \in Datas
                 /\ ReaderOf(port[i].data, ioData[port[i].data].client)
           /\ \A t \in Threads :
                 thread[t] \in Serving /\ ioData[at[t]].op \in {"ACCEPT", "RECEIVE"} =>
                     client(t) \in Clients /\ at[t] \in Datas /\ ReaderOf(at[t], client(t))
           /\ \A t \in Threads : thread[t] \in Serving =>
                 ThreadLabel(at[t], thread[t]) /\ at[t] \notin InPort
  <1>1. ASSUME NEW i \in 1..Len(port), ioData[port[i].data].op \in {"ACCEPT", "RECEIVE"}
        PROVE  /\ ioData[port[i].data].client \in Clients /\ port[i].data \in Datas
               /\ ReaderOf(port[i].data, ioData[port[i].data].client)
    <2>1. PortLabel(port[i].data, port[i].result)
      BY DEF Posting, Labels
    <2>2. port[i].data \in InPort
      BY InHands
    <2> QED BY <1>1, <2>1, <2>2, InHands DEF PortLabel, ReaderOf, Reading
  <1>2. ASSUME NEW t \in Threads, thread[t] \in Serving
        PROVE  ThreadLabel(at[t], thread[t]) /\ at[t] \notin InPort
    BY <1>2, ServesData DEF Posting, Apart
  <1>3. ASSUME NEW t \in Threads, thread[t] \in Serving,
               ioData[at[t]].op \in {"ACCEPT", "RECEIVE"}
        PROVE  client(t) \in Clients /\ at[t] \in Datas /\ ReaderOf(at[t], client(t))
    <2>1. ThreadLabel(at[t], thread[t]) /\ at[t] \in Datas
      BY <1>3, ServesData
    <2> QED BY <1>3, <2>1 DEF ThreadLabel, ReaderOf, Reading, client
  <1> QED BY <1>1, <1>2, <1>3

\* The client that a thread makes known has no other reader.
LEMMA NewlyKnown ==
    ASSUME Posting, Members, OneReader, [Next]_vars,
           NEW b \in Clients, b \in Known', b \notin Known
    PROVE  /\ b \in seen \ backlog
           /\ \E t \in Threads :
                 /\ thread[t] \in {"accept", "add"} /\ client(t) = b /\ at[t] \in Datas
                 /\ Accept(t) \/ AddClient(t)
                 /\ \A e \in Datas : ReaderOf(e, b) => e = at[t]
  <1>1. PICK t \in Threads : (Accept(t) \/ AddClient(t)) /\ client(t) = b
    BY NextKnown
  <1>2. thread[t] \in {"accept", "add"}
    BY <1>1 DEF Accept, AddClient, Goto
  <1>3. ReaderOf(at[t], b) /\ at[t] \in Datas
    <2>1. thread[t] \in Serving
      BY <1>2 DEF Serving
    <2>2. ioData[at[t]].op = "ACCEPT"
      BY <1>2, <2>1, Readers DEF ThreadLabel
    <2> QED BY <1>1, <2>1, <2>2, Readers
  <1>4. b \in seen \ backlog /\ \A e \in Datas : ReaderOf(e, b) => e = at[t]
    BY <1>3 DEF OneReader
  <1> QED BY <1>1, <1>2, <1>3, <1>4

LEMMA NextMembers == Posting /\ OneReader /\ Members /\ [Next]_vars => Members'
  <1> SUFFICES ASSUME Posting, OneReader, Members, [Next]_vars PROVE Members'
    OBVIOUS
  <1>1. TypeOK /\ TypeOK'
    BY NextTypeOK DEF Posting
  <1>2. Known \subseteq Clients /\ Known' \subseteq Clients
    BY <1>1 DEF TypeOK, Known, ClientsOK, MainThreadOK, HistoriesOK
  <1>3. Known \subseteq Known'
    BY NextKnown
  <1>4. backlog' \subseteq seen'
    BY <1>1, NextBacklog DEF Members, TypeOK, PeersOK
  <1>5. Known' \subseteq seen' \ backlog'
    <2> SUFFICES ASSUME NEW b \in Known' PROVE b \in seen' \ backlog'
      OBVIOUS
    <2>1. b \in Clients /\ b \in seen \ backlog
      BY <1>2, NewlyKnown DEF Members
    <2> QED BY <2>1, NextBacklog
  <1>6. ASSUME NEW i \in 1..Len(port'), ioData'[port'[i].data].op = "ACCEPT"
        PROVE  ioData'[port'[i].data].client \notin Known'
    <2>1. ASSUME NEW j \in 1..Len(port), port'[i] = port[j]
          PROVE  ioData'[port'[i].data].client \notin Known'
      <3>1. PICK e : e = port[j].data
        OBVIOUS
      <3>2. e \in InPort /\ ioData'[e] = ioData[e]
        BY <3>1, ContentStays, InHands
      <3>3. PICK b : b = ioData[e].client
        OBVIOUS
      <3>4. b \in Clients /\ e \in Datas /\ ReaderOf(e, b) /\ b \notin Known
        BY <1>6, <2>1, <3>1, <3>2, <3>3, Readers DEF Members
      <3>5. \A t \in Threads : thread[t] \in {"accept", "add"} => at[t] # e
        BY <3>2, Readers DEF Serving
      <3> QED BY <2>1, <3>1, <3>2, <3>3, <3>4, <3>5, NewlyKnown
    <2>2. ASSUME NEW d \in Datas, NEW c \in Clients, CompleteAccept(d, c),
                 ioData'[d].client = c, port'[i].data = d
          PROVE  ioData'[port'[i].data].client \notin Known'
      <3>1. c \in backlog
        BY <2>2, NextBacklog
      <3>2. c \notin Known'
        BY <3>1, NewlyKnown DEF Members
      <3> QED BY <2>2, <3>2
    <2>3. \/ \E j \in 1..Len(port) : port'[i] = port[j]
          \/ \E d \in Datas, c \in Clients :
                CompleteAccept(d, c) /\ ioData'[d].client = c /\ port'[i].data = d
      <3>1. \A d, x : port'[i] = Completion(d, x) => port'[i].data = d
        BY DEF Completion
      <3> QED BY <1>6, <3>1, NextPort
    <2> QED BY <2>1, <2>2, <2>3
  <1>7. ASSUME NEW u \in Threads, thread'[u] \in {"accept", "add"}
        PROVE  client(u)' \notin Known'
    <2>1. ASSUME thread'[u] = thread[u], at'[u] = at[u] PROVE client(u)' \notin Known'
      <3>1. thread[u] \in Serving /\ at[u] # NoData
        BY <1>7, <2>1 DEF Serving, Posting, Control
      <3>2. ioData'[at[u]] = ioData[at[u]]
        BY <2>1, <3>1, ContentStays
      <3>3. PICK b : b = client(u)
        OBVIOUS
      <3>4. b \in Clients /\ ReaderOf(at[u], b) /\ b \notin Known /\ at[u] \in Datas
        BY <1>7, <2>1, <3>1, <3>3, Readers DEF Members, ThreadLabel
      <3>5. \A t \in Threads : at[t] = at[u] => t = u
        BY <3>1 DEF Posting, Apart
      <3>6. ~ Accept(u) /\ ~ AddClient(u)
        BY <1>7, <2>1 DEF Accept, AddClient, Goto, Posting, TypeOK, ThreadsOK
      <3>7. b \notin Known'
        BY <3>4, <3>5, <3>6, NewlyKnown
      <3>8. client(u)' = b
        BY <2>1, <3>2, <3>3 DEF client
      <3> QED BY <3>7, <3>8
    <2>2. ASSUME GetQueuedCompletionStatus(u), at'[u] = Head(port).data, ioData' = ioData,
                 thread'[u] = Serves(ioData[Head(port).data].op, Head(port).result)
          PROVE  client(u)' \notin Known'
      <3>1. /\ port # <<>> /\ ~ \E t \in Threads : Accept(t) \/ AddClient(t)
        <4>1. /\ port # <<>> /\ port' = Tail(port)
          BY <2>2 DEF GetQueuedCompletionStatus
        <4>2. port' # port
          <5>1. Len(port) \in Nat \ {0} /\ Len(port') = Len(port) - 1
            BY <4>1, PortLoses DEF Posting, TypeOK
          <5> QED BY <5>1
        <4> QED BY <4>1, <4>2 DEF Accept, AddClient, posted
      <3>2. Known' = Known
        BY <3>1, NextKnown
      <3>3. Head(port) = port[1] /\ 1 \in 1..Len(port)
        BY <3>1, PortElements DEF Posting, TypeOK
      <3>4. ioData[Head(port).data].op = "ACCEPT"
        BY <1>7, <2>2, <3>1, TakenData DEF ThreadLabel
      <3>5. ioData[Head(port).data].client \notin Known
        BY <3>3, <3>4 DEF Members
      <3> QED BY <2>2, <3>2, <3>5 DEF client
    <2>3. ASSUME at'[u] = at[u], ioData' = ioData, Accept(u), thread[u] = "accept"
          PROVE  client(u)' \notin Known'
      <3>1. client(u)' = client(u) /\ client(u) \notin Known
        BY <2>3 DEF client, Members
      <3>2. UNCHANGED destroyed
        BY <1>7, <2>3 DEF Accept, Goto, Posting, TypeOK, ThreadsOK
      <3>3. Known' = Known
        BY <2>3, <3>2 DEF Accept, Known, clients, mainVars
      <3> QED BY <3>1, <3>3
    <2> QED BY <1>7, <2>1, <2>2, <2>3, ThreadMoves
  <1>8. ASSUME NEW u \in Threads, thread'[u] = "firstrecv" PROVE client(u)' \in Known'
    <2>1. ASSUME thread'[u] = thread[u], at'[u] = at[u] PROVE client(u)' \in Known'
      <3>1. thread[u] \in Serving /\ at[u] # NoData
        BY <1>8, <2>1 DEF Serving, Posting, Control
      <3>2. ioData'[at[u]] = ioData[at[u]]
        BY <2>1, <3>1, ContentStays
      <3>3. client(u)' = client(u)
        BY <2>1, <3>2 DEF client
      <3> QED BY <1>3, <1>8, <2>1, <3>3 DEF Members
    <2>2. ASSUME at'[u] = at[u], ioData' = ioData, AddClient(u) PROVE client(u)' \in Known'
      BY <2>2 DEF AddClient, Known, client
    <2>3. ASSUME GetQueuedCompletionStatus(u),
                 thread'[u] = Serves(ioData[Head(port).data].op, Head(port).result)
          PROVE  FALSE
      BY <1>8, <2>3, TakenData DEF GetQueuedCompletionStatus
    <2> QED BY <1>8, <2>1, <2>2, <2>3, ThreadMoves
  <1>9. /\ \A i \in 1..Len(port') : ioData'[port'[i].data].op = "ACCEPT" =>
              ioData'[port'[i].data].client \notin Known'
        /\ \A t \in Threads : /\ thread'[t] \in {"accept", "add"} => client(t)' \notin Known'
                              /\ thread'[t] = "firstrecv" => client(t)' \in Known'
    BY <1>6, <1>7, <1>8
  <1> QED BY <1>4, <1>5, <1>9, NextKnown DEF Members

LEMMA NextKept ==
    Posting /\ OneReader /\ Members /\ Kept /\ [Next]_vars => Kept'
  <1> SUFFICES ASSUME Posting, OneReader, Members, Kept, [Next]_vars PROVE Kept'
    OBVIOUS
  <1>1. /\ destroyed \subseteq destroyed' /\ isClosing \subseteq isClosing'
        /\ \A c \in Clients : gone[c] = "reset" => gone'[c] = "reset"
    BY EndsForGood, NextKnown
  <1>2. (addingClients' \cup allClients') \cap destroyed' = {}
        /\ addingClients' \cup allClients' \subseteq Clients
    BY NextKnown, NextTypeOK DEF TypeOK, ClientsOK, MainThreadOK
  <1>3. ASSUME NEW c \in (addingClients' \cup allClients') \ isClosing', gone'[c] # "reset"
        PROVE  \E d \in Datas : ReaderOf(d, c)'
    <2>1. c \in Clients /\ gone[c] # "reset" /\ c \notin isClosing /\ ~ Ended(c)'
      BY <1>1, <1>2, <1>3 DEF Ended
    <2>2. PICK d \in Datas : ReaderOf(d, c)
      <3>1. CASE c \in addingClients \cup allClients
        BY <2>1, <3>1 DEF Kept
      <3>2. ASSUME NEW t \in Threads, AddClient(t), c = client(t)
            PROVE  \E d \in Datas : ReaderOf(d, c)
        <4>1. thread[t] = "add" /\ thread[t] \in Serving
          BY <3>2 DEF AddClient, Goto, Serving
        <4> QED BY <3>2, <4>1, Readers DEF ThreadLabel
      <3> QED BY <3>1, <3>2, <1>3, NextKnown
    <2>3. ASSUME NEW t \in Threads, Release(t), at[t] = d PROVE FALSE
      <3>1. thread[t] = "release"
        BY <2>3 DEF Release, Goto
      <3>2. c \in destroyed \cup isClosing
        BY <2>2, <2>3, <3>1 DEF Kept, ReaderOf, client
      <3>3. UNCHANGED <<addingClients, allClients, destroyed>>
        BY <2>3 DEF Release, clients, mainVars, histories
      <3> QED BY <1>2, <1>3, <2>1, <3>2, <3>3
    <2>4. ReaderOf(d, c)' \/ Ended(c)' \/ \E t \in Threads : Release(t) /\ at[t] = d
      BY <2>1, <2>2, NextCirculation DEF ReadersMove
    <2> QED BY <2>1, <2>3, <2>4
  <1>4. ASSUME NEW i \in 1..Len(port'), ioData'[port'[i].data].op = "RECEIVE",
               port'[i].result = "aborted"
        PROVE  ioData'[port'[i].data].client \in destroyed'
    <2>1. ASSUME NEW j \in 1..Len(port), port'[i] = port[j]
          PROVE  ioData'[port'[i].data].client \in destroyed'
      <3>1. PICK e : e = port[j].data
        OBVIOUS
      <3>2. ioData'[e] = ioData[e]
        BY <3>1, ContentStays, InHands
      <3> QED BY <1>1, <1>4, <2>1, <3>1, <3>2 DEF Kept
    <2>2. ASSUME NEW d \in Datas, NEW c \in Clients, CompleteAccept(d, c)
          PROVE  UNCHANGED destroyed /\ ioData'[d].op = "ACCEPT"
      BY <2>2 DEF CompleteAccept, histories, Posting, TypeOK, DatasOK, Labels
    <2>3. \A d, x : port'[i] = Completion(d, x) => port'[i].data = d /\ port'[i].result = x
      BY DEF Completion
    <2>4. ASSUME NEW d \in Datas, NEW r, port'[i] = Completion(d, r),
                 ioData'[d].client = ioData[d].client,
                 r = "aborted" => ioData[d].client \in destroyed
          PROVE  ioData'[port'[i].data].client \in destroyed'
      BY <1>1, <1>4, <2>3, <2>4
    <2> QED BY <1>4, <2>1, <2>2, <2>3, <2>4, NextPort
  <1>5. ASSUME NEW u \in Threads, thread'[u] = "release"
        PROVE  /\ ioData'[at'[u]].op = "ACCEPT" => client(u)' \in destroyed'
               /\ ioData'[at'[u]].op = "RECEIVE" => client(u)' \in destroyed' \cup isClosing'
    <2>1. CASE thread'[u] = thread[u] /\ at'[u] = at[u]
      <3>1. at[u] # NoData
        BY <1>5, <2>1 DEF Serving, Posting, Control
      <3>2. ioData'[at[u]] = ioData[at[u]]
        BY <2>1, <3>1, ContentStays
      <3>3. client(u)' = client(u)
        BY <2>1, <3>2 DEF client
      <3> QED BY <1>1, <1>5, <2>1, <3>2, <3>3 DEF Kept
    <2>2. ASSUME GetQueuedCompletionStatus(u), at'[u] = Head(port).data, ioData' = ioData,
                 thread'[u] = Serves(ioData[Head(port).data].op, Head(port).result)
          PROVE  /\ ioData'[at'[u]].op # "ACCEPT"
                 /\ ioData'[at'[u]].op = "RECEIVE" => client(u)' \in destroyed
      <3>1. port # <<>>
        BY <2>2 DEF GetQueuedCompletionStatus
      <3>2. Head(port) = port[1] /\ 1 \in 1..Len(port)
        BY <3>1, PortElements DEF Posting, TypeOK
      <3>3. PICK op, result : op = ioData[Head(port).data].op /\ result = Head(port).result
        OBVIOUS
      <3>4. /\ result \in {"ok", "zero", "error", "aborted"}
            /\ op = "ACCEPT" => result = "ok"
        BY <3>1, <3>3, TakenData DEF PortLabel
      <3>5. Serves(op, result) = "release" /\ op \in {"ACCEPT", "RECEIVE"} =>
                result = "aborted"
        BY <3>4 DEF Serves
      <3>6. Serves(op, result) = "release"
        BY <1>5, <2>2, <3>3
      <3> QED BY <2>2, <3>2, <3>3, <3>4, <3>5, <3>6 DEF Kept, client
    <2>3. ASSUME at'[u] = at[u], ioData' = ioData, ThreadLabel(at[u], thread[u]),
                 \/ Closing(u) /\ thread[u] = "closing"
                 \/ Accept(u) /\ thread[u] = "accept"
                 \/ Receive(u) /\ thread[u] = "receive"
          PROVE  /\ ioData'[at'[u]].op = "ACCEPT" => client(u)' \in destroyed'
                 /\ ioData'[at'[u]].op = "RECEIVE" => client(u)' \in destroyed' \cup isClosing'
      <3>1. client(u)' = client(u)
        BY <2>3 DEF client
      <3>2. CASE Closing(u) /\ thread[u] = "closing"
        BY <2>3, <3>1, <3>2 DEF Closing, ThreadLabel
      <3>3. CASE Accept(u) /\ thread[u] = "accept"
        <4>1. destroyed' = destroyed \cup {client(u)}
          BY <1>5, <3>3 DEF Accept, Goto, Posting, TypeOK, ThreadsOK
        <4> QED BY <2>3, <3>1, <3>3, <4>1
      <3>4. CASE Receive(u) /\ thread[u] = "receive"
        <4>1. client(u) \in isClosing
          BY <1>5, <3>4 DEF Receive, Goto, Posting, TypeOK, ThreadsOK
        <4> QED BY <1>1, <2>3, <3>1, <3>4, <4>1 DEF ThreadLabel
      <3> QED BY <2>3, <3>2, <3>3, <3>4
    <2> QED BY <1>1, <1>5, <2>1, <2>2, <2>3, ThreadMoves
  <1> QED BY <1>3, <1>4, <1>5 DEF Kept

LEMMA KeptReceive == Posting /\ OneReader /\ Members /\ Kept => OneReceive
  <1> SUFFICES ASSUME Posting, OneReader, Members, Kept,
                      NEW c \in (addingClients \cup allClients) \ isClosing,
                      gone[c] # "reset"
               PROVE  Cardinality({d \in Datas : /\ ioData[d].op = "RECEIVE"
                                                 /\ ioData[d].client = c
                                                 /\ Holders(d) # {}})
                      + Cardinality({t \in Threads : thread[t] = "firstrecv" /\ client(t) = c})
                      = 1
    BY DEF OneReceive
  <1> DEFINE Receives == {d \in Datas : /\ ioData[d].op = "RECEIVE" /\ ioData[d].client = c
                                        /\ Holders(d) # {}}
             First    == {t \in Threads : thread[t] = "firstrecv" /\ client(t) = c}
  <1>1. c \in Clients /\ c \in Known /\ c \notin destroyed
    BY DEF Posting, TypeOK, ClientsOK, MainThreadOK, Members, Known
  <1>2. PICK d \in Datas : ReaderOf(d, c)
    BY DEF Kept
  <1>3. \A e \in Datas : ReaderOf(e, c) => e = d
    BY <1>1, <1>2 DEF OneReader
  <1>4. \A e \in Receives : e = d
    <2> SUFFICES ASSUME NEW e \in Receives PROVE ReaderOf(e, c)
      BY <1>3
    <2>1. Held(e)
      BY HoldersAre
    <2>2. e \notin accepts /\ \A b \in Clients : e \notin Sending(b)
      BY DEF Posting, Labels
    <2> QED BY <2>1, <2>2 DEF Held, ReaderOf, Reading
  <1>5. \A t \in First : at[t] = d /\ ioData[d].op = "ACCEPT"
    <2> SUFFICES ASSUME NEW t \in First PROVE at[t] = d /\ ioData[d].op = "ACCEPT"
      OBVIOUS
    <2>1. thread[t] \in Serving
      BY DEF Serving
    <2>2. ioData[at[t]].op = "ACCEPT" /\ at[t] \in Datas /\ ReaderOf(at[t], c)
      BY <2>1, Readers DEF ThreadLabel
    <2> QED BY <1>3, <2>2
  <1>6. CASE ioData[d].op = "RECEIVE"
    <2>1. Holders(d) # {}
      BY <1>2, HoldersAre DEF ReaderOf, Reading, Held
    <2>2. Receives = {d} /\ First = {}
      BY <1>2, <1>4, <1>5, <1>6, <2>1 DEF ReaderOf
    <2>3. Cardinality({d}) = 1 /\ Cardinality({}) = 0
      BY FS_Singleton, FS_EmptySet
    <2> HIDE DEF Receives, First
    <2>4. Cardinality(Receives) + Cardinality(First) = 1
      BY <2>2, <2>3
    <2> QED BY <2>4 DEF Receives, First
  <1>7. CASE ioData[d].op = "ACCEPT"
    <2>1. Receives = {}
      BY <1>4, <1>7
    <2>2. d \notin InPort
      <3>1. \A i \in 1..Len(port) : port[i].data # d
        BY <1>1, <1>2, <1>7 DEF Members, ReaderOf
      <3> QED BY <3>1 DEF InPort, PortDatas, Range
    <2>3. PICK t \in Threads : at[t] = d
      BY <1>2, <1>7, <2>2 DEF ReaderOf, Reading, Posting, Labels
    <2>4. thread[t] \in Serving /\ client(t) = c
      BY <1>2, <2>3, IOCPAssumption DEF ReaderOf, client, Posting, Control
    <2>5. ThreadLabel(d, thread[t])
      BY <2>3, <2>4, Readers
    <2>6. thread[t] = "firstrecv"
      <3>1. thread[t] # "release"
        BY <1>1, <1>7, <2>3, <2>4 DEF Kept
      <3>2. thread[t] \notin {"accept", "add"}
        BY <1>1, <2>4 DEF Members
      <3> QED BY <1>7, <2>4, <2>5, <3>1, <3>2 DEF ThreadLabel, Serving
    <2>7. First = {t}
      <3>1. \A u \in First : u = t
        BY <1>5, <2>3, IOCPAssumption DEF Posting, Apart
      <3> QED BY <2>4, <2>6, <3>1
    <2>8. Cardinality({t}) = 1 /\ Cardinality({}) = 0
      BY FS_Singleton, FS_EmptySet
    <2> HIDE DEF Receives, First
    <2>9. Cardinality(Receives) + Cardinality(First) = 1
      BY <2>1, <2>7, <2>8
    <2> QED BY <2>9 DEF Receives, First
  <1> QED BY <1>2, <1>6, <1>7 DEF ReaderOf

LEMMA InitReading == Init => OneReader /\ Members /\ Kept
  <1> SUFFICES ASSUME Init PROVE OneReader /\ Members /\ Kept
    OBVIOUS
  <1>1. Len(port) = 0 /\ InPort = {} /\ recvs = {}
        /\ \A t \in Threads : at[t] = NoData /\ thread[t] = "none"
    BY EmptySeq DEF Init, InPort, PortDatas, Range
  <1>2. \A d \in Datas, c \in Clients : ~ ReaderOf(d, c)
    BY <1>1, IOCPAssumption DEF ReaderOf, Reading
  <1>3. /\ addingClients = {} /\ allClients = {} /\ destroyed = {} /\ seen = {}
        /\ backlog = {} /\ Known = {}
    BY DEF Init, Known
  <1> QED BY <1>1, <1>2, <1>3 DEF OneReader, Members, Kept

\* A client has one receive under way from its addClient() on, as long as it is
\* not closing and its connection has not broken: no more than one, and one
\* that was completed is posted again.
THEOREM Rearmed == Spec => []OneReceive
  <1>1. Init => Posting /\ OneReader /\ Members /\ Kept
    BY InitPosting, InitReading
  <1>2. Posting /\ OneReader /\ Members /\ Kept /\ [Next]_vars =>
            (Posting /\ OneReader /\ Members /\ Kept)'
    BY NextPosting, NextOneReader, NextMembers, NextKept
  <1> QED BY <1>1, <1>2, KeptReceive, PTL DEF Spec

\* What keeps the server going, the accepts and the receive of each client, is
\* posted again each time it completes.
THEOREM KeepsGoing == Spec => []StaysPosted
  <1>1. AcceptsKept /\ OneReceive => StaysPosted
    BY DEF StaysPosted
  <1> QED BY <1>1, NeverDeaf, Rearmed, PTL

-----------------------------------------------------------------------------
(* The bytes that arrive                                                   *)

\* Two runs of bytes, one after the other.
LEMMA RunJoins ==
    ASSUME NEW m \in Nat, NEW n \in Nat, NEW k \in Nat, m <= n, n <= k
    PROVE  Run(m, n) \o Run(n, k) = Run(m, k)
  <1>1. /\ Run(m, n) \in Seq(Nat) /\ Len(Run(m, n)) = n - m
        /\ Run(n, k) \in Seq(Nat) /\ Len(Run(n, k)) = k - n
        /\ Run(m, k) \in Seq(Nat) /\ Len(Run(m, k)) = k - m
    <2>1. m <= k
      OBVIOUS
    <2> QED BY <2>1, RunType
  <1>2. /\ \A i \in 1..n - m : Run(m, n)[i] = m + i
        /\ \A i \in 1..k - n : Run(n, k)[i] = n + i
        /\ \A i \in 1..k - m : Run(m, k)[i] = m + i
    BY DEF Run
  <1>3. PICK s \in Seq(Nat), t \in Seq(Nat), u \in Seq(Nat) :
          /\ s = Run(m, n) /\ t = Run(n, k) /\ u = Run(m, k)
    BY <1>1
  <1>4. s \o t \in Seq(Nat) /\ Len(s \o t) = Len(s) + Len(t)
        /\ \A i \in 1..Len(s) + Len(t) :
              (s \o t)[i] = IF i <= Len(s) THEN s[i] ELSE t[i - Len(s)]
    BY ConcatProperties
  <1>5. Len(s) + Len(t) = k - m /\ Len(s) = n - m
    BY <1>1, <1>3
  <1>6. ASSUME NEW i \in 1..k - m PROVE (s \o t)[i] = u[i]
    <2>1. CASE i <= n - m
      <3>1. i \in 1..n - m
        BY <2>1
      <3> QED BY <1>2, <1>3, <1>4, <1>5, <2>1, <3>1
    <2>2. CASE ~ (i <= n - m)
      <3>1. i - (n - m) \in 1..k - n /\ n + (i - (n - m)) = m + i
        BY <2>2
      <3>2. (s \o t)[i] = t[i - (n - m)]
        BY <1>4, <1>5, <2>2
      <3>3. t[i - (n - m)] = m + i
        BY <1>2, <1>3, <3>1
      <3> QED BY <1>2, <1>3, <3>2, <3>3
    <2> QED BY <2>1, <2>2
  <1>7. s \o t = u
    BY <1>1, <1>3, <1>4, <1>5, <1>6, SeqEqual
  <1> QED BY <1>3, <1>7

\* What onRecv has got of a client's input, with what it will find; and the
\* bytes that follow these.
Got(c)   == delivered[c] + size(readerBuffer[c])
Even(c)  == Got(c) = Received(c)
Follow(bytes, c) == Got(c) <= Received(c) /\ bytes = Run(Got(c), Received(c))

\* The client's reader has the bytes that the system received and onRecv has
\* not got yet: none as long as it is under way.
Found == \A c \in Clients : readerBuffer[c].data = Run(delivered[c], Got(c))
Input ==
    /\ \A c \in Clients : c \notin seen \/ c \in backlog => Even(c)
    /\ \A d \in recvs : Even(ioData[d].client)
    /\ \A i \in 1..Len(port) : LET d == port[i].data IN
          /\ ioData[d].op = "ACCEPT" => Even(ioData[d].client)
          /\ ioData[d].op = "RECEIVE" /\ port[i].result = "ok" =>
                Follow(ioData[d].bytes, ioData[d].client)
    /\ \A t \in Threads :
          /\ thread[t] \in {"receive", "write"} => Follow(ioData[at[t]].bytes, client(t))
          /\ thread[t] \in {"accept", "add", "firstrecv", "setnew", "nextrecv"} =>
                Even(client(t))

LEMMA InitInput == Init => Found /\ Input
  <1> SUFFICES ASSUME Init PROVE Found /\ Input
    OBVIOUS
  <1>1. \A c \in Clients : Got(c) = 0 /\ Received(c) = 0
    BY EmptySeq DEF Init, Got, Received, NewByteArray, size
  <1>2. Run(0, 0) = <<>>
    BY DEF Run
  <1>3. Found
    BY <1>1, <1>2 DEF Found, Init, NewByteArray
  <1>4. Len(port) = 0 /\ recvs = {} /\ \A t \in Threads : thread[t] = "none"
    BY EmptySeq DEF Init
  <1> QED BY <1>1, <1>3, <1>4 DEF Input, Even

LEMMA InputTypes ==
    ASSUME TypeOK, NEW c \in Clients
    PROVE  /\ readerBuffer[c] \in ByteArrays(Nat) /\ readerBuffer[c].data \in Seq(Nat)
           /\ size(readerBuffer[c]) = Len(readerBuffer[c].data)
           /\ size(readerBuffer[c]) \in Nat /\ delivered[c] \in Nat /\ Got(c) \in Nat
           /\ arrived[c] \in Nat /\ kin[c] \in Nat /\ Received(c) \in Nat
  <1>1. readerBuffer[c] \in ByteArrays(Nat) /\ delivered[c] \in Nat
        /\ arrived[c] \in Nat /\ kin[c] \in Nat /\ kin[c] <= arrived[c]
    BY DEF TypeOK, ClientsOK, PeersOK, HistoriesOK
  <1>2. readerBuffer[c].data \in Seq(Nat)
    BY <1>1 DEF ByteArrays
  <1>3. size(readerBuffer[c]) = Len(readerBuffer[c].data) /\ size(readerBuffer[c]) \in Nat
    BY <1>2, LenProperties DEF size
  <1> QED BY <1>1, <1>2, <1>3 DEF Got, Received

\* What becomes of the counts in a step: only a WSARecv that completes and
\* writeClientBuffer change them, of the client whose reader they serve.
LEMMA NextCounts ==
    ASSUME Posting, [Next]_vars, NEW c \in Clients
    PROVE  \/ Got(c)' = Got(c) /\ Received(c)' = Received(c)
           \/ \E d \in Datas : /\ CompleteReceive(d) /\ d \in recvs /\ d \notin recvs'
                               /\ ReaderOf(d, c) /\ Got(c)' = Got(c)
           \/ \E t \in Threads : /\ Write(t) /\ client(t) = c /\ at[t] \in Datas
                                 /\ ReaderOf(at[t], c)
  <1> DEFINE Same == Got(c)' = Got(c) /\ Received(c)' = Received(c)
  <1>1. readerBuffer' = readerBuffer /\ delivered' = delivered => Got(c)' = Got(c)
    BY DEF Got
  <1>2. arrived' = arrived /\ kin' = kin => Received(c)' = Received(c)
    BY DEF Received
  <1>3. ASSUME NEW t \in Threads, EventThread(t), ~ Write(t) PROVE Same
    <2>1. UNCHANGED <<arrived, kin, delivered>>
      BY <1>3, EventThreadFrame DEF peers
    <2>2. UNCHANGED readerBuffer
      BY <1>3 DEF EventThread, GetQueuedCompletionStatus, Closing, Release, Accept,
           AddClient, FirstReceive, PostAccept, Receive, SetNewData, NextReceive, clients
    <2> QED BY <1>1, <1>2, <2>1, <2>2
  <1>4. ASSUME NEW t \in Threads, Write(t), client(t) # c PROVE Same
    <2>1. UNCHANGED <<arrived, kin, delivered>>
      BY <1>4 DEF Write, peers, histories
    <2>2. readerBuffer'[c] = readerBuffer[c]
      BY <1>4 DEF Write, Posting, TypeOK, ClientsOK
    <2> QED BY <1>2, <2>1, <2>2 DEF Got
  <1>5. ASSUME NEW t \in Threads, Write(t), client(t) = c
        PROVE  at[t] \in Datas /\ ReaderOf(at[t], c)
    <2>1. thread[t] = "write" /\ thread[t] \in Serving
      BY <1>5 DEF Write, Goto, Serving
    <2> QED BY <1>5, <2>1, Readers DEF ThreadLabel
  <1>6. ASSUME NEW d \in Datas, CompleteReceive(d)
        PROVE  \/ Same
               \/ d \in recvs /\ d \notin recvs' /\ ReaderOf(d, c) /\ Got(c)' = Got(c)
    <2>1. UNCHANGED <<readerBuffer, delivered, arrived>> /\ d \in recvs /\ d \notin recvs'
      BY <1>6 DEF CompleteReceive, clients, histories
    <2>2. Got(c)' = Got(c)
      BY <2>1 DEF Got
    <2>3. CASE ioData[d].client = c
      BY <2>1, <2>2, <2>3 DEF ReaderOf, Reading, Posting, Labels
    <2>4. CASE ioData[d].client # c
      <3>1. kin'[c] = kin[c]
        BY <1>6, <2>4 DEF CompleteReceive, Posting, TypeOK, PeersOK
      <3> QED BY <2>1, <2>2, <3>1 DEF Received
    <2> QED BY <2>3, <2>4
  <1>7. CASE OnRecv
    <2>1. UNCHANGED <<arrived, kin>>
      BY <1>7 DEF OnRecv, peers
    <2>2. CASE iter # c
      <3>1. readerBuffer'[c] = readerBuffer[c] /\ delivered'[c] = delivered[c]
        BY <1>7, <2>2 DEF OnRecv, Posting, TypeOK, ClientsOK, HistoriesOK
      <3> QED BY <1>2, <2>1, <3>1 DEF Got
    <2>3. CASE iter = c
      <3>1. /\ readerBuffer'[c] = truncate(readerBuffer[c])
            /\ delivered'[c] = delivered[c] + size(readerBuffer[c])
        BY <1>7, <2>3 DEF OnRecv, Posting, TypeOK, ClientsOK, HistoriesOK
      <3>2. size(readerBuffer'[c]) = 0
        BY <3>1, InputTypes, TruncateUnread, EmptySeq DEF Posting, size
      <3>3. delivered[c] \in Nat /\ size(readerBuffer[c]) \in Nat
        BY InputTypes DEF Posting
      <3> QED BY <1>2, <2>1, <3>1, <3>2, <3>3 DEF Got
    <2> QED BY <2>2, <2>3
  <1>8. CASE Peers
    <2>1. UNCHANGED <<readerBuffer, delivered>>
      BY <1>8, SystemFrame DEF clients
    <2>2. Received(c)' = Received(c)
      <3>1. \/ UNCHANGED <<arrived, kin>>
            \/ \E e \in Clients : /\ arrived' = [arrived EXCEPT ![e] = @ + 1]
                                  /\ kin' = [kin EXCEPT ![e] = @ + 1]
        BY <1>8 DEF Peers, Connect, Arrive, PeerLeaves
      <3>2. arrived \in [Clients -> Nat] /\ kin \in [Clients -> Nat]
        BY DEF Posting, TypeOK, PeersOK
      <3>3. \/ arrived'[c] = arrived[c] /\ kin'[c] = kin[c]
            \/ arrived'[c] = arrived[c] + 1 /\ kin'[c] = kin[c] + 1
        BY <3>1, <3>2
      <3>4. arrived[c] \in Nat /\ kin[c] \in Nat
        BY <3>2
      <3> QED BY <3>3, <3>4 DEF Received
    <2> QED BY <1>1, <2>1, <2>2
  <1>9. ASSUME UNCHANGED <<readerBuffer, delivered, arrived, kin>> PROVE Same
    BY <1>1, <1>2, <1>9
  <1>10. CASE \/ MainThread /\ ~ OnRecv
              \/ StartListen \/ StartListenFails \/ UpdateBegin \/ Cleanup
              \/ \E e \in Clients : Kick(e) \/ Send(e)
    BY <1>9, <1>10 DEF MainThread, StartListenPosts, Flush, FlushChunk, UpdateCloses,
        UpdateEnd, PostCloseServer, CleanupPosted, CleanupJoined, UpdateNewData,
        UpdateNoNewData, StartListen, StartListenFails, UpdateBegin, Cleanup, Kick, Send,
        clients, peers, histories
  <1>11. CASE \/ \E d \in Datas, e \in Clients : CompleteAccept(d, e)
              \/ \E e \in Clients : CompleteSend(e)
    BY <1>9, <1>11 DEF CompleteAccept, CompleteSend, clients, histories
  <1>12. CASE UNCHANGED vars
    BY <1>9, <1>12 DEF vars, clients, peers, histories
  <1> DEFINE Goal == \/ Got(c)' = Got(c) /\ Received(c)' = Received(c)
                     \/ \E d \in Datas :
                           /\ CompleteReceive(d) /\ d \in recvs /\ d \notin recvs'
                           /\ ReaderOf(d, c) /\ Got(c)' = Got(c)
                     \/ \E t \in Threads : /\ Write(t) /\ client(t) = c /\ at[t] \in Datas
                                           /\ ReaderOf(at[t], c)
  <1>13. ASSUME Same PROVE Goal
    BY <1>13
  <1>14. ASSUME NEW t \in Threads, EventThread(t) PROVE Goal
    <2>1. CASE Same
      BY <1>13, <2>1
    <2>2. CASE ~ Same
      BY <1>3, <1>4, <1>5, <1>14, <2>2
    <2> QED BY <2>1, <2>2
  <1>15. ASSUME System PROVE Goal
    <2>1. CASE \E d \in Datas : CompleteReceive(d)
      <3>1. PICK d \in Datas : CompleteReceive(d)
        BY <2>1
      <3>2. \/ Same
            \/ d \in recvs /\ d \notin recvs' /\ ReaderOf(d, c) /\ Got(c)' = Got(c)
        BY <1>6, <3>1
      <3>3. CASE Same
        BY <1>13, <3>3
      <3> QED BY <3>1, <3>2, <3>3
    <2>2. CASE \/ \E d \in Datas, e \in Clients : CompleteAccept(d, e)
               \/ \E e \in Clients : CompleteSend(e)
      BY <1>11, <2>2
    <2> QED BY <1>15, <2>1, <2>2 DEF System
  <1>16. ASSUME \/ OnRecv \/ Peers \/ UNCHANGED vars
                \/ MainThread /\ ~ OnRecv
                \/ StartListen \/ StartListenFails \/ UpdateBegin \/ Cleanup
                \/ \E e \in Clients : Kick(e) \/ Send(e)
         PROVE  Goal
    BY <1>7, <1>8, <1>10, <1>12, <1>16
  <1> HIDE DEF Goal
  <1>17. Goal
    BY <1>14, <1>15, <1>16 DEF Next, Terminated
  <1> QED BY <1>17 DEF Goal

\* writeClientBuffer adds what follows to what onRecv will find.
LEMMA Written ==
    ASSUME Posting, Found, Input, NEW t \in Threads, Write(t)
    PROVE  /\ UNCHANGED <<delivered, arrived, kin>>
           /\ \A c \in Clients : c # client(t) => readerBuffer'[c] = readerBuffer[c]
           /\ \A c \in Clients : c = client(t) =>
                 /\ readerBuffer'[c].data = Run(delivered[c], Received(c))
                 /\ Got(c)' = Received(c) /\ Received(c)' = Received(c)
  <1>1. thread[t] = "write" /\ thread[t] \in Serving
    BY DEF Write, Goto, Serving
  <1>2. PICK c \in Clients : c = client(t)
    BY <1>1, Readers DEF ThreadLabel
  <1>3. PICK bytes : bytes = ioData[at[t]].bytes
    OBVIOUS
  <1>4. Got(c) <= Received(c) /\ bytes = Run(Got(c), Received(c))
    BY <1>1, <1>2, <1>3 DEF Input, Follow
  <1>5. /\ delivered[c] \in Nat /\ Got(c) \in Nat /\ Received(c) \in Nat
        /\ size(readerBuffer[c]) \in Nat /\ readerBuffer[c] \in ByteArrays(Nat)
    BY InputTypes DEF Posting
  <1>6. delivered[c] <= Got(c)
    BY <1>5 DEF Got
  <1>7. /\ readerBuffer' = [readerBuffer EXCEPT ![c] = writeData(@, bytes)]
        /\ UNCHANGED <<delivered, arrived, kin>>
    BY <1>2, <1>3 DEF Write, peers, histories
  <1>8. readerBuffer \in [Clients -> ByteArrays(Nat)]
    BY DEF Posting, TypeOK, ClientsOK
  <1>9. readerBuffer'[c].data = readerBuffer[c].data \o bytes
    BY <1>7, <1>8 DEF writeData, ByteArrays
  <1>10. readerBuffer'[c].data = Run(delivered[c], Received(c))
    <2>1. readerBuffer[c].data = Run(delivered[c], Got(c))
      BY DEF Found
    <2>2. Run(delivered[c], Got(c)) \o Run(Got(c), Received(c)) = Run(delivered[c], Received(c))
      BY <1>4, <1>5, <1>6, RunJoins
    <2> QED BY <1>4, <1>9, <2>1, <2>2
  <1>11. Len(Run(delivered[c], Received(c))) = Received(c) - delivered[c]
    <2>1. delivered[c] <= Received(c)
      BY <1>4, <1>5, <1>6
    <2> QED BY <1>5, <2>1, RunType
  <1>12. Got(c)' = delivered[c] + (Received(c) - delivered[c])
    BY <1>7, <1>10, <1>11 DEF Got, size
  <1>13. Got(c)' = Received(c) /\ Received(c)' = Received(c)
    BY <1>5, <1>7, <1>12 DEF Received
  <1> QED BY <1>2, <1>7, <1>8, <1>10, <1>13

LEMMA NextFound == Posting /\ Found /\ Input /\ [Next]_vars => Found'
  <1> SUFFICES ASSUME Posting, Found, Input, [Next]_vars, NEW c \in Clients
               PROVE  readerBuffer'[c].data = Run(delivered'[c], Got(c)')
    BY DEF Found
  <1>1. ASSUME readerBuffer'[c] = readerBuffer[c], delivered'[c] = delivered[c]
        PROVE  readerBuffer'[c].data = Run(delivered'[c], Got(c)')
    BY <1>1 DEF Found, Got
  <1>2. ASSUME NEW t \in Threads, Write(t)
        PROVE  readerBuffer'[c].data = Run(delivered'[c], Got(c)')
    <2>1. CASE c = client(t)
      BY <1>2, <2>1, Written
    <2>2. CASE c # client(t)
      BY <1>1, <1>2, <2>2, Written
    <2> QED BY <2>1, <2>2
  <1>3. CASE OnRecv
    <2>1. CASE iter # c
      <3>1. readerBuffer'[c] = readerBuffer[c] /\ delivered'[c] = delivered[c]
        BY <1>3, <2>1 DEF OnRecv, Posting, TypeOK, ClientsOK, HistoriesOK
      <3> QED BY <1>1, <3>1
    <2>2. CASE iter = c
      <3>1. readerBuffer'[c] = truncate(readerBuffer[c])
        BY <1>3, <2>2 DEF OnRecv, Posting, TypeOK, ClientsOK
      <3>2. readerBuffer'[c].data = <<>> /\ size(readerBuffer'[c]) = 0
        BY <3>1, InputTypes, TruncateUnread, EmptySeq DEF Posting, size
      <3>3. delivered'[c] \in Nat
        BY NextTypeOK DEF TypeOK, HistoriesOK
      <3>4. Got(c)' = delivered'[c]
        BY <3>2, <3>3 DEF Got
      <3>5. \A n \in Nat : Run(n, n) = <<>>
        BY DEF Run
      <3> QED BY <3>2, <3>3, <3>4, <3>5
    <2> QED BY <2>1, <2>2
  <1>4. ASSUME NEW t \in Threads, EventThread(t), ~ Write(t)
        PROVE  UNCHANGED <<readerBuffer, delivered>>
    BY <1>4, EventThreadFrame DEF EventThread, GetQueuedCompletionStatus, Closing, Release,
       Accept, AddClient, FirstReceive, PostAccept, Receive, SetNewData, NextReceive, clients
  <1>5. CASE \/ MainThread /\ ~ OnRecv
             \/ StartListen \/ StartListenFails \/ UpdateBegin \/ Cleanup
             \/ \E e \in Clients : Kick(e) \/ Send(e)
    <2>1. UNCHANGED <<readerBuffer, delivered>>
      BY <1>5 DEF MainThread, StartListenPosts, Flush, FlushChunk, UpdateCloses, UpdateEnd,
        PostCloseServer, CleanupPosted, CleanupJoined, UpdateNewData, UpdateNoNewData,
        StartListen, StartListenFails, UpdateBegin, Cleanup, Kick, Send, clients, histories
    <2> QED BY <1>1, <2>1
  <1>6. CASE System \/ Peers \/ UNCHANGED vars
    <2>1. UNCHANGED <<readerBuffer, delivered>>
      BY <1>6, SystemFrame DEF clients, histories, vars
    <2> QED BY <1>1, <2>1
  <1> QED BY <1>1, <1>2, <1>3, <1>4, <1>5, <1>6 DEF Next, Terminated

\* A receive that is under way has been so, or a thread posts it.
LEMMA NextRecvs ==
    ASSUME Posting, [Next]_vars, NEW d \in recvs'
    PROVE  \/ d \in recvs /\ ioData'[d] = ioData[d]
           \/ \E t \in Threads : /\ FirstReceive(t) \/ NextReceive(t)
                                 /\ at[t] = d /\ ioData'[d].client = client(t)
  <1>1. recvs \subseteq ioDataPosted /\ recvs \subseteq Datas /\ recvs \cap accepts = {}
    BY InHands DEF Posting, Apart, Hands
  <1>2. ASSUME UNCHANGED <<recvs, ioData>> PROVE d \in recvs /\ ioData'[d] = ioData[d]
    BY <1>2
  <1>3. ASSUME NEW e \in Datas, NEW content, createOverlappedData(e, content), UNCHANGED recvs
        PROVE  d \in recvs /\ ioData'[d] = ioData[d]
    BY <1>1, <1>3, Created
  <1>4. CASE (postAcceptEx /\ UNCHANGED recvs) \/ FlushChunk \/ PostCloseServer
    BY <1>3, <1>4 DEF postAcceptEx, FlushChunk, PostCloseServer
  <1>5. ASSUME NEW t \in Threads, Release(t) PROVE d \in recvs /\ ioData'[d] = ioData[d]
    <2>1. UNCHANGED recvs /\ ioData' = [ioData EXCEPT ![at[t]] = Free]
      BY <1>5 DEF Release, releaseOverlappedData, posted
    <2>2. at[t] \notin recvs
      BY DEF Posting, Apart
    <2> QED BY <1>1, <2>1, <2>2 DEF Posting, TypeOK, DatasOK
  <1>6. ASSUME NEW t \in Threads, FirstReceive(t) \/ NextReceive(t)
        PROVE  \/ d \in recvs /\ ioData'[d] = ioData[d]
               \/ at[t] = d /\ ioData'[d].client = client(t)
    <2>1. /\ recvs' \subseteq recvs \cup {at[t]}
          /\ ioData' = [ioData EXCEPT ![at[t]] = Data("RECEIVE", client(t), <<>>)]
      BY <1>6 DEF FirstReceive, NextReceive, PostReceive
    <2>2. at[t] \notin recvs
      BY DEF Posting, Apart
    <2>3. d \in Datas
      <3>1. PostedOK'
        BY NextTypeOK DEF TypeOK
      <3> QED BY <3>1 DEF PostedOK
    <2>4. CASE d = at[t]
      BY <2>1, <2>3, <2>4 DEF Data, Posting, TypeOK, DatasOK
    <2>5. CASE d # at[t]
      BY <2>1, <2>3, <2>5 DEF Posting, TypeOK, DatasOK
    <2> QED BY <2>4, <2>5
  <1>7. ASSUME NEW e \in Datas, CompleteReceive(e) PROVE d \in recvs /\ ioData'[d] = ioData[d]
    <2>1. recvs' = recvs \ {e}
      BY <1>7 DEF CompleteReceive
    <2>2. ioData' = ioData \/ \E bytes : ioData' = [ioData EXCEPT ![e].bytes = bytes]
      BY <1>7 DEF CompleteReceive
    <2> QED BY <1>1, <2>1, <2>2 DEF Posting, TypeOK, DatasOK
  <1>8. ASSUME NEW e \in Datas, NEW c \in Clients, CompleteAccept(e, c)
        PROVE  d \in recvs /\ ioData'[d] = ioData[d]
    <2>1. recvs' = recvs /\ e \in accepts
      BY <1>8 DEF CompleteAccept
    <2>2. ioData' = [ioData EXCEPT ![e].client = c]
      BY <1>8 DEF CompleteAccept
    <2> QED BY <1>1, <2>1, <2>2 DEF Posting, TypeOK, DatasOK
  <1>9. ASSUME NEW t \in Threads, EventThread(t)
        PROVE  \/ UNCHANGED <<recvs, ioData>> \/ (postAcceptEx /\ UNCHANGED recvs)
               \/ Release(t) \/ FirstReceive(t) \/ NextReceive(t)
    BY <1>9 DEF EventThread, GetQueuedCompletionStatus, Closing, Accept, AddClient,
                PostAccept, Receive, Write, SetNewData, datas, posted
  <1>10. CASE \E t \in Threads : EventThread(t)
    BY <1>2, <1>4, <1>5, <1>6, <1>9, <1>10
  <1>11. CASE MainThread
    <2>1. \/ UNCHANGED <<recvs, ioData>> \/ (postAcceptEx /\ UNCHANGED recvs)
          \/ FlushChunk \/ PostCloseServer
      BY <1>11 DEF MainThread, StartListenPosts, OnRecv, Flush, UpdateCloses, UpdateEnd,
           CleanupPosted, CleanupJoined, UpdateNewData, UpdateNoNewData, datas, posted
    <2> QED BY <1>2, <1>4, <2>1
  <1>12. CASE \/ Peers \/ StartListen \/ StartListenFails \/ UpdateBegin \/ Cleanup
              \/ \E c \in Clients : Kick(c) \/ Send(c) \/ CompleteSend(c)
    BY <1>2, <1>12 DEF Peers, Connect, Arrive, PeerLeaves, StartListen, StartListenFails,
           UpdateBegin, Cleanup, Kick, Send, CompleteSend, datas, posted
  <1>13. CASE UNCHANGED vars
    BY <1>2, <1>13 DEF vars, datas, posted
  <1> QED BY <1>7, <1>8, <1>10, <1>11, <1>12, <1>13 DEF Next, System, Terminated

\* A client whose reader is at the port or with a thread that does not write,
\* or that has none, keeps its counts.
LEMMA CountsStay ==
    ASSUME Posting, OneReader, [Next]_vars, NEW c \in Clients,
           NEW d \in Datas, ReaderOf(d, c), d \in recvs => d \in recvs',
           \A t \in Threads : Write(t) => at[t] # d
    PROVE  Got(c)' = Got(c) /\ Received(c)' = Received(c)
  <1>1. \A e \in Datas : ReaderOf(e, c) => e = d
    BY DEF OneReader
  <1> QED BY <1>1, NextCounts

LEMMA NextInput ==
    Posting /\ OneReader /\ Found /\ Input /\ [Next]_vars => Input'
  <1> SUFFICES ASSUME Posting, OneReader, Found, Input, [Next]_vars PROVE Input'
    OBVIOUS
  <1>1. ASSUME NEW c \in Clients, Even(c),
               Got(c)' = Got(c) /\ Received(c)' = Received(c)
        PROVE  Even(c)'
    BY <1>1 DEF Even
  <1>2. ASSUME NEW c \in Clients, c \notin seen' \/ c \in backlog' PROVE Even(c)'
    <2>1. c \notin seen \/ c \in backlog
      BY <1>2, NextBacklog
    <2>2. \A d \in Datas : ~ ReaderOf(d, c)
      BY <2>1 DEF OneReader
    <2>3. Got(c)' = Got(c) /\ Received(c)' = Received(c)
      BY <2>2, NextCounts
    <2> QED BY <1>1, <2>1, <2>3 DEF Input
  <1>3. ASSUME NEW d \in recvs' PROVE Even(ioData[d].client)'
    <2>1. ASSUME d \in recvs, ioData'[d] = ioData[d] PROVE Even(ioData[d].client)'
      <3>1. PICK c \in Clients : c = ioData[d].client
        BY <2>1 DEF Posting, Labels
      <3>2. ReaderOf(d, c) /\ d \in Datas
        BY <2>1, <3>1 DEF ReaderOf, Reading, Posting, Labels, TypeOK, PostedOK
      <3>3. \A t \in Threads : at[t] # d
        BY <2>1 DEF Posting, Apart
      <3>4. Got(c)' = Got(c) /\ Received(c)' = Received(c)
        BY <1>3, <3>2, <3>3, CountsStay
      <3>5. Even(c)'
        BY <1>1, <2>1, <3>1, <3>4 DEF Input
      <3> QED BY <2>1, <3>1, <3>5
    <2>2. ASSUME NEW t \in Threads, FirstReceive(t) \/ NextReceive(t), at[t] = d,
                 ioData'[d].client = client(t)
          PROVE  Even(ioData[d].client)'
      <3>1. thread[t] \in {"firstrecv", "nextrecv"} /\ thread[t] \in Serving
        BY <2>2 DEF FirstReceive, NextReceive, Goto, Serving
      <3>2. PICK c \in Clients : c = client(t)
        BY <3>1, Readers DEF ThreadLabel
      <3>3. UNCHANGED <<readerBuffer, delivered, arrived, kin>>
        BY <2>2 DEF FirstReceive, NextReceive, clients, histories, peers
      <3>4. Even(c)'
        BY <3>1, <3>2, <3>3 DEF Input, Even, Got, Received
      <3> QED BY <2>2, <3>2, <3>4
    <2> QED BY <2>1, <2>2, NextRecvs
  <1>4. ASSUME NEW i \in 1..Len(port'), NEW d, d = port'[i].data
        PROVE  /\ ioData'[d].op = "ACCEPT" => Even(ioData[d].client)'
               /\ ioData'[d].op = "RECEIVE" /\ port'[i].result = "ok" =>
                     Follow(ioData[d].bytes, ioData[d].client)'
    <2> DEFINE Goal == /\ ioData'[d].op = "ACCEPT" => Even(ioData[d].client)'
                       /\ ioData'[d].op = "RECEIVE" /\ port'[i].result = "ok" =>
                             Follow(ioData[d].bytes, ioData[d].client)'
    <2>1. ASSUME NEW j \in 1..Len(port), port'[i] = port[j] PROVE Goal
      <3>1. d \in InPort /\ ioData'[d] = ioData[d]
        BY <1>4, <2>1, InHands, ContentStays
      <3>2. CASE ioData[d].op \in {"ACCEPT", "RECEIVE"}
        <4>1. PICK c \in Clients : c = ioData[d].client
          BY <1>4, <2>1, <3>2, Readers
        <4>2. ReaderOf(d, c) /\ d \in Datas
          BY <1>4, <2>1, <3>2, <4>1, Readers
        <4>3. d \notin recvs /\ \A t \in Threads : at[t] # d
          BY <3>1 DEF Posting, Apart
        <4>4. Got(c)' = Got(c) /\ Received(c)' = Received(c)
          BY <4>2, <4>3, CountsStay
        <4>5. /\ ioData[d].op = "ACCEPT" => Even(c)
              /\ ioData[d].op = "RECEIVE" /\ port[j].result = "ok" =>
                    Follow(ioData[d].bytes, c)
          BY <1>4, <2>1, <4>1 DEF Input
        <4>6. /\ ioData[d].op = "ACCEPT" => Even(c)'
              /\ ioData[d].op = "RECEIVE" /\ port[j].result = "ok" =>
                    Follow(ioData[d].bytes, c)'
          BY <3>1, <4>4, <4>5 DEF Even, Follow
        <4> QED BY <2>1, <3>1, <4>1, <4>6
      <3> QED BY <3>1, <3>2
    <2>2. ASSUME NEW e \in Datas, NEW c \in Clients, CompleteAccept(e, c),
                 port'[i].data = e, ioData'[e].client = c
          PROVE  Goal
      <3>1. c \in backlog
        BY <2>2, NextBacklog
      <3>2. UNCHANGED <<readerBuffer, delivered, arrived, kin>>
        BY <2>2 DEF CompleteAccept, clients, histories
      <3>3. Even(c)'
        BY <3>1, <3>2 DEF Input, Even, Got, Received
      <3>4. ioData'[e].op = "ACCEPT"
        BY <2>2 DEF CompleteAccept, Posting, Labels, TypeOK, DatasOK
      <3> QED BY <1>4, <2>2, <3>3, <3>4
    <2>3. ASSUME NEW e \in Datas, CompleteReceive(e), port'[i].data = e,
                 ioData'[e].op = "RECEIVE", ioData'[e].client = ioData[e].client,
                 port'[i].result = "ok" => Takes(e)
          PROVE  Goal
      <3>1. PICK c \in Clients : c = ioData[e].client
        BY <2>3 DEF CompleteReceive, Posting, Labels
      <3>2. Even(c) /\ UNCHANGED <<readerBuffer, delivered>>
        BY <2>3, <3>1 DEF CompleteReceive, Input, clients, histories
      <3>3. Got(c)' = Got(c) /\ Got(c) = Received(c)
        BY <3>2 DEF Got, Even
      <3>4. port'[i].result = "ok" =>
                Received(c) <= Received(c)' /\ ioData'[e].bytes = Run(Received(c), Received(c)')
        BY <2>3, <3>1 DEF Takes
      <3>5. port'[i].result = "ok" => Follow(ioData[e].bytes, c)'
        BY <3>3, <3>4 DEF Follow
      <3> QED BY <1>4, <2>3, <3>1, <3>5
    <2>4. \A e, x : port'[i] = Completion(e, x) => port'[i].data = e /\ port'[i].result = x
      BY DEF Completion
    <2>5. ASSUME ioData'[d].op \in {"SEND", "CLOSE_SERVER"} PROVE Goal
      BY <2>5
    <2> HIDE DEF Goal
    <2>6. Goal
      <3>1. CASE \E j \in 1..Len(port) : port'[i] = port[j]
        BY <2>1, <3>1
      <3>2. CASE ~ \E j \in 1..Len(port) : port'[i] = port[j]
        <4>1. PICK e \in Datas, r \in {"ok", "zero", "error", "aborted"} :
                 /\ port'[i] = Completion(e, r)
                 /\ \/ \E c \in Clients : CompleteAccept(e, c) /\ ioData'[e].client = c
                    \/ /\ CompleteReceive(e)
                       /\ ioData'[e].op = "RECEIVE" /\ ioData'[e].client = ioData[e].client
                       /\ r = "ok" => Takes(e)
                    \/ ioData'[e].op \in {"SEND", "CLOSE_SERVER"}
          BY <3>2, NextPort
        <4>2. port'[i].data = e /\ port'[i].result = r /\ d = e
          BY <1>4, <2>4, <4>1
        <4> QED BY <2>2, <2>3, <2>5, <4>1, <4>2
      <3> QED BY <3>1, <3>2
    <2> QED BY <2>6 DEF Goal
  <1>5. ASSUME NEW u \in Threads
        PROVE  /\ thread'[u] \in {"receive", "write"} =>
                     Follow(ioData[at[u]].bytes, client(u))'
               /\ thread'[u] \in {"accept", "add", "firstrecv", "setnew", "nextrecv"} =>
                     Even(client(u))'
    <2> DEFINE With == {"accept", "add", "firstrecv", "setnew", "nextrecv"}
               Goal == /\ thread'[u] \in {"receive", "write"} =>
                             Follow(ioData[at[u]].bytes, client(u))'
                       /\ thread'[u] \in With => Even(client(u))'
    <2>1. ASSUME NEW d \in Datas, NEW c \in Clients, at'[u] = d, ioData'[d] = ioData[d],
                 ioData[d].client = c, Got(c)' = Got(c), Received(c)' = Received(c),
                 thread'[u] \in {"receive", "write"} => Follow(ioData[d].bytes, c),
                 thread'[u] \in With => Even(c)
          PROVE  Goal
      <3>1. thread'[u] \in {"receive", "write"} => Follow(ioData[d].bytes, c)'
        BY <2>1 DEF Follow
      <3>2. thread'[u] \in With => Even(c)'
        BY <2>1 DEF Even
      <3>3. client(u)' = c
        BY <2>1 DEF client
      <3> HIDE DEF With
      <3>4. thread'[u] \in {"receive", "write"} => Follow(ioData[at[u]].bytes, client(u))'
        BY <2>1, <3>1, <3>3 DEF Follow, Got, Received
      <3>5. thread'[u] \in With => Even(client(u))'
        BY <3>2, <3>3 DEF Even, Got, Received
      <3> QED BY <3>4, <3>5
    <2> HIDE DEF Goal
    <2>2. ASSUME thread'[u] = thread[u], at'[u] = at[u] PROVE Goal
      <3>1. CASE thread[u] \in With \cup {"receive", "write"}
        <4>1. thread[u] \in Serving /\ at[u] # NoData
          BY <3>1 DEF Serving, Posting, Control
        <4>2. ioData'[at[u]] = ioData[at[u]]
          BY <2>2, <4>1, ContentStays
        <4>3. PICK c : c = client(u)
          OBVIOUS
        <4>4. c \in Clients /\ ReaderOf(at[u], c) /\ at[u] \in Datas
          BY <3>1, <4>1, <4>3, Readers DEF ThreadLabel
        <4>5. at[u] \notin recvs /\ \A t \in Threads : at[t] = at[u] => t = u
          BY <4>1 DEF Posting, Apart
        <4>6. ~ Write(u)
          BY <2>2 DEF Write, Goto, Posting, TypeOK, ThreadsOK
        <4>7. Got(c)' = Got(c) /\ Received(c)' = Received(c)
          BY <4>4, <4>5, <4>6, CountsStay
        <4>8. /\ thread[u] \in {"receive", "write"} => Follow(ioData[at[u]].bytes, c)
              /\ thread[u] \in With => Even(c)
          BY <4>3 DEF Input
        <4>9. ioData[at[u]].client = c
          BY <4>3 DEF client
        <4> QED BY <2>1, <2>2, <4>2, <4>4, <4>7, <4>8, <4>9
      <3>2. CASE thread[u] \notin With \cup {"receive", "write"}
        BY <2>2, <3>2 DEF Goal
      <3> QED BY <3>1, <3>2
    <2>3. ASSUME GetQueuedCompletionStatus(u), at'[u] = Head(port).data, ioData' = ioData,
                 thread'[u] = Serves(ioData[Head(port).data].op, Head(port).result)
          PROVE  Goal
      <3>1. port # <<>> /\ UNCHANGED <<readerBuffer, delivered, arrived, kin>>
        BY <2>3 DEF GetQueuedCompletionStatus, clients, histories, peers
      <3>2. Head(port) = port[1] /\ 1 \in 1..Len(port)
        BY <3>1, PortElements DEF Posting, TypeOK
      <3>3. PICK d, r : d = port[1].data /\ r = port[1].result
        OBVIOUS
      <3>4. /\ d \in Datas /\ thread'[u] \in {"closing", "release", "accept", "receive"}
            /\ ThreadLabel(d, thread'[u]) /\ r \in {"ok", "zero", "error", "aborted"}
        BY <2>3, <3>1, <3>2, <3>3, TakenData
      <3>5. CASE thread'[u] \in {"closing", "release"}
        BY <3>5 DEF Goal
      <3>6. CASE thread'[u] \in {"accept", "receive"}
        <4>1. PICK c \in Clients : c = ioData[d].client
          BY <3>4, <3>6 DEF ThreadLabel
        <4>2. thread'[u] = "receive" => r = "ok"
          BY <2>3, <3>2, <3>3, <3>4 DEF Serves
        <4>3. /\ thread'[u] = "accept" => ioData[d].op = "ACCEPT"
              /\ thread'[u] = "receive" => ioData[d].op = "RECEIVE"
          BY <3>4 DEF ThreadLabel
        <4>4. /\ ioData[d].op = "ACCEPT" => Even(c)
              /\ ioData[d].op = "RECEIVE" /\ r = "ok" => Follow(ioData[d].bytes, c)
          BY <3>2, <3>3, <4>1 DEF Input
        <4>5. Got(c)' = Got(c) /\ Received(c)' = Received(c)
          BY <3>1 DEF Got, Received
        <4>6. /\ thread'[u] \in {"receive", "write"} => Follow(ioData[d].bytes, c)
              /\ thread'[u] \in With => Even(c)
          BY <3>6, <4>2, <4>3, <4>4
        <4> QED BY <2>1, <2>3, <3>2, <3>3, <3>4, <4>1, <4>5, <4>6
      <3> QED BY <3>4, <3>5, <3>6
    <2>4. ASSUME at'[u] = at[u], at[u] \in Datas, ioData' = ioData,
                 ThreadLabel(at[u], thread[u]),
                 \/ Accept(u) /\ thread[u] = "accept" /\ thread'[u] \in {"add", "release"}
                 \/ AddClient(u) /\ thread[u] = "add" /\ thread'[u] = "firstrecv"
                 \/ Receive(u) /\ thread[u] = "receive" /\ thread'[u] \in {"release", "write"}
                 \/ SetNewData(u) /\ thread[u] = "setnew" /\ thread'[u] = "nextrecv"
          PROVE  Goal
      <3>1. UNCHANGED <<readerBuffer, delivered, arrived, kin>>
        BY <2>4 DEF Accept, AddClient, Receive, SetNewData, clients, histories, peers
      <3>2. PICK c \in Clients : c = client(u)
        BY <2>4 DEF ThreadLabel, client
      <3>3. Got(c)' = Got(c) /\ Received(c)' = Received(c)
        BY <3>1 DEF Got, Received
      <3>4. /\ thread'[u] \in {"receive", "write"} => Follow(ioData[at[u]].bytes, c)
            /\ thread'[u] \in With => Even(c)
        <4>1. /\ thread[u] \in {"receive", "write"} => Follow(ioData[at[u]].bytes, c)
              /\ thread[u] \in With => Even(c)
          BY <3>2 DEF Input
        <4> QED BY <2>4, <4>1
      <3>5. ioData[at[u]].client = c
        BY <3>2 DEF client
      <3> QED BY <2>1, <2>4, <3>3, <3>4, <3>5
    <2>5. ASSUME at'[u] = at[u], at[u] \in Datas, ioData' = ioData,
                 ThreadLabel(at[u], thread[u]), Write(u), thread[u] = "write",
                 thread'[u] = "setnew"
          PROVE  Goal
      <3>1. PICK c \in Clients : c = client(u)
        BY <2>5 DEF ThreadLabel, client
      <3>2. Even(c)'
        BY <2>5, <3>1, Written DEF Even
      <3>3. client(u)' = c
        BY <2>5, <3>1 DEF client
      <3>4. Even(client(u))'
        BY <3>2, <3>3 DEF Even, Got, Received
      <3> QED BY <2>5, <3>4 DEF Goal
    <2>6. ASSUME thread'[u] \in {"none", "wait", "postaccept", "exited", "release"} PROVE Goal
      BY <2>6 DEF Goal
    <2>7. Goal
      BY <2>2, <2>3, <2>4, <2>5, <2>6, ThreadMoves
    <2> QED BY <2>7 DEF Goal
  <1> QED BY <1>2, <1>3, <1>4, <1>5 DEF Input

\* onRecv finds the bytes in the order in which the peer sent them: the one
\* OverlappedData that reads for a client carries what follows those that are
\* in readerBuffer or delivered, until one thread has written them.
THEOREM InputKeepsOrder == Spec => []InputInOrder
  <1>1. Init => Posting /\ OneReader /\ Members /\ Found /\ Input
    BY InitPosting, InitReading, InitInput
  <1>2. Posting /\ OneReader /\ Members /\ Found /\ Input /\ [Next]_vars =>
            (Posting /\ OneReader /\ Members /\ Found /\ Input)'
    BY NextPosting, NextOneReader, NextMembers, NextFound, NextInput
  <1>3. Posting /\ Found => InputInOrder
    <2> SUFFICES ASSUME Posting, Found, NEW c \in Clients, NEW i \in 1..size(readerBuffer[c])
                 PROVE  readerBuffer[c].data[i] = delivered[c] + i
      BY DEF InputInOrder
    <2>1. readerBuffer[c].data = Run(delivered[c], Got(c))
      BY DEF Found
    <2>2. delivered[c] \in Nat /\ size(readerBuffer[c]) \in Nat
      BY InputTypes DEF Posting
    <2>3. i \in 1..Got(c) - delivered[c]
      BY <2>2 DEF Got
    <2> QED BY <2>1, <2>3 DEF Run
  <1> QED BY <1>1, <1>2, <1>3, PTL DEF Spec

-----------------------------------------------------------------------------
(* The bytes that are sent                                                 *)

\* A run of bytes is cut in two.
LEMMA RunCut ==
    ASSUME NEW m \in Nat, NEW k \in Nat, m <= k, NEW n \in 0..k - m
    PROVE  /\ SubSeq(Run(m, k), 1, n) = Run(m, m + n)
           /\ SubSeq(Run(m, k), n + 1, Len(Run(m, k))) = Run(m + n, k)
  <1>1. m + n \in Nat /\ m <= m + n /\ m + n <= k /\ n \in Nat
    OBVIOUS
  <1>2. /\ Run(m, k) \in Seq(Nat) /\ Len(Run(m, k)) = k - m
        /\ Run(m, m + n) \in Seq(Nat) /\ Len(Run(m, m + n)) = n
        /\ Run(m + n, k) \in Seq(Nat) /\ Len(Run(m + n, k)) = k - m - n
    <2>1. Len(Run(m, m + n)) = m + n - m /\ Len(Run(m + n, k)) = k - (m + n)
      BY <1>1, RunType
    <2> QED BY <1>1, <2>1, RunType
  <1>3. PICK s \in Seq(Nat), t \in Seq(Nat), u \in Seq(Nat) :
          s = Run(m, k) /\ t = Run(m, m + n) /\ u = Run(m + n, k)
    BY <1>2
  <1>4. /\ \A i \in 1..k - m : s[i] = m + i
        /\ \A i \in 1..n : t[i] = m + i
        /\ \A i \in 1..k - m - n : u[i] = m + n + i
    <2>1. m + n - m = n /\ k - (m + n) = k - m - n
      BY <1>1
    <2> QED BY <1>3, <2>1 DEF Run
  <1>5. n <= Len(s) /\ Len(s) = k - m /\ Len(t) = n /\ Len(u) = k - m - n
    BY <1>2, <1>3
  <1>6. SubSeq(s, 1, n) = t
    <2>1. /\ SubSeq(s, 1, n) \in Seq(Nat) /\ Len(SubSeq(s, 1, n)) = n
          /\ \A i \in 1..n : SubSeq(s, 1, n)[i] = s[i]
      BY <1>1, <1>5, TakeFirst
    <2>2. \A i \in 1..n : s[i] = t[i]
      BY <1>4, <1>5
    <2>3. \A i \in 1..n : SubSeq(s, 1, n)[i] = t[i]
      BY <2>1, <2>2
    <2> QED BY <1>5, <2>1, <2>3, SeqEqual
  <1>7. SubSeq(s, n + 1, Len(s)) = u
    <2>1. PICK v : v = SubSeq(s, n + 1, Len(s))
      OBVIOUS
    <2>2. /\ v \in Seq(Nat) /\ Len(v) = k - m - n
          /\ \A i \in 1..k - m - n : v[i] = s[n + i]
      <3>1. /\ SubSeq(s, n + 1, Len(s)) \in Seq(Nat)
            /\ Len(SubSeq(s, n + 1, Len(s))) = Len(s) - n
            /\ \A i \in 1..(Len(s) - n) : SubSeq(s, n + 1, Len(s))[i] = s[n + i]
        BY <1>1, <1>5, CutFirst
      <3>2. Len(s) - n = k - m - n
        BY <1>5
      <3> QED BY <2>1, <3>1, <3>2
    <2>3. \A i \in 1..k - m - n : v[i] = u[i]
      <3> SUFFICES ASSUME NEW i \in 1..k - m - n PROVE s[n + i] = u[i]
        BY <2>2
      <3>1. n + i \in 1..k - m /\ m + (n + i) = m + n + i
        BY <1>1
      <3> QED BY <1>4, <3>1
    <2> QED BY <1>5, <2>1, <2>2, <2>3, SeqEqual
  <1> QED BY <1>3, <1>6, <1>7

\* What the peer has not got of the client's output is in the operations that
\* are under way and in writerBuffer, which is read only while it is posted.
Splits(c, to) ==
    /\ to \in [0..Len(sends[c]) -> 0..sent[c]]
    /\ to[0] = Len(wire[c])
    /\ \A i \in 1..Len(sends[c]) :
          to[i - 1] <= to[i] /\ ioData[sends[c][i]].bytes = Run(to[i - 1], to[i])
    /\ Unread(writerBuffer[c]) = Run(to[Len(sends[c])], sent[c])
Output(c) ==
    /\ writerBuffer[c].readPos # 0 => mainPc = "send" /\ iter = c
    /\ wire[c] = Run(0, Len(wire[c]))
    /\ gone[c] # "reset" => \E to : Splits(c, to)

LEMMA OutputTypes ==
    ASSUME TypeOK, NEW c \in Clients
    PROVE  /\ sends[c] \in Seq(Datas) /\ Len(sends[c]) \in Nat
           /\ wire[c] \in Seq(Nat) /\ Len(wire[c]) \in Nat /\ sent[c] \in Nat
           /\ Sound(writerBuffer[c], Nat) /\ writerBuffer[c] \in ByteArrays(Nat)
           /\ \A i \in 1..Len(sends[c]) : sends[c][i] \in Sending(c) /\ sends[c][i] \in Datas
  <1>1. /\ sends[c] \in Seq(Datas) /\ wire[c] \in Seq(Nat) /\ sent[c] \in Nat
        /\ Sound(writerBuffer[c], Nat) /\ writerBuffer[c] \in ByteArrays(Nat)
    BY DEF TypeOK, PostedOK, PeersOK, HistoriesOK, MainThreadOK, Sound
  <1>2. \A i \in 1..Len(sends[c]) : sends[c][i] \in Sending(c) /\ sends[c][i] \in Datas
    BY <1>1, ElementOfSeq, LenProperties DEF Sending, Range
  <1> QED BY <1>1, <1>2, LenProperties

LEMMA InitOutput == Init => \A c \in Clients : Output(c)
  <1> SUFFICES ASSUME Init, NEW c \in Clients PROVE Output(c)
    OBVIOUS
  <1>1. Run(0, 0) = <<>>
    BY DEF Run
  <1>2. /\ sends[c] = <<>> /\ wire[c] = <<>> /\ sent[c] = 0
        /\ writerBuffer[c] = NewByteArray
    BY DEF Init
  <1>3. Len(<<>>) = 0
    BY EmptySeq
  <1>4. Unread(writerBuffer[c]) = <<>> /\ writerBuffer[c].readPos = 0
    <2>1. NewByteArray.data = <<>> /\ NewByteArray.readPos = 0
      BY DEF NewByteArray
    <2>2. <<>> \in Seq(Nat) /\ SubSeq(<<>>, 0 + 1, 0) = <<>>
      BY EmptySeq, SubSeqEmpty
    <2> QED BY <1>2, <1>3, <2>1, <2>2 DEF Unread, size
  <1>5. Splits(c, [i \in {0} |-> 0])
    <2>1. 0..0 = {0}
      OBVIOUS
    <2> QED BY <1>1, <1>2, <1>3, <1>4, <2>1 DEF Splits
  <1> QED BY <1>1, <1>2, <1>3, <1>4, <1>5 DEF Output

\* A step that does not touch a client's output leaves it as it is.
LEMMA OutputStays ==
    ASSUME Posting, [Next]_vars, NEW c \in Clients, Output(c),
           sends'[c] = sends[c], wire'[c] = wire[c], sent'[c] = sent[c],
           writerBuffer'[c] = writerBuffer[c],
           mainPc = "send" /\ iter = c => mainPc' = "send" /\ iter' = c
    PROVE  Output(c)'
  <1>1. gone[c] = "reset" => gone'[c] = "reset"
    BY EndsForGood
  <1>2. \A i \in 1..Len(sends[c]) : ioData'[sends[c][i]] = ioData[sends[c][i]]
    BY ContentStays, OutputTypes DEF Posting
  <1>3. ASSUME NEW to, Splits(c, to) PROVE Splits(c, to)'
    BY <1>2, <1>3 DEF Splits
  <1> QED BY <1>1, <1>3 DEF Output

LEMMA SendOutput ==
    ASSUME Posting, NEW c \in Clients, Output(c), Send(c)
    PROVE  Output(c)'
  <1>1. /\ UNCHANGED <<mainPc, iter, sends, wire, gone, ioData>> /\ mainPc # "send"
    BY DEF Send, InApplication, posted, peers, datas
  <1>0. PICK n \in Nat : n = sent[c]
    BY OutputTypes DEF Posting
  <1>2. PICK b : n = sent[c] /\ b = writerBuffer[c] /\ Sound(b, Nat)
    BY <1>0, OutputTypes DEF Posting
  <1>3. sent'[c] = n + 1 /\ writerBuffer'[c] = writeData(b, <<n + 1>>)
    BY <1>2 DEF Send, Posting, TypeOK, HistoriesOK, MainThreadOK
  <1>4. writerBuffer'[c].readPos = b.readPos /\ Unread(writerBuffer'[c]) = Unread(b) \o <<n + 1>>
    <2>1. PICK t \in Seq(Nat) : t = <<n + 1>>
      <3>1. PICK x \in Nat : x = n + 1
        BY <1>2
      <3>2. <<x>> \in Seq(Nat)
        OBVIOUS
      <3> QED BY <3>1, <3>2
    <2>2. /\ writeData(b, t).readPos = b.readPos
          /\ Unread(writeData(b, t)) = Unread(b) \o t
      BY <1>2, WriteUnread
    <2> QED BY <1>3, <2>1, <2>2
  <1>5. Run(n, n + 1) = <<n + 1>>
    BY <1>2 DEF Run
  <1>6. ASSUME NEW to, Splits(c, to) PROVE Splits(c, to)'
    <2>1. to[Len(sends[c])] \in 0..n /\ Len(sends[c]) \in Nat
      BY <1>2, <1>6, OutputTypes DEF Splits, Posting
    <2>2. Unread(writerBuffer'[c]) = Run(to[Len(sends[c])], n + 1)
      <3>1. PICK m \in Nat : m = to[Len(sends[c])] /\ m <= n
        BY <2>1
      <3>2. Unread(b) = Run(m, n)
        BY <1>2, <1>6, <3>1 DEF Splits
      <3>3. Run(m, n) \o Run(n, n + 1) = Run(m, n + 1)
        <4>1. n + 1 \in Nat /\ n <= n + 1
          BY <1>2
        <4> QED BY <1>2, <3>1, <4>1, RunJoins
      <3> QED BY <1>4, <1>5, <3>1, <3>2, <3>3
    <2>3. to \in [0..Len(sends[c]) -> 0..n + 1]
      BY <1>2, <1>6 DEF Splits
    <2> QED BY <1>1, <1>3, <1>6, <2>2, <2>3 DEF Splits
  <1>7. b.readPos = 0
    BY <1>1, <1>2 DEF Output
  <1> QED BY <1>1, <1>4, <1>6, <1>7 DEF Output

LEMMA FlushOutput ==
    ASSUME Posting, NEW c \in Clients, Output(c), Flush
    PROVE  writerBuffer'[c] = writerBuffer[c]
  <1>1. mainPc = "flush"
    BY DEF Flush, MainGoto
  <1>2. PICK b \in ByteArrays(Nat) : b = writerBuffer[c] /\ b.readPos = 0
    BY <1>1, OutputTypes DEF Posting, Output
  <1>3. size(b) \in Nat
    BY LenProperties DEF size, ByteArrays
  <1>4. readPosition(b, 0) = b
    BY <1>2, <1>3, AsRecord DEF readPosition, ByteArrays
  <1> QED BY <1>2, <1>4 DEF Flush, Posting, TypeOK, MainThreadOK

\* One buffer of it is posted: the last of the operations, and what is left in
\* writerBuffer, begin further on.
LEMMA FlushChunkOutput ==
    ASSUME Posting, [Next]_vars, NEW c \in Clients, Output(c), FlushChunk
    PROVE  Output(c)'
  <1>1. PICK x \in Clients : x = iter
    BY DEF FlushChunk, MainGoto, Posting, Control, Visiting, TypeOK, MainThreadOK
  <1>2. PICK b : b = writerBuffer[x] /\ Sound(b, Nat)
    BY OutputTypes DEF Posting
  <1>3. PICK rest, last, bytes :
          /\ rest = readData(b, Chunk) /\ last = (readAvailable(rest) = 0)
          /\ bytes = ReadBytes(b, Chunk)
    OBVIOUS
  <1>4. /\ mainPc = "send" /\ mainPc' = (IF last THEN "close" ELSE "send")
        /\ writerBuffer' = [writerBuffer EXCEPT ![x] = IF last THEN truncate(rest) ELSE rest]
        /\ UNCHANGED <<wire, gone, sent, iter>>
    BY <1>1, <1>2, <1>3 DEF FlushChunk, MainGoto, peers, histories
  <1>5. PICK d \in Datas :
          /\ createOverlappedData(d, Data("SEND", x, bytes))
          /\ \/ sends' = [sends EXCEPT ![x] = Append(sends[x], d)]
             \/ gone[x] = "reset" /\ sends' = sends
    BY <1>1, <1>2, <1>3 DEF FlushChunk
  <1>6. /\ sends \in [Clients -> Seq(Datas)]
        /\ writerBuffer \in [Clients -> ByteArrays(Nat)]
    BY DEF Posting, TypeOK, PostedOK, MainThreadOK
  <1>7. CASE c # x
    <2>1. sends'[c] = sends[c] /\ writerBuffer'[c] = writerBuffer[c]
      BY <1>4, <1>5, <1>6, <1>7
    <2> QED BY <1>1, <1>4, <1>7, <2>1, OutputStays
  <1>8. CASE c = x
    <2>1. Chunk \in Nat
      BY IOCPAssumption
    <2>2. PICK n \in 0..readAvailable(b) :
            bytes = SubSeq(Unread(b), 1, n) /\ rest = Past(b, n)
      BY <1>2, <1>3, <2>1, ReadUnread
    <2>3. /\ Sound(rest, Nat)
          /\ Unread(rest) = SubSeq(Unread(b), n + 1, Len(Unread(b)))
      BY <1>2, <2>2, PastUnread
    <2>4. PICK after : after = writerBuffer'[x]
      OBVIOUS
    <2>5. after = (IF last THEN truncate(rest) ELSE rest)
      BY <1>4, <1>6, <2>4
    <2>6. Unread(after) = Unread(rest) /\ (last => after.readPos = 0)
      <3>1. CASE last
        <4>1. Unread(rest) \in Seq(Nat) /\ Len(Unread(rest)) = 0
          BY <1>3, <2>3, <3>1, UnreadProperties
        <4>2. Unread(rest) = <<>>
          BY <4>1, EmptySeq
        <4> QED BY <2>3, <2>5, <3>1, <4>2, TruncateUnread DEF Sound
      <3>2. CASE ~ last
        BY <2>5, <3>2
      <3> QED BY <3>1, <3>2
    <2>7. after.readPos # 0 => mainPc' = "send" /\ iter' = c
      BY <1>1, <1>4, <1>8, <2>6
    <2>8. ASSUME NEW to, Splits(c, to), gone[c] # "reset"
          PROVE  \E to2 : Splits(c, to2)'
      <3>1. PICK l \in Nat, m \in Nat, k \in Nat :
              l = Len(sends[c]) /\ m = to[l] /\ k = sent[c] /\ m <= k
        <4>1. Len(sends[c]) \in Nat /\ sent[c] \in Nat
          BY OutputTypes DEF Posting
        <4>2. to[Len(sends[c])] \in 0..sent[c]
          BY <2>8, <4>1 DEF Splits
        <4> QED BY <4>1, <4>2
      <3>2. Unread(b) = Run(m, k) /\ Len(Unread(b)) = k - m /\ n \in 0..k - m
        <4>1. Unread(b) = Run(m, k)
          BY <1>2, <1>8, <2>8, <3>1 DEF Splits
        <4>2. Len(Run(m, k)) = k - m
          BY <3>1, RunType
        <4>3. Len(Unread(b)) = readAvailable(b)
          BY <1>2, UnreadProperties
        <4> QED BY <2>2, <4>1, <4>2, <4>3
      <3>3. bytes = Run(m, m + n) /\ Unread(after) = Run(m + n, k)
        <4>1. PICK u : u = Unread(b)
          OBVIOUS
        <4>2. /\ u = Run(m, k) /\ bytes = SubSeq(u, 1, n)
              /\ Unread(after) = SubSeq(u, n + 1, Len(u))
          BY <2>2, <2>3, <2>6, <3>2, <4>1
        <4>3. /\ SubSeq(Run(m, k), 1, n) = Run(m, m + n)
              /\ SubSeq(Run(m, k), n + 1, Len(Run(m, k))) = Run(m + n, k)
          <5>1. m \in Nat /\ k \in Nat /\ m <= k /\ n \in 0..k - m
            BY <3>1, <3>2
          <5> QED BY ONLY <5>1, RunCut
        <4> QED BY <4>2, <4>3
      <3>4. /\ sends'[c] = Append(sends[c], d) /\ Len(sends'[c]) = l + 1
            /\ \A i \in 1..l : sends'[c][i] = sends[c][i]
            /\ sends'[c][l + 1] = d
        <4>1. sends' = [sends EXCEPT ![x] = Append(sends[x], d)]
          BY <1>5, <1>8, <2>8
        <4> QED BY <1>6, <1>8, <3>1, <4>1, AppendProperties
      <3>5. /\ \A i \in 1..l : ioData'[sends[c][i]] = ioData[sends[c][i]]
            /\ ioData'[d].bytes = bytes
        <4>1. ioData'[d].bytes = bytes
          BY <1>5, Created DEF Data
        <4> QED BY <3>1, <4>1, ContentStays, OutputTypes DEF Posting
      <3> DEFINE to2 == [i \in 0..l + 1 |-> IF i = l + 1 THEN m + n ELSE to[i]]
      <3>6. to \in [0..l -> 0..k] /\ m + n \in 0..k
        BY <2>8, <3>1, <3>2 DEF Splits
      <3>7. to2 \in [0..l + 1 -> 0..k]
        BY <3>1, <3>6
      <3>8. /\ to2[0] = to[0] /\ to2[l + 1] = m + n
            /\ \A i \in 1..l : to2[i] = to[i] /\ to2[i - 1] = to[i - 1]
            /\ to2[l + 1 - 1] = m
        BY <3>1
      <3> HIDE DEF to2
      <3>9. \A i \in 1..l + 1 : /\ to2[i - 1] <= to2[i]
                                /\ ioData'[sends'[c][i]].bytes = Run(to2[i - 1], to2[i])
        <4> SUFFICES ASSUME NEW i \in 1..l + 1
                     PROVE  /\ to2[i - 1] <= to2[i]
                            /\ ioData'[sends'[c][i]].bytes = Run(to2[i - 1], to2[i])
          OBVIOUS
        <4>1. CASE i = l + 1
          <5>1. to2[i - 1] = m /\ to2[i] = m + n /\ m <= m + n
            BY <3>1, <3>2, <3>8, <4>1
          <5> QED BY <3>3, <3>4, <3>5, <4>1, <5>1
        <4>2. CASE i # l + 1
          <5>1. i \in 1..l
            BY <3>1, <4>2
          <5>2. to[i - 1] <= to[i] /\ ioData[sends[c][i]].bytes = Run(to[i - 1], to[i])
            BY <2>8, <3>1, <5>1 DEF Splits
          <5> QED BY <3>4, <3>5, <3>8, <5>1, <5>2
        <4> QED BY <4>1, <4>2
      <3>10. to2[0] = Len(wire'[c])
        BY <1>4, <2>8, <3>8 DEF Splits
      <3>11. sent'[c] = k /\ writerBuffer'[c] = after
        BY <1>4, <1>8, <2>4, <3>1
      <3> QED BY <3>3, <3>4, <3>7, <3>8, <3>9, <3>10, <3>11 DEF Splits
    <2> QED BY <1>4, <1>8, <2>4, <2>7, <2>8 DEF Output
  <1> QED BY <1>7, <1>8

\* The first of the operations is completed: the peer has its bytes, or the
\* connection has come to its end.
LEMMA CompleteSendOutput ==
    ASSUME Posting, [Next]_vars, NEW e \in Clients, CompleteSend(e),
           NEW c \in Clients, Output(c)
    PROVE  Output(c)'
  <1>1. /\ sends[e] # <<>> /\ sends' = [sends EXCEPT ![e] = Tail(sends[e])]
        /\ UNCHANGED <<writerBuffer, sent, mainPc, iter, ioData>>
    BY DEF CompleteSend, mainVars, histories, datas
  <1>2. /\ sends \in [Clients -> Seq(Datas)] /\ wire \in [Clients -> Seq(Nat)]
        /\ gone \in [Clients -> {"no", "closed", "reset"}]
    BY DEF Posting, TypeOK, PostedOK, PeersOK
  <1>3. CASE c # e
    <2>1. wire'[c] = wire[c] /\ sends'[c] = sends[c]
      BY <1>1, <1>2, <1>3 DEF CompleteSend
    <2> QED BY <1>1, <2>1, OutputStays
  <1>4. CASE c = e
    <2>1. \/ wire' = wire /\ gone'[c] = "reset"
          \/ /\ gone[c] # "reset"
             /\ wire'[c] = wire[c] \o ioData[Head(sends[c])].bytes
      BY <1>2, <1>4 DEF CompleteSend
    <2>2. CASE wire' = wire /\ gone'[c] = "reset"
      BY <1>1, <2>2 DEF Output
    <2>3. CASE gone[c] # "reset" /\ wire'[c] = wire[c] \o ioData[Head(sends[c])].bytes
      <3>1. PICK to : Splits(c, to)
        BY <2>3 DEF Output
      <3>2. PICK l \in Nat \ {0}, k \in Nat :
              l = Len(sends[c]) /\ k = sent[c]
        BY <1>1, <1>4, OutputTypes, EmptySeq DEF Posting
      <3>3. /\ Head(sends[c]) = sends[c][1] /\ sends'[c] = Tail(sends[c])
            /\ Len(sends'[c]) = l - 1
            /\ \A i \in 1..l - 1 : sends'[c][i] = sends[c][i + 1]
        BY <1>1, <1>2, <1>4, <3>2, HeadTailProperties
      <3>4. /\ to \in [0..l -> 0..k] /\ to[0] = Len(wire[c])
            /\ \A i \in 1..l : /\ to[i - 1] <= to[i]
                               /\ ioData[sends[c][i]].bytes = Run(to[i - 1], to[i])
            /\ Unread(writerBuffer[c]) = Run(to[l], k)
        BY <3>1, <3>2 DEF Splits
      <3>5. wire'[c] = Run(0, to[1]) /\ Len(wire'[c]) = to[1]
        <4>1. to[0] \in Nat /\ to[1] \in Nat /\ to[0] <= to[1]
              /\ ioData[sends[c][1]].bytes = Run(to[0], to[1])
          <5>1. 1 \in 1..l /\ 0 \in 0..l /\ 1 \in 0..l /\ 1 - 1 = 0
            BY <3>2
          <5> QED BY <3>4, <5>1
        <4>2. wire[c] = Run(0, to[0])
          BY <3>4 DEF Output
        <4>3. Run(0, to[0]) \o Run(to[0], to[1]) = Run(0, to[1])
          <5>1. PICK p \in Nat, q \in Nat : p = to[0] /\ q = to[1] /\ p <= q
            BY <4>1
          <5>2. 0 \in Nat /\ 0 <= p
            BY <5>1
          <5>3. Run(0, p) \o Run(p, q) = Run(0, q)
            BY <5>1, <5>2, RunJoins
          <5> QED BY <5>1, <5>3
        <4>4. Len(Run(0, to[1])) = to[1]
          <5>1. PICK q \in Nat : q = to[1] /\ 0 <= q /\ q - 0 = q
            BY <4>1
          <5>2. 0 \in Nat
            OBVIOUS
          <5>3. Len(Run(0, q)) = q - 0
            BY <5>1, <5>2, RunType
          <5> QED BY <5>1, <5>3
        <4> QED BY <2>3, <3>3, <4>1, <4>2, <4>3, <4>4
      <3> DEFINE to2 == [i \in 0..l - 1 |-> to[i + 1]]
      <3>6. to2 \in [0..l - 1 -> 0..k]
        BY <3>2, <3>4
      <3>7. /\ to2[0] = to[1] /\ to2[l - 1] = to[l]
            /\ \A i \in 1..l - 1 : to2[i] = to[i + 1] /\ to2[i - 1] = to[i]
        BY <3>2
      <3> HIDE DEF to2
      <3>8. \A i \in 1..l - 1 : /\ to2[i - 1] <= to2[i]
                                /\ ioData'[sends'[c][i]].bytes = Run(to2[i - 1], to2[i])
        <4> SUFFICES ASSUME NEW i \in 1..l - 1
                     PROVE  /\ to2[i - 1] <= to2[i]
                            /\ ioData'[sends'[c][i]].bytes = Run(to2[i - 1], to2[i])
          OBVIOUS
        <4>1. i + 1 \in 1..l /\ i + 1 - 1 = i
          BY <3>2
        <4>2. to[i] <= to[i + 1] /\ ioData[sends[c][i + 1]].bytes = Run(to[i], to[i + 1])
          BY <3>4, <4>1
        <4> QED BY <1>1, <3>3, <3>7, <4>2
      <3>9. Splits(c, to2)'
        BY <1>1, <3>2, <3>3, <3>4, <3>5, <3>6, <3>7, <3>8 DEF Splits
      <3> QED BY <1>1, <3>5, <3>9 DEF Output
    <2> QED BY <2>1, <2>2, <2>3
  <1> QED BY <1>3, <1>4

\* The main thread goes on posting until the last buffer.
LEMMA SendingGoesOn ==
    ASSUME [Next]_vars, mainPc = "send", ~ FlushChunk
    PROVE  UNCHANGED <<mainPc, iter, writerBuffer, sent>>
  <1>1. ~ MainThread
    BY DEF MainThread, StartListenPosts, OnRecv, Flush, UpdateCloses, UpdateEnd,
        PostCloseServer, CleanupPosted, CleanupJoined, UpdateNewData, UpdateNoNewData, MainGoto
  <1>2. /\ ~ StartListen /\ ~ StartListenFails /\ ~ UpdateBegin /\ ~ Cleanup
        /\ \A c \in Clients : ~ Kick(c) /\ ~ Send(c)
    BY DEF StartListen, StartListenFails, UpdateBegin, Cleanup, Kick, Send, InApplication,
           MainGoto
  <1>3. ASSUME NEW t \in Threads, EventThread(t)
        PROVE  UNCHANGED <<mainPc, iter, writerBuffer, sent>>
    BY <1>3, EventThreadFrame DEF mainVars
  <1>4. CASE System \/ Peers
    BY <1>4, SystemFrame DEF mainVars
  <1>5. CASE UNCHANGED vars
    BY <1>5 DEF vars, mainVars, histories
  <1> QED BY <1>1, <1>2, <1>3, <1>4, <1>5 DEF Next, Terminated

LEMMA NextOutput ==
    ASSUME Posting, [Next]_vars, NEW c \in Clients, Output(c)
    PROVE  Output(c)'
  <1>1. ASSUME sends'[c] = sends[c], wire'[c] = wire[c], sent'[c] = sent[c],
               writerBuffer'[c] = writerBuffer[c], ~ FlushChunk
        PROVE  Output(c)'
    BY <1>1, SendingGoesOn, OutputStays
  <1>2. CASE FlushChunk
    BY <1>2, FlushChunkOutput
  <1>3. ASSUME NEW e \in Clients, CompleteSend(e) PROVE Output(c)'
    BY <1>3, CompleteSendOutput
  <1>4. ASSUME NEW e \in Clients, Send(e), ~ FlushChunk PROVE Output(c)'
    <2>1. CASE e = c
      BY <1>4, <2>1, SendOutput
    <2>2. CASE e # c
      <3>1. sent'[c] = sent[c] /\ writerBuffer'[c] = writerBuffer[c]
        BY <1>4, <2>2 DEF Send, Posting, TypeOK, MainThreadOK, HistoriesOK
      <3> QED BY <1>1, <1>4, <3>1 DEF Send, peers, posted
    <2> QED BY <2>1, <2>2
  <1>5. ASSUME Flush, ~ FlushChunk PROVE Output(c)'
    BY <1>1, <1>5, FlushOutput DEF Flush, peers, posted, histories
  <1>6. ASSUME UNCHANGED <<sends, wire, sent, writerBuffer>>, ~ FlushChunk PROVE Output(c)'
    BY <1>1, <1>6
  <1>7. ASSUME NEW t \in Threads, EventThread(t)
        PROVE  UNCHANGED <<sends, wire, sent, writerBuffer>>
    BY <1>7, EventThreadFrame DEF peers, mainVars
  <1>8. ASSUME \/ MainThread /\ ~ Flush /\ ~ FlushChunk
               \/ StartListen \/ StartListenFails \/ UpdateBegin \/ Cleanup
               \/ \E e \in Clients : Kick(e)
        PROVE  UNCHANGED <<sends, wire, sent, writerBuffer>>
    BY <1>8 DEF MainThread, StartListenPosts, OnRecv, UpdateCloses, UpdateEnd,
        PostCloseServer, CleanupPosted, CleanupJoined, UpdateNewData, UpdateNoNewData,
        StartListen, StartListenFails, UpdateBegin, Cleanup, Kick, peers, posted, histories,
        mainVars
  <1>9. ASSUME \/ \E d \in Datas : CompleteReceive(d)
               \/ \E d \in Datas, e \in Clients : CompleteAccept(d, e)
               \/ Peers \/ UNCHANGED vars
        PROVE  UNCHANGED <<sends, wire, sent, writerBuffer>>
    BY <1>9 DEF CompleteReceive, CompleteAccept, Peers, Connect, Arrive, PeerLeaves, peers,
        posted, histories, mainVars, vars
  <1>10. CASE System
    BY <1>2, <1>3, <1>6, <1>9, <1>10 DEF System
  <1>11. CASE MainThread
    BY <1>2, <1>5, <1>6, <1>8, <1>11
  <1> QED BY <1>2, <1>4, <1>6, <1>7, <1>8, <1>9, <1>10, <1>11 DEF Next, Terminated

\* The peer gets the bytes in the order in which the application sent them, and
\* until the connection ends it has or will be sent each of them: flushClient()
\* moves them from writerBuffer into operations in that order, and WSASend
\* completes in the order of posting.
THEOREM OutputKeepsOrder == Spec => []OutputInOrder
  <1> DEFINE Outputs == \A c \in Clients : Output(c)
  <1>1. Init => Posting /\ Outputs
    BY InitPosting, InitOutput
  <1>2. Posting /\ Outputs /\ [Next]_vars => (Posting /\ Outputs)'
    BY NextPosting, NextOutput
  <1>3. Posting /\ Outputs => OutputInOrder
    BY DEF OutputInOrder, Output, Splits
  <1> HIDE DEF Outputs
  <1> QED BY <1>1, <1>2, <1>3, PTL DEF Spec

\* Both directions keep the bytes in order, whichever threads serve them.
THEOREM OrderKept == Spec => []BytesInOrder
  <1>1. InputInOrder /\ OutputInOrder => BytesInOrder
    BY DEF BytesInOrder
  <1> QED BY <1>1, InputKeepsOrder, OutputKeepsOrder, PTL

=============================================================================
