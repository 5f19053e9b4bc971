--------------------------- MODULE ServerSocketIOCP ---------------------------
(***************************************************************************)
(* ServerSocket (wsNetwork) in its Windows form, from startListen() to     *)
(* cleanup().  Every operation is posted to the system with an             *)
(* OverlappedData, comes back through a completion port, and is served by  *)
(* one of several event threads; the main thread adopts new clients,       *)
(* delivers data, posts the output and destroys clients in update().       *)
(*                                                                         *)
(* A free OverlappedData has no content: createOverlappedData sets all of  *)
(* it, so that it does not matter which one the pool hands out.  The ids   *)
(* of the clients are those of module ServerSocket and are left out.  As   *)
(* there, the application keeps a ClientPtr of every client it created.    *)
(* The system and the peers are environment; an AcceptEx does not fail.    *)
(*                                                                         *)
(* HandlesNotReused is assumed of the system: WSASocketW does not return   *)
(* the handle that closesocket() has freed while an event thread is about  *)
(* to post a WSARecv on it.  So a WSARecv for a destroyed client fails;    *)
(* without the assumption it could be posted on another's socket.          *)
(***************************************************************************)
EXTENDS ByteArray, FiniteSets

CONSTANTS
    Clients,        \* the connections
    Threads,        \* the event threads, hardware_concurrency() of them
    Datas,          \* bound: the OverlappedData there may be at a time
    NoClient, NoData,
    MaxConnection,  \* config.maxConnection
    NumAccept,      \* NUM_ACCEPTEX
    PoolInit, PoolCapacity,   \* ObjectPool's init and capacity
    Chunk,          \* BUFFER_SIZE
    Loads           \* bounds: what may happen to the connections

ASSUME IOCPAssumption ==
    /\ NoClient \notin Clients /\ NoData \notin Datas
    /\ IsFiniteSet(Clients) /\ Threads # {} /\ IsFiniteSet(Threads)
    /\ PoolInit \subseteq Datas
    /\ {MaxConnection, NumAccept, Chunk} \subseteq Nat \ {0} /\ PoolCapacity \in Nat
    /\ \A l \in Loads : /\ l.connecting \cup l.closing \cup l.breaking \subseteq Clients
                        /\ l.in \in [Clients -> Nat] /\ l.out \in [Clients -> Nat]

VARIABLES
    load,          \* which of the Loads: the clients that may connect, those
                   \* whose peer may close and whose connection may break,
                   \* and the bytes each may get and be sent
    \* the system and the peers
    backlog,       \* connections that no AcceptEx has taken yet
    arrived, kin,  \* bytes each peer has sent, and those of them not received
    wire,          \* the bytes each peer has got
    gone,          \* what became of each peer: "no", "closed" or "reset"
    accepts, recvs,  \* the OverlappedData of operations that are under way
    sends,         \* the same for sending, in the order of posting
    port,          \* completions that no thread has taken
    \* shared by the threads
    addingClients, numClients, isClosing, hasNewData, readerBuffer,
    ioData,        \* [op, client, bytes] of each OverlappedData
    ioDataPool, ioDataPosted,
    \* the event threads
    thread,        \* where each stands in processEventThread
    at,            \* its local variable ioData
    \* the main thread
    mainPc,
    left,          \* the calls left in the loop that posts them
    allClients, writerBuffer, iter, todo,
    \* histories
    seen, destroyed, delivered, sent

peers    == <<backlog, arrived, kin, wire, gone>>
posted   == <<accepts, recvs, sends, port>>
clients  == <<addingClients, numClients, isClosing, hasNewData, readerBuffer>>
datas    == <<ioData, ioDataPool, ioDataPosted>>
threads  == <<thread, at>>
mainVars == <<mainPc, left, allClients, writerBuffer, iter, todo>>
histories == <<load, seen, destroyed, delivered, sent>>
vars == <<peers, posted, clients, datas, threads, mainVars, histories>>

Operations == {"ACCEPT", "RECEIVE", "SEND", "CLOSE_SERVER"}

\* A completion: the result is an error, "aborted" for a socket that was
\* closed on this side, "zero" for no bytes, or "ok".
Completion(d, result) == [data |-> d, result |-> result]

\* What createOverlappedData and initOverlappedData leave.
Data(op, c, bytes) == [op |-> op, client |-> c, bytes |-> bytes]
Free == Data("none", NoClient, <<>>)

\* The bytes of one direction are numbered: those after the m-th to the n-th.
Run(m, n) == [i \in 1..n - m |-> m + i]

PeersOK ==
    /\ backlog \subseteq Clients
    /\ arrived \in [Clients -> Nat] /\ kin \in [Clients -> Nat]
    /\ \A c \in Clients : kin[c] <= arrived[c]
    /\ wire \in [Clients -> Seq(Nat)] /\ gone \in [Clients -> {"no", "closed", "reset"}]
PostedOK ==
    /\ accepts \subseteq Datas /\ recvs \subseteq Datas /\ sends \in [Clients -> Seq(Datas)]
    /\ port \in Seq([data : Datas, result : {"ok", "zero", "error", "aborted"}])
ClientsOK ==
    /\ addingClients \subseteq Clients /\ numClients \in Nat
    /\ isClosing \subseteq Clients /\ hasNewData \subseteq Clients
    /\ readerBuffer \in [Clients -> ByteArrays(Nat)]
DatasOK ==
    /\ ioData \in [Datas -> [op : Operations \cup {"none"}, client : Clients \cup {NoClient},
                             bytes : Seq(Nat)]]
    /\ ioDataPool \subseteq Datas /\ ioDataPosted \subseteq Datas
ThreadsOK ==
    /\ thread \in [Threads -> {"none", "wait", "closing", "accept", "add", "firstrecv",
                               "postaccept", "receive", "write", "setnew", "nextrecv",
                               "release", "exited"}]
    /\ at \in [Threads -> Datas \cup {NoData}]
MainThreadOK ==
    /\ mainPc \in {"new", "listen", "idle", "next", "recv", "flush", "send", "close",
                   "post", "join", "cleaned"}
    /\ left \in Nat /\ allClients \subseteq Clients /\ todo \subseteq allClients
    /\ writerBuffer \in [Clients -> ByteArrays(Nat)]
    /\ \A c \in Clients : writerBuffer[c].readPos <= size(writerBuffer[c])
    /\ iter \in Clients \cup {NoClient}
HistoriesOK ==
    /\ load \in Loads /\ seen \subseteq Clients /\ destroyed \subseteq Clients
    /\ delivered \in [Clients -> Nat] /\ sent \in [Clients -> Nat]
TypeOK == /\ PeersOK /\ PostedOK /\ ClientsOK /\ DatasOK /\ ThreadsOK /\ MainThreadOK
          /\ HistoriesOK

Init ==
    /\ load \in Loads
    /\ backlog = {} /\ arrived = [c \in Clients |-> 0] /\ kin = [c \in Clients |-> 0]
    /\ wire = [c \in Clients |-> <<>>] /\ gone = [c \in Clients |-> "no"]
    /\ accepts = {} /\ recvs = {} /\ sends = [c \in Clients |-> <<>>] /\ port = <<>>
    /\ addingClients = {} /\ numClients = 0 /\ isClosing = {} /\ hasNewData = {}
    /\ readerBuffer = [c \in Clients |-> NewByteArray]
    /\ ioData = [d \in Datas |-> Free] /\ ioDataPool = PoolInit /\ ioDataPosted = {}
    /\ thread = [t \in Threads |-> "none"] /\ at = [t \in Threads |-> NoData]
    /\ mainPc = "new" /\ left = 0 /\ allClients = {} /\ iter = NoClient /\ todo = {}
    /\ writerBuffer = [c \in Clients |-> NewByteArray]
    /\ seen = {} /\ destroyed = {}
    /\ delivered = [c \in Clients |-> 0] /\ sent = [c \in Clients |-> 0]

-----------------------------------------------------------------------------
(* The pool of OverlappedData; a critical section under ioDataPoolMtx      *)

\* alloc(): one of the pool, or a new one if there is none.
NewData(d) ==
    LET available == IF ioDataPool # {} THEN ioDataPool ELSE Datas \ ioDataPosted
    IN  d \in available /\ d = CHOOSE e \in available : TRUE

createOverlappedData(d, content) ==
    /\ NewData(d)
    /\ ioData' = [ioData EXCEPT ![d] = content]
    /\ ioDataPool' = ioDataPool \ {d} /\ ioDataPosted' = ioDataPosted \cup {d}

\* Mutated form: the list keeps what was given to the pool.
releaseKeepsPosted(d) ==
    /\ ioData' = [ioData EXCEPT ![d] = Free]
    /\ ioDataPool' = IF Cardinality(ioDataPool) < PoolCapacity THEN ioDataPool \cup {d}
                     ELSE ioDataPool
    /\ UNCHANGED ioDataPosted

\* releaseOverlappedData, and free(): a full pool leaves it to the list, and
\* erase() deletes it.
releaseOverlappedData(d) ==
    /\ d \in ioDataPosted /\ ioDataPosted' = ioDataPosted \ {d}
    /\ ioData' = [ioData EXCEPT ![d] = Free]
    /\ ioDataPool' = IF Cardinality(ioDataPool) < PoolCapacity THEN ioDataPool \cup {d}
                     ELSE ioDataPool

\* postAcceptEx, by the main thread or an event thread.
postAcceptEx ==
    \E d \in Datas : /\ createOverlappedData(d, Data("ACCEPT", NoClient, <<>>))
                     /\ accepts' = accepts \cup {d}

-----------------------------------------------------------------------------
(* The peers and the system                                                *)

Listening == \E t \in Threads : thread[t] # "none"

Connect(c) ==
    /\ Listening /\ mainPc # "cleaned" /\ c \in load.connecting \ seen
    /\ seen' = seen \cup {c} /\ backlog' = backlog \cup {c}
    /\ UNCHANGED <<arrived, kin, wire, gone, posted, clients, datas, threads, mainVars,
                   load, destroyed, delivered, sent>>

Arrive(c) ==
    /\ c \in seen \ destroyed /\ gone[c] = "no" /\ arrived[c] < load.in[c]
    /\ arrived' = [arrived EXCEPT ![c] = @ + 1] /\ kin' = [kin EXCEPT ![c] = @ + 1]
    /\ UNCHANGED <<backlog, wire, gone, posted, clients, datas, threads, mainVars,
                   histories>>

PeerLeaves(c, how) ==
    /\ c \in seen \ destroyed /\ gone[c] = "no"
    /\ c \in IF how = "closed" THEN load.closing ELSE load.breaking
    /\ gone' = [gone EXCEPT ![c] = how]
    /\ UNCHANGED <<backlog, arrived, kin, wire, posted, clients, datas, threads, mainVars,
                   histories>>

CompleteAccept(d, c) ==
    /\ d \in accepts /\ c \in backlog
    /\ accepts' = accepts \ {d} /\ backlog' = backlog \ {c}
    /\ ioData' = [ioData EXCEPT ![d].client = c]
    /\ port' = Append(port, Completion(d, "ok"))
    /\ UNCHANGED <<arrived, kin, wire, gone, recvs, sends, clients, ioDataPool,
                   ioDataPosted, threads, mainVars, histories>>

\* WSARecv takes what has arrived, a buffer at most.
CompleteReceive(d) ==
    LET c == ioData[d].client
        n == IF kin[c] < Chunk THEN kin[c] ELSE Chunk
        Ends(result) == /\ port' = Append(port, Completion(d, result))
                        /\ UNCHANGED <<kin, ioData>>
    IN  /\ d \in recvs /\ recvs' = recvs \ {d}
        /\ \/ c \in destroyed /\ Ends("aborted")
           \/ c \notin destroyed /\ gone[c] = "reset" /\ Ends("error")
           \/ c \notin destroyed /\ gone[c] = "closed" /\ kin[c] = 0 /\ Ends("zero")
           \/ /\ c \notin destroyed /\ gone[c] # "reset" /\ kin[c] > 0
              /\ kin' = [kin EXCEPT ![c] = @ - n]
              /\ ioData' = [ioData EXCEPT ![d].bytes =
                                Run(arrived[c] - kin[c], arrived[c] - kin[c] + n)]
              /\ port' = Append(port, Completion(d, "ok"))
        /\ UNCHANGED <<backlog, arrived, wire, gone, accepts, sends, clients, ioDataPool,
                       ioDataPosted, threads, mainVars, histories>>

\* WSASend of a whole buffer; what was not sent when the socket was closed may
\* be dropped, with all that follows.
CompleteSend(c) ==
    LET d == Head(sends[c])
        Ends(result) == port' = Append(port, Completion(d, result)) /\ UNCHANGED wire
    IN  /\ sends[c] # <<>> /\ sends' = [sends EXCEPT ![c] = Tail(@)]
        /\ \/ c \in destroyed /\ Ends("aborted") /\ gone' = [gone EXCEPT ![c] = "reset"]
           \/ /\ c \notin destroyed /\ gone[c] = "reset" /\ UNCHANGED gone
              /\ \E result \in {"error", "zero"} : Ends(result)
           \/ /\ gone[c] # "reset" /\ UNCHANGED gone
              /\ wire' = [wire EXCEPT ![c] = @ \o ioData[d].bytes]
              /\ port' = Append(port, Completion(d, "ok"))
        /\ UNCHANGED <<backlog, arrived, kin, accepts, recvs, clients, datas, threads,
                       mainVars, histories>>

-----------------------------------------------------------------------------
(* processEventThread                                                      *)

Goto(t, from, to) == thread[t] = from /\ thread' = [thread EXCEPT ![t] = to]

\* Mutated form: a receive of no bytes only releases its OverlappedData.
ServesNoZero(op, result) ==
    CASE result # "ok" \/ op \in {"SEND", "CLOSE_SERVER"}
              -> IF result = "error" THEN "closing" ELSE "release"
      [] op = "ACCEPT"  -> "accept"
      [] op = "RECEIVE" -> "receive"

\* The branches on the result of GetQueuedCompletionStatus, on operationType
\* and on BytesTransferred.
Serves(op, result) ==
    CASE result \in {"error", "zero"} -> "closing"
      [] result = "aborted" \/ (result = "ok" /\ op \in {"SEND", "CLOSE_SERVER"})
              -> "release"
      [] result = "ok" /\ op = "ACCEPT"  -> "accept"
      [] result = "ok" /\ op = "RECEIVE" -> "receive"

GetQueuedCompletionStatus(t) ==
    /\ port # <<>> /\ port' = Tail(port)
    /\ at' = [at EXCEPT ![t] = Head(port).data]
    /\ Goto(t, "wait", Serves(ioData[Head(port).data].op, Head(port).result))
    /\ UNCHANGED <<peers, accepts, recvs, sends, clients, datas, mainVars, histories>>

\* The client of the operation that the thread serves.
client(t) == ioData[at[t]].client

\* client->isClosing = true, of a failed operation or one of no bytes.
Closing(t) ==
    /\ Goto(t, "closing", "release")
    /\ isClosing' = isClosing \cup {client(t)}
    /\ UNCHANGED <<peers, posted, addingClients, numClients, hasNewData, readerBuffer,
                   datas, at, mainVars, histories>>

\* Mutated form: only an accepted connection is followed by a new AcceptEx.
AfterReleaseWait(op) == IF op = "CLOSE_SERVER" THEN "exited" ELSE "wait"

\* releaseOverlappedData is the last the handler does, but for a connection
\* that is turned away.
AfterRelease(op) ==
    CASE op = "CLOSE_SERVER" -> "exited"
      [] op = "ACCEPT" -> "postaccept"
      [] OTHER -> "wait"

Release(t) ==
    /\ Goto(t, "release", AfterRelease(ioData[at[t]].op))
    /\ releaseOverlappedData(at[t])
    /\ at' = [at EXCEPT ![t] = NoData]
    /\ UNCHANGED <<peers, posted, clients, mainVars, histories>>

\* numClients is what the last update() counted.
Accept(t) ==
    /\ IF numClients < MaxConnection
       THEN Goto(t, "accept", "add") /\ UNCHANGED destroyed
       ELSE Goto(t, "accept", "release") /\ destroyed' = destroyed \cup {client(t)}
    /\ UNCHANGED <<peers, posted, clients, datas, at, mainVars, load, seen,
                   delivered, sent>>

AddClient(t) ==
    /\ Goto(t, "add", "firstrecv")
    /\ addingClients' = addingClients \cup {client(t)}
    /\ UNCHANGED <<peers, posted, numClients, isClosing, hasNewData, readerBuffer, datas,
                   at, mainVars, histories>>

\* initOverlappedData and WSARecv, which fails at once on a socket that is
\* closed (HandlesNotReused) or broken; nothing comes of the OverlappedData then.
PostReceive(t) ==
    /\ ioData' = [ioData EXCEPT ![at[t]] = Data("RECEIVE", client(t), <<>>)]
    /\ \/ client(t) \notin destroyed /\ recvs' = recvs \cup {at[t]}
       \/ (client(t) \in destroyed \/ gone[client(t)] = "reset") /\ UNCHANGED recvs
    /\ at' = [at EXCEPT ![t] = NoData]

\* Mutated form: two receives are posted.
FirstReceiveTwo(t) ==
    /\ Goto(t, "firstrecv", "postaccept") /\ client(t) \notin destroyed
    /\ \E d \in Datas :
        /\ NewData(d)
        /\ ioData' = [e \in Datas |-> IF e \in {d, at[t]}
                        THEN Data("RECEIVE", client(t), <<>>) ELSE ioData[e]]
        /\ recvs' = recvs \cup {at[t], d}
        /\ ioDataPool' = ioDataPool \ {d} /\ ioDataPosted' = ioDataPosted \cup {d}
    /\ at' = [at EXCEPT ![t] = NoData]
    /\ UNCHANGED <<peers, accepts, sends, port, clients, mainVars, histories>>

\* CreateIoCompletionPort of the new socket, and its first WSARecv.
FirstReceive(t) ==
    /\ Goto(t, "firstrecv", "postaccept") /\ PostReceive(t)
    /\ UNCHANGED <<peers, accepts, sends, port, clients, ioDataPool, ioDataPosted,
                   mainVars, histories>>

PostAccept(t) ==
    /\ Goto(t, "postaccept", "wait") /\ postAcceptEx
    /\ UNCHANGED <<peers, recvs, sends, port, clients, at, mainVars, histories>>

\* ignore if closing
Receive(t) ==
    /\ Goto(t, "receive", IF client(t) \in isClosing THEN "release" ELSE "write")
    /\ UNCHANGED <<peers, posted, clients, datas, at, mainVars, histories>>

\* writeClientBuffer, under readerMtx.
Write(t) ==
    /\ Goto(t, "write", "setnew")
    /\ readerBuffer' = [readerBuffer EXCEPT ![client(t)] =
                            writeData(@, ioData[at[t]].bytes)]
    /\ UNCHANGED <<peers, posted, addingClients, numClients, isClosing, hasNewData, datas,
                   at, mainVars, histories>>

SetNewData(t) ==
    /\ Goto(t, "setnew", "nextrecv")
    /\ hasNewData' = hasNewData \cup {client(t)}
    /\ UNCHANGED <<peers, posted, addingClients, numClients, isClosing, readerBuffer,
                   datas, at, mainVars, histories>>

NextReceive(t) ==
    /\ Goto(t, "nextrecv", "wait") /\ PostReceive(t)
    /\ UNCHANGED <<peers, accepts, sends, port, clients, ioDataPool, ioDataPosted,
                   mainVars, histories>>

-----------------------------------------------------------------------------
(* The main thread                                                         *)

MainGoto(from, to) == mainPc = from /\ mainPc' = to

\* Any of the calls before the threads are started may fail.
StartListenFails ==
    /\ MainGoto("new", "idle")
    /\ UNCHANGED <<peers, posted, clients, datas, threads, left, allClients, writerBuffer,
                   iter, todo, histories>>

StartListen ==
    /\ MainGoto("new", "listen") /\ left' = NumAccept
    /\ thread' = [t \in Threads |-> "wait"]
    /\ UNCHANGED <<peers, posted, clients, datas, at, allClients, writerBuffer, iter, todo,
                   histories>>

StartListenPosts ==
    /\ MainGoto("listen", IF left = 1 THEN "idle" ELSE "listen")
    /\ postAcceptEx /\ left' = left - 1
    /\ UNCHANGED <<peers, recvs, sends, port, clients, threads, allClients, writerBuffer,
                   iter, todo, histories>>

\* update(): the new clients are adopted, in one critical section under addMtx.
UpdateBegin ==
    /\ MainGoto("idle", "next")
    /\ allClients' = allClients \cup addingClients /\ addingClients' = {}
    /\ todo' = allClients'
    /\ UNCHANGED <<peers, posted, numClients, isClosing, hasNewData, readerBuffer, datas,
                   threads, left, writerBuffer, iter, histories>>

UpdateNewData(c) ==
    /\ MainGoto("next", "recv") /\ c \in todo /\ c \in hasNewData
    /\ hasNewData' = hasNewData \ {c}
    /\ iter' = c /\ todo' = todo \ {c}
    /\ UNCHANGED <<peers, posted, addingClients, numClients, isClosing, readerBuffer,
                   datas, threads, left, allClients, writerBuffer, histories>>

\* A client without new data may have been idle for kickTime.
UpdateNoNewData(c) ==
    /\ MainGoto("next", "flush") /\ c \in todo /\ c \notin hasNewData
    /\ \E idle \in {{}, {c}} : isClosing' = isClosing \cup idle
    /\ iter' = c /\ todo' = todo \ {c}
    /\ UNCHANGED <<peers, posted, addingClients, numClients, hasNewData, readerBuffer,
                   datas, threads, left, allClients, writerBuffer, histories>>

\* onRecv, the application's, takes all there is, under readerMtx.
OnRecv ==
    /\ MainGoto("recv", "flush")
    /\ readerBuffer' = [readerBuffer EXCEPT ![iter] = truncate(@)]
    /\ delivered' = [delivered EXCEPT ![iter] = @ + size(readerBuffer[iter])]
    /\ UNCHANGED <<peers, posted, addingClients, numClients, isClosing, hasNewData, datas,
                   threads, left, allClients, writerBuffer, iter, todo, load, seen,
                   destroyed, sent>>

\* flushClient, which holds writerMtx all the time.
Flush ==
    /\ MainGoto("flush", IF size(writerBuffer[iter]) = 0 THEN "close" ELSE "send")
    /\ writerBuffer' = [writerBuffer EXCEPT ![iter] = readPosition(@, 0)]
    /\ UNCHANGED <<peers, posted, clients, datas, threads, left, allClients, iter, todo,
                   histories>>

\* One buffer of it is posted; truncate() comes after the last one.  WSASend
\* fails at once on a broken socket.
FlushChunk ==
    LET b    == writerBuffer[iter]
        rest == readData(b, Chunk)
        last == readAvailable(rest) = 0
    IN  /\ MainGoto("send", IF last THEN "close" ELSE "send")
        /\ \E d \in Datas :
            /\ createOverlappedData(d, Data("SEND", iter, ReadBytes(b, Chunk)))
            /\ \/ sends' = [sends EXCEPT ![iter] = Append(@, d)]
               \/ gone[iter] = "reset" /\ UNCHANGED sends
        /\ writerBuffer' = [writerBuffer EXCEPT ![iter] = IF last THEN truncate(rest)
                                                          ELSE rest]
        /\ UNCHANGED <<peers, accepts, recvs, port, clients, threads, left, allClients,
                       iter, todo, histories>>

\* destroyClient and erase, of a client that is closing.
UpdateCloses ==
    /\ MainGoto("close", "next")
    /\ LET C == {iter} \cap isClosing
       IN destroyed' = destroyed \cup C /\ allClients' = allClients \ C
    /\ iter' = NoClient
    /\ UNCHANGED <<peers, posted, clients, datas, threads, left, writerBuffer, todo, load,
                   seen, delivered, sent>>

UpdateEnd ==
    /\ MainGoto("next", "idle") /\ todo = {}
    /\ numClients' = Cardinality(allClients)
    /\ UNCHANGED <<peers, posted, addingClients, isClosing, hasNewData, readerBuffer,
                   datas, threads, left, allClients, writerBuffer, iter, todo, histories>>

\* The application's calls, between two updates or in onRecv.
InApplication == mainPc \in {"idle", "recv"}

Kick(c) ==
    /\ InApplication /\ c \in allClients \ isClosing
    /\ isClosing' = isClosing \cup {c}
    /\ UNCHANGED <<peers, posted, addingClients, numClients, hasNewData, readerBuffer,
                   datas, threads, mainVars, histories>>

Send(c) ==
    /\ InApplication /\ c \in allClients /\ sent[c] < load.out[c]
    /\ sent' = [sent EXCEPT ![c] = @ + 1]
    /\ writerBuffer' = [writerBuffer EXCEPT ![c] = writeData(@, <<sent'[c]>>)]
    /\ UNCHANGED <<peers, posted, clients, datas, threads, mainPc, left, allClients, iter,
                   todo, load, seen, destroyed, delivered>>

\* Mutated form: one CLOSE_SERVER for all the threads.
CleanupOne ==
    /\ MainGoto("idle", "post") /\ left' = 1
    /\ UNCHANGED <<peers, posted, clients, datas, threads, allClients, writerBuffer, iter,
                   todo, histories>>

\* cleanup(): the calls left are one for each thread in eventThreads.
Cleanup ==
    /\ MainGoto("idle", "post")
    /\ left' = Cardinality({t \in Threads : thread[t] # "none"})
    /\ UNCHANGED <<peers, posted, clients, datas, threads, allClients, writerBuffer, iter,
                   todo, histories>>

PostCloseServer ==
    /\ MainGoto("post", "post") /\ left > 0 /\ left' = left - 1
    /\ \E d \in Datas :
        /\ createOverlappedData(d, Data("CLOSE_SERVER", NoClient, <<>>))
        /\ port' = Append(port, Completion(d, "ok"))
    /\ UNCHANGED <<peers, accepts, recvs, sends, clients, threads, allClients,
                   writerBuffer, iter, todo, histories>>

CleanupPosted ==
    /\ MainGoto("post", "join") /\ left = 0
    /\ UNCHANGED <<peers, posted, clients, datas, threads, left, allClients, writerBuffer,
                   iter, todo, histories>>

\* All the threads are joined; the clients in allClients are destroyed.
CleanupJoined ==
    /\ MainGoto("join", "cleaned") /\ \A t \in Threads : thread[t] \in {"none", "exited"}
    /\ isClosing' = isClosing \cup allClients /\ destroyed' = destroyed \cup allClients
    /\ allClients' = {} /\ numClients' = 0
    /\ UNCHANGED <<peers, posted, addingClients, hasNewData, readerBuffer, datas, threads,
                   left, writerBuffer, iter, todo, load, seen, delivered, sent>>

-----------------------------------------------------------------------------
EventThread(t) ==
    \/ GetQueuedCompletionStatus(t) \/ Closing(t) \/ Release(t) \/ Accept(t)
    \/ AddClient(t) \/ FirstReceive(t) \/ PostAccept(t) \/ Receive(t) \/ Write(t)
    \/ SetNewData(t) \/ NextReceive(t)

\* What the main thread does once it has called update() or cleanup().
MainThread ==
    \/ StartListenPosts \/ OnRecv \/ Flush \/ FlushChunk \/ UpdateCloses \/ UpdateEnd
    \/ PostCloseServer \/ CleanupPosted \/ CleanupJoined
    \/ \E c \in Clients : UpdateNewData(c) \/ UpdateNoNewData(c)

System ==
    \/ \E d \in Datas : CompleteReceive(d) \/ \E c \in Clients : CompleteAccept(d, c)
    \/ \E c \in Clients : CompleteSend(c)

Peers == \E c \in Clients :
            Connect(c) \/ Arrive(c) \/ \E how \in {"closed", "reset"} : PeerLeaves(c, how)

Terminated == mainPc = "cleaned" /\ UNCHANGED vars

Next == \/ \E t \in Threads : EventThread(t)
        \/ MainThread \/ System \/ Peers \/ Terminated
        \/ StartListen \/ StartListenFails \/ UpdateBegin \/ Cleanup
        \/ \E c \in Clients : Kick(c) \/ Send(c)

\* The threads are scheduled, operations complete, and the main loop goes on
\* calling update().
Spec     == Init /\ [][Next]_vars
FairSpec == /\ Spec
            /\ WF_vars(MainThread) /\ WF_vars(UpdateBegin) /\ WF_vars(System)
            /\ \A t \in Threads : WF_vars(EventThread(t))

-----------------------------------------------------------------------------
(* Properties                                                              *)

\* Who holds an OverlappedData that may come back.
Holders(d) ==
    {<<"accepts">> : x \in {d} \cap accepts} \cup {<<"recvs">> : x \in {d} \cap recvs}
    \cup (UNION {{<<"sends", c, i>> : i \in {j \in DOMAIN sends[c] : sends[c][j] = d}} :
                c \in Clients})
    \cup {<<"port", i>> : i \in {j \in DOMAIN port : port[j].data = d}}
    \cup {<<"thread", t>> : t \in {u \in Threads : at[u] = d}}

\* An OverlappedData is in one pair of hands: the system's, the port's or a
\* thread's, and then it is not in the pool, where another operation would
\* get it.  One that is posted and in nobody's hands is lost for good: that
\* happens only to the operations of a connection that was closed or broken.
OneHolder ==
    /\ ioDataPosted \cap ioDataPool = {}
    /\ \A d \in Datas :
        /\ Cardinality(Holders(d)) <= IF d \in ioDataPosted THEN 1 ELSE 0
        /\ d \in ioDataPosted /\ Holders(d) = {} =>
                LET c == ioData[d].client
                IN c \in Clients /\ (c \in destroyed \/ gone[c] = "reset")

\* The handlers that end with a new AcceptEx.
Reposting(t) == \/ thread[t] \in {"accept", "add", "firstrecv", "postaccept"}
                \/ thread[t] = "release" /\ ioData[at[t]].op = "ACCEPT"

\* The OverlappedData of the completed accepts.
Accepted == {d \in Datas : /\ ioData[d].op = "ACCEPT"
                           /\ \E i \in DOMAIN port : port[i].data = d}

\* The server never stops listening: NUM_ACCEPTEX accepts are under way, or
\* completed and going to be posted again, whatever became of a connection.
AcceptsKept ==
    Listening =>
        Cardinality(accepts \cup Accepted) + Cardinality({t \in Threads : Reposting(t)})
        + (IF mainPc = "listen" THEN left ELSE 0) = NumAccept

\* A client that is not closing always has a receive under way, and not two,
\* which different threads could complete in the wrong order.
OneReceive ==
    \A c \in (addingClients \cup allClients) \ isClosing :
        gone[c] # "reset" =>
            Cardinality({d \in Datas : /\ ioData[d].op = "RECEIVE" /\ ioData[d].client = c
                                       /\ Holders(d) # {}})
            + Cardinality({t \in Threads : thread[t] = "firstrecv" /\ client(t) = c}) = 1

\* What keeps the server going is posted again each time it completes.
StaysPosted == AcceptsKept /\ OneReceive

\* onRecv finds the bytes in the order in which the peer sent them, without a
\* gap, although different threads receive them.
InputInOrder ==
    \A c \in Clients : \A i \in 1..size(readerBuffer[c]) :
        readerBuffer[c].data[i] = delivered[c] + i

\* The peer gets the bytes in the order in which the application sent them;
\* while the connection lasts, those it has not got are, without a gap, in the
\* operations that are under way and in writerBuffer: to[i] is the last one of
\* the i-th operation.
OutputInOrder ==
    \A c \in Clients :
        /\ wire[c] = Run(0, Len(wire[c]))
        /\ c \notin destroyed /\ gone[c] # "reset" =>
              \E to \in [0..Len(sends[c]) -> 0..sent[c]] :
                  /\ to[0] = Len(wire[c])
                  /\ \A i \in 1..Len(sends[c]) :
                        /\ to[i - 1] <= to[i]
                        /\ ioData[sends[c][i]].bytes = Run(to[i - 1], to[i])
                  /\ Unread(writerBuffer[c]) = Run(to[Len(sends[c])], sent[c])

BytesInOrder == InputInOrder /\ OutputInOrder

\* What a peer has sent is delivered by onRecv, and a connection that its peer
\* has closed is closed by the server, unless the connection or the server
\* has come to its end before.
Served ==
    \A c \in Clients :
        /\ arrived[c] > delivered[c] ~> \/ arrived[c] = delivered[c] \/ gone[c] = "reset"
                                        \/ c \in destroyed \/ mainPc = "cleaned"
        /\ gone[c] = "closed" ~> c \in destroyed \/ mainPc = "cleaned"

\* cleanup() returns: every thread gets a CLOSE_SERVER and serves nothing else
\* after it.
CleanupReturns == mainPc = "join" ~> mainPc = "cleaned"
=============================================================================
