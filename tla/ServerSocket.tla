----------------------------- MODULE ServerSocket -----------------------------
(***************************************************************************)
(* ServerSocket (wsNetwork) in its Linux form, from startListen() to       *)
(* cleanup().  The event thread waits on an edge-triggered epoll, accepts  *)
(* connections, reads into and writes from the clients' buffers; the main  *)
(* thread adopts new clients, delivers data, flushes and destroys clients  *)
(* in update(), and ends it all in cleanup().                              *)
(*                                                                         *)
(* Bytes that come in are counted, since one thread appends them and       *)
(* onRecv takes them all; those that go out, for which two threads compete,*)
(* are numbered.  The application is assumed to keep a ClientPtr of every  *)
(* client it created, so that the event thread, which holds plain          *)
(* pointers, finds a client that the main thread has destroyed meanwhile   *)
(* with its socket closed.  The kernel and the peers are environment.      *)
(***************************************************************************)
EXTENDS ByteArray, Functions, FiniteSets

CONSTANTS
    Clients,        \* the connections
    NoClient,
    IdSpace,        \* the values of the uint16_t client id are 0 .. IdSpace - 1
    Chunk,          \* BUFFER_SIZE
    Loads           \* configurations, and bounds: what the connections may do

ASSUME ServerSocketAssumption ==
    /\ NoClient \notin Clients /\ IsFiniteSet(Clients)
    /\ IdSpace \in Nat \ {0}
    /\ Chunk \in Nat \ {0}
    /\ \A l \in Loads : /\ l.acceptFails \in BOOLEAN
                        /\ l.connecting \cup l.closing \subseteq Clients
                        /\ l.maxConnection \in Nat \ {0}
                        /\ l.old \in [0..IdSpace - 1 -> Clients \cup {NoClient}]
                        /\ \A i, j \in 0..IdSpace - 1 :
                             i # j /\ l.old[i] # NoClient => l.old[i] # l.old[j]
                        /\ l.in \in [Clients -> Nat] /\ l.out \in [Clients -> Nat]

VARIABLES
    load,          \* which of the Loads: config.maxConnection, the clients that
                   \* may connect, those whose peer may close, the bytes each
                   \* may send that onRecv has not taken, the bytes each may
                   \* be sent, the clients that are connected already, and
                   \* whether accept4 may fail
    \* the kernel
    backlog,       \* connections not accepted yet
    kin,           \* bytes in each socket's receive buffer
    wire,          \* the bytes each peer has been sent of those of its client
    astray,        \* the bytes of each client that another's peer has been sent
    socket,        \* the number of each client's descriptor; a number is named
                   \* after the first client that had it
    peerClosed,    \* connections the peer has closed
    inEpoll,       \* sockets that epfd watches
    ready,         \* edges that epoll_wait has not reported, by client
    listenReady,   \* the same for the listening socket
    \* shared by the two threads
    addingClients, numClients, isRunning,
    isClosing, hasNewData,   \* the clients that have the flag
    readerBuffer, writerBuffer,
    writerMtx,     \* who holds each client's writerMtx
    \* the event thread
    eventPc, events, listenEvent,   \* events: what epoll_wait returned
    client,        \* the client the thread works on
    length,        \* result of the event thread's last send
    again,         \* it is not the first recv of this readIntoBuffer
    \* the main thread
    mainPc, allClients, nextID,
    iter,          \* the client update() works on
    todo,          \* the clients that update() has not come to yet
    sentLength,    \* result of the main thread's last send
    \* histories
    seen, destroyed, sent

sockets == <<wire, astray, socket>>
kernel  == <<backlog, kin, sockets, peerClosed, inEpoll, ready, listenReady>>
flags   == <<isClosing, hasNewData>>
buffers == <<readerBuffer, writerBuffer, writerMtx>>
shared  == <<addingClients, numClients, isRunning, flags, buffers>>
evVars  == <<eventPc, events, listenEvent, client, length, again>>
mainVars == <<mainPc, allClients, nextID, iter, todo, sentLength>>
histories == <<load, seen, destroyed, sent>>
vars == <<kernel, shared, evVars, mainVars, histories>>

Ids     == 0..IdSpace - 1
Events  == {"in", "out", "rdhup"}
Adopted == {allClients[i] : i \in Ids} \ {NoClient}

KernelOK ==
    /\ backlog \subseteq Clients /\ peerClosed \subseteq Clients /\ inEpoll \subseteq Clients
    /\ ready \in [Clients -> SUBSET Events] /\ listenReady \in BOOLEAN
    /\ socket \in [Clients -> Clients]
InputOK ==
    /\ kin \in [Clients -> Nat] /\ readerBuffer \in [Clients -> Nat]
    /\ \A c \in Clients : kin[c] + readerBuffer[c] <= load.in[c]
OutputOK ==
    /\ wire \in [Clients -> Seq(Nat)] /\ astray \in [Clients -> Seq(Nat)]
    /\ writerBuffer \in [Clients -> ByteArrays(Nat)]
    /\ writerMtx \in [Clients -> {"free", "main", "event"}]
    /\ sent \in [Clients -> Nat] /\ \A c \in Clients : sent[c] <= load.out[c]
SharedOK ==
    /\ addingClients \subseteq Clients /\ numClients \in 0..IdSpace /\ isRunning \in BOOLEAN
    /\ isClosing \subseteq Clients /\ hasNewData \subseteq Clients
EventThreadOK ==
    /\ eventPc \in {"wait", "events", "accept", "add", "ctl", "read",
                    "setnew", "send", "cut", "exited"}
    /\ events \in [Clients -> SUBSET Events] /\ listenEvent \in BOOLEAN
    /\ client \in Clients \cup {NoClient} /\ length \in Nat /\ again \in BOOLEAN
MainThreadOK ==
    /\ mainPc \in {"idle", "adopt", "next", "recv", "flush", "cut", "close", "join",
                   "cleaned"}
    /\ allClients \in [Ids -> Clients \cup {NoClient}] /\ nextID \in Ids
    /\ iter \in Clients \cup {NoClient} /\ todo \subseteq Clients /\ sentLength \in Nat
TypeOK ==
    /\ KernelOK /\ InputOK /\ OutputOK /\ SharedOK /\ EventThreadOK /\ MainThreadOK
    /\ load \in Loads /\ seen \subseteq Clients /\ destroyed \subseteq Clients

\* A server whose startListen has just returned, true or false, when no event
\* thread was started; or, with clients in load.old, one that has run for so
\* long that nextID has come round to 0 again.
Init ==
    /\ load \in Loads
    /\ allClients = load.old /\ nextID = 0
    /\ seen = Adopted /\ inEpoll = Adopted /\ numClients = Cardinality(Adopted)
    /\ backlog = {} /\ peerClosed = {}
    /\ kin = [c \in Clients |-> 0] /\ wire = [c \in Clients |-> <<>>]
    /\ astray = [c \in Clients |-> <<>>] /\ socket = [c \in Clients |-> c]
    /\ ready = [c \in Clients |-> {}] /\ listenReady = FALSE
    /\ addingClients = {} /\ isRunning \in {TRUE, Adopted # {}}
    /\ isClosing = {} /\ hasNewData = {}
    /\ readerBuffer = [c \in Clients |-> 0]
    /\ writerBuffer = [c \in Clients |-> NewByteArray]
    /\ writerMtx = [c \in Clients |-> "free"]
    /\ eventPc = IF isRunning THEN "wait" ELSE "exited"
    /\ events = [c \in Clients |-> {}] /\ listenEvent = FALSE
    /\ client = NoClient /\ length = 0 /\ again = FALSE
    /\ mainPc = "idle" /\ iter = NoClient /\ todo = {} /\ sentLength = 0
    /\ destroyed = {} /\ sent = [c \in Clients |-> 0]

-----------------------------------------------------------------------------
(* The peers and the kernel                                                *)

Connect(c) ==
    /\ c \in load.connecting \ seen /\ mainPc # "cleaned"
    /\ seen' = seen \cup {c} /\ backlog' = backlog \cup {c} /\ listenReady' = TRUE
    /\ UNCHANGED <<kin, sockets, peerClosed, inEpoll, ready, shared, evVars, mainVars,
                   load, destroyed, sent>>

\* An edge is remembered for a socket that epfd watches.
Edge(c, e) == IF c \in inEpoll THEN [ready EXCEPT ![c] = @ \cup e] ELSE ready

\* arrived: all the bytes of a peer, delivered or not.
Arrive(c, n) ==
    /\ c \in seen \ (peerClosed \cup destroyed)
    /\ kin[c] + readerBuffer[c] + n <= load.in[c]
    /\ kin' = [kin EXCEPT ![c] = @ + n]
    /\ ready' = Edge(c, {"in"})
    /\ UNCHANGED <<backlog, sockets, peerClosed, inEpoll, listenReady, shared, evVars,
                   mainVars, histories>>

PeerCloses(c) ==
    /\ c \in load.closing /\ c \in seen \ (peerClosed \cup destroyed)
    /\ peerClosed' = peerClosed \cup {c}
    /\ ready' = Edge(c, {"in", "rdhup"})
    /\ UNCHANGED <<backlog, kin, sockets, inEpoll, listenReady, shared, evVars, mainVars,
                   histories>>

\* The peer has taken data out of a send buffer that was full.
Writable(c) ==
    /\ c \in inEpoll /\ size(writerBuffer[c]) > 0
    /\ ready' = Edge(c, {"out"})
    /\ UNCHANGED <<backlog, kin, sockets, peerClosed, inEpoll, listenReady, shared, evVars,
                   mainVars, histories>>

-----------------------------------------------------------------------------
(* processEventThread                                                      *)

\* Mutated form: cleanup does not write to the pipe.
WaitNoPipe ==
    /\ eventPc = "wait"
    /\ listenReady \/ \E c \in Clients : ready[c] # {}
    /\ events' = ready /\ ready' = [c \in Clients |-> {}]
    /\ listenEvent' = listenReady /\ listenReady' = FALSE
    /\ eventPc' = "events"
    /\ UNCHANGED <<backlog, kin, sockets, peerClosed, inEpoll, shared, client, length, again,
                   mainVars, histories>>

\* epoll_wait reports every edge; cleanup's write to the pipe wakes it as well.
Wait ==
    /\ eventPc = "wait"
    /\ listenReady \/ ~isRunning \/ \E c \in Clients : ready[c] # {}
    /\ events' = ready /\ ready' = [c \in Clients |-> {}]
    /\ listenEvent' = listenReady /\ listenReady' = FALSE
    /\ eventPc' = "events"
    /\ UNCHANGED <<backlog, kin, sockets, peerClosed, inEpoll, shared, client, length, again,
                   mainVars, histories>>

ListenEvent ==
    /\ eventPc = "events" /\ client = NoClient /\ listenEvent
    /\ listenEvent' = FALSE /\ eventPc' = "accept"
    /\ UNCHANGED <<kernel, shared, events, client, length, again, mainVars, histories>>

\* The clients whose descriptor is open, and of those the one, if any, that has
\* the number of c's: c itself while c's is open.
Open      == seen \ (backlog \cup destroyed)
OnSocket(c) == {d \in Open : socket[d] = socket[c]}

\* The numbers a new descriptor may get: one never used, or one that was closed.
FreeNumbers(c) == {s \in {c} \cup {socket[d] : d \in destroyed} :
                      \A d \in Open : socket[d] # s}

\* accept4, until there is nothing to accept.  numClients is what the last
\* update() counted.
Accept ==
    /\ eventPc = "accept" /\ backlog # {}
    /\ \E c \in backlog :
        /\ backlog' = backlog \ {c}
        /\ IF numClients < load.maxConnection
           THEN /\ \E s \in FreeNumbers(c) : socket' = [socket EXCEPT ![c] = s]
                /\ client' = c /\ eventPc' = "add" /\ UNCHANGED destroyed
           ELSE destroyed' = destroyed \cup {c} /\ UNCHANGED <<socket, client, eventPc>>
    /\ UNCHANGED <<kin, wire, astray, peerClosed, inEpoll, ready, listenReady, shared, events,
                   listenEvent, length, again, mainVars, load, seen, sent>>

\* accept4 fails, and the connection stays in the backlog: the loop ends all
\* the same, and epoll reports nothing before another connection comes.
AcceptFails ==
    /\ eventPc = "accept" /\ backlog # {} /\ load.acceptFails
    /\ eventPc' = "events"
    /\ UNCHANGED <<kernel, shared, events, listenEvent, client, length, again, mainVars,
                   histories>>

AcceptDone ==
    /\ eventPc = "accept" /\ backlog = {}
    /\ eventPc' = "events"
    /\ UNCHANGED <<kernel, shared, events, listenEvent, client, length, again, mainVars,
                   histories>>

\* addClient: waits for addMtx, which update() holds while it adopts.
AddClient ==
    /\ eventPc = "add" /\ mainPc # "adopt"
    /\ addingClients' = addingClients \cup {client}
    /\ eventPc' = "ctl"
    /\ UNCHANGED <<kernel, numClients, isRunning, flags, buffers, events, listenEvent,
                   client, length, again, mainVars, histories>>

\* epoll_ctl ADD: an edge for what is ready already; fails on a socket that
\* the main thread has closed meanwhile.
EpollAdd ==
    /\ eventPc = "ctl"
    /\ IF client \in destroyed
       THEN UNCHANGED <<inEpoll, ready>>
       ELSE /\ inEpoll' = inEpoll \cup {client}
            /\ ready' = [ready EXCEPT ![client] =
                  {"out"} \cup (IF kin[client] > 0 \/ client \in peerClosed
                                THEN {"in"} ELSE {})
                          \cup (IF client \in peerClosed THEN {"rdhup"} ELSE {})]
    /\ client' = NoClient /\ eventPc' = "accept"
    /\ UNCHANGED <<backlog, kin, sockets, peerClosed, listenReady, shared, events,
                   listenEvent, length, again, mainVars, histories>>

\* The next event of the array, whose flags are served in this order.
Event(c, e) ==
    /\ eventPc = "events" /\ client \in {c, NoClient} /\ e \in events[c]
    /\ events' = [events EXCEPT ![c] = @ \ {e}]
    /\ client' = IF events[c] = {e} /\ e = "rdhup" THEN NoClient ELSE c

\* readIntoBuffer returns at once for a client that is closing.
ReadEvent(c) ==
    /\ Event(c, "in")
    /\ eventPc' = IF c \in isClosing THEN "events" ELSE "read"
    /\ UNCHANGED <<kernel, shared, listenEvent, length, again, mainVars, histories>>

WriteEvent(c) ==
    /\ Event(c, "out") /\ "in" \notin events[c]
    /\ eventPc' = "send"
    /\ UNCHANGED <<kernel, shared, listenEvent, length, again, mainVars, histories>>

HupEvent(c) ==
    /\ Event(c, "rdhup") /\ events[c] = {"rdhup"}
    /\ isClosing' = isClosing \cup {c}
    /\ UNCHANGED <<kernel, addingClients, numClients, isRunning, hasNewData, buffers,
                   eventPc, listenEvent, length, again, mainVars, histories>>

\* All the flags of this client are served.
EventDone ==
    /\ eventPc = "events" /\ client # NoClient /\ events[client] = {}
    /\ client' = NoClient
    /\ UNCHANGED <<kernel, shared, eventPc, events, listenEvent, length, again, mainVars,
                   histories>>

\* while (isRunning)
BatchDone ==
    /\ eventPc = "events" /\ client = NoClient /\ ~listenEvent
    /\ \A c \in Clients : events[c] = {}
    /\ eventPc' = IF isRunning THEN "wait" ELSE "exited"
    /\ UNCHANGED <<kernel, shared, events, listenEvent, client, length, again, mainVars,
                   histories>>

\* Mutated form: the loop ends after the first chunk.
MoreNever(n) == FALSE

\* A full buffer was read: there may be more.
More(n) == n = Chunk

\* recv of a non-empty receive buffer, and writeClientBuffer under readerMtx.
Recv ==
    /\ eventPc = "read" /\ client \notin destroyed /\ kin[client] > 0
    /\ LET n == IF kin[client] < Chunk THEN kin[client] ELSE Chunk
       IN /\ kin' = [kin EXCEPT ![client] = @ - n]
          /\ readerBuffer' = [readerBuffer EXCEPT ![client] = @ + n]
          /\ eventPc' = IF More(n) THEN "read" ELSE "setnew"
    /\ again' = TRUE
    /\ UNCHANGED <<backlog, sockets, peerClosed, inEpoll, ready, listenReady, addingClients,
                   numClients, isRunning, flags, writerBuffer, writerMtx, events,
                   listenEvent, client, length, mainVars, histories>>

\* recv returns 0 or an error: the first one ends readIntoBuffer, a later one
\* only the loop.  A client destroyed since readIntoBuffer looked at isClosing
\* has a closed socket: this thread, which accepts, has given its number to none.
RecvClosed ==
    /\ eventPc = "read"
    /\ client \in destroyed \/ (client \in peerClosed /\ kin[client] = 0)
    /\ isClosing' = isClosing \cup {client}
    /\ eventPc' = IF again THEN "setnew" ELSE "events"
    /\ UNCHANGED <<kernel, addingClients, numClients, isRunning, hasNewData, buffers,
                   events, listenEvent, client, length, again, mainVars, histories>>

\* Mutated form: readIntoBuffer returns here, as after a failed first recv.
RecvNothingReturns ==
    /\ eventPc = "read" /\ client \notin destroyed \cup peerClosed /\ kin[client] = 0
    /\ eventPc' = "events" /\ again' = FALSE
    /\ UNCHANGED <<kernel, shared, events, listenEvent, client, length, mainVars,
                   histories>>

\* recv would block.
RecvNothing ==
    /\ eventPc = "read" /\ client \notin destroyed \cup peerClosed /\ kin[client] = 0
    /\ eventPc' = "setnew"
    /\ UNCHANGED <<kernel, shared, events, listenEvent, client, length, again, mainVars,
                   histories>>

SetNewData ==
    /\ eventPc = "setnew"
    /\ hasNewData' = hasNewData \cup {client}
    /\ eventPc' = "events" /\ again' = FALSE
    /\ UNCHANGED <<kernel, addingClients, numClients, isRunning, isClosing, buffers,
                   events, listenEvent, client, length, mainVars, histories>>

-----------------------------------------------------------------------------
(* writeFromBuffer, by either thread                                       *)

\* Mutated form: the mutex is not waited for.
LockedIgnore(c) == FALSE
Locked(c) == writerMtx[c] # "free"

\* The socket takes n of the bytes; err is an error other than a full buffer,
\* which is what a closed socket gives.  isClosing is not looked at: of a client
\* that the main thread has destroyed, the bytes left go to the connection that
\* has got the number of its descriptor, if one has.
SendBytes(c, n, err, who) ==
    /\ ~Locked(c)
    /\ LET available == readAvailable(writerBuffer[c])
       IN /\ n <= available /\ (err => n < available)
          /\ c \in destroyed /\ OnSocket(c) = {} => n = 0 /\ (err \/ available = 0)
    /\ LET bytes == SubSeq(Unread(writerBuffer[c]), 1, n)
       IN IF c \in destroyed
          THEN astray' = [astray EXCEPT ![c] = @ \o bytes] /\ wire' = wire
          ELSE wire' = [wire EXCEPT ![c] = @ \o bytes] /\ astray' = astray
    /\ writerMtx' = [writerMtx EXCEPT ![c] = who]
    /\ isClosing' = IF err THEN isClosing \cup {c} ELSE isClosing
    /\ UNCHANGED <<backlog, kin, socket, peerClosed, inEpoll, ready, listenReady,
                   addingClients, numClients, isRunning, hasNewData, readerBuffer,
                   writerBuffer, histories>>

\* seek past the n bytes that were sent, and cutHead to the read position.
CutSent(b, n) == LET read == seek(b, n) IN cutHead(read, read.readPos)

\* The end of writeFromBuffer, where the mutex is released.
CutHead(c, n) ==
    /\ writerBuffer' = [writerBuffer EXCEPT ![c] = CutSent(@, n)]
    /\ writerMtx' = [writerMtx EXCEPT ![c] = "free"]
    /\ UNCHANGED <<kernel, addingClients, numClients, isRunning, flags, readerBuffer,
                   histories>>

EventSend ==
    /\ eventPc = "send"
    /\ \E n \in 0..load.out[client], err \in BOOLEAN :
            SendBytes(client, n, err, "event") /\ length' = n
    /\ eventPc' = "cut"
    /\ UNCHANGED <<events, listenEvent, client, again, mainVars>>

EventCut ==
    /\ eventPc = "cut" /\ CutHead(client, length)
    /\ eventPc' = "events" /\ length' = 0
    /\ UNCHANGED <<events, listenEvent, client, again, mainVars>>

-----------------------------------------------------------------------------
(* The main thread: update                                                 *)

UpdateBegin ==
    /\ mainPc = "idle" /\ mainPc' = "adopt"
    /\ UNCHANGED <<kernel, shared, evVars, allClients, nextID, iter, todo, sentLength,
                   histories>>

\* Mutated form: the next number, whether or not it is in use.
NextClientIDBlind == (nextID + 1) % IdSpace

\* getNextClientID: the next id after the last that no client in allClients has.
NextClientID ==
    LET after(k) == (nextID + k) % IdSpace
        free     == {k \in 1..IdSpace : allClients[after(k)] = NoClient}
    IN after(CHOOSE k \in free : \A j \in free : k <= j)

\* One client of addingClients; insert does nothing when the id is taken.
\* With every id in use getNextClientID does not end.
Adopt(c) ==
    /\ mainPc = "adopt" /\ c \in addingClients /\ NoClient \in Range(allClients)
    /\ addingClients' = addingClients \ {c}
    /\ nextID' = NextClientID
    /\ allClients' = IF allClients[NextClientID] = NoClient
                     THEN [allClients EXCEPT ![NextClientID] = c] ELSE allClients
    /\ UNCHANGED <<kernel, numClients, isRunning, flags, buffers, evVars, mainPc, iter,
                   todo, sentLength, histories>>

AdoptDone ==
    /\ mainPc = "adopt" /\ addingClients = {}
    /\ mainPc' = "next" /\ todo' = Adopted
    /\ UNCHANGED <<kernel, shared, evVars, allClients, nextID, iter, sentLength, histories>>

\* The first branch of update()'s loop body: the flag is cleared, then onRecv
\* is called.
NewData(c) ==
    /\ mainPc = "next" /\ c \in todo /\ c \in hasNewData
    /\ hasNewData' = hasNewData \ {c}
    /\ iter' = c /\ todo' = todo \ {c} /\ mainPc' = "recv"
    /\ UNCHANGED <<kernel, addingClients, numClients, isRunning, isClosing, buffers,
                   evVars, allClients, nextID, sentLength, histories>>

\* Mutated form: a client without new data that is not idle is passed over.
NoNewDataSkipped(c) ==
    /\ mainPc = "next" /\ c \in todo /\ c \notin hasNewData
    /\ \E idle \in {{}, {c}} :
        /\ isClosing' = isClosing \cup idle
        /\ IF idle = {} THEN mainPc' = "next" /\ iter' = NoClient
                       ELSE mainPc' = "flush" /\ iter' = c
    /\ todo' = todo \ {c}
    /\ UNCHANGED <<kernel, addingClients, numClients, isRunning, hasNewData, buffers,
                   evVars, allClients, nextID, sentLength, histories>>

\* A client without new data may have been idle for kickTime.
NoNewData(c) ==
    /\ mainPc = "next" /\ c \in todo /\ c \notin hasNewData
    /\ \E idle \in {{}, {c}} : isClosing' = isClosing \cup idle
    /\ iter' = c /\ todo' = todo \ {c} /\ mainPc' = "flush"
    /\ UNCHANGED <<kernel, addingClients, numClients, isRunning, hasNewData, buffers,
                   evVars, allClients, nextID, sentLength, histories>>

\* onRecv, the application's, takes all there is, under readerMtx.
OnRecv ==
    /\ mainPc = "recv"
    /\ readerBuffer' = [readerBuffer EXCEPT ![iter] = 0]
    /\ mainPc' = "flush"
    /\ UNCHANGED <<kernel, addingClients, numClients, isRunning, flags, writerBuffer,
                   writerMtx, evVars, allClients, nextID, iter, todo, sentLength,
                   histories>>

Flush ==
    /\ mainPc = "flush"
    /\ \E n \in 0..load.out[iter], err \in BOOLEAN :
            SendBytes(iter, n, err, "main") /\ sentLength' = n
    /\ mainPc' = "cut"
    /\ UNCHANGED <<evVars, allClients, nextID, iter, todo>>

FlushCut ==
    /\ mainPc = "cut" /\ CutHead(iter, sentLength)
    /\ mainPc' = "close" /\ sentLength' = 0
    /\ UNCHANGED <<evVars, allClients, nextID, iter, todo>>

\* close() of the sockets in C: epoll forgets them, the peers get no more.
CloseSockets(C) ==
    /\ inEpoll' = inEpoll \ C
    /\ ready' = [c \in Clients |-> IF c \in C THEN {} ELSE ready[c]]
    /\ kin' = [c \in Clients |-> IF c \in C THEN 0 ELSE kin[c]]
    /\ destroyed' = destroyed \cup C
    /\ allClients' = [i \in Ids |-> IF allClients[i] \in C THEN NoClient
                                                       ELSE allClients[i]]

\* destroyClient and erase.
DestroyClient ==
    /\ mainPc = "close" /\ iter \in isClosing
    /\ CloseSockets({iter})
    /\ mainPc' = "next" /\ iter' = NoClient
    /\ UNCHANGED <<backlog, sockets, peerClosed, listenReady, shared, evVars, nextID, todo,
                   sentLength, load, seen, sent>>

KeepClient ==
    /\ mainPc = "close" /\ iter \notin isClosing
    /\ mainPc' = "next" /\ iter' = NoClient
    /\ UNCHANGED <<kernel, shared, evVars, allClients, nextID, todo, sentLength,
                   histories>>

UpdateEnd ==
    /\ mainPc = "next" /\ todo = {}
    /\ numClients' = Cardinality({i \in Ids : allClients[i] # NoClient})
    /\ mainPc' = "idle"
    /\ UNCHANGED <<kernel, addingClients, isRunning, flags, buffers, evVars, allClients,
                   nextID, iter, todo, sentLength, histories>>

-----------------------------------------------------------------------------
(* The main thread: the application's calls, and cleanup                   *)

\* The application runs between two updates and in its callbacks, with the
\* clients in allClients and the one onClientConnected is called with.
InApplication == mainPc \in {"idle", "adopt", "recv"}
AtHand == Adopted \cup (IF mainPc = "adopt" THEN addingClients ELSE {})

Kick(c) ==
    /\ InApplication /\ c \in AtHand \ isClosing
    /\ isClosing' = isClosing \cup {c}
    /\ UNCHANGED <<kernel, addingClients, numClients, isRunning, hasNewData, buffers,
                   evVars, mainVars, histories>>

\* Client::send, under writerMtx.
Send(c) ==
    /\ InApplication /\ c \in AtHand /\ sent[c] < load.out[c] /\ ~Locked(c)
    /\ writerBuffer' = [writerBuffer EXCEPT ![c] = writeData(@, <<sent[c] + 1>>)]
    /\ sent' = [sent EXCEPT ![c] = @ + 1]
    /\ UNCHANGED <<kernel, addingClients, numClients, isRunning, flags, readerBuffer,
                   writerMtx, evVars, mainVars, load, seen, destroyed>>

\* cleanup: the event thread is told to stop and joined ...
Cleanup ==
    /\ mainPc = "idle"
    /\ isRunning' = FALSE /\ mainPc' = "join"
    /\ UNCHANGED <<kernel, addingClients, numClients, flags, buffers, evVars, allClients,
                   nextID, iter, todo, sentLength, histories>>

\* ... and the clients in allClients are destroyed.
CleanupJoined ==
    /\ mainPc = "join" /\ eventPc = "exited"
    /\ isClosing' = isClosing \cup Adopted
    /\ CloseSockets(Adopted)
    /\ numClients' = 0 /\ mainPc' = "cleaned"
    /\ UNCHANGED <<backlog, sockets, peerClosed, listenReady, addingClients, isRunning,
                   hasNewData, buffers, evVars, nextID, iter, todo, sentLength, load,
                   seen, sent>>

-----------------------------------------------------------------------------
EventThread ==
    \/ Wait \/ ListenEvent \/ Accept \/ AcceptFails \/ AcceptDone \/ AddClient \/ EpollAdd
    \/ \E c \in Clients : ReadEvent(c) \/ WriteEvent(c) \/ HupEvent(c)
    \/ EventDone \/ BatchDone \/ Recv \/ RecvClosed \/ RecvNothing \/ SetNewData
    \/ EventSend \/ EventCut

\* What the main thread does once it has called update() or cleanup().
MainThread ==
    \/ \E c \in Clients : Adopt(c) \/ NewData(c) \/ NoNewData(c)
    \/ AdoptDone \/ OnRecv \/ Flush \/ FlushCut \/ DestroyClient \/ KeepClient
    \/ UpdateEnd \/ CleanupJoined

Environment == \E c \in Clients : \/ Connect(c) \/ PeerCloses(c) \/ Writable(c)
                                  \/ \E n \in 1..load.in[c] : Arrive(c, n)

Terminated == mainPc = "cleaned" /\ UNCHANGED vars

Next == \/ EventThread \/ MainThread \/ UpdateBegin \/ Cleanup \/ Environment \/ Terminated
        \/ \E c \in Clients : Kick(c) \/ Send(c)

\* Both threads are scheduled, the main loop goes on calling update(), and a
\* thread that waits for a writerMtx gets it in the end.
Spec     == Init /\ [][Next]_vars
FairSpec == /\ Spec
            /\ WF_vars(EventThread) /\ WF_vars(MainThread) /\ WF_vars(UpdateBegin)
            /\ SF_vars(Flush)

-----------------------------------------------------------------------------
(* Properties                                                              *)

\* A connection is in one place at most: not accepted yet, in the hands of
\* the event thread, in addingClients, in allClients under one id, or closed,
\* and then no longer watched by epfd.
Placed ==
    /\ \A i, j \in Ids : i # j /\ allClients[i] # NoClient
                              => allClients[i] # allClients[j]
    /\ LET taken == IF eventPc = "add" THEN {client} ELSE {}
       IN /\ seen = backlog \cup taken \cup addingClients \cup Adopted \cup destroyed
          /\ Cardinality(seen) = Cardinality(backlog) + Cardinality(taken)
                + Cardinality(addingClients) + Cardinality(Adopted)
                + Cardinality(destroyed)
    /\ destroyed \cap inEpoll = {}

\* Data in a readerBuffer is announced: the flag is set, or the event thread
\* is about to set it, or update() has cleared it and is about to call onRecv.
DataAnnounced ==
    \A c \in Clients \ destroyed :
        readerBuffer[c] > 0 => \/ c \in hasNewData
                               \/ client = c /\ eventPc \in {"read", "setnew"}
                               \/ iter = c /\ mainPc = "recv"

\* An edge-triggered epoll reports data once: no byte waits in the kernel
\* without an edge to come, an event to serve or a read in progress.
NoLostEdge ==
    \A c \in inEpoll \ isClosing :
        kin[c] > 0 => \/ "in" \in ready[c] \/ "in" \in events[c]
                      \/ client = c /\ eventPc = "read"

\* Nor does a connection wait to be accepted, unless accept4 has failed.
NoLostConnection ==
    backlog = {} \/ \/ listenReady \/ listenEvent \/ eventPc \in {"accept", "add", "ctl"}
                    \/ eventPc = "exited" \/ load.acceptFails

\* Nothing that comes in is stranded, no byte on its way from the kernel to
\* onRecv and no connection.
InputNotStranded == DataAnnounced /\ NoLostEdge /\ NoLostConnection

\* The bytes that the application has sent to a client leave its buffer each once
\* and in their order, whichever of the two threads writes; and when neither of
\* them does, those that have not left are in the buffer.  A peer is sent the
\* first of them, without a gap; the others may reach another's peer, but only
\* those left when the client was destroyed.
OutputConserved ==
    \A c \in Clients :
        LET out == wire[c] \o astray[c]
        IN  /\ Len(out) <= sent[c] /\ out = [i \in 1..Len(out) |-> i]
            /\ astray[c] # <<>> => c \in destroyed
            /\ writerMtx[c] = "free"
                => out \o Unread(writerBuffer[c]) = [i \in 1..sent[c] |-> i]

\* Data that was received is delivered by onRecv, or its client is destroyed
\* or the server cleaned up.
Delivered ==
    \A c \in Clients :
        readerBuffer[c] > 0 ~> \/ readerBuffer[c] = 0 \/ c \in destroyed
                               \/ mainPc = "cleaned"

\* A client that is closing, for whichever of the two threads' reasons, is
\* destroyed by a later update() or the server cleaned up.
ClosingEnds ==
    \A c \in Clients :
        c \in isClosing ~> c \in destroyed \/ mainPc = "cleaned"

\* cleanup() returns: the event thread does not wait for the main thread.
CleanupReturns == mainPc = "join" ~> mainPc = "cleaned"

\* cleanup() disconnects all clients: every connection it accepted is closed.
CleanupDisconnectsAll ==
    mainPc = "cleaned" => addingClients \subseteq destroyed
=============================================================================
