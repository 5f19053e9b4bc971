----------------------------- MODULE ClientSocket -----------------------------
(***************************************************************************)
(* ClientSocket (wsNetwork): a worker thread connects, receives and sends; *)
(* the thread that owns the object, called the main thread, asks for       *)
(* connections and turns changes of status into callbacks in update().     *)
(* status has no lock: update() reads it up to four times, and each read   *)
(* is a step of its own.                                                   *)
(*                                                                         *)
(* The bytes of each direction are numbered in the order in which they are *)
(* sent.  The pauses between two connection attempts and between two       *)
(* rounds of the worker are not modelled, nor is a connect() that finds    *)
(* the socket connecting or connected and does nothing.                    *)
(***************************************************************************)
EXTENDS Integers, Sequences, Functions, ByteArray

SocketStatus == {"DISCONNECTED", "CONNECTING", "CONNECTED"}

CONSTANTS
    Chunk,         \* BUFFER_SIZE
    SendsWhen,     \* the values of status at which the application calls send
    MaxConnects,   \* bound: calls of connect
    MaxIn,         \* bound: bytes the server sends
    MaxOut         \* bound: bytes passed to send

ASSUME ClientSocketAssumption ==
    /\ Chunk \in Nat \ {0} /\ SendsWhen \subseteq SocketStatus
    /\ MaxConnects \in Nat /\ MaxIn \in Nat /\ MaxOut \in Nat

VARIABLES
    status, lastStatus,
    socket,        \* what the kernel holds under sockfd
    kin,           \* bytes in its receive buffer
    readerBuffer, writerBuffer,
    workerPc,
    taken,         \* bytes recv has put into tryToRecv's local buffer
    remain,        \* tryToSend's local variable
    mainPc,
    received,      \* history: bytes onReceived has consumed
    dropped,       \* history: bytes that arrived and that reset() dropped
    wire,          \* history: bytes the kernel took, in all
    lost,          \* history: bytes dropped by reset() or by a failed send
    crossed,       \* history: since the last reset(), tryToSend has failed on
                   \* the socket that it opened and that is not connected yet
    asked,         \* history: connect() has not been answered by a callback
    connects, arrived, sent

sockVars   == <<socket, kin>>
inVars     == <<readerBuffer, taken, received, dropped>>
outVars    == <<writerBuffer, remain, wire, lost, crossed, sent>>
boundVars  == <<connects, arrived>>
vars == <<status, lastStatus, sockVars, inVars, outVars, workerPc, mainPc, asked,
          boundVars>>

StatusOK ==
    /\ status \in SocketStatus /\ lastStatus \in SocketStatus
    /\ socket \in {"none", "new", "established", "dead"}
    /\ workerPc \in {"none", "loop", "connect", "recv", "store", "lock", "send",
                     "failed", "exited"}
    /\ mainPc \in {"idle", "differs", "switch", "reset", "resetReader",
                   "resetWriter", "onClosed", "onConnected", "deliver",
                   "onReceived", "join", "destroyed"}
    /\ socket = "none" <=> workerPc = "none"
    /\ asked \in BOOLEAN /\ connects \in 0..MaxConnects
InputOK ==
    /\ kin \in Seq(1..MaxIn) /\ taken \in Seq(1..MaxIn) /\ received \in Seq(1..MaxIn)
    /\ readerBuffer \in ByteArrays(1..MaxIn) /\ readerBuffer.readPos <= size(readerBuffer)
    /\ Len(taken) <= Chunk
    /\ arrived \in 0..MaxIn /\ dropped \subseteq 1..arrived
OutputOK ==
    /\ writerBuffer \in ByteArrays(1..MaxOut) /\ writerBuffer.readPos <= size(writerBuffer)
    /\ remain \in 0..size(writerBuffer) /\ wire \in Seq(1..MaxOut)
    /\ sent \in 0..MaxOut /\ lost \subseteq 1..sent
TypeOK == StatusOK /\ InputOK /\ OutputOK /\ crossed \in BOOLEAN

Init ==
    /\ status = "DISCONNECTED" /\ lastStatus = "DISCONNECTED"
    /\ socket = "none" /\ kin = <<>>
    /\ readerBuffer = NewByteArray /\ writerBuffer = NewByteArray
    /\ workerPc = "none" /\ taken = <<>> /\ remain = 0 /\ mainPc = "idle"
    /\ received = <<>> /\ dropped = {} /\ wire = <<>> /\ lost = {}
    /\ crossed = FALSE /\ asked = FALSE
    /\ connects = 0 /\ arrived = 0 /\ sent = 0

-----------------------------------------------------------------------------
(* The server at the other end                                             *)

Arrive ==
    /\ socket = "established" /\ arrived < MaxIn
    /\ arrived' = arrived + 1 /\ kin' = Append(kin, arrived')
    /\ UNCHANGED <<status, lastStatus, socket, inVars, outVars, workerPc, mainPc,
                   asked, connects>>

PeerCloses ==
    /\ socket = "established" /\ socket' = "dead"
    /\ UNCHANGED <<status, lastStatus, kin, inVars, outVars, workerPc, mainPc, asked,
                   boundVars>>

-----------------------------------------------------------------------------
(* workerProc                                                              *)

Loop ==
    /\ workerPc = "loop"
    /\ workerPc' = CASE mainPc = "join"         -> "exited"
                     [] status = "CONNECTING"   -> "connect"
                     [] status = "CONNECTED"    -> "recv"
                     [] status = "DISCONNECTED" -> "loop"
    /\ UNCHANGED <<status, lastStatus, sockVars, inVars, outVars, mainPc, asked,
                   boundVars>>

\* ::connect fails on a socket that is or was connected (EISCONN).
WorkerConnect ==
    /\ workerPc = "connect" /\ workerPc' = "loop"
    /\ \/ /\ socket = "new"
          /\ socket' = "established" /\ status' = "CONNECTED"
       \/ status' = "DISCONNECTED" /\ UNCHANGED socket
    /\ UNCHANGED <<lastStatus, kin, inVars, outVars, mainPc, asked, boundVars>>

Recv ==
    /\ workerPc = "recv" /\ kin # <<>>
    /\ LET n == IF Len(kin) < Chunk THEN Len(kin) ELSE Chunk
       IN taken' = SubSeq(kin, 1, n) /\ kin' = SubSeq(kin, n + 1, Len(kin))
    /\ workerPc' = "store"
    /\ UNCHANGED <<status, lastStatus, socket, readerBuffer, received, dropped, outVars,
                   mainPc, asked, boundVars>>

\* Under readerMtx, which update() holds while onReceived runs.
Store ==
    /\ workerPc = "store" /\ mainPc # "onReceived"
    /\ readerBuffer' = writeData(readerBuffer, taken) /\ taken' = <<>>
    /\ workerPc' = IF Len(taken) < Chunk THEN "lock" ELSE "recv"
    /\ UNCHANGED <<status, lastStatus, sockVars, received, dropped, outVars, mainPc,
                   asked, boundVars>>

RecvNothing ==
    /\ workerPc = "recv" /\ socket = "established" /\ kin = <<>>
    /\ workerPc' = "lock"
    /\ UNCHANGED <<status, lastStatus, sockVars, inVars, outVars, mainPc, asked,
                   boundVars>>

\* recv returns 0 or an error, the latter on a socket that reset() has just
\* opened.
RecvClosed ==
    /\ workerPc = "recv" /\ socket # "established" /\ kin = <<>>
    /\ workerPc' = "failed"
    /\ UNCHANGED <<status, lastStatus, sockVars, inVars, outVars, mainPc, asked,
                   boundVars>>

\* tryToSend takes writerMtx.
SendBegin ==
    /\ workerPc = "lock" /\ mainPc # "resetWriter"
    /\ remain' = size(writerBuffer)
    /\ workerPc' = "send"
    /\ UNCHANGED <<status, lastStatus, sockVars, inVars, writerBuffer, wire, lost, crossed,
                   sent, mainPc, asked, boundVars>>

\* The kernel takes a part of the chunk, also after the peer has closed; the
\* rest is sought back.
SendChunk ==
    /\ workerPc = "send" /\ remain > 0 /\ socket # "new"
    /\ LET chunk == ReadBytes(writerBuffer, Chunk)
           read  == readData(writerBuffer, Chunk)
       IN \E n \in 0..Len(chunk) :
            /\ chunk # <<>> => n > 0
            /\ writerBuffer' = IF n < Len(chunk) THEN seek(read, n - Len(chunk)) ELSE read
            /\ remain' = remain - n
            /\ wire' = wire \o SubSeq(chunk, 1, n)
    /\ UNCHANGED <<status, lastStatus, sockVars, inVars, lost, crossed, sent, workerPc,
                   mainPc, asked, boundVars>>

\* send returns -1 after the chunk has been read; tryToSend returns false.
SendFails ==
    /\ workerPc = "send" /\ remain > 0 /\ socket # "established"
    /\ writerBuffer' = readData(writerBuffer, Chunk)
    /\ lost' = lost \cup Range(ReadBytes(writerBuffer, Chunk))
    /\ crossed' = (\/ crossed
                   \/ socket = "new" /\ mainPc \notin {"resetReader", "resetWriter"})
    /\ workerPc' = "failed" /\ remain' = 0
    /\ UNCHANGED <<status, lastStatus, sockVars, inVars, wire, sent, mainPc, asked,
                   boundVars>>

SendDone ==
    /\ workerPc = "send" /\ remain = 0
    /\ writerBuffer' = truncate(writerBuffer)
    /\ workerPc' = "loop"
    /\ UNCHANGED <<status, lastStatus, sockVars, inVars, remain, wire, lost, crossed,
                   sent, mainPc, asked, boundVars>>

\* Mutated form: the worker goes on as if it were connected.
FailedIgnored ==
    /\ workerPc = "failed" /\ workerPc' = "loop"
    /\ UNCHANGED <<status, lastStatus, sockVars, inVars, outVars, mainPc, asked,
                   boundVars>>

\* tryToRecv or tryToSend returned false, whatever status is by now.
Failed ==
    /\ workerPc = "failed" /\ workerPc' = "loop"
    /\ status' = "DISCONNECTED"
    /\ UNCHANGED <<lastStatus, sockVars, inVars, outVars, mainPc, asked, boundVars>>

Worker == Loop \/ WorkerConnect \/ Recv \/ Store \/ RecvNothing \/ RecvClosed
          \/ SendBegin \/ SendChunk \/ SendFails \/ SendDone \/ Failed

-----------------------------------------------------------------------------
(* The application: connect, close, send and the destructor                *)

\* It runs between two updates and in the three callbacks.
InApplication == mainPc \in {"idle", "onClosed", "onConnected", "onReceived"}

\* Mutated form: lastStatus is not set.
ConnectStatusOnly ==
    /\ InApplication /\ status = "DISCONNECTED" /\ connects < MaxConnects
    /\ status' = "CONNECTING" /\ UNCHANGED lastStatus
    /\ socket' = IF socket = "none" THEN "new" ELSE socket
    /\ workerPc' = IF workerPc = "none" THEN "loop" ELSE workerPc
    /\ asked' = TRUE /\ connects' = connects + 1
    /\ UNCHANGED <<kin, inVars, outVars, mainPc, arrived>>

Connect ==
    /\ InApplication /\ status = "DISCONNECTED" /\ connects < MaxConnects
    /\ status' = "CONNECTING" /\ lastStatus' = "CONNECTING"
    /\ socket' = IF socket = "none" THEN "new" ELSE socket
    /\ workerPc' = IF workerPc = "none" THEN "loop" ELSE workerPc
    /\ asked' = TRUE /\ connects' = connects + 1
    /\ UNCHANGED <<kin, inVars, outVars, mainPc, arrived>>

\* Mutated form: a connection that is being made can be closed too.
CloseAnytime ==
    /\ InApplication /\ status # "DISCONNECTED"
    /\ status' = "DISCONNECTED"
    /\ UNCHANGED <<lastStatus, sockVars, inVars, outVars, workerPc, mainPc, asked,
                   boundVars>>

\* close() does nothing unless isConnected().
Close ==
    /\ InApplication /\ status = "CONNECTED"
    /\ status' = "DISCONNECTED"
    /\ UNCHANGED <<lastStatus, sockVars, inVars, outVars, workerPc, mainPc, asked,
                   boundVars>>

\* Under writerMtx, which the worker holds throughout tryToSend.
Send ==
    /\ InApplication /\ status \in SendsWhen
    /\ workerPc # "send" /\ sent < MaxOut
    /\ sent' = sent + 1 /\ writerBuffer' = writeData(writerBuffer, <<sent'>>)
    /\ UNCHANGED <<status, lastStatus, sockVars, inVars, remain, wire, lost, crossed,
                   workerPc, mainPc, asked, boundVars>>

Destroy ==
    /\ mainPc = "idle" /\ mainPc' = "join"
    /\ UNCHANGED <<status, lastStatus, sockVars, inVars, outVars, workerPc, asked,
                   boundVars>>

Joined ==
    /\ mainPc = "join" /\ workerPc \in {"none", "exited"}
    /\ mainPc' = "destroyed"
    /\ UNCHANGED <<status, lastStatus, sockVars, inVars, outVars, workerPc, asked,
                   boundVars>>

-----------------------------------------------------------------------------
(* update                                                                  *)

Goto(from, to) ==
    /\ mainPc = from /\ mainPc' = to
    /\ UNCHANGED <<status, sockVars, workerPc, boundVars>>

\* if (lastStatus != status)
Update ==
    /\ Goto("idle", IF lastStatus # status THEN "differs" ELSE "deliver")
    /\ UNCHANGED <<lastStatus, inVars, outVars, asked>>

\* lastStatus = status
Remember ==
    /\ Goto("differs", "switch")
    /\ lastStatus' = status
    /\ UNCHANGED <<inVars, outVars, asked>>

\* switch (status)
Switch ==
    /\ Goto("switch", CASE status = "DISCONNECTED" -> "reset"
                        [] status = "CONNECTED"    -> "onConnected"
                        [] status = "CONNECTING"   -> "deliver")
    /\ asked' = IF status = "CONNECTED" THEN FALSE ELSE asked
    /\ UNCHANGED <<lastStatus, inVars, outVars>>

\* reset(): another socket; then the buffers are truncated, each under its
\* mutex.
Reset ==
    /\ mainPc = "reset" /\ mainPc' = "resetReader"
    /\ socket' = "new" /\ kin' = <<>>
    /\ dropped' = dropped \cup Range(kin)
    /\ UNCHANGED <<status, lastStatus, readerBuffer, taken, received, outVars, workerPc,
                   asked, boundVars>>

ResetReader ==
    /\ Goto("resetReader", "resetWriter")
    /\ readerBuffer' = truncate(readerBuffer)
    /\ dropped' = dropped \cup Range(Unread(readerBuffer))
    /\ UNCHANGED <<lastStatus, taken, received, outVars, asked>>

\* Mutated form: only readerBuffer is truncated.
ResetWriterKept ==
    /\ Goto("resetWriter", "onClosed") /\ workerPc # "send"
    /\ asked' = FALSE
    /\ UNCHANGED <<lastStatus, inVars, outVars>>

\* The end of reset(), and onClosed is called.
ResetWriter ==
    /\ Goto("resetWriter", "onClosed") /\ workerPc # "send"
    /\ writerBuffer' = truncate(writerBuffer)
    /\ lost' = lost \cup Range(Unread(writerBuffer))
    /\ crossed' = FALSE /\ asked' = FALSE
    /\ UNCHANGED <<lastStatus, inVars, remain, wire, sent>>

CallbackReturns ==
    /\ \/ Goto("onClosed", "deliver") \/ Goto("onConnected", "deliver")
       \/ Goto("onReceived", "idle")
    /\ UNCHANGED <<lastStatus, inVars, outVars, asked>>

\* if (status == CONNECTED): onReceived reads some of the bytes, which are cut
\* off under the lock that it is called with.
Deliver ==
    /\ Goto("deliver", "onReceived")
    /\ status = "CONNECTED" /\ readAvailable(readerBuffer) > 0
    /\ \E n \in 0..readAvailable(readerBuffer) :
          LET read == readPosition(readerBuffer, readerBuffer.readPos + n)
          IN /\ readerBuffer' = cutHead(read, read.readPos)
             /\ received' = received \o SubSeq(Unread(readerBuffer), 1, n)
    /\ UNCHANGED <<lastStatus, taken, dropped, outVars, asked>>

NothingToDeliver ==
    /\ Goto("deliver", "idle")
    /\ status # "CONNECTED" \/ readAvailable(readerBuffer) = 0
    /\ readerBuffer' = IF status = "CONNECTED"
                       THEN cutHead(readerBuffer, readerBuffer.readPos)
                       ELSE readerBuffer
    /\ UNCHANGED <<lastStatus, taken, received, dropped, outVars, asked>>

UpdateStep == Remember \/ Switch \/ Reset \/ ResetReader \/ ResetWriter
              \/ CallbackReturns \/ Deliver \/ NothingToDeliver \/ Joined

-----------------------------------------------------------------------------
Terminated == mainPc = "destroyed" /\ UNCHANGED vars

Next == \/ Worker \/ UpdateStep \/ Update \/ Connect \/ Close \/ Send \/ Destroy
        \/ Arrive \/ PeerCloses \/ Terminated

\* The worker is scheduled, ::connect and ::send return, the owner goes on
\* calling update() and returns from the callbacks, and a worker that waits
\* for readerMtx gets it in the end.
Spec     == Init /\ [][Next]_vars
FairSpec == /\ Spec
            /\ WF_vars(Worker) /\ WF_vars(UpdateStep) /\ WF_vars(Update)
            /\ SF_vars(Store)

-----------------------------------------------------------------------------
(* Properties                                                              *)

\* While the worker is in ::connect, which it calls without a lock, status
\* stays CONNECTING and update() does not replace the socket under it.
ConnectUndisturbed ==
    workerPc = "connect" =>
        /\ status = "CONNECTING" /\ lastStatus = "CONNECTING"
        /\ mainPc \notin {"reset", "resetReader", "resetWriter"}

\* tryToSend counts down from size(), the bytes already read included: it
\* ends only because the read position is 0 whenever it begins, also after a
\* session that failed in the middle of a send.  There is one exception: bytes
\* that the application sends after reset() and before it is connected may be
\* read by a tryToSend of the last session, which fails and leaves the position
\* moved; an application that sends while it is connected never meets it.
NothingHalfSent ==
    /\ workerPc = "lock" /\ mainPc # "resetWriter" => writerBuffer.readPos = 0 \/ crossed
    /\ crossed => ~ (SendsWhen \subseteq {"CONNECTED"})

Increasing(s) == \A i, j \in 1..Len(s) : i < j => s[i] < s[j]

\* Of the bytes that arrived, onReceived consumes each once and in order,
\* unless a reset() drops it: the pieces that recv takes, the bytes a callback
\* leaves in readerBuffer and the cutting of the others fit together.
InputConserved ==
    LET path == received \o Unread(readerBuffer) \o taken \o kin
    IN Increasing(path) /\ Range(path) = 1..arrived \ dropped

\* What was passed to send is taken by the kernel once and in order, waits in
\* writerBuffer, or was dropped with a connection that failed.
OutputConserved ==
    LET path == wire \o IF workerPc = "send" /\ remain = 0 THEN <<>>
                        ELSE Unread(writerBuffer)
    IN Increasing(path) /\ Range(path) = 1..sent \ lost

\* Each byte goes each way once.
BytesConserved == InputConserved /\ OutputConserved

\* Every connect() is answered by onConnected or onClosed, one callback for
\* all that were made before it, unless the worker may be caught in tryToSend.
Answered == asked ~> ~asked \/ mainPc = "destroyed" \/ crossed

\* A connection that the server ends is noticed: update() calls onClosed, or
\* the application had closed it and asked for another; with the same exception.
ClosedNoticed ==
    status = "CONNECTED" /\ socket = "dead"
        ~> lastStatus # "CONNECTED" \/ mainPc = "destroyed" \/ crossed
=============================================================================
