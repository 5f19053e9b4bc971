------------------------------- MODULE HttpQueue -------------------------------
(***************************************************************************)
(* HttpQueue (wsNetwork): any thread adds requests, worker threads perform *)
(* them, each with an HttpClient (a curl handle) of its own that it uses   *)
(* for one request after the other, and the owner's update() finishes      *)
(* them.  The destructor abandons what is not finished.                    *)
(*                                                                         *)
(* A critical section under workMtx or finishMtx is one step.  A transfer  *)
(* is the number of pieces that curl hands to writeCallback; onRequest of  *)
(* a request r calls curlRequest once for each of Calls[r].                *)
(***************************************************************************)
EXTENDS Sequences, Integers, Functions

CONSTANTS
    Requests, NoRequest,
    Workers,      \* the threads that init may start
    Calls,        \* the calls of curlRequest that each request makes
    MaxPieces     \* bound: calls of writeCallback for one request

Methods == {"GET", "POST"}

ASSUME HttpQueueAssumption ==
    /\ NoRequest \notin Requests /\ MaxPieces \in Nat
    /\ Calls \in [Requests -> Seq([method : Methods, params : BOOLEAN])]

VARIABLES
    workQueue, finishQueue,
    isExit,
    worker,      \* where each thread stands in HttpWorkThread
    request,     \* its local variable request
    sink,        \* client.response: the request whose response it points to
    post,        \* CURLOPT_POST is set in the thread's curl handle
    fields,      \* the call whose queryStr CURLOPT_POSTFIELDS points to
    response,    \* whose pieces each request's response holds, in order
    mainPc,
    batch,       \* update()'s local variable tmpQueue
    added, finished,   \* histories
    pieces,      \* history: pieces of each request's transfer
    sent         \* history: what each call of each request was sent as

queues  == <<workQueue, finishQueue>>
clients == <<sink, post, fields>>
results == <<response, pieces, sent>>
mainVars == <<mainPc, batch, finished>>
vars == <<queues, isExit, worker, request, clients, results, mainVars, added>>

\* A call's place: the request and the number of the call.
NoCall == <<NoRequest, 0>>

\* The bodies a handle may send, and what a call may be sent as.
Bodies    == {NoCall} \cup (Requests \X Nat)
SentCalls == [method : Methods, body : Bodies]

TypeOK ==
    /\ workQueue \in Seq(Requests) /\ finishQueue \in Seq(Requests)
    /\ batch \in Seq(Requests) /\ finished \in Seq(Requests) /\ added \in Seq(Requests)
    /\ isExit \in BOOLEAN
    /\ worker \in [Workers -> {"none", "loop", "perform", "transfer", "finish", "reset",
                               "exited"}]
    /\ request \in [Workers -> Requests \cup {NoRequest}]
    /\ sink \in [Workers -> Requests \cup {NoRequest}]
    /\ post \in [Workers -> BOOLEAN]
    /\ fields \in [Workers -> Bodies]
    /\ response \in [Requests -> Seq(Requests)] /\ pieces \in [Requests -> 0..MaxPieces]
    /\ sent \in [Requests -> Seq(SentCalls)]
    /\ \A r \in Requests : Len(sent[r]) <= Len(Calls[r])
    /\ mainPc \in {"init", "run", "finish", "join", "destroyed"}
    /\ mainPc # "finish" => batch = <<>>
    /\ \A w \in Workers : request[w] # NoRequest
                            <=> worker[w] \in {"perform", "transfer", "finish"}

\* The constructor leaves isExit uninitialized.
Init ==
    /\ workQueue = <<>> /\ finishQueue = <<>> /\ isExit \in BOOLEAN
    /\ worker = [w \in Workers |-> "none"]
    /\ request = [w \in Workers |-> NoRequest] /\ sink = [w \in Workers |-> NoRequest]
    /\ post = [w \in Workers |-> FALSE] /\ fields = [w \in Workers |-> NoCall]
    /\ response = [r \in Requests |-> <<>>] /\ pieces = [r \in Requests |-> 0]
    /\ sent = [r \in Requests |-> <<>>]
    /\ mainPc = "init" /\ batch = <<>> /\ added = <<>> /\ finished = <<>>

-----------------------------------------------------------------------------
(* HttpWorkThread                                                          *)

At(w, from, to) == worker[w] = from /\ worker' = [worker EXCEPT ![w] = to]

Exit(w) ==
    /\ At(w, "loop", "exited") /\ isExit
    /\ UNCHANGED <<queues, isExit, request, clients, results, mainVars, added>>

\* Mutated form: the newest request is taken.
GetNewest(w) ==
    /\ ~isExit /\ workQueue # <<>>
    /\ At(w, "loop", "perform")
    /\ request' = [request EXCEPT ![w] = workQueue[Len(workQueue)]]
    /\ sink' = [sink EXCEPT ![w] = workQueue[Len(workQueue)]]
    /\ workQueue' = SubSeq(workQueue, 1, Len(workQueue) - 1)
    /\ UNCHANGED <<finishQueue, isExit, post, fields, results, mainVars, added>>

\* getRequest, and client.response = &request->response.
GetRequest(w) ==
    /\ ~isExit /\ workQueue # <<>>
    /\ At(w, "loop", "perform")
    /\ request' = [request EXCEPT ![w] = Head(workQueue)]
    /\ sink' = [sink EXCEPT ![w] = Head(workQueue)]
    /\ workQueue' = Tail(workQueue)
    /\ UNCHANGED <<finishQueue, isExit, post, fields, results, mainVars, added>>

\* What a handle sends: a body only with a POST.
Sends(isPost, body) == IF isPost THEN [method |-> "POST", body |-> body]
                                 ELSE [method |-> "GET", body |-> NoCall]

\* The next call of curlRequest in onRequest.  A POST sets CURLOPT_POST, and
\* CURLOPT_POSTFIELDS when it has parameters; a call clears neither.
CurlRequest(w) ==
    LET r == request[w]
        n == Len(sent[r]) + 1
        isPost == n \in DOMAIN Calls[r] /\ Calls[r][n].method = "POST"
    IN  /\ At(w, "perform", "transfer") /\ n \in DOMAIN Calls[r]
        /\ post' = [post EXCEPT ![w] = @ \/ isPost]
        /\ fields' = [fields EXCEPT ![w] = IF isPost /\ Calls[r][n].params THEN <<r, n>>
                                                                           ELSE @]
        /\ sent' = [sent EXCEPT ![r] = Append(@, Sends(post'[w], fields'[w]))]
        /\ UNCHANGED <<queues, isExit, request, sink, response, pieces, mainVars, added>>

\* One piece arrives, and is appended to the string that response points to.
WriteCallback(w) ==
    /\ worker[w] = "transfer" /\ pieces[request[w]] < MaxPieces
    /\ pieces' = [pieces EXCEPT ![request[w]] = @ + 1]
    /\ response' = IF sink[w] = NoRequest THEN response
                   ELSE [response EXCEPT ![sink[w]] = Append(@, request[w])]
    /\ UNCHANGED <<queues, isExit, worker, request, clients, sent, mainVars, added>>

\* curl_easy_perform returns, whether the transfer succeeded, failed or timed
\* out, and curlRequest with it.
CurlReturns(w) ==
    /\ At(w, "transfer", "perform")
    /\ UNCHANGED <<queues, isExit, request, clients, results, mainVars, added>>

\* onRequest has made all its calls.
OnRequest(w) ==
    /\ At(w, "perform", "finish") /\ Len(sent[request[w]]) = Len(Calls[request[w]])
    /\ UNCHANGED <<queues, isExit, request, clients, results, mainVars, added>>

\* Mutated form: a request without a response is not finished.
FinishAnswered(w) ==
    /\ At(w, "finish", "reset")
    /\ finishQueue' = IF response[request[w]] = <<>> THEN finishQueue
                      ELSE Append(finishQueue, request[w])
    /\ request' = [request EXCEPT ![w] = NoRequest]
    /\ UNCHANGED <<workQueue, isExit, clients, results, mainVars, added>>

\* finishRequest, and request.reset().
FinishRequest(w) ==
    /\ At(w, "finish", "reset")
    /\ finishQueue' = Append(finishQueue, request[w])
    /\ request' = [request EXCEPT ![w] = NoRequest]
    /\ UNCHANGED <<workQueue, isExit, clients, results, mainVars, added>>

\* Mutated form: curl_easy_reset is not called.
ResetResponse(w) ==
    /\ At(w, "reset", "loop")
    /\ sink' = [sink EXCEPT ![w] = NoRequest]
    /\ UNCHANGED <<queues, isExit, request, post, fields, results, mainVars, added>>

\* client.reset(): response = nullptr, and curl_easy_reset.
Reset(w) ==
    /\ At(w, "reset", "loop")
    /\ sink' = [sink EXCEPT ![w] = NoRequest]
    /\ post' = [post EXCEPT ![w] = FALSE] /\ fields' = [fields EXCEPT ![w] = NoCall]
    /\ UNCHANGED <<queues, isExit, request, results, mainVars, added>>

WorkerStep(w) == Exit(w) \/ GetRequest(w) \/ CurlRequest(w) \/ WriteCallback(w)
                 \/ CurlReturns(w) \/ OnRequest(w) \/ FinishRequest(w) \/ Reset(w)

-----------------------------------------------------------------------------
(* The other threads                                                       *)

\* init starts some of the threads, one after the other, while the first ones
\* already run.
StartWorker(w) ==
    /\ mainPc = "init" /\ At(w, "none", "loop")
    /\ UNCHANGED <<queues, isExit, request, clients, results, mainVars, added>>

InitReturns ==
    /\ mainPc = "init" /\ mainPc' = "run"
    /\ UNCHANGED <<queues, isExit, worker, request, clients, results, batch, finished,
                   added>>

AddQueueMsg(r) ==
    /\ mainPc \notin {"join", "destroyed"} /\ r \notin Range(added)
    /\ workQueue' = Append(workQueue, r) /\ added' = Append(added, r)
    /\ UNCHANGED <<finishQueue, isExit, worker, request, clients, results, mainVars>>

\* tmpQueue.swap(finishQueue) under finishMtx.
Update ==
    /\ mainPc = "run" /\ mainPc' = "finish"
    /\ batch' = finishQueue /\ finishQueue' = <<>>
    /\ UNCHANGED <<workQueue, isExit, worker, request, clients, results, finished, added>>

OnFinish ==
    /\ mainPc = "finish" /\ batch # <<>>
    /\ batch' = Tail(batch) /\ finished' = Append(finished, Head(batch))
    /\ UNCHANGED <<queues, isExit, worker, request, clients, results, mainPc, added>>

UpdateReturns ==
    /\ mainPc = "finish" /\ batch = <<>> /\ mainPc' = "run"
    /\ UNCHANGED <<queues, isExit, worker, request, clients, results, batch, finished,
                   added>>

Destroy ==
    /\ mainPc = "run" /\ mainPc' = "join"
    /\ isExit' = TRUE
    /\ UNCHANGED <<queues, worker, request, clients, results, batch, finished, added>>

\* All the threads are joined.
Joined ==
    /\ mainPc = "join" /\ \A w \in Workers : worker[w] \in {"none", "exited"}
    /\ mainPc' = "destroyed"
    /\ UNCHANGED <<queues, isExit, worker, request, clients, results, batch, finished,
                   added>>

MainStep   == InitReturns \/ OnFinish \/ UpdateReturns \/ Joined
Terminated == mainPc = "destroyed" /\ UNCHANGED vars

Next == \/ MainStep \/ Update \/ Destroy \/ Terminated
        \/ \E w \in Workers : WorkerStep(w) \/ StartWorker(w)
        \/ \E r \in Requests : AddQueueMsg(r)

\* Threads are scheduled, a transfer ends (CURLOPT_TIMEOUT) and the owner goes
\* on calling update().
Spec     == Init /\ [][Next]_vars
FairSpec == /\ Spec /\ WF_vars(MainStep) /\ WF_vars(Update)
            /\ \A w \in Workers : WF_vars(WorkerStep(w))

-----------------------------------------------------------------------------
(* Properties                                                              *)

\* What the call n of request r asks for.
Asked(r, n) == Sends(Calls[r][n].method = "POST",
                     IF Calls[r][n].params THEN <<r, n>> ELSE NoCall)

\* A thread's HttpClient carries nothing over from one request to the next: a
\* call is sent with the method and the body it asks for, unless an earlier
\* call of the same request was a POST, and then with a body of that request
\* or none; and a response holds the pieces of its own transfers, all of them
\* and no others.
NothingCarriedOver ==
    \A r \in Requests :
        /\ \A n \in DOMAIN sent[r] :
            \/ sent[r][n] = Asked(r, n)
            \/ /\ \E m \in 1..(n - 1) : Calls[r][m].method = "POST"
               /\ sent[r][n].body \in {NoCall} \cup {<<r, m>> : m \in 1..n}
        /\ response[r] = [i \in 1..pieces[r] |-> r]

\* Every request is finished in the end, unless init started no thread, or the
\* queue is destroyed, or isExit happened to be set when it was constructed.
Served ==
    \A r \in Requests :
        r \in Range(added) ~> \/ r \in Range(finished) \/ isExit
                              \/ \A w \in Workers : worker[w] = "none"

\* HttpQueue implements the abstract queue.
RQ == INSTANCE RequestQueue WITH
        queued <- workQueue, running <- {request[w] : w \in Workers} \ {NoRequest},
        completed <- batch \o finishQueue, delivered <- finished
ImplementsRequestQueue == RQ!Spec
=============================================================================
