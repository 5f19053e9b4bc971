------------------------------- MODULE DBQueue -------------------------------
(***************************************************************************)
(* DBQueue (wsDatabase): business threads add requests to workQueue, the   *)
(* worker threads take them, run them on a database connection of their    *)
(* own and push them on finishQueue, and the owner of the queue, called    *)
(* the main thread here, collects them in update(), changes the number of  *)
(* workers in setThread() and destroys the queue.                          *)
(*                                                                         *)
(* workMtx and finishMtx each protect critical sections that touch one     *)
(* queue and take no other lock, so a critical section is one step.        *)
(* added, finished, late and peak (the most workers there ever were) are   *)
(* history variables.                                                      *)
(***************************************************************************)
EXTENDS Sequences, Integers, Functions

CONSTANTS
    Requests,     \* the requests, each handed to addRequest at most once
    NoRequest,    \* the null DBRequestPtr
    MaxThreads,   \* bound: largest argument of setThread
    MaxResizes,   \* bound: calls of setThread
    MaxOutages    \* bound: times the MySQL server goes down

ASSUME DBQueueAssumption ==
    /\ NoRequest \notin Requests
    /\ MaxThreads \in Nat /\ MaxResizes \in Nat /\ MaxOutages \in Nat

VARIABLES
    workQueue, finishQueue,
    numWorkers,   \* workerThreads.size(): the workers are 1 .. numWorkers
    worker,       \* where each worker thread stands in DBWorkThread
    isExit,       \* WorkerThread::isExit
    current,      \* DBWorkThread's local variable request
    connected,    \* db.isConnected() of each worker's Database
    serverUp,     \* the MySQL server accepts connections
    mainPc,       \* where the main thread stands
    batch,        \* update()'s local variable tmpQueue
    caller,       \* where update() returns to
    target,       \* setThread()'s argument
    stopping,     \* the worker the main thread is about to join
    resizes, outages,
    added, finished, late, peak

workers   == <<numWorkers, worker, isExit, current, connected>>
mainVars  == <<mainPc, batch, caller, target, stopping>>
queues    == <<workQueue, finishQueue>>
histories == <<added, finished, late, peak>>
bounds    == <<resizes, outages>>
vars == <<queues, workers, serverUp, mainVars, bounds, histories>>

Slots == 1..MaxThreads

TypeOK ==
    /\ workQueue \in Seq(Requests) /\ finishQueue \in Seq(Requests)
    /\ batch \in Seq(Requests)
    /\ added \in Seq(Requests) /\ finished \in Seq(Requests)
    /\ late \subseteq Requests /\ peak \in 0..MaxThreads
    /\ numWorkers \in 0..MaxThreads
    /\ worker \in [Slots -> {"none", "loop", "get", "connect", "request",
                             "finish", "exited"}]
    /\ \A w \in Slots : worker[w] = "none" <=> w > numWorkers
    /\ isExit \in [Slots -> BOOLEAN]
    /\ current \in [Slots -> Requests \cup {NoRequest}]
    /\ \A w \in Slots : current[w] \in Requests
                          <=> worker[w] \in {"connect", "request", "finish"}
    /\ connected \in [Slots -> BOOLEAN]
    /\ serverUp \in BOOLEAN
    /\ mainPc \in {"run", "resize", "shrink", "finish", "drain", "stop",
                   "join", "destroyed"}
    /\ caller \in {"run", "drain", "destroyed"}
    /\ target \in 0..MaxThreads
    /\ stopping \in 1..MaxThreads + 1
    /\ resizes \in 0..MaxResizes /\ outages \in 0..MaxOutages
    /\ mainPc # "finish" => batch = <<>>
    /\ mainPc = "shrink" => target < numWorkers
    /\ mainPc = "join" => stopping <= numWorkers
    /\ numWorkers <= peak

Init ==
    /\ workQueue = <<>> /\ finishQueue = <<>>
    /\ numWorkers = 0
    /\ worker = [w \in Slots |-> "none"]
    /\ isExit = [w \in Slots |-> FALSE]
    /\ current = [w \in Slots |-> NoRequest]
    /\ connected = [w \in Slots |-> FALSE]
    /\ serverUp \in BOOLEAN
    /\ mainPc = "run" /\ batch = <<>> /\ caller = "run"
    /\ target = 0 /\ stopping = 1
    /\ resizes = 0 /\ outages = 0
    /\ added = <<>> /\ finished = <<>> /\ late = {} /\ peak = 0

-----------------------------------------------------------------------------
(* addRequest                                                              *)

\* A business thread may add requests until the destructor starts, a
\* callback of a request at any time.
Alive      == mainPc \in {"run", "resize", "shrink"} \/ caller = "run"
InCallback == batch # <<>> \/ \E w \in Slots : worker[w] = "request"
\* The destructor has left its loop and looks at workQueue no more.
Closing    == mainPc \in {"stop", "join"} \/ caller = "destroyed"

AddRequest(r) ==
    /\ Alive \/ InCallback
    /\ mainPc # "destroyed"
    /\ r \notin Range(added)
    /\ workQueue' = Append(workQueue, r)
    /\ added' = Append(added, r)
    /\ late' = IF Closing THEN late \cup {r} ELSE late
    /\ UNCHANGED <<finishQueue, workers, serverUp, mainVars, bounds, finished,
                   peak>>

-----------------------------------------------------------------------------
(* DBWorkThread                                                            *)

\* while (!worker.isExit)
Loop(w) ==
    /\ worker[w] = "loop"
    /\ worker' = [worker EXCEPT ![w] = IF isExit[w] THEN "exited" ELSE "get"]
    /\ UNCHANGED <<queues, numWorkers, isExit, current, connected, serverUp,
                   mainVars, bounds, histories>>

\* Mutated form: the newest request is taken.
GetNewest(w) ==
    /\ worker[w] = "get"
    /\ IF workQueue = <<>>
       THEN /\ worker' = [worker EXCEPT ![w] = "loop"]
            /\ UNCHANGED <<workQueue, current>>
       ELSE /\ worker' = [worker EXCEPT ![w] = "connect"]
            /\ current' = [current EXCEPT ![w] = workQueue[Len(workQueue)]]
            /\ workQueue' = SubSeq(workQueue, 1, Len(workQueue) - 1)
    /\ UNCHANGED <<finishQueue, numWorkers, isExit, connected, serverUp,
                   mainVars, bounds, histories>>

GetRequest(w) ==
    /\ worker[w] = "get"
    /\ IF workQueue = <<>>
       THEN /\ worker' = [worker EXCEPT ![w] = "loop"]
            /\ UNCHANGED <<workQueue, current>>
       ELSE /\ worker' = [worker EXCEPT ![w] = "connect"]
            /\ current' = [current EXCEPT ![w] = Head(workQueue)]
            /\ workQueue' = Tail(workQueue)
    /\ UNCHANGED <<finishQueue, numWorkers, isExit, connected, serverUp,
                   mainVars, bounds, histories>>

\* Mutated form: a worker told to exit gives up while it reconnects.
LogonOrLeave(w) ==
    /\ worker[w] = "connect" /\ ~connected[w]
    /\ IF isExit[w]
       THEN worker' = [worker EXCEPT ![w] = "exited"] /\ UNCHANGED connected
       ELSE /\ serverUp
            /\ connected' = [connected EXCEPT ![w] = TRUE]
            /\ UNCHANGED worker
    /\ UNCHANGED <<queues, numWorkers, isExit, current, serverUp,
                   mainVars, bounds, histories>>

\* while (!db.isConnected()) db.logon(): isExit is not looked at here.
Logon(w) ==
    /\ worker[w] = "connect" /\ ~connected[w] /\ serverUp
    /\ connected' = [connected EXCEPT ![w] = TRUE]
    /\ UNCHANGED <<queues, numWorkers, worker, isExit, current, serverUp,
                   mainVars, bounds, histories>>

Connected(w) ==
    /\ worker[w] = "connect" /\ connected[w]
    /\ worker' = [worker EXCEPT ![w] = "request"]
    /\ UNCHANGED <<queues, numWorkers, isExit, current, connected, serverUp,
                   mainVars, bounds, histories>>

\* onRequest(db) returns, whether or not the connection was lost meanwhile.
OnRequest(w) ==
    /\ worker[w] = "request"
    /\ worker' = [worker EXCEPT ![w] = "finish"]
    /\ UNCHANGED <<queues, numWorkers, isExit, current, connected, serverUp,
                   mainVars, bounds, histories>>

\* Mutated form: a request whose connection was lost is not pushed.
FinishIfConnected(w) ==
    /\ worker[w] = "finish"
    /\ finishQueue' = IF connected[w] THEN Append(finishQueue, current[w])
                                      ELSE finishQueue
    /\ current' = [current EXCEPT ![w] = NoRequest]
    /\ worker' = [worker EXCEPT ![w] = "loop"]
    /\ UNCHANGED <<workQueue, numWorkers, isExit, connected, serverUp,
                   mainVars, bounds, histories>>

\* The pointer that request keeps until the next getRequest is left out.
Finish(w) ==
    /\ worker[w] = "finish"
    /\ finishQueue' = Append(finishQueue, current[w])
    /\ current' = [current EXCEPT ![w] = NoRequest]
    /\ worker' = [worker EXCEPT ![w] = "loop"]
    /\ UNCHANGED <<workQueue, numWorkers, isExit, connected, serverUp,
                   mainVars, bounds, histories>>

WorkerStep(w) == Loop(w) \/ GetRequest(w) \/ Logon(w) \/ Connected(w)
                 \/ OnRequest(w) \/ Finish(w)

-----------------------------------------------------------------------------
(* update                                                                  *)

\* Mutated form: finishQueue is copied and not emptied.
CollectCopy(from) ==
    /\ batch' = finishQueue
    /\ UNCHANGED finishQueue
    /\ mainPc' = "finish" /\ caller' = from
    /\ UNCHANGED <<workQueue, workers, serverUp, target, stopping, bounds,
                   histories>>

\* tmpQueue.swap(finishQueue) under finishMtx; then the callbacks run.
Collect(from) ==
    /\ batch' = finishQueue
    /\ finishQueue' = <<>>
    /\ mainPc' = "finish" /\ caller' = from
    /\ UNCHANGED <<workQueue, workers, serverUp, target, stopping, bounds,
                   histories>>

Update == mainPc = "run" /\ Collect("run")

OnFinish ==
    /\ mainPc = "finish" /\ batch # <<>>
    /\ finished' = Append(finished, Head(batch))
    /\ batch' = Tail(batch)
    /\ UNCHANGED <<queues, workers, serverUp, mainPc, caller, target, stopping,
                   bounds, added, late, peak>>

UpdateReturns ==
    /\ mainPc = "finish" /\ batch = <<>>
    /\ mainPc' = caller
    /\ UNCHANGED <<queues, workers, serverUp, batch, caller, target, stopping,
                   bounds, histories>>

-----------------------------------------------------------------------------
(* setThread                                                               *)

SetThread(n) ==
    /\ mainPc = "run" /\ resizes < MaxResizes /\ n # numWorkers
    /\ mainPc' = "resize" /\ target' = n
    /\ resizes' = resizes + 1
    /\ UNCHANGED <<queues, workers, serverUp, batch, caller, stopping, outages,
                   histories>>

\* workerThreads.emplace_back() and the start of its thread.
StartWorker ==
    /\ mainPc = "resize" /\ numWorkers < target
    /\ numWorkers' = numWorkers + 1
    /\ worker' = [worker EXCEPT ![numWorkers + 1] = "loop"]
    /\ isExit' = [isExit EXCEPT ![numWorkers + 1] = FALSE]
    /\ connected' = [connected EXCEPT ![numWorkers + 1] = FALSE]
    /\ peak' = IF numWorkers = peak THEN peak + 1 ELSE peak
    /\ UNCHANGED <<queues, current, serverUp, mainVars, bounds, added, finished,
                   late>>

\* workerThreads.back().isExit = true; then its thread is joined.
Shrink ==
    /\ mainPc = "resize" /\ numWorkers > target
    /\ isExit' = [isExit EXCEPT ![numWorkers] = TRUE]
    /\ mainPc' = "shrink"
    /\ UNCHANGED <<queues, numWorkers, worker, current, connected, serverUp,
                   batch, caller, target, stopping, bounds, histories>>

\* Mutated form: the worker is dropped (detached) without waiting for it.
ShrinkDetach ==
    /\ mainPc = "shrink"
    /\ numWorkers' = numWorkers - 1
    /\ worker' = [worker EXCEPT ![numWorkers] = "none"]
    /\ mainPc' = "resize"
    /\ UNCHANGED <<queues, isExit, current, connected, serverUp, batch, caller,
                   target, stopping, bounds, histories>>

\* The join returns and the worker leaves the list.
ShrinkJoined ==
    /\ mainPc = "shrink" /\ worker[numWorkers] = "exited"
    /\ numWorkers' = numWorkers - 1
    /\ worker' = [worker EXCEPT ![numWorkers] = "none"]
    /\ mainPc' = "resize"
    /\ UNCHANGED <<queues, isExit, current, connected, serverUp, batch, caller,
                   target, stopping, bounds, histories>>

Resized ==
    /\ mainPc = "resize" /\ numWorkers = target
    /\ mainPc' = "run"
    /\ UNCHANGED <<queues, workers, serverUp, batch, caller, target, stopping,
                   bounds, histories>>

-----------------------------------------------------------------------------
(* ~DBQueue                                                                *)

Destroy ==
    /\ mainPc = "run"
    /\ mainPc' = "drain" /\ caller' = "drain"
    /\ UNCHANGED <<queues, workers, serverUp, batch, target, stopping, bounds,
                   histories>>

\* One round of while (getQueueLength()) { update(); sleep }.
DrainRound == mainPc = "drain" /\ workQueue # <<>> /\ Collect("drain")

DrainDone ==
    /\ mainPc = "drain" /\ workQueue = <<>>
    /\ mainPc' = "stop" /\ stopping' = 1
    /\ UNCHANGED <<queues, workers, serverUp, batch, caller, target, bounds,
                   histories>>

\* Mutated form: only the last worker is told to exit.
StopLast ==
    /\ mainPc = "stop" /\ stopping <= numWorkers
    /\ isExit' = [isExit EXCEPT ![numWorkers] = TRUE]
    /\ mainPc' = "join"
    /\ UNCHANGED <<queues, numWorkers, worker, current, connected, serverUp,
                   batch, caller, target, stopping, bounds, histories>>

StopWorker ==
    /\ mainPc = "stop" /\ stopping <= numWorkers
    /\ isExit' = [isExit EXCEPT ![stopping] = TRUE]
    /\ mainPc' = "join"
    /\ UNCHANGED <<queues, numWorkers, worker, current, connected, serverUp,
                   batch, caller, target, stopping, bounds, histories>>

WorkerJoined ==
    /\ mainPc = "join" /\ worker[stopping] = "exited"
    /\ mainPc' = "stop" /\ stopping' = stopping + 1
    /\ UNCHANGED <<queues, workers, serverUp, batch, caller, target, bounds,
                   histories>>

\* Mutated form: the last update() is left out.
NoFinalUpdate ==
    /\ mainPc = "stop" /\ stopping > numWorkers
    /\ mainPc' = "destroyed" /\ caller' = "destroyed"
    /\ UNCHANGED <<queues, workers, serverUp, batch, target, stopping, bounds,
                   histories>>

FinalUpdate ==
    mainPc = "stop" /\ stopping > numWorkers /\ Collect("destroyed")

-----------------------------------------------------------------------------
(* The MySQL server, which is not part of the library                      *)

ServerDown ==
    /\ serverUp /\ outages < MaxOutages
    /\ serverUp' = FALSE /\ outages' = outages + 1
    /\ connected' = [w \in Slots |-> FALSE]
    /\ UNCHANGED <<queues, numWorkers, worker, isExit, current, mainVars,
                   resizes, histories>>

ServerBack ==
    /\ ~serverUp
    /\ serverUp' = TRUE
    /\ UNCHANGED <<queues, workers, mainVars, bounds, histories>>

-----------------------------------------------------------------------------
MainStep == OnFinish \/ UpdateReturns \/ StartWorker \/ Shrink \/ ShrinkJoined
            \/ Resized \/ DrainRound \/ DrainDone \/ StopWorker \/ WorkerJoined
            \/ FinalUpdate

\* After the destructor nothing is left to run.
Terminated == mainPc = "destroyed" /\ UNCHANGED vars

Next == \/ MainStep \/ Update \/ Destroy \/ Terminated
        \/ ServerDown \/ ServerBack
        \/ \E n \in 0..MaxThreads : SetThread(n)
        \/ \E w \in Slots : WorkerStep(w)
        \/ \E r \in Requests : AddRequest(r)

\* Threads are scheduled, the main thread is a loop that calls update(), and
\* the server comes back after an outage.
Fairness == /\ WF_vars(MainStep) /\ WF_vars(Update) /\ WF_vars(ServerBack)
            /\ \A w \in Slots : WF_vars(WorkerStep(w))

Spec     == Init /\ [][Next]_vars
FairSpec == Spec /\ Fairness

-----------------------------------------------------------------------------
(* Properties                                                              *)

Held == {current[w] : w \in Slots} \ {NoRequest}

\* A request that was added is in exactly one place: in workQueue, in the
\* hands of one worker, in finishQueue, in the list update() works through,
\* or done.  So no interleaving of getRequest, the worker's push_back and
\* update's swap loses a request or runs or finishes it twice.
ExactlyOnce ==
    /\ \A q \in {workQueue, finishQueue, batch, finished, added} : IsInjective(q)
    /\ \A v, w \in Slots :
         v # w /\ current[v] # NoRequest => current[v] # current[w]
    /\ Range(workQueue) \cap Held = {}
    /\ (Range(workQueue) \cup Held) \cap Range(finishQueue) = {}
    /\ (Range(workQueue) \cup Held \cup Range(finishQueue)) \cap Range(batch) = {}
    /\ (Range(workQueue) \cup Held \cup Range(finishQueue) \cup Range(batch))
         \cap Range(finished) = {}
    /\ Range(added) = Range(workQueue) \cup Held \cup Range(finishQueue)
                        \cup Range(batch) \cup Range(finished)

\* With at most one worker, requests finish in the order of addRequest: what
\* is done, collected, finished, held and queued is, in this order, what was
\* added.  The worker may be removed and replaced by setThread meanwhile.
InHand == IF peak = 0 \/ current[1] = NoRequest THEN <<>> ELSE <<current[1]>>
SingleWorkerFIFO ==
    peak <= 1 =>
        added = finished \o batch \o finishQueue \o InHand \o workQueue

\* When the destructor returns, every request that was added before its loop
\* saw an empty queue is finished, the ones the workers still held at that
\* moment included; no worker thread runs.
DrainedOnDestroy ==
    mainPc = "destroyed" =>
        /\ Range(added) \ Range(finished) \subseteq late
        /\ \A w \in 1..numWorkers : worker[w] = "exited"

\* A worker that setThread or the destructor joins has pushed the request it
\* was querying on finishQueue: threads leave with nothing in hand.
LeavesEmptyHanded ==
    [][\A w \in Slots :
          /\ worker[w] \notin {"exited", "none"}
          /\ worker'[w] \in {"exited", "none"}
          => current[w] = NoRequest /\ isExit[w]]_vars

\* Every request is finished in the end, unless the owner leaves the queue
\* without a worker or destroys it.
Served ==
    \A r \in Requests :
        r \in Range(added) ~> \/ r \in Range(finished)
                              \/ numWorkers = 0 \/ mainPc = "destroyed"

\* setThread returns, and with a worker so does the destructor: a join waits
\* only for a worker that finishes its request, reconnecting if it must.
JoinsReturn ==
    /\ mainPc = "resize" ~> mainPc = "run"
    /\ mainPc = "drain" /\ numWorkers > 0 ~> mainPc = "destroyed"

\* DBQueue implements the abstract queue.
RQ == INSTANCE RequestQueue WITH
        queued <- workQueue, running <- Held,
        completed <- batch \o finishQueue, delivered <- finished
ImplementsRequestQueue == RQ!Spec
=============================================================================
