---------------------------- MODULE DatabaseProofs ----------------------------
(***************************************************************************)
(* Proofs about wsDatabase: DBQueue, for every set of requests, any number *)
(* of worker threads and any bounds; and Database, for every set of        *)
(* statements and of values, caches of any size, rows of any length and    *)
(* results of any number of rows.                                          *)
(***************************************************************************)
EXTENDS DBQueue, Database, SequenceLemmas, WellFoundedInduction

-----------------------------------------------------------------------------
(* Type correctness                                                        *)

LEMMA InitTypeOK == Init => TypeOK
  BY DBQueueAssumption DEF Init, TypeOK, Slots

LEMMA NextTypeOK == TypeOK /\ [Next]_vars => TypeOK'
  <1> SUFFICES ASSUME TypeOK, [Next]_vars PROVE TypeOK'
    OBVIOUS
  <1> USE DBQueueAssumption DEF TypeOK, Slots, queues, workers, mainVars, bounds,
                               histories
  <1>1. ASSUME NEW r \in Requests, AddRequest(r) PROVE TypeOK'
    BY <1>1 DEF AddRequest
  <1>2. ASSUME NEW w \in Slots, Loop(w) PROVE TypeOK'
    BY <1>2 DEF Loop
  <1>3. ASSUME NEW w \in Slots, GetRequest(w) PROVE TypeOK'
    <2>1. CASE workQueue = <<>>
      BY <1>3, <2>1 DEF GetRequest
    <2>2. CASE workQueue # <<>>
      <3>1. Head(workQueue) \in Requests /\ Tail(workQueue) \in Seq(Requests)
        BY <2>2, HeadTailProperties
      <3>2. /\ workQueue' \in Seq(Requests)
            /\ worker' = [worker EXCEPT ![w] = "connect"]
            /\ \E r \in Requests : current' = [current EXCEPT ![w] = r]
        BY <1>3, <2>2, <3>1 DEF GetRequest
      <3>3. worker[w] = "get" /\ UNCHANGED <<finishQueue, numWorkers, isExit,
                connected, serverUp, mainVars, bounds, histories>>
        BY <1>3 DEF GetRequest
      <3> QED BY <3>2, <3>3
    <2> QED BY <2>1, <2>2
  <1>4. ASSUME NEW w \in Slots, Logon(w) PROVE TypeOK'
    BY <1>4 DEF Logon
  <1>5. ASSUME NEW w \in Slots, Connected(w) PROVE TypeOK'
    BY <1>5 DEF Connected
  <1>6. ASSUME NEW w \in Slots, OnRequest(w) PROVE TypeOK'
    BY <1>6 DEF OnRequest
  <1>7. ASSUME NEW w \in Slots, Finish(w) PROVE TypeOK'
    BY <1>7 DEF Finish
  <1>8. ASSUME NEW from \in {"run", "drain", "destroyed"}, Collect(from)
        PROVE  TypeOK'
    BY <1>8 DEF Collect
  <1>9. CASE OnFinish
    BY <1>9 DEF OnFinish
  <1>10. CASE UpdateReturns
    BY <1>10 DEF UpdateReturns
  <1>11. ASSUME NEW n \in 0..MaxThreads, SetThread(n) PROVE TypeOK'
    BY <1>11 DEF SetThread
  <1>12. CASE StartWorker
    BY <1>12 DEF StartWorker
  <1>13. CASE Shrink
    BY <1>13 DEF Shrink
  <1>14. CASE ShrinkJoined
    BY <1>14 DEF ShrinkJoined
  <1>15. CASE Resized
    BY <1>15 DEF Resized
  <1>16. CASE Destroy
    BY <1>16 DEF Destroy
  <1>17. CASE DrainDone
    BY <1>17 DEF DrainDone
  <1>18. CASE StopWorker
    BY <1>18 DEF StopWorker
  <1>19. CASE WorkerJoined
    BY <1>19 DEF WorkerJoined
  <1>20. CASE ServerDown
    <2>1. connected' \in [Slots -> BOOLEAN] /\ outages' \in 0..MaxOutages
      BY <1>20 DEF ServerDown
    <2> QED BY <1>20, <2>1 DEF ServerDown
  <1>21. CASE ServerBack
    BY <1>21 DEF ServerBack
  <1>22. CASE UNCHANGED vars
    BY <1>22 DEF vars
  <1> QED
    BY <1>1, <1>2, <1>3, <1>4, <1>5, <1>6, <1>7, <1>8, <1>9, <1>10, <1>11,
       <1>12, <1>13, <1>14, <1>15, <1>16, <1>17, <1>18, <1>19, <1>20, <1>21,
       <1>22
    DEF Next, MainStep, WorkerStep, Update, DrainRound, FinalUpdate, Terminated

\* The variables have their types and the main thread's position fits the
\* list of workers, in every reachable state.
THEOREM TypeCorrect == Spec => []TypeOK
  BY InitTypeOK, NextTypeOK, PTL DEF Spec

-----------------------------------------------------------------------------
(* Every request in exactly one place                                      *)

\* What the workers hold after one of them took a request.
LEMMA HeldTake ==
    ASSUME TypeOK, NEW w \in Slots, NEW r \in Requests, current[w] = NoRequest,
           current' = [current EXCEPT ![w] = r]
    PROVE  Held' = Held \cup {r}
  BY DBQueueAssumption DEF Held, TypeOK

\* What the workers hold after one of them pushed its request.
LEMMA HeldPush ==
    ASSUME TypeOK, ExactlyOnce, NEW w \in Slots, current[w] # NoRequest,
           current' = [current EXCEPT ![w] = NoRequest]
    PROVE  /\ current[w] \in Held
           /\ Held' = Held \ {current[w]}
  BY DBQueueAssumption DEF Held, TypeOK, ExactlyOnce

LEMMA InitExactlyOnce == Init => ExactlyOnce
  BY DEF Init, ExactlyOnce, Held, IsInjective, Range

LEMMA AddExactlyOnce ==
    ASSUME TypeOK, ExactlyOnce, NEW r \in Requests, AddRequest(r)
    PROVE  ExactlyOnce'
  <1>1. UNCHANGED <<finishQueue, batch, finished, current, Held>>
    BY DEF AddRequest, workers, mainVars, Held
  <1>2. /\ Range(workQueue') = Range(workQueue) \cup {r}
        /\ Range(added') = Range(added) \cup {r}
    BY AppendFresh DEF AddRequest, TypeOK
  <1>3. IsInjective(workQueue') /\ IsInjective(added')
    BY AppendFresh DEF AddRequest, TypeOK, ExactlyOnce
  <1>4. r \notin Range(added)
    BY DEF AddRequest
  <1> QED BY <1>1, <1>2, <1>3, <1>4 DEF ExactlyOnce

LEMMA GetExactlyOnce ==
    ASSUME TypeOK, ExactlyOnce, NEW w \in Slots, GetRequest(w)
    PROVE  ExactlyOnce'
  <1>1. UNCHANGED <<finishQueue, batch, finished, added>>
    BY DEF GetRequest, mainVars, histories
  <1>2. CASE workQueue = <<>>
    BY <1>1, <1>2 DEF GetRequest, ExactlyOnce, Held
  <1>3. CASE workQueue # <<>>
    <2> DEFINE r == Head(workQueue)
    <2>1. /\ r \in Requests /\ r \in Range(workQueue)
          /\ Range(workQueue') = Range(workQueue) \ {r}
          /\ IsInjective(workQueue')
      <3>1. workQueue \in Seq(Requests) /\ IsInjective(workQueue)
        BY DEF TypeOK, ExactlyOnce
      <3>2. workQueue' = Tail(workQueue)
        BY <1>3 DEF GetRequest
      <3> QED BY <1>3, <3>1, <3>2, TailFresh
    <2>2. current[w] = NoRequest /\ current' = [current EXCEPT ![w] = r]
      BY <1>3 DEF GetRequest, TypeOK
    <2>3. Held' = Held \cup {r}
      BY <2>1, <2>2, HeldTake
    <2>4. \A v \in Slots : current[v] # r
      BY <2>1, DBQueueAssumption DEF ExactlyOnce, Held
    <2>5. \A u, v \in Slots :
            u # v /\ current'[u] # NoRequest => current'[u] # current'[v]
      BY <2>1, <2>2, <2>4, DBQueueAssumption DEF ExactlyOnce, TypeOK
    <2> HIDE DEF r
    <2> QED BY <1>1, <2>1, <2>3, <2>5 DEF ExactlyOnce
  <1> QED BY <1>2, <1>3

LEMMA FinishExactlyOnce ==
    ASSUME TypeOK, ExactlyOnce, NEW w \in Slots, Finish(w)
    PROVE  ExactlyOnce'
  <1> DEFINE r == current[w]
  <1>1. UNCHANGED <<workQueue, batch, finished, added>>
    BY DEF Finish, mainVars, histories
  <1>2. r \in Requests /\ current' = [current EXCEPT ![w] = NoRequest]
    BY DEF Finish, TypeOK
  <1>3. r \in Held /\ Held' = Held \ {r}
    BY <1>2, HeldPush, DBQueueAssumption
  <1>4. r \notin Range(finishQueue)
    BY <1>3 DEF ExactlyOnce
  <1>5. /\ Range(finishQueue') = Range(finishQueue) \cup {r}
        /\ IsInjective(finishQueue')
    BY <1>2, <1>4, AppendFresh DEF Finish, TypeOK, ExactlyOnce
  <1>6. \A u, v \in Slots :
          u # v /\ current'[u] # NoRequest => current'[u] # current'[v]
    BY <1>2 DEF ExactlyOnce, TypeOK
  <1> HIDE DEF r
  <1> QED BY <1>1, <1>3, <1>5, <1>6 DEF ExactlyOnce

LEMMA CollectExactlyOnce ==
    ASSUME TypeOK, ExactlyOnce, NEW from, Collect(from), batch = <<>>
    PROVE  ExactlyOnce'
  <1>1. UNCHANGED <<workQueue, current, Held, finished, added>>
    BY DEF Collect, workers, histories, Held
  <1>2. batch' = finishQueue /\ finishQueue' = <<>>
    BY DEF Collect
  <1>3. Range(<<>>) = {} /\ IsInjective(<<>>)
    BY DEF Range, IsInjective
  <1> QED BY <1>1, <1>2, <1>3 DEF ExactlyOnce

LEMMA OnFinishExactlyOnce ==
    ASSUME TypeOK, ExactlyOnce, OnFinish
    PROVE  ExactlyOnce'
  <1> DEFINE r == Head(batch)
  <1>1. UNCHANGED <<workQueue, finishQueue, current, Held, added>>
    BY DEF OnFinish, queues, workers, histories, Held
  <1>2. /\ r \in Requests /\ r \in Range(batch)
        /\ Range(batch') = Range(batch) \ {r}
        /\ IsInjective(batch')
    BY TailFresh DEF OnFinish, TypeOK, ExactlyOnce
  <1>3. r \notin Range(finished)
    BY <1>2 DEF ExactlyOnce
  <1>4. /\ Range(finished') = Range(finished) \cup {r}
        /\ IsInjective(finished')
    BY <1>2, <1>3, AppendFresh DEF OnFinish, TypeOK, ExactlyOnce
  <1> HIDE DEF r
  <1> QED BY <1>1, <1>2, <1>4 DEF ExactlyOnce

LEMMA StutterExactlyOnce ==
    ASSUME ExactlyOnce, UNCHANGED <<queues, current, batch, finished, added>>
    PROVE  ExactlyOnce'
  BY DEF ExactlyOnce, Held, queues

LEMMA NextExactlyOnce == TypeOK /\ ExactlyOnce /\ [Next]_vars => ExactlyOnce'
  <1> SUFFICES ASSUME TypeOK, ExactlyOnce, [Next]_vars PROVE ExactlyOnce'
    OBVIOUS
  <1>1. ASSUME NEW r \in Requests, AddRequest(r) PROVE ExactlyOnce'
    BY <1>1, AddExactlyOnce
  <1>2. ASSUME NEW w \in Slots, WorkerStep(w) PROVE ExactlyOnce'
    <2>1. CASE GetRequest(w)
      BY <2>1, GetExactlyOnce
    <2>2. CASE Finish(w)
      BY <2>2, FinishExactlyOnce
    <2>3. CASE Loop(w) \/ Logon(w) \/ Connected(w) \/ OnRequest(w)
      BY <2>3, StutterExactlyOnce
      DEF Loop, Logon, Connected, OnRequest, mainVars, histories
    <2> QED BY <1>2, <2>1, <2>2, <2>3 DEF WorkerStep
  <1>3. ASSUME NEW n \in 0..MaxThreads, SetThread(n) PROVE ExactlyOnce'
    BY <1>3, StutterExactlyOnce DEF SetThread, workers, histories
  <1>4. CASE Update \/ DrainRound \/ FinalUpdate
    BY <1>4, CollectExactlyOnce DEF Update, DrainRound, FinalUpdate, TypeOK
  <1>5. CASE OnFinish
    BY <1>5, OnFinishExactlyOnce
  <1>6. CASE \/ UpdateReturns \/ StartWorker \/ Shrink \/ ShrinkJoined \/ Resized
             \/ Destroy \/ DrainDone \/ StopWorker \/ WorkerJoined
             \/ ServerDown \/ ServerBack \/ UNCHANGED vars
    BY <1>6, StutterExactlyOnce
    DEF UpdateReturns, StartWorker, Shrink, ShrinkJoined, Resized, Destroy,
        DrainDone, StopWorker, WorkerJoined, ServerDown, ServerBack, vars,
        workers, mainVars, histories
  <1> QED BY <1>1, <1>2, <1>3, <1>4, <1>5, <1>6 DEF Next, MainStep, Terminated

\* However addRequest, the workers and update() interleave, and whatever the
\* number of workers, no request is lost, run twice or finished twice.
THEOREM RequestsInOnePlace == Spec => []ExactlyOnce
  <1>1. Init => TypeOK /\ ExactlyOnce
    BY InitTypeOK, InitExactlyOnce
  <1>2. TypeOK /\ ExactlyOnce /\ [Next]_vars => (TypeOK /\ ExactlyOnce)'
    BY NextTypeOK, NextExactlyOnce
  <1> QED BY <1>1, <1>2, PTL DEF Spec

-----------------------------------------------------------------------------
(* Order with one worker                                                   *)

\* Where there was never more than one worker, a worker that runs is the first.
LEMMA OnlyWorker ==
    ASSUME TypeOK, peak <= 1, NEW w \in Slots, worker[w] # "none"
    PROVE  w = 1 /\ peak = 1
  <1>1. /\ w \in Nat \ {0} /\ numWorkers \in Nat /\ peak \in Nat
        /\ numWorkers <= peak
    BY DBQueueAssumption DEF TypeOK, Slots
  <1>2. ~(w > numWorkers)
    BY DEF TypeOK
  <1> QED BY <1>1, <1>2

LEMMA GetFIFO ==
    ASSUME TypeOK, SingleWorkerFIFO, NEW w \in Slots, GetRequest(w)
    PROVE  SingleWorkerFIFO'
  <1> SUFFICES ASSUME peak' <= 1
               PROVE  added' = finished' \o batch' \o finishQueue' \o InHand' \o workQueue'
    BY DEF SingleWorkerFIFO
  <1>1. UNCHANGED <<added, finished, batch, finishQueue, peak>>
    BY DEF GetRequest, mainVars, histories
  <1>2. worker[w] = "get" /\ w = 1 /\ peak = 1
    BY <1>1, OnlyWorker DEF GetRequest
  <1>3. CASE workQueue = <<>>
    BY <1>1, <1>3 DEF GetRequest, SingleWorkerFIFO, InHand
  <1>4. CASE workQueue # <<>>
    <2> DEFINE before == finished \o batch \o finishQueue
    <2>1. InHand = <<>>
      BY <1>2 DEF InHand, TypeOK
    <2>2. /\ Head(workQueue) \in Requests
          /\ InHand' = <<Head(workQueue)>> /\ workQueue' = Tail(workQueue)
      BY <1>1, <1>2, <1>4, HeadTailProperties, DBQueueAssumption
      DEF GetRequest, InHand, TypeOK
    <2>3. before \in Seq(Requests)
      BY ConcatProperties DEF TypeOK
    <2>4. Append(before, Head(workQueue)) = before \o InHand'
      BY <2>2, <2>3, AppendIsConcat
    <2>5. before \o InHand' \o workQueue' = before \o workQueue
      <3>1. workQueue \in Seq(Requests)
        BY DEF TypeOK
      <3>2. Append(before, Head(workQueue)) \o Tail(workQueue) = before \o workQueue
        BY <1>4, <2>3, <3>1, HeadMoves
      <3> QED BY <2>2, <2>4, <3>2
    <2>6. before \o InHand = before
      BY <2>1, <2>3, ConcatEmptySeq
    <2>7. added = before \o InHand \o workQueue
      BY <1>1 DEF SingleWorkerFIFO
    <2> QED BY <1>1, <2>5, <2>6, <2>7
  <1> QED BY <1>3, <1>4

LEMMA FinishFIFO ==
    ASSUME TypeOK, SingleWorkerFIFO, NEW w \in Slots, Finish(w)
    PROVE  SingleWorkerFIFO'
  <1> SUFFICES ASSUME peak' <= 1
               PROVE  added' = finished' \o batch' \o finishQueue' \o InHand' \o workQueue'
    BY DEF SingleWorkerFIFO
  <1>1. UNCHANGED <<added, finished, batch, workQueue, peak>>
    BY DEF Finish, mainVars, histories
  <1>2. /\ w = 1 /\ peak = 1 /\ current[1] \in Requests
        /\ InHand = <<current[1]>>
    <2>1. worker[w] = "finish" /\ w = 1 /\ peak = 1
      BY <1>1, OnlyWorker DEF Finish
    <2>2. current[w] \in Requests
      BY <2>1 DEF TypeOK
    <2> QED BY <2>1, <2>2, DBQueueAssumption DEF InHand
  <1>3. /\ finishQueue' = Append(finishQueue, current[1])
        /\ InHand' = <<>>
    BY <1>1, <1>2 DEF Finish, InHand, TypeOK
  <1> DEFINE before == finished \o batch
  <1>4. before \in Seq(Requests) /\ before \o finishQueue \in Seq(Requests)
    BY ConcatProperties DEF TypeOK
  <1>5. before \o finishQueue' = before \o finishQueue \o InHand
    <2>1. before \in Seq(Requests) /\ finishQueue \in Seq(Requests) /\ current[1] \in Requests
      BY <1>2, <1>4 DEF TypeOK
    <2>2. before \o Append(finishQueue, current[1])
            = Append(before \o finishQueue, current[1])
      <3> HIDE DEF before
      <3> QED BY ONLY <2>1, ConcatAppend, SMT
    <2>3. before \o finishQueue' = Append(before \o finishQueue, current[1])
      BY <1>3, <2>2
    <2> QED BY <1>2, <1>4, <2>3, AppendIsConcat
  <1>6. before \o finishQueue' \in Seq(Requests)
    BY <1>2, <1>3, <1>4, AppendProperties, ConcatProperties DEF TypeOK
  <1>7. before \o finishQueue' \o InHand' = before \o finishQueue'
    BY <1>3, <1>6, ConcatEmptySeq
  <1>8. added = before \o finishQueue \o InHand \o workQueue
    BY <1>1 DEF SingleWorkerFIFO
  <1> QED BY <1>1, <1>5, <1>7, <1>8

LEMMA CollectFIFO ==
    ASSUME TypeOK, SingleWorkerFIFO, NEW from, Collect(from), batch = <<>>
    PROVE  SingleWorkerFIFO'
  <1>1. UNCHANGED <<added, finished, workQueue, peak, InHand>>
    BY DEF Collect, workers, histories, InHand
  <1>2. batch' = finishQueue /\ finishQueue' = <<>>
    BY DEF Collect
  <1>3. /\ finished \o batch = finished
        /\ finished \o finishQueue \in Seq(Requests)
        /\ finished \o finishQueue \o <<>> = finished \o finishQueue
    BY ConcatEmptySeq, ConcatProperties DEF TypeOK
  <1> QED BY <1>1, <1>2, <1>3 DEF SingleWorkerFIFO

LEMMA OnFinishFIFO ==
    ASSUME TypeOK, SingleWorkerFIFO, OnFinish
    PROVE  SingleWorkerFIFO'
  <1>1. UNCHANGED <<added, finishQueue, workQueue, peak, InHand>>
    BY DEF OnFinish, queues, workers, histories, InHand
  <1>2. finished' \o batch' = finished \o batch
    <2>1. /\ finished \in Seq(Requests) /\ batch \in Seq(Requests)
          /\ batch # <<>>
      BY DEF OnFinish, TypeOK
    <2>2. finished' = Append(finished, Head(batch)) /\ batch' = Tail(batch)
      BY DEF OnFinish
    <2> QED BY <2>1, <2>2, HeadMoves
  <1> QED BY <1>1, <1>2 DEF SingleWorkerFIFO

LEMMA AddFIFO ==
    ASSUME TypeOK, SingleWorkerFIFO, NEW r \in Requests, AddRequest(r)
    PROVE  SingleWorkerFIFO'
  <1>1. UNCHANGED <<finished, batch, finishQueue, peak, InHand>>
    BY DEF AddRequest, workers, mainVars, InHand
  <1>2. workQueue' = Append(workQueue, r) /\ added' = Append(added, r)
    BY DEF AddRequest
  <1> SUFFICES ASSUME peak <= 1
               PROVE  added' = finished \o batch \o finishQueue \o InHand \o workQueue'
    BY <1>1 DEF SingleWorkerFIFO
  <1>3. InHand \in Seq(Requests)
    BY DBQueueAssumption DEF InHand, TypeOK, Slots
  <1> DEFINE before == finished \o batch \o finishQueue \o InHand
  <1>4. before \in Seq(Requests)
    BY <1>3, ConcatProperties DEF TypeOK
  <1>5. added = before \o workQueue
    BY <1>1 DEF SingleWorkerFIFO
  <1>6. before \o Append(workQueue, r) = Append(before \o workQueue, r)
    <2>1. workQueue \in Seq(Requests)
      BY DEF TypeOK
    <2> HIDE DEF before
    <2> QED BY <1>4, <2>1, ConcatAppend
  <1> QED BY <1>2, <1>5, <1>6

LEMMA StutterFIFO ==
    ASSUME SingleWorkerFIFO,
           UNCHANGED <<queues, current, batch, finished, added, peak>>
    PROVE  SingleWorkerFIFO'
  BY DEF SingleWorkerFIFO, InHand, queues

\* The first worker starts with nothing in hand, where InHand was <<>> too.
LEMMA StartWorkerFIFO ==
    ASSUME TypeOK, SingleWorkerFIFO, StartWorker
    PROVE  SingleWorkerFIFO'
  <1>1. UNCHANGED <<workQueue, finishQueue, current, batch, finished, added>>
    BY DEF StartWorker, queues, mainVars
  <1>2. CASE peak' = peak
    BY <1>1, <1>2, StutterFIFO DEF queues
  <1>3. CASE peak' # peak
    <2>1. peak' = peak + 1 /\ numWorkers = peak /\ numWorkers \in Nat
      BY <1>3, DBQueueAssumption DEF StartWorker, TypeOK
    <2>2. CASE peak' > 1
      BY <2>1, <2>2, DBQueueAssumption DEF SingleWorkerFIFO, TypeOK
    <2>3. CASE peak' <= 1
      <3>1. numWorkers = 0 /\ peak = 0 /\ 1 \in Slots
        BY <2>1, <2>3, DBQueueAssumption DEF StartWorker, TypeOK, Slots
      <3>2. current[1] = NoRequest
        <4>1. worker[1] = "none"
          BY <3>1 DEF TypeOK
        <4> QED BY <3>1, <4>1 DEF TypeOK
      <3>3. InHand = <<>> /\ InHand' = <<>>
        BY <1>1, <3>1, <3>2 DEF InHand
      <3> QED BY <1>1, <3>1, <3>3 DEF SingleWorkerFIFO
    <2> QED BY <2>1, <2>2, <2>3, DBQueueAssumption DEF TypeOK
  <1> QED BY <1>2, <1>3

LEMMA NextFIFO == TypeOK /\ SingleWorkerFIFO /\ [Next]_vars => SingleWorkerFIFO'
  <1> SUFFICES ASSUME TypeOK, SingleWorkerFIFO, [Next]_vars PROVE SingleWorkerFIFO'
    OBVIOUS
  <1>1. ASSUME NEW r \in Requests, AddRequest(r) PROVE SingleWorkerFIFO'
    BY <1>1, AddFIFO
  <1>2. ASSUME NEW w \in Slots, WorkerStep(w) PROVE SingleWorkerFIFO'
    <2>1. CASE GetRequest(w)
      BY <2>1, GetFIFO
    <2>2. CASE Finish(w)
      BY <2>2, FinishFIFO
    <2>3. CASE Loop(w) \/ Logon(w) \/ Connected(w) \/ OnRequest(w)
      BY <2>3, StutterFIFO
      DEF Loop, Logon, Connected, OnRequest, mainVars, histories
    <2> QED BY <1>2, <2>1, <2>2, <2>3 DEF WorkerStep
  <1>3. ASSUME NEW n \in 0..MaxThreads, SetThread(n) PROVE SingleWorkerFIFO'
    BY <1>3, StutterFIFO DEF SetThread, workers, histories
  <1>4. CASE Update \/ DrainRound \/ FinalUpdate
    BY <1>4, CollectFIFO DEF Update, DrainRound, FinalUpdate, TypeOK
  <1>5. CASE OnFinish
    BY <1>5, OnFinishFIFO
  <1>6. CASE StartWorker
    BY <1>6, StartWorkerFIFO
  <1>7. CASE \/ UpdateReturns \/ Shrink \/ ShrinkJoined \/ Resized
             \/ Destroy \/ DrainDone \/ StopWorker \/ WorkerJoined
             \/ ServerDown \/ ServerBack \/ UNCHANGED vars
    BY <1>7, StutterFIFO
    DEF UpdateReturns, Shrink, ShrinkJoined, Resized, Destroy, DrainDone,
        StopWorker, WorkerJoined, ServerDown, ServerBack, vars, workers,
        mainVars, histories
  <1> QED BY <1>1, <1>2, <1>3, <1>4, <1>5, <1>6, <1>7
          DEF Next, MainStep, Terminated

\* As long as there was never more than one worker at a time, requests are
\* run and finished in the order of addRequest, also when setThread removes
\* the worker and starts another.
THEOREM OneWorkerKeepsOrder == Spec => []SingleWorkerFIFO
  <1>1. Init => TypeOK /\ SingleWorkerFIFO
    <2>1. Init => SingleWorkerFIFO
      <3> SUFFICES ASSUME Init
                   PROVE  <<>> = <<>> \o <<>> \o <<>> \o <<>> \o <<>>
        BY DEF Init, SingleWorkerFIFO, InHand
      <3>1. <<>> \in Seq(Requests)
        OBVIOUS
      <3> QED BY <3>1, ConcatEmptySeq
    <2> QED BY <2>1, InitTypeOK
  <1>2. TypeOK /\ SingleWorkerFIFO /\ [Next]_vars => (TypeOK /\ SingleWorkerFIFO)'
    BY NextTypeOK, NextFIFO
  <1> QED BY <1>1, <1>2, PTL DEF Spec

-----------------------------------------------------------------------------
(* DBQueue implements RequestQueue                                         *)

\* A step of RequestQueue, or one that leaves its variables alone.
RQStep == RQ!Next \/ UNCHANGED RQ!rqVars

LEMMA InitRefines == Init => RQ!Init
  <1> SUFFICES ASSUME Init PROVE RQ!Init
    OBVIOUS
  <1>1. Held = {}
    BY DEF Init, Held
  <1>2. <<>> \o <<>> = <<>>
    OBVIOUS
  <1> QED BY <1>1, <1>2 DEF Init, RQ!Init

\* A request that was never added is in none of the places.
LEMMA AddRefines ==
    ASSUME TypeOK, ExactlyOnce, NEW r \in Requests, AddRequest(r)
    PROVE  RQ!Add(r)
  <1>1. batch \in Seq(Requests) /\ finishQueue \in Seq(Requests)
    BY DEF TypeOK
  <1>2. Range(batch \o finishQueue) = Range(batch) \cup Range(finishQueue)
    BY <1>1, RangeConcat
  <1>3. RQ!Known = Range(added)
    <2>1. RQ!Known = Range(workQueue) \cup Held \cup Range(batch \o finishQueue)
                       \cup Range(finished)
      BY DEF RQ!Known, RQ!Range, Range
    <2> QED BY <1>2, <2>1 DEF ExactlyOnce
  <1>4. UNCHANGED <<Held, batch, finishQueue, finished>>
    BY DEF AddRequest, workers, mainVars, Held
  <1> QED BY <1>3, <1>4 DEF AddRequest, RQ!Add

LEMMA GetRefines ==
    ASSUME TypeOK, NEW w \in Slots, GetRequest(w)
    PROVE  RQStep
  <1>1. UNCHANGED <<batch, finishQueue, finished>>
    BY DEF GetRequest, mainVars, histories
  <1>2. CASE workQueue = <<>>
    BY <1>1, <1>2 DEF GetRequest, Held, RQStep, RQ!rqVars
  <1>3. CASE workQueue # <<>>
    <2>1. Head(workQueue) \in Requests
      BY <1>3, HeadTailProperties DEF TypeOK
    <2>2. /\ current[w] = NoRequest
          /\ current' = [current EXCEPT ![w] = Head(workQueue)]
      BY <1>3 DEF GetRequest, TypeOK
    <2>3. Held' = Held \cup {Head(workQueue)}
      BY <2>1, <2>2, HeldTake
    <2>4. RQ!Start
      BY <1>1, <1>3, <2>3 DEF GetRequest, RQ!Start
    <2> QED BY <2>4 DEF RQStep, RQ!Next
  <1> QED BY <1>2, <1>3

LEMMA FinishRefines ==
    ASSUME TypeOK, ExactlyOnce, NEW w \in Slots, Finish(w)
    PROVE  RQStep
  <1>1. UNCHANGED <<workQueue, batch, finished>>
    BY DEF Finish, mainVars, histories
  <1>2. /\ current[w] \in Requests /\ current[w] # NoRequest
        /\ current' = [current EXCEPT ![w] = NoRequest]
    BY DBQueueAssumption DEF Finish, TypeOK
  <1>3. current[w] \in Held /\ Held' = Held \ {current[w]}
    BY <1>2, HeldPush
  <1>4. batch \in Seq(Requests) /\ finishQueue \in Seq(Requests)
    BY DEF TypeOK
  <1>5. batch \o Append(finishQueue, current[w])
          = Append(batch \o finishQueue, current[w])
    BY <1>2, <1>4, ConcatAppend
  <1>6. RQ!Complete(current[w])
    BY <1>1, <1>3, <1>5 DEF Finish, RQ!Complete
  <1> QED BY <1>2, <1>6 DEF RQStep, RQ!Next

LEMMA CollectRefines ==
    ASSUME TypeOK, NEW from, Collect(from), batch = <<>>
    PROVE  RQStep
  <1>1. UNCHANGED <<workQueue, Held, finished>>
    BY DEF Collect, workers, histories, Held
  <1>2. finishQueue \o <<>> = finishQueue /\ <<>> \o finishQueue = finishQueue
    BY ConcatEmptySeq DEF TypeOK
  <1> QED BY <1>1, <1>2 DEF Collect, RQStep, RQ!rqVars

LEMMA OnFinishRefines ==
    ASSUME TypeOK, OnFinish
    PROVE  RQStep
  <1>1. UNCHANGED <<workQueue, Held, finishQueue>>
    BY DEF OnFinish, queues, workers, Held
  <1>2. /\ batch \in Seq(Requests) /\ batch # <<>>
        /\ finishQueue \in Seq(Requests)
    BY DEF OnFinish, TypeOK
  <1>3. /\ batch \o finishQueue # <<>>
        /\ Head(batch \o finishQueue) = Head(batch)
        /\ Tail(batch \o finishQueue) = Tail(batch) \o finishQueue
    BY <1>2, ConcatHeadTail
  <1>4. RQ!Deliver
    BY <1>1, <1>3 DEF OnFinish, RQ!Deliver
  <1> QED BY <1>4 DEF RQStep, RQ!Next

LEMMA StutterRefines ==
    ASSUME UNCHANGED <<queues, current, batch, finished>>
    PROVE  RQStep
  BY DEF RQStep, RQ!rqVars, queues, Held

LEMMA NextRefines ==
    TypeOK /\ ExactlyOnce /\ [Next]_vars => [RQ!Next]_(RQ!rqVars)
  <1> SUFFICES ASSUME TypeOK, ExactlyOnce, [Next]_vars PROVE RQStep
    BY DEF RQStep
  <1>1. ASSUME NEW r \in Requests, AddRequest(r) PROVE RQStep
    BY <1>1, AddRefines DEF RQStep, RQ!Next
  <1>2. ASSUME NEW w \in Slots, WorkerStep(w) PROVE RQStep
    <2>1. CASE GetRequest(w)
      BY <2>1, GetRefines
    <2>2. CASE Finish(w)
      BY <2>2, FinishRefines
    <2>3. CASE Loop(w) \/ Logon(w) \/ Connected(w) \/ OnRequest(w)
      BY <2>3, StutterRefines
      DEF Loop, Logon, Connected, OnRequest, mainVars, histories
    <2> QED BY <1>2, <2>1, <2>2, <2>3 DEF WorkerStep
  <1>3. ASSUME NEW n \in 0..MaxThreads, SetThread(n) PROVE RQStep
    BY <1>3, StutterRefines DEF SetThread, workers, histories
  <1>4. CASE Update \/ DrainRound \/ FinalUpdate
    BY <1>4, CollectRefines DEF Update, DrainRound, FinalUpdate, TypeOK
  <1>5. CASE OnFinish
    BY <1>5, OnFinishRefines
  <1>6. CASE \/ UpdateReturns \/ StartWorker \/ Shrink \/ ShrinkJoined \/ Resized
             \/ Destroy \/ DrainDone \/ StopWorker \/ WorkerJoined
             \/ ServerDown \/ ServerBack \/ UNCHANGED vars
    BY <1>6, StutterRefines
    DEF UpdateReturns, StartWorker, Shrink, ShrinkJoined, Resized, Destroy,
        DrainDone, StopWorker, WorkerJoined, ServerDown, ServerBack, vars,
        workers, mainVars, histories
  <1> QED BY <1>1, <1>2, <1>3, <1>4, <1>5, <1>6 DEF Next, MainStep, Terminated

\* Whoever uses the queue sees RequestQueue: addRequest puts a request behind
\* the others, a worker takes the first, its push_back completes it, and
\* update() calls the callbacks in the order of the completions.  The swap in
\* update(), the resizing and the destructor are invisible.
THEOREM QueueImplementsAbstract == Spec => ImplementsRequestQueue
  <1>1. Init => TypeOK /\ ExactlyOnce
    BY InitTypeOK, InitExactlyOnce
  <1>2. TypeOK /\ ExactlyOnce /\ [Next]_vars => (TypeOK /\ ExactlyOnce)'
    BY NextTypeOK, NextExactlyOnce
  <1> QED BY <1>1, <1>2, InitRefines, NextRefines, PTL
          DEF Spec, ImplementsRequestQueue, RQ!Spec

-----------------------------------------------------------------------------
(* Joined threads and the destructor                                       *)

LEMMA StepLeavesEmptyHanded ==
    TypeOK /\ [Next]_vars =>
        [\A w \in Slots :
            /\ worker[w] \notin {"exited", "none"}
            /\ worker'[w] \in {"exited", "none"}
            => current[w] = NoRequest /\ isExit[w]]_vars
  <1> SUFFICES ASSUME TypeOK, Next, NEW v \in Slots,
                      worker[v] \notin {"exited", "none"},
                      worker'[v] \in {"exited", "none"}
               PROVE  current[v] = NoRequest /\ isExit[v]
    OBVIOUS
  <1>1. worker' # worker
    OBVIOUS
  <1>2. ASSUME NEW w \in Slots, WorkerStep(w)
        PROVE  current[v] = NoRequest /\ isExit[v]
    <2>1. CASE Loop(w)
      <3>1. worker[v] = "loop" /\ isExit[v]
        BY <2>1 DEF Loop, TypeOK
      <3> QED BY <3>1 DEF TypeOK
    <2>2. CASE GetRequest(w) \/ Logon(w) \/ Connected(w) \/ OnRequest(w) \/ Finish(w)
      BY <1>1, <2>2
      DEF GetRequest, Logon, Connected, OnRequest, Finish, TypeOK
    <2> QED BY <1>2, <2>1, <2>2 DEF WorkerStep
  <1>3. CASE StartWorker
    BY <1>3 DEF StartWorker, TypeOK
  <1>4. CASE ShrinkJoined
    BY <1>4 DEF ShrinkJoined, TypeOK
  <1>5. ASSUME \/ \E r \in Requests : AddRequest(r)
               \/ \E n \in 0..MaxThreads : SetThread(n)
               \/ Update \/ DrainRound \/ FinalUpdate \/ OnFinish
               \/ UpdateReturns \/ Shrink \/ Resized \/ Destroy \/ DrainDone
               \/ StopWorker \/ WorkerJoined \/ ServerDown \/ ServerBack
               \/ Terminated
        PROVE  FALSE
    BY <1>1, <1>5
    DEF AddRequest, SetThread, Update, DrainRound, FinalUpdate, Collect,
        OnFinish, UpdateReturns, Shrink, Resized, Destroy, DrainDone,
        StopWorker, WorkerJoined, ServerDown, ServerBack, Terminated, workers,
        vars
  <1> QED BY <1>2, <1>3, <1>4, <1>5 DEF Next, MainStep

\* setThread and the destructor join threads that were told to exit and have
\* nothing in hand, however the join and DBWorkThread interleave.
THEOREM JoinedEmptyHanded == Spec => LeavesEmptyHanded
  BY InitTypeOK, NextTypeOK, StepLeavesEmptyHanded, PTL
  DEF Spec, LeavesEmptyHanded

\* What the destructor has established on its way: the workers before
\* stopping are gone, what is still queued was added after its loop, and at
\* its last update() nobody is left to push on finishQueue.
DrainInv ==
    /\ caller = "destroyed" => mainPc \in {"finish", "destroyed"}
    /\ mainPc = "destroyed" => caller = "destroyed"
    /\ Closing => Range(workQueue) \subseteq late
    /\ mainPc \in {"stop", "join"} =>
          \A w \in 1..numWorkers : w < stopping => worker[w] = "exited"
    /\ caller = "destroyed" =>
          /\ finishQueue = <<>>
          /\ \A w \in 1..numWorkers : worker[w] = "exited"

LEMMA InitDrain == Init => DrainInv
  BY DEF Init, DrainInv, Closing

LEMMA AddDrain ==
    ASSUME TypeOK, DrainInv, NEW r \in Requests, AddRequest(r)
    PROVE  DrainInv'
  <1>1. UNCHANGED <<caller, mainPc, stopping, numWorkers, worker, finishQueue>>
        /\ Closing' = Closing
    BY DEF AddRequest, workers, mainVars, Closing
  <1>2. Range(workQueue') = Range(workQueue) \cup {r}
    BY AppendFresh DEF AddRequest, TypeOK
  <1>3. Closing => late' = late \cup {r}
    BY DEF AddRequest
  <1> QED BY <1>1, <1>2, <1>3 DEF DrainInv

\* A worker moves, and a worker that moves has not exited.
LEMMA WorkerDrain ==
    ASSUME TypeOK, ExactlyOnce, DrainInv, NEW w \in Slots, WorkerStep(w)
    PROVE  DrainInv'
  <1>1. /\ UNCHANGED <<caller, mainPc, stopping, numWorkers, late>>
        /\ Closing' = Closing
    BY DEF WorkerStep, Loop, GetRequest, Logon, Connected, OnRequest, Finish,
           mainVars, histories, Closing
  <1>2. worker[w] \notin {"exited", "none"}
    BY DEF WorkerStep, Loop, GetRequest, Logon, Connected, OnRequest, Finish
  <1>3. w \in 1..numWorkers
    <2>1. w \in Nat \ {0} /\ numWorkers \in Nat
      BY DBQueueAssumption DEF Slots, TypeOK
    <2>2. ~(w > numWorkers)
      BY <1>2 DEF TypeOK
    <2> QED BY <2>1, <2>2
  <1>4. caller # "destroyed"
    BY <1>2, <1>3 DEF DrainInv
  <1>5. ASSUME NEW v \in 1..numWorkers, worker[v] = "exited"
        PROVE  worker'[v] = "exited"
    <2>1. v \in Slots
      BY DBQueueAssumption DEF Slots, TypeOK
    <2> QED BY <1>2, <1>5, <2>1
      DEF WorkerStep, Loop, GetRequest, Logon, Connected, OnRequest, Finish,
          TypeOK
  <1>6. Range(workQueue') \subseteq Range(workQueue)
    <2>1. CASE UNCHANGED workQueue
      BY <2>1
    <2>2. CASE GetRequest(w) /\ workQueue # <<>>
      <3>1. workQueue \in Seq(Requests) /\ IsInjective(workQueue)
        BY DEF TypeOK, ExactlyOnce
      <3>2. workQueue' = Tail(workQueue)
        BY <2>2 DEF GetRequest
      <3> QED BY <2>2, <3>1, <3>2, TailFresh
    <2> QED BY <2>1, <2>2
      DEF WorkerStep, Loop, GetRequest, Logon, Connected, OnRequest, Finish,
          queues
  <1> QED BY <1>1, <1>4, <1>5, <1>6 DEF DrainInv

LEMMA MainDrain ==
    ASSUME TypeOK, DrainInv, MainStep \/ Update \/ Destroy
    PROVE  DrainInv'
  <1> USE DEF DrainInv, Closing, queues, workers, mainVars, histories
  <1>1. CASE OnFinish
    BY <1>1 DEF OnFinish
  <1>2. CASE UpdateReturns
    BY <1>2 DEF UpdateReturns, TypeOK
  <1>3. CASE StartWorker \/ Shrink \/ ShrinkJoined \/ Resized \/ Destroy
    BY <1>3 DEF StartWorker, Shrink, ShrinkJoined, Resized, Destroy
  <1>4. CASE Update \/ DrainRound
    BY <1>4 DEF Update, DrainRound, Collect
  <1>5. CASE DrainDone
    <2>1. Range(workQueue) = {}
      BY <1>5 DEF DrainDone, Range
    <2> QED BY <1>5, <2>1, DBQueueAssumption DEF DrainDone, TypeOK
  <1>6. CASE StopWorker
    BY <1>6 DEF StopWorker
  <1>7. CASE WorkerJoined
    <2>1. ASSUME NEW w \in 1..numWorkers, w < stopping + 1
          PROVE  worker[w] = "exited"
      BY <1>7, <2>1, DBQueueAssumption DEF WorkerJoined, TypeOK
    <2> QED BY <1>7, <2>1 DEF WorkerJoined
  <1>8. CASE FinalUpdate
    <2>1. \A w \in 1..numWorkers : w < stopping
      BY <1>8, DBQueueAssumption DEF FinalUpdate, TypeOK
    <2> QED BY <1>8, <2>1 DEF FinalUpdate, Collect
  <1> QED BY <1>1, <1>2, <1>3, <1>4, <1>5, <1>6, <1>7, <1>8 DEF MainStep

LEMMA NextDrain ==
    TypeOK /\ ExactlyOnce /\ DrainInv /\ [Next]_vars => DrainInv'
  <1> SUFFICES ASSUME TypeOK, ExactlyOnce, DrainInv, [Next]_vars PROVE DrainInv'
    OBVIOUS
  <1>1. ASSUME NEW n \in 0..MaxThreads, SetThread(n) PROVE DrainInv'
    BY <1>1 DEF SetThread, DrainInv, Closing, queues, workers, histories
  <1>2. CASE ServerDown \/ ServerBack \/ UNCHANGED vars
    BY <1>2 DEF ServerDown, ServerBack, DrainInv, Closing, queues, workers,
                mainVars, histories, vars
  <1> QED BY <1>1, <1>2, AddDrain, WorkerDrain, MainDrain DEF Next, Terminated

LEMMA DrainInvImplies == TypeOK /\ ExactlyOnce /\ DrainInv => DrainedOnDestroy
  <1> SUFFICES ASSUME TypeOK, ExactlyOnce, DrainInv, mainPc = "destroyed"
               PROVE  /\ Range(added) \ Range(finished) \subseteq late
                      /\ \A w \in 1..numWorkers : worker[w] = "exited"
    BY DEF DrainedOnDestroy
  <1>1. /\ finishQueue = <<>> /\ batch = <<>>
        /\ Range(workQueue) \subseteq late
        /\ \A w \in 1..numWorkers : worker[w] = "exited"
    BY DEF DrainInv, Closing, TypeOK
  <1>2. Held = {}
    <2>1. ASSUME NEW w \in Slots PROVE current[w] = NoRequest
      <3>1. w \in Nat \ {0} /\ numWorkers \in Nat
        BY DBQueueAssumption DEF Slots, TypeOK
      <3>2. w > numWorkers \/ w \in 1..numWorkers
        BY <3>1
      <3>3. worker[w] \in {"exited", "none"}
        BY <1>1, <3>2 DEF TypeOK
      <3> QED BY <3>3 DEF TypeOK
    <2> QED BY <2>1 DEF Held
  <1>3. Range(finishQueue) = {} /\ Range(batch) = {}
    BY <1>1 DEF Range
  <1> QED BY <1>1, <1>2, <1>3 DEF ExactlyOnce

\* The destructor returns with every request finished that was added before
\* its loop saw the queue empty, for any number of workers and any timing of
\* getRequest against getQueueLength().
THEOREM DestructorDrains == Spec => []DrainedOnDestroy
  <1>1. Init => TypeOK /\ ExactlyOnce /\ DrainInv
    BY InitTypeOK, InitExactlyOnce, InitDrain
  <1>2. TypeOK /\ ExactlyOnce /\ DrainInv /\ [Next]_vars
          => (TypeOK /\ ExactlyOnce /\ DrainInv)'
    BY NextTypeOK, NextExactlyOnce, NextDrain
  <1> QED BY <1>1, <1>2, DrainInvImplies, PTL DEF Spec

-----------------------------------------------------------------------------
(* Sequences in the order of their use                                     *)

\* Sequences without repetition, by index; s can be at one place only.
LEMMA PositionOf ==
    ASSUME NEW S, NEW q \in Seq(S), IsInjective(q)
    PROVE  /\ Len(q) \in Nat /\ DOMAIN q = 1..Len(q)
           /\ \A s \in Range(q) : Position(q, s) \in 1..Len(q) /\ q[Position(q, s)] = s
           /\ \A i \in 1..Len(q) : q[i] \in Range(q) /\ Position(q, q[i]) = i
  <1>1. Len(q) \in Nat /\ DOMAIN q = 1..Len(q)
    BY LenProperties
  <1>2. ASSUME NEW s \in Range(q)
        PROVE  Position(q, s) \in 1..Len(q) /\ q[Position(q, s)] = s
    <2>1. \E i \in DOMAIN q : q[i] = s
      BY DEF Range
    <2> QED BY <1>1, <2>1 DEF Position
  <1>3. ASSUME NEW i \in 1..Len(q) PROVE q[i] \in Range(q)
    BY <1>1 DEF Range
  <1>4. ASSUME NEW i \in 1..Len(q) PROVE Position(q, q[i]) = i
    <2>1. Position(q, q[i]) \in 1..Len(q) /\ q[Position(q, q[i])] = q[i]
      BY <1>2, <1>3
    <2> QED BY <1>1, <2>1 DEF IsInjective
  <1> QED BY <1>1, <1>2, <1>3, <1>4

\* w is q but for its n-th element.
Lacks(w, q, n) ==
    /\ Len(w) \in Nat /\ DOMAIN w = 1..Len(w)
    /\ Len(q) = Len(w) + 1 /\ DOMAIN q = 1..Len(w) + 1
    /\ n \in 1..Len(w) + 1
    /\ \A i \in 1..Len(w) : (i < n => w[i] = q[i]) /\ (i >= n => w[i] = q[i + 1])

\* What is left of q without s keeps its order.
LEMMA WithoutElement ==
    ASSUME NEW S, NEW q \in Seq(S), IsInjective(q), NEW s \in Range(q)
    PROVE  Without(q, s) \in Seq(S) /\ Lacks(Without(q, s), q, Position(q, s))
  <1>1. Position(q, s) \in 1..Len(q) /\ Len(q) \in Nat
    BY PositionOf
  <1>2. PICK n \in Nat, l \in Nat : n = Position(q, s) /\ l = Len(q)
    BY <1>1
  <1>3. n >= 1 /\ n <= l
    BY <1>1, <1>2
  <1>4. PICK m \in Nat : m = n - 1
    BY <1>3
  <1>5. n = m + 1 /\ n - 1 = m /\ m <= Len(q) /\ n <= Len(q) /\ l - n \in Nat
    BY <1>2, <1>3, <1>4
  <1>6. PICK k \in Nat : k = l - n
    BY <1>5
  <1>7. PICK a \in Seq(S) : a = SubSeq(q, 1, m)
    BY <1>5, TakeFirst
  <1>8. Len(a) = m /\ \A i \in 1..m : a[i] = q[i]
    BY <1>5, <1>7, TakeFirst
  <1>9. PICK b \in Seq(S) : b = SubSeq(q, n + 1, Len(q))
    BY <1>5, CutFirst
  <1>10. Len(b) = k /\ \A i \in 1..k : b[i] = q[n + i]
    BY <1>2, <1>5, <1>6, <1>9, CutFirst
  <1>11. PICK w \in Seq(S) : w = a \o b
    BY ConcatProperties
  <1>12. Without(q, s) = w
    BY <1>2, <1>5, <1>7, <1>9, <1>11 DEF Without, RemoveAt
  <1>13. PICK c \in Nat : c = m + k
    OBVIOUS
  <1>14. Len(w) = c /\ \A i \in 1..c : w[i] = IF i <= m THEN a[i] ELSE b[i - m]
    <2>1. /\ Len(w) = Len(a) + Len(b)
          /\ \A i \in 1..Len(a) + Len(b) : w[i] = IF i <= Len(a) THEN a[i] ELSE b[i - Len(a)]
      BY <1>11, ConcatProperties
    <2>2. Len(a) + Len(b) = c
      BY <1>8, <1>10, <1>13
    <2>3. Len(a) = m
      BY <1>8
    <2> QED BY ONLY <2>1, <2>2, <2>3
  <1>15. DOMAIN w = 1..c /\ DOMAIN q = 1..c + 1 /\ Len(q) = c + 1 /\ n \in 1..c + 1
    <2>1. l = c + 1
      BY <1>5, <1>6, <1>13
    <2>2. DOMAIN w = 1..Len(w) /\ DOMAIN q = 1..Len(q)
      BY LenProperties
    <2>3. n \in 1..c + 1
      BY <1>3, <2>1
    <2> QED BY <1>2, <1>14, <2>1, <2>2, <2>3
  <1>16. ASSUME NEW i \in 1..c PROVE (i < n => w[i] = q[i]) /\ (i >= n => w[i] = q[i + 1])
    <2>1. CASE i < n
      <3>1. i \in 1..m
        BY <1>5, <2>1
      <3> QED BY <1>8, <1>14, <2>1, <3>1
    <2>2. CASE i >= n
      <3>1. PICK j \in 1..k : j = i - m
        BY <1>5, <1>13, <2>2
      <3>2. ~(i <= m) /\ ~(i < n) /\ n + j = i + 1
        BY <1>5, <2>2, <3>1
      <3>3. w[i] = b[j] /\ b[j] = q[n + j]
        BY <1>10, <1>14, <3>1, <3>2
      <3> QED BY <3>2, <3>3
    <2> QED BY <1>2, <2>1, <2>2
  <1> QED BY ONLY <1>2, <1>12, <1>14, <1>15, <1>16 DEF Lacks

\* It lacks nothing else.
LEMMA GapClosed ==
    ASSUME NEW q, IsInjective(q), NEW w, NEW n, Lacks(w, q, n)
    PROVE  IsInjective(w) /\ Range(w) = Range(q) \ {q[n]}
  <1>0. PICK k \in Nat : k = Len(w)
    BY DEF Lacks
  <1>1. /\ DOMAIN w = 1..k /\ DOMAIN q = 1..k + 1 /\ n \in 1..k + 1
        /\ \A i \in 1..k : (i < n => w[i] = q[i]) /\ (i >= n => w[i] = q[i + 1])
    BY <1>0 DEF Lacks
  <1>2. \A i, j \in 1..k + 1 : q[i] = q[j] => i = j
    BY <1>1 DEF IsInjective
  <1>3. ASSUME NEW i \in 1..k PROVE \E j \in 1..k + 1 : w[i] = q[j] /\ j # n
    <2>1. CASE i < n
      BY <1>1, <2>1
    <2>2. CASE i >= n
      <3>1. i + 1 \in 1..k + 1 /\ i + 1 # n
        BY <1>1, <2>2
      <3> QED BY <1>1, <2>2, <3>1
    <2> QED BY <1>1, <2>1, <2>2
  <1>4. ASSUME NEW j \in 1..k + 1, j # n PROVE \E i \in 1..k : w[i] = q[j]
    <2>1. CASE j < n
      BY <1>1, <2>1
    <2>2. CASE j > n
      <3>1. PICK i \in 1..k : i = j - 1
        BY <1>1, <2>2
      <3>2. i >= n /\ i + 1 = j
        BY <1>1, <2>2, <3>1
      <3> QED BY <1>1, <3>2
    <2> QED BY <1>1, <1>4, <2>1, <2>2
  <1>5. ASSUME NEW i \in 1..k, NEW j \in 1..k, w[i] = w[j] PROVE i = j
    <2>1. PICK x \in 1..k + 1 : w[i] = q[x] /\ x = IF i < n THEN i ELSE i + 1
      BY <1>1
    <2>2. PICK y \in 1..k + 1 : w[j] = q[y] /\ y = IF j < n THEN j ELSE j + 1
      BY <1>1
    <2>3. x = y
      BY <1>2, <1>5, <2>1, <2>2
    <2> QED BY <1>1, <2>1, <2>2, <2>3
  <1>6. IsInjective(w)
    BY <1>1, <1>5 DEF IsInjective
  <1>7. Range(w) \subseteq Range(q) \ {q[n]}
    BY <1>1, <1>2, <1>3 DEF Range
  <1>8. Range(q) \ {q[n]} \subseteq Range(w)
    <2> SUFFICES ASSUME NEW j \in 1..k + 1, q[j] # q[n] PROVE q[j] \in Range(w)
      BY <1>1 DEF Range
    <2>1. PICK i \in 1..k : w[i] = q[j]
      BY <1>4
    <2> QED BY <1>1, <2>1 DEF Range
  <1> QED BY <1>6, <1>7, <1>8

LEMMA WithoutProperties ==
    ASSUME NEW S, NEW q \in Seq(S), IsInjective(q), NEW s
    PROVE  /\ Without(q, s) \in Seq(S) /\ IsInjective(Without(q, s))
           /\ Range(Without(q, s)) = Range(q) \ {s}
           /\ Len(q) = IF s \in Range(q) THEN Len(Without(q, s)) + 1 ELSE Len(Without(q, s))
  <1>1. CASE s \notin Range(q)
    BY <1>1 DEF Without
  <1>2. CASE s \in Range(q)
    <2>1. Without(q, s) \in Seq(S) /\ Lacks(Without(q, s), q, Position(q, s))
      BY <1>2, WithoutElement
    <2>2. q[Position(q, s)] = s
      BY <1>2, PositionOf
    <2>3. Len(q) = Len(Without(q, s)) + 1
      BY <2>1 DEF Lacks
    <2> QED BY <1>2, <2>1, <2>2, <2>3, GapClosed
  <1> QED BY <1>1, <1>2

\* s comes last, once.
LEMMA UsedProperties ==
    ASSUME NEW S, NEW q \in Seq(S), IsInjective(q), NEW s \in S
    PROVE  LET u == Used(q, s)
           IN  /\ u \in Seq(S) /\ IsInjective(u) /\ Range(u) = Range(q) \cup {s}
               /\ Len(u) = IF s \in Range(q) THEN Len(q) ELSE Len(q) + 1
               /\ u[Len(u)] = s
  <1>1. PICK w \in Seq(S) : w = Without(q, s) /\ IsInjective(w) /\ Range(w) = Range(q) \ {s}
    BY WithoutProperties
  <1>2. /\ Append(w, s) \in Seq(S) /\ IsInjective(Append(w, s))
        /\ Range(Append(w, s)) = Range(w) \cup {s}
    BY <1>1, AppendFresh
  <1>3. Len(Append(w, s)) = Len(w) + 1 /\ Append(w, s)[Len(w) + 1] = s
    BY AppendProperties
  <1>4. Len(q) = IF s \in Range(q) THEN Len(w) + 1 ELSE Len(w)
    BY <1>1, WithoutProperties
  <1>5. Len(q) \in Nat
    BY LenProperties
  <1> QED BY <1>1, <1>2, <1>3, <1>4, <1>5 DEF Used

-----------------------------------------------------------------------------
(* The cache and the statements a request has prepared                     *)

\* What the sequence h has of c is the end of c, in the same order, and at
\* least as far apart.
EndsWith(c, h) ==
    \A p, q \in 1..Len(c) :
        p <= q /\ c[p] \in Range(h)
            => /\ c[q] \in Range(h)
               /\ q - p <= Position(h, c[q]) - Position(h, c[p])

LEMMA LeastOf ==
    ASSUME NEW T, T \subseteq Nat, T # {}
    PROVE  \E x \in T : \A y \in T : x <= y
  <1>1. PICK x \in T : \A y \in T : <<y, x>> \notin OpToRel(<, Nat)
    BY NatLessThanWellFounded, WFMin, Zenon
  <1>2. \A y \in T : ~(y < x)
    BY <1>1 DEF OpToRel
  <1> QED BY <1>2

\* When an element of h that is not among those from p to q of c is between
\* them in h, they are farther apart there.
LEMMA Between ==
    ASSUME NEW S, NEW c \in Seq(S), NEW h \in Seq(S), IsInjective(h), EndsWith(c, h),
           NEW p \in 1..Len(c), NEW q \in 1..Len(c), p <= q, c[p] \in Range(h),
           NEW y \in 1..Len(h), \A m \in p..q : c[m] # h[y],
           Position(h, c[p]) < y, y < Position(h, c[q])
    PROVE  q - p < Position(h, c[q]) - Position(h, c[p])
  <1> DEFINE at(m) == Position(h, c[m])
  <1>1. Len(c) \in Nat /\ Len(h) \in Nat
    BY LenProperties
  <1>2. \A m \in p..q : c[m] \in Range(h) /\ at(m) \in 1..Len(h) /\ h[at(m)] = c[m]
    <2> TAKE m \in p..q
    <2>1. c[m] \in Range(h)
      BY <1>1 DEF EndsWith
    <2> QED BY <2>1, PositionOf
  <1>3. \A m, n \in p..q : m <= n => n - m <= at(n) - at(m)
    <2> TAKE m, n \in p..q
    <2>1. m \in 1..Len(c) /\ n \in 1..Len(c)
      BY <1>1
    <2> QED BY <1>2, <2>1 DEF EndsWith
  <1> HIDE DEF at
  <1>4. PICK m \in p..q : at(m) > y /\ \A n \in p..q : at(n) > y => m <= n
    <2> DEFINE T == {n \in p..q : at(n) > y}
    <2>1. T \subseteq Nat
      BY <1>1
    <2>2. q \in T
      BY <1>1 DEF at
    <2>3. PICK m \in T : \A n \in T : m <= n
      BY ONLY <2>1, <2>2, LeastOf
    <2> QED BY <2>3
  <1>11. p \in p..q /\ q \in p..q /\ p \in Nat /\ q \in Nat /\ y \in Nat
    BY <1>1
  <1>12. at(p) < y /\ at(p) \in Nat /\ at(m) \in Nat
    <2>1. at(p) < y
      BY DEF at
    <2> QED BY <1>1, <1>2, <1>4, <1>11, <2>1
  <1>5. p < m
    <2>1. m # p
      BY <1>4, <1>11, <1>12
    <2> QED BY <1>4, <1>11, <2>1
  <1>6. PICK n \in p..q : n = m - 1
    BY <1>4, <1>5, <1>11
  <1>7. n < m /\ n + 1 = m
    BY <1>4, <1>6, <1>11
  <1>8. at(n) < y
    <2>1. ~(at(n) > y)
      BY <1>1, <1>4, <1>7
    <2>2. at(n) # y
      BY <1>2
    <2> QED BY <1>1, <1>2, <2>1, <2>2
  <1>9. /\ n - p <= at(n) - at(p) /\ q - m <= at(q) - at(m)
        /\ at(p) \in Nat /\ at(q) \in Nat /\ at(m) \in Nat /\ at(n) \in Nat
    <2>1. p \in p..q /\ q \in p..q /\ p <= n /\ m <= q
      BY <1>4, <1>5, <1>6, <1>11
    <2>2. n - p <= at(n) - at(p) /\ q - m <= at(q) - at(m)
      BY <1>3, <2>1
    <2>3. \A k \in p..q : at(k) \in Nat
      BY <1>1, <1>2
    <2> QED BY <2>1, <2>2, <2>3
  <1>10. q - p < at(q) - at(p)
    BY <1>4, <1>7, <1>8, <1>9, <1>11
  <1> QED BY <1>10 DEF at

\* Where the elements of a sequence are once one of them is left out.
LEMMA Closer ==
    ASSUME NEW S, NEW h \in Seq(S), IsInjective(h), NEW s \in Range(h),
           NEW x \in Range(h), x # s
    PROVE  LET v == Without(h, s)
           IN  /\ x \in Range(v)
               /\ Position(v, x) = IF Position(h, x) < Position(h, s) THEN Position(h, x)
                                                                     ELSE Position(h, x) - 1
  <1>1. PICK v \in Seq(S) : v = Without(h, s)
    BY WithoutElement
  <1>2. PICK n, k : n = Position(h, s) /\ k = Position(h, x)
    OBVIOUS
  <1>3. /\ Len(v) \in Nat /\ DOMAIN v = 1..Len(v) /\ n \in 1..Len(v) + 1
        /\ Len(h) = Len(v) + 1
        /\ \A i \in 1..Len(v) : (i < n => v[i] = h[i]) /\ (i >= n => v[i] = h[i + 1])
    BY <1>1, <1>2, WithoutElement DEF Lacks
  <1>4. k \in 1..Len(v) + 1 /\ h[k] = x /\ h[n] = s
    BY <1>2, <1>3, PositionOf
  <1>5. IsInjective(v)
    BY <1>1, WithoutProperties
  <1>6. PICK j \in 1..Len(v) : v[j] = x /\ j = IF k < n THEN k ELSE k - 1
    <2>1. k # n
      BY <1>4
    <2>2. CASE k < n
      BY <1>3, <1>4, <2>2
    <2>3. CASE k > n
      <3>1. PICK j \in 1..Len(v) : j = k - 1
        BY <1>3, <1>4, <2>3
      <3>2. j >= n /\ j + 1 = k /\ ~(k < n)
        BY <1>3, <1>4, <2>3, <3>1
      <3> QED BY <1>3, <1>4, <3>1, <3>2
    <2> QED BY <1>3, <1>4, <2>1, <2>2, <2>3
  <1>7. x \in Range(v) /\ Position(v, x) = j
    BY <1>5, <1>6, PositionOf
  <1> QED BY <1>1, <1>2, <1>6, <1>7

\* The two sequences without s, and with s at their ends.
LEMMA EndsWithout ==
    ASSUME NEW S, NEW c \in Seq(S), IsInjective(c), NEW h \in Seq(S), IsInjective(h),
           EndsWith(c, h), NEW s \in S
    PROVE  EndsWith(Without(c, s), Without(h, s))
  <1>1. PICK w \in Seq(S), v \in Seq(S) : w = Without(c, s) /\ v = Without(h, s)
    BY WithoutProperties
  <1>2. /\ Range(w) = Range(c) \ {s} /\ Range(v) = Range(h) \ {s}
        /\ Len(w) \in Nat /\ Len(c) \in Nat /\ Len(h) \in Nat
    BY <1>1, WithoutProperties, LenProperties
  <1> SUFFICES ASSUME NEW p \in 1..Len(w), NEW q \in 1..Len(w), p <= q, w[p] \in Range(v)
               PROVE  /\ w[q] \in Range(v)
                      /\ q - p <= Position(v, w[q]) - Position(v, w[p])
    BY <1>1 DEF EndsWith
  <1>3. PICK P \in 1..Len(c), Q \in 1..Len(c) :
          /\ c[P] = w[p] /\ c[Q] = w[q] /\ P <= Q
          /\ q - p < Q - P \/ (q - p <= Q - P /\ \A m \in P..Q : c[m] # s)
    <2>1. CASE s \notin Range(c)
      <3>1. w = c
        BY <1>1, <2>1 DEF Without
      <3>2. \A m \in 1..Len(c) : c[m] # s
        BY <2>1, LenProperties DEF Range
      <3> QED BY <1>2, <3>1, <3>2
    <2>2. CASE s \in Range(c)
      <3>1. PICK n \in 1..Len(c) : n = Position(c, s) /\ c[n] = s
        BY <2>2, PositionOf
      <3>2. /\ Len(c) = Len(w) + 1
            /\ \A i \in 1..Len(w) : (i < n => w[i] = c[i]) /\ (i >= n => w[i] = c[i + 1])
        BY <1>1, <2>2, <3>1, WithoutElement DEF Lacks
      <3>3. \A m \in 1..Len(c) : c[m] = s => m = n
        BY <3>1, PositionOf
      <3>4. CASE q < n
        <4>1. \A m \in p..q : c[m] # s
          BY <1>2, <3>1, <3>2, <3>3, <3>4
        <4>2. /\ p \in 1..Len(c) /\ q \in 1..Len(c) /\ c[p] = w[p] /\ c[q] = w[q]
              /\ q - p <= q - p
          BY <1>2, <3>1, <3>2, <3>4
        <4> QED BY <4>1, <4>2
      <3>5. CASE p < n /\ q >= n
        <4>1. PICK Q \in 1..Len(c) : Q = q + 1
          BY <1>2, <3>2
        <4>2. p \in 1..Len(c) /\ c[p] = w[p] /\ c[Q] = w[q] /\ p <= Q /\ q - p < Q - p
          BY <1>2, <3>2, <3>5, <4>1
        <4> QED BY <4>2
      <3>6. CASE p >= n
        <4>1. PICK P \in 1..Len(c), Q \in 1..Len(c) : P = p + 1 /\ Q = q + 1
          BY <1>2, <3>2
        <4>2. c[P] = w[p] /\ c[Q] = w[q] /\ P <= Q /\ q - p <= Q - P
          BY <1>2, <3>1, <3>2, <3>6, <4>1
        <4>3. \A m \in P..Q : c[m] # s
          BY <1>2, <3>1, <3>2, <3>3, <3>6, <4>1
        <4> QED BY <4>2, <4>3
      <3> QED BY <1>2, <3>1, <3>2, <3>4, <3>5, <3>6
    <2> QED BY <2>1, <2>2
  <1>4. /\ c[P] \in Range(h) /\ c[P] # s /\ c[Q] \in Range(h)
        /\ Q - P <= Position(h, c[Q]) - Position(h, c[P])
    BY <1>2, <1>3 DEF EndsWith
  <1>5. c[Q] # s
    <2>1. w[q] \in Range(w)
      BY <1>2, LenProperties DEF Range
    <2> QED BY <1>2, <1>3, <2>1
  <1>6. PICK i \in 1..Len(h), j \in 1..Len(h) :
          i = Position(h, c[P]) /\ j = Position(h, c[Q]) /\ h[i] = c[P] /\ h[j] = c[Q]
    BY <1>4, PositionOf
  <1>7. CASE s \notin Range(h)
    <2>1. v = h
      BY <1>1, <1>7 DEF Without
    <2>2. q - p <= j - i
      <3>1. Q - P <= j - i /\ q - p <= Q - P
        BY <1>2, <1>3, <1>4, <1>6
      <3> QED BY <1>2, <3>1
    <2>3. /\ w[p] = c[P] /\ w[q] = c[Q] /\ c[Q] \in Range(v)
          /\ Position(v, c[P]) = i /\ Position(v, c[Q]) = j
      BY <1>3, <1>4, <1>6, <2>1
    <2> QED BY <2>2, <2>3
  <1>8. CASE s \in Range(h)
    <2>1. PICK y \in 1..Len(h) : y = Position(h, s) /\ h[y] = s
      BY <1>8, PositionOf
    <2>2. /\ c[Q] \in Range(v)
          /\ Position(v, c[P]) = IF i < y THEN i ELSE i - 1
          /\ Position(v, c[Q]) = IF j < y THEN j ELSE j - 1
      BY <1>1, <1>4, <1>5, <1>6, <1>8, <2>1, Closer
    <2>3. Q - P <= j - i
      BY <1>4, <1>6
    <2>4. i < y /\ y < j /\ (\A m \in P..Q : c[m] # s) => Q - P < j - i
      BY <1>3, <1>4, <1>6, <2>1, Between
    <2>5. j # y /\ i # y
      BY <1>4, <1>5, <1>6, <2>1
    <2>6. q - p <= Position(v, c[Q]) - Position(v, c[P])
      BY <1>2, <1>3, <2>2, <2>3, <2>4, <2>5
    <2> QED BY <1>3, <2>2, <2>6
  <1> QED BY <1>7, <1>8

LEMMA EndsAppend ==
    ASSUME NEW S, NEW c \in Seq(S), NEW h \in Seq(S), IsInjective(h), EndsWith(c, h),
           NEW s \in S, s \notin Range(c), s \notin Range(h)
    PROVE  EndsWith(Append(c, s), Append(h, s))
  <1>1. PICK d \in Seq(S), g \in Seq(S) : d = Append(c, s) /\ g = Append(h, s)
    BY AppendProperties
  <1>2. /\ Len(c) \in Nat /\ Len(h) \in Nat /\ Len(d) = Len(c) + 1 /\ Len(g) = Len(h) + 1
        /\ d[Len(c) + 1] = s /\ \A i \in 1..Len(c) : d[i] = c[i]
        /\ g[Len(h) + 1] = s /\ \A i \in 1..Len(h) : g[i] = h[i]
    BY <1>1, AppendProperties, LenProperties
  <1>3. IsInjective(g) /\ Range(g) = Range(h) \cup {s}
    BY <1>1, AppendFresh
  <1>4. Position(g, s) = Len(h) + 1
    BY <1>2, <1>3, PositionOf
  <1>5. ASSUME NEW x \in Range(h)
        PROVE  Position(g, x) = Position(h, x) /\ Position(h, x) \in 1..Len(h)
    <2>1. Position(h, x) \in 1..Len(h) /\ h[Position(h, x)] = x
      BY PositionOf
    <2>2. PICK i \in 1..Len(g) : i = Position(h, x) /\ g[i] = x
      BY <1>2, <2>1
    <2> QED BY <1>3, <2>1, <2>2, PositionOf
  <1> SUFFICES ASSUME NEW p \in 1..Len(d), NEW q \in 1..Len(d), p <= q, d[p] \in Range(g)
               PROVE  /\ d[q] \in Range(g)
                      /\ q - p <= Position(g, d[q]) - Position(g, d[p])
    BY <1>1 DEF EndsWith
  <1>6. CASE p = Len(c) + 1
    <2>1. q = p
      BY <1>2, <1>6
    <2>2. Position(g, d[p]) = Len(h) + 1
      BY <1>2, <1>4, <1>6
    <2> QED BY <1>2, <1>3, <2>1, <2>2
  <1>7. CASE p \in 1..Len(c)
    <2>1. d[p] = c[p] /\ c[p] # s
      BY <1>2, <1>7, LenProperties DEF Range
    <2>2. c[p] \in Range(h)
      BY <1>3, <2>1
    <2>3. CASE q \in 1..Len(c)
      <3>1. c[q] \in Range(h) /\ q - p <= Position(h, c[q]) - Position(h, c[p])
        BY <1>7, <2>2, <2>3 DEF EndsWith
      <3> QED BY <1>2, <1>3, <1>5, <2>1, <2>2, <2>3, <3>1
    <2>4. CASE q = Len(c) + 1
      <3>1. PICK l \in 1..Len(c) : l = Len(c)
        BY <1>2, <1>7
      <3>2. c[l] \in Range(h) /\ l - p <= Position(h, c[l]) - Position(h, c[p])
        BY <1>2, <1>7, <2>2, <3>1 DEF EndsWith
      <3>3. Position(h, c[l]) \in 1..Len(h) /\ Position(h, c[p]) \in 1..Len(h)
        BY <1>5, <2>2, <3>2
      <3>4. l - p + 1 <= Len(h) + 1 - Position(h, c[p])
        BY <1>2, <3>1, <3>2, <3>3
      <3>5. PICK i \in Nat, n \in Nat : i = Position(h, c[p]) /\ n = Len(h) + 1
        BY <1>2, <3>3
      <3>6. d[q] = s /\ Position(g, s) = n /\ Position(g, d[p]) = i
        BY <1>2, <1>4, <1>5, <2>1, <2>2, <2>4, <3>5
      <3>7. q - p <= n - i
        BY <1>2, <2>4, <3>1, <3>4, <3>5
      <3>8. d[q] \in Range(g)
        BY <1>3, <3>6
      <3> QED BY ONLY <3>6, <3>7, <3>8
    <2> QED BY <1>2, <2>3, <2>4
  <1> QED BY <1>2, <1>6, <1>7

LEMMA EndsUsed ==
    ASSUME NEW S, NEW c \in Seq(S), IsInjective(c), NEW h \in Seq(S), IsInjective(h),
           EndsWith(c, h), NEW s \in S
    PROVE  EndsWith(Used(c, s), Used(h, s))
  <1>1. PICK w \in Seq(S), v \in Seq(S) : w = Without(c, s) /\ v = Without(h, s)
    BY WithoutProperties
  <1>2. /\ s \notin Range(w) /\ s \notin Range(v) /\ IsInjective(v)
        /\ EndsWith(w, v)
    BY <1>1, WithoutProperties, EndsWithout
  <1> QED BY <1>1, <1>2, EndsAppend DEF Used

\* A cache that loses its first elements, or one anywhere.
LEMMA EndsCut ==
    ASSUME NEW S, NEW c \in Seq(S), NEW h, EndsWith(c, h), NEW n \in Nat, n <= Len(c)
    PROVE  EndsWith(SubSeq(c, n + 1, Len(c)), h)
  <1>1. PICK d \in Seq(S) : d = SubSeq(c, n + 1, Len(c))
    BY CutFirst
  <1>2. Len(c) \in Nat /\ Len(c) - n \in Nat
    BY LenProperties
  <1>3. PICK k \in Nat : k = Len(c) - n
    BY <1>2
  <1>4. Len(d) = k /\ \A i \in 1..k : d[i] = c[n + i]
    BY <1>1, <1>3, CutFirst
  <1> SUFFICES ASSUME NEW p \in 1..k, NEW q \in 1..k, p <= q, d[p] \in Range(h)
               PROVE  /\ d[q] \in Range(h)
                      /\ q - p <= Position(h, d[q]) - Position(h, d[p])
    BY <1>1, <1>4 DEF EndsWith
  <1>5. PICK P \in 1..Len(c), Q \in 1..Len(c) : P = n + p /\ Q = n + q
    BY <1>2, <1>3
  <1>8. P <= Q /\ Q - P = q - p
    BY ONLY <1>5, n \in Nat, k \in Nat, p \in 1..k, q \in 1..k, p <= q
  <1>9. d[p] = c[P] /\ d[q] = c[Q]
    BY <1>4, <1>5
  <1>6. P <= Q /\ Q - P = q - p /\ d[p] = c[P] /\ d[q] = c[Q]
    BY <1>8, <1>9
  <1>7. c[Q] \in Range(h) /\ Q - P <= Position(h, c[Q]) - Position(h, c[P])
    BY <1>6 DEF EndsWith
  <1> QED BY <1>6, <1>7

LEMMA EndsLacking ==
    ASSUME NEW S, NEW c \in Seq(S), IsInjective(c), NEW h \in Seq(S), IsInjective(h),
           EndsWith(c, h), NEW s
    PROVE  EndsWith(Without(c, s), h)
  <1>1. CASE s \notin Range(c)
    BY <1>1 DEF Without
  <1>2. CASE s \in Range(c)
    <2>1. PICK n, w : n = Position(c, s) /\ w = Without(c, s)
      OBVIOUS
    <2>2. /\ Len(w) \in Nat /\ Len(c) = Len(w) + 1 /\ n \in 1..Len(w) + 1
          /\ \A i \in 1..Len(w) : (i < n => w[i] = c[i]) /\ (i >= n => w[i] = c[i + 1])
      BY <1>2, <2>1, WithoutElement DEF Lacks
    <2> SUFFICES ASSUME NEW p \in 1..Len(w), NEW q \in 1..Len(w), p <= q, w[p] \in Range(h)
                 PROVE  /\ w[q] \in Range(h)
                        /\ q - p <= Position(h, w[q]) - Position(h, w[p])
      BY <2>1 DEF EndsWith
    <2>3. PICK P \in 1..Len(c) : c[P] = w[p] /\ P = IF p < n THEN p ELSE p + 1
      BY <2>2
    <2>4. PICK Q \in 1..Len(c) : c[Q] = w[q] /\ Q = IF q < n THEN q ELSE q + 1
      BY <2>2
    <2>5. P <= Q /\ q - p <= Q - P
      BY <2>2, <2>3, <2>4
    <2>6. c[Q] \in Range(h) /\ Q - P <= Position(h, c[Q]) - Position(h, c[P])
      BY <2>3, <2>5 DEF EndsWith
    <2>7. Position(h, c[Q]) \in Nat /\ Position(h, c[P]) \in Nat
      BY <2>3, <2>6, PositionOf
    <2> QED BY <2>2, <2>3, <2>4, <2>5, <2>6, <2>7
  <1> QED BY <1>1, <1>2

-----------------------------------------------------------------------------
(* Statements and Recordsets                                               *)

LEMMA StatementUnits ==
    /\ NumParams \in Nat
    /\ UsecPerSec \in Nat \ {0} /\ UsecPerMin \in Nat \ {0}
    /\ UsecPerHour \in Nat \ {0} /\ UsecPerDay \in Nat \ {0}
  BY StatementAssumption

LEMMA NewStatementType == NewStatement \in Statements
  <1>1. Unbound \in Columns
    <2>1. <<0>> \in Seq(Int) \ {<<>>}
      OBVIOUS
    <2>2. [type |-> "decimal", null |-> FALSE, data |-> <<0>>]
            \in [type : Types \cup {"decimal"}, null : BOOLEAN, data : Seq(Int) \ {<<>>}]
      BY <2>1 DEF Types
    <2> QED BY <2>2 DEF Unbound, Column, Columns, TimeTypes
  <1>2. [i \in 1..NumParams |-> Unbound] \in [1..NumParams -> Columns]
    BY <1>1
  <1>3. <<>> \in Seq(Seq(Columns)) /\ <<>> \in Seq(Columns)
    BY EmptySeq
  <1> QED BY <1>2, <1>3, StatementUnits DEF NewStatement, Statements

\* The five parts of a MYSQL_TIME are integers.
LEMMA TimeOfType ==
    ASSUME NEW v \in Int
    PROVE  TimeOf(v) \in Seq(Int) /\ Len(TimeOf(v)) = 5
  <1>1. PICK usec \in Nat : usec = IF v < 0 THEN -v ELSE v
    OBVIOUS
  <1>2. /\ usec \div UsecPerHour \in Int /\ (usec % UsecPerHour) \div UsecPerMin \in Int
        /\ (usec % UsecPerMin) \div UsecPerSec \in Int /\ usec % UsecPerSec \in Int
    <2>1. \A n \in Int, d \in Nat \ {0} : n \div d \in Int /\ n % d \in Int
      OBVIOUS
    <2> QED BY <2>1, StatementUnits
  <1> QED BY <1>1, <1>2 DEF TimeOf

LEMMA DateTimeOfType ==
    ASSUME NEW v \in Int, NEW unit \in Nat \ {0}
    PROVE  DateTimeOf(v, unit) \in Seq(Int) /\ Len(DateTimeOf(v, unit)) = 5
  <1>1. PICK usec \in Int : usec = v * unit
    OBVIOUS
  <1>2. /\ usec \div UsecPerDay \in Int
        /\ (usec % UsecPerDay) \div UsecPerHour \in Int
        /\ (usec % UsecPerHour) \div UsecPerMin \in Int
        /\ (usec % UsecPerMin) \div UsecPerSec \in Int
        /\ (usec % UsecPerSec) \div unit \in Int
    <2>1. \A n \in Int, d \in Nat \ {0} : n \div d \in Int /\ n % d \in Int
      OBVIOUS
    <2> QED BY <2>1, StatementUnits
  <1> QED BY <1>1, <1>2 DEF DateTimeOf

LEMMA NullColumnType ==
    ASSUME NEW type \in Types \cup {"decimal"}
    PROVE  NullColumn(type) \in Columns
  <1>1. <<0>> \in Seq(Int) \ {<<>>}
    OBVIOUS
  <1>2. [type |-> type, null |-> TRUE, data |-> <<0>>]
          \in [type : Types \cup {"decimal"}, null : BOOLEAN, data : Seq(Int) \ {<<>>}]
    BY <1>1
  <1> QED BY <1>2 DEF NullColumn, Columns

LEMMA ColumnType ==
    ASSUME NEW type \in Types \cup {"decimal"}, NEW data \in Seq(Int), data # <<>>,
           type \in TimeTypes => Len(data) = 5
    PROVE  Column(type, data) \in Columns
  <1>1. [type |-> type, null |-> FALSE, data |-> data]
          \in [type : Types \cup {"decimal"}, null : BOOLEAN, data : Seq(Int) \ {<<>>}]
    OBVIOUS
  <1> QED BY <1>1 DEF Column, Columns

LEMMA BoundType ==
    ASSUME NEW value \in Values
    PROVE  Bound(value) \in Columns
  <1>1. value.type \in Types /\ value.v \in Int /\ value.unit \in Nat \ {0}
    BY DEF Values
  <1>2. PICK v \in Int : v = value.v
    BY <1>1
  <1>3. \A n \in Int : <<n>> \in Seq(Int) /\ <<n>> # <<>>
    OBVIOUS
  <1>4. CASE value.type = "null" \/ (value.type = "blob" /\ value.v = 0)
    <2>1. NullColumn("null") \in Columns
      BY NullColumnType DEF Types
    <2> QED BY <1>4, <2>1 DEF Bound
  <1>5. CASE value.type = "time"
    <2>1. Bound(value) = Column("time", TimeOf(v))
      BY <1>2, <1>5 DEF Bound
    <2>2. TimeOf(v) \in Seq(Int) /\ Len(TimeOf(v)) = 5
      BY TimeOfType
    <2>3. TimeOf(v) # <<>>
      BY <2>2
    <2> QED BY <2>1, <2>2, <2>3, ColumnType DEF Types, TimeTypes
  <1>6. CASE value.type = "datetime"
    <2>1. Bound(value) = Column("datetime", DateTimeOf(v, value.unit))
      BY <1>2, <1>6 DEF Bound
    <2>2. DateTimeOf(v, value.unit) \in Seq(Int) /\ Len(DateTimeOf(v, value.unit)) = 5
      BY <1>1, DateTimeOfType
    <2>3. DateTimeOf(v, value.unit) # <<>>
      BY <2>2
    <2> QED BY <2>1, <2>2, <2>3, ColumnType DEF Types, TimeTypes
  <1>7. CASE value.type = "date"
    <2>1. Bound(value) = Column("date", <<v, 0, 0, 0, 0>>)
      BY <1>2, <1>7 DEF Bound
    <2>2. <<v, 0, 0, 0, 0>> \in Seq(Int) /\ Len(<<v, 0, 0, 0, 0>>) = 5
      OBVIOUS
    <2> QED BY <2>1, <2>2, ColumnType DEF Types, TimeTypes
  <1>8. CASE value.type = "blob" /\ value.v # 0
    <2>1. Bound(value) = Column("blob", <<v>>)
      BY <1>2, <1>8 DEF Bound
    <2> QED BY <1>3, <2>1, ColumnType DEF Types, TimeTypes
  <1>9. CASE value.type \in {"num", "string"}
    <2>1. Bound(value) = Column(value.type, <<v>>)
      BY <1>2, <1>9 DEF Bound
    <2> QED BY <1>3, <1>9, <2>1, ColumnType DEF Types, TimeTypes
  <1> QED BY <1>1, <1>4, <1>5, <1>6, <1>7, <1>8, <1>9 DEF Types, TimeTypes

\* Statements, as records.
LEMMA StatementParts ==
    ASSUME NEW st \in Statements
    PROVE  /\ st.bind \in [1..NumParams -> Columns] /\ st.paramIndex \in 0..NumParams
           /\ st.rows \in Seq(Seq(Columns)) /\ st.row \in Seq(Columns)
           /\ st.resultIndex \in Nat
           /\ st = [bind |-> st.bind, paramIndex |-> st.paramIndex, rows |-> st.rows,
                    row |-> st.row, resultIndex |-> st.resultIndex]
  BY DEF Statements

LEMMA bindType ==
    ASSUME NEW st \in Statements, NEW value \in Values
    PROVE  bind(st, value) \in Statements
  <1>1. CASE ~(st.paramIndex < NumParams)
    BY <1>1 DEF bind
  <1>2. CASE st.paramIndex < NumParams
    <2>1. st.paramIndex + 1 \in 1..NumParams
      BY <1>2, StatementParts, StatementUnits
    <2>2. PICK b \in [1..NumParams -> Columns] :
            b = [st.bind EXCEPT ![st.paramIndex + 1] = Bound(value)]
      BY BoundType, StatementParts
    <2>3. PICK t \in Statements : t = [st EXCEPT !.paramIndex = st.paramIndex + 1]
      <3>1. st.paramIndex + 1 \in 0..NumParams
        BY <2>1, StatementUnits
      <3> QED BY <3>1 DEF Statements
    <2>4. bind(st, value) = [t EXCEPT !.bind = b]
      BY <1>2, <2>2, <2>3 DEF bind, Statements
    <2> QED BY <2>4 DEF Statements
  <1> QED BY <1>1, <1>2

LEMMA clearType ==
    ASSUME NEW st \in Statements
    PROVE  clear(st) \in Statements
  <1>1. NewStatement.bind \in [1..NumParams -> Columns]
    BY NewStatementType, StatementParts
  <1>2. <<>> \in Seq(Columns) /\ 0 \in 0..NumParams
    BY EmptySeq, StatementUnits
  <1> QED BY <1>1, <1>2 DEF clear, Statements

LEMMA executeType ==
    ASSUME NEW st \in Statements, NEW rows \in Seq(Seq(Columns))
    PROVE  execute(st, rows) \in Statements
  BY DEF execute, Statements

LEMMA nextRowType ==
    ASSUME NEW st \in Statements, st.rows # <<>>
    PROVE  nextRow(st) \in Statements
  <1>1. Head(st.rows) \in Seq(Columns) /\ Tail(st.rows) \in Seq(Seq(Columns))
    BY StatementParts, HeadTailProperties, EmptySeq
  <1> QED BY <1>1 DEF nextRow, Statements

LEMMA AfterReadType ==
    ASSUME NEW st \in Statements
    PROVE  AfterRead(st) \in Statements /\ skipFields(st, 1) \in Statements
  <1>1. PICK n \in Nat : n = st.resultIndex + 1
    BY StatementParts
  <1>2. [st EXCEPT !.resultIndex = n] \in Statements
    BY DEF Statements
  <1>3. [st EXCEPT !.resultIndex = @ + 1] = [st EXCEPT !.resultIndex = n]
    BY <1>1
  <1> QED BY <1>2, <1>3 DEF AfterRead, skipFields

\* A column that is not NULL has a first part, and a time has five.
LEMMA ColumnParts ==
    ASSUME NEW c \in Columns
    PROVE  /\ c.null \in BOOLEAN /\ c.data \in Seq(Int) /\ Len(c.data) \in Nat
           /\ c.data[1] \in Int
           /\ c.type \in TimeTypes /\ ~c.null => \A i \in 1..5 : c.data[i] \in Int
  <1>1. /\ c.null \in BOOLEAN /\ c.data \in Seq(Int) /\ c.data # <<>>
        /\ c.type \in TimeTypes /\ ~c.null => Len(c.data) = 5
    BY DEF Columns
  <1>2. PICK d \in Seq(Int) : d = c.data
    BY <1>1
  <1>3. Len(d) \in Nat /\ Len(d) # 0 /\ \A i \in 1..Len(d) : d[i] \in Int
    BY <1>1, <1>2, EmptySeq, ElementOfSeq, LenProperties
  <1>4. d[1] \in Int
    BY <1>3
  <1>5. Len(d) = 5 => \A i \in 1..5 : d[i] \in Int
    BY <1>3
  <1> QED BY <1>1, <1>2, <1>3, <1>4, <1>5

LEMMA GivesType ==
    /\ Keeps \in Results
    /\ \A v \in Int : Gives(v) \in Results /\ Adds(v) \in Results
  BY DEF Keeps, Gives, Adds, Results

LEMMA TimeFromType ==
    ASSUME NEW t, \A i \in 1..5 : t[i] \in Int, NEW unit \in Nat \ {0}
    PROVE  TimeFrom(t) \in Int /\ DateTimeFrom(t, unit) \in Int
  <1>1. t[1] \in Int /\ t[2] \in Int /\ t[3] \in Int /\ t[4] \in Int /\ t[5] \in Int
    OBVIOUS
  <1>2. PICK a \in Int, b \in Int, c \in Int, d \in Int :
          /\ a = t[1] * UsecPerDay /\ b = t[2] * UsecPerHour
          /\ c = t[3] * UsecPerMin /\ d = t[4] * UsecPerSec
    <2>1. \A x \in Int, y \in Nat : x * y \in Int
      OBVIOUS
    <2>2. /\ t[1] * UsecPerDay \in Int /\ t[2] * UsecPerHour \in Int
          /\ t[3] * UsecPerMin \in Int /\ t[4] * UsecPerSec \in Int
      BY <1>1, <2>1, StatementUnits
    <2> QED BY <2>2
  <1>3. PICK n \in Int, m \in Int : n = b + c + d + t[5] /\ m = a + b + c + d + t[5]
    BY <1>1
  <1>4. TimeFrom(t) = n /\ DateTimeFrom(t, unit) = m \div unit
    BY <1>2, <1>3 DEF TimeFrom, DateTimeFrom
  <1> QED BY <1>4

LEMMA FromColumnType ==
    ASSUME NEW c \in Columns, NEW value \in Values, value.type # "null"
    PROVE  FromColumn(c, value) \in Results
  <1>1. value.type \in Types \ {"null"} /\ value.unit \in Nat \ {0}
    BY DEF Values
  <1>2. c.null \in BOOLEAN /\ c.data[1] \in Int /\ Gives(c.data[1]) \in Results
    BY ColumnParts, GivesType
  <1>3. Keeps \in Results /\ Gives(0) \in Results
    BY GivesType
  <1>4. CASE value.type = "num"
    BY <1>2, <1>3, <1>4 DEF FromColumn
  <1>5. CASE value.type = "string"
    BY <1>2, <1>3, <1>5 DEF FromColumn
  <1>6. CASE value.type = "blob"
    BY <1>2, <1>3, <1>6 DEF FromColumn
  <1>7. CASE value.type = "time"
    <2>1. c.type = "time" /\ ~c.null => Gives(TimeFrom(c.data)) \in Results
      BY <1>1, ColumnParts, TimeFromType, GivesType DEF TimeTypes
    <2> QED BY <1>2, <1>3, <1>7, <2>1 DEF FromColumn
  <1>8. CASE value.type \in {"date", "datetime"}
    <2>1. c.type \in {"date", "datetime"} /\ ~c.null
            => Gives(DateTimeFrom(c.data, value.unit)) \in Results
      BY <1>1, ColumnParts, TimeFromType, GivesType DEF TimeTypes
    <2> QED BY <1>2, <1>3, <1>8, <2>1 DEF FromColumn
  <1> QED BY <1>1, <1>4, <1>5, <1>6, <1>7, <1>8 DEF Types, TimeTypes

LEMMA ReadType ==
    ASSUME NEW st \in Statements, NEW value \in Values, value.type # "null"
    PROVE  Read(st, value) \in Results
  <1>1. CASE st.resultIndex < Len(st.row)
    <2>0. PICK row \in Seq(Columns) : row = st.row
      BY StatementParts
    <2>1. PICK i \in 1..Len(row) : i = st.resultIndex + 1
      BY <1>1, <2>0, StatementParts, LenProperties
    <2>2. row[i] \in Columns
      BY <2>1, ElementOfSeq
    <2>3. Read(st, value) = FromColumn(row[i], value)
      BY <1>1, <2>0, <2>1 DEF Read
    <2> QED BY <2>2, <2>3, FromColumnType
  <1>2. CASE ~(st.resultIndex < Len(st.row))
    BY <1>2, GivesType DEF Read
  <1> QED BY <1>1, <1>2

LEMMA ReadBehindType ==
    ASSUME NEW st \in Statements
    PROVE  ReadBehind(st) \in Results
  <1>1. CASE st.resultIndex < Len(st.row) /\ ~st.row[st.resultIndex + 1].null
    <2>1. PICK row \in Seq(Columns) : row = st.row
      BY StatementParts
    <2>2. PICK i \in 1..Len(row) : i = st.resultIndex + 1
      BY <1>1, <2>1, StatementParts, LenProperties
    <2>3. row[i].data[1] \in Int
      BY <2>2, ElementOfSeq, ColumnParts
    <2>4. ReadBehind(st) = Adds(row[i].data[1])
      BY <1>1, <2>1, <2>2 DEF ReadBehind
    <2> QED BY <2>3, <2>4, GivesType
  <1>2. CASE ~(st.resultIndex < Len(st.row) /\ ~st.row[st.resultIndex + 1].null)
    BY <1>2, GivesType DEF ReadBehind
  <1> QED BY <1>1, <1>2

\* The rows that MySQL may return are rows.
LEMMA RowsOfType ==
    ASSUME NEW columns \in Seq(Columns), NEW rows \in RowsOf(columns)
    PROVE  rows \in Seq(Seq(Columns))
  <1>1. PICK nulls : nulls = [i \in DOMAIN columns |-> NullColumn(columns[i].type)]
    OBVIOUS
  <1>2. DOMAIN columns = 1..Len(columns) /\ Len(columns) \in Nat
    BY LenProperties
  <1>3. \A i \in 1..Len(columns) : NullColumn(columns[i].type) \in Columns
    <2> TAKE i \in 1..Len(columns)
    <2>1. columns[i] \in Columns
      BY ElementOfSeq
    <2>2. columns[i].type \in Types \cup {"decimal"}
      BY <2>1 DEF Columns
    <2> QED BY <2>2, NullColumnType
  <1>4. nulls \in Seq(Columns)
    <2>1. nulls \in [1..Len(columns) -> Columns]
      BY <1>1, <1>2, <1>3
    <2> QED BY <1>2, <2>1
  <1>5. PICK m \in 0..MaxRows : rows \in [1..m -> {columns, nulls}]
    BY <1>1 DEF RowsOf, BoundedSeq, SeqOf
  <1>6. m \in Nat
    BY <1>5, DatabaseAssumption
  <1>7. rows \in [1..m -> Seq(Columns)]
    BY <1>4, <1>5
  <1> QED BY <1>6, <1>7

LEMMA BindSeq ==
    ASSUME NEW st \in Statements
    PROVE  st.bind \in Seq(Columns)
  <1>0. PICK n \in Nat : n = NumParams
    BY StatementUnits
  <1>1. PICK f : f = st.bind
    OBVIOUS
  <1>2. f \in [1..n -> Columns]
    BY <1>0, <1>1, StatementParts
  <1>3. f \in Seq(Columns)
    BY ONLY <1>2, n \in Nat
  <1> QED BY <1>1, <1>3

-----------------------------------------------------------------------------
(* The type invariant                                                      *)

LEMMA NoUseType == NoUse \in Usages
  <1>1. <<>> \in Seq(Values) /\ <<>> \in Seq(Readings)
    BY EmptySeq
  <1> QED BY <1>1 DEF NoUse, Usages

\* What the type invariant says of the cache, and of the rest.
CacheTypeOK ==
    /\ stmtCache \in Seq(SQLs) /\ IsInjective(stmtCache)
    /\ ofThis \subseteq Range(stmtCache) /\ stale \subseteq Range(stmtCache)
    /\ stmt \in [SQLs -> Statements] /\ use \in [SQLs -> Usages]
    /\ \A s \in SQLs \ Range(stmtCache) : stmt[s] = NewStatement /\ use[s] = NoUse

HeldTypeOK ==
    held \in Seq(SQLs) /\ IsInjective(held) /\ freed \subseteq Range(held)

ConnectionTypeOK ==
    load \in Loads /\ mysql \in {"null", "open", "broken"} /\ changed \in BOOLEAN

ResultTypeOK ==
    /\ pending \in 0..MaxResultSets /\ lastRecords \in Ages
    /\ record \in Recordsets /\ fields \in Seq(Readings)

LEMMA TypeParts ==
    /\ DatabaseTypeOK <=> CacheTypeOK /\ HeldTypeOK /\ ConnectionTypeOK /\ ResultTypeOK
    /\ DatabaseTypeOK' <=> CacheTypeOK' /\ HeldTypeOK' /\ ConnectionTypeOK' /\ ResultTypeOK'
  BY DEF DatabaseTypeOK, CacheTypeOK, HeldTypeOK, ConnectionTypeOK, ResultTypeOK

LEMMA NoStatements == <<>> \in Seq(SQLs) /\ IsInjective(<<>>) /\ Range(<<>>) = {}
  BY EmptySeq DEF IsInjective, Range

LEMMA DatabaseTypeInit == DatabaseInit => DatabaseTypeOK
  <1> SUFFICES ASSUME DatabaseInit PROVE DatabaseTypeOK
    OBVIOUS
  <1>1. CacheTypeOK
    BY NoStatements, NewStatementType, NoUseType DEF DatabaseInit, CacheTypeOK
  <1>2. HeldTypeOK
    BY NoStatements DEF DatabaseInit, HeldTypeOK
  <1>3. ConnectionTypeOK
    BY DEF DatabaseInit, ConnectionTypeOK
  <1>4. ResultTypeOK
    <2>1. 0 \in 0..MaxResultSets
      BY DatabaseAssumption
    <2>2. NewRecordset(<<>>) \in Recordsets /\ <<>> \in Seq(Readings)
      BY EmptySeq DEF NewRecordset, Recordsets
    <2> QED BY <2>1, <2>2 DEF DatabaseInit, ResultTypeOK, Ages
  <1> QED BY <1>1, <1>2, <1>3, <1>4, TypeParts

LEMMA OnlyCachedType ==
    ASSUME CacheTypeOK, OnlyCached, stmtCache' \in Seq(SQLs), IsInjective(stmtCache')
    PROVE  CacheTypeOK'
  <1>1. stmt' \in [SQLs -> Statements] /\ use' \in [SQLs -> Usages]
    BY NewStatementType, NoUseType DEF CacheTypeOK, OnlyCached
  <1> QED BY <1>1 DEF CacheTypeOK, OnlyCached

LEMMA CloseType ==
    ASSUME DatabaseTypeOK, NEW next \in {"null", "open", "broken"}, Close(next)
    PROVE  DatabaseTypeOK'
  <1>1. CacheTypeOK'
    BY OnlyCachedType, NoStatements, TypeParts DEF Close
  <1>2. HeldTypeOK'
    BY NoStatements DEF Close, HeldTypeOK
  <1>3. ConnectionTypeOK'
    BY TypeParts DEF Close, ConnectionTypeOK
  <1>4. ResultTypeOK'
    <2>1. 0 \in 0..MaxResultSets
      BY DatabaseAssumption
    <2> QED BY <2>1, TypeParts DEF Close, ResultTypeOK, records
  <1> QED BY <1>1, <1>2, <1>3, <1>4, TypeParts

LEMMA ConnectionLostType ==
    ASSUME DatabaseTypeOK, ConnectionLost
    PROVE  DatabaseTypeOK'
  <1>1. 0 \in 0..MaxResultSets
    BY DatabaseAssumption
  <1> QED BY <1>1 DEF ConnectionLost, DatabaseTypeOK, cache, requests, statements, records

LEMMA ChangeDatabaseType ==
    ASSUME DatabaseTypeOK, ChangeDatabase
    PROVE  DatabaseTypeOK'
  BY DEF ChangeDatabase, DatabaseTypeOK, requests, statements, results, records

LEMMA NextRequestType ==
    ASSUME DatabaseTypeOK, NextRequest
    PROVE  DatabaseTypeOK'
  <1>1. CacheTypeOK'
    BY NoUseType, TypeParts DEF NextRequest, CacheTypeOK, cache
  <1>2. HeldTypeOK'
    BY NoStatements DEF NextRequest, HeldTypeOK
  <1>3. ConnectionTypeOK'
    BY TypeParts DEF NextRequest, ConnectionTypeOK
  <1>4. ResultTypeOK'
    <2>1. NewRecordset(<<>>) \in Recordsets /\ <<>> \in Seq(Readings)
      BY EmptySeq DEF NewRecordset, Recordsets
    <2> QED BY <2>1, TypeParts DEF NextRequest, ResultTypeOK, results
  <1> QED BY <1>1, <1>2, <1>3, <1>4, TypeParts

LEMMA ClearCacheType ==
    ASSUME DatabaseTypeOK, ClearCache
    PROVE  DatabaseTypeOK'
  <1>1. CacheTypeOK'
    BY OnlyCachedType, NoStatements, TypeParts DEF ClearCache
  <1>2. HeldTypeOK'
    BY NoStatements DEF ClearCache, HeldTypeOK
  <1>3. ConnectionTypeOK' /\ ResultTypeOK'
    BY TypeParts DEF ClearCache, ConnectionTypeOK, ResultTypeOK, results, records
  <1> QED BY <1>1, <1>2, <1>3, TypeParts

\* clear() leaves a cached statement.
LEMMA ClearedType ==
    ASSUME CacheTypeOK, NEW s \in Range(stmtCache), Cleared(s),
           stmtCache' \in Seq(SQLs), IsInjective(stmtCache'),
           Range(stmtCache') = Range(stmtCache), ofThis' = ofThis
    PROVE  CacheTypeOK'
  <1>1. s \in SQLs /\ clear(stmt[s]) \in Statements
    <2>1. s \in SQLs
      BY ElementOfSeq, LenProperties DEF CacheTypeOK, Range
    <2> QED BY <2>1, clearType DEF CacheTypeOK
  <1> QED BY <1>1, NoUseType DEF CacheTypeOK, Cleared

LEMMA PrepareHitType ==
    ASSUME DatabaseTypeOK, NEW s \in SQLs, PrepareHit(s)
    PROVE  DatabaseTypeOK'
  <1>1. CacheTypeOK'
    <2>1. /\ stmtCache' \in Seq(SQLs) /\ IsInjective(stmtCache')
          /\ Range(stmtCache') = Range(stmtCache) \cup {s}
      BY UsedProperties DEF PrepareHit, DatabaseTypeOK
    <2>2. s \in Range(stmtCache)
      BY DEF PrepareHit
    <2>3. Range(stmtCache') = Range(stmtCache)
      BY <2>1, <2>2
    <2> QED BY <2>1, <2>2, <2>3, ClearedType, TypeParts DEF PrepareHit
  <1>2. HeldTypeOK'
    <2>1. /\ held' \in Seq(SQLs) /\ IsInjective(held')
          /\ Range(held') = Range(held) \cup {s}
      BY UsedProperties DEF PrepareHit, DatabaseTypeOK
    <2> QED BY <2>1, TypeParts DEF PrepareHit, HeldTypeOK
  <1>3. ConnectionTypeOK' /\ ResultTypeOK'
    BY TypeParts DEF PrepareHit, ConnectionTypeOK, ResultTypeOK, results, records
  <1> QED BY <1>1, <1>2, <1>3, TypeParts

\* What is evicted is at the front of the cache.
LEMMA EvictedProperties ==
    ASSUME DatabaseTypeOK, NEW n, n = IF Len(stmtCache) < maxStmtCache THEN 0
                                      ELSE maxStmtCache \div 2
    PROVE  /\ n \in Nat /\ n <= Len(stmtCache) /\ maxStmtCache \in Nat
           /\ Evicted(stmtCache) \in Seq(SQLs)
           /\ Evicted(stmtCache) = SubSeq(stmtCache, n + 1, Len(stmtCache))
           /\ Len(Evicted(stmtCache)) = Len(stmtCache) - n
           /\ \A i \in 1..(Len(stmtCache) - n) : Evicted(stmtCache)[i] = stmtCache[n + i]
           /\ IsInjective(Evicted(stmtCache))
           /\ Range(Evicted(stmtCache)) \subseteq Range(stmtCache)
  <1>1. maxStmtCache \in Nat /\ Len(stmtCache) \in Nat /\ stmtCache \in Seq(SQLs)
    BY DatabaseAssumption, LenProperties DEF DatabaseTypeOK, maxStmtCache
  <1>2. n \in Nat /\ n <= Len(stmtCache)
    <2>1. \A k \in Nat : k \div 2 \in Nat /\ k \div 2 <= k
      OBVIOUS
    <2> QED BY <1>1, <2>1
  <1>3. Evicted(stmtCache) = SubSeq(stmtCache, n + 1, Len(stmtCache))
    <2>1. stmtCache = SubSeq(stmtCache, 1, Len(stmtCache))
      BY <1>1, SubSeqFull
    <2> QED BY <1>1, <2>1 DEF Evicted
  <1>4. PICK e \in Seq(SQLs) : e = Evicted(stmtCache)
    BY <1>1, <1>2, <1>3, CutFirst
  <1>9. Len(stmtCache) - n \in Nat
    BY ONLY <1>1, <1>2
  <1>10. PICK l \in Nat : l = Len(stmtCache) - n
    BY ONLY <1>9
  <1>5. Len(e) = l /\ \A i \in 1..l : e[i] = stmtCache[n + i]
    <2>1. PICK c \in Seq(SQLs) : c = stmtCache
      BY <1>1
    <2>2. n \in Nat /\ n <= Len(c) /\ e = SubSeq(c, n + 1, Len(c)) /\ l = Len(c) - n
      BY ONLY <1>2, <1>3, <1>4, <1>10, <2>1
    <2>3. Len(e) = l /\ \A i \in 1..l : e[i] = c[n + i]
      BY ONLY <2>2, CutFirst
    <2> QED BY <2>1, <2>3
  <1>6. DOMAIN e = 1..l /\ DOMAIN stmtCache = 1..n + l
    BY <1>1, <1>2, <1>4, <1>5, <1>10, LenProperties
  <1>7. \A i \in 1..l : n + i \in 1..n + l
    BY <1>2
  <1>8. IsInjective(e)
    <2>1. \A i, j \in 1..n + l : stmtCache[i] = stmtCache[j] => i = j
      BY <1>6 DEF IsInjective, DatabaseTypeOK
    <2>2. \A i, j \in 1..l : n + i = n + j => i = j
      BY <1>2
    <2> QED BY <1>5, <1>6, <1>7, <2>1, <2>2 DEF IsInjective
  <1>11. Range(e) \subseteq Range(stmtCache)
    BY <1>5, <1>6, <1>7 DEF Range
  <1> QED BY <1>1, <1>2, <1>3, <1>4, <1>5, <1>8, <1>10, <1>11

LEMMA PrepareMissType ==
    ASSUME DatabaseTypeOK, NEW s \in SQLs, PrepareMiss(s)
    PROVE  DatabaseTypeOK'
  <1>1. PICK e : e = Evicted(stmtCache)
    OBVIOUS
  <1>2. /\ e \in Seq(SQLs) /\ IsInjective(e) /\ Range(e) \subseteq Range(stmtCache)
    BY <1>1, EvictedProperties
  <1>3. /\ stmtCache' \in Seq(SQLs) /\ IsInjective(stmtCache')
        /\ Range(stmtCache') = Range(e) \cup {s}
    BY <1>1, <1>2, AppendFresh DEF PrepareMiss
  <1>4. CacheTypeOK'
    <2>1. stmt' \in [SQLs -> Statements] /\ use' \in [SQLs -> Usages]
      BY NewStatementType, NoUseType DEF PrepareMiss, DatabaseTypeOK
    <2>2. ofThis' \subseteq Range(stmtCache') /\ stale' \subseteq Range(stmtCache')
      BY <1>1, <1>3 DEF PrepareMiss
    <2>3. \A t \in SQLs \ Range(stmtCache') : stmt'[t] = NewStatement /\ use'[t] = NoUse
      BY DEF PrepareMiss
    <2> QED BY <1>3, <2>1, <2>2, <2>3 DEF CacheTypeOK
  <1>5. HeldTypeOK'
    <2>1. /\ held' \in Seq(SQLs) /\ IsInjective(held')
          /\ Range(held') = Range(held) \cup {s}
      BY UsedProperties DEF PrepareMiss, DatabaseTypeOK
    <2> QED BY <2>1, TypeParts DEF PrepareMiss, HeldTypeOK
  <1>6. ConnectionTypeOK' /\ ResultTypeOK'
    BY TypeParts DEF PrepareMiss, ConnectionTypeOK, ResultTypeOK, results, records
  <1> QED BY <1>4, <1>5, <1>6, TypeParts

LEMMA FreeStatementType ==
    ASSUME DatabaseTypeOK, NEW s \in SQLs, FreeStatement(s)
    PROVE  DatabaseTypeOK'
  <1>1. CacheTypeOK'
    <2>1. stmtCache' \in Seq(SQLs) /\ IsInjective(stmtCache')
      BY WithoutProperties DEF FreeStatement, DatabaseTypeOK
    <2> QED BY <2>1, OnlyCachedType, TypeParts DEF FreeStatement
  <1>2. HeldTypeOK'
    BY TypeParts DEF FreeStatement, HeldTypeOK
  <1>3. ConnectionTypeOK' /\ ResultTypeOK'
    BY TypeParts DEF FreeStatement, ConnectionTypeOK, ResultTypeOK, results, records
  <1> QED BY <1>1, <1>2, <1>3, TypeParts

LEMMA ClearStatementType ==
    ASSUME DatabaseTypeOK, NEW s \in SQLs, ClearStatement(s)
    PROVE  DatabaseTypeOK'
  <1>1. CacheTypeOK'
    BY ClearedType, TypeParts DEF ClearStatement, Usable, cache, CacheTypeOK
  <1>2. HeldTypeOK'
    BY TypeParts DEF ClearStatement, HeldTypeOK, requests
  <1>3. ConnectionTypeOK' /\ ResultTypeOK'
    BY TypeParts DEF ClearStatement, ConnectionTypeOK, ResultTypeOK, results, records
  <1> QED BY <1>1, <1>2, <1>3, TypeParts

\* What a request does with a statement leaves a statement, and a usage.
LEMMA UsesType ==
    ASSUME DatabaseTypeOK, NEW s \in SQLs, NEW st \in Statements, NEW d \in Usages,
           Uses(s, st, d)
    PROVE  DatabaseTypeOK'
  <1>1. CacheTypeOK'
    <2>1. s \in Range(stmtCache)
      BY DEF Uses, Usable
    <2> QED BY <2>1, TypeParts DEF Uses, CacheTypeOK, cache
  <1>2. HeldTypeOK'
    BY TypeParts DEF Uses, HeldTypeOK, requests
  <1>3. ConnectionTypeOK' /\ ResultTypeOK'
    BY TypeParts DEF Uses, ConnectionTypeOK, ResultTypeOK, results, records
  <1> QED BY <1>1, <1>2, <1>3, TypeParts

LEMMA UsageParts ==
    ASSUME NEW d \in Usages
    PROVE  /\ d.asked \in Seq(Values) /\ d.stage \in {"prepared", "executed", "fetched"}
           /\ d.ran \in Seq(Values) /\ d.got \in Seq(Readings)
  BY DEF Usages

LEMMA BindUses ==
    ASSUME DatabaseTypeOK, NEW s \in SQLs, NEW value \in Values
    PROVE  /\ bind(stmt[s], value) \in Statements
           /\ [use[s] EXCEPT !.asked = Append(use[s].asked, value)] \in Usages
  <1>1. stmt[s] \in Statements /\ use[s] \in Usages
    BY DEF DatabaseTypeOK
  <1>2. Append(use[s].asked, value) \in Seq(Values)
    BY <1>1, UsageParts, AppendProperties
  <1> QED BY <1>1, <1>2, bindType DEF Usages

LEMMA BindType ==
    ASSUME DatabaseTypeOK, NEW s \in SQLs, NEW value \in load.values, Bind(s, value)
    PROVE  DatabaseTypeOK'
  <1>1. value \in Values
    BY DatabaseAssumption DEF DatabaseTypeOK
  <1>2. PICK st \in Statements : st = bind(stmt[s], value)
    BY <1>1, BindUses
  <1>3. PICK d \in Usages : d = [use[s] EXCEPT !.asked = Append(use[s].asked, value)]
    BY <1>1, BindUses
  <1>4. use[s] \in Usages
    BY DEF DatabaseTypeOK
  <1>5. Uses(s, st, d) \/ Uses(s, st, use[s])
    BY <1>2, <1>3 DEF Bind
  <1> QED BY <1>4, <1>5, UsesType

LEMMA ExecuteType ==
    ASSUME DatabaseTypeOK, NEW s \in SQLs, Execute(s)
    PROVE  DatabaseTypeOK'
  <1>1. stmt[s] \in Statements /\ use[s] \in Usages
    BY DEF DatabaseTypeOK
  <1>2. PICK d \in Usages :
          d = [use[s] EXCEPT !.stage = "executed", !.ran = use[s].asked, !.got = <<>>]
    BY <1>1, UsageParts, EmptySeq DEF Usages
  <1>3. PICK rows \in RowsOf(stmt[s].bind) : Uses(s, execute(stmt[s], rows), d)
    BY <1>2 DEF Execute
  <1>4. PICK st \in Statements : st = execute(stmt[s], rows)
    BY <1>1, <1>3, BindSeq, RowsOfType, executeType
  <1> QED BY <1>3, <1>4, UsesType

LEMMA ExecuteFailsType ==
    ASSUME DatabaseTypeOK, NEW s \in SQLs, ExecuteFails(s)
    PROVE  DatabaseTypeOK'
  <1>1. stmt[s] \in Statements /\ use[s] \in Usages
    BY DEF DatabaseTypeOK
  <1>2. PICK d \in Usages : d = [use[s] EXCEPT !.stage = "prepared", !.got = <<>>]
    BY <1>1, EmptySeq DEF Usages
  <1>3. PICK st \in Statements : st = execute(stmt[s], <<>>)
    BY <1>1, executeType, EmptySeq
  <1>4. Uses(s, st, d)
    BY <1>2, <1>3 DEF ExecuteFails
  <1> QED BY <1>4, UsesType

LEMMA NextRowType ==
    ASSUME DatabaseTypeOK, NEW s \in SQLs, NextRow(s)
    PROVE  DatabaseTypeOK'
  <1>1. stmt[s] \in Statements /\ use[s] \in Usages
    BY DEF DatabaseTypeOK
  <1>2. PICK d \in Usages : d = [use[s] EXCEPT !.stage = "fetched", !.got = <<>>]
    BY <1>1, EmptySeq DEF Usages
  <1>3. PICK st \in Statements : st = nextRow(stmt[s])
    BY <1>1, nextRowType DEF NextRow
  <1>4. Uses(s, st, d)
    BY <1>2, <1>3 DEF NextRow
  <1> QED BY <1>4, UsesType

\* What an application asks for is a value, and what it gets a reading.
LEMMA AskedType ==
    ASSUME DatabaseTypeOK, NEW value \in load.values \cup {Value("num", 0, 1)}
    PROVE  value \in Values
  <1>1. CASE value \in load.values
    BY <1>1, DatabaseAssumption DEF DatabaseTypeOK
  <1>2. CASE value = Value("num", 0, 1)
    <2>1. Value("num", 0, 1) \in [type : Types, v : Int, unit : Nat \ {0}]
      BY DEF Value, Types
    <2>2. Value("num", 0, 1).type = "num"
      BY DEF Value
    <2> QED BY <1>2, <2>1, <2>2 DEF Values
  <1> QED BY <1>1, <1>2

LEMMA GotType ==
    ASSUME NEW value, value \in Values \/ value \in {Value("none", 0, 1), Value("bytes", 0, 1)}
                      \/ \E type \in {"num", "string", "blob"} : value = Value(type, 0, 1),
           NEW result \in Results
    PROVE  Got(value, result) \in Readings
  <1>1. value \in [type : Types \cup {"none", "bytes"}, v : Int, unit : Nat \ {0}]
    BY DEF Values, Value, Types
  <1> QED BY <1>1 DEF Got, Readings

LEMMA ReadColumnType ==
    ASSUME DatabaseTypeOK, NEW s \in SQLs,
           NEW value \in load.values \cup {Value("num", 0, 1)}, ReadColumn(s, value)
    PROVE  DatabaseTypeOK'
  <1>1. stmt[s] \in Statements /\ use[s] \in Usages
    BY DEF DatabaseTypeOK
  <1>2. value \in Values /\ value.type # "null"
    BY AskedType DEF ReadColumn
  <1>3. PICK g \in Readings : g = Got(value, Read(stmt[s], value))
    BY <1>1, <1>2, GotType, ReadType
  <1>4. Append(use[s].got, g) \in Seq(Readings)
    BY <1>1, UsageParts, AppendProperties
  <1>5. PICK d \in Usages : d = [use[s] EXCEPT !.got = Append(@, g)]
    BY <1>1, <1>4 DEF Usages
  <1>6. PICK st \in Statements : st = AfterRead(stmt[s])
    BY <1>1, AfterReadType
  <1>7. Uses(s, st, d)
    BY <1>3, <1>5, <1>6 DEF ReadColumn
  <1> QED BY <1>7, UsesType

LEMMA ReadAppendingType ==
    ASSUME DatabaseTypeOK, NEW s \in SQLs, ReadAppending(s)
    PROVE  DatabaseTypeOK'
  <1>1. stmt[s] \in Statements /\ use[s] \in Usages
    BY DEF DatabaseTypeOK
  <1>2. PICK g \in Readings : g = Got(Value("bytes", 0, 1), ReadBehind(stmt[s]))
    BY <1>1, GotType, ReadBehindType
  <1>3. Append(use[s].got, g) \in Seq(Readings)
    BY <1>1, UsageParts, AppendProperties
  <1>4. PICK d \in Usages : d = [use[s] EXCEPT !.got = Append(@, g)]
    BY <1>1, <1>3 DEF Usages
  <1>5. PICK st \in Statements : st = AfterRead(stmt[s])
    BY <1>1, AfterReadType
  <1>6. Uses(s, st, d)
    BY <1>2, <1>4, <1>5 DEF ReadAppending
  <1> QED BY <1>6, UsesType

LEMMA SkipColumnType ==
    ASSUME DatabaseTypeOK, NEW s \in SQLs, SkipColumn(s)
    PROVE  DatabaseTypeOK'
  <1>1. stmt[s] \in Statements /\ use[s] \in Usages
    BY DEF DatabaseTypeOK
  <1>3. PICK g \in Readings : g = Got(Value("none", 0, 1), Keeps)
    BY GotType, GivesType
  <1>4. Append(use[s].got, g) \in Seq(Readings)
    BY <1>1, UsageParts, AppendProperties
  <1>5. PICK d \in Usages : d = [use[s] EXCEPT !.got = Append(@, g)]
    BY <1>1, <1>4 DEF Usages
  <1>6. PICK st \in Statements : st = skipFields(stmt[s], 1)
    BY <1>1, AfterReadType
  <1>7. Uses(s, st, d)
    BY <1>3, <1>5, <1>6 DEF SkipColumn
  <1> QED BY <1>7, UsesType

-----------------------------------------------------------------------------

LEMMA QueriesType ==
    ASSUME DatabaseTypeOK, NEW age \in Ages, NEW n \in 0..MaxResultSets, Queries(age, n)
    PROVE  DatabaseTypeOK'
  BY DEF Queries, DatabaseTypeOK, cache, requests, statements, records

LEMMA StoredResultType ==
    ASSUME DatabaseTypeOK, NEW kind \in Kinds
    PROVE  StoredResult(kind) \in Ages
  BY DEF Kinds, StoredResult, Ages, DatabaseTypeOK

LEMMA QueryTypes ==
    ASSUME DatabaseTypeOK, NEW kind \in Kinds
    PROVE  /\ \A n \in 0..MaxResultSets : Query(kind, n) => DatabaseTypeOK'
           /\ NextRecordset(kind) => DatabaseTypeOK'
           /\ QueryFails => DatabaseTypeOK'
  <1>1. 0 \in 0..MaxResultSets
    BY DatabaseAssumption
  <1>2. pending > 0 => pending - 1 \in 0..MaxResultSets
    BY DatabaseAssumption DEF DatabaseTypeOK
  <1>3. "none" \in Ages
    BY DEF Ages
  <1> QED BY <1>1, <1>2, <1>3, QueriesType, StoredResultType DEF Query, NextRecordset, QueryFails

\* The fields of a text query, one of each of the types.
FieldsOf(types) == [i \in DOMAIN types |-> Column(types[i], <<i>>)]

LEMMA FieldsOfType ==
    ASSUME NEW types \in Seq({"num", "string", "blob"})
    PROVE  FieldsOf(types) \in Seq(Columns)
  <1>1. Len(types) \in Nat /\ DOMAIN types = 1..Len(types)
    BY LenProperties
  <1>2. \A i \in 1..Len(types) : Column(types[i], <<i>>) \in Columns
    <2> TAKE i \in 1..Len(types)
    <2>1. types[i] \in {"num", "string", "blob"}
      BY ElementOfSeq
    <2>2. <<i>> \in Seq(Int) /\ <<i>> # <<>>
      BY <1>1
    <2> QED BY <2>1, <2>2, ColumnType DEF Types, TimeTypes
  <1>3. FieldsOf(types) \in [1..Len(types) -> Columns]
    BY <1>1, <1>2 DEF FieldsOf
  <1> QED BY <1>1, <1>3

LEMMA GetLastRecordType ==
    ASSUME DatabaseTypeOK, GetLastRecord
    PROVE  DatabaseTypeOK'
  <1>1. PICK types \in load.fields :
          \E rows \in RowsOf(FieldsOf(types)) : record' = NewRecordset(rows)
    BY DEF GetLastRecord, FieldsOf
  <1>2. types \in Seq({"num", "string", "blob"})
    BY DatabaseAssumption DEF DatabaseTypeOK
  <1>3. PICK rows \in RowsOf(FieldsOf(types)) : record' = NewRecordset(rows)
    BY <1>1
  <1>4. rows \in Seq(Seq(Columns))
    BY <1>2, <1>3, FieldsOfType, RowsOfType
  <1>5. record' \in Recordsets
    BY <1>3, <1>4, EmptySeq DEF NewRecordset, Recordsets
  <1>6. fields' \in Seq(Readings) /\ lastRecords' \in Ages
    BY EmptySeq DEF GetLastRecord, Ages
  <1> QED BY <1>5, <1>6 DEF GetLastRecord, DatabaseTypeOK, cache, requests, statements

LEMMA ReadsType ==
    ASSUME DatabaseTypeOK, NEW r \in Recordsets, NEW f \in Seq(Readings), Reads(r, f)
    PROVE  DatabaseTypeOK'
  BY DEF Reads, DatabaseTypeOK, cache, requests, statements, results

LEMMA NextRecordType ==
    ASSUME DatabaseTypeOK, NextRecord
    PROVE  DatabaseTypeOK'
  <1>1. record \in Recordsets
    BY DEF DatabaseTypeOK
  <1>2. nextRecord(record) \in Recordsets
    <2>1. CASE record.rows = <<>>
      BY <1>1, <2>1, EmptySeq DEF nextRecord, Recordsets
    <2>2. CASE record.rows # <<>>
      <3>1. Head(record.rows) \in Seq(Columns) /\ Tail(record.rows) \in Seq(Seq(Columns))
        BY <1>1, <2>2, HeadTailProperties, EmptySeq DEF Recordsets
      <3> QED BY <2>2, <3>1 DEF nextRecord, Recordsets
    <2> QED BY <2>1, <2>2
  <1>3. <<>> \in Seq(Readings)
    BY EmptySeq
  <1> QED BY <1>2, <1>3, ReadsType DEF NextRecord

LEMMA ReadFieldType ==
    ASSUME NEW r \in Recordsets, NEW type \in {"num", "string", "blob"}
    PROVE  ReadField(r, type) \in Results /\ AfterReadField(r, type) \in Recordsets
  <1>1. AfterReadField(r, type) \in Recordsets
    BY DEF AfterReadField, Recordsets
  <1>2. CASE r.fieldIndex < Len(r.row)
    <2>1. PICK row \in Seq(Columns) : row = r.row
      BY DEF Recordsets
    <2>2. PICK i \in 1..Len(row) : i = r.fieldIndex + 1
      BY <1>2, <2>1, LenProperties DEF Recordsets
    <2>3. row[i] \in Columns
      BY ElementOfSeq
    <2>4. FieldGives(row[i], type) \in Results
      BY <2>3, ColumnParts, GivesType DEF FieldGives
    <2> QED BY <1>1, <1>2, <2>1, <2>2, <2>4 DEF ReadField
  <1>3. CASE ~(r.fieldIndex < Len(r.row))
    BY <1>1, <1>3, GivesType DEF ReadField
  <1> QED BY <1>2, <1>3

LEMMA ReadRecordType ==
    ASSUME DatabaseTypeOK, NEW type \in {"num", "string", "blob"}, ReadRecord(type)
    PROVE  DatabaseTypeOK'
  <1>1. record \in Recordsets /\ fields \in Seq(Readings)
    BY DEF DatabaseTypeOK
  <1>2. PICK g \in Readings : g = Got(Value(type, 0, 1), ReadField(record, type))
    BY <1>1, ReadFieldType, GotType
  <1>3. Append(fields, g) \in Seq(Readings)
    BY <1>1, AppendProperties
  <1>4. Reads(AfterReadField(record, type), Append(fields, g))
    BY <1>2 DEF ReadRecord
  <1> QED BY <1>1, <1>3, <1>4, ReadFieldType, ReadsType

LEMMA SkipFieldType ==
    ASSUME DatabaseTypeOK, SkipField
    PROVE  DatabaseTypeOK'
  <1>1. record \in Recordsets /\ fields \in Seq(Readings)
    BY DEF DatabaseTypeOK
  <1>2. PICK g \in Readings : g = Got(Value("none", 0, 1), Keeps)
    BY GivesType, GotType
  <1>3. Append(fields, g) \in Seq(Readings)
    BY <1>1, AppendProperties
  <1>4. PICK r \in Recordsets : r = [record EXCEPT !.fieldIndex = @ + 1]
    <2>1. [record EXCEPT !.fieldIndex = @ + 1] \in Recordsets
      BY <1>1 DEF Recordsets
    <2> QED BY <2>1
  <1>5. Reads(r, Append(fields, g))
    BY <1>2, <1>4 DEF SkipField
  <1> QED BY <1>3, <1>5, ReadsType

LEMMA DatabaseTypeStep ==
    ASSUME DatabaseTypeOK, [DatabaseNext]_databaseVars
    PROVE  DatabaseTypeOK'
  <1>1. CASE logon
    BY <1>1, CloseType DEF logon
  <1>2. CASE logoff
    BY <1>2, CloseType DEF logoff
  <1>3. CASE ConnectionLost \/ ChangeDatabase \/ NextRequest \/ ClearCache
    BY <1>3, ConnectionLostType, ChangeDatabaseType, NextRequestType, ClearCacheType
  <1>4. ASSUME NEW s \in SQLs,
               PrepareHit(s) \/ PrepareMiss(s) \/ FreeStatement(s) \/ ClearStatement(s)
        PROVE  DatabaseTypeOK'
    BY <1>4, PrepareHitType, PrepareMissType, FreeStatementType, ClearStatementType
  <1>5. ASSUME NEW s \in SQLs, Execute(s) \/ ExecuteFails(s) \/ NextRow(s) \/ ReadAppending(s)
                           \/ SkipColumn(s)
        PROVE  DatabaseTypeOK'
    BY <1>5, ExecuteType, ExecuteFailsType, NextRowType, ReadAppendingType, SkipColumnType
  <1>6. ASSUME NEW s \in SQLs, NEW value \in load.values, Bind(s, value)
        PROVE  DatabaseTypeOK'
    BY <1>6, BindType
  <1>7. ASSUME NEW s \in SQLs, NEW value \in load.values \cup {Value("num", 0, 1)},
               ReadColumn(s, value)
        PROVE  DatabaseTypeOK'
    BY <1>7, ReadColumnType
  <1>8. ASSUME NEW kind \in Kinds,
               NextRecordset(kind) \/ \E n \in 0..MaxResultSets : Query(kind, n)
        PROVE  DatabaseTypeOK'
    BY <1>8, QueryTypes
  <1>9. CASE QueryFails
    BY <1>9, QueryTypes DEF Kinds
  <1>10. CASE GetLastRecord \/ NextRecord \/ SkipField
    BY <1>10, GetLastRecordType, NextRecordType, SkipFieldType
  <1>11. ASSUME NEW type \in {"num", "string", "blob"}, ReadRecord(type)
         PROVE  DatabaseTypeOK'
    BY <1>11, ReadRecordType
  <1>12. CASE UNCHANGED databaseVars
    BY <1>12 DEF databaseVars, DatabaseTypeOK, cache, requests, statements, results, records
  <1> QED BY <1>1, <1>2, <1>3, <1>4, <1>5, <1>6, <1>7, <1>8, <1>9, <1>10, <1>11, <1>12
         DEF DatabaseNext

\* The connection, the cache and the statements of it, and the results of text
\* queries are what their types say, and no statement is twice in the cache.
THEOREM DatabaseTypeSafe == DatabaseSpec => []DatabaseTypeOK
  BY DatabaseTypeInit, DatabaseTypeStep, PTL DEF DatabaseSpec

-----------------------------------------------------------------------------
(* What a request can execute is its own                                   *)

LEMMA CurrentEmpty ==
    ASSUME stmtCache' = <<>> /\ held' = <<>>
    PROVE  StatementsCurrent'
  BY NoStatements DEF StatementsCurrent

LEMMA CurrentPrepareHit ==
    ASSUME DatabaseTypeOK, StatementsCurrent, NEW s \in SQLs, PrepareHit(s)
    PROVE  StatementsCurrent'
  <1>1. Range(stmtCache') = Range(stmtCache) \cup {s} /\ Range(held') = Range(held) \cup {s}
    BY UsedProperties DEF PrepareHit, DatabaseTypeOK
  <1>2. s \in Range(stmtCache) /\ ofThis' = ofThis /\ changed' = changed
    BY DEF PrepareHit
  <1>3. stale' \subseteq stale /\ s \notin stale'
    <2>1. stmt'[s].bind = NewStatement.bind
      <3>1. stmt' = [stmt EXCEPT ![s] = clear(@)]
        BY DEF PrepareHit, Cleared
      <3> QED BY <3>1 DEF clear, DatabaseTypeOK, Statements
    <2> QED BY <2>1 DEF PrepareHit, Cleared
  <1> QED BY <1>1, <1>2, <1>3 DEF StatementsCurrent

LEMMA CurrentPrepareMiss ==
    ASSUME DatabaseTypeOK, StatementsCurrent, NEW s \in SQLs, PrepareMiss(s)
    PROVE  StatementsCurrent'
  <1>1. PICK e : e = Evicted(stmtCache)
    OBVIOUS
  <1>2. e \in Seq(SQLs) /\ Range(e) \subseteq Range(stmtCache)
    BY <1>1, EvictedProperties
  <1>3. Range(stmtCache') = Range(e) \cup {s}
    BY <1>1, <1>2, AppendFresh DEF PrepareMiss
  <1>4. Range(held') = Range(held) \cup {s}
    BY UsedProperties DEF PrepareMiss, DatabaseTypeOK
  <1>5. ofThis' = (ofThis \cap Range(e)) \cup {s} /\ changed' = changed
    BY <1>1 DEF PrepareMiss
  <1>6. stale' \subseteq stale /\ s \notin stale
    BY DEF PrepareMiss, DatabaseTypeOK
  <1> QED BY <1>2, <1>3, <1>4, <1>5, <1>6 DEF StatementsCurrent

LEMMA CurrentFreeStatement ==
    ASSUME DatabaseTypeOK, StatementsCurrent, NEW s \in SQLs, FreeStatement(s)
    PROVE  StatementsCurrent'
  <1>1. Range(stmtCache') \subseteq Range(stmtCache)
    BY WithoutProperties DEF FreeStatement, DatabaseTypeOK
  <1> QED BY <1>1 DEF FreeStatement, OnlyCached, records, StatementsCurrent

LEMMA StatementsCurrentStep ==
    ASSUME DatabaseTypeOK, StatementsCurrent, [DatabaseNext]_databaseVars
    PROVE  StatementsCurrent'
  <1>1. CASE logon \/ logoff \/ ClearCache
    BY <1>1, CurrentEmpty DEF logon, logoff, Close, ClearCache
  <1>2. CASE ConnectionLost \/ UNCHANGED databaseVars
    BY <1>2 DEF ConnectionLost, databaseVars, StatementsCurrent, cache, requests, statements
  <1>3. CASE ChangeDatabase
    BY <1>3 DEF ChangeDatabase, StatementsCurrent, requests, statements
  <1>4. CASE NextRequest
    BY <1>4, NoStatements DEF NextRequest, StatementsCurrent, cache
  <1>5. ASSUME NEW s \in SQLs, PrepareHit(s) \/ PrepareMiss(s) \/ FreeStatement(s)
        PROVE  StatementsCurrent'
    BY <1>5, CurrentPrepareHit, CurrentPrepareMiss, CurrentFreeStatement
  <1>6. ASSUME NEW s \in SQLs, ClearStatement(s)
        PROVE  StatementsCurrent'
    BY <1>6 DEF ClearStatement, Cleared, StatementsCurrent, cache, requests
  <1>7. ASSUME NEW s \in SQLs, NEW st, NEW d, Uses(s, st, d)
        PROVE  StatementsCurrent'
    BY <1>7 DEF Uses, StatementsCurrent, cache, requests
  <1>8. ASSUME NEW s \in SQLs, Execute(s) \/ ExecuteFails(s) \/ NextRow(s) \/ ReadAppending(s)
                           \/ SkipColumn(s)
        PROVE  StatementsCurrent'
    BY <1>7, <1>8 DEF Execute, ExecuteFails, NextRow, ReadAppending, SkipColumn
  <1>9. ASSUME NEW s \in SQLs, NEW value, Bind(s, value) \/ ReadColumn(s, value)
        PROVE  StatementsCurrent'
    BY <1>7, <1>9 DEF Bind, ReadColumn
  <1>10. ASSUME NEW age, NEW n, Queries(age, n)
         PROVE  StatementsCurrent'
    BY <1>10 DEF Queries, StatementsCurrent, cache, requests, statements
  <1>11. ASSUME NEW kind, NextRecordset(kind) \/ \E n \in 0..MaxResultSets : Query(kind, n)
         PROVE  StatementsCurrent'
    BY <1>10, <1>11 DEF NextRecordset, Query
  <1>12. CASE QueryFails
    BY <1>10, <1>12 DEF QueryFails
  <1>13. CASE GetLastRecord
    BY <1>13 DEF GetLastRecord, StatementsCurrent, cache, requests, statements
  <1>14. ASSUME NEW r, NEW f, Reads(r, f)
         PROVE  StatementsCurrent'
    BY <1>14 DEF Reads, StatementsCurrent, cache, requests, statements
  <1>15. CASE NextRecord \/ SkipField \/ \E type \in {"num", "string", "blob"} : ReadRecord(type)
    BY <1>14, <1>15 DEF NextRecord, SkipField, ReadRecord
  <1> QED BY <1>1, <1>2, <1>3, <1>4, <1>5, <1>6, <1>8, <1>9, <1>11, <1>12, <1>13, <1>15
         DEF DatabaseNext

\* A cached statement was prepared on the connection that is open, in the
\* database that it uses unless that was changed, and what the current request
\* has prepared has no parameter bound to what an older one has bound.
THEOREM StatementsCurrentSafe == DatabaseSpec => []StatementsCurrent
  <1>1. DatabaseInit => StatementsCurrent
    BY NoStatements DEF DatabaseInit, StatementsCurrent
  <1>2. DatabaseTypeOK /\ StatementsCurrent /\ [DatabaseNext]_databaseVars
          => StatementsCurrent'
    BY StatementsCurrentStep
  <1> QED BY <1>1, <1>2, DatabaseTypeSafe, PTL DEF DatabaseSpec

-----------------------------------------------------------------------------
(* The pointers that a request holds                                       *)

\* An element is as far from the end as before, or farther, once another one
\* is used.
LEMMA UsedFarther ==
    ASSUME NEW S, NEW h \in Seq(S), IsInjective(h), NEW s \in S,
           NEW x \in Range(h), x # s
    PROVE  LET u == Used(h, s)
           IN  /\ Len(u) - Position(u, x) >= Len(h) - Position(h, x)
               /\ Position(u, x) \in 1..Len(u) /\ Position(u, s) = Len(u)
  <1>1. PICK w \in Seq(S), u \in Seq(S) : w = Without(h, s) /\ u = Used(h, s)
    BY WithoutProperties, UsedProperties
  <1>2. /\ IsInjective(w) /\ Range(w) = Range(h) \ {s}
        /\ Len(h) = IF s \in Range(h) THEN Len(w) + 1 ELSE Len(w)
        /\ Len(w) \in Nat
    BY <1>1, WithoutProperties, LenProperties
  <1>3. u = Append(w, s) /\ IsInjective(u)
    BY <1>1, UsedProperties DEF Used
  <1>4. Len(u) = Len(w) + 1 /\ u[Len(w) + 1] = s /\ \A i \in 1..Len(w) : u[i] = w[i]
    BY <1>3, AppendProperties
  <1>5. x \in Range(w)
    BY <1>2
  <1>6. PICK i \in 1..Len(w) : i = Position(w, x) /\ w[i] = x
    BY <1>2, <1>5, PositionOf
  <1>7. Position(u, x) = i
    <2>1. i \in 1..Len(u) /\ u[i] = x
      BY <1>2, <1>4, <1>6
    <2> QED BY <1>3, <2>1, PositionOf
  <1>8. Position(u, s) = Len(u)
    <2>1. Len(u) \in 1..Len(u) /\ u[Len(u)] = s
      BY <1>2, <1>4
    <2> QED BY <1>3, <2>1, PositionOf
  <1>9. PICK k \in 1..Len(h) : k = Position(h, x)
    BY PositionOf
  <1>10. Len(u) - i >= Len(h) - k
    <2>1. CASE s \notin Range(h)
      <3>1. w = h
        BY <1>1, <2>1 DEF Without
      <3> QED BY <1>2, <1>4, <1>6, <1>9, <3>1
    <2>2. CASE s \in Range(h)
      <3>1. i = IF k < Position(h, s) THEN k ELSE k - 1
        BY <1>1, <1>6, <1>9, <2>2, Closer
      <3>2. i <= k
        BY <1>2, <1>9, <3>1
      <3> QED BY <1>2, <1>4, <1>6, <1>9, <2>2, <3>2
    <2> QED BY <2>1, <2>2
  <1>11. i \in 1..Len(u)
    BY <1>2, <1>4, <1>6
  <1> QED BY <1>1, <1>7, <1>8, <1>9, <1>10, <1>11

\* What prepare() has evicted of what the request holds is far from the end.
HeldFar ==
    \A x \in Range(held) :
        x \notin Range(stmtCache) \cup freed
            => Len(held) - Position(held, x) > maxStmtCache - maxStmtCache \div 2

\* The cache goes on, as far as it has what the request holds, in that order.
HeldInv == EndsWith(stmtCache, held) /\ HeldFar

LEMMA HeldInvEmpty ==
    /\ held = <<>> => HeldInv
    /\ held' = <<>> => HeldInv'
  BY NoStatements DEF HeldInv, HeldFar, EndsWith

LEMMA HeldInvSame ==
    ASSUME HeldInv, UNCHANGED <<load, stmtCache, held, freed>>
    PROVE  HeldInv'
  BY DEF HeldInv, HeldFar, EndsWith, maxStmtCache

LEMMA HeldPrepareHit ==
    ASSUME DatabaseTypeOK, HeldInv, NEW s \in SQLs, PrepareHit(s)
    PROVE  HeldInv'
  <1>1. EndsWith(stmtCache', held')
    BY EndsUsed DEF PrepareHit, DatabaseTypeOK, HeldInv
  <1>2. HeldFar'
    <2>1. Range(stmtCache') = Range(stmtCache) \cup {s} /\ Range(held') = Range(held) \cup {s}
      BY UsedProperties DEF PrepareHit, DatabaseTypeOK
    <2> SUFFICES ASSUME NEW x \in Range(held'), x \notin Range(stmtCache') \cup freed'
                 PROVE  Len(held') - Position(held', x)
                            > maxStmtCache' - maxStmtCache' \div 2
      BY DEF HeldFar
    <2>2. x \in Range(held) /\ x # s /\ x \notin Range(stmtCache) \cup freed
      BY <2>1 DEF PrepareHit
    <2>3. maxStmtCache' = maxStmtCache
      BY DEF PrepareHit, maxStmtCache
    <2>4. Len(held) - Position(held, x) > maxStmtCache - maxStmtCache \div 2
      BY <2>2 DEF HeldInv, HeldFar
    <2>5. Len(held') - Position(held', x) >= Len(held) - Position(held, x)
      BY <2>2, UsedFarther DEF PrepareHit, DatabaseTypeOK
    <2>6. /\ Len(held) \in Nat /\ Len(held') \in Nat /\ Position(held, x) \in Nat
          /\ Position(held', x) \in Nat /\ maxStmtCache - maxStmtCache \div 2 \in Int
      <3>1. Position(held', x) \in 1..Len(held') /\ held' \in Seq(SQLs)
        BY <2>2, UsedFarther, UsedProperties DEF PrepareHit, DatabaseTypeOK
      <3>2. Position(held, x) \in 1..Len(held) /\ held \in Seq(SQLs)
        BY <2>2, PositionOf DEF DatabaseTypeOK
      <3>3. maxStmtCache \in Nat
        BY EvictedProperties
      <3> QED BY <3>1, <3>2, <3>3, LenProperties
    <2> QED BY <2>3, <2>4, <2>5, <2>6
  <1> QED BY <1>1, <1>2 DEF HeldInv

LEMMA HeldPrepareMiss ==
    ASSUME DatabaseTypeOK, HeldInv, NEW s \in SQLs, PrepareMiss(s)
    PROVE  HeldInv'
  <1>1. PICK n, e : /\ n = IF Len(stmtCache) < maxStmtCache THEN 0 ELSE maxStmtCache \div 2
                    /\ e = Evicted(stmtCache)
    OBVIOUS
  <1>2. /\ n \in Nat /\ n <= Len(stmtCache) /\ maxStmtCache \in Nat /\ e \in Seq(SQLs)
        /\ e = SubSeq(stmtCache, n + 1, Len(stmtCache)) /\ Len(e) = Len(stmtCache) - n
        /\ \A i \in 1..(Len(stmtCache) - n) : e[i] = stmtCache[n + i]
    BY <1>1, EvictedProperties
  <1>3. PICK c \in Seq(SQLs), d \in Seq(SQLs), g \in Seq(SQLs) :
          c = stmtCache /\ d = Append(c, s) /\ g = Used(held, s)
    BY AppendProperties, UsedProperties DEF DatabaseTypeOK
  <1>4. stmtCache' = Append(e, s) /\ held' = g /\ freed' = freed \ {s} /\ s \notin Range(c)
    BY <1>1, <1>3 DEF PrepareMiss
  <1>5. EndsWith(d, g)
    <2>1. d = Used(c, s)
      BY <1>3, <1>4 DEF Used, Without
    <2> QED BY <1>3, <2>1, EndsUsed DEF DatabaseTypeOK, HeldInv
  <1>6. Len(c) \in Nat /\ Len(d) = Len(c) + 1 /\ d[Len(c) + 1] = s
        /\ \A i \in 1..Len(c) : d[i] = c[i]
    BY <1>3, AppendProperties, LenProperties
  <1>7. EndsWith(stmtCache', held')
    <2>1. Append(e, s) = SubSeq(d, n + 1, Len(d))
      <3>3. \A q \in Seq(SQLs) : Append(q, s) = q \o <<s>>
        BY AppendIsConcat
      <3>4. <<s>> \in Seq(SQLs)
        OBVIOUS
      <3>1. Append(e, s) = e \o <<s>> /\ d = c \o <<s>> /\ <<s>> \in Seq(SQLs)
        BY <1>2, <1>3, <3>3, <3>4
      <3>2. SubSeq(c \o <<s>>, n + 1, Len(c \o <<s>>)) = SubSeq(c, n + 1, Len(c)) \o <<s>>
        BY <1>2, <1>3, <3>1, CutConcat
      <3> QED BY <1>2, <1>3, <3>1, <3>2
    <2>2. n <= Len(d)
      BY <1>2, <1>3, <1>6
    <2>3. EndsWith(SubSeq(d, n + 1, Len(d)), g)
      BY <1>2, <1>5, <2>2, EndsCut
    <2> QED BY <1>4, <2>1, <2>3
  <1>8. HeldFar'
    <2>1. Range(stmtCache') = Range(e) \cup {s} /\ Range(held') = Range(held) \cup {s}
      <3>1. Range(Append(e, s)) = Range(e) \cup {s}
        <4>1. e \in Seq(SQLs)
          BY <1>2
        <4> QED BY ONLY <4>1, s \in SQLs, AppendFresh
      <3>2. Range(g) = Range(held) \cup {s}
        BY <1>3, UsedProperties DEF DatabaseTypeOK
      <3> QED BY <1>4, <3>1, <3>2
    <2> SUFFICES ASSUME NEW x \in Range(held'), x \notin Range(stmtCache') \cup freed'
                 PROVE  Len(held') - Position(held', x)
                            > maxStmtCache' - maxStmtCache' \div 2
      BY DEF HeldFar
    <2>2. x \in Range(held) /\ x # s /\ x \notin freed /\ x \notin Range(e)
      BY <1>4, <2>1
    <2>3. maxStmtCache' = maxStmtCache
      BY DEF PrepareMiss, maxStmtCache
    <2>4. /\ Len(g) - Position(g, x) >= Len(held) - Position(held, x)
          /\ Position(g, x) \in 1..Len(g) /\ Position(g, s) = Len(g)
      BY <1>3, <2>2, UsedFarther DEF DatabaseTypeOK
    <2>5. PICK k \in Nat, m \in Nat : k = maxStmtCache /\ m = maxStmtCache \div 2
      <3>1. \A k \in Nat : k \div 2 \in Nat
        OBVIOUS
      <3> QED BY <1>2, <3>1
    <2>6. /\ Len(g) \in Nat /\ Position(g, x) \in Nat /\ Len(held) \in Nat
          /\ Position(held, x) \in Nat
      <3>1. Position(held, x) \in 1..Len(held) /\ held \in Seq(SQLs)
        BY <2>2, PositionOf DEF DatabaseTypeOK
      <3> QED BY <2>4, <3>1, LenProperties
    <2>7. CASE x \notin Range(c)
      <3>1. Len(held) - Position(held, x) > k - m
        BY <1>3, <2>2, <2>5, <2>7 DEF HeldInv, HeldFar
      <3> QED BY <1>4, <2>3, <2>4, <2>5, <2>6, <3>1
    <2>8. CASE x \in Range(c)
      <3>1. PICK p \in 1..Len(c) : c[p] = x
        BY <2>8, LenProperties DEF Range
      <3>2. ~(p > n)
        <4> SUFFICES ASSUME p > n PROVE FALSE
          OBVIOUS
        <4>1. PICK i \in 1..(Len(c) - n) : i = p - n
          BY <1>2, <1>3, <1>6
        <4>2. n + i = p
          BY <1>2, <4>1
        <4>3. e[i] = x /\ i \in 1..Len(e)
          BY <1>2, <1>3, <3>1, <4>1, <4>2
        <4> QED BY <1>2, <2>2, <4>3, LenProperties DEF Range
      <3>3. n = m /\ ~(Len(c) < k)
        BY <1>1, <1>2, <1>3, <2>5, <3>2
      <3>4. PICK q \in 1..Len(d) : q = Len(c) + 1
        BY <1>6
      <3>5. p \in 1..Len(d) /\ p <= q /\ d[p] = x /\ d[q] = s
        BY <1>6, <3>1, <3>4
      <3>6. x \in Range(g)
        BY <1>4
      <3>7. q - p <= Position(g, s) - Position(g, x)
        BY <1>5, <3>5, <3>6 DEF EndsWith
      <3>8. q - p > k - m
        BY <1>2, <1>6, <2>5, <3>1, <3>2, <3>3, <3>4
      <3>9. PICK a \in Nat, b \in Nat : a = Len(g) /\ b = Position(g, x)
        BY <2>6
      <3>10. a - b > k - m
        BY <1>6, <2>4, <3>1, <3>4, <3>7, <3>8, <3>9
      <3> QED BY <1>4, <2>3, <2>5, <3>9, <3>10
    <2> QED BY <2>7, <2>8
  <1> QED BY <1>7, <1>8 DEF HeldInv

LEMMA HeldFreeStatement ==
    ASSUME DatabaseTypeOK, HeldInv, NEW s \in SQLs, FreeStatement(s)
    PROVE  HeldInv'
  <1>1. EndsWith(stmtCache', held')
    BY EndsLacking DEF FreeStatement, DatabaseTypeOK, HeldInv
  <1>2. Range(stmtCache') = Range(stmtCache) \ {s}
    BY WithoutProperties DEF FreeStatement, DatabaseTypeOK
  <1>3. held' = held /\ maxStmtCache' = maxStmtCache
        /\ freed' = freed \cup ({s} \cap Range(held))
    BY DEF FreeStatement, maxStmtCache
  <1>4. HeldFar'
    BY <1>2, <1>3 DEF HeldInv, HeldFar
  <1> QED BY <1>1, <1>4 DEF HeldInv

LEMMA HeldInvStep ==
    ASSUME DatabaseTypeOK, HeldInv, [DatabaseNext]_databaseVars
    PROVE  HeldInv'
  <1>1. CASE logon \/ logoff \/ ClearCache \/ NextRequest
    BY <1>1, HeldInvEmpty DEF logon, logoff, Close, ClearCache, NextRequest
  <1>2. CASE ConnectionLost \/ ChangeDatabase \/ UNCHANGED databaseVars
    BY <1>2, HeldInvSame DEF ConnectionLost, ChangeDatabase, databaseVars, cache, requests
  <1>3. ASSUME NEW s \in SQLs, PrepareHit(s) \/ PrepareMiss(s) \/ FreeStatement(s)
        PROVE  HeldInv'
    BY <1>3, HeldPrepareHit, HeldPrepareMiss, HeldFreeStatement
  <1>4. ASSUME NEW s \in SQLs, ClearStatement(s)
        PROVE  HeldInv'
    BY <1>4, HeldInvSame DEF ClearStatement, cache, requests
  <1>5. ASSUME NEW s \in SQLs, NEW st, NEW d, Uses(s, st, d)
        PROVE  HeldInv'
    BY <1>5, HeldInvSame DEF Uses, cache, requests
  <1>6. ASSUME NEW s \in SQLs, Execute(s) \/ ExecuteFails(s) \/ NextRow(s) \/ ReadAppending(s)
                           \/ SkipColumn(s)
        PROVE  HeldInv'
    BY <1>5, <1>6 DEF Execute, ExecuteFails, NextRow, ReadAppending, SkipColumn
  <1>7. ASSUME NEW s \in SQLs, NEW value, Bind(s, value) \/ ReadColumn(s, value)
        PROVE  HeldInv'
    BY <1>5, <1>7 DEF Bind, ReadColumn
  <1>8. ASSUME NEW age, NEW n, Queries(age, n)
        PROVE  HeldInv'
    BY <1>8, HeldInvSame DEF Queries, cache, requests
  <1>9. ASSUME NEW kind, NextRecordset(kind) \/ \E n \in 0..MaxResultSets : Query(kind, n)
        PROVE  HeldInv'
    BY <1>8, <1>9 DEF NextRecordset, Query
  <1>10. CASE QueryFails
    BY <1>8, <1>10 DEF QueryFails
  <1>11. CASE GetLastRecord
    BY <1>11, HeldInvSame DEF GetLastRecord, cache, requests
  <1>12. ASSUME NEW r, NEW f, Reads(r, f)
         PROVE  HeldInv'
    BY <1>12, HeldInvSame DEF Reads, cache, requests
  <1>13. CASE NextRecord \/ SkipField \/ \E type \in {"num", "string", "blob"} : ReadRecord(type)
    BY <1>12, <1>13 DEF NextRecord, SkipField, ReadRecord
  <1> QED BY <1>1, <1>2, <1>3, <1>4, <1>6, <1>7, <1>9, <1>10, <1>11, <1>13 DEF DatabaseNext

\* The last statements that a request has prepared, as many as a full cache
\* keeps and one more, are cached still, but for those it has freed.
THEOREM HeldValidSafe == DatabaseSpec => []HeldValid
  <1>1. DatabaseInit => HeldInv
    BY HeldInvEmpty DEF DatabaseInit
  <1>2. DatabaseTypeOK /\ HeldInv /\ [DatabaseNext]_databaseVars => HeldInv'
    BY HeldInvStep
  <1>3. DatabaseTypeOK /\ HeldInv => HeldValid
    <2> SUFFICES ASSUME DatabaseTypeOK, HeldInv, NEW i \in 1..Len(held),
                        Len(held) - i <= maxStmtCache - maxStmtCache \div 2
                 PROVE  held[i] \in Range(stmtCache) \cup freed
      BY DEF HeldValid
    <2>1. held[i] \in Range(held) /\ Position(held, held[i]) = i /\ Len(held) \in Nat
      BY PositionOf DEF DatabaseTypeOK
    <2>2. maxStmtCache - maxStmtCache \div 2 \in Int
      <3>1. \A k \in Nat : k - k \div 2 \in Int
        OBVIOUS
      <3> QED BY <3>1, EvictedProperties
    <2>3. ~(Len(held) - i > maxStmtCache - maxStmtCache \div 2)
      BY <2>1, <2>2
    <2> QED BY <2>1, <2>3 DEF HeldInv, HeldFar
  <1> QED BY <1>1, <1>2, <1>3, DatabaseTypeSafe, PTL DEF DatabaseSpec

-----------------------------------------------------------------------------
(* Times that are taken apart and put together                             *)

LEMMA QuotientAndRest ==
    ASSUME NEW a \in Int, NEW n \in Nat \ {0}
    PROVE  \E q \in Int, r \in 0..n - 1 :
              q = a \div n /\ r = a % n /\ q * n = a - r
  <1>1. PICK q \in Int : q = a \div n /\ a - n * q = a % n
    OBVIOUS
  <1>2. PICK r \in 0..n - 1 : r = a % n
    OBVIOUS
  <1>3. q * n = a - r
    BY <1>1, <1>2
  <1> QED BY <1>1, <1>2, <1>3

\* There is one rest.
LEMMA RestOf ==
    ASSUME NEW n \in Nat \ {0}, NEW q \in Int, NEW r \in 0..n - 1, NEW a \in Int,
           a = q * n + r
    PROVE  a % n = r /\ a \div n = q
  <1>1. PICK d \in Int, m \in 0..n - 1 : d = a \div n /\ m = a % n /\ d * n = a - m
    BY QuotientAndRest
  <1>2. d * n = a - m
    BY <1>1
  <1>3. PICK t \in Int : t = q - d
    OBVIOUS
  <1>4. t * n = m - r
    BY <1>2, <1>3
  <1>5. t < 1
    <2> SUFFICES ASSUME t >= 1 PROVE FALSE
      OBVIOUS
    <2>1. t * n >= n
      OBVIOUS
    <2> QED BY <1>4, <2>1
  <1>6. t > -1
    <2> SUFFICES ASSUME t <= -1 PROVE FALSE
      OBVIOUS
    <2>1. t * n <= -n
      OBVIOUS
    <2> QED BY <1>4, <2>1
  <1>7. t = 0
    BY <1>5, <1>6
  <1> QED BY <1>1, <1>3, <1>4, <1>7

\* The rest by a part of a unit, of the rest by the unit.
LEMMA RestOfRest ==
    ASSUME NEW a \in Int, NEW n \in Nat \ {0}, NEW k \in Nat \ {0}, n % k = 0
    PROVE  (a % n) % k = a % k
  <1>1. PICK q \in Int, r \in 0..n - 1 : q = a \div n /\ r = a % n /\ q * n = a - r
    BY QuotientAndRest
  <1>2. PICK x \in Int : x * k = n
    <2>1. PICK x \in Int, z \in 0..k - 1 : x = n \div k /\ z = n % k /\ x * k = n - z
      BY QuotientAndRest
    <2>2. x * k = n
      BY <2>1
    <2> QED BY <2>2
  <1>3. PICK y \in Int, m \in 0..k - 1 : y = r \div k /\ m = r % k /\ y * k = r - m
    BY QuotientAndRest
  <1>4. PICK z \in Int : z = q * x + y
    OBVIOUS
  <1>5. q * (x * k) = a - r
    BY <1>1, <1>2
  <1>6. z * k = q * (x * k) + y * k
    BY <1>4
  <1>7. a = z * k + m
    <2>1. PICK p \in Int, w \in Int : p = q * (x * k) /\ w = y * k
      OBVIOUS
    <2>2. p = a - r /\ w = r - m /\ z * k = p + w
      BY <1>3, <1>5, <1>6, <2>1
    <2> QED BY <2>2
  <1>8. a % k = m
    BY <1>7, RestOf
  <1> QED BY <1>1, <1>3, <1>8

\* So many k are in what n leaves of a, and a % k is left of it then.
PartOf(a, n, k) ==
    \E q \in Int, r \in Int, m \in Int :
        r = a % n /\ m = a % k /\ q = (a % n) \div k /\ q * k = r - m

LEMMA Parts ==
    ASSUME NEW a \in Int, NEW n \in Nat \ {0}, NEW k \in Nat \ {0}, n % k = 0
    PROVE  PartOf(a, n, k)
  <1>1. PICK r \in 0..n - 1 : r = a % n
    BY QuotientAndRest
  <1>2. PICK q \in Int, m \in 0..k - 1 : q = r \div k /\ m = r % k /\ q * k = r - m
    BY QuotientAndRest
  <1>3. m = a % k
    BY <1>1, <1>2, RestOfRest
  <1> QED BY <1>1, <1>2, <1>3 DEF PartOf

LEMMA PartsOfTime ==
    ASSUME NEW a \in Int
    PROVE  /\ PartOf(a, UsecPerDay, UsecPerHour) /\ PartOf(a, UsecPerHour, UsecPerMin)
           /\ PartOf(a, UsecPerMin, UsecPerSec)
  BY Parts, StatementAssumption, StatementUnits

LEMMA TimeComesBack ==
    ASSUME NEW v \in Int
    PROVE  TimeFrom(TimeOf(v)) = IF v < 0 THEN -v ELSE v
  <1>1. PICK u \in Nat : u = IF v < 0 THEN -v ELSE v
    OBVIOUS
  <1>2. PICK q2 \in Int, h \in Int :
          q2 = u \div UsecPerHour /\ h = u % UsecPerHour /\ q2 * UsecPerHour = u - h
    BY QuotientAndRest, StatementUnits
  <1>3. PICK q3 \in Int, r3 \in Int, m \in Int :
          /\ r3 = u % UsecPerHour /\ m = u % UsecPerMin
          /\ q3 = (u % UsecPerHour) \div UsecPerMin /\ q3 * UsecPerMin = r3 - m
    BY PartsOfTime DEF PartOf
  <1>4. PICK q4 \in Int, r4 \in Int, s \in Int :
          /\ r4 = u % UsecPerMin /\ s = u % UsecPerSec
          /\ q4 = (u % UsecPerMin) \div UsecPerSec /\ q4 * UsecPerSec = r4 - s
    BY PartsOfTime DEF PartOf
  <1>5. PICK t : t = TimeOf(v)
    OBVIOUS
  <1>6. t[2] = q2 /\ t[3] = q3 /\ t[4] = q4 /\ t[5] = s
    BY <1>1, <1>2, <1>3, <1>4, <1>5 DEF TimeOf
  <1>9. r3 = h /\ r4 = m
    BY <1>2, <1>3, <1>4
  <1>7. TimeFrom(t) = (u - h) + (h - m) + (m - s) + s
    BY <1>2, <1>3, <1>4, <1>6, <1>9 DEF TimeFrom
  <1>8. (u - h) + (h - m) + (m - s) + s = u
    OBVIOUS
  <1> QED BY <1>1, <1>5, <1>7, <1>8

LEMMA DateTimeComesBack ==
    ASSUME NEW v \in Int, NEW unit \in {1, UsecPerSec}
    PROVE  DateTimeFrom(DateTimeOf(v, unit), unit) = v
  <1>1. PICK u \in Int : u = v * unit
    BY StatementUnits
  <1>2. PICK q1 \in Int, d \in Int :
          q1 = u \div UsecPerDay /\ d = u % UsecPerDay /\ q1 * UsecPerDay = u - d
    BY QuotientAndRest, StatementUnits
  <1>3. PICK q2 \in Int, r2 \in Int, h \in Int :
          /\ r2 = u % UsecPerDay /\ h = u % UsecPerHour
          /\ q2 = (u % UsecPerDay) \div UsecPerHour /\ q2 * UsecPerHour = r2 - h
    <2>1. PartOf(u, UsecPerDay, UsecPerHour)
      BY PartsOfTime
    <2> QED BY ONLY <2>1 DEF PartOf
  <1>4. PICK q3 \in Int, r3 \in Int, m \in Int :
          /\ r3 = u % UsecPerHour /\ m = u % UsecPerMin
          /\ q3 = (u % UsecPerHour) \div UsecPerMin /\ q3 * UsecPerMin = r3 - m
    <2>1. PartOf(u, UsecPerHour, UsecPerMin)
      BY PartsOfTime
    <2> QED BY ONLY <2>1 DEF PartOf
  <1>5. PICK q4 \in Int, r4 \in Int, s \in Int :
          /\ r4 = u % UsecPerMin /\ s = u % UsecPerSec
          /\ q4 = (u % UsecPerMin) \div UsecPerSec /\ q4 * UsecPerSec = r4 - s
    <2>1. PartOf(u, UsecPerMin, UsecPerSec)
      BY PartsOfTime
    <2> QED BY ONLY <2>1 DEF PartOf
  <1>13. r2 = d /\ r3 = h /\ r4 = m
    BY <1>2, <1>3, <1>4, <1>5
  <1>6. PICK t : t = DateTimeOf(v, unit)
    OBVIOUS
  <1>7. t[1] = q1 /\ t[2] = q2 /\ t[3] = q3 /\ t[4] = q4 /\ t[5] = s \div unit
    BY <1>1, <1>2, <1>3, <1>4, <1>5, <1>6 DEF DateTimeOf
  <1>8. PICK a \in Int, b \in Int, c \in Int, e \in Int :
          a = u - d /\ b = d - h /\ c = h - m /\ e = m - s
    OBVIOUS
  <1>9. DateTimeFrom(t, unit) = (a + b + c + e + t[5]) \div unit
    BY <1>2, <1>3, <1>4, <1>5, <1>7, <1>8, <1>13 DEF DateTimeFrom
  <1>10. a + b + c + e = u - s
    BY <1>8
  <1>11. CASE unit = 1
    <2>1. s \div 1 = s /\ u = v /\ s \in Int
      BY <1>1, <1>11
    <2>2. a + b + c + e + t[5] = v
      BY <1>7, <1>10, <1>11, <2>1
    <2>3. v \div 1 = v
      OBVIOUS
    <2> QED BY <1>6, <1>9, <1>11, <2>2, <2>3
  <1>12. CASE unit = UsecPerSec
    <2>1. u = v * UsecPerSec + 0 /\ 0 \in 0..UsecPerSec - 1
      BY <1>1, <1>12, StatementUnits
    <2>2. s = 0 /\ u \div unit = v
      <3>1. u % UsecPerSec = 0 /\ u \div UsecPerSec = v
        BY <2>1, RestOf, StatementUnits
      <3> QED BY <1>5, <1>12, <3>1
    <2>3. t[5] = 0
      BY <1>7, <1>12, <2>2, StatementUnits
    <2>4. a + b + c + e + t[5] = u
      BY <1>10, <2>2, <2>3
    <2> QED BY <1>6, <1>9, <2>2, <2>4
  <1> QED BY <1>11, <1>12

LEMMA DateComesBack ==
    ASSUME NEW v \in Int
    PROVE  DateTimeFrom(<<v, 0, 0, 0, 0>>, UsecPerDay) = v
  <1>1. PICK u \in Int : u = v * UsecPerDay
    BY StatementUnits
  <1>2. u \div UsecPerDay = v
    <2>1. u = v * UsecPerDay + 0 /\ 0 \in 0..UsecPerDay - 1
      BY <1>1, StatementUnits
    <2> QED BY <2>1, RestOf, StatementUnits
  <1>3. PICK t : t = <<v, 0, 0, 0, 0>>
    OBVIOUS
  <1>4. t[1] = v /\ t[2] = 0 /\ t[3] = 0 /\ t[4] = 0 /\ t[5] = 0
    BY <1>3
  <1>5. \A n \in Nat : 0 * n = 0
    OBVIOUS
  <1>6. DateTimeFrom(t, UsecPerDay) = (u + 0 + 0 + 0 + 0) \div UsecPerDay
    BY <1>1, <1>4, <1>5, StatementUnits DEF DateTimeFrom
  <1> QED BY <1>2, <1>3, <1>6

-----------------------------------------------------------------------------
(* What is read of a column is what was bound                              *)

\* c is what MySQL returns of a parameter with this value: the value, or NULL.
Returned(c, value) == c = Bound(value) \/ c = NullColumn(Bound(value).type)

ReadsBack(c, value, result) ==
    IF c.null THEN result = WhenNull(value.type)
    ELSE result.given /\ Same(value, result.v)

LEMMA ReadsBackValue ==
    ASSUME NEW ran \in Values, NEW value, value.type = ran.type, value.unit = ran.unit,
           ran.type # "null", NEW c, Returned(c, ran)
    PROVE  ReadsBack(c, ran, FromColumn(c, value))
  <1>1. /\ ran.type \in Types \ {"null"} /\ ran.v \in Int /\ ran.unit \in Nat \ {0}
        /\ ran.type = "date" => ran.unit = UsecPerDay
    BY DEF Values
  <1>10. PICK v \in Int : v = ran.v
    BY <1>1
  <1>2. PICK b : v = ran.v /\ b = Bound(ran) /\ (c = b \/ c = NullColumn(b.type))
    BY <1>10 DEF Returned
  <1>3. /\ Gives(0) # Keeps
        /\ \A n : Gives(n).given /\ Gives(n).v = n
        /\ \A t, d : /\ Column(t, d).type = t /\ ~Column(t, d).null /\ Column(t, d).data = d
                     /\ NullColumn(t).type = t /\ NullColumn(t).null
    BY DEF Gives, Keeps, Column, NullColumn
  <1>4. CASE ran.type \in {"num", "string"}
    <2>1. b = Column(ran.type, <<v>>)
      BY <1>2, <1>4 DEF Bound
    <2>2. c.type = ran.type /\ (~c.null => c.data[1] = v)
      BY <1>2, <1>3, <2>1
    <2>3. FromColumn(c, value) = IF c.null THEN Gives(0) ELSE Gives(v)
      BY <1>4, <2>2 DEF FromColumn, IsNum
    <2>4. Same(ran, v)
      BY <1>2, <1>4 DEF Same
    <2> QED BY <1>3, <1>4, <2>3, <2>4 DEF ReadsBack, WhenNull
  <1>5. CASE ran.type = "blob"
    <2>1. b = IF v = 0 THEN NullColumn("null") ELSE Column("blob", <<v>>)
      BY <1>2, <1>5 DEF Bound
    <2>2. c.null \/ c.data[1] = v
      BY <1>2, <1>3, <2>1
    <2>3. FromColumn(c, value) = IF c.null THEN Keeps ELSE Gives(v)
      BY <1>5, <2>2 DEF FromColumn
    <2>4. Same(ran, v)
      BY <1>2, <1>5 DEF Same
    <2> QED BY <1>3, <1>5, <2>3, <2>4 DEF ReadsBack, WhenNull
  <1>6. CASE ran.type = "time"
    <2>1. b = Column("time", TimeOf(v))
      BY <1>2, <1>6 DEF Bound
    <2>2. c.type = "time" /\ (~c.null => c.data = TimeOf(v))
      BY <1>2, <1>3, <2>1
    <2>3. FromColumn(c, value) = IF c.null THEN Gives(0) ELSE Gives(TimeFrom(TimeOf(v)))
      BY <1>6, <2>2 DEF FromColumn
    <2>4. Same(ran, TimeFrom(TimeOf(v)))
      BY <1>2, <1>6, TimeComesBack DEF Same
    <2> QED BY <1>3, <1>6, <2>3, <2>4 DEF ReadsBack, WhenNull
  <1>7. CASE ran.type = "date"
    <2>1. b = Column("date", <<v, 0, 0, 0, 0>>)
      BY <1>2, <1>7 DEF Bound
    <2>2. c.type = "date" /\ (~c.null => c.data = <<v, 0, 0, 0, 0>>)
      BY <1>2, <1>3, <2>1
    <2>3. FromColumn(c, value) = IF c.null THEN Keeps
                                 ELSE Gives(DateTimeFrom(<<v, 0, 0, 0, 0>>, UsecPerDay))
      BY <1>1, <1>7, <2>2 DEF FromColumn
    <2>4. Same(ran, v)
      BY <1>2, <1>7 DEF Same
    <2> QED BY <1>3, <1>7, <2>3, <2>4, DateComesBack DEF ReadsBack, WhenNull
  <1>8. CASE ran.type = "datetime"
    <2>1. b = Column("datetime", DateTimeOf(v, ran.unit))
      BY <1>2, <1>8 DEF Bound
    <2>2. c.type = "datetime" /\ (~c.null => c.data = DateTimeOf(v, ran.unit))
      BY <1>2, <1>3, <2>1
    <2>3. FromColumn(c, value) = IF c.null THEN Keeps
                            ELSE Gives(DateTimeFrom(DateTimeOf(v, ran.unit), ran.unit))
      BY <1>8, <2>2 DEF FromColumn
    <2>4. Same(ran, DateTimeFrom(DateTimeOf(v, ran.unit), ran.unit))
      <3>1. CASE ran.unit \in {1, UsecPerSec}
        BY <1>2, <1>8, <3>1, DateTimeComesBack DEF Same
      <3>2. CASE ran.unit \notin {1, UsecPerSec}
        BY <1>8, <3>2 DEF Same
      <3> QED BY <3>1, <3>2
    <2> QED BY <1>3, <1>8, <2>3, <2>4 DEF ReadsBack, WhenNull
  <1> QED BY <1>1, <1>4, <1>5, <1>6, <1>7, <1>8 DEF Types, TimeTypes

-----------------------------------------------------------------------------
(* A statement while it is used                                            *)

\* The parameters that are bound are those that the request has asked for.
AskedBound(st, d) ==
    /\ st.paramIndex = Len(d.asked)
    /\ \A i \in 1..Len(d.asked) : st.bind[i] = Bound(d.asked[i])

\* A row of what the statement was executed with.
RowOf(row, ran) ==
    /\ Len(row) = NumParams /\ Len(ran) <= NumParams
    /\ \A i \in 1..Len(ran) : Returned(row[i], ran[i])

ReadFrom(c, g) ==
    /\ g.value.type # "null"
    /\ (g.value.type \in {"none", "bytes"} \/ g.result = FromColumn(c, g.value))

\* The rows are of the last execution, and the columns are read one by one.
RowsRead(st, d) ==
    /\ d.stage # "prepared" => \A j \in 1..Len(st.rows) : RowOf(st.rows[j], d.ran)
    /\ d.stage = "fetched" =>
         /\ RowOf(st.row, d.ran) /\ st.resultIndex = Len(d.got) /\ Len(d.got) <= NumParams
         /\ \A i \in 1..Len(d.got) : ReadFrom(st.row[i], d.got[i])
    /\ d.stage # "fetched" => d.got = <<>>

ColumnsInv ==
    \A s \in SQLs : /\ Usable(s) => AskedBound(stmt[s], use[s])
                    /\ RowsRead(stmt[s], use[s])

LEMMA NotUsed ==
    ASSUME NEW st
    PROVE  /\ RowsRead(st, NoUse)
           /\ st.paramIndex = 0 => AskedBound(st, NoUse)
  BY EmptySeq DEF RowsRead, AskedBound, NoUse

\* Where the statement is not touched, or forgotten.
LEMMA ColumnsKept ==
    ASSUME ColumnsInv,
           \A s \in SQLs : \/ stmt'[s] = stmt[s] /\ use'[s] = use[s] /\ (Usable(s)' => Usable(s))
                           \/ use'[s] = NoUse /\ (Usable(s)' => stmt'[s].paramIndex = 0)
    PROVE  ColumnsInv'
  BY NotUsed DEF ColumnsInv

LEMMA ColumnsUsed ==
    ASSUME ColumnsInv, DatabaseTypeOK, NEW s \in SQLs, NEW st, NEW d, Uses(s, st, d),
           AskedBound(st, d), RowsRead(st, d)
    PROVE  ColumnsInv'
  <1>1. \A t \in SQLs : Usable(t)' <=> Usable(t)
    BY DEF Uses, Usable, cache, requests
  <1>2. stmt'[s] = st /\ use'[s] = d
    BY DEF Uses, DatabaseTypeOK
  <1>3. \A t \in SQLs \ {s} : stmt'[t] = stmt[t] /\ use'[t] = use[t]
    BY DEF Uses, DatabaseTypeOK
  <1> QED BY <1>1, <1>2, <1>3 DEF ColumnsInv

LEMMA BindColumns ==
    ASSUME NEW st \in Statements, NEW d \in Usages, NEW value \in Values, NEW e,
           e = IF Len(Append(d.asked, value)) <= NumParams
               THEN [d EXCEPT !.asked = Append(d.asked, value)] ELSE d,
           AskedBound(st, d), RowsRead(st, d)
    PROVE  AskedBound(bind(st, value), e) /\ RowsRead(bind(st, value), e)
  <1>1. PICK a \in Seq(Values), n \in Nat : a = d.asked /\ n = Len(a)
    BY UsageParts, LenProperties
  <1>2. PICK b \in Seq(Values) : b = Append(a, value)
    BY <1>1, AppendProperties
  <1>3. Len(b) = n + 1 /\ b[n + 1] = value /\ \A i \in 1..n : b[i] = a[i]
    BY <1>1, <1>2, AppendProperties
  <1>4. /\ st.paramIndex = n /\ \A i \in 1..n : st.bind[i] = Bound(a[i])
        /\ NumParams \in Nat /\ st.bind \in [1..NumParams -> Columns]
    BY <1>1, StatementParts, StatementUnits DEF AskedBound
  <1>5. CASE ~(n < NumParams)
    <2>1. bind(st, value) = st /\ e = d
      BY <1>1, <1>2, <1>3, <1>4, <1>5 DEF bind
    <2> QED BY <2>1
  <1>6. CASE n < NumParams
    <2>1. e = [d EXCEPT !.asked = b]
      BY <1>1, <1>2, <1>3, <1>4, <1>6
    <2>2. /\ e.asked = b /\ e.stage = d.stage /\ e.ran = d.ran /\ e.got = d.got
      BY <2>1 DEF Usages
    <2>3. PICK t : t = bind(st, value)
      OBVIOUS
    <2>4. t = [st EXCEPT !.bind[n + 1] = Bound(value), !.paramIndex = @ + 1]
      BY <1>4, <1>6, <2>3 DEF bind
    <2>5. /\ t.paramIndex = n + 1 /\ t.rows = st.rows /\ t.row = st.row
          /\ t.resultIndex = st.resultIndex
          /\ t.bind = [st.bind EXCEPT ![n + 1] = Bound(value)]
      BY <1>4, <2>4 DEF Statements
    <2>6. n + 1 \in 1..NumParams
      BY <1>4, <1>6
    <2>7. \A i \in 1..n + 1 : t.bind[i] = Bound(b[i])
      <3> TAKE i \in 1..n + 1
      <3>1. CASE i = n + 1
        BY <1>3, <1>4, <2>5, <2>6, <3>1
      <3>2. CASE i \in 1..n
        <4>1. i \in 1..NumParams /\ i # n + 1
          BY <1>4, <1>6, <3>2
        <4> QED BY <1>3, <1>4, <2>5, <2>6, <3>2, <4>1
      <3> QED BY <3>1, <3>2
    <2>8. AskedBound(t, e)
      BY <1>3, <2>2, <2>5, <2>7 DEF AskedBound
    <2>9. RowsRead(t, e)
      BY <2>2, <2>5 DEF RowsRead
    <2> QED BY <2>3, <2>8, <2>9
  <1> QED BY <1>5, <1>6

\* Rows that MySQL returns.
LEMMA RowsReturned ==
    ASSUME NEW st \in Statements, NEW d \in Usages, AskedBound(st, d),
           NEW rows \in RowsOf(st.bind)
    PROVE  \A j \in 1..Len(rows) : RowOf(rows[j], d.asked)
  <1>1. PICK b, nulls : /\ b = st.bind
                        /\ nulls = [i \in DOMAIN b |-> NullColumn(b[i].type)]
    OBVIOUS
  <1>2. PICK m \in 0..MaxRows : rows \in [1..m -> {b, nulls}]
    BY <1>1 DEF RowsOf, BoundedSeq, SeqOf
  <1>3. PICK n \in Nat : n = NumParams
    BY StatementUnits
  <1>4. b \in [1..n -> Columns] /\ b \in Seq(Columns) /\ Len(b) = n
    <2>1. b \in [1..n -> Columns]
      BY <1>1, <1>3, StatementParts
    <2> QED BY ONLY <1>3, <2>1
  <1>5. nulls \in Seq(Columns) /\ Len(nulls) = n
    <2>1. \A i \in 1..n : NullColumn(b[i].type) \in Columns
      BY <1>4, NullColumnType DEF Columns
    <2>2. nulls \in [1..n -> Columns]
      BY <1>1, <1>4, <2>1
    <2> QED BY ONLY <1>3, <2>2
  <1>6. PICK a \in Seq(Values), k \in Nat : a = d.asked /\ k = Len(a)
    BY UsageParts, LenProperties
  <1>7. k <= n /\ \A i \in 1..k : i \in 1..n /\ b[i] = Bound(a[i])
    BY <1>1, <1>3, <1>6, StatementParts DEF AskedBound
  <1>8. RowOf(b, a)
    BY <1>3, <1>4, <1>6, <1>7 DEF RowOf, Returned
  <1>9. RowOf(nulls, a)
    <2>1. \A i \in 1..k : nulls[i] = NullColumn(Bound(a[i]).type)
      BY <1>1, <1>4, <1>7
    <2> QED BY <1>3, <1>5, <1>6, <1>7, <2>1 DEF RowOf, Returned
  <1>10. Len(rows) = m
    <2>1. m \in Nat
      BY <1>2, DatabaseAssumption
    <2> QED BY <1>2, <2>1
  <1>11. \A j \in 1..m : rows[j] \in {b, nulls}
    BY <1>2
  <1> QED BY <1>6, <1>8, <1>9, <1>10, <1>11

LEMMA ExecuteColumns ==
    ASSUME NEW st \in Statements, NEW d \in Usages, NEW rows \in RowsOf(st.bind), NEW e,
           e = [d EXCEPT !.stage = "executed", !.ran = d.asked, !.got = <<>>],
           AskedBound(st, d)
    PROVE  AskedBound(execute(st, rows), e) /\ RowsRead(execute(st, rows), e)
  <1>1. \A j \in 1..Len(rows) : RowOf(rows[j], d.asked)
    BY RowsReturned
  <1>2. /\ e.asked = d.asked /\ e.ran = d.asked /\ e.stage = "executed" /\ e.got = <<>>
    BY DEF Usages
  <1>3. PICK t : t = execute(st, rows)
    OBVIOUS
  <1>4. t.paramIndex = st.paramIndex /\ t.bind = st.bind /\ t.rows = rows
    BY <1>3 DEF execute, Statements
  <1>5. AskedBound(t, e)
    BY <1>2, <1>4 DEF AskedBound
  <1>6. RowsRead(t, e)
    BY <1>1, <1>2, <1>4 DEF RowsRead
  <1> QED BY <1>3, <1>5, <1>6

LEMMA ExecuteFailsColumns ==
    ASSUME NEW st \in Statements, NEW d \in Usages, NEW rows, NEW e,
           e = [d EXCEPT !.stage = "prepared", !.got = <<>>], AskedBound(st, d)
    PROVE  AskedBound(execute(st, rows), e) /\ RowsRead(execute(st, rows), e)
  <1>1. e.asked = d.asked /\ e.stage = "prepared" /\ e.got = <<>>
    BY DEF Usages
  <1>2. PICK t : t = execute(st, rows)
    OBVIOUS
  <1>3. t.paramIndex = st.paramIndex /\ t.bind = st.bind
    BY <1>2 DEF execute, Statements
  <1>4. AskedBound(t, e) /\ RowsRead(t, e)
    BY <1>1, <1>3 DEF AskedBound, RowsRead
  <1> QED BY <1>2, <1>4

LEMMA NextRowColumns ==
    ASSUME NEW st \in Statements, NEW d \in Usages, NEW e,
           e = [d EXCEPT !.stage = "fetched", !.got = <<>>],
           d.stage # "prepared", st.rows # <<>>, AskedBound(st, d), RowsRead(st, d)
    PROVE  AskedBound(nextRow(st), e) /\ RowsRead(nextRow(st), e)
  <1>1. /\ e.asked = d.asked /\ e.ran = d.ran /\ e.stage = "fetched" /\ e.got = <<>>
    BY DEF Usages
  <1>2. PICK t : t = nextRow(st)
    OBVIOUS
  <1>3. /\ t.paramIndex = st.paramIndex /\ t.bind = st.bind /\ t.rows = Tail(st.rows)
        /\ t.row = Head(st.rows) /\ t.resultIndex = 0
    BY <1>2 DEF nextRow, Statements
  <1>4. AskedBound(t, e)
    BY <1>1, <1>3 DEF AskedBound
  <1>5. PICK q \in Seq(Seq(Columns)) : q = st.rows
    BY StatementParts
  <1>6. /\ Len(q) \in Nat \ {0} /\ Head(q) = q[1] /\ Len(Tail(q)) = Len(q) - 1
        /\ \A i \in 1..Len(Tail(q)) : Tail(q)[i] = q[i + 1]
    BY <1>5, HeadTailProperties, EmptySeq, LenProperties
  <1>7. \A j \in 1..Len(q) : RowOf(q[j], d.ran)
    BY <1>5 DEF RowsRead
  <1>8. RowOf(t.row, e.ran)
    BY <1>1, <1>3, <1>5, <1>6, <1>7
  <1>9. \A j \in 1..Len(t.rows) : RowOf(t.rows[j], e.ran)
    <2> TAKE j \in 1..Len(t.rows)
    <2>1. j \in 1..Len(Tail(q)) /\ j + 1 \in 1..Len(q)
      BY <1>3, <1>5, <1>6
    <2> QED BY <1>1, <1>3, <1>5, <1>6, <1>7, <2>1
  <1>10. Len(e.got) = 0 /\ NumParams \in Nat
    BY <1>1, EmptySeq, StatementUnits
  <1>11. RowsRead(t, e)
    BY <1>1, <1>3, <1>8, <1>9, <1>10 DEF RowsRead
  <1> QED BY <1>2, <1>4, <1>11

\* One more column is read, or skipped.
LEMMA ReadColumns ==
    ASSUME NEW st \in Statements, NEW t \in Statements, NEW d \in Usages, NEW e,
           NEW g \in Readings, d.stage = "fetched", Len(d.got) < NumParams,
           AskedBound(st, d), RowsRead(st, d),
           e = [d EXCEPT !.got = Append(d.got, g)],
           t = [st EXCEPT !.resultIndex = st.resultIndex + 1],
           ReadFrom(st.row[Len(d.got) + 1], g)
    PROVE  AskedBound(t, e) /\ RowsRead(t, e)
  <1>1. PICK a \in Seq(Readings), n \in Nat : a = d.got /\ n = Len(a)
    BY UsageParts, LenProperties
  <1>2. PICK b \in Seq(Readings) : b = Append(a, g)
    BY <1>1, AppendProperties
  <1>3. Len(b) = n + 1 /\ b[n + 1] = g /\ \A i \in 1..n : b[i] = a[i]
    BY <1>1, <1>2, AppendProperties
  <1>4. /\ e.asked = d.asked /\ e.ran = d.ran /\ e.stage = "fetched" /\ e.got = b
    BY <1>1, <1>2 DEF Usages
  <1>5. /\ t.paramIndex = st.paramIndex /\ t.bind = st.bind /\ t.rows = st.rows
        /\ t.row = st.row /\ t.resultIndex = st.resultIndex + 1
    BY DEF Statements
  <1>6. AskedBound(t, e)
    BY <1>4, <1>5 DEF AskedBound
  <1>7. /\ \A j \in 1..Len(st.rows) : RowOf(st.rows[j], d.ran)
        /\ RowOf(st.row, d.ran) /\ st.resultIndex = n
        /\ \A i \in 1..n : ReadFrom(st.row[i], a[i])
    BY <1>1 DEF RowsRead
  <1>8. \A i \in 1..n + 1 : ReadFrom(st.row[i], b[i])
    <2> TAKE i \in 1..n + 1
    <2>1. CASE i = n + 1
      BY <1>1, <1>3, <2>1
    <2>2. CASE i \in 1..n
      BY <1>3, <1>7, <2>2
    <2> QED BY <2>1, <2>2
  <1>9. Len(b) <= NumParams
    BY <1>1, <1>3, StatementUnits
  <1>10. RowsRead(t, e)
    BY <1>3, <1>4, <1>5, <1>7, <1>8, <1>9 DEF RowsRead
  <1> QED BY <1>6, <1>10

\* A column that is asked for is there.
LEMMA ColumnThere ==
    ASSUME NEW st \in Statements, NEW d \in Usages, d.stage = "fetched",
           Len(d.got) < NumParams, RowsRead(st, d), NEW value
    PROVE  /\ AfterRead(st) = [st EXCEPT !.resultIndex = st.resultIndex + 1]
           /\ Read(st, value) = FromColumn(st.row[Len(d.got) + 1], value)
  <1>1. st.resultIndex = Len(d.got) /\ Len(st.row) = NumParams
    BY DEF RowsRead, RowOf
  <1> QED BY <1>1 DEF AfterRead, Read

LEMMA UsesColumns ==
    ASSUME DatabaseTypeOK, ColumnsInv, NEW s \in SQLs
    PROVE  /\ stmt[s] \in Statements /\ use[s] \in Usages
           /\ Usable(s) => AskedBound(stmt[s], use[s])
           /\ RowsRead(stmt[s], use[s])
  BY DEF DatabaseTypeOK, ColumnsInv

LEMMA BindStep ==
    ASSUME DatabaseTypeOK, ColumnsInv, NEW s \in SQLs, NEW value \in load.values,
           Bind(s, value)
    PROVE  ColumnsInv'
  <1>1. value \in Values
    BY DatabaseAssumption DEF DatabaseTypeOK
  <1>2. PICK st, d : /\ st = bind(stmt[s], value)
                     /\ d = IF Len(Append(use[s].asked, value)) <= NumParams
                            THEN [use[s] EXCEPT !.asked = Append(use[s].asked, value)]
                            ELSE use[s]
    OBVIOUS
  <1>3. Uses(s, st, d)
    BY <1>2 DEF Bind
  <1>4. Usable(s)
    BY <1>3 DEF Uses
  <1>5. AskedBound(st, d) /\ RowsRead(st, d)
    BY <1>1, <1>2, <1>4, UsesColumns, BindColumns
  <1> QED BY <1>3, <1>5, ColumnsUsed

LEMMA ExecuteStep ==
    ASSUME DatabaseTypeOK, ColumnsInv, NEW s \in SQLs, Execute(s)
    PROVE  ColumnsInv'
  <1>1. PICK d : d = [use[s] EXCEPT !.stage = "executed", !.ran = use[s].asked, !.got = <<>>]
    OBVIOUS
  <1>2. PICK rows \in RowsOf(stmt[s].bind) : Uses(s, execute(stmt[s], rows), d)
    BY <1>1 DEF Execute
  <1>3. Usable(s)
    BY <1>2 DEF Uses
  <1>4. AskedBound(execute(stmt[s], rows), d) /\ RowsRead(execute(stmt[s], rows), d)
    <2>1. stmt[s] \in Statements /\ use[s] \in Usages /\ AskedBound(stmt[s], use[s])
      BY <1>3, UsesColumns
    <2>2. PICK st, u : st = stmt[s] /\ u = use[s]
      OBVIOUS
    <2>3. /\ st \in Statements /\ u \in Usages /\ AskedBound(st, u)
          /\ rows \in RowsOf(st.bind)
          /\ d = [u EXCEPT !.stage = "executed", !.ran = u.asked, !.got = <<>>]
      BY <1>1, <2>1, <2>2
    <2>4. AskedBound(execute(st, rows), d) /\ RowsRead(execute(st, rows), d)
      BY ONLY <2>3, ExecuteColumns
    <2> QED BY <2>2, <2>4
  <1> QED BY <1>2, <1>4, ColumnsUsed

LEMMA ExecuteFailsStep ==
    ASSUME DatabaseTypeOK, ColumnsInv, NEW s \in SQLs, ExecuteFails(s)
    PROVE  ColumnsInv'
  <1>1. PICK d : d = [use[s] EXCEPT !.stage = "prepared", !.got = <<>>]
    OBVIOUS
  <1>2. Uses(s, execute(stmt[s], <<>>), d)
    BY <1>1 DEF ExecuteFails
  <1>3. Usable(s)
    BY <1>2 DEF Uses
  <1>4. AskedBound(execute(stmt[s], <<>>), d) /\ RowsRead(execute(stmt[s], <<>>), d)
    <2>1. stmt[s] \in Statements /\ use[s] \in Usages /\ AskedBound(stmt[s], use[s])
      BY <1>3, UsesColumns
    <2>2. PICK st, u : st = stmt[s] /\ u = use[s]
      OBVIOUS
    <2>3. /\ st \in Statements /\ u \in Usages /\ AskedBound(st, u)
          /\ d = [u EXCEPT !.stage = "prepared", !.got = <<>>]
      BY <1>1, <2>1, <2>2
    <2>4. AskedBound(execute(st, <<>>), d) /\ RowsRead(execute(st, <<>>), d)
      BY ONLY <2>3, ExecuteFailsColumns
    <2> QED BY <2>2, <2>4
  <1> QED BY <1>2, <1>4, ColumnsUsed

LEMMA NextRowStep ==
    ASSUME DatabaseTypeOK, ColumnsInv, NEW s \in SQLs, NextRow(s)
    PROVE  ColumnsInv'
  <1>1. PICK d : d = [use[s] EXCEPT !.stage = "fetched", !.got = <<>>]
    OBVIOUS
  <1>2. Uses(s, nextRow(stmt[s]), d) /\ use[s].stage # "prepared" /\ stmt[s].rows # <<>>
    BY <1>1 DEF NextRow
  <1>3. Usable(s)
    BY <1>2 DEF Uses
  <1>4. AskedBound(nextRow(stmt[s]), d) /\ RowsRead(nextRow(stmt[s]), d)
    BY <1>1, <1>2, <1>3, UsesColumns, NextRowColumns
  <1> QED BY <1>2, <1>4, ColumnsUsed

LEMMA ReadColumnStep ==
    ASSUME DatabaseTypeOK, ColumnsInv, NEW s \in SQLs,
           NEW value \in load.values \cup {Value("num", 0, 1)}, ReadColumn(s, value)
    PROVE  ColumnsInv'
  <1>1. /\ stmt[s] \in Statements /\ use[s] \in Usages /\ RowsRead(stmt[s], use[s])
        /\ use[s].stage = "fetched" /\ Len(use[s].got) < NumParams
    BY UsesColumns DEF ReadColumn
  <1>2. value \in Values /\ value.type # "null"
    BY AskedType DEF ReadColumn
  <1>3. PICK g \in Readings : g = Got(value, Read(stmt[s], value))
    BY <1>1, <1>2, GotType, ReadType
  <1>4. PICK t \in Statements : t = AfterRead(stmt[s])
    BY <1>1, AfterReadType
  <1>5. PICK d : d = [use[s] EXCEPT !.got = Append(use[s].got, g)]
    OBVIOUS
  <1>6. Uses(s, t, d)
    BY <1>3, <1>4, <1>5 DEF ReadColumn
  <1>7. Usable(s)
    BY <1>6 DEF Uses
  <1>8. /\ t = [stmt[s] EXCEPT !.resultIndex = stmt[s].resultIndex + 1]
        /\ Read(stmt[s], value) = FromColumn(stmt[s].row[Len(use[s].got) + 1], value)
    BY <1>1, <1>4, ColumnThere
  <1>9. ReadFrom(stmt[s].row[Len(use[s].got) + 1], g)
    BY <1>2, <1>3, <1>8 DEF ReadFrom, Got
  <1>10. AskedBound(t, d) /\ RowsRead(t, d)
    <2>1. AskedBound(stmt[s], use[s])
      BY <1>7, UsesColumns
    <2>2. PICK st, u : st = stmt[s] /\ u = use[s]
      OBVIOUS
    <2>3. /\ st \in Statements /\ u \in Usages /\ AskedBound(st, u) /\ RowsRead(st, u)
          /\ u.stage = "fetched" /\ Len(u.got) < NumParams
          /\ d = [u EXCEPT !.got = Append(u.got, g)]
          /\ t = [st EXCEPT !.resultIndex = st.resultIndex + 1]
          /\ ReadFrom(st.row[Len(u.got) + 1], g)
      BY <1>1, <1>5, <1>8, <1>9, <2>1, <2>2
    <2>4. t \in Statements /\ g \in Readings
      OBVIOUS
    <2> QED BY ONLY <2>3, <2>4, ReadColumns
  <1> QED BY <1>6, <1>10, ColumnsUsed

LEMMA ReadAppendingStep ==
    ASSUME DatabaseTypeOK, ColumnsInv, NEW s \in SQLs, ReadAppending(s)
    PROVE  ColumnsInv'
  <1>1. /\ stmt[s] \in Statements /\ use[s] \in Usages /\ RowsRead(stmt[s], use[s])
        /\ use[s].stage = "fetched" /\ Len(use[s].got) < NumParams
    BY UsesColumns DEF ReadAppending
  <1>2. PICK g \in Readings : g = Got(Value("bytes", 0, 1), ReadBehind(stmt[s]))
    BY <1>1, GotType, ReadBehindType
  <1>3. PICK t \in Statements : t = AfterRead(stmt[s])
    BY <1>1, AfterReadType
  <1>4. PICK d : d = [use[s] EXCEPT !.got = Append(use[s].got, g)]
    OBVIOUS
  <1>5. Uses(s, t, d)
    BY <1>2, <1>3, <1>4 DEF ReadAppending
  <1>6. Usable(s)
    BY <1>5 DEF Uses
  <1>7. t = [stmt[s] EXCEPT !.resultIndex = stmt[s].resultIndex + 1]
    BY <1>1, <1>3, ColumnThere
  <1>8. ReadFrom(stmt[s].row[Len(use[s].got) + 1], g)
    BY <1>2 DEF ReadFrom, Got, Value
  <1>9. AskedBound(t, d) /\ RowsRead(t, d)
    <2>1. AskedBound(stmt[s], use[s])
      BY <1>6, UsesColumns
    <2>2. PICK st, u : st = stmt[s] /\ u = use[s]
      OBVIOUS
    <2>3. /\ st \in Statements /\ u \in Usages /\ AskedBound(st, u) /\ RowsRead(st, u)
          /\ u.stage = "fetched" /\ Len(u.got) < NumParams
          /\ d = [u EXCEPT !.got = Append(u.got, g)]
          /\ t = [st EXCEPT !.resultIndex = st.resultIndex + 1]
          /\ ReadFrom(st.row[Len(u.got) + 1], g)
      BY <1>1, <1>4, <1>7, <1>8, <2>1, <2>2
    <2>4. t \in Statements /\ g \in Readings
      OBVIOUS
    <2> QED BY ONLY <2>3, <2>4, ReadColumns
  <1> QED BY <1>5, <1>9, ColumnsUsed

LEMMA SkipColumnStep ==
    ASSUME DatabaseTypeOK, ColumnsInv, NEW s \in SQLs, SkipColumn(s)
    PROVE  ColumnsInv'
  <1>1. /\ stmt[s] \in Statements /\ use[s] \in Usages /\ RowsRead(stmt[s], use[s])
        /\ use[s].stage = "fetched" /\ Len(use[s].got) < NumParams
    BY UsesColumns DEF SkipColumn
  <1>2. PICK g \in Readings : g = Got(Value("none", 0, 1), Keeps)
    BY GotType, GivesType
  <1>3. PICK t \in Statements : t = skipFields(stmt[s], 1)
    BY <1>1, AfterReadType
  <1>4. PICK d : d = [use[s] EXCEPT !.got = Append(use[s].got, g)]
    OBVIOUS
  <1>5. Uses(s, t, d)
    BY <1>2, <1>3, <1>4 DEF SkipColumn
  <1>6. Usable(s)
    BY <1>5 DEF Uses
  <1>7. t = [stmt[s] EXCEPT !.resultIndex = stmt[s].resultIndex + 1]
    BY <1>3 DEF skipFields
  <1>8. ReadFrom(stmt[s].row[Len(use[s].got) + 1], g)
    BY <1>2 DEF ReadFrom, Got, Value
  <1>9. AskedBound(t, d) /\ RowsRead(t, d)
    <2>1. AskedBound(stmt[s], use[s])
      BY <1>6, UsesColumns
    <2>2. PICK st, u : st = stmt[s] /\ u = use[s]
      OBVIOUS
    <2>3. /\ st \in Statements /\ u \in Usages /\ AskedBound(st, u) /\ RowsRead(st, u)
          /\ u.stage = "fetched" /\ Len(u.got) < NumParams
          /\ d = [u EXCEPT !.got = Append(u.got, g)]
          /\ t = [st EXCEPT !.resultIndex = st.resultIndex + 1]
          /\ ReadFrom(st.row[Len(u.got) + 1], g)
      BY <1>1, <1>4, <1>7, <1>8, <2>1, <2>2
    <2>4. t \in Statements /\ g \in Readings
      OBVIOUS
    <2> QED BY ONLY <2>3, <2>4, ReadColumns
  <1> QED BY <1>5, <1>9, ColumnsUsed

\* prepare() and clear() begin anew.
LEMMA ClearedColumns ==
    ASSUME DatabaseTypeOK, ColumnsInv, NEW s \in SQLs, Cleared(s),
           \A t \in SQLs \ {s} : Usable(t)' => Usable(t)
    PROVE  ColumnsInv'
  <1>1. use'[s] = NoUse /\ stmt'[s].paramIndex = 0
    <2>1. stmt'[s] = clear(stmt[s]) /\ use'[s] = NoUse /\ stmt[s] \in Statements
      BY DEF Cleared, DatabaseTypeOK
    <2> QED BY <2>1 DEF clear, Statements
  <1>2. \A t \in SQLs \ {s} : stmt'[t] = stmt[t] /\ use'[t] = use[t]
    BY DEF Cleared, DatabaseTypeOK
  <1> QED BY <1>1, <1>2, ColumnsKept

LEMMA PrepareColumns ==
    ASSUME DatabaseTypeOK, ColumnsInv, NEW s \in SQLs,
           PrepareHit(s) \/ PrepareMiss(s) \/ FreeStatement(s) \/ ClearStatement(s)
    PROVE  ColumnsInv'
  <1>1. CASE PrepareHit(s)
    <2>1. /\ Range(stmtCache') = Range(stmtCache) \cup {s}
          /\ Range(held') = Range(held) \cup {s}
      BY <1>1, UsedProperties DEF PrepareHit, DatabaseTypeOK
    <2>2. \A t \in SQLs \ {s} : Usable(t)' => Usable(t)
      BY <2>1 DEF Usable
    <2> QED BY <1>1, <2>2, ClearedColumns DEF PrepareHit
  <1>2. CASE PrepareMiss(s)
    <2>1. PICK e : e = Evicted(stmtCache)
      OBVIOUS
    <2>2. e \in Seq(SQLs) /\ Range(e) \subseteq Range(stmtCache)
      BY <2>1, EvictedProperties
    <2>3. Range(stmtCache') = Range(e) \cup {s}
      BY <1>2, <2>1, <2>2, AppendFresh DEF PrepareMiss
    <2>4. Range(held') = Range(held) \cup {s}
      BY <1>2, UsedProperties DEF PrepareMiss, DatabaseTypeOK
    <2>5. /\ s \in Range(stmtCache') /\ s \notin Range(stmtCache)
          /\ stmt'[s] = stmt[s] /\ use'[s] = use[s]
      BY <1>2, <2>3 DEF PrepareMiss
    <2>6. use'[s] = NoUse /\ stmt'[s].paramIndex = 0
      BY <2>5 DEF DatabaseTypeOK, NewStatement
    <2>7. ASSUME NEW t \in SQLs \ {s}
          PROVE  \/ stmt'[t] = stmt[t] /\ use'[t] = use[t] /\ (Usable(t)' => Usable(t))
                 \/ use'[t] = NoUse /\ (Usable(t)' => stmt'[t].paramIndex = 0)
      <3>1. CASE t \in Range(stmtCache')
        <4>1. stmt'[t] = stmt[t] /\ use'[t] = use[t]
          BY <1>2, <3>1 DEF PrepareMiss
        <4>2. Usable(t)' => Usable(t)
          BY <2>2, <2>3, <2>4 DEF Usable
        <4> QED BY <4>1, <4>2
      <3>2. CASE t \notin Range(stmtCache')
        <4>1. use'[t] = NoUse
          BY <1>2, <3>2 DEF PrepareMiss
        <4> QED BY <3>2, <4>1 DEF Usable
      <3> QED BY <3>1, <3>2
    <2> QED BY <2>6, <2>7, ColumnsKept
  <1>3. CASE FreeStatement(s)
    <2>1. Range(stmtCache') \subseteq Range(stmtCache) /\ held' = held
      BY <1>3, WithoutProperties DEF FreeStatement, DatabaseTypeOK
    <2>2. ASSUME NEW t \in SQLs
          PROVE  \/ stmt'[t] = stmt[t] /\ use'[t] = use[t] /\ (Usable(t)' => Usable(t))
                 \/ use'[t] = NoUse /\ (Usable(t)' => stmt'[t].paramIndex = 0)
      BY <1>3, <2>1 DEF FreeStatement, OnlyCached, Usable
    <2> QED BY <2>2, ColumnsKept
  <1>4. CASE ClearStatement(s)
    <2>1. \A t \in SQLs \ {s} : Usable(t)' => Usable(t)
      BY <1>4 DEF ClearStatement, Usable, cache, requests
    <2> QED BY <1>4, <2>1, ClearedColumns DEF ClearStatement
  <1> QED BY <1>1, <1>2, <1>3, <1>4

LEMMA ColumnsForgotten ==
    ASSUME ColumnsInv, held' = <<>>,
           \A s \in SQLs : use'[s] = NoUse
    PROVE  ColumnsInv'
  <1>1. \A s \in SQLs : ~ Usable(s)'
    BY NoStatements DEF Usable
  <1> QED BY <1>1, ColumnsKept

LEMMA ColumnsSame ==
    ASSUME ColumnsInv, UNCHANGED <<stmtCache, held, stmt, use>>
    PROVE  ColumnsInv'
  BY DEF ColumnsInv, Usable

LEMMA ColumnsInvStep ==
    ASSUME DatabaseTypeOK, ColumnsInv, [DatabaseNext]_databaseVars
    PROVE  ColumnsInv'
  <1>1. CASE logon \/ logoff \/ ClearCache
    <2>1. stmtCache' = <<>> /\ held' = <<>> /\ OnlyCached
      BY <1>1 DEF logon, logoff, Close, ClearCache
    <2>2. \A s \in SQLs : use'[s] = NoUse
      BY <2>1, NoStatements DEF OnlyCached
    <2> QED BY <2>1, <2>2, ColumnsForgotten
  <1>2. CASE NextRequest
    BY <1>2, ColumnsForgotten DEF NextRequest
  <1>3. CASE ConnectionLost \/ ChangeDatabase \/ UNCHANGED databaseVars
    BY <1>3, ColumnsSame
       DEF ConnectionLost, ChangeDatabase, databaseVars, cache, requests, statements
  <1>4. ASSUME NEW s \in SQLs,
               PrepareHit(s) \/ PrepareMiss(s) \/ FreeStatement(s) \/ ClearStatement(s)
        PROVE  ColumnsInv'
    BY <1>4, PrepareColumns
  <1>5. ASSUME NEW s \in SQLs, Execute(s) \/ ExecuteFails(s) \/ NextRow(s) \/ ReadAppending(s)
                           \/ SkipColumn(s)
        PROVE  ColumnsInv'
    BY <1>5, ExecuteStep, ExecuteFailsStep, NextRowStep, ReadAppendingStep, SkipColumnStep
  <1>6. ASSUME NEW s \in SQLs, NEW value \in load.values, Bind(s, value)
        PROVE  ColumnsInv'
    BY <1>6, BindStep
  <1>7. ASSUME NEW s \in SQLs, NEW value \in load.values \cup {Value("num", 0, 1)},
               ReadColumn(s, value)
        PROVE  ColumnsInv'
    BY <1>7, ReadColumnStep
  <1>8. ASSUME NEW age, NEW n, Queries(age, n)
        PROVE  ColumnsInv'
    BY <1>8, ColumnsSame DEF Queries, cache, requests, statements
  <1>9. ASSUME NEW kind, NextRecordset(kind) \/ \E n \in 0..MaxResultSets : Query(kind, n)
        PROVE  ColumnsInv'
    BY <1>8, <1>9 DEF NextRecordset, Query
  <1>10. CASE QueryFails
    BY <1>8, <1>10 DEF QueryFails
  <1>11. CASE GetLastRecord
    BY <1>11, ColumnsSame DEF GetLastRecord, cache, requests, statements
  <1>12. ASSUME NEW r, NEW f, Reads(r, f)
         PROVE  ColumnsInv'
    BY <1>12, ColumnsSame DEF Reads, cache, requests, statements
  <1>13. CASE NextRecord \/ SkipField \/ \E type \in {"num", "string", "blob"} : ReadRecord(type)
    BY <1>12, <1>13 DEF NextRecord, SkipField, ReadRecord
  <1> QED BY <1>1, <1>2, <1>3, <1>4, <1>5, <1>6, <1>7, <1>9, <1>10, <1>11, <1>13
         DEF DatabaseNext

LEMMA ColumnsInvReadBack ==
    ASSUME DatabaseTypeOK, ColumnsInv
    PROVE  ColumnsReadBack
  <1> SUFFICES ASSUME NEW s \in SQLs, NEW i \in 1..Len(use[s].got),
                      i <= Len(use[s].ran),
                      use[s].got[i].value.type = use[s].ran[i].type,
                      use[s].got[i].value.unit = use[s].ran[i].unit
               PROVE  IF stmt[s].row[i].null
                      THEN use[s].got[i].result = WhenNull(use[s].ran[i].type)
                      ELSE /\ use[s].got[i].result.given
                           /\ Same(use[s].ran[i], use[s].got[i].result.v)
    BY DEF ColumnsReadBack
  <1>1. use[s] \in Usages /\ RowsRead(stmt[s], use[s])
    BY UsesColumns
  <1>2. PICK ran \in Seq(Values), got \in Seq(Readings) : ran = use[s].ran /\ got = use[s].got
    BY <1>1, UsageParts
  <1>3. i \in 1..Len(got) /\ Len(got) \in Nat /\ Len(ran) \in Nat
    BY <1>2, LenProperties
  <1>4. i \in 1..Len(ran)
    BY <1>2, <1>3
  <1>5. use[s].stage = "fetched"
    <2>1. got # <<>>
      BY <1>3, EmptySeq
    <2> QED BY <1>1, <1>2, <2>1 DEF RowsRead
  <1>6. PICK c, v : c = stmt[s].row[i] /\ v = ran[i]
    OBVIOUS
  <1>7. v \in Values
    BY <1>4, <1>6, ElementOfSeq
  <1>8. Returned(c, v)
    BY <1>1, <1>2, <1>4, <1>5, <1>6 DEF RowsRead, RowOf
  <1>9. ReadFrom(c, got[i])
    BY <1>1, <1>2, <1>3, <1>5, <1>6 DEF RowsRead
  <1>10. got[i].value.type = v.type /\ got[i].value.unit = v.unit
    BY <1>2, <1>6
  <1>11. v.type # "null" /\ v.type \notin {"none", "bytes"}
    BY <1>7, <1>9, <1>10 DEF ReadFrom, Values, Types, TimeTypes
  <1>12. got[i].result = FromColumn(c, got[i].value)
    BY <1>9, <1>10, <1>11 DEF ReadFrom
  <1>13. ReadsBack(c, v, got[i].result)
    BY <1>7, <1>8, <1>10, <1>11, <1>12, ReadsBackValue
  <1> QED BY <1>2, <1>6, <1>13 DEF ReadsBack

-----------------------------------------------------------------------------
(* What is read of a field is its own                                      *)

Numbered(row) == \A j \in 1..Len(row) : ~row[j].null => row[j].data[1] = j

\* Of the first n fields of a row, those that were read as blobs are blobs.
BlobsIn(f, row, n) == \A j \in 1..n : f[j].value.type = "blob" => row[j].type = "blob"

FieldsInv ==
    /\ \A k \in 1..Len(record.rows) : Numbered(record.rows[k])
    /\ Numbered(record.row)
    /\ BlobsIn(fields, record.row, Len(fields)) => record.fieldIndex = Len(fields)
    /\ \A i \in 1..Len(fields) :
         /\ i <= Len(record.row)
         /\ fields[i].value.type \in {"num", "string", "blob", "none"}
         /\ fields[i].value.type # "none" /\ BlobsIn(fields, record.row, i)
              => fields[i].result = FieldGives(record.row[i], fields[i].value.type)

LEMMA FieldsNone ==
    ASSUME fields' = <<>>, record'.fieldIndex = 0, Numbered(record'.row),
           \A k \in 1..Len(record'.rows) : Numbered(record'.rows[k])
    PROVE  FieldsInv'
  <1>1. Len(fields') = 0
    BY EmptySeq
  <1> QED BY <1>1 DEF FieldsInv

LEMMA NoRecord ==
    ASSUME NEW r, r = NewRecordset(<<>>)
    PROVE  /\ r.fieldIndex = 0 /\ Numbered(r.row)
           /\ \A k \in 1..Len(r.rows) : Numbered(r.rows[k])
  <1>1. Len(<<>>) = 0
    BY EmptySeq
  <1> QED BY <1>1 DEF NewRecordset, Numbered

LEMMA FieldsInit == DatabaseInit => FieldsInv
  <1> SUFFICES ASSUME DatabaseInit PROVE FieldsInv
    OBVIOUS
  <1>1. Len(fields) = 0
    BY EmptySeq DEF DatabaseInit
  <1>2. /\ record.fieldIndex = 0 /\ Numbered(record.row)
        /\ \A k \in 1..Len(record.rows) : Numbered(record.rows[k])
    BY NoRecord DEF DatabaseInit
  <1> QED BY <1>1, <1>2 DEF FieldsInv

LEMMA FieldsSame ==
    ASSUME FieldsInv, UNCHANGED <<record, fields>>
    PROVE  FieldsInv'
  BY DEF FieldsInv, BlobsIn

LEMMA GetLastRecordFields ==
    ASSUME DatabaseTypeOK, GetLastRecord
    PROVE  FieldsInv'
  <1>1. PICK types \in load.fields :
          \E rows \in RowsOf(FieldsOf(types)) : record' = NewRecordset(rows)
    BY DEF GetLastRecord, FieldsOf
  <1>2. types \in Seq({"num", "string", "blob"})
    BY <1>1, DatabaseAssumption DEF DatabaseTypeOK
  <1>3. PICK rows \in RowsOf(FieldsOf(types)) : record' = NewRecordset(rows)
    BY <1>1
  <1>4. PICK c, nulls : c = FieldsOf(types)
                        /\ nulls = [i \in DOMAIN c |-> NullColumn(c[i].type)]
    OBVIOUS
  <1>5. PICK m \in 0..MaxRows : rows \in [1..m -> {c, nulls}]
    BY <1>3, <1>4 DEF RowsOf, BoundedSeq, SeqOf
  <1>6. /\ c \in Seq(Columns) /\ DOMAIN c = DOMAIN types
        /\ \A i \in DOMAIN types : c[i] = Column(types[i], <<i>>)
    BY <1>2, <1>4, FieldsOfType DEF FieldsOf
  <1>7. PICK n \in Nat : n = Len(c) /\ DOMAIN c = 1..n
    BY <1>6, LenProperties
  <1>8. Numbered(c)
    <2>1. \A i \in 1..n : c[i].data[1] = i
      BY <1>6, <1>7 DEF Column
    <2> QED BY <1>7, <2>1 DEF Numbered
  <1>9. Numbered(nulls)
    <2>1. \A i \in 1..n : nulls[i].null
      BY <1>4, <1>7 DEF NullColumn
    <2>2. nulls \in [1..n -> {nulls[i] : i \in 1..n}]
      BY <1>4, <1>7
    <2>3. Len(nulls) = n
      BY <2>2
    <2> QED BY <2>1, <2>3 DEF Numbered
  <1>10. Len(rows) = m
    <2>1. m \in Nat
      BY <1>5, DatabaseAssumption
    <2> QED BY <1>5, <2>1
  <1>11. \A k \in 1..m : Numbered(rows[k])
    BY <1>5, <1>8, <1>9
  <1>12. /\ record'.fieldIndex = 0 /\ record'.row = <<>> /\ record'.rows = rows
    BY <1>3 DEF NewRecordset
  <1>13. Numbered(record'.row)
    BY <1>12, EmptySeq DEF Numbered
  <1>14. fields' = <<>>
    BY DEF GetLastRecord
  <1> QED BY <1>10, <1>11, <1>12, <1>13, <1>14, FieldsNone

LEMMA NextRecordFields ==
    ASSUME DatabaseTypeOK, FieldsInv, NextRecord
    PROVE  FieldsInv'
  <1>1. record' = nextRecord(record) /\ fields' = <<>> /\ record \in Recordsets
    BY DEF NextRecord, Reads, DatabaseTypeOK
  <1>2. CASE record.rows = <<>>
    <2>1. record'.fieldIndex = 0 /\ record'.row = <<>> /\ record'.rows = <<>>
      BY <1>1, <1>2 DEF nextRecord, Recordsets
    <2>2. Numbered(record'.row) /\ \A k \in 1..Len(record'.rows) : Numbered(record'.rows[k])
      BY <2>1, EmptySeq DEF Numbered
    <2> QED BY <1>1, <2>1, <2>2, FieldsNone
  <1>3. CASE record.rows # <<>>
    <2>1. PICK q \in Seq(Seq(Columns)) : q = record.rows
      BY <1>1 DEF Recordsets
    <2>2. record'.fieldIndex = 0 /\ record'.row = Head(q) /\ record'.rows = Tail(q)
      BY <1>1, <1>3, <2>1 DEF nextRecord
    <2>3. /\ Len(q) \in Nat \ {0} /\ Head(q) = q[1] /\ Len(Tail(q)) = Len(q) - 1
          /\ \A i \in 1..Len(Tail(q)) : Tail(q)[i] = q[i + 1]
      BY <1>3, <2>1, HeadTailProperties, EmptySeq, LenProperties
    <2>4. \A k \in 1..Len(q) : Numbered(q[k])
      BY <2>1 DEF FieldsInv
    <2>5. Numbered(record'.row)
      BY <2>2, <2>3, <2>4
    <2>6. \A k \in 1..Len(Tail(q)) : Numbered(Tail(q)[k])
      <3> TAKE k \in 1..Len(Tail(q))
      <3>1. k + 1 \in 1..Len(q)
        BY <2>3
      <3> QED BY <2>3, <2>4, <3>1
    <2> QED BY <1>1, <2>2, <2>5, <2>6, FieldsNone
  <1> QED BY <1>2, <1>3

\* One more field is read, or skipped.
LEMMA ReadFields ==
    ASSUME DatabaseTypeOK, FieldsInv, NEW r \in Recordsets, NEW g \in Readings,
           Reads(r, Append(fields, g)), r.rows = record.rows, r.row = record.row,
           g.value.type \in {"num", "string", "blob", "none"}, Len(fields) < Len(record.row),
           LET n == Len(fields)
           IN  record.fieldIndex = n
                 => /\ g.value.type = "blob" /\ r.fieldIndex # n + 1
                         => record.row[n + 1].type # "blob"
                    /\ g.value.type # "blob" => r.fieldIndex = n + 1
                    /\ g.value.type # "none"
                         => g.result = FieldGives(record.row[n + 1], g.value.type)
    PROVE  FieldsInv'
  <1>1. PICK f \in Seq(Readings), n \in Nat : f = fields /\ n = Len(f)
    BY LenProperties DEF DatabaseTypeOK
  <1>2. PICK b \in Seq(Readings) : b = Append(f, g)
    BY AppendProperties
  <1>3. Len(b) = n + 1 /\ b[n + 1] = g /\ \A i \in 1..n : b[i] = f[i]
    BY <1>1, <1>2, AppendProperties
  <1>4. record' = r /\ fields' = b
    BY <1>1, <1>2 DEF Reads
  <1>0. PICK row \in Seq(Columns) : row = record.row /\ record'.row = row
    BY <1>4 DEF DatabaseTypeOK, Recordsets
  <1>5. \A i \in 0..n : BlobsIn(b, row, i) <=> BlobsIn(f, row, i)
    <2> TAKE i \in 0..n
    <2>1. \A j \in 1..i : b[j] = f[j]
      BY <1>3
    <2> QED BY <2>1 DEF BlobsIn
  <1>6. BlobsIn(b, row, n + 1) => BlobsIn(f, row, n) /\ (g.value.type = "blob"
                                                          => row[n + 1].type = "blob")
    BY <1>3 DEF BlobsIn
  <1>7. BlobsIn(f, row, n) => record.fieldIndex = n
    BY <1>0, <1>1 DEF FieldsInv
  <1>8. BlobsIn(b, row, Len(b)) => record'.fieldIndex = Len(b)
    BY <1>0, <1>1, <1>3, <1>4, <1>6, <1>7
  <1>9. ASSUME NEW i \in 1..n + 1
        PROVE  /\ i <= Len(row)
               /\ b[i].value.type \in {"num", "string", "blob", "none"}
               /\ b[i].value.type # "none" /\ BlobsIn(b, row, i)
                    => b[i].result = FieldGives(row[i], b[i].value.type)
    <2>1. CASE i = n + 1
      <3>1. i <= Len(row)
        BY <1>0, <1>1, <2>1, LenProperties
      <3> QED BY <1>0, <1>1, <1>3, <1>6, <1>7, <2>1, <3>1
    <2>2. CASE i \in 1..n
      <3>1. /\ i <= Len(row)
            /\ f[i].value.type \in {"num", "string", "blob", "none"}
            /\ f[i].value.type # "none" /\ BlobsIn(f, row, i)
                 => f[i].result = FieldGives(row[i], f[i].value.type)
        BY <1>0, <1>1, <2>2 DEF FieldsInv
      <3>2. b[i] = f[i] /\ (BlobsIn(b, row, i) <=> BlobsIn(f, row, i))
        BY <1>3, <1>5, <2>2
      <3> QED BY <3>1, <3>2
    <2> QED BY <2>1, <2>2
  <1>10. /\ \A k \in 1..Len(record'.rows) : Numbered(record'.rows[k])
         /\ Numbered(row)
    BY <1>0, <1>4 DEF FieldsInv
  <1> QED BY <1>0, <1>3, <1>4, <1>8, <1>9, <1>10 DEF FieldsInv

LEMMA ReadRecordFields ==
    ASSUME DatabaseTypeOK, FieldsInv, NEW type \in {"num", "string", "blob"},
           ReadRecord(type)
    PROVE  FieldsInv'
  <1>1. record \in Recordsets
    BY DEF DatabaseTypeOK
  <1>2. PICK g \in Readings : g = Got(Value(type, 0, 1), ReadField(record, type))
    BY <1>1, ReadFieldType, GotType
  <1>3. PICK r \in Recordsets : r = AfterReadField(record, type)
    BY <1>1, ReadFieldType
  <1>4. Reads(r, Append(fields, g)) /\ Len(fields) < Len(record.row)
    BY <1>2, <1>3 DEF ReadRecord
  <1>5. r.rows = record.rows /\ r.row = record.row
    BY <1>1, <1>3 DEF AfterReadField, Recordsets
  <1>6. g.value.type = type /\ g.result = ReadField(record, type)
    BY <1>2 DEF Got, Value
  <1>7. ASSUME record.fieldIndex = Len(fields)
        PROVE  /\ g.value.type = "blob" /\ r.fieldIndex # Len(fields) + 1
                    => record.row[Len(fields) + 1].type # "blob"
               /\ g.value.type # "blob" => r.fieldIndex = Len(fields) + 1
               /\ g.value.type # "none"
                    => g.result = FieldGives(record.row[Len(fields) + 1], g.value.type)
    <2>1. record.fieldIndex < Len(record.row)
      BY <1>4, <1>7
    <2>2. g.result = FieldGives(record.row[Len(fields) + 1], type)
      BY <1>6, <1>7, <2>1 DEF ReadField
    <2>3. type # "blob" \/ record.row[Len(fields) + 1].type = "blob"
            => r.fieldIndex = Len(fields) + 1
      BY <1>1, <1>3, <1>7, <2>1 DEF AfterReadField, Recordsets
    <2> QED BY <1>6, <2>2, <2>3
  <1>8. g.value.type \in {"num", "string", "blob", "none"}
    BY <1>6
  <1> QED BY <1>4, <1>5, <1>7, <1>8, ReadFields

LEMMA SkipFieldFields ==
    ASSUME DatabaseTypeOK, FieldsInv, SkipField
    PROVE  FieldsInv'
  <1>1. record \in Recordsets
    BY DEF DatabaseTypeOK
  <1>2. PICK g \in Readings : g = Got(Value("none", 0, 1), Keeps)
    BY GivesType, GotType
  <1>3. PICK r \in Recordsets : r = [record EXCEPT !.fieldIndex = @ + 1]
    <2>1. [record EXCEPT !.fieldIndex = @ + 1] \in Recordsets
      BY <1>1 DEF Recordsets
    <2> QED BY <2>1
  <1>4. Reads(r, Append(fields, g)) /\ Len(fields) < Len(record.row)
    BY <1>2, <1>3 DEF SkipField
  <1>5. r.rows = record.rows /\ r.row = record.row /\ r.fieldIndex = record.fieldIndex + 1
    BY <1>1, <1>3 DEF Recordsets
  <1>6. g.value.type = "none"
    BY <1>2 DEF Got, Value
  <1> QED BY <1>4, <1>5, <1>6, ReadFields

LEMMA FieldsInvStep ==
    ASSUME DatabaseTypeOK, FieldsInv, [DatabaseNext]_databaseVars
    PROVE  FieldsInv'
  <1>1. CASE logon \/ logoff \/ ClearCache \/ ConnectionLost \/ ChangeDatabase
             \/ UNCHANGED databaseVars
    BY <1>1, FieldsSame
       DEF logon, logoff, Close, ClearCache, ConnectionLost, ChangeDatabase, databaseVars, records
  <1>2. CASE NextRequest
    BY <1>2, FieldsNone, NoRecord DEF NextRequest
  <1>3. ASSUME NEW s \in SQLs,
               PrepareHit(s) \/ PrepareMiss(s) \/ FreeStatement(s) \/ ClearStatement(s)
        PROVE  FieldsInv'
    BY <1>3, FieldsSame DEF PrepareHit, PrepareMiss, FreeStatement, ClearStatement, records
  <1>4. ASSUME NEW s \in SQLs, NEW st, NEW d, Uses(s, st, d)
        PROVE  FieldsInv'
    BY <1>4, FieldsSame DEF Uses, records
  <1>5. ASSUME NEW s \in SQLs, Execute(s) \/ ExecuteFails(s) \/ NextRow(s) \/ ReadAppending(s)
                           \/ SkipColumn(s)
        PROVE  FieldsInv'
    BY <1>4, <1>5 DEF Execute, ExecuteFails, NextRow, ReadAppending, SkipColumn
  <1>6. ASSUME NEW s \in SQLs, NEW value, Bind(s, value) \/ ReadColumn(s, value)
        PROVE  FieldsInv'
    BY <1>4, <1>6 DEF Bind, ReadColumn
  <1>7. ASSUME NEW age, NEW n, Queries(age, n)
        PROVE  FieldsInv'
    BY <1>7, FieldsSame DEF Queries, records
  <1>8. ASSUME NEW kind, NextRecordset(kind) \/ \E n \in 0..MaxResultSets : Query(kind, n)
        PROVE  FieldsInv'
    BY <1>7, <1>8 DEF NextRecordset, Query
  <1>9. CASE QueryFails
    BY <1>7, <1>9 DEF QueryFails
  <1>10. CASE GetLastRecord
    BY <1>10, GetLastRecordFields
  <1>11. CASE NextRecord \/ SkipField
    BY <1>11, NextRecordFields, SkipFieldFields
  <1>12. ASSUME NEW type \in {"num", "string", "blob"}, ReadRecord(type)
         PROVE  FieldsInv'
    BY <1>12, ReadRecordFields
  <1> QED BY <1>1, <1>2, <1>3, <1>5, <1>6, <1>8, <1>9, <1>10, <1>11, <1>12 DEF DatabaseNext

LEMMA FieldsInvReadBack ==
    ASSUME DatabaseTypeOK, FieldsInv
    PROVE  FieldsReadBack
  <1> SUFFICES ASSUME NEW i \in 1..Len(fields), fields[i].value.type # "none",
                      BlobsIn(fields, record.row, i)
               PROVE  fields[i].result =
                        IF ~ record.row[i].null THEN Gives(i)
                        ELSE IF fields[i].value.type = "string" THEN Gives(0) ELSE Keeps
    BY DEF FieldsReadBack, BlobsIn
  <1>1. fields[i].value.type \in {"num", "string", "blob"}
    BY DEF FieldsInv
  <1>2. fields[i].result = FieldGives(record.row[i], fields[i].value.type)
    BY DEF FieldsInv
  <1>3. i \in 1..Len(record.row)
    BY DEF FieldsInv
  <1>4. ~record.row[i].null => record.row[i].data[1] = i
    BY <1>3 DEF FieldsInv, Numbered
  <1>5. fields[i].value.type = "blob" => record.row[i].type = "blob"
    BY LenProperties DEF BlobsIn, DatabaseTypeOK
  <1> QED BY <1>1, <1>2, <1>4, <1>5 DEF FieldGives

\* Whatever the order of prepare(), binding, execute(), clear(), nextRow() and
\* reads, what a request reads of a row in the types it has bound is what it has
\* bound for that execution, and what it reads of a field of a text query is the
\* field's.  ReadBack excepts what Same does, the sign of durations and the
\* fraction of time_points in ticks between a microsecond and a second, and
\* reads into a ByteArray that holds data; rows are not read after clear().
THEOREM ReadBackSafe == DatabaseSpec => []ReadBack
  <1>1. DatabaseInit => ColumnsInv
    BY NoStatements, NotUsed DEF DatabaseInit, ColumnsInv, Usable
  <1>2. DatabaseTypeOK /\ ColumnsInv /\ [DatabaseNext]_databaseVars => ColumnsInv'
    BY ColumnsInvStep
  <1>3. DatabaseTypeOK /\ FieldsInv /\ [DatabaseNext]_databaseVars => FieldsInv'
    BY FieldsInvStep
  <1>4. DatabaseTypeOK /\ ColumnsInv /\ FieldsInv => ReadBack
    BY ColumnsInvReadBack, FieldsInvReadBack DEF ReadBack
  <1> QED BY <1>1, <1>2, <1>3, <1>4, FieldsInit, DatabaseTypeSafe, PTL DEF DatabaseSpec
=============================================================================
