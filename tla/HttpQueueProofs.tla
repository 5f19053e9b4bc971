---------------------------- MODULE HttpQueueProofs ----------------------------
(***************************************************************************)
(* Proofs about HttpQueue, for every set of requests and the calls they    *)
(* make, any number of threads and any number of pieces.                   *)
(***************************************************************************)
EXTENDS HttpQueue, SequenceLemmas

-----------------------------------------------------------------------------
(* Type correctness                                                        *)

LEMMA InitTypeOK == Init => TypeOK
  BY HttpQueueAssumption DEF Init, TypeOK, Bodies

\* What a call is sent as.
LEMMA SendsType ==
    ASSUME NEW isPost \in BOOLEAN, NEW body \in Bodies
    PROVE  Sends(isPost, body) \in SentCalls
  BY DEF Sends, Methods, SentCalls, Bodies

\* The effect of CurlRequest on the handle and on the history of the calls.
LEMMA CurlRequestEffect ==
    ASSUME TypeOK, NEW w \in Workers, CurlRequest(w)
    PROVE  LET r == request[w]
               n == Len(sent[r]) + 1
           IN  /\ r \in Requests /\ n \in 1..Len(Calls[r])
               /\ Calls[r][n] \in [method : Methods, params : BOOLEAN]
               /\ post' = [post EXCEPT ![w] = post[w] \/ Calls[r][n].method = "POST"]
               /\ fields' = [fields EXCEPT ![w] =
                      IF Calls[r][n].method = "POST" /\ Calls[r][n].params
                      THEN <<r, n>> ELSE fields[w]]
               /\ post'[w] \in BOOLEAN
               /\ fields'[w] \in Bodies
               /\ sent' = [sent EXCEPT ![r] =
                      Append(sent[r], Sends(post'[w], fields'[w]))]
  <1> DEFINE r == request[w]
             n == Len(sent[r]) + 1
  <1>1. r \in Requests
    BY DEF CurlRequest, At, TypeOK
  <1>2. Calls[r] \in Seq([method : Methods, params : BOOLEAN])
    BY <1>1, HttpQueueAssumption
  <1>3. n \in DOMAIN Calls[r] /\ n \in Nat
    BY <1>1 DEF CurlRequest, TypeOK
  <1>4. n \in 1..Len(Calls[r]) /\ Calls[r][n] \in [method : Methods, params : BOOLEAN]
    BY <1>2, <1>3, LenProperties
  <1>5. /\ post' = [post EXCEPT ![w] = post[w] \/ Calls[r][n].method = "POST"]
        /\ fields' = [fields EXCEPT ![w] =
               IF Calls[r][n].method = "POST" /\ Calls[r][n].params
               THEN <<r, n>> ELSE fields[w]]
        /\ sent' = [sent EXCEPT ![r] = Append(sent[r], Sends(post'[w], fields'[w]))]
    BY <1>3 DEF CurlRequest
  <1>6. post'[w] \in BOOLEAN
    BY <1>5 DEF TypeOK
  <1>7. fields'[w] \in Bodies
    <2>1. <<r, n>> \in Bodies
      BY <1>1, <1>3 DEF Bodies
    <2> HIDE DEF r, n
    <2> QED BY <1>5, <2>1 DEF TypeOK
  <1> HIDE DEF r, n
  <1> QED BY <1>1, <1>4, <1>5, <1>6, <1>7 DEF r, n

LEMMA CurlRequestType ==
    ASSUME TypeOK, NEW w \in Workers, CurlRequest(w)
    PROVE  TypeOK'
  <1> DEFINE r == request[w]
             n == Len(sent[r]) + 1
             s == Sends(post'[w], fields'[w])
  <1>1. /\ r \in Requests /\ n \in 1..Len(Calls[r])
        /\ post'[w] \in BOOLEAN
        /\ fields'[w] \in Bodies
        /\ sent' = [sent EXCEPT ![r] = Append(sent[r], s)]
    BY CurlRequestEffect
  <1>2. s \in SentCalls
    BY <1>1, SendsType
  <1>3. Append(sent[r], s) \in Seq(SentCalls) /\ Len(Append(sent[r], s)) = n
    <2>1. sent[r] \in Seq(SentCalls)
      BY <1>1 DEF TypeOK
    <2> HIDE DEF r, s
    <2> QED BY <1>2, <2>1, AppendProperties
  <1>4. /\ sent' \in [Requests -> Seq(SentCalls)]
        /\ \A q \in Requests : Len(sent'[q]) <= Len(Calls[q])
    <2>1. /\ sent \in [Requests -> Seq(SentCalls)] /\ n <= Len(Calls[r])
          /\ \A q \in Requests : Len(sent[q]) <= Len(Calls[q])
      BY <1>1 DEF TypeOK
    <2> HIDE DEF r, n, s
    <2> QED BY <1>1, <1>3, <2>1
  <1>5. post' \in [Workers -> BOOLEAN]
    BY <1>1 DEF TypeOK, CurlRequest
  <1>6. fields' \in [Workers -> Bodies]
    BY <1>1 DEF TypeOK, CurlRequest
  <1>7. UNCHANGED <<queues, isExit, request, sink, response, pieces, mainVars, added>>
        /\ At(w, "perform", "transfer")
    BY DEF CurlRequest
  <1> HIDE DEF r, n, s
  <1> QED BY <1>4, <1>5, <1>6, <1>7 DEF TypeOK, At, queues, mainVars

LEMMA WriteCallbackType ==
    ASSUME TypeOK, NEW w \in Workers, WriteCallback(w)
    PROVE  TypeOK'
  <1>1. request[w] \in Requests /\ pieces[request[w]] < MaxPieces
    BY DEF WriteCallback, TypeOK
  <1>2. pieces' \in [Requests -> 0..MaxPieces]
    <2>1. pieces[request[w]] + 1 \in 0..MaxPieces
      <3>1. pieces[request[w]] \in 0..MaxPieces /\ MaxPieces \in Nat
        BY <1>1, HttpQueueAssumption DEF TypeOK
      <3> QED BY <1>1, <3>1
    <2> QED BY <1>1, <2>1 DEF WriteCallback, TypeOK
  <1>3. response' \in [Requests -> Seq(Requests)]
    BY <1>1 DEF WriteCallback, TypeOK
  <1> QED BY <1>2, <1>3
          DEF WriteCallback, TypeOK, queues, clients, mainVars

LEMMA NextTypeOK == TypeOK /\ [Next]_vars => TypeOK'
  <1> SUFFICES ASSUME TypeOK, [Next]_vars PROVE TypeOK'
    OBVIOUS
  <1> USE HttpQueueAssumption DEF TypeOK, queues, clients, results, mainVars
  <1>1. ASSUME NEW w \in Workers, WorkerStep(w) PROVE TypeOK'
    <2>1. CASE Exit(w)
      BY <2>1 DEF Exit, At
    <2>2. CASE GetRequest(w)
      <3>1. Head(workQueue) \in Requests /\ Tail(workQueue) \in Seq(Requests)
        BY <2>2, HeadTailProperties DEF GetRequest
      <3> QED BY <2>2, <3>1 DEF GetRequest, At
    <2>3. CASE CurlRequest(w)
      BY <2>3, CurlRequestType
    <2>4. CASE WriteCallback(w)
      BY <2>4, WriteCallbackType
    <2>5. CASE CurlReturns(w)
      BY <2>5 DEF CurlReturns, At
    <2>6. CASE OnRequest(w)
      BY <2>6 DEF OnRequest, At
    <2>7. CASE FinishRequest(w)
      <3>1. finishQueue' \in Seq(Requests)
        BY <2>7, AppendFresh DEF FinishRequest, At
      <3> QED BY <2>7, <3>1 DEF FinishRequest, At
    <2>8. CASE Reset(w)
      BY <2>8 DEF Reset, At, Bodies
    <2> QED BY <1>1, <2>1, <2>2, <2>3, <2>4, <2>5, <2>6, <2>7, <2>8 DEF WorkerStep
  <1>2. ASSUME NEW w \in Workers, StartWorker(w) PROVE TypeOK'
    BY <1>2 DEF StartWorker, At
  <1>3. ASSUME NEW r \in Requests, AddQueueMsg(r) PROVE TypeOK'
    <2>1. workQueue' \in Seq(Requests) /\ added' \in Seq(Requests)
      BY <1>3, AppendFresh DEF AddQueueMsg
    <2> QED BY <1>3, <2>1 DEF AddQueueMsg
  <1>4. CASE Update
    BY <1>4 DEF Update
  <1>5. CASE OnFinish
    <2>1. Head(batch) \in Requests /\ Tail(batch) \in Seq(Requests)
      BY <1>5, HeadTailProperties DEF OnFinish
    <2>2. Append(finished, Head(batch)) \in Seq(Requests)
      BY <2>1, AppendProperties
    <2> QED BY <1>5, <2>1, <2>2 DEF OnFinish
  <1>6. CASE InitReturns \/ UpdateReturns \/ Destroy \/ Joined
    BY <1>6 DEF InitReturns, UpdateReturns, Destroy, Joined
  <1>7. CASE UNCHANGED vars
    BY <1>7 DEF vars
  <1> QED BY <1>1, <1>2, <1>3, <1>4, <1>5, <1>6, <1>7 DEF Next, MainStep, Terminated

\* The variables have their types, a thread has a request exactly while it
\* performs one, and no request has more calls sent than it makes.
THEOREM TypeCorrect == Spec => []TypeOK
  BY InitTypeOK, NextTypeOK, PTL DEF Spec

-----------------------------------------------------------------------------
(* Nothing carried over                                                    *)

\* A call of request r that curlRequest sent before, and that was a POST.
EarlierPost(r) == \E m \in DOMAIN sent[r] : Calls[r][m].method = "POST"

\* What a thread's curl handle carries is of the request it performs: its
\* response pointer, and, once a call of that request was a POST, the method
\* and the string CURLOPT_POSTFIELDS points to.  Between two requests the
\* handle is as curl_easy_reset leaves it.
CleanHandles ==
    \A w \in Workers :
        /\ request[w] # NoRequest =>
              /\ sink[w] = request[w]
              /\ post[w] => EarlierPost(request[w])
              /\ \/ fields[w] = NoCall
                 \/ \E m \in DOMAIN sent[request[w]] : fields[w] = <<request[w], m>>
        /\ worker[w] \in {"none", "loop", "exited"} => ~post[w] /\ fields[w] = NoCall
        /\ fields[w] # NoCall => post[w]

LEMMA InitCarry == Init => CleanHandles /\ NothingCarriedOver
  <1> SUFFICES ASSUME Init PROVE CleanHandles /\ NothingCarriedOver
    OBVIOUS
  <1>1. CleanHandles
    BY DEF Init, CleanHandles
  <1>2. \A r \in Requests : sent[r] = <<>> /\ response[r] = <<>> /\ pieces[r] = 0
    BY DEF Init
  <1> QED BY <1>1, <1>2 DEF NothingCarriedOver

\* The call that CurlRequest adds to the history of its request.
LEMMA CurlAppends ==
    ASSUME TypeOK, NEW w \in Workers, CurlRequest(w)
    PROVE  LET r == request[w]
               n == Len(sent[r]) + 1
           IN  /\ n \in Nat \ {0}
               /\ DOMAIN sent[r] = 1..(n - 1) /\ DOMAIN sent'[r] = 1..n
               /\ \A i \in 1..(n - 1) : sent'[r][i] = sent[r][i]
               /\ sent'[r][n] = Sends(post'[w], fields'[w])
               /\ \A q \in Requests \ {r} : sent'[q] = sent[q]
  <1> DEFINE r == request[w]
             n == Len(sent[r]) + 1
             s == Sends(post'[w], fields'[w])
  <1>1. /\ r \in Requests /\ s \in SentCalls
        /\ sent' = [sent EXCEPT ![r] = Append(sent[r], s)]
    BY CurlRequestEffect, SendsType
  <1>2. sent[r] \in Seq(SentCalls) /\ sent'[r] = Append(sent[r], s)
    BY <1>1 DEF TypeOK
  <1>3. /\ n \in Nat \ {0}
        /\ DOMAIN sent[r] = 1..(n - 1) /\ DOMAIN sent'[r] = 1..n
        /\ \A i \in 1..(n - 1) : sent'[r][i] = sent[r][i]
        /\ sent'[r][n] = s
    <2> HIDE DEF r, s
    <2> QED BY <1>1, <1>2, AppendProperties, LenProperties
  <1>4. \A q \in Requests \ {r} : sent'[q] = sent[q]
    BY <1>1 DEF TypeOK
  <1> HIDE DEF r, n, s
  <1> QED BY <1>3, <1>4 DEF r, n, s

\* What is sent with a POST, and without one.
LEMMA SentForm ==
    ASSUME NEW isPost \in BOOLEAN, NEW body
    PROVE  /\ isPost => Sends(isPost, body) = [method |-> "POST", body |-> body]
           /\ ~isPost => Sends(isPost, body) = [method |-> "GET", body |-> NoCall]
  BY DEF Sends

LEMMA CurlCarry ==
    ASSUME TypeOK, CleanHandles, NothingCarriedOver,
           NEW w \in Workers, CurlRequest(w)
    PROVE  CleanHandles' /\ NothingCarriedOver'
  <1>a. PICK r \in Requests : r = request[w]
    BY DEF CurlRequest, At, TypeOK
  <1>b. PICK n \in Nat : n = Len(sent[r]) + 1
    BY DEF TypeOK
  <1> DEFINE isPost == Calls[r][n].method = "POST"
  <1>1. /\ r \in Requests /\ r # NoRequest /\ worker[w] = "perform"
        /\ UNCHANGED <<request, sink, response, pieces>>
        /\ worker' = [worker EXCEPT ![w] = "transfer"]
    BY HttpQueueAssumption DEF CurlRequest, At
  <1>2. /\ post' = [post EXCEPT ![w] = post[w] \/ isPost]
        /\ fields' = [fields EXCEPT ![w] =
               IF isPost /\ Calls[r][n].params THEN <<r, n>> ELSE fields[w]]
        /\ n \in 1..Len(Calls[r])
    BY <1>a, <1>b, CurlRequestEffect
  <1>3. /\ n \in Nat \ {0}
        /\ DOMAIN sent[r] = 1..(n - 1) /\ DOMAIN sent'[r] = 1..n
        /\ \A i \in 1..(n - 1) : sent'[r][i] = sent[r][i]
        /\ sent'[r][n] = Sends(post'[w], fields'[w])
        /\ \A q \in Requests \ {r} : sent'[q] = sent[q]
    BY <1>a, <1>b, CurlAppends
  <1>4. /\ post'[w] = (post[w] \/ isPost) /\ post'[w] \in BOOLEAN
        /\ isPost /\ Calls[r][n].params => fields'[w] = <<r, n>>
        /\ ~(isPost /\ Calls[r][n].params) => fields'[w] = fields[w]
        /\ \A v \in Workers \ {w} : post'[v] = post[v] /\ fields'[v] = fields[v]
    BY <1>2 DEF TypeOK
  <1>5. /\ post[w] => EarlierPost(r)
        /\ fields[w] = NoCall \/ \E m \in 1..(n - 1) : fields[w] = <<r, m>>
        /\ fields[w] # NoCall => post[w]
    BY <1>a, <1>1, <1>3 DEF CleanHandles
  <1>6. \A q \in Requests : /\ DOMAIN sent[q] \subseteq DOMAIN sent'[q]
                            /\ EarlierPost(q) => EarlierPost(q)'
    BY <1>3 DEF EarlierPost
  <1> HIDE DEF isPost
  <1>7. CleanHandles'
    <2> SUFFICES ASSUME NEW v \in Workers
        PROVE  /\ request[v] # NoRequest =>
                     /\ sink[v] = request[v]
                     /\ post'[v] => EarlierPost(request[v])'
                     /\ \/ fields'[v] = NoCall
                        \/ \E m \in DOMAIN sent'[request[v]] : fields'[v] = <<request[v], m>>
               /\ worker'[v] \in {"none", "loop", "exited"} =>
                     ~post'[v] /\ fields'[v] = NoCall
               /\ fields'[v] # NoCall => post'[v]
      BY <1>1 DEF CleanHandles, EarlierPost
    <2>1. CASE v = w
      <3>1. isPost => EarlierPost(r)'
        BY <1>3 DEF EarlierPost, isPost
      <3>2. post'[w] => EarlierPost(r)'
        BY <1>1, <1>4, <1>5, <1>6, <3>1
      <3>3. fields'[w] = NoCall \/ \E m \in DOMAIN sent'[r] : fields'[w] = <<r, m>>
        <4>1. n \in 1..n /\ 1..(n - 1) \subseteq 1..n
          BY <1>3
        <4> QED BY <1>3, <1>4, <1>5, <4>1
      <3>4. fields'[w] # NoCall => post'[w]
        BY <1>4, <1>5
      <3>5. worker'[w] = "transfer" /\ request[w] = r /\ sink[w] = request[w]
        BY <1>a, <1>1 DEF TypeOK, CleanHandles
      <3> QED BY <1>1, <2>1, <3>2, <3>3, <3>4, <3>5
    <2>2. CASE v # w
      <3>1. worker'[v] = worker[v] /\ post'[v] = post[v] /\ fields'[v] = fields[v]
        BY <1>1, <1>4, <2>2 DEF TypeOK
      <3>2. request[v] # NoRequest => request[v] \in Requests
        BY DEF TypeOK
      <3>3. request[v] # NoRequest /\ EarlierPost(request[v]) => EarlierPost(request[v])'
        BY <1>1, <1>6, <3>2
      <3> QED BY <1>6, <3>1, <3>2, <3>3 DEF CleanHandles
    <2> QED BY <2>1, <2>2
  <1>8. \A i \in 1..(n - 1) :
          \/ sent'[r][i] = Asked(r, i)
          \/ /\ \E m \in 1..(i - 1) : Calls[r][m].method = "POST"
             /\ sent'[r][i].body \in {NoCall} \cup {<<r, m>> : m \in 1..i}
    BY <1>1, <1>3 DEF NothingCarriedOver
  <1>9. \/ sent'[r][n] = Asked(r, n)
        \/ /\ \E m \in 1..(n - 1) : Calls[r][m].method = "POST"
           /\ sent'[r][n].body \in {NoCall} \cup {<<r, m>> : m \in 1..n}
    <2>1. CASE post[w]
      <3>1. \E m \in 1..(n - 1) : Calls[r][m].method = "POST"
        BY <1>3, <1>5, <2>1 DEF EarlierPost
      <3>2. sent'[r][n] = [method |-> "POST", body |-> fields'[w]]
        BY <1>3, <1>4, <2>1, SentForm
      <3>3. fields'[w] \in {NoCall} \cup {<<r, m>> : m \in 1..n}
        <4>1. n \in 1..n /\ 1..(n - 1) \subseteq 1..n
          BY <1>3
        <4>2. fields'[w] = NoCall \/ \E m \in 1..n : fields'[w] = <<r, m>>
          BY <1>4, <1>5, <4>1
        <4> QED BY <4>2
      <3> QED BY <3>1, <3>2, <3>3
    <2>2. CASE ~post[w]
      <3>1. fields[w] = NoCall
        BY <1>5, <2>2
      <3>2. CASE isPost
        <4>1. Asked(r, n) = [method |-> "POST",
                             body |-> IF Calls[r][n].params THEN <<r, n>> ELSE NoCall]
          BY <3>2 DEF Asked, Sends, isPost
        <4>2. sent'[r][n] = [method |-> "POST", body |-> fields'[w]]
          BY <1>3, <1>4, <3>2, SentForm
        <4> QED BY <1>4, <3>1, <3>2, <4>1, <4>2
      <3>3. CASE ~isPost
        <4>1. Asked(r, n) = [method |-> "GET", body |-> NoCall]
          BY <3>3 DEF Asked, Sends, isPost
        <4>2. sent'[r][n] = [method |-> "GET", body |-> NoCall]
          BY <1>3, <1>4, <2>2, <3>3, SentForm
        <4> QED BY <4>1, <4>2
      <3> QED BY <3>2, <3>3
    <2> QED BY <2>1, <2>2
  <1>10. NothingCarriedOver'
    <2> SUFFICES ASSUME NEW q \in Requests
        PROVE  /\ \A i \in DOMAIN sent'[q] :
                    \/ sent'[q][i] = Asked(q, i)
                    \/ /\ \E m \in 1..(i - 1) : Calls[q][m].method = "POST"
                       /\ sent'[q][i].body \in {NoCall} \cup {<<q, m>> : m \in 1..i}
               /\ response[q] = [i \in 1..pieces[q] |-> q]
      BY <1>1 DEF NothingCarriedOver, Asked
    <2>1. CASE q = r
      <3>1. \A i \in 1..n : i = n \/ i \in 1..(n - 1)
        BY <1>3
      <3>2. response[r] = [i \in 1..pieces[r] |-> r]
        BY DEF NothingCarriedOver
      <3>3. ASSUME NEW i \in DOMAIN sent'[r]
            PROVE  \/ sent'[r][i] = Asked(r, i)
                   \/ /\ \E m \in 1..(i - 1) : Calls[r][m].method = "POST"
                      /\ sent'[r][i].body \in {NoCall} \cup {<<r, m>> : m \in 1..i}
        <4>1. CASE i = n
          BY <1>9, <4>1
        <4>2. CASE i \in 1..(n - 1)
          BY <1>8, <4>2
        <4> QED BY <1>3, <3>1, <4>1, <4>2
      <3> QED BY <2>1, <3>2, <3>3
    <2>2. CASE q # r
      BY <1>3, <2>2 DEF NothingCarriedOver
    <2> QED BY <2>1, <2>2
  <1> QED BY <1>7, <1>10

LEMMA WriteCarry ==
    ASSUME TypeOK, CleanHandles, NothingCarriedOver,
           NEW w \in Workers, WriteCallback(w)
    PROVE  CleanHandles' /\ NothingCarriedOver'
  <1> DEFINE r == request[w]
  <1>1. /\ r \in Requests /\ r # NoRequest /\ sink[w] = r
        /\ UNCHANGED <<worker, request, clients, sent>>
    BY HttpQueueAssumption DEF WriteCallback, TypeOK, CleanHandles
  <1>2. CleanHandles'
    BY <1>1 DEF CleanHandles, EarlierPost, clients
  <1>3. /\ pieces' = [pieces EXCEPT ![r] = pieces[r] + 1]
        /\ response' = [response EXCEPT ![r] = Append(response[r], r)]
    BY <1>1 DEF WriteCallback
  <1>4. response'[r] = [i \in 1..pieces'[r] |-> r]
    <2>1. /\ pieces[r] \in Nat /\ pieces'[r] = pieces[r] + 1
          /\ response[r] \in Seq(Requests)
          /\ response[r] = [i \in 1..pieces[r] |-> r]
          /\ response'[r] = Append(response[r], r)
      <3>1. /\ pieces \in [Requests -> Nat] /\ response \in [Requests -> Seq(Requests)]
            /\ response[r] = [i \in 1..pieces[r] |-> r]
        BY <1>1 DEF TypeOK, NothingCarriedOver
      <3> HIDE DEF r
      <3> QED BY <1>1, <1>3, <3>1
    <2>2. Append(response[r], r) = [i \in 1..(pieces[r] + 1) |-> r]
      <3> HIDE DEF r
      <3>1. Len(response[r]) = pieces[r]
        BY <2>1, LenProperties
      <3> QED BY <1>1, <2>1, <3>1, AppendProperties
    <2> QED BY <2>1, <2>2
  <1>5. \A q \in Requests \ {r} : response'[q] = response[q] /\ pieces'[q] = pieces[q]
    BY <1>3 DEF TypeOK
  <1> HIDE DEF r
  <1>6. NothingCarriedOver'
    BY <1>1, <1>4, <1>5 DEF NothingCarriedOver, Asked
  <1> QED BY <1>2, <1>6

LEMMA NextCarry ==
    TypeOK /\ CleanHandles /\ NothingCarriedOver /\ [Next]_vars
      => CleanHandles' /\ NothingCarriedOver'
  <1> SUFFICES ASSUME TypeOK, CleanHandles, NothingCarriedOver, [Next]_vars
               PROVE  CleanHandles' /\ NothingCarriedOver'
    OBVIOUS
  <1>1. ASSUME UNCHANGED results PROVE NothingCarriedOver'
    BY <1>1 DEF NothingCarriedOver, Asked, results
  <1>2. ASSUME UNCHANGED <<worker, request, clients, results>>
        PROVE  CleanHandles'
    BY <1>2 DEF CleanHandles, EarlierPost, clients, results
  <1>3. ASSUME NEW w \in Workers, WorkerStep(w) \/ StartWorker(w)
        PROVE  CleanHandles' /\ NothingCarriedOver'
    <2>1. CASE CurlRequest(w)
      BY <2>1, CurlCarry
    <2>2. CASE WriteCallback(w)
      BY <2>2, WriteCarry
    <2>3. CASE GetRequest(w)
      <3>1. Head(workQueue) \in Requests /\ worker[w] = "loop"
        BY <2>3, HeadTailProperties DEF GetRequest, At, TypeOK
      <3>2. CleanHandles'
        BY <2>3, <3>1 DEF GetRequest, At, CleanHandles, EarlierPost, results, TypeOK
      <3> QED BY <1>1, <2>3, <3>2 DEF GetRequest
    <2>4. CASE Exit(w) \/ CurlReturns(w) \/ OnRequest(w) \/ StartWorker(w)
      <3>1. \A v \in Workers :
              worker'[v] \in {"none", "loop", "exited"}
                => worker[v] \in {"none", "loop", "exited"}
        BY <2>4 DEF Exit, CurlReturns, OnRequest, StartWorker, At, TypeOK
      <3>2. CleanHandles'
        BY <2>4, <3>1 DEF Exit, CurlReturns, OnRequest, StartWorker, CleanHandles,
                          EarlierPost, results, clients
      <3> QED BY <1>1, <2>4, <3>2 DEF Exit, CurlReturns, OnRequest, StartWorker
    <2>5. CASE FinishRequest(w)
      <3>1. CleanHandles'
        BY <2>5 DEF FinishRequest, At, CleanHandles, EarlierPost, results, clients,
                    TypeOK
      <3> QED BY <1>1, <2>5, <3>1 DEF FinishRequest
    <2>6. CASE Reset(w)
      <3>1. CleanHandles'
        BY <2>6 DEF Reset, At, CleanHandles, EarlierPost, results, TypeOK
      <3> QED BY <1>1, <2>6, <3>1 DEF Reset
    <2> QED BY <1>3, <2>1, <2>2, <2>3, <2>4, <2>5, <2>6 DEF WorkerStep
  <1>4. CASE \/ \E r \in Requests : AddQueueMsg(r)
             \/ InitReturns \/ OnFinish \/ UpdateReturns \/ Joined \/ Update \/ Destroy
             \/ UNCHANGED vars
    BY <1>1, <1>2, <1>4
    DEF AddQueueMsg, InitReturns, OnFinish, UpdateReturns, Joined, Update, Destroy,
        vars
  <1> QED BY <1>3, <1>4 DEF Next, MainStep, Terminated

\* Whatever requests one curl handle serves one after the other, and however
\* the threads interleave, nothing of a request is sent with another one or
\* stored in another one's response.
THEOREM NothingLeaks == Spec => []NothingCarriedOver
  <1>1. Init => TypeOK /\ CleanHandles /\ NothingCarriedOver
    BY InitTypeOK, InitCarry
  <1>2. TypeOK /\ CleanHandles /\ NothingCarriedOver /\ [Next]_vars
          => (TypeOK /\ CleanHandles /\ NothingCarriedOver)'
    BY NextTypeOK, NextCarry
  <1> QED BY <1>1, <1>2, PTL DEF Spec

-----------------------------------------------------------------------------
(* Every request in exactly one place                                      *)

Running == {request[w] : w \in Workers} \ {NoRequest}

\* A request that was added is in workQueue, in the hands of one thread, in
\* finishQueue, in the list update() works through, or finished.
InOnePlace ==
    /\ \A q \in {workQueue, finishQueue, batch, finished, added} : IsInjective(q)
    /\ \A v, w \in Workers :
         v # w /\ request[v] # NoRequest => request[v] # request[w]
    /\ Range(workQueue) \cap Running = {}
    /\ (Range(workQueue) \cup Running) \cap Range(finishQueue) = {}
    /\ (Range(workQueue) \cup Running \cup Range(finishQueue)) \cap Range(batch) = {}
    /\ (Range(workQueue) \cup Running \cup Range(finishQueue) \cup Range(batch))
         \cap Range(finished) = {}
    /\ Range(added) = Range(workQueue) \cup Running \cup Range(finishQueue)
                        \cup Range(batch) \cup Range(finished)

\* What the threads hold after one of them took a request.
LEMMA RunningTake ==
    ASSUME TypeOK, NEW w \in Workers, NEW r \in Requests, request[w] = NoRequest,
           request' = [request EXCEPT ![w] = r]
    PROVE  Running' = Running \cup {r}
  BY HttpQueueAssumption DEF Running, TypeOK

\* What the threads hold after one of them finished its request.
LEMMA RunningDrop ==
    ASSUME TypeOK, InOnePlace, NEW w \in Workers, request[w] # NoRequest,
           request' = [request EXCEPT ![w] = NoRequest]
    PROVE  request[w] \in Running /\ Running' = Running \ {request[w]}
  <1>1. request[w] \in Running
    BY DEF Running
  <1>2. /\ request'[w] = NoRequest
        /\ \A v \in Workers \ {w} : request'[v] = request[v]
    BY DEF TypeOK
  <1>3. \A v \in Workers \ {w} : request[v] # request[w]
    BY DEF InOnePlace
  <1> QED BY <1>1, <1>2, <1>3 DEF Running

LEMMA InitInOnePlace == Init => InOnePlace
  BY DEF Init, InOnePlace, Running, IsInjective, Range

LEMMA AddInOnePlace ==
    ASSUME TypeOK, InOnePlace, NEW r \in Requests, AddQueueMsg(r)
    PROVE  InOnePlace'
  <1>1. UNCHANGED <<finishQueue, batch, finished, request, Running>>
    BY DEF AddQueueMsg, mainVars, Running
  <1>2. /\ Range(workQueue') = Range(workQueue) \cup {r}
        /\ Range(added') = Range(added) \cup {r}
    BY AppendFresh DEF AddQueueMsg, TypeOK
  <1>3. r \notin Range(added)
    BY DEF AddQueueMsg
  <1>4. IsInjective(workQueue') /\ IsInjective(added')
    BY <1>3, AppendFresh DEF AddQueueMsg, TypeOK, InOnePlace
  <1> QED BY <1>1, <1>2, <1>3, <1>4 DEF InOnePlace

LEMMA GetInOnePlace ==
    ASSUME TypeOK, InOnePlace, NEW w \in Workers, GetRequest(w)
    PROVE  InOnePlace'
  <1>1. PICK r \in Requests : r = Head(workQueue)
    BY HeadTailProperties DEF GetRequest, TypeOK
  <1>2. UNCHANGED <<finishQueue, batch, finished, added>>
    BY DEF GetRequest, mainVars
  <1>3. /\ r \in Range(workQueue)
        /\ Range(workQueue') = Range(workQueue) \ {r}
        /\ IsInjective(workQueue')
    <2>1. workQueue \in Seq(Requests) /\ IsInjective(workQueue)
      BY DEF TypeOK, InOnePlace
    <2> QED BY <1>1, <2>1, TailFresh DEF GetRequest
  <1>4. request[w] = NoRequest /\ request' = [request EXCEPT ![w] = r]
    BY <1>1 DEF GetRequest, At, TypeOK
  <1>5. Running' = Running \cup {r}
    BY <1>4, RunningTake
  <1>6. \A v \in Workers : request[v] # r
    BY <1>3, HttpQueueAssumption DEF InOnePlace, Running
  <1>7. \A u, v \in Workers :
          u # v /\ request'[u] # NoRequest => request'[u] # request'[v]
    BY <1>4, <1>6, HttpQueueAssumption DEF InOnePlace, TypeOK
  <1> QED BY <1>2, <1>3, <1>5, <1>7 DEF InOnePlace

LEMMA FinishInOnePlace ==
    ASSUME TypeOK, InOnePlace, NEW w \in Workers, FinishRequest(w)
    PROVE  InOnePlace'
  <1>1. PICK r \in Requests : r = request[w]
    BY DEF FinishRequest, At, TypeOK
  <1>2. UNCHANGED <<workQueue, batch, finished, added>>
    BY DEF FinishRequest, mainVars
  <1>3. request' = [request EXCEPT ![w] = NoRequest] /\ r # NoRequest
    BY <1>1, HttpQueueAssumption DEF FinishRequest
  <1>4. r \in Running /\ Running' = Running \ {r}
    BY <1>1, <1>3, RunningDrop
  <1>5. r \notin Range(finishQueue)
    BY <1>4 DEF InOnePlace
  <1>6. /\ Range(finishQueue') = Range(finishQueue) \cup {r}
        /\ IsInjective(finishQueue')
    BY <1>1, <1>5, AppendFresh DEF FinishRequest, TypeOK, InOnePlace
  <1>7. \A u, v \in Workers :
          u # v /\ request'[u] # NoRequest => request'[u] # request'[v]
    BY <1>3 DEF InOnePlace, TypeOK
  <1> QED BY <1>2, <1>4, <1>6, <1>7 DEF InOnePlace

LEMMA UpdateInOnePlace ==
    ASSUME TypeOK, InOnePlace, Update
    PROVE  InOnePlace'
  <1>1. UNCHANGED <<workQueue, request, Running, finished, added>>
    BY DEF Update, Running
  <1>2. batch = <<>> /\ batch' = finishQueue /\ finishQueue' = <<>>
    BY DEF Update, TypeOK
  <1>3. Range(<<>>) = {} /\ IsInjective(<<>>)
    BY DEF Range, IsInjective
  <1> QED BY <1>1, <1>2, <1>3 DEF InOnePlace

LEMMA OnFinishInOnePlace ==
    ASSUME TypeOK, InOnePlace, OnFinish
    PROVE  InOnePlace'
  <1>1. PICK r \in Requests : r = Head(batch)
    BY HeadTailProperties DEF OnFinish, TypeOK
  <1>2. UNCHANGED <<workQueue, finishQueue, request, Running, added>>
    BY DEF OnFinish, queues, Running
  <1>3. /\ r \in Range(batch)
        /\ Range(batch') = Range(batch) \ {r}
        /\ IsInjective(batch')
    BY <1>1, TailFresh DEF OnFinish, TypeOK, InOnePlace
  <1>4. r \notin Range(finished)
    BY <1>3 DEF InOnePlace
  <1>5. /\ Range(finished') = Range(finished) \cup {r}
        /\ IsInjective(finished')
    BY <1>1, <1>4, AppendFresh DEF OnFinish, TypeOK, InOnePlace
  <1> QED BY <1>2, <1>3, <1>5 DEF InOnePlace

LEMMA StutterInOnePlace ==
    ASSUME InOnePlace, UNCHANGED <<queues, request, batch, finished, added>>
    PROVE  InOnePlace'
  BY DEF InOnePlace, Running, queues

LEMMA NextInOnePlace == TypeOK /\ InOnePlace /\ [Next]_vars => InOnePlace'
  <1> SUFFICES ASSUME TypeOK, InOnePlace, [Next]_vars PROVE InOnePlace'
    OBVIOUS
  <1>1. ASSUME NEW w \in Workers, WorkerStep(w) \/ StartWorker(w)
        PROVE  InOnePlace'
    <2>1. CASE Exit(w) \/ CurlRequest(w) \/ WriteCallback(w) \/ CurlReturns(w)
               \/ OnRequest(w) \/ Reset(w) \/ StartWorker(w)
      BY <2>1, StutterInOnePlace
      DEF Exit, CurlRequest, WriteCallback, CurlReturns, OnRequest, Reset,
          StartWorker, mainVars
    <2> QED BY <1>1, <2>1, GetInOnePlace, FinishInOnePlace DEF WorkerStep
  <1>2. CASE InitReturns \/ UpdateReturns \/ Joined \/ Destroy \/ UNCHANGED vars
    BY <1>2, StutterInOnePlace
    DEF InitReturns, UpdateReturns, Joined, Destroy, vars, mainVars
  <1> QED BY <1>1, <1>2, AddInOnePlace, UpdateInOnePlace, OnFinishInOnePlace
          DEF Next, MainStep, Terminated

-----------------------------------------------------------------------------
(* HttpQueue implements RequestQueue                                       *)

\* A step of RequestQueue, or one that leaves its variables alone.
RQStep == RQ!Next \/ UNCHANGED RQ!rqVars

LEMMA InitRefines == Init => RQ!Init
  <1> SUFFICES ASSUME Init PROVE RQ!Init
    OBVIOUS
  <1>1. {request[w] : w \in Workers} \ {NoRequest} = {} /\ <<>> \o <<>> = <<>>
    BY DEF Init
  <1> QED BY <1>1 DEF Init, RQ!Init

LEMMA AddRefines ==
    ASSUME TypeOK, InOnePlace, NEW r \in Requests, AddQueueMsg(r)
    PROVE  RQ!Add(r)
  <1>1. batch \in Seq(Requests) /\ finishQueue \in Seq(Requests)
    BY DEF TypeOK
  <1>2. RQ!Known = Range(added)
    <2>1. RQ!Known = Range(workQueue) \cup Running \cup Range(batch \o finishQueue)
                       \cup Range(finished)
      BY DEF RQ!Known, RQ!Range, Range, Running
    <2> QED BY <1>1, <2>1, RangeConcat DEF InOnePlace
  <1>3. UNCHANGED <<request, batch, finishQueue, finished>>
    BY DEF AddQueueMsg, mainVars
  <1> QED BY <1>2, <1>3 DEF AddQueueMsg, RQ!Add

LEMMA GetRefines ==
    ASSUME TypeOK, NEW w \in Workers, GetRequest(w)
    PROVE  RQ!Start
  <1>1. Head(workQueue) \in Requests
    BY HeadTailProperties DEF GetRequest, TypeOK
  <1>2. request[w] = NoRequest /\ request' = [request EXCEPT ![w] = Head(workQueue)]
    BY DEF GetRequest, At, TypeOK
  <1>3. Running' = Running \cup {Head(workQueue)}
    BY <1>1, <1>2, RunningTake
  <1> QED BY <1>3 DEF GetRequest, mainVars, RQ!Start, Running

LEMMA FinishRefines ==
    ASSUME TypeOK, InOnePlace, NEW w \in Workers, FinishRequest(w)
    PROVE  \E r \in Requests : RQ!Complete(r)
  <1>1. request[w] \in Requests /\ request[w] # NoRequest
    BY HttpQueueAssumption DEF FinishRequest, At, TypeOK
  <1>2. request[w] \in Running /\ Running' = Running \ {request[w]}
    BY <1>1, RunningDrop DEF FinishRequest
  <1>3. batch \o Append(finishQueue, request[w])
          = Append(batch \o finishQueue, request[w])
    <2>1. batch \in Seq(Requests) /\ finishQueue \in Seq(Requests)
      BY DEF TypeOK
    <2> QED BY <1>1, <2>1, ConcatAppend
  <1> QED BY <1>1, <1>2, <1>3 DEF FinishRequest, mainVars, RQ!Complete, Running

\* The swap in update() only moves requests within completed.
LEMMA UpdateRefines ==
    ASSUME TypeOK, Update
    PROVE  UNCHANGED RQ!rqVars
  <1>1. finishQueue \o <<>> = finishQueue /\ <<>> \o finishQueue = finishQueue
    BY ConcatEmptySeq DEF TypeOK
  <1>2. batch = <<>> /\ UNCHANGED <<workQueue, request, finished>>
    BY DEF Update, TypeOK
  <1> QED BY <1>1, <1>2 DEF Update, RQ!rqVars

LEMMA OnFinishRefines ==
    ASSUME TypeOK, OnFinish
    PROVE  RQ!Deliver
  <1>1. /\ batch \o finishQueue # <<>>
        /\ Head(batch \o finishQueue) = Head(batch)
        /\ Tail(batch \o finishQueue) = Tail(batch) \o finishQueue
    BY ConcatHeadTail DEF OnFinish, TypeOK
  <1> QED BY <1>1 DEF OnFinish, queues, RQ!Deliver

LEMMA StutterRefines ==
    ASSUME UNCHANGED <<queues, request, batch, finished>>
    PROVE  RQStep
  BY DEF RQStep, RQ!rqVars, queues

LEMMA NextRefines ==
    TypeOK /\ InOnePlace /\ [Next]_vars => [RQ!Next]_(RQ!rqVars)
  <1> SUFFICES ASSUME TypeOK, InOnePlace, [Next]_vars PROVE RQStep
    BY DEF RQStep
  <1>1. ASSUME NEW w \in Workers, WorkerStep(w) \/ StartWorker(w)
        PROVE  RQStep
    <2>1. CASE GetRequest(w)
      BY <2>1, GetRefines DEF RQStep, RQ!Next
    <2>2. CASE FinishRequest(w)
      BY <2>2, FinishRefines DEF RQStep, RQ!Next
    <2>3. CASE Exit(w) \/ CurlRequest(w) \/ WriteCallback(w) \/ CurlReturns(w)
               \/ OnRequest(w) \/ Reset(w) \/ StartWorker(w)
      BY <2>3, StutterRefines
      DEF Exit, CurlRequest, WriteCallback, CurlReturns, OnRequest, Reset,
          StartWorker, mainVars
    <2> QED BY <1>1, <2>1, <2>2, <2>3 DEF WorkerStep
  <1>2. ASSUME NEW r \in Requests, AddQueueMsg(r) PROVE RQStep
    BY <1>2, AddRefines DEF RQStep, RQ!Next
  <1>3. CASE Update
    BY <1>3, UpdateRefines DEF RQStep
  <1>4. CASE OnFinish
    BY <1>4, OnFinishRefines DEF RQStep, RQ!Next
  <1>5. CASE InitReturns \/ UpdateReturns \/ Joined \/ Destroy \/ UNCHANGED vars
    BY <1>5, StutterRefines
    DEF InitReturns, UpdateReturns, Joined, Destroy, vars, mainVars
  <1> QED BY <1>1, <1>2, <1>3, <1>4, <1>5 DEF Next, MainStep, Terminated

\* Whoever uses HttpQueue sees RequestQueue: addQueueMsg puts a request behind
\* the others, a thread takes the first, finishRequest completes it, whatever
\* became of its transfers, and update() calls onFinish in the order of the
\* completions.
THEOREM HttpQueueImplementsAbstract == Spec => ImplementsRequestQueue
  <1>1. Init => TypeOK /\ InOnePlace
    BY InitTypeOK, InitInOnePlace
  <1>2. TypeOK /\ InOnePlace /\ [Next]_vars => (TypeOK /\ InOnePlace)'
    BY NextTypeOK, NextInOnePlace
  <1> QED BY <1>1, <1>2, InitRefines, NextRefines, PTL
          DEF Spec, ImplementsRequestQueue, RQ!Spec
===============================================================================
