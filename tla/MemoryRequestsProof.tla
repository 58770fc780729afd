------------------------ MODULE MemoryRequestsProof ------------------------
(***************************************************************************)
(* Proofs about the request queue, for every set of nodes, spaces and      *)
(* requests, and every bound.                                              *)
(***************************************************************************)
EXTENDS MemoryRequests, SequenceTheorems, TLAPS

Status == {"unmade", "pending", "ok", "failed"}

\* The requests are numbered without gaps, and everything before the front of
\* the queue has an outcome.
Numbered ==
  /\ \A i \in Ids : status[i] = "unmade" <=> i > made
  /\ \A i \in 1..made : req[i] \in Request
  /\ \A i \in 1..(head - 1) : status[i] \in {"ok", "failed"}

\* The inductive invariant.
IInv == TypeOK /\ Numbered /\ NoLostWakeup /\ LibServesFront

USE BoundsAssumption, NodesAssumption, RequestsAssumption DEF Ids

\* Putting a frame on the bus gives a sequence of frames.
LEMMA PutType ==
  ASSUME NEW S, NEW s \in Seq(S), NEW e \in S
  PROVE  Put(s, e) \in Seq(S)
  BY DEF Put

-----------------------------------------------------------------------------
(***************************************************************************)
(* requestNextMemoryBlock, for any requests rq of status st that keep the  *)
(* numbering.                                                              *)
(***************************************************************************)
LEMMA RequestNextInv ==
  ASSUME TypeOK,
         NEW rq \in [Ids -> Request \cup {Unmade}],
         NEW st \in [Ids -> Status],
         NEW n \in 0..MaxRequests,
         NEW w \in Nat,
         head <= n + 1,
         \A i \in Ids : st[i] = "unmade" <=> i > n,
         \A i \in 1..n : rq[i] \in Request,
         \A i \in 1..(head - 1) : st[i] \in {"ok", "failed"},
         ~requesting, ~timerOn,
         RequestNextMemoryBlock(rq, st, n, w),
         req' = rq, made' = n,
         UNCHANGED <<rxBusy, fromNode, answer, served, overtaken>>
  PROVE  IInv'
<1>1. PICK h \in head..(n + 1) :
        /\ SkipsTo(h, n, st)
        /\ \/ /\ h = n + 1
              /\ head' = h /\ status' = st /\ wakeups' = w
              /\ UNCHANGED <<requesting, timerOn, retries, libVars, toNode, lastSent>>
           \/ /\ h <= n
              /\ LibAccepts(rq[h]) /\ LibStart(rq[h])
              /\ toNode' = [toNode EXCEPT ![rq[h].alias] = Put(@, h)]
              /\ lastSent' = h
              /\ head' = h /\ status' = st /\ wakeups' = w
              /\ requesting' = TRUE /\ timerOn' = TRUE
              /\ UNCHANGED retries
           \/ /\ h <= n
              /\ \/ LibAccepts(rq[h]) /\ LibStart(rq[h])
                 \/ ~LibAccepts(rq[h]) /\ UNCHANGED libVars
              /\ status' = [st EXCEPT ![h] = "failed"]
              /\ head' = h + 1
              /\ MemoryRequestDone(w)
              /\ UNCHANGED <<toNode, lastSent>>
  BY DEF RequestNextMemoryBlock
<1>2. h \in 1..(MaxRequests + 1) /\ h \in Int
  BY DEF TypeOK
<1>3. \A i \in 1..(h - 1) : st[i] \in {"ok", "failed"}
  <2> SUFFICES ASSUME NEW i \in 1..(h - 1) PROVE st[i] \in {"ok", "failed"}
    OBVIOUS
  <2>1. CASE i < head
    BY <2>1 DEF TypeOK
  <2>2. CASE i >= head
    <3>1. i \in head..(h - 1) /\ i \in Ids /\ i <= n
      BY <1>2, <2>2 DEF TypeOK
    <3>2. st[i] # "pending" /\ st[i] # "unmade" /\ st[i] \in Status
      BY <1>1, <3>1 DEF SkipsTo
    <3> QED BY <3>2 DEF Status
  <2> QED BY <2>1, <2>2 DEF TypeOK
<1>4. CASE /\ h = n + 1
           /\ head' = h /\ status' = st /\ wakeups' = w
           /\ UNCHANGED <<requesting, timerOn, retries, libVars, toNode, lastSent>>
  <2>1. TypeOK'
    BY <1>2, <1>4 DEF TypeOK, Status, libVars
  <2>2. Numbered'
    BY <1>3, <1>4 DEF Numbered
  <2>3. NoLostWakeup'
    <3>1. \A i \in Ids : st[i] # "pending"
      BY <1>2, <1>3, <1>4
    <3> QED BY <1>4, <3>1 DEF NoLostWakeup
  <2>4. LibServesFront'
    BY <1>4 DEF LibServesFront
  <2> QED BY <2>1, <2>2, <2>3, <2>4 DEF IInv
<1>5. CASE /\ h <= n
           /\ LibAccepts(rq[h]) /\ LibStart(rq[h])
           /\ toNode' = [toNode EXCEPT ![rq[h].alias] = Put(@, h)]
           /\ lastSent' = h
           /\ head' = h /\ status' = st /\ wakeups' = w
           /\ requesting' = TRUE /\ timerOn' = TRUE
           /\ UNCHANGED retries
  <2>1. h \in Ids /\ rq[h] \in Request /\ st[h] = "pending"
    BY <1>1, <1>2, <1>5 DEF SkipsTo
  <2>2. rq[h].alias \in Nodes /\ rq[h].space \in Spaces /\ rq[h].kind \in Kinds
    BY <2>1 DEF Request
  <2>3. toNode' \in [Nodes -> Seq(Ids)]
    <3>1. Put(toNode[rq[h].alias], h) \in Seq(Ids)
      BY <2>1, <2>2, PutType DEF TypeOK
    <3> QED BY <1>5, <2>2, <3>1 DEF TypeOK
  <2>4. /\ libAlias' \in Nodes \cup {NoNode}
        /\ libKind' \in {"write", "update", "other"}
        /\ libSpace' \in Spaces \cup {NoNode}
    BY <1>5, <2>2 DEF TypeOK, LibStart
  <2>5. TypeOK'
    <3>1. head' \in 1..(made' + 1) /\ lastSent' \in 0..MaxRequests
      BY <1>2, <1>5, <2>1
    <3> QED BY <1>2, <1>5, <2>3, <2>4, <3>1 DEF TypeOK, Status
  <2>6. Numbered'
    BY <1>3, <1>5 DEF Numbered
  <2>7. NoLostWakeup'
    BY <1>5, <2>1 DEF NoLostWakeup
  <2>8. LibServesFront'
    BY <1>5, <2>1 DEF LibServesFront, LibStart
  <2> QED BY <2>5, <2>6, <2>7, <2>8 DEF IInv
<1>6. CASE /\ h <= n
           /\ \/ LibAccepts(rq[h]) /\ LibStart(rq[h])
              \/ ~LibAccepts(rq[h]) /\ UNCHANGED libVars
           /\ status' = [st EXCEPT ![h] = "failed"]
           /\ head' = h + 1
           /\ MemoryRequestDone(w)
           /\ UNCHANGED <<toNode, lastSent>>
  <2>1. h \in Ids /\ rq[h] \in Request /\ st[h] = "pending"
    BY <1>1, <1>2, <1>6 DEF SkipsTo
  <2>2. rq[h].alias \in Nodes /\ rq[h].space \in Spaces /\ rq[h].kind \in Kinds
    BY <2>1 DEF Request
  <2>3. /\ libAlias' \in Nodes \cup {NoNode}
        /\ libKind' \in {"write", "update", "other"}
        /\ libSpace' \in Spaces \cup {NoNode}
    BY <1>6, <2>2 DEF TypeOK, LibStart, libVars
  <2>4. TypeOK'
    <3>1. status' \in [Ids -> Status] /\ head' \in 1..(made' + 1)
      BY <1>2, <1>6, <2>1 DEF Status
    <3>2. /\ requesting' = FALSE /\ timerOn' = FALSE
          /\ retries' \in 0..MaxRetries /\ wakeups' \in Nat
      BY <1>6 DEF MemoryRequestDone
    <3> QED BY <1>6, <2>3, <3>1, <3>2 DEF TypeOK, Status
  <2>5. Numbered'
    <3>1. \A i \in 1..h : status'[i] \in {"ok", "failed"}
      BY <1>2, <1>3, <1>6, <2>1 DEF Status
    <3> QED BY <1>2, <1>6, <2>1, <3>1 DEF Numbered, Status
  <2>6. NoLostWakeup' /\ LibServesFront'
    BY <1>6 DEF NoLostWakeup, LibServesFront, MemoryRequestDone
  <2> QED BY <2>4, <2>5, <2>6 DEF IInv
<1> QED BY <1>1, <1>4, <1>5, <1>6

-----------------------------------------------------------------------------
(***************************************************************************)
(* The other handlers.                                                     *)
(***************************************************************************)

\* The library's state keeps its type when the request is cleared.
LEMMA LibClearType ==
  ASSUME TypeOK, LibClear
  PROVE  /\ libAlias' = NoNode /\ libKind' = "other"
         /\ libSpace' \in Spaces \cup {NoNode}
  BY DEF TypeOK, LibClear

\* Retrying and failing the current request, and settling a request, keep the
\* invariant, provided the rest of the state does.
LEMMA RetryInv ==
  ASSUME IInv, requesting, retries < MaxRetries, RetryCurrentRequest,
         LibClear, UNCHANGED <<req, made, toNode, lastSent, answer, served>>,
         rxBusy' \in BOOLEAN, overtaken' \in BOOLEAN,
         fromNode' \in [Nodes -> Seq(Response)]
  PROVE  IInv'
<1>1. TypeOK'
  <2>1. retries' \in 0..MaxRetries /\ wakeups' \in Nat
    BY DEF IInv, TypeOK, RetryCurrentRequest
  <2> QED BY <2>1, LibClearType DEF IInv, TypeOK, RetryCurrentRequest
<1>2. Numbered'
  BY DEF IInv, Numbered, RetryCurrentRequest
<1>3. NoLostWakeup' /\ LibServesFront'
  BY DEF IInv, TypeOK, NoLostWakeup, LibServesFront, RetryCurrentRequest
<1> QED BY <1>1, <1>2, <1>3 DEF IInv

LEMMA FailInv ==
  ASSUME IInv, requesting, FailCurrentRequest,
         LibClear, UNCHANGED <<req, made, toNode, lastSent, answer, served>>,
         rxBusy' \in BOOLEAN, overtaken' \in BOOLEAN,
         fromNode' \in [Nodes -> Seq(Response)]
  PROVE  IInv'
<1>1. /\ head \in Ids /\ head <= made /\ status[head] = "pending"
      /\ status' = [status EXCEPT ![head] = "failed"]
      /\ head' = head + 1
  BY DEF IInv, TypeOK, NoLostWakeup, FailCurrentRequest
<1>2. /\ requesting' = FALSE /\ timerOn' = FALSE /\ retries' = 0
      /\ wakeups' \in Nat /\ wakeups' > 0
  BY DEF IInv, TypeOK, FailCurrentRequest, MemoryRequestDone
<1>3. TypeOK'
  <2>1. status' \in [Ids -> Status] /\ head' \in 1..(made' + 1)
    BY <1>1 DEF IInv, TypeOK, Status
  <2>2. /\ libAlias' \in Nodes \cup {NoNode}
        /\ libKind' \in {"write", "update", "other"}
        /\ libSpace' \in Spaces \cup {NoNode}
    BY LibClearType DEF IInv
  <2>3. TypeOK
    BY DEF IInv
  <2>4. requesting' \in BOOLEAN /\ timerOn' \in BOOLEAN
    BY <1>2, Zenon
  <2>5. retries' \in 0..MaxRetries /\ wakeups' \in Nat
    BY <1>2
  <2> QED BY <2>1, <2>2, <2>3, <2>4, <2>5 DEF TypeOK, Status
<1>4. Numbered'
  <2>1. status \in [Ids -> Status]
    BY DEF IInv, TypeOK, Status
  <2>2. \A i \in 1..head : status'[i] \in {"ok", "failed"}
    BY <1>1, <2>1 DEF IInv, TypeOK, Numbered
  <2> QED BY <1>1, <2>1, <2>2 DEF IInv, TypeOK, Numbered
<1>5. NoLostWakeup' /\ LibServesFront'
  BY <1>2 DEF NoLostWakeup, LibServesFront
<1> QED BY <1>3, <1>4, <1>5 DEF IInv

LEMMA SettleInv ==
  ASSUME IInv, NEW kind, NEW n, NEW space, NEW result \in {"ok", "failed"},
         NEW of \in Ids, Settle(kind, n, space, result, of),
         LibClear, UNCHANGED <<req, made, toNode, lastSent, served, overtaken>>,
         rxBusy' \in BOOLEAN, fromNode' \in [Nodes -> Seq(Response)]
  PROVE  IInv'
<1>1. /\ requesting' = FALSE /\ timerOn' = FALSE /\ retries' = 0
      /\ wakeups' \in Nat /\ wakeups' > 0 /\ head' = head
  BY DEF IInv, TypeOK, Settle, MemoryRequestDone
<1>2. /\ answer' \in [Ids -> 0..MaxRequests]
      /\ status' \in [Ids -> Status]
      /\ \A i \in Ids : \/ status'[i] = status[i]
                        \/ status[i] = "pending" /\ status'[i] \in {"ok", "failed"}
  <2>1. CASE UNCHANGED <<status, answer>>
    BY <2>1 DEF IInv, TypeOK, Status
  <2>2. CASE \E i \in Ids : /\ Matches(i, kind, n, space)
                            /\ status' = [status EXCEPT ![i] = result]
                            /\ answer' = [answer EXCEPT ![i] = of]
    BY <2>2 DEF IInv, TypeOK, Status, Matches
  <2> QED BY <2>1, <2>2 DEF Settle
<1>3. TypeOK'
  <2>1. /\ libAlias' \in Nodes \cup {NoNode}
        /\ libKind' \in {"write", "update", "other"}
        /\ libSpace' \in Spaces \cup {NoNode}
    BY LibClearType DEF IInv
  <2>2. TypeOK
    BY DEF IInv
  <2>3. requesting' \in BOOLEAN /\ timerOn' \in BOOLEAN
    BY <1>1, Zenon
  <2>4. retries' \in 0..MaxRetries /\ wakeups' \in Nat /\ head' = head
    BY <1>1
  <2> QED BY <1>2, <2>1, <2>2, <2>3, <2>4 DEF TypeOK, Status
<1>4. Numbered'
  <2>1. TypeOK /\ Numbered
    BY DEF IInv
  <2>2. \A i \in Ids : status'[i] = "unmade" <=> status[i] = "unmade"
    BY <1>2
  <2>3. \A i \in 1..(head - 1) : i \in Ids /\ status'[i] \in {"ok", "failed"}
    BY <1>2, <2>1 DEF TypeOK, Numbered
  <2> QED BY <1>1, <2>1, <2>2, <2>3 DEF Numbered
<1>5. NoLostWakeup' /\ LibServesFront'
  BY <1>1 DEF NoLostWakeup, LibServesFront
<1> QED BY <1>3, <1>4, <1>5 DEF IInv

\* A response that only changes the bus, or clears what the library waits for.
LEMMA IgnoreInv ==
  ASSUME IInv, UNCHANGED <<queueVars, status, toNode, lastSent, answer>>,
         LibClear \/ UNCHANGED libVars,
         rxBusy' \in BOOLEAN, overtaken' \in BOOLEAN, served' \subseteq Ids,
         fromNode' \in [Nodes -> Seq(Response)]
  PROVE  IInv'
<1>1. TypeOK'
  BY LibClearType DEF IInv, TypeOK, queueVars, libVars
<1>2. Numbered' /\ NoLostWakeup'
  BY DEF IInv, Numbered, NoLostWakeup, queueVars
<1>3. LibServesFront'
  BY DEF IInv, LibServesFront, LibClear, queueVars, libVars
<1> QED BY <1>1, <1>2, <1>3 DEF IInv

\* What is left on the bus after a response has arrived is a sequence.
LEMMA ArrivesType ==
  ASSUME TypeOK, NEW n \in Nodes, NEW m, Arrives(n, m)
  PROVE  fromNode' \in [Nodes -> Seq(Response)]
<1>1. Tail(fromNode[n]) \in Seq(Response)
  BY DEF TypeOK, Arrives
<1> QED BY <1>1 DEF TypeOK, Arrives

-----------------------------------------------------------------------------
(***************************************************************************)
(* One lemma per action.                                                   *)
(***************************************************************************)
LEMMA SubmitInv ==
  ASSUME IInv, NEW r \in Requests, Submit(r)
  PROVE  IInv'
<1> USE DEF Status
<1>0. TypeOK /\ Numbered /\ NoLostWakeup /\ LibServesFront
  BY DEF IInv
<1>1. PICK st : st = [status EXCEPT ![made + 1] = "pending"]
  OBVIOUS
<1>2. PICK rq : rq = [req EXCEPT ![made + 1] = r]
  OBVIOUS
<1>3. /\ made + 1 \in Ids /\ r \in Request
      /\ made' = made + 1 /\ req' = rq
      /\ UNCHANGED <<rxBusy, fromNode, answer, served, overtaken>>
  BY <1>0, <1>2 DEF Submit, TypeOK
<1>4. /\ st \in [Ids -> Status]
      /\ \A i \in Ids : st[i] = "unmade" <=> i > made + 1
      /\ \A i \in 1..(head - 1) : st[i] \in {"ok", "failed"}
  <2>1. \A i \in Ids : st[i] = IF i = made + 1 THEN "pending" ELSE status[i]
    BY <1>0, <1>1 DEF TypeOK
  <2>2. \A i \in Ids : st[i] = "unmade" <=> i > made + 1
    BY <1>0, <2>1 DEF TypeOK, Numbered
  <2>3. \A i \in 1..(head - 1) : i \in Ids /\ i # made + 1
    BY <1>0, <1>3 DEF TypeOK
  <2> QED BY <1>0, <1>1, <2>1, <2>2, <2>3 DEF TypeOK, Numbered
<1>5. /\ rq \in [Ids -> Request \cup {Unmade}]
      /\ \A i \in 1..(made + 1) : rq[i] \in Request
      /\ \A i \in 1..made : rq[i] = req[i]
  BY <1>0, <1>2, <1>3 DEF TypeOK, Numbered
<1>6. CASE requesting
  <2>1. /\ status' = st
        /\ UNCHANGED <<head, requesting, timerOn, retries, wakeups, libVars,
                       toNode, lastSent>>
    BY <1>1, <1>6 DEF Submit
  <2>2. TypeOK'
    BY <1>0, <1>3, <1>4, <1>5, <2>1 DEF TypeOK, libVars
  <2>3. Numbered'
    BY <1>3, <1>4, <1>5, <2>1 DEF Numbered
  <2>4. NoLostWakeup'
    <3>1. head <= made /\ head \in Ids /\ status[head] = "pending"
      BY <1>0, <1>6 DEF NoLostWakeup, TypeOK
    <3>2. head' <= made' /\ status'[head'] = "pending"
      BY <1>0, <1>1, <1>3, <2>1, <3>1 DEF TypeOK
    <3>3. requesting' /\ timerOn'
      BY <1>0, <1>6, <2>1 DEF NoLostWakeup
    <3> QED BY <3>2, <3>3 DEF NoLostWakeup
  <2>5. LibServesFront'
    <3>1. head \in 1..made
      BY <1>0, <1>6 DEF NoLostWakeup, TypeOK
    <3>2. req'[head'] = req[head]
      BY <1>3, <1>5, <2>1, <3>1
    <3> QED BY <1>0, <2>1, <3>2 DEF LibServesFront, libVars
  <2> QED BY <2>2, <2>3, <2>4, <2>5 DEF IInv
<1>7. CASE ~requesting
  <2>1. RequestNextMemoryBlock(rq, st, made + 1, wakeups)
    BY <1>1, <1>3, <1>7 DEF Submit
  <2>2. ~timerOn
    BY <1>0, <1>7 DEF NoLostWakeup
  <2>3. head <= (made + 1) + 1 /\ made + 1 \in 0..MaxRequests /\ wakeups \in Nat
    BY <1>0, <1>3 DEF TypeOK
  <2> HIDE DEF Status
  <2> QED BY <1>0, <1>3, <1>4, <1>5, <1>7, <2>1, <2>2, <2>3, RequestNextInv
<1> QED BY <1>6, <1>7

LEMMA WakeupInv ==
  ASSUME IInv, Wakeup
  PROVE  IInv'
<1>0. TypeOK /\ Numbered /\ NoLostWakeup /\ LibServesFront
  BY DEF IInv
<1>1. wakeups - 1 \in Nat
  BY <1>0 DEF Wakeup, TypeOK
<1>2. CASE requesting
  <2>1. /\ wakeups' = wakeups - 1
        /\ UNCHANGED <<status, head, requesting, timerOn, retries, libVars,
                       toNode, lastSent>>
        /\ UNCHANGED <<req, made, rxBusy, fromNode, answer, served, overtaken>>
    BY <1>2 DEF Wakeup
  <2>2. TypeOK'
    BY <1>0, <1>1, <2>1 DEF TypeOK, libVars
  <2>3. Numbered' /\ LibServesFront'
    BY <1>0, <2>1 DEF Numbered, LibServesFront, libVars
  <2>4. NoLostWakeup'
    BY <1>0, <1>2, <2>1 DEF NoLostWakeup
  <2> QED BY <2>2, <2>3, <2>4 DEF IInv
<1>3. CASE ~requesting
  <2>1. RequestNextMemoryBlock(req, status, made, wakeups - 1)
    BY <1>3 DEF Wakeup
  <2>2. UNCHANGED <<req, made, rxBusy, fromNode, answer, served, overtaken>>
    BY DEF Wakeup
  <2>3. ~timerOn
    BY <1>0, <1>3 DEF NoLostWakeup
  <2>4. /\ req \in [Ids -> Request \cup {Unmade}]
        /\ status \in [Ids -> Status]
        /\ made \in 0..MaxRequests /\ head <= made + 1
    BY <1>0 DEF TypeOK, Status
  <2>5. /\ \A i \in Ids : status[i] = "unmade" <=> i > made
        /\ \A i \in 1..made : req[i] \in Request
        /\ \A i \in 1..(head - 1) : status[i] \in {"ok", "failed"}
    BY <1>0 DEF Numbered
  <2> QED BY <1>0, <1>1, <1>3, <2>1, <2>2, <2>3, <2>4, <2>5, RequestNextInv
<1> QED BY <1>2, <1>3

LEMMA TimedOutInv ==
  ASSUME IInv, MemoryRequestTimedOut
  PROVE  IInv'
<1>0. TypeOK /\ NoLostWakeup
  BY DEF IInv
<1>1. requesting /\ head <= made
  BY <1>0 DEF MemoryRequestTimedOut, NoLostWakeup
<1>2. /\ LibClear
      /\ UNCHANGED <<req, made, rxBusy, busVars, lastSent, answer, served>>
      /\ overtaken' = (overtaken \/ \E n \in Nodes :
                         toNode[n] # <<>> \/ fromNode[n] # <<>>)
      /\ \/ MayRetry /\ RetryCurrentRequest
         \/ ~MayRetry /\ FailCurrentRequest
  BY <1>1 DEF MemoryRequestTimedOut
<1>3. /\ overtaken' \in BOOLEAN
  BY <1>2, Zenon
<1>4. rxBusy' \in BOOLEAN /\ fromNode' \in [Nodes -> Seq(Response)]
  BY <1>0, <1>2 DEF TypeOK, busVars
<1>5. UNCHANGED <<req, made, toNode, lastSent, answer, served>>
  BY <1>2 DEF busVars
<1>6. CASE MayRetry /\ RetryCurrentRequest
  BY <1>1, <1>2, <1>3, <1>4, <1>5, <1>6, RetryInv DEF MayRetry
<1>7. CASE ~MayRetry /\ FailCurrentRequest
  BY <1>1, <1>2, <1>3, <1>4, <1>5, <1>7, FailInv
<1> QED BY <1>2, <1>6, <1>7

LEMMA ReplyInv ==
  ASSUME IInv, NEW n \in Nodes, Reply(n)
  PROVE  IInv'
<1>0. TypeOK
  BY DEF IInv
<1>1. PICK m \in Response :
        /\ Arrives(n, m)
        /\ m.what \in {"good", "bad"}
        /\ UNCHANGED rxBusy
        /\ LET r == req[m.of] IN
           \/ /\ rxBusy \/ libAlias # n
              /\ Ignore
           \/ /\ ~rxBusy /\ libAlias = n
              /\ LibClear
              /\ \/ /\ m.what = "good"
                    /\ Settle(r.kind, n, r.space, "ok", m.of)
                 \/ /\ m.what = "bad" /\ r.kind = "write"
                    /\ Settle("write", n, r.space, "failed", m.of)
                 \/ /\ m.what = "bad" /\ r.kind = "read"
                    /\ SettleRejectedRead(n, r.space, m.of)
  BY DEF Reply
<1>2. /\ UNCHANGED <<req, made, toNode, lastSent, served, overtaken>>
      /\ fromNode' \in [Nodes -> Seq(Response)]
      /\ rxBusy' \in BOOLEAN /\ overtaken' \in BOOLEAN /\ served' \subseteq Ids
      /\ m.of \in Ids
  BY <1>0, <1>1, ArrivesType DEF Arrives, TypeOK, Response
<1>3. CASE Ignore
  BY <1>2, <1>3, IgnoreInv DEF Ignore, queueVars
<1>4. CASE LibClear /\ Settle(req[m.of].kind, n, req[m.of].space, "ok", m.of)
  BY <1>2, <1>4, SettleInv
<1>5. CASE LibClear /\ Settle("write", n, req[m.of].space, "failed", m.of)
  BY <1>2, <1>5, SettleInv
<1>6. CASE LibClear /\ SettleRejectedRead(n, req[m.of].space, m.of)
  <2>1. CASE Settle("read", n, req[m.of].space, "failed", m.of)
    BY <1>2, <1>6, <2>1, SettleInv
  <2>2. CASE UNCHANGED <<status, answer, head, requesting, timerOn, retries, wakeups>>
    BY <1>2, <1>6, <2>2, IgnoreInv DEF queueVars
  <2> QED BY <1>6, <2>1, <2>2 DEF SettleRejectedRead
<1> QED BY <1>1, <1>3, <1>4, <1>5, <1>6

LEMMA ReceivedOkInv ==
  ASSUME IInv, NEW n \in Nodes, ReceivedOk(n)
  PROVE  IInv'
<1>0. TypeOK /\ NoLostWakeup
  BY DEF IInv
<1>1. PICK m \in Response :
        /\ Arrives(n, m)
        /\ rxBusy' = FALSE
        /\ \/ Ignore
           \/ LibClear /\ Settle("write", n, libSpace, "ok", m.of)
           \/ LibClear /\ Settle("update", n, NoNode, "ok", m.of)
           \/ /\ timerOn' = (timerOn \/ requesting)
              /\ UNCHANGED <<status, head, requesting, retries, wakeups, libVars,
                             answer>>
  BY DEF ReceivedOk
<1>2. /\ UNCHANGED <<req, made, toNode, lastSent, served, overtaken>>
      /\ fromNode' \in [Nodes -> Seq(Response)]
      /\ overtaken' \in BOOLEAN /\ served' \subseteq Ids /\ m.of \in Ids
  BY <1>0, <1>1, ArrivesType DEF Arrives, TypeOK, Response
<1>3. rxBusy' \in BOOLEAN
  BY <1>1, Zenon
<1>4. CASE Ignore
  BY <1>2, <1>3, <1>4, IgnoreInv DEF Ignore, queueVars
<1>5. CASE LibClear /\ Settle("write", n, libSpace, "ok", m.of)
  BY <1>2, <1>3, <1>5, SettleInv
<1>6. CASE LibClear /\ Settle("update", n, NoNode, "ok", m.of)
  BY <1>2, <1>3, <1>6, SettleInv
<1>7. CASE /\ timerOn' = (timerOn \/ requesting)
           /\ UNCHANGED <<status, head, requesting, retries, wakeups, libVars,
                          answer>>
  <2>1. timerOn \in BOOLEAN /\ (requesting <=> timerOn)
    BY <1>0 DEF TypeOK, NoLostWakeup
  <2>2. timerOn' = timerOn
    BY <1>7, <2>1, Zenon
  <2> QED BY <1>2, <1>3, <1>7, <2>2, IgnoreInv DEF queueVars
<1> QED BY <1>1, <1>4, <1>5, <1>6, <1>7

LEMMA RejectedInv ==
  ASSUME IInv, NEW n \in Nodes, Rejected(n)
  PROVE  IInv'
<1>0. TypeOK
  BY DEF IInv
<1>1. PICK m \in Response :
        /\ Arrives(n, m)
        /\ rxBusy' = FALSE
        /\ \/ Ignore
           \/ /\ LibClear
              /\ UNCHANGED <<status, head, requesting, timerOn, retries, wakeups,
                             answer>>
           \/ /\ LibClear /\ requesting /\ UNCHANGED answer
              /\ MayRetry /\ RetryCurrentRequest
           \/ /\ LibClear /\ requesting /\ UNCHANGED answer
              /\ FailCurrentRequest
  BY DEF Rejected
<1>2. /\ UNCHANGED <<req, made, toNode, lastSent, served, overtaken>>
      /\ fromNode' \in [Nodes -> Seq(Response)]
      /\ overtaken' \in BOOLEAN /\ served' \subseteq Ids
  BY <1>0, <1>1, ArrivesType DEF Arrives, TypeOK
<1>3. rxBusy' \in BOOLEAN
  BY <1>1, Zenon
<1>4. CASE Ignore
  BY <1>2, <1>3, <1>4, IgnoreInv DEF Ignore, queueVars
<1>5. CASE /\ LibClear
           /\ UNCHANGED <<status, head, requesting, timerOn, retries, wakeups,
                          answer>>
  BY <1>2, <1>3, <1>5, IgnoreInv DEF queueVars
<1>6. CASE /\ LibClear /\ requesting /\ UNCHANGED answer
           /\ MayRetry /\ RetryCurrentRequest
  BY <1>2, <1>3, <1>6, RetryInv DEF MayRetry
<1>7. CASE LibClear /\ requesting /\ UNCHANGED answer /\ FailCurrentRequest
  BY <1>2, <1>3, <1>7, FailInv
<1> QED BY <1>1, <1>4, <1>5, <1>6, <1>7

\* The nodes and the bus change nothing but what is on the bus.
LEMMA BusInv ==
  ASSUME IInv,
         UNCHANGED <<queueVars, status, libVars, lastSent, answer, overtaken>>,
         rxBusy' \in BOOLEAN, served' \subseteq Ids,
         toNode' \in [Nodes -> Seq(Ids)], fromNode' \in [Nodes -> Seq(Response)]
  PROVE  IInv'
<1>1. TypeOK'
  BY DEF IInv, TypeOK, queueVars, libVars
<1>2. Numbered' /\ NoLostWakeup' /\ LibServesFront'
  BY DEF IInv, Numbered, NoLostWakeup, LibServesFront, queueVars, libVars
<1> QED BY <1>1, <1>2 DEF IInv

LEMMA NodeRespondsInv ==
  ASSUME IInv, NEW n \in Nodes, NodeResponds(n)
  PROVE  IInv'
<1>0. TypeOK
  BY DEF IInv
<1>1. PICK whats \in Responses(req[Head(toNode[n])].kind) :
        /\ fromNode' = [fromNode EXCEPT ![n] =
             @ \o [k \in 1..Len(whats) |->
                     [of |-> Head(toNode[n]), what |-> whats[k]]]]
        /\ \/ served' = served \cup {Head(toNode[n])}
           \/ served' = served
  BY DEF NodeResponds
<1>2. Head(toNode[n]) \in Ids /\ Tail(toNode[n]) \in Seq(Ids)
  <2>1. toNode[n] \in Seq(Ids) /\ toNode[n] # <<>>
    BY <1>0 DEF NodeResponds, TypeOK
  <2> HIDE DEF Ids
  <2> QED BY <2>1, HeadTailProperties
<1>3. /\ Len(whats) \in Nat
      /\ \A k \in 1..Len(whats) :
           whats[k] \in {"rxok", "rxokPending", "good", "bad", "busy", "refused"}
  <2>1. \/ whats = <<"busy">> \/ whats = <<"refused">> \/ whats = <<"rxok">>
        \/ whats = <<"rxokPending", "good">> \/ whats = <<"rxokPending", "bad">>
    BY DEF Responses
  <2> QED BY <2>1
<1>4. [k \in 1..Len(whats) |-> [of |-> Head(toNode[n]), what |-> whats[k]]]
        \in Seq(Response)
  BY <1>2, <1>3 DEF Response
<1>5. fromNode' \in [Nodes -> Seq(Response)]
  <2>1. fromNode[n] \in Seq(Response)
    BY <1>0 DEF TypeOK
  <2> DEFINE new == [k \in 1..Len(whats) |->
                       [of |-> Head(toNode[n]), what |-> whats[k]]]
  <2> HIDE DEF new
  <2>2. fromNode[n] \o new \in Seq(Response)
    BY <1>4, <2>1 DEF new
  <2>3. fromNode' = [fromNode EXCEPT ![n] = @ \o new]
    BY <1>1 DEF new
  <2> QED BY <1>0, <2>2, <2>3 DEF TypeOK
<1>6. toNode' \in [Nodes -> Seq(Ids)] /\ rxBusy' \in BOOLEAN
  BY <1>0, <1>2 DEF NodeResponds, TypeOK
<1>7. served' \subseteq Ids
  BY <1>0, <1>1, <1>2 DEF TypeOK
<1> QED BY <1>5, <1>6, <1>7, BusInv DEF NodeResponds

LEMMA LoseInv ==
  ASSUME IInv, NEW n \in Nodes, LoseRequest(n) \/ LoseResponse(n)
  PROVE  IInv'
<1>0. TypeOK
  BY DEF IInv
<1>1. CASE LoseRequest(n)
  <2>1. Tail(toNode[n]) \in Seq(Ids)
    BY <1>0, <1>1 DEF LoseRequest, TypeOK
  <2>2. /\ toNode' \in [Nodes -> Seq(Ids)] /\ rxBusy' \in BOOLEAN
        /\ fromNode' \in [Nodes -> Seq(Response)] /\ served' \subseteq Ids
    BY <1>0, <1>1, <2>1 DEF LoseRequest, TypeOK
  <2> QED BY <1>1, <2>2, BusInv DEF LoseRequest
<1>2. CASE LoseResponse(n)
  <2>1. Tail(fromNode[n]) \in Seq(Response)
    BY <1>0, <1>2 DEF LoseResponse, TypeOK
  <2>2. /\ toNode' \in [Nodes -> Seq(Ids)] /\ rxBusy' \in BOOLEAN
        /\ fromNode' \in [Nodes -> Seq(Response)] /\ served' \subseteq Ids
    BY <1>0, <1>2, <2>1 DEF LoseResponse, TypeOK
  <2> QED BY <1>2, <2>2, BusInv DEF LoseResponse
<1> QED BY <1>1, <1>2

LEMMA DatagramInv ==
  ASSUME IInv, DatagramStarts \/ DatagramEnds
  PROVE  IInv'
<1>1. rxBusy' \in BOOLEAN
  BY Zenon DEF DatagramStarts, DatagramEnds
<1>2. UNCHANGED <<queueVars, status, libVars, busVars, lastSent, answer, served,
                  overtaken>>
  BY DEF DatagramStarts, DatagramEnds
<1>3. /\ toNode' \in [Nodes -> Seq(Ids)] /\ fromNode' \in [Nodes -> Seq(Response)]
      /\ served' \subseteq Ids
  BY <1>2 DEF IInv, TypeOK, busVars
<1> QED BY <1>1, <1>2, <1>3, BusInv

-----------------------------------------------------------------------------
(***************************************************************************)
(* The invariant and its consequences.                                     *)
(***************************************************************************)
LEMMA InitInv == Init => IInv
<1> SUFFICES ASSUME Init PROVE IInv
  OBVIOUS
<1>1. requesting \in BOOLEAN /\ timerOn \in BOOLEAN /\ rxBusy \in BOOLEAN
      /\ overtaken \in BOOLEAN
  BY Zenon DEF Init
<1>2. TypeOK
  BY <1>1 DEF Init, TypeOK, Unmade
<1>3. Numbered /\ NoLostWakeup /\ LibServesFront
  BY DEF Init, Numbered, NoLostWakeup, LibServesFront
<1> QED BY <1>2, <1>3 DEF IInv

LEMMA NextInv == IInv /\ [Next]_vars => IInv'
<1> SUFFICES ASSUME IInv, [Next]_vars PROVE IInv'
  OBVIOUS
<1>1. ASSUME NEW r \in Requests, Submit(r) PROVE IInv'
  BY <1>1, SubmitInv
<1>2. CASE Wakeup
  BY <1>2, WakeupInv
<1>3. CASE MemoryRequestTimedOut
  BY <1>3, TimedOutInv
<1>4. ASSUME NEW n \in Nodes, Reply(n) PROVE IInv'
  BY <1>4, ReplyInv
<1>5. ASSUME NEW n \in Nodes, ReceivedOk(n) PROVE IInv'
  BY <1>5, ReceivedOkInv
<1>6. ASSUME NEW n \in Nodes, Rejected(n) PROVE IInv'
  BY <1>6, RejectedInv
<1>7. CASE DatagramStarts \/ DatagramEnds
  BY <1>7, DatagramInv
<1>8. ASSUME NEW n \in Nodes, NodeResponds(n) PROVE IInv'
  BY <1>8, NodeRespondsInv
<1>9. ASSUME NEW n \in Nodes, LoseRequest(n) \/ LoseResponse(n) PROVE IInv'
  BY <1>9, LoseInv
<1>10. CASE UNCHANGED vars
  BY <1>10 DEF vars, IInv, TypeOK, Numbered, NoLostWakeup, LibServesFront
<1> QED BY <1>1, <1>2, <1>3, <1>4, <1>5, <1>6, <1>7, <1>8, <1>9, <1>10 DEF Next

\* The invariant holds in every state of every behaviour of the client.
THEOREM Invariance == Spec => []IInv
  BY InitInv, NextInv, PTL DEF Spec

\* Every variable of the client keeps its type; in particular a request is never
\* tried more than MEMORY_REQUEST_MAX_RETRIES times without something finishing.
THEOREM TypeCorrect == Spec => []TypeOK
<1>1. IInv => TypeOK
  BY DEF IInv
<1> QED BY <1>1, Invariance, PTL

\* The queue never stalls: requestNextMemoryBlock and memoryRequestDone leave a
\* timer running whenever there is work left.
THEOREM NeverStalls == Spec => []NoLostWakeup
<1>1. IInv => NoLostWakeup
  BY DEF IInv
<1> QED BY <1>1, Invariance, PTL

\* What liblcc waits for is the front of the queue, as the comment in
\* remoteMemoryRequestFailed assumes.
THEOREM LibraryServesFront == Spec => []LibServesFront
<1>1. IInv => LibServesFront
  BY DEF IInv
<1> QED BY <1>1, Invariance, PTL

-----------------------------------------------------------------------------
(***************************************************************************)
(* Refinement of RequestQueue.                                             *)
(***************************************************************************)

\* What a step of the client is to the promise of RequestQueue.
QueueStep == Queue!Next \/ UNCHANGED <<status, lastSent>>

LEMMA RequestNextImplements ==
  ASSUME TypeOK, Numbered,
         NEW rq, NEW w,
         RequestNextMemoryBlock(rq, status, made, w)
  PROVE  QueueStep
<1> USE DEF QueueStep, Queue!Next, Queue!Ids
<1>1. PICK h \in head..(made + 1) :
        /\ SkipsTo(h, made, status)
        /\ \/ UNCHANGED <<status, lastSent>>
           \/ h <= made /\ lastSent' = h /\ status' = status
           \/ /\ h <= made /\ status' = [status EXCEPT ![h] = "failed"]
              /\ UNCHANGED lastSent
  BY DEF RequestNextMemoryBlock
<1>2. CASE h <= made /\ lastSent' = h /\ status' = status
  <2>1. h \in Ids /\ status[h] = "pending"
    BY <1>1, <1>2 DEF TypeOK, SkipsTo
  <2>2. ASSUME NEW j \in Ids, j < h
        PROVE  status[j] \notin {"unmade", "pending"}
    <3>1. CASE j < head
      <4>1. j \in 1..(head - 1)
        BY <3>1 DEF TypeOK
      <4> QED BY <4>1 DEF Numbered
    <3>2. CASE j >= head
      <4>1. j \in head..(h - 1) /\ j <= made
        BY <1>2, <2>2, <3>2 DEF TypeOK
      <4> QED BY <1>1, <4>1 DEF SkipsTo, Numbered, TypeOK
    <3> QED BY <3>1, <3>2 DEF TypeOK
  <2>3. Queue!IsNext(h, status)
    BY <2>1, <2>2 DEF Queue!IsNext
  <2>4. Queue!Transmit(h)
    BY <1>2, <2>3 DEF Queue!Transmit
  <2> QED BY <2>1, <2>4
<1>3. CASE h <= made /\ status' = [status EXCEPT ![h] = "failed"] /\ UNCHANGED lastSent
  <2>1. h \in Ids /\ status[h] = "pending"
    BY <1>1, <1>3 DEF TypeOK, SkipsTo
  <2>2. Queue!Settle(h)
    BY <1>3, <2>1 DEF Queue!Settle
  <2> QED BY <2>1, <2>2
<1> QED BY <1>1, <1>2, <1>3

LEMMA SubmitImplements ==
  ASSUME IInv, NEW r \in Requests, Submit(r)
  PROVE  QueueStep
<1> USE DEF QueueStep, Queue!Next, Queue!Ids
<1>0. TypeOK /\ Numbered
  BY DEF IInv
<1> DEFINE i == made + 1
           st == [status EXCEPT ![i] = "pending"]
<1>1. i \in Ids
  BY <1>0 DEF Submit, TypeOK
<1>2. Queue!Made(i, status)
  <2>1. status[i] = "unmade"
    BY <1>0, <1>1 DEF Numbered, TypeOK
  <2>2. \A j \in Ids : j < i => status[j] # "unmade"
    BY <1>0 DEF Numbered, TypeOK
  <2> QED BY <2>1, <2>2 DEF Queue!Made
<1>3. CASE requesting
  <2>1. status' = st /\ lastSent' = lastSent
    BY <1>3 DEF Submit
  <2>2. Queue!Submit(i)
    BY <1>2, <2>1 DEF Queue!Submit
  <2> QED BY <1>1, <2>2
<1>4. CASE ~requesting
  <2>1. RequestNextMemoryBlock(req', st, i, wakeups)
    BY <1>4 DEF Submit
  <2>2. PICK h \in head..(i + 1) :
          /\ SkipsTo(h, i, st)
          /\ \/ h = i + 1
             \/ h <= i /\ lastSent' = h /\ status' = st
             \/ /\ h <= i /\ status' = [st EXCEPT ![h] = "failed"]
                /\ UNCHANGED lastSent
    BY <2>1 DEF RequestNextMemoryBlock
  <2>3. \A j \in Ids : st[j] = IF j = i THEN "pending" ELSE status[j]
    BY <1>0, <1>1 DEF TypeOK
  <2> HIDE DEF st
  <2>4. h # i + 1
    <3>1. st[i] = "pending"
      BY <1>1, <2>3
    <3>2. i \in head..i
      BY <1>0 DEF TypeOK
    <3>3. h = i + 1 => h - 1 = i
      BY <1>1
    <3> QED BY <2>2, <3>1, <3>2, <3>3 DEF SkipsTo
  <2>5. h \in Ids /\ st[h] = "pending"
    BY <1>0, <1>1, <2>2, <2>4 DEF SkipsTo, TypeOK
  <2>6. ASSUME NEW j \in Ids, j < h
        PROVE  st[j] \notin {"unmade", "pending"}
    <3>0. j # i /\ j < i /\ st[j] = status[j]
      BY <1>0, <1>1, <2>2, <2>3, <2>4, <2>6 DEF TypeOK
    <3>1. CASE j < head
      <4>1. j \in 1..(head - 1)
        BY <1>0, <3>1 DEF TypeOK
      <4> QED BY <1>0, <3>0, <4>1 DEF Numbered
    <3>2. CASE j >= head
      <4>1. j \in head..(h - 1) /\ j <= made
        BY <1>0, <2>6, <3>0, <3>2 DEF TypeOK
      <4>2. st[j] # "pending"
        BY <2>2, <4>1 DEF SkipsTo
      <4>3. st[j] # "unmade"
        <5>1. made \in Nat /\ ~(j > made)
          BY <1>0, <4>1 DEF TypeOK
        <5>2. status[j] = "unmade" <=> j > made
          BY <1>0 DEF Numbered
        <5> QED BY <3>0, <5>1, <5>2
      <4> QED BY <4>2, <4>3
    <3> QED BY <1>0, <3>1, <3>2 DEF TypeOK
  <2>7. Queue!IsNext(h, st)
    BY <2>5, <2>6 DEF Queue!IsNext
  <2> HIDE DEF i
  <2>8. CASE lastSent' = h /\ status' = st
    <3>1. Queue!SubmitAndTransmit(i, h)
      BY <1>2, <2>7, <2>8 DEF Queue!SubmitAndTransmit, st
    <3> QED BY <1>1, <2>5, <3>1
  <2>9. CASE status' = [st EXCEPT ![h] = "failed"] /\ UNCHANGED lastSent
    <3>1. Queue!SubmitAndFail(i, h)
      BY <1>2, <2>7, <2>9 DEF Queue!SubmitAndFail, st
    <3> QED BY <1>1, <2>5, <3>1
  <2> QED BY <2>2, <2>4, <2>8, <2>9
<1> QED BY <1>3, <1>4

\* Every other handler settles one pending request, or none.
LEMMA SettleImplements ==
  ASSUME TypeOK, UNCHANGED lastSent,
         \/ UNCHANGED status
         \/ \E i \in Ids, o \in {"ok", "failed"} :
              /\ status[i] = "pending"
              /\ status' = [status EXCEPT ![i] = o]
  PROVE  QueueStep
<1> USE DEF QueueStep, Queue!Next, Queue!Ids
<1>1. CASE UNCHANGED status
  BY <1>1
<1>2. ASSUME NEW i \in Ids, NEW o \in {"ok", "failed"}, status[i] = "pending",
             status' = [status EXCEPT ![i] = o]
      PROVE  QueueStep
  <2>1. Queue!Settle(i)
    BY <1>2 DEF Queue!Settle
  <2> QED BY <2>1
<1> QED BY <1>1, <1>2

LEMMA FailCurrentSettles ==
  ASSUME IInv, requesting, FailCurrentRequest
  PROVE  \E i \in Ids, o \in {"ok", "failed"} :
           status[i] = "pending" /\ status' = [status EXCEPT ![i] = o]
<1>1. head \in Ids /\ status[head] = "pending"
  BY DEF IInv, TypeOK, NoLostWakeup
<1> QED BY <1>1 DEF FailCurrentRequest

LEMMA SettleSettles ==
  ASSUME NEW kind, NEW n, NEW space, NEW result \in {"ok", "failed"}, NEW of,
         Settle(kind, n, space, result, of)
  PROVE  \/ UNCHANGED status
         \/ \E i \in Ids, o \in {"ok", "failed"} :
              status[i] = "pending" /\ status' = [status EXCEPT ![i] = o]
  BY DEF Settle, Matches

LEMMA NextImplements == IInv /\ [Next]_vars => QueueStep
<1> SUFFICES ASSUME IInv, [Next]_vars PROVE QueueStep
  OBVIOUS
<1>0. TypeOK /\ Numbered /\ NoLostWakeup
  BY DEF IInv
<1>1. ASSUME NEW r \in Requests, Submit(r) PROVE QueueStep
  BY <1>1, SubmitImplements
<1>2. CASE Wakeup
  <2>1. CASE RequestNextMemoryBlock(req, status, made, wakeups - 1)
    BY <1>0, <2>1, RequestNextImplements
  <2>2. CASE UNCHANGED <<status, lastSent>>
    BY <2>2 DEF QueueStep
  <2> QED BY <1>2, <2>1, <2>2 DEF Wakeup
<1>3. CASE MemoryRequestTimedOut
  <2>1. UNCHANGED lastSent
    BY <1>3 DEF MemoryRequestTimedOut
  <2>2. \/ UNCHANGED status
        \/ requesting /\ FailCurrentRequest
    BY <1>3 DEF MemoryRequestTimedOut, RetryCurrentRequest
  <2> QED BY <1>0, <2>1, <2>2, FailCurrentSettles, SettleImplements
<1>4. ASSUME NEW n \in Nodes, Reply(n) PROVE QueueStep
  <2>1. UNCHANGED lastSent
    BY <1>4 DEF Reply, Arrives
  <2>2. \/ UNCHANGED status
        \/ \E kind, space, of : \E result \in {"ok", "failed"} :
             Settle(kind, n, space, result, of)
    BY <1>4 DEF Reply, Ignore, SettleRejectedRead
  <2> QED BY <1>0, <2>1, <2>2, SettleSettles, SettleImplements
<1>5. ASSUME NEW n \in Nodes, ReceivedOk(n) PROVE QueueStep
  <2>1. UNCHANGED lastSent
    BY <1>5 DEF ReceivedOk, Arrives
  <2>2. \/ UNCHANGED status
        \/ \E kind, space, of : \E result \in {"ok", "failed"} :
             Settle(kind, n, space, result, of)
    BY <1>5 DEF ReceivedOk, Ignore
  <2> QED BY <1>0, <2>1, <2>2, SettleSettles, SettleImplements
<1>6. ASSUME NEW n \in Nodes, Rejected(n) PROVE QueueStep
  <2>1. UNCHANGED lastSent
    BY <1>6 DEF Rejected, Arrives
  <2>2. \/ UNCHANGED status
        \/ requesting /\ FailCurrentRequest
    BY <1>6 DEF Rejected, Ignore, RetryCurrentRequest
  <2> QED BY <1>0, <2>1, <2>2, FailCurrentSettles, SettleImplements
<1>7. CASE DatagramStarts \/ DatagramEnds
  BY <1>7 DEF DatagramStarts, DatagramEnds, QueueStep
<1>8. ASSUME NEW n \in Nodes,
             NodeResponds(n) \/ LoseRequest(n) \/ LoseResponse(n)
      PROVE  QueueStep
  BY <1>8 DEF NodeResponds, LoseRequest, LoseResponse, QueueStep
<1>9. CASE UNCHANGED vars
  BY <1>9 DEF vars, QueueStep
<1> QED BY <1>1, <1>2, <1>3, <1>4, <1>5, <1>6, <1>7, <1>8, <1>9 DEF Next

\* LCCConnection keeps its promise to its callers: requests go out in the order
\* in which they were made, and each gets exactly one outcome.
THEOREM ImplementsQueue == Spec => QueueSpec
<1>1. Init => Queue!Init
  BY DEF Init, Queue!Init, Queue!Ids
<1>2. QueueStep => [Queue!Next]_(Queue!vars)
  BY DEF QueueStep, Queue!vars
<1>3. IInv /\ [Next]_vars => [Queue!Next]_(Queue!vars)
  BY <1>2, NextImplements
<1> QED BY <1>1, <1>3, Invariance, PTL DEF Spec, QueueSpec, Queue!Spec

-----------------------------------------------------------------------------
-----------------------------------------------------------------------------
(***************************************************************************)
(* Answers are genuine: as long as the client never gave up with a         *)
(* response on its way, what is on the bus belongs to the request at the   *)
(* front.                                                                  *)
(***************************************************************************)

Quiet(n) == toNode[n] = <<>> /\ fromNode[n] = <<>>

\* The frames q are what is left of one answer to request i, of this kind, when
\* the requests done were carried out.
AnswerTo(q, i, kind, done) ==
  /\ Len(q) <= 2
  /\ Len(q) = 2 => q[1].what = "rxokPending"
  /\ \A k \in 1..Len(q) :
       /\ q[k].of = i
       /\ q[k].what \in {"rxok", "good"} => i \in done
       /\ q[k].what = "rxokPending" => kind # "update"

\* Request i is on its way to its node, or the answer is on its way back, or
\* either was lost: t and f are the frames to and from the node.
OnTheWay(t, f, i, kind, done) ==
  \/ Len(t) = 1 /\ Head(t) = i /\ f = <<>>
  \/ t = <<>> /\ AnswerTo(f, i, kind, done)

FrontOnly ==
  /\ ~requesting => \A n \in Nodes : Quiet(n)
  /\ requesting =>
       /\ \A n \in Nodes : n # req[head].alias => Quiet(n)
       /\ OnTheWay(toNode[req[head].alias], fromNode[req[head].alias], head,
                   req[head].kind, served)

GenuineInv == (~overtaken => FrontOnly) /\ OkIsGenuine

LEMMA TailIs ==
  ASSUME NEW S, NEW q \in Seq(S), q # <<>>
  PROVE  /\ Head(q) = q[1] /\ Len(q) \in Nat /\ Len(q) >= 1 /\ Tail(q) \in Seq(S)
         /\ Len(Tail(q)) = Len(q) - 1
         /\ \A k \in 1..Len(Tail(q)) : Tail(q)[k] = q[k + 1]
         /\ Len(q) = 1 => Tail(q) = <<>>
<1>1. Len(q) \in Nat /\ Len(q) # 0 /\ Len(Tail(q)) = Len(q) - 1
  BY HeadTailProperties, EmptySeq
<1>2. Head(q) = q[1]
  OBVIOUS
<1>3. Tail(q) \in Seq(S) /\ \A k \in 1..Len(Tail(q)) : Tail(q)[k] = q[k + 1]
  BY HeadTailProperties
<1>4. Len(q) = 1 => Tail(q) = <<>>
  <2> DEFINE t == Tail(q)
  <2>1. t \in Seq(S) /\ (Len(q) = 1 => Len(t) = 0)
    BY <1>1, <1>3
  <2> HIDE DEF t
  <2>2. Len(t) = 0 => t = <<>>
    BY ONLY <2>1, EmptySeq
  <2> QED BY <2>1, <2>2 DEF t
<1> QED BY <1>1, <1>2, <1>3, <1>4

LEMMA AnswerTail ==
  ASSUME NEW q \in Seq(Response), q # <<>>, NEW i, NEW kind, NEW done,
         AnswerTo(q, i, kind, done)
  PROVE  /\ AnswerTo(Tail(q), i, kind, done)
         /\ Head(q).of = i
         /\ Head(q).what \in {"rxok", "good"} => i \in done
         /\ Head(q).what = "rxokPending" => kind # "update"
         /\ Head(q).what # "rxokPending" => Tail(q) = <<>>
<1>1. /\ Head(q) = q[1] /\ Len(q) \in Nat /\ Len(q) >= 1 /\ Tail(q) \in Seq(Response)
      /\ Len(Tail(q)) = Len(q) - 1
      /\ \A k \in 1..Len(Tail(q)) : Tail(q)[k] = q[k + 1]
      /\ Len(q) = 1 => Tail(q) = <<>>
  BY TailIs
<1>2. 1 \in 1..Len(q) /\ \A k \in 1..Len(Tail(q)) : k + 1 \in 1..Len(q)
  BY <1>1
<1>3. AnswerTo(Tail(q), i, kind, done)
  <2> DEFINE t == Tail(q)
  <2>1. /\ Len(t) = Len(q) - 1 /\ Len(q) \in Nat /\ Len(q) <= 2
        /\ \A k \in 1..Len(t) : t[k] = q[k + 1] /\ k + 1 \in 1..Len(q)
    BY <1>1, <1>2 DEF AnswerTo
  <2> HIDE DEF t
  <2>2. \A k \in 1..Len(t) :
          /\ t[k].of = i
          /\ t[k].what \in {"rxok", "good"} => i \in done
          /\ t[k].what = "rxokPending" => kind # "update"
    BY <2>1 DEF AnswerTo
  <2>3. Len(t) <= 2 /\ Len(t) # 2
    BY <2>1
  <2>4. AnswerTo(t, i, kind, done)
    BY <2>2, <2>3 DEF AnswerTo
  <2> QED BY <2>4 DEF t
<1>4. Len(Tail(q)) = 0 => Tail(q) = <<>>
  BY <1>1
<1>5. Head(q).what # "rxokPending" => Len(Tail(q)) = 0
  BY <1>1 DEF AnswerTo
<1> QED BY <1>1, <1>2, <1>3, <1>4, <1>5 DEF AnswerTo

LEMMA NothingOnTheWay ==
  ASSUME NEW i, NEW kind, NEW done
  PROVE  OnTheWay(<<>>, <<>>, i, kind, done)
<1>1. Len(<<>>) = 0
  OBVIOUS
<1> QED BY <1>1 DEF OnTheWay, AnswerTo

LEMMA QuietIsFront ==
  ASSUME \A n \in Nodes : Quiet(n), requesting => req[head].alias \in Nodes
  PROVE  FrontOnly
  BY NothingOnTheWay DEF FrontOnly, Quiet

LEMMA FrontTyped ==
  ASSUME IInv, requesting
  PROVE  /\ head \in Ids /\ head <= made /\ status[head] = "pending"
         /\ req[head] \in Request /\ req[head].alias \in Nodes /\ req[head].kind \in Kinds
         /\ \A i \in 1..(head - 1) : status[i] # "pending"
<1>1. /\ head \in Nat /\ head >= 1 /\ head <= made /\ made \in 0..MaxRequests
      /\ status[head] = "pending" /\ \A i \in 1..(head - 1) : status[i] # "pending"
  <2>1. made \in 0..MaxRequests /\ head \in 1..(made + 1)
    BY DEF IInv, TypeOK
  <2>2. head <= made /\ status[head] = "pending"
    BY DEF IInv, NoLostWakeup
  <2>3. \A i \in 1..(head - 1) : status[i] \in {"ok", "failed"}
    BY DEF IInv, Numbered
  <2>4. \A i \in 1..(head - 1) : status[i] # "pending"
    BY <2>3
  <2> QED BY <2>1, <2>2, <2>4
<1>2. head \in Ids /\ head \in 1..made
  BY <1>1
<1>3. req[head] \in Request
  BY <1>2 DEF IInv, Numbered
<1> QED BY <1>1, <1>2, <1>3 DEF Request

\* A response arrives from n: it is an answer to the request at the front.
LEMMA ArrivalIs ==
  ASSUME IInv, FrontOnly, NEW n \in Nodes, NEW m, Arrives(n, m)
  PROVE  /\ requesting /\ n = req[head].alias
         /\ toNode[n] = <<>> /\ AnswerTo(Tail(fromNode[n]), head, req[head].kind, served)
         /\ m.of = head
         /\ m.what \in {"rxok", "good"} => head \in served
         /\ m.what = "rxokPending" => req[head].kind # "update"
         /\ m.what # "rxokPending" => Tail(fromNode[n]) = <<>>
<1>1. fromNode[n] # <<>> /\ m = Head(fromNode[n]) /\ fromNode[n] \in Seq(Response)
  BY DEF Arrives, IInv, TypeOK
<1>2. requesting /\ n = req[head].alias
  BY <1>1 DEF FrontOnly, Quiet
<1>3. toNode[n] = <<>> /\ AnswerTo(fromNode[n], head, req[head].kind, served)
  BY <1>1, <1>2 DEF FrontOnly, OnTheWay
<1> QED BY ONLY <1>1, <1>2, <1>3, AnswerTail

LEMMA ArrivalKeeps ==
  ASSUME IInv, FrontOnly, NEW n \in Nodes, NEW m, Arrives(n, m), UNCHANGED <<requesting, head>>
  PROVE  FrontOnly'
<1>1. /\ requesting /\ n = req[head].alias
      /\ toNode[n] = <<>> /\ AnswerTo(Tail(fromNode[n]), head, req[head].kind, served)
  BY ArrivalIs
<1>2. /\ fromNode' = [fromNode EXCEPT ![n] = Tail(fromNode[n])]
      /\ UNCHANGED <<req, toNode, served>>
  BY DEF Arrives
<1>3. fromNode'[n] = Tail(fromNode[n]) /\ \A k \in Nodes : k # n => fromNode'[k] = fromNode[k]
  BY <1>2 DEF IInv, TypeOK
<1> QED BY <1>1, <1>2, <1>3 DEF FrontOnly, Quiet, OnTheWay

LEMMA ArrivalEnds ==
  ASSUME IInv, FrontOnly, NEW n \in Nodes, NEW m, Arrives(n, m), m.what # "rxokPending",
         requesting' = FALSE
  PROVE  FrontOnly'
<1>1. requesting /\ n = req[head].alias /\ toNode[n] = <<>> /\ Tail(fromNode[n]) = <<>>
  BY ArrivalIs
<1>2. fromNode' = [fromNode EXCEPT ![n] = Tail(fromNode[n])] /\ UNCHANGED <<req, toNode>>
  BY DEF Arrives
<1>3. fromNode'[n] = <<>> /\ \A k \in Nodes : k # n => fromNode'[k] = fromNode[k]
  BY <1>1, <1>2 DEF IInv, TypeOK
<1> QED BY <1>1, <1>2, <1>3 DEF FrontOnly, Quiet

\* The reply handlers find the request at the front, and no other.
LEMMA SettlesFront ==
  ASSUME IInv, requesting, NEW kind, NEW space, NEW result, NEW of,
         Matches(head, kind, req[head].alias, space),
         Settle(kind, req[head].alias, space, result, of)
  PROVE  /\ status' = [status EXCEPT ![head] = result]
         /\ answer' = [answer EXCEPT ![head] = of]
<1>0. head \in Ids /\ head \in Int /\ \A i \in 1..(head - 1) : status[i] # "pending"
  BY FrontTyped
<1>1. PICK i \in Ids : /\ Matches(i, kind, req[head].alias, space)
                       /\ \A j \in 1..(i - 1) : ~Matches(j, kind, req[head].alias, space)
                       /\ status' = [status EXCEPT ![i] = result]
                       /\ answer' = [answer EXCEPT ![i] = of]
  BY <1>0 DEF Settle
<1>2. i = head
  <2>1. ~(i < head)
    BY <1>0, <1>1 DEF Matches
  <2>2. ~(head < i)
    BY <1>0, <1>1
  <2> QED BY <1>0, <2>1, <2>2
<1> QED BY <1>1, <1>2

\* Only a request that succeeds has to be genuine.
LEMMA FailingIsGenuine ==
  ASSUME IInv, ~overtaken, OkIsGenuine, served \subseteq served',
         \A i \in Ids : \/ status'[i] = status[i] /\ answer'[i] = answer[i]
                        \/ status'[i] # "ok"
  PROVE  OkIsGenuine'
  BY DEF OkIsGenuine

\* The request at the front succeeds, with a response to itself.
LEMMA SucceedingIsGenuine ==
  ASSUME IInv, ~overtaken, OkIsGenuine, served' = served, head \in served,
         status' = [status EXCEPT ![head] = "ok"], answer' = [answer EXCEPT ![head] = head]
  PROVE  OkIsGenuine'
  BY DEF OkIsGenuine, IInv, TypeOK

\* What settles a request, with an error or, when it was carried out, without.
LEMMA SettleGenuine ==
  ASSUME IInv, ~overtaken, FrontOnly, OkIsGenuine, NEW n \in Nodes, NEW m, Arrives(n, m),
         m.what # "rxokPending", NEW kind, NEW space, NEW result \in {"ok", "failed"},
         Matches(head, kind, n, space), Settle(kind, n, space, result, m.of),
         result = "ok" => m.what \in {"rxok", "good"}
  PROVE  FrontOnly' /\ OkIsGenuine'
<1>1. requesting /\ n = req[head].alias /\ m.of = head /\ (result = "ok" => head \in served)
  BY ArrivalIs
<1>2. status' = [status EXCEPT ![head] = result] /\ answer' = [answer EXCEPT ![head] = head]
  BY <1>1, SettlesFront
<1>3. requesting' = FALSE /\ served' = served
  BY DEF Settle, MemoryRequestDone, Arrives
<1>4. FrontOnly'
  BY <1>3, ArrivalEnds
<1>5. OkIsGenuine'
  <2>1. CASE result = "ok"
    BY <1>1, <1>2, <1>3, <2>1, SucceedingIsGenuine
  <2>2. CASE result = "failed"
    <3>1. status \in [Ids -> {"unmade", "pending", "ok", "failed"}] /\ answer \in [Ids -> 0..MaxRequests]
      BY DEF IInv, TypeOK
    <3>2. \A i \in Ids : \/ status'[i] = status[i] /\ answer'[i] = answer[i]
                         \/ status'[i] # "ok"
      BY <1>2, <2>2, <3>1
    <3> QED BY <1>3, <3>2, FailingIsGenuine
  <2> QED BY <2>1, <2>2
<1> QED BY <1>4, <1>5

\* A response that changes no outcome.
LEMMA IgnoredGenuine ==
  ASSUME IInv, ~overtaken, FrontOnly, OkIsGenuine, NEW n \in Nodes, NEW m, Arrives(n, m),
         UNCHANGED <<requesting, head, status, answer>>
  PROVE  FrontOnly' /\ OkIsGenuine'
<1>1. FrontOnly'
  BY ArrivalKeeps
<1>2. served' = served
  BY DEF Arrives
<1> QED BY <1>1, <1>2, FailingIsGenuine

LEMMA ReplyGenuine ==
  ASSUME IInv, ~overtaken, FrontOnly, OkIsGenuine, NEW n \in Nodes, Reply(n)
  PROVE  FrontOnly' /\ OkIsGenuine'
<1>1. PICK m \in Response :
        /\ Arrives(n, m)
        /\ m.what \in {"good", "bad"}
        /\ LET r == req[m.of] IN
           \/ Ignore
           \/ m.what = "good" /\ Settle(r.kind, n, r.space, "ok", m.of)
           \/ m.what = "bad" /\ r.kind = "write" /\ Settle("write", n, r.space, "failed", m.of)
           \/ m.what = "bad" /\ r.kind = "read" /\ SettleRejectedRead(n, r.space, m.of)
  BY DEF Reply
<1>2. requesting /\ n = req[head].alias /\ m.of = head
  BY <1>1, ArrivalIs
<1>3. head \in Ids /\ status[head] = "pending"
  BY <1>2, FrontTyped
<1>4. \A kind, space : (req[head].kind = kind /\ req[head].space = space) => Matches(head, kind, n, space)
  BY <1>2, <1>3 DEF Matches
<1>5. CASE Ignore
  <2>1. UNCHANGED <<requesting, head, status, answer>>
    BY <1>5 DEF Ignore
  <2> QED BY <1>1, <2>1, IgnoredGenuine
<1>6. CASE m.what = "good" /\ Settle(req[m.of].kind, n, req[m.of].space, "ok", m.of)
  <2>1. Matches(head, req[m.of].kind, n, req[m.of].space)
    BY <1>2, <1>4
  <2> QED BY <1>1, <1>6, <2>1, SettleGenuine
<1>7. CASE m.what = "bad" /\ req[m.of].kind = "write" /\ Settle("write", n, req[m.of].space, "failed", m.of)
  <2>1. Matches(head, "write", n, req[m.of].space)
    BY <1>2, <1>4, <1>7
  <2> QED BY <1>1, <1>7, <2>1, SettleGenuine
<1>8. CASE m.what = "bad" /\ req[m.of].kind = "read" /\ SettleRejectedRead(n, req[m.of].space, m.of)
  <2>1. Matches(head, "read", n, req[m.of].space)
    BY <1>2, <1>4, <1>8
  <2>2. Settle("read", n, req[m.of].space, "failed", m.of)
    BY <1>3, <1>8, <2>1 DEF SettleRejectedRead
  <2> QED BY <1>1, <1>8, <2>1, <2>2, SettleGenuine
<1> QED BY <1>1, <1>5, <1>6, <1>7, <1>8

LEMMA ReceivedOkGenuine ==
  ASSUME IInv, ~overtaken, FrontOnly, OkIsGenuine, NEW n \in Nodes, ReceivedOk(n)
  PROVE  FrontOnly' /\ OkIsGenuine'
<1>1. PICK m \in Response :
        /\ Arrives(n, m)
        /\ m.what \in {"rxok", "rxokPending"}
        /\ \/ UNCHANGED <<requesting, head, status, answer>>
           \/ /\ libAlias = n /\ libKind = "write" /\ m.what = "rxok"
              /\ Settle("write", n, libSpace, "ok", m.of)
           \/ /\ libAlias = n /\ libKind = "update"
              /\ Settle("update", n, NoNode, "ok", m.of)
  BY DEF ReceivedOk, Ignore, WriteDone
<1>2. /\ requesting /\ n = req[head].alias /\ m.of = head
      /\ m.what = "rxokPending" => req[head].kind # "update"
  BY <1>1, ArrivalIs
<1>3. head \in Ids /\ status[head] = "pending"
  BY <1>2, FrontTyped
<1>4. n # NoNode
  OBVIOUS
<1>5. CASE UNCHANGED <<requesting, head, status, answer>>
  BY <1>1, <1>5, IgnoredGenuine
<1>6. CASE /\ libAlias = n /\ libKind = "write" /\ m.what = "rxok"
           /\ Settle("write", n, libSpace, "ok", m.of)
  <2>1. req[head].kind = "write" /\ libSpace = req[head].space
    BY <1>2, <1>4, <1>6 DEF IInv, LibServesFront
  <2>2. Matches(head, "write", n, libSpace)
    BY <1>2, <1>3, <2>1 DEF Matches
  <2> QED BY <1>1, <1>6, <2>2, SettleGenuine
<1>7. CASE libAlias = n /\ libKind = "update" /\ Settle("update", n, NoNode, "ok", m.of)
  <2>1. req[head].kind = "update"
    BY <1>2, <1>4, <1>7 DEF IInv, LibServesFront
  <2>2. Matches(head, "update", n, NoNode)
    BY <1>2, <1>3, <2>1 DEF Matches
  <2>3. m.what = "rxok"
    BY <1>1, <1>2, <2>1
  <2> QED BY <1>1, <1>7, <2>2, <2>3, SettleGenuine
<1> QED BY <1>1, <1>5, <1>6, <1>7

LEMMA RejectedGenuine ==
  ASSUME IInv, ~overtaken, FrontOnly, OkIsGenuine, NEW n \in Nodes, Rejected(n)
  PROVE  FrontOnly' /\ OkIsGenuine'
<1>1. PICK m \in Response :
        /\ Arrives(n, m)
        /\ m.what \in {"busy", "refused"} /\ answer' = answer
        /\ \/ UNCHANGED <<requesting, head, status, answer>>
           \/ RetryCurrentRequest \/ FailCurrentRequest
  BY DEF Rejected, Ignore
<1>2. requesting /\ served' = served
  BY <1>1, ArrivalIs DEF Arrives
<1>3. head \in Ids /\ status \in [Ids -> {"unmade", "pending", "ok", "failed"}]
  BY <1>2, FrontTyped DEF IInv, TypeOK
<1>4. CASE UNCHANGED <<requesting, head, status, answer>>
  BY <1>1, <1>4, IgnoredGenuine
<1>5. CASE RetryCurrentRequest \/ FailCurrentRequest
  <2>1. requesting' = FALSE
    BY <1>5 DEF RetryCurrentRequest, FailCurrentRequest, MemoryRequestDone
  <2>2. FrontOnly'
    BY <1>1, <2>1, ArrivalEnds
  <2>3. \A i \in Ids : status'[i] = status[i] \/ status'[i] # "ok"
    BY <1>3, <1>5 DEF RetryCurrentRequest, FailCurrentRequest
  <2> QED BY <1>1, <1>2, <2>2, <2>3, FailingIsGenuine
<1> QED BY <1>1, <1>4, <1>5

LEMMA RequestNextGenuine ==
  ASSUME TypeOK, \A n \in Nodes : Quiet(n), ~requesting,
         NEW rq \in [Ids -> Request \cup {Unmade}], NEW st \in [Ids -> Status],
         NEW k \in 0..MaxRequests, NEW w, head <= k + 1,
         \A i \in 1..k : rq[i] \in Request,
         RequestNextMemoryBlock(rq, st, k, w), req' = rq, UNCHANGED <<fromNode, served>>
  PROVE  /\ FrontOnly'
         /\ \A i \in Ids : status'[i] = st[i] \/ status'[i] # "ok"
<1>1. PICK h \in head..(k + 1) :
        \/ status' = st /\ UNCHANGED <<requesting, toNode>>
        \/ /\ h <= k
           /\ toNode' = [toNode EXCEPT ![rq[h].alias] = Put(@, h)]
           /\ head' = h /\ status' = st
           /\ requesting' = TRUE
        \/ /\ h <= k /\ status' = [st EXCEPT ![h] = "failed"]
           /\ requesting' = FALSE /\ UNCHANGED toNode
  BY DEF RequestNextMemoryBlock, MemoryRequestDone
<1>2. h \in 1..(k + 1)
  BY DEF TypeOK
<1>3. CASE \/ status' = st /\ UNCHANGED <<requesting, toNode>>
           \/ h <= k /\ status' = [st EXCEPT ![h] = "failed"] /\ requesting' = FALSE /\ UNCHANGED toNode
  <2>1. \A i \in Ids : status'[i] = st[i] \/ status'[i] # "ok"
    BY <1>2, <1>3
  <2> QED BY <1>3, <2>1 DEF FrontOnly, Quiet
<1>4. CASE /\ h <= k
           /\ toNode' = [toNode EXCEPT ![rq[h].alias] = Put(@, h)]
           /\ head' = h /\ status' = st /\ requesting' = TRUE
  <2> DEFINE a == rq[h].alias
  <2>1. a \in Nodes /\ h \in Ids
    BY <1>2, <1>4 DEF Request
  <2>2. toNode'[a] = Put(<<>>, h) /\ \A n \in Nodes : n # a => toNode'[n] = <<>>
    BY <1>4, <2>1 DEF TypeOK, Quiet
  <2>3. \A n \in Nodes : fromNode'[n] = <<>>
    BY DEF Quiet
  <2>4. OnTheWay(toNode'[a], fromNode'[a], h, rq[h].kind, served')
    <3>1. CASE toNode'[a] = <<>>
      BY <2>1, <2>3, <3>1, NothingOnTheWay
    <3>2. CASE toNode'[a] = Append(<<>>, h)
      <4>1. <<>> \in Seq(Ids) /\ Append(<<>>, h) = <<h>>
        OBVIOUS
      <4>2. Len(<<h>>) = 1 /\ Head(<<h>>) = h
        OBVIOUS
      <4> QED BY <2>1, <2>3, <3>2, <4>1, <4>2 DEF OnTheWay
    <3> QED BY <2>2, <3>1, <3>2 DEF Put
  <2> QED BY <1>4, <2>1, <2>2, <2>3, <2>4 DEF FrontOnly, Quiet
<1> QED BY <1>1, <1>3, <1>4

LEMMA SubmitGenuine ==
  ASSUME IInv, ~overtaken, FrontOnly, OkIsGenuine, NEW r \in Requests, Submit(r)
  PROVE  FrontOnly' /\ OkIsGenuine'
<1> DEFINE st == [status EXCEPT ![made + 1] = "pending"]
<1>0. TypeOK /\ Numbered
  BY DEF IInv
<1>1. /\ made + 1 \in Ids /\ made \in Nat /\ head \in Nat /\ head <= made + 1 /\ r \in Request
      /\ req' = [req EXCEPT ![made + 1] = r]
      /\ UNCHANGED <<fromNode, answer, served>>
  BY <1>0 DEF Submit, TypeOK
<1>2. /\ req' \in [Ids -> Request \cup {Unmade}] /\ st \in [Ids -> Status]
      /\ \A i \in 1..(made + 1) : req'[i] \in Request
  <2>1. req \in [Ids -> Request \cup {Unmade}] /\ status \in [Ids -> Status]
    BY <1>0 DEF TypeOK, Status
  <2>2. "pending" \in Status
    BY DEF Status
  <2>3. \A i \in 1..(made + 1) : req'[i] \in Request
    BY <1>0, <1>1, <2>1 DEF Numbered
  <2> QED BY <1>1, <2>1, <2>2, <2>3
<1>3. \A i \in Ids : st[i] = status[i] \/ st[i] # "ok"
  BY <1>0 DEF TypeOK
<1>4. CASE requesting
  <2>1. status' = st /\ UNCHANGED <<head, requesting, toNode>>
    BY <1>4 DEF Submit
  <2>2. head \in Ids /\ head <= made
    BY <1>4, FrontTyped
  <2>3. req'[head] = req[head]
    BY <1>0, <1>1, <2>2 DEF TypeOK
  <2>4. FrontOnly'
    BY <1>1, <1>4, <2>1, <2>3 DEF FrontOnly, Quiet
  <2> HIDE DEF st
  <2> QED BY <1>1, <1>3, <2>1, <2>4, FailingIsGenuine
<1>5. CASE ~requesting
  <2>1. RequestNextMemoryBlock(req', st, made + 1, wakeups)
    BY <1>5 DEF Submit
  <2>2. \A n \in Nodes : Quiet(n)
    BY <1>5 DEF FrontOnly
  <2> HIDE DEF st
  <2>3. made + 1 \in 0..MaxRequests /\ head <= (made + 1) + 1
    BY <1>1
  <2>4. FrontOnly' /\ \A i \in Ids : status'[i] = st[i] \/ status'[i] # "ok"
    <3> DEFINE rq == req'
    <3>1. rq \in [Ids -> Request \cup {Unmade}] /\ \A i \in 1..(made + 1) : rq[i] \in Request
      BY <1>2
    <3>2. req' = rq /\ RequestNextMemoryBlock(rq, st, made + 1, wakeups)
      BY <2>1
    <3> HIDE DEF rq
    <3> QED BY ONLY <1>0, <1>1, <1>2, <1>5, <2>2, <2>3, <3>1, <3>2, RequestNextGenuine DEF Ids
  <2> QED BY <1>1, <1>3, <2>4, FailingIsGenuine
<1> QED BY <1>4, <1>5

LEMMA WakeupGenuine ==
  ASSUME IInv, ~overtaken, FrontOnly, OkIsGenuine, Wakeup
  PROVE  FrontOnly' /\ OkIsGenuine'
<1>0. TypeOK /\ Numbered /\ UNCHANGED <<req, fromNode, answer, served>>
  BY DEF IInv, Wakeup
<1>1. CASE requesting
  <2>1. UNCHANGED <<status, head, requesting, toNode>>
    BY <1>1 DEF Wakeup
  <2>2. FrontOnly'
    BY <1>0, <2>1 DEF FrontOnly, Quiet
  <2> QED BY <1>0, <2>1, <2>2, FailingIsGenuine
<1>2. CASE ~requesting
  <2>1. RequestNextMemoryBlock(req, status, made, wakeups - 1)
    BY <1>2 DEF Wakeup
  <2>2. \A n \in Nodes : Quiet(n)
    BY <1>2 DEF FrontOnly
  <2>3. /\ made \in 0..MaxRequests /\ head <= made + 1 /\ status \in [Ids -> Status]
        /\ req \in [Ids -> Request \cup {Unmade}] /\ \A i \in 1..made : req[i] \in Request
    BY <1>0 DEF TypeOK, Status, Numbered
  <2>4. FrontOnly' /\ \A i \in Ids : status'[i] = status[i] \/ status'[i] # "ok"
    BY <1>0, <1>2, <2>1, <2>2, <2>3, RequestNextGenuine
  <2> QED BY <1>0, <2>4, FailingIsGenuine
<1> QED BY <1>1, <1>2

\* Giving up while nothing is on the bus.
LEMMA TimedOutGenuine ==
  ASSUME IInv, GenuineInv, MemoryRequestTimedOut
  PROVE  GenuineInv'
<1> SUFFICES ASSUME ~overtaken' PROVE FrontOnly' /\ OkIsGenuine'
  BY DEF GenuineInv, OkIsGenuine
<1>1. /\ requesting /\ UNCHANGED <<req, toNode, fromNode, answer, served>>
      /\ overtaken' = (overtaken \/ \E n \in Nodes : toNode[n] # <<>> \/ fromNode[n] # <<>>)
      /\ RetryCurrentRequest \/ FailCurrentRequest
  BY DEF MemoryRequestTimedOut, IInv, NoLostWakeup, busVars
<1>2. ~overtaken /\ \A n \in Nodes : Quiet(n)
  BY <1>1 DEF Quiet
<1>3. requesting' = FALSE
  BY <1>1 DEF RetryCurrentRequest, FailCurrentRequest, MemoryRequestDone
<1>4. FrontOnly'
  BY <1>1, <1>2, <1>3 DEF FrontOnly, Quiet
<1>5. head \in Ids /\ status \in [Ids -> {"unmade", "pending", "ok", "failed"}]
  BY <1>1, FrontTyped DEF IInv, TypeOK
<1>6. \A i \in Ids : status'[i] = status[i] \/ status'[i] # "ok"
  BY <1>1, <1>5 DEF RetryCurrentRequest, FailCurrentRequest
<1> QED BY <1>1, <1>2, <1>4, <1>6, FailingIsGenuine DEF GenuineInv

LEMMA NodeRespondsGenuine ==
  ASSUME IInv, ~overtaken, FrontOnly, OkIsGenuine, NEW n \in Nodes, NodeResponds(n)
  PROVE  FrontOnly' /\ OkIsGenuine'
<1>0. TypeOK
  BY DEF IInv
<1>1. /\ requesting /\ n = req[head].alias /\ Len(toNode[n]) = 1 /\ Head(toNode[n]) = head
      /\ fromNode[n] = <<>> /\ toNode[n] \in Seq(Ids)
  BY <1>0 DEF FrontOnly, Quiet, OnTheWay, NodeResponds, TypeOK
<1>2. PICK whats \in Responses(req[head].kind) :
        /\ fromNode' = [fromNode EXCEPT ![n] =
             @ \o [k \in 1..Len(whats) |-> [of |-> head, what |-> whats[k]]]]
        /\ served' = IF whats \in {<<"rxok">>, <<"rxokPending", "good">>}
                       THEN served \cup {head} ELSE served
  BY ZenonT(60), <1>1 DEF NodeResponds
<1> DEFINE new == [k \in 1..Len(whats) |-> [of |-> head, what |-> whats[k]]]
<1>3. head \in Ids
  BY <1>1, FrontTyped
<1>4. /\ Len(whats) \in Nat /\ Len(whats) <= 2
      /\ Len(whats) = 2 => whats[1] = "rxokPending"
      /\ \A k \in 1..Len(whats) :
           /\ whats[k] \in {"rxok", "rxokPending", "good", "bad", "busy", "refused"}
           /\ whats[k] \in {"rxok", "good"} => whats \in {<<"rxok">>, <<"rxokPending", "good">>}
           /\ whats[k] = "rxokPending" => req[head].kind # "update"
  <2>1. \/ whats = <<"busy">> \/ whats = <<"refused">> \/ whats = <<"rxok">>
        \/ (whats = <<"rxokPending", "good">> /\ req[head].kind # "update")
        \/ (whats = <<"rxokPending", "bad">> /\ req[head].kind # "update")
    BY DEF Responses
  <2>2. CASE whats = <<"busy">> \/ whats = <<"refused">> \/ whats = <<"rxok">>
    <3>1. Len(whats) = 1 /\ \A k \in 1..Len(whats) : whats[k] = whats[1]
      BY <2>2
    <3> QED BY <2>2, <3>1
  <2>3. CASE /\ whats = <<"rxokPending", "good">> \/ whats = <<"rxokPending", "bad">>
             /\ req[head].kind # "update"
    <3>1. /\ Len(whats) = 2 /\ whats[1] = "rxokPending" /\ whats[2] \in {"good", "bad"}
          /\ whats[2] = "good" => whats = <<"rxokPending", "good">>
      BY <2>3
    <3>2. \A k \in 1..Len(whats) : k = 1 \/ k = 2
      BY <3>1
    <3> QED BY <2>3, <3>1, <3>2
  <2> QED BY <2>1, <2>2, <2>3
<1>5. new \in Seq(Response) /\ Len(new) = Len(whats)
  BY <1>3, <1>4 DEF Response
<1>6. \A k \in 1..Len(new) : new[k].of = head /\ new[k].what = whats[k]
  BY <1>5
<1>7. AnswerTo(new, head, req[head].kind, served')
  <2>1. \A k \in 1..Len(whats) : whats[k] \in {"rxok", "good"} => head \in served'
    BY <1>2, <1>4
  <2>2. Len(new) = 2 => 1 \in 1..Len(new)
    BY <1>5
  <2> HIDE DEF new
  <2> QED BY <1>4, <1>5, <1>6, <2>1, <2>2 DEF AnswerTo
<1>8. fromNode'[n] = new
  <2> HIDE DEF new
  <2>1. <<>> \o new = new
    BY <1>5
  <2>2. fromNode' = [fromNode EXCEPT ![n] = @ \o new]
    BY <1>2 DEF new
  <2> QED BY <1>0, <1>1, <2>1, <2>2 DEF TypeOK
<1>9. toNode'[n] = <<>>
  <2>1. Tail(toNode[n]) = <<>>
    <3> HIDE DEF Ids
    <3>1. toNode[n] # <<>>
      BY <1>0 DEF NodeResponds
    <3> QED BY <1>1, <3>1, TailIs
  <2> QED BY <1>0, <2>1 DEF NodeResponds, TypeOK
<1> HIDE DEF new
<1>10. /\ \A k \in Nodes : k # n => (toNode'[k] = toNode[k] /\ fromNode'[k] = fromNode[k])
       /\ UNCHANGED <<req, head, requesting, status, answer>>
  BY <1>0, <1>2 DEF NodeResponds, TypeOK, queueVars
<1>11. FrontOnly'
  BY <1>1, <1>7, <1>8, <1>9, <1>10 DEF FrontOnly, Quiet, OnTheWay
<1>12. served \subseteq served'
  BY <1>2
<1> QED BY <1>10, <1>11, <1>12, FailingIsGenuine

LEMMA LoseGenuine ==
  ASSUME IInv, ~overtaken, FrontOnly, OkIsGenuine, NEW n \in Nodes, LoseRequest(n) \/ LoseResponse(n)
  PROVE  FrontOnly' /\ OkIsGenuine'
<1>0. TypeOK /\ UNCHANGED <<req, head, requesting, status, answer, served>>
  BY DEF IInv, LoseRequest, LoseResponse, queueVars
<1>1. CASE LoseRequest(n)
  <2>1. /\ requesting /\ n = req[head].alias /\ Len(toNode[n]) = 1 /\ fromNode[n] = <<>>
        /\ toNode[n] \in Seq(Ids) /\ UNCHANGED fromNode
    BY <1>0, <1>1 DEF FrontOnly, Quiet, OnTheWay, LoseRequest, TypeOK
  <2>2. toNode'[n] = <<>> /\ \A k \in Nodes : k # n => toNode'[k] = toNode[k]
    <3>1. Tail(toNode[n]) = <<>>
      <4> HIDE DEF Ids
      <4>1. toNode[n] # <<>>
        BY <1>1 DEF LoseRequest
      <4> QED BY <2>1, <4>1, TailIs
    <3> QED BY <1>0, <1>1, <3>1 DEF LoseRequest, TypeOK
  <2>3. FrontOnly'
    BY <1>0, <2>1, <2>2, NothingOnTheWay DEF FrontOnly, Quiet
  <2> QED BY <1>0, <2>3, FailingIsGenuine
<1>2. CASE LoseResponse(n)
  <2>1. fromNode[n] # <<>> /\ fromNode[n] \in Seq(Response) /\ UNCHANGED toNode
    BY <1>0, <1>2 DEF LoseResponse, TypeOK
  <2>2. requesting /\ n = req[head].alias
    BY <2>1 DEF FrontOnly, Quiet
  <2>3. toNode[n] = <<>> /\ AnswerTo(fromNode[n], head, req[head].kind, served)
    BY <2>1, <2>2 DEF FrontOnly, OnTheWay
  <2>4. AnswerTo(Tail(fromNode[n]), head, req[head].kind, served)
    BY ONLY <2>1, <2>3, AnswerTail
  <2>5. fromNode'[n] = Tail(fromNode[n]) /\ \A k \in Nodes : k # n => fromNode'[k] = fromNode[k]
    BY <1>0, <1>2 DEF LoseResponse, TypeOK
  <2>6. FrontOnly'
    BY <1>0, <2>1, <2>2, <2>3, <2>4, <2>5 DEF FrontOnly, Quiet, OnTheWay
  <2> QED BY <1>0, <2>6, FailingIsGenuine
<1> QED BY <1>1, <1>2

LEMMA GenuineInit == Init => GenuineInv
<1> SUFFICES ASSUME Init PROVE GenuineInv
  OBVIOUS
<1>1. FrontOnly
  BY DEF Init, FrontOnly, Quiet
<1>2. OkIsGenuine
  BY DEF Init, OkIsGenuine
<1> QED BY <1>1, <1>2 DEF GenuineInv

LEMMA GenuineNext == IInv /\ GenuineInv /\ [Next]_vars => GenuineInv'
<1> SUFFICES ASSUME IInv, GenuineInv, [Next]_vars PROVE GenuineInv'
  OBVIOUS
<1>1. CASE MemoryRequestTimedOut
  BY <1>1, TimedOutGenuine
<1>2. CASE ~MemoryRequestTimedOut
  <2>1. overtaken' = overtaken
    BY <1>2 DEF Next, Submit, Wakeup, Reply, ReceivedOk, Rejected, Arrives, DatagramStarts,
                DatagramEnds, NodeResponds, LoseRequest, LoseResponse, vars
  <2> SUFFICES ASSUME ~overtaken PROVE FrontOnly' /\ OkIsGenuine'
    BY <2>1 DEF GenuineInv, OkIsGenuine
  <2>2. FrontOnly /\ OkIsGenuine
    BY DEF GenuineInv
  <2>3. ASSUME NEW r \in Requests, Submit(r) PROVE FrontOnly' /\ OkIsGenuine'
    BY <2>2, <2>3, SubmitGenuine
  <2>4. CASE Wakeup
    BY <2>2, <2>4, WakeupGenuine
  <2>5. ASSUME NEW n \in Nodes, Reply(n) PROVE FrontOnly' /\ OkIsGenuine'
    BY <2>2, <2>5, ReplyGenuine
  <2>6. ASSUME NEW n \in Nodes, ReceivedOk(n) PROVE FrontOnly' /\ OkIsGenuine'
    BY <2>2, <2>6, ReceivedOkGenuine
  <2>7. ASSUME NEW n \in Nodes, Rejected(n) PROVE FrontOnly' /\ OkIsGenuine'
    BY <2>2, <2>7, RejectedGenuine
  <2>8. ASSUME NEW n \in Nodes, NodeResponds(n) PROVE FrontOnly' /\ OkIsGenuine'
    BY <2>2, <2>8, NodeRespondsGenuine
  <2>9. ASSUME NEW n \in Nodes, LoseRequest(n) \/ LoseResponse(n) PROVE FrontOnly' /\ OkIsGenuine'
    BY <2>2, <2>9, LoseGenuine
  <2>10. CASE DatagramStarts \/ DatagramEnds \/ UNCHANGED vars
    <3>1. UNCHANGED <<req, head, requesting, status, answer, served, toNode, fromNode>>
      BY <2>10 DEF DatagramStarts, DatagramEnds, queueVars, busVars, vars
    <3>2. FrontOnly'
      BY <2>2, <3>1 DEF FrontOnly, Quiet
    <3> QED BY <2>2, <3>1, <3>2, FailingIsGenuine
  <2> QED BY <1>2, <2>3, <2>4, <2>5, <2>6, <2>7, <2>8, <2>9, <2>10 DEF Next
<1> QED BY <1>1, <1>2

\* Unless the client gave up while a response was on its way, a request that
\* succeeded was settled by a response to itself, and its node carried it out: for
\* any nodes, spaces and requests, any losses, retries and failing writes
\* (LCCConnection::remoteMemoryReadGood and its siblings, lcc-remote-memory.c).
THEOREM AnswersAreGenuine == Spec => []OkIsGenuine
<1>1. IInv /\ GenuineInv /\ [Next]_vars => (IInv /\ GenuineInv)'
  BY NextInv, GenuineNext
<1>2. Spec => [](IInv /\ GenuineInv)
  BY <1>1, InitInv, GenuineInit, PTL DEF Spec
<1>3. GenuineInv => OkIsGenuine
  BY DEF GenuineInv
<1> QED BY <1>2, <1>3, PTL
=============================================================================
