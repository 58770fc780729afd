--------------------------- MODULE MemoryRequests ---------------------------
(***************************************************************************)
(* The remote memory client of the train GUI: the request queue of         *)
(* LCCConnection (GUI/lcc/lccconnection.cpp) on top of the single          *)
(* outstanding request of liblcc (LCC/lcc-remote-memory.c), talking to     *)
(* nodes over a bus that may lose frames and to nodes that may be slow.    *)
(*                                                                         *)
(* m_request_order is only appended to at its end and popped at its front, *)
(* so it is the interval head..made of the requests in the order in which  *)
(* they were made.  A request is in its m_inflight_... list exactly while  *)
(* its status is "pending".                                                *)
(***************************************************************************)
EXTENDS Integers, Sequences

CONSTANTS
  Nodes,       \* aliases of the remote nodes
  NoNode,      \* current_requesting_alias = 0
  Spaces,      \* address spaces
  Requests,    \* the requests that callers can make: [kind, alias, space]
  MaxRequests, \* bound: how many requests are made
  MaxRetries,  \* MEMORY_REQUEST_MAX_RETRIES
  MaxBacklog   \* bound: frames on their way to or from a node

Kinds == {"read", "write", "update", "info"}

Request == [kind : Kinds, alias : Nodes, space : Spaces]

ASSUME NodesAssumption == NoNode \notin Nodes
ASSUME RequestsAssumption == Requests \subseteq Request
ASSUME BoundsAssumption ==
  MaxRequests \in Nat /\ MaxRetries \in Nat /\ MaxBacklog \in Nat

Ids == 1..MaxRequests

VARIABLES
  req,        \* req[i]: the i-th request that was made
  status,     \* isFinished() and isError() of its reply object
  made,       \* how many requests were made
  head,       \* the request at the front of m_request_order
  requesting, \* m_requesting_memory
  timerOn,    \* m_requestTimer is running
  retries,    \* m_requestRetries
  wakeups,    \* QTimer::singleShot calls of requestNextMemoryBlock to come
  libAlias,   \* current_requesting_alias
  libKind,    \* current_request_is_write / _is_update_complete
  libSpace,   \* current_write_space
  rxBusy,     \* currently_handling_incoming_datagram
  toNode,     \* toNode[n]: the requests on their way to n
  fromNode,   \* fromNode[n]: the responses on their way from n
  lastSent,   \* history: the request that was last put on the bus
  answer,     \* history: answer[i] is the request whose response settled i
  served,     \* history: the requests a node has carried out
  overtaken   \* history: a request was given up with its response on the way

queueVars == <<req, made, head, requesting, timerOn, retries, wakeups>>
libVars == <<libAlias, libKind, libSpace>>
busVars == <<toNode, fromNode>>
vars == <<req, status, made, head, requesting, timerOn, retries, wakeups,
          libAlias, libKind, libSpace, rxBusy, toNode, fromNode,
          lastSent, answer, served, overtaken>>

Response == [of : Ids,
             what : {"rxok", "rxokPending", "good", "bad", "busy", "refused"}]

Unmade == [kind |-> "read", alias |-> NoNode, space |-> NoNode]

-----------------------------------------------------------------------------
Init ==
  /\ req = [i \in Ids |-> Unmade]
  /\ status = [i \in Ids |-> "unmade"]
  /\ made = 0 /\ head = 1
  /\ requesting = FALSE /\ timerOn = FALSE /\ retries = 0 /\ wakeups = 0
  /\ libAlias = NoNode /\ libKind = "other" /\ libSpace = NoNode
  /\ rxBusy = FALSE
  /\ toNode = [n \in Nodes |-> <<>>] /\ fromNode = [n \in Nodes |-> <<>>]
  /\ lastSent = 0
  /\ answer = [i \in Ids |-> 0]
  /\ served = {} /\ overtaken = FALSE

-----------------------------------------------------------------------------
(***************************************************************************)
(* The library: starting, cancelling and clearing the outstanding request. *)
(***************************************************************************)

\* Reads, writes and update-completes are refused while another request is
\* outstanding or a datagram is being received; an address space query is not.
LibAccepts(r) == r.kind = "info" \/ (libAlias = NoNode /\ ~rxBusy)

\* Done before the frames are written, and not undone if that fails.
LibStart(r) ==
  /\ libAlias' = r.alias
  /\ libKind' = IF r.kind \in {"write", "update"} THEN r.kind ELSE "other"
  /\ libSpace' = IF r.kind = "write" THEN r.space ELSE libSpace

LibClear ==
  /\ libAlias' = NoNode
  /\ libKind' = "other"
  /\ UNCHANGED libSpace

-----------------------------------------------------------------------------
(***************************************************************************)
(* The request queue.                                                      *)
(***************************************************************************)

\* Mutation: requestNextMemoryBlock is not scheduled.
MemoryRequestDoneForgets(w) ==
  /\ requesting' = FALSE
  /\ timerOn' = FALSE
  /\ retries' = 0
  /\ wakeups' = w

\* memoryRequestDone: stop the timer, and come back in 20 ms; w calls of
\* requestNextMemoryBlock are already to come.
MemoryRequestDone(w) ==
  /\ requesting' = FALSE
  /\ timerOn' = FALSE
  /\ retries' = 0
  /\ wakeups' = w + 1

MayRetry == retries < MaxRetries

\* Mutation: the retries are not counted.
RetryCurrentRequestUncounted ==
  /\ requesting' = FALSE
  /\ timerOn' = FALSE
  /\ wakeups' = wakeups + 1
  /\ UNCHANGED <<head, status, retries>>

\* retryCurrentRequest: the request stays at the front.
RetryCurrentRequest ==
  /\ requesting' = FALSE
  /\ timerOn' = FALSE
  /\ retries' = retries + 1
  /\ wakeups' = wakeups + 1
  /\ UNCHANGED <<head, status>>

\* Mutation: the front is popped and its caller is not told.
FailCurrentRequestSilently ==
  /\ status' = status
  /\ head' = head + 1
  /\ MemoryRequestDone(wakeups)

\* failCurrentRequest: the front is popped with an error.
FailCurrentRequest ==
  /\ status' = [status EXCEPT ![head] = "failed"]
  /\ head' = head + 1
  /\ MemoryRequestDone(wakeups)

\* A frame that the bus has no room for is lost.
Put(frames, i) == IF Len(frames) < MaxBacklog THEN Append(frames, i) ELSE frames

\* h is the new front once the loop of requestNextMemoryBlock has popped what
\* has finished; h = n + 1 when nothing is left.
SkipsTo(h, n, st) ==
  /\ \A j \in head..(h - 1) : st[j] # "pending"
  /\ h <= n => st[h] = "pending"

\* requestNextMemoryBlock when nothing is outstanding, with n requests rq of
\* status st made and w more calls of it to come.
RequestNextMemoryBlock(rq, st, n, w) ==
  \E h \in head..(n + 1) :
    /\ SkipsTo(h, n, st)
    /\ \/ /\ h = n + 1
          /\ head' = h /\ status' = st /\ wakeups' = w
          /\ UNCHANGED <<requesting, timerOn, retries, libVars, toNode, lastSent>>
       \/ /\ h <= n
          /\ LibAccepts(rq[h]) /\ LibStart(rq[h])
          /\ toNode' = [toNode EXCEPT ![rq[h].alias] = Put(@, h)]
          /\ lastSent' = h
          /\ head' = h /\ status' = st /\ wakeups' = w
          /\ requesting' = TRUE /\ timerOn' = TRUE
          /\ UNCHANGED retries
       \/ /\ h <= n
          /\ \/ LibAccepts(rq[h]) /\ LibStart(rq[h])  \* write_function fails
             \/ ~LibAccepts(rq[h]) /\ UNCHANGED libVars
          /\ status' = [st EXCEPT ![h] = "failed"]
          /\ head' = h + 1
          /\ MemoryRequestDone(w)
          /\ UNCHANGED <<toNode, lastSent>>

\* A caller makes a request; it is sent at once if nothing is outstanding.
Submit(r) ==
  /\ made < MaxRequests
  /\ made' = made + 1
  /\ req' = [req EXCEPT ![made + 1] = r]
  /\ LET st == [status EXCEPT ![made + 1] = "pending"] IN
     \/ /\ requesting
        /\ status' = st
        /\ UNCHANGED <<head, requesting, timerOn, retries, wakeups, libVars,
                       toNode, lastSent>>
     \/ /\ ~requesting
        /\ RequestNextMemoryBlock(req', st, made + 1, wakeups)
  /\ UNCHANGED <<rxBusy, fromNode, answer, served, overtaken>>

\* A QTimer::singleShot of memoryRequestDone or retryCurrentRequest fires.
Wakeup ==
  /\ wakeups > 0
  /\ \/ /\ requesting
        /\ wakeups' = wakeups - 1
        /\ UNCHANGED <<status, head, requesting, timerOn, retries, libVars,
                       toNode, lastSent>>
     \/ /\ ~requesting
        /\ RequestNextMemoryBlock(req, status, made, wakeups - 1)
  /\ UNCHANGED <<req, made, rxBusy, fromNode, answer, served, overtaken>>

\* m_requestTimer fires, 5 s or more after the request was sent: whatever was to
\* fire within 250 ms of an earlier request has fired by then.
MemoryRequestTimedOut ==
  /\ timerOn /\ wakeups = 0
  /\ \/ /\ requesting /\ head <= made
        /\ LibClear
        /\ overtaken' = (overtaken \/ \E n \in Nodes :
                           toNode[n] # <<>> \/ fromNode[n] # <<>>)
        /\ \/ MayRetry /\ RetryCurrentRequest
           \/ ~MayRetry /\ FailCurrentRequest
     \/ /\ ~(requesting /\ head <= made)
        /\ timerOn' = FALSE
        /\ UNCHANGED <<status, head, requesting, retries, wakeups, libVars,
                       overtaken>>
  /\ UNCHANGED <<req, made, rxBusy, busVars, lastSent, answer, served>>

-----------------------------------------------------------------------------
(***************************************************************************)
(* What arrives from a node.                                               *)
(***************************************************************************)

Matches(i, kind, n, space) ==
  /\ status[i] = "pending"
  /\ req[i].kind = kind
  /\ req[i].alias = n
  /\ kind # "update" => req[i].space = space

\* The reply handlers settle the first unfinished request of that kind, node
\* and space, and then start the next request whether they found one or not.
Settle(kind, n, space, result, of) ==
  /\ \/ \E i \in Ids :
          /\ Matches(i, kind, n, space)
          /\ \A j \in 1..(i - 1) : ~Matches(j, kind, n, space)
          /\ status' = [status EXCEPT ![i] = result]
          /\ answer' = [answer EXCEPT ![i] = of]
     \/ /\ \A i \in Ids : ~Matches(i, kind, n, space)
        /\ UNCHANGED <<status, answer>>
  /\ MemoryRequestDone(wakeups)
  /\ UNCHANGED head

\* remoteMemoryReadRejected does nothing at all when it finds no request.
SettleRejectedRead(n, space, of) ==
  \/ /\ \E i \in Ids : Matches(i, "read", n, space)
     /\ Settle("read", n, space, "failed", of)
  \/ /\ \A i \in Ids : ~Matches(i, "read", n, space)
     /\ UNCHANGED <<status, answer, head, requesting, timerOn, retries, wakeups>>

Ignore == UNCHANGED <<status, head, requesting, timerOn, retries, wakeups,
                      libVars, answer>>

Arrives(n, m) ==
  /\ fromNode[n] # <<>>
  /\ m = Head(fromNode[n])
  /\ fromNode' = [fromNode EXCEPT ![n] = Tail(@)]
  /\ UNCHANGED <<req, made, toNode, lastSent, served, overtaken>>

\* A reply datagram (lcc_remote_memory_try_handle_datagram): the outstanding
\* alias is all that is compared.  It is rejected while another datagram is
\* being received.
Reply(n) == \E m \in Response :
  /\ Arrives(n, m)
  /\ m.what \in {"good", "bad"}
  /\ UNCHANGED rxBusy
  /\ LET r == req[m.of] IN
     \/ /\ rxBusy \/ libAlias # n
        /\ Ignore
     \/ /\ ~rxBusy /\ libAlias = n
        /\ LibClear
        /\ \/ /\ m.what = "good"
              /\ Settle(r.kind, n, r.space, "ok", m.of)
           \/ /\ m.what = "bad" /\ r.kind = "write"
              /\ Settle("write", n, r.space, "failed", m.of)
           \/ /\ m.what = "bad" /\ r.kind = "read"
              /\ SettleRejectedRead(n, r.space, m.of)

\* Mutation: a write is done as soon as it is accepted.
WriteDoneOnAccept(what) == libKind = "write"

\* The node accepted the write without a reply pending, so it is complete.
WriteDone(what) == libKind = "write" /\ what = "rxok"

\* Datagram Received OK: it settles a write without a reply pending, and an
\* update complete; for the others it restarts the timer.
ReceivedOk(n) == \E m \in Response :
  /\ Arrives(n, m)
  /\ m.what \in {"rxok", "rxokPending"}
  /\ rxBusy' = FALSE
  /\ \/ /\ libAlias # n
        /\ Ignore
     \/ /\ libAlias = n /\ WriteDone(m.what)
        /\ LibClear
        /\ Settle("write", n, libSpace, "ok", m.of)
     \/ /\ libAlias = n /\ libKind = "update"
        /\ LibClear
        /\ Settle("update", n, NoNode, "ok", m.of)
     \/ /\ libAlias = n
        /\ ~WriteDone(m.what) /\ libKind # "update"
        /\ timerOn' = (timerOn \/ requesting)
        /\ UNCHANGED <<status, head, requesting, retries, wakeups, libVars, answer>>

\* Datagram Rejected, temporarily ("busy") or not.
Rejected(n) == \E m \in Response :
  /\ Arrives(n, m)
  /\ m.what \in {"busy", "refused"}
  /\ rxBusy' = FALSE
  /\ \/ /\ libAlias # n
        /\ Ignore
     \/ /\ libAlias = n
        /\ LibClear
        /\ UNCHANGED answer
        /\ \/ /\ ~(requesting /\ head <= made /\ req[head].alias = n)
              /\ UNCHANGED <<status, head, requesting, timerOn, retries, wakeups>>
           \/ /\ requesting /\ head <= made /\ req[head].alias = n
              /\ \/ m.what = "busy" /\ MayRetry /\ RetryCurrentRequest
                 \/ ~(m.what = "busy" /\ MayRetry) /\ FailCurrentRequest

\* Some node is in the middle of sending us a datagram of several frames.
DatagramStarts ==
  /\ ~rxBusy
  /\ rxBusy' = TRUE
  /\ UNCHANGED <<queueVars, status, libVars, busVars, lastSent, answer, served,
                 overtaken>>

DatagramEnds ==
  /\ rxBusy
  /\ rxBusy' = FALSE
  /\ UNCHANGED <<queueVars, status, libVars, busVars, lastSent, answer, served,
                 overtaken>>

-----------------------------------------------------------------------------
(***************************************************************************)
(* The nodes and the bus, which are external.                              *)
(***************************************************************************)

\* The sequences of responses a node can give to a request.
Responses(kind) ==
  {<<"busy">>, <<"refused">>}
    \cup (IF kind \in {"write", "update"} THEN {<<"rxok">>} ELSE {})
    \cup (IF kind # "update" THEN {<<"rxokPending", "good">>} ELSE {})
    \cup (IF kind \in {"read", "write"} THEN {<<"rxokPending", "bad">>} ELSE {})

NodeResponds(n) ==
  /\ toNode[n] # <<>> /\ Len(fromNode[n]) < MaxBacklog
  /\ LET i == Head(toNode[n]) IN
     \E whats \in Responses(req[i].kind) :
       /\ fromNode' = [fromNode EXCEPT
            ![n] = @ \o [k \in 1..Len(whats) |-> [of |-> i, what |-> whats[k]]]]
       /\ served' = IF whats \in {<<"rxok">>, <<"rxokPending", "good">>}
                      THEN served \cup {i} ELSE served
  /\ toNode' = [toNode EXCEPT ![n] = Tail(@)]
  /\ UNCHANGED <<queueVars, status, libVars, rxBusy, lastSent, answer, overtaken>>

LoseRequest(n) ==
  /\ toNode[n] # <<>>
  /\ toNode' = [toNode EXCEPT ![n] = Tail(@)]
  /\ UNCHANGED <<queueVars, status, libVars, rxBusy, fromNode, lastSent, answer,
                 served, overtaken>>

LoseResponse(n) ==
  /\ fromNode[n] # <<>>
  /\ fromNode' = [fromNode EXCEPT ![n] = Tail(@)]
  /\ UNCHANGED <<queueVars, status, libVars, rxBusy, toNode, lastSent, answer,
                 served, overtaken>>

-----------------------------------------------------------------------------
Next ==
  \/ \E r \in Requests : Submit(r)
  \/ Wakeup
  \/ MemoryRequestTimedOut
  \/ \E n \in Nodes : Reply(n) \/ ReceivedOk(n) \/ Rejected(n)
  \/ DatagramStarts
  \/ DatagramEnds
  \/ \E n \in Nodes : NodeResponds(n) \/ LoseRequest(n) \/ LoseResponse(n)

Spec == Init /\ [][Next]_vars

\* Qt's timers fire; nothing is assumed of the nodes and the bus.
FairSpec == Spec /\ WF_vars(Wakeup) /\ WF_vars(MemoryRequestTimedOut)

-----------------------------------------------------------------------------
(***************************************************************************)
(* Properties.                                                             *)
(***************************************************************************)

\* The state has its type, and no more retries were made than allowed.
TypeOK ==
  /\ req \in [Ids -> Request \cup {Unmade}]
  /\ status \in [Ids -> {"unmade", "pending", "ok", "failed"}]
  /\ made \in 0..MaxRequests /\ head \in 1..(made + 1)
  /\ requesting \in BOOLEAN /\ timerOn \in BOOLEAN
  /\ retries \in 0..MaxRetries /\ wakeups \in Nat
  /\ libAlias \in Nodes \cup {NoNode}
  /\ libKind \in {"write", "update", "other"}
  /\ libSpace \in Spaces \cup {NoNode}
  /\ rxBusy \in BOOLEAN
  /\ toNode \in [Nodes -> Seq(Ids)] /\ fromNode \in [Nodes -> Seq(Response)]
  /\ lastSent \in 0..MaxRequests
  /\ answer \in [Ids -> 0..MaxRequests]
  /\ served \subseteq Ids
  /\ overtaken \in BOOLEAN

\* The queue never stalls: an outstanding request has a running timer and is
\* unfinished and at the front, and when nothing is outstanding, unfinished
\* requests have a call of requestNextMemoryBlock to come.
NoLostWakeup ==
  /\ requesting <=> timerOn
  /\ requesting => head <= made /\ status[head] = "pending"
  /\ (~requesting /\ \E i \in Ids : status[i] = "pending") => wakeups > 0

\* "Only one request is outstanding at a time, so the rejection is for the
\* current one" (remoteMemoryRequestFailed): what the library waits for is the
\* request at the front of the queue, as long as one is outstanding.
LibServesFront ==
  requesting /\ libAlias # NoNode =>
    /\ libAlias = req[head].alias
    /\ libKind = "write" => req[head].kind = "write" /\ libSpace = req[head].space
    /\ libKind = "update" <=> req[head].kind = "update"

\* Unless the client gave up while a response was on its way, a request that
\* succeeded was settled by a response to itself, and its node carried it out:
\* a read has the data of its own address, a write was written.
OkIsGenuine ==
  ~overtaken => \A i \in Ids : status[i] = "ok" => answer[i] = i /\ i \in served

\* The queue implements the promise of RequestQueue: requests go out in the
\* order in which they were made (an update complete after every earlier
\* write), and each gets one outcome.
Queue == INSTANCE RequestQueue WITH outcome <- status, onBus <- lastSent
QueueSpec == Queue!Spec

\* Whatever the nodes and the bus do, every request gets an outcome.
EventuallySettled ==
  \A i \in Ids : status[i] = "pending" ~> status[i] \in {"ok", "failed"}
=============================================================================
