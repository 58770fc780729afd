-------------------------- MODULE LoconetProgrammer --------------------------
(* loconetprogrammer.cpp: the programmers that the windows of the GUI create    *)
(* on one LocoNet connection, each with its queue of requests, the send queue   *)
(* of loconetconnection.cpp that they share, and a command station.             *)
(*                                                                              *)
(* The messages do not say whose request they are about. Every programmer gets  *)
(* every message from the command station, as all of them are connected to the  *)
(* signal incomingLoconetMessage, and takes it for an answer to its current     *)
(* request if it waits for one. Here the messages carry the request they are    *)
(* about (of), which no handler looks at.                                       *)
(*                                                                              *)
(* A reply is "read", the slot read that ends a task, or the value of a long    *)
(* acknowledgement: 0x7F, 0x01, 0x40 or 0x00. The status and the data that a    *)
(* slot read carries are left out, and other messages, which are ignored.       *)
EXTENDS Naturals, Sequences

CONSTANTS
    Programmers,   \* the LoconetProgrammer objects
    Modes,         \* the modes of a request that are used
    Scripts,       \* mode -> the sequences of replies that it may get
    None,          \* no outcome
    MaxRequests    \* bound: requests in a behaviour

AllModes == {"ServiceTrack", "OpsModeNoFeedback", "OpsModeWithFeedback"}
Replies  == {"7F", "01", "40", "00", "read"}
Reasons  == {"read", "Success", "ProgrammerBusy", "NotImplemented"}
States   == {"Idle", "WaitingForSubmitLack", "WaitingForWriteAck", "WaitingForCompletion"}

ASSUME ProgrammerAssumption ==
    /\ Modes \subseteq AllModes
    /\ Scripts \in [Modes -> SUBSET Seq(Replies)]
    /\ MaxRequests \in Nat
    /\ None \notin Reasons

VARIABLES
    requests,   \* the requests that were submitted: their programmer and mode
    state,      \* m_state of each programmer
    queue,      \* m_queue of each programmer, behind the current request
    current,    \* m_current of each programmer, 0 before the first one
    sendQueue,  \* m_sendQueue of the connection
    task,       \* the command station: the request it works on, and its replies to come
    incoming,   \* the replies that are on their way
    heard,      \* the programmers that were told of the first of them
    outcome,    \* the result of each request, and which request the reply was about
    clash       \* history: two programmers were waiting at the same time

vars == <<requests, state, queue, current, sendQueue, task, incoming, heard, outcome, clash>>

Requests == 1..Len(requests)

Reply   == [what : Replies, of : 1..MaxRequests]
Outcome == [reason : Reasons \cup {None}, of : 0..MaxRequests]
NoOutcome == [reason |-> None, of |-> 0]

TypeOK ==
    /\ requests \in Seq([by : Programmers, mode : Modes]) /\ Len(requests) <= MaxRequests
    /\ state \in [Programmers -> States]
    /\ queue \in [Programmers -> Seq(Requests)]
    /\ \A p \in Programmers : state[p] = "Idle" => queue[p] = <<>>
    /\ current \in [Programmers -> 0..Len(requests)]
    /\ sendQueue \in Seq(Requests)
    /\ task \in [of : 0..Len(requests), replies : Seq(Replies)]
    /\ incoming \in Seq(Reply)
    /\ heard \subseteq Programmers
    /\ outcome \in [1..MaxRequests -> Outcome]
    /\ clash \in BOOLEAN

Init ==
    /\ requests = <<>>
    /\ state = [p \in Programmers |-> "Idle"]
    /\ queue = [p \in Programmers |-> <<>>]
    /\ current = [p \in Programmers |-> 0]
    /\ sendQueue = <<>>
    /\ task = [of |-> 0, replies |-> <<>>]
    /\ incoming = <<>>
    /\ heard = {}
    /\ outcome = [r \in 1..MaxRequests |-> NoOutcome]
    /\ clash = FALSE

Waiting(p) == state[p] # "Idle"

-------------------------------------------------------------------------------
(* What a programmer does about a reply.                                        *)

Acknowledged(what) ==
    CASE what = "40" -> "Success"
      [] what = "00" -> "ProgrammerBusy"
      [] OTHER -> "NotImplemented"

(* The reply ends the request: with what reason, or None. *)
Ends(s, mode, what) ==
    CASE what = "read" /\ s \in {"WaitingForSubmitLack", "WaitingForCompletion"} -> "read"
      [] s = "WaitingForSubmitLack" /\ mode # "ServiceTrack" -> Acknowledged(what)
      [] s = "WaitingForWriteAck" /\ what \notin {"01", "read"} -> Acknowledged(what)
      [] OTHER -> None

(* The reply does not: the state it leads to. *)
GoesTo(s, what) ==
    CASE s = "WaitingForSubmitLack" /\ what = "7F" -> "WaitingForWriteAck"
      [] s = "WaitingForWriteAck" /\ what = "01" -> "WaitingForCompletion"
      [] OTHER -> s

After(s, mode, what) ==
    IF Ends(s, mode, what) # None THEN "done" ELSE GoesTo(s, what)

(* The replies take a request from state s to its end, and not further. *)
Settles(s, mode, replies) ==
    \E path \in [0..Len(replies) -> States \cup {"done"}] :
        /\ path[0] = s
        /\ path[Len(replies)] = "done"
        /\ \A i \in 1..Len(replies) :
              path[i - 1] # "done" /\ path[i] = After(path[i - 1], mode, replies[i])

(* The command station settles every request. This leaves out a service mode     *)
(* task that is refused at once (the programmer, which has no timeout, waits for *)
(* a slot read that never comes, l.97), and a slot read behind an answer that    *)
(* ends the request (after 0x01 in an operations mode, l.109).                   *)
ASSUME StationAssumption ==
    \A mode \in Modes : \A script \in Scripts[mode] :
        Settles("WaitingForSubmitLack", mode, script)

(* sendCurrentRequest, with the queue q: the next request, or nothing to do. *)
SendCurrentRequest(p, q) ==
    IF q = <<>>
    THEN /\ state' = [state EXCEPT ![p] = "Idle"]
         /\ queue' = [queue EXCEPT ![p] = <<>>]
         /\ UNCHANGED <<current, sendQueue>>
    ELSE /\ state' = [state EXCEPT ![p] = "WaitingForSubmitLack"]
         /\ queue' = [queue EXCEPT ![p] = Tail(q)]
         /\ current' = [current EXCEPT ![p] = Head(q)]
         /\ sendQueue' = Append(sendQueue, Head(q))

(* Mutation: the next request is taken before the result is given. *)
CompleteAfterSending(p, reason, of) ==
    /\ SendCurrentRequest(p, queue[p])
    /\ outcome' = [outcome EXCEPT ![current'[p]] = [reason |-> reason, of |-> of]]

(* Mutation: the requests that wait are not sent. *)
CompleteOnly(p, reason, of) ==
    /\ outcome' = [outcome EXCEPT ![current[p]] = [reason |-> reason, of |-> of]]
    /\ state' = [state EXCEPT ![p] = "Idle"]
    /\ UNCHANGED <<queue, current, sendQueue>>

CompleteCurrentRequest(p, reason, of) ==
    /\ outcome' = [outcome EXCEPT ![current[p]] = [reason |-> reason, of |-> of]]
    /\ SendCurrentRequest(p, queue[p])

-------------------------------------------------------------------------------
(* submitProgrammingRequest, for a user of programmer p *)
Submit(p, mode) ==
    LET r == Len(requests) + 1
    IN  /\ heard = {}
        /\ r <= MaxRequests
        /\ requests' = Append(requests, [by |-> p, mode |-> mode])
        /\ IF state[p] = "Idle"
           THEN SendCurrentRequest(p, Append(queue[p], r))
           ELSE /\ queue' = [queue EXCEPT ![p] = Append(queue[p], r)]
                /\ UNCHANGED <<state, current, sendQueue>>
        /\ clash' = (clash \/ \E o \in Programmers \ {p} : Waiting(o))
        /\ UNCHANGED <<task, incoming, heard, outcome>>

(* sendNextMessage, every 50 ms. A command station that is busy says so. *)
SendNextMessage ==
    /\ heard = {}
    /\ sendQueue # <<>>
    /\ sendQueue' = Tail(sendQueue)
    /\ LET r == Head(sendQueue)
       IN  \/ /\ task.replies # <<>>
              /\ incoming' = Append(incoming, [what |-> "00", of |-> r])
              /\ UNCHANGED task
           \/ /\ task.replies = <<>>
              /\ \E script \in Scripts[requests[r].mode] :
                    task' = [of |-> r, replies |-> script]
              /\ UNCHANGED incoming
    /\ UNCHANGED <<requests, state, queue, current, heard, outcome, clash>>

(* The command station gets on with its task. *)
StationReplies ==
    /\ task.replies # <<>>
    /\ incoming' = Append(incoming, [what |-> Head(task.replies), of |-> task.of])
    /\ task' = [task EXCEPT !.replies = Tail(@)]
    /\ UNCHANGED <<requests, state, queue, current, sendQueue, heard, outcome, clash>>

(* incomingMessage of programmer p. All programmers are told of a message, in an *)
(* order that is not known here, before anything else happens in the GUI.        *)
IncomingMessage(p) ==
    /\ incoming # <<>>
    /\ p \notin heard
    /\ IF heard \cup {p} = Programmers
       THEN heard' = {} /\ incoming' = Tail(incoming)
       ELSE heard' = heard \cup {p} /\ UNCHANGED incoming
    /\ LET message == Head(incoming)
           mode    == requests[current[p]].mode
           reason  == Ends(state[p], mode, message.what)
       IN  \/ /\ ~Waiting(p)
              /\ UNCHANGED <<state, queue, current, sendQueue, outcome>>
           \/ /\ Waiting(p) /\ reason = None
              /\ state' = [state EXCEPT ![p] = GoesTo(@, message.what)]
              /\ UNCHANGED <<queue, current, sendQueue, outcome>>
           \/ /\ Waiting(p) /\ reason # None
              /\ CompleteCurrentRequest(p, reason, message.of)
    /\ UNCHANGED <<requests, task, clash>>

Next ==
    \/ \E p \in Programmers, mode \in Modes : Submit(p, mode)
    \/ SendNextMessage
    \/ StationReplies
    \/ \E p \in Programmers : IncomingMessage(p)

Spec == Init /\ [][Next]_vars

(* The send timer runs, the command station works, and what has come is read. *)
FairSpec ==
    /\ Spec
    /\ WF_vars(SendNextMessage)
    /\ WF_vars(StationReplies)
    /\ \A p \in Programmers : WF_vars(IncomingMessage(p))

-------------------------------------------------------------------------------
(* The properties. *)

Done(r) == outcome[r].reason # None

(* The requests of a programmer end in the order in which they were submitted,  *)
(* whatever the replies are and whoever else programs (l.35-52: the next one is *)
(* taken from the queue only when the current one is completed).                *)
EachInTurn ==
    \A r, s \in Requests :
        (requests[r].by = requests[s].by /\ r < s /\ Done(s)) => Done(r)

(* A request ends once: a result that was given is not replaced by what a later *)
(* message says (m_state is Idle when nothing is left, and m_current is still   *)
(* the last request).                                                           *)
OutcomeStays == [][\A r \in Requests : Done(r) => outcome'[r] = outcome[r]]_vars

(* The result of a request comes from a reply to that request, although replies *)
(* do not say so: a programmer and the command station never get out of step,   *)
(* unless two programmers have waited at the same time.                         *)
OutcomeIsOwn ==
    clash \/ \A r \in Requests : Done(r) => outcome[r].of = r

(* Every request that is submitted ends, however many wait before it, unless    *)
(* two programmers have waited at the same time.                                *)
EveryRequestEnds ==
    \A r \in 1..MaxRequests :
        (r \in Requests /\ ~clash) ~> (clash \/ Done(r))
=============================================================================
