-------------------------- MODULE EventGraphWrites --------------------------
(***************************************************************************)
(* How the event graph of the train GUI reads and changes the event IDs in *)
(* the configuration memory of a node: EventGraphController, the staged    *)
(* changes of EventGraphModel (GUI/lcc/eventgraph), and the copy of the    *)
(* memory that SegmentMemory (GUI/lcc/segmentmemory.cpp) keeps, which the  *)
(* graph shares with the CDI editor.                                       *)
(*                                                                         *)
(* One node with a CDI.  A block of memory carries one event ID.  The      *)
(* requests go to LCCConnection: what MemoryRequests shows of its queue is *)
(* used here, one outcome per request and in order.                        *)
(***************************************************************************)
EXTENDS Integers, Sequences, FiniteSets, Functions

CONSTANTS
  Spaces,    \* the address spaces that have event IDs in them
  Size,      \* Size[s]: how many event IDs the space s has
  Values,    \* event IDs
  Memories,  \* what the memory of the node may be at first
  Unknown,   \* an event ID that was not read: std::nullopt
  BadSpaces, \* spaces of which the node says that they end before they start
  Fields,    \* the pins that are changed and read in the CDI editor too
  Refusals,  \* the connection may be unable to send a request
  MaxQueue   \* bound: with fewer in the queue the user makes more requests

Pin == UNION {{s} \X (1..Size[s]) : s \in Spaces}

ASSUME SpacesAssumption ==
  /\ Size \in [Spaces -> Nat] /\ IsFiniteSet(Spaces) /\ IsFiniteSet(Pin)
  /\ BadSpaces \subseteq Spaces
  /\ Fields \subseteq Pin
ASSUME ValuesAssumption == Unknown \notin Values /\ Memories \subseteq [Pin -> Values]
ASSUME BoundsAssumption == Refusals \in BOOLEAN /\ MaxQueue \in Nat

VARIABLES
  mem,       \* the memory of the node
  queue,     \* m_request_order of the connection
  written,   \* the request at the front is a write that the node carried out
  data,      \* data[s]: m_data, as long as m_currentOffset
  readState, \* readState[s]: m_currentReadState
  invalid,   \* the spaces with m_invalid set
  reading,   \* the CDI is being read
  hasCdi,    \* LCCNode::hasCDI
  pins,      \* the event IDs that the graph shows
  staged,    \* m_staged; Unknown for a pin that is not in it
  pending,   \* m_pendingWrites
  spacesToRead, forceRead,
  listening, \* the signals of the memories are connected (m_connectedMemories)
  status,    \* NodeLoadStatus::state
  error,     \* NodeLoadStatus::error is not empty
  unsure     \* history: pins with a failed write that the node carried out

connVars == <<mem, written, unsure>>
memoryVars == <<data, readState, invalid>>
modelVars == <<pins, staged>>
loadVars == <<reading, hasCdi, spacesToRead, forceRead, listening, status, error>>
vars == <<mem, queue, written, data, readState, invalid, reading, hasCdi, pins,
          staged, pending, spacesToRead, forceRead, listening, status, error,
          unsure>>

NoPin == <<>>

Request ==
  [kind : {"cdi", "update"}, at : {NoPin}, val : {Unknown}, graph : {FALSE}]
    \cup [kind : {"info"}, at : Spaces, val : {Unknown}, graph : {FALSE}]
    \cup [kind : {"read", "range"}, at : Pin, val : {Unknown}, graph : {FALSE}]
    \cup [kind : {"write"}, at : Pin, val : Values, graph : BOOLEAN]

Ask(kind, at) == [kind |-> kind, at |-> at, val |-> Unknown, graph |-> FALSE]

Write(p, v, graph) == [kind |-> "write", at |-> p, val |-> v, graph |-> graph]

\* hasMemory(): m_hasData is set and reset together with this state.
HasMemory(s) == readState[s] = "Memory_Complete"

InProcess(s) == readState[s] \in {"Read_Space_Info", "Reading_Memory"}

Init ==
  /\ mem \in Memories
  /\ queue = <<>> /\ written = FALSE
  /\ data = [s \in Spaces |-> <<>>]
  /\ readState = [s \in Spaces |-> "Not_Read_Yet"]
  /\ invalid = {}
  /\ reading = FALSE /\ hasCdi = FALSE
  /\ pins = [p \in Pin |-> Unknown] /\ staged = [p \in Pin |-> Unknown]
  /\ pending = {}
  /\ spacesToRead = {} /\ forceRead = FALSE /\ listening = FALSE
  /\ status = "WaitingForInfo" /\ error = FALSE
  /\ unsure = {}

-----------------------------------------------------------------------------
(***************************************************************************)
(* LCCConnection.  A request that is made while nothing is outstanding is  *)
(* sent within the call; when that fails its reply has finished before the *)
(* caller can connect to it.  Nothing is refused while a reply is handled: *)
(* m_requesting_memory is still set then.                                  *)
(***************************************************************************)

\* The requests of rs that the caller will hear of, when it makes them all with
\* nothing outstanding (idle) or behind others.
Heard(rs, idle) ==
  {rs} \cup (IF Refusals /\ idle
             THEN {SubSeq(rs, k, Len(rs)) : k \in 2..(Len(rs) + 1)} ELSE {})

\* The user makes the requests rs.
Submit(rs) == \E hs \in Heard(rs, queue = <<>>) : queue' = queue \o hs

Room == Len(queue) < MaxQueue

\* The orders in which the elements of S can be gone through.
Orders(S) == Bijection(1..Cardinality(S), S)

-----------------------------------------------------------------------------
(***************************************************************************)
(* EventGraphModel.                                                        *)
(***************************************************************************)

\* p is in the part that d has of the memory of its space, one of S.
Covered(p, S, d) == p[1] \in S /\ p[2] <= Len(d[p[1]])

\* updatePinsFromMemory: show what d has of the spaces S in the pins ps.
ShowPins(ps, S, d) ==
  [p \in Pin |-> IF Covered(p, S, d) THEN d[p[1]][p[2]] ELSE ps[p]]

\* Mutation: reading a pin again drops its change.
StillStagedForgets(st, p, v) == FALSE

\* setPinEventId: a change that the node has now is not staged any more.
StillStaged(st, p, v) == st[p] # v

ShowStaged(st, S, d) ==
  [p \in Pin |-> IF Covered(p, S, d) /\ ~StillStaged(st, p, d[p[1]][p[2]])
                 THEN Unknown ELSE st[p]]

-----------------------------------------------------------------------------
(***************************************************************************)
(* Loading a node.                                                         *)
(***************************************************************************)

\* Mutation: the spaces that could not be read are waited for.
SpaceReadOnlyGood(s, failed) ==
  IF s \in spacesToRead /\ ~failed
  THEN /\ spacesToRead' = spacesToRead \ {s}
       /\ UNCHANGED error
       /\ status' = IF spacesToRead' # {} THEN status
                    ELSE IF error' THEN "Failed" ELSE "Ready"
  ELSE UNCHANGED <<spacesToRead, error, status>>

\* spaceRead: s was read by anybody, or failed to be.
SpaceRead(s, failed) ==
  IF s \in spacesToRead
  THEN /\ spacesToRead' = spacesToRead \ {s}
       /\ error' = (error \/ failed)
       /\ status' = IF spacesToRead' # {} THEN status
                    ELSE IF error' THEN "Failed" ELSE "Ready"
  ELSE UNCHANGED <<spacesToRead, error, status>>

\* readEventIds, with the requests rest in the queue: read the spaces
\* that were not read yet, or all if the user asked to; one that is being read
\* already is waited for, and one that is invalid fails at once.  The state is
\* set to Ready afterwards if there is nothing to wait for.
ReadEventIds(rest, idle) ==
  LET again == {s \in Spaces : forceRead \/ ~HasMemory(s)}
      bad == again \cap invalid
      starts == {s \in again \ bad : ~InProcess(s)}
      blank == [p \in Pin |-> Unknown] IN
  /\ pins' = ShowPins(blank, Spaces \ again, data)
  /\ staged' = ShowStaged(staged, Spaces \ again, data)
  /\ \E order \in Orders(starts) :
       \E hs \in Heard([i \in DOMAIN order |-> Ask("info", order[i])], idle) :
         queue' = rest \o hs
  /\ readState' = [s \in Spaces |->
                     IF s \in starts THEN "Read_Space_Info" ELSE readState[s]]
  /\ data' = [s \in Spaces |-> IF s \in starts THEN <<>> ELSE data[s]]
  /\ spacesToRead' = again \ bad
  /\ forceRead' = FALSE /\ listening' = TRUE
  /\ error' = (bad # {})
  /\ \/ spacesToRead' = {} /\ status' = "Ready"
     \/ spacesToRead' # {} /\ status' = "ReadingMemory"
     \/ spacesToRead' # {} /\ bad # {} /\ status' = "Failed"
  /\ UNCHANGED invalid

\* LCCNode::readCDI.
ReadCdi ==
  /\ reading' = TRUE
  /\ \/ reading /\ UNCHANGED queue
     \/ ~reading /\ Room /\ Submit(<<Ask("cdi", NoPin)>>)

\* The node told what it is, or did not within NODE_INFO_TIMEOUT_MS: use its
\* CDI if we have it (from the node, or of another of its kind), or read it.
NodeKnown ==
  /\ status = "WaitingForInfo"
  /\ \/ /\ ReadEventIds(queue, queue = <<>>)
        /\ hasCdi' = TRUE
        /\ UNCHANGED reading
     \/ /\ ~hasCdi
        /\ ReadCdi
        /\ status' = "ReadingCdi"
        /\ UNCHANGED <<memoryVars, modelVars, hasCdi, spacesToRead, forceRead,
                       listening, error>>
  /\ UNCHANGED <<connVars, pending>>

ReloadNode ==
  /\ ReadCdi
  /\ status' = "ReadingCdi"
  /\ forceRead' = TRUE
  /\ UNCHANGED <<connVars, memoryVars, modelVars, hasCdi, spacesToRead, listening,
                 error, pending>>

\* The CDI editor, or the window of a node.
OtherReadsCdi ==
  /\ ReadCdi
  /\ UNCHANGED <<connVars, memoryVars, modelVars, hasCdi, spacesToRead, forceRead,
                 listening, status, error, pending>>

-----------------------------------------------------------------------------
(***************************************************************************)
(* Changing event IDs.                                                     *)
(***************************************************************************)

\* stageEventId, for an end of a line that is shown or drawn: its event ID is
\* known, and it is not being written.
Stage(p, v) ==
  /\ pins[p] # Unknown \/ staged[p] # Unknown
  /\ p \notin pending
  /\ staged' = [staged EXCEPT ![p] = IF pins[p] = v THEN Unknown ELSE v]
  /\ UNCHANGED <<connVars, queue, memoryVars, pins, loadVars, pending>>

Unstage(p) ==
  /\ staged[p] # Unknown
  /\ staged' = [staged EXCEPT ![p] = Unknown]
  /\ UNCHANGED <<connVars, queue, memoryVars, pins, loadVars, pending>>

DiscardChanges ==
  /\ \E p \in Pin : staged[p] # Unknown
  /\ staged' = [p \in Pin |-> Unknown]
  /\ UNCHANGED <<connVars, queue, memoryVars, pins, loadVars, pending>>

\* The staged changes that applyChanges writes.
ToWrite == {p \in Pin : staged[p] # Unknown /\ HasMemory(p[1]) /\ p \notin pending}

\* Mutation: the update complete is sent first.
WritesAndUpdateFirst(writes) == <<Ask("update", NoPin)>> \o writes

\* Once per node, after all of its writes.
WritesAndUpdate(writes) == Append(writes, Ask("update", NoPin))

ApplyChanges ==
  /\ ToWrite # {} /\ Room
  /\ \E order \in Orders(ToWrite) :
       Submit(WritesAndUpdate(
         [i \in DOMAIN order |-> Write(order[i], staged[order[i]], TRUE)]))
  /\ pending' = pending \cup ToWrite
  /\ UNCHANGED <<connVars, memoryVars, modelVars, loadVars>>

\* The CDI editor changes a field ...
OtherWrites(p, v) ==
  /\ hasCdi /\ Room
  /\ Submit(WritesAndUpdate(<<Write(p, v, FALSE)>>))
  /\ UNCHANGED <<connVars, memoryVars, modelVars, loadVars, pending>>

\* ... reads one again (readRange) ...
OtherReads(p) ==
  /\ hasCdi /\ Room
  /\ Submit(<<Ask("range", p)>>)
  /\ UNCHANGED <<connVars, memoryVars, modelVars, loadVars, pending>>

\* ... or a whole space (readAllMemory, which does nothing if it is being read,
\* and only fails if it is invalid).
OtherReadsAll(s) ==
  /\ hasCdi /\ ~InProcess(s)
  /\ \/ /\ s \in invalid
        /\ listening /\ SpaceRead(s, TRUE)
        /\ UNCHANGED <<queue, data, readState>>
     \/ /\ s \notin invalid /\ Room
        /\ Submit(<<Ask("info", s)>>)
        /\ readState' = [readState EXCEPT ![s] = "Read_Space_Info"]
        /\ data' = [data EXCEPT ![s] = <<>>]
        /\ UNCHANGED <<spacesToRead, error, status>>
  /\ UNCHANGED <<connVars, modelVars, invalid, reading, hasCdi, forceRead,
                 listening, pending>>

-----------------------------------------------------------------------------
(***************************************************************************)
(* The node, and what becomes of the request at the front.                 *)
(***************************************************************************)

\* The node carries out the write at the front.  (Nobody but us changes its
\* memory, so it makes no difference when it reads what it is asked for.)
NodeWrites ==
  /\ queue # <<>> /\ ~written
  /\ LET r == Head(queue) IN
     /\ r.kind = "write"
     /\ mem' = [mem EXCEPT ![r.at] = r.val]
  /\ written' = TRUE
  /\ UNCHANGED <<queue, memoryVars, modelVars, loadVars, pending, unsure>>

\* No further request follows the one that was answered.
Pop == queue' = Tail(queue)

CdiAnswered(r, ok) ==
  /\ r.kind = "cdi"
  /\ reading' = FALSE
  /\ hasCdi' = (hasCdi \/ ok)
  /\ \/ /\ ok /\ status # "WaitingForInfo"
        /\ ReadEventIds(Tail(queue), FALSE)
     \/ /\ ~ok /\ status # "WaitingForInfo"
        /\ Pop
        /\ status' = "Failed" /\ error' = TRUE
        /\ UNCHANGED <<memoryVars, modelVars, spacesToRead, forceRead, listening>>
     \/ /\ status = "WaitingForInfo"
        /\ Pop
        /\ UNCHANGED <<memoryVars, modelVars, spacesToRead, forceRead, listening,
                       status, error>>
  /\ UNCHANGED <<pending, unsure>>

\* memoryReadFailed is emitted.
ReadFails(s) ==
  /\ Pop
  /\ readState' = [readState EXCEPT ![s] = "Not_Read_Yet"]
  /\ IF listening THEN SpaceRead(s, TRUE) ELSE UNCHANGED <<spacesToRead, error, status>>
  /\ UNCHANGED modelVars

IsComplete(s, d) == Len(d) >= Size[s]

\* readNextBlock with d read, or with nothing more to come (last).
ReadNextBlock(s, d, last) ==
  \/ /\ last \/ IsComplete(s, d)
     /\ Pop
     /\ readState' = [readState EXCEPT ![s] = "Memory_Complete"]
     /\ IF listening
        THEN /\ pins' = ShowPins(pins, {s}, [data EXCEPT ![s] = d])
             /\ staged' = ShowStaged(staged, {s}, [data EXCEPT ![s] = d])
             /\ SpaceRead(s, FALSE)
        ELSE UNCHANGED <<modelVars, spacesToRead, error, status>>
  \/ /\ ~last /\ ~IsComplete(s, d)
     /\ queue' = Append(Tail(queue), Ask("read", <<s, Len(d) + 1>>))
     /\ readState' = [readState EXCEPT ![s] = "Reading_Memory"]
     /\ UNCHANGED <<modelVars, spacesToRead, error, status>>

\* addressSpaceFinished; the memory may end before the event IDs of the CDI (last).
AddressSpaceFinished(r, ok) ==
  /\ r.kind = "info"
  /\ \/ /\ ~ok /\ ReadFails(r.at)
        /\ UNCHANGED <<invalid, data>>
     \/ /\ ok /\ r.at \in BadSpaces /\ ReadFails(r.at)
        /\ invalid' = invalid \cup {r.at}
        /\ UNCHANGED data
     \/ /\ ok /\ r.at \notin BadSpaces
        /\ \E last \in BOOLEAN : ReadNextBlock(r.at, data[r.at], last)
        /\ UNCHANGED <<invalid, data>>
  /\ UNCHANGED <<reading, hasCdi, forceRead, listening, pending, unsure>>

\* addressSpaceRead; a reply without data ends the read.
AddressSpaceRead(r, ok) ==
  /\ r.kind = "read"
  /\ LET s == r.at[1]
         d == Append(data[s], mem[r.at]) IN
     \/ /\ ~ok /\ ReadFails(s)
        /\ UNCHANGED <<data, unsure>>
     \/ /\ ok /\ ReadNextBlock(s, data[s], TRUE)
        /\ UNCHANGED <<data, unsure>>
     \/ /\ ok /\ \E last \in BOOLEAN : ReadNextBlock(s, d, last)
        /\ data' = [data EXCEPT ![s] = d]
        /\ unsure' = unsure \ {r.at}
  /\ UNCHANGED <<invalid, reading, hasCdi, forceRead, listening, pending>>

\* Mutation: the graph is not told.
UpdateDataSilently(p, v) ==
  /\ data' = IF Covered(p, {p[1]}, data) THEN [data EXCEPT ![p[1]][p[2]] = v] ELSE data
  /\ UNCHANGED modelVars

\* updateData: the copy is updated as far as it reaches; the graph shows it
\* only once it is complete.
UpdateData(p, v) ==
  /\ data' = IF Covered(p, {p[1]}, data) THEN [data EXCEPT ![p[1]][p[2]] = v] ELSE data
  /\ IF listening /\ Covered(p, {p[1]}, data) /\ HasMemory(p[1])
     THEN /\ pins' = ShowPins(pins, {p[1]}, data')
          /\ staged' = ShowStaged(staged, {p[1]}, data')
     ELSE UNCHANGED modelVars

\* writeFinished goes by the address, whoever wrote it.
WriteFinished(p, ok) == pending' = IF listening THEN pending \ {p} ELSE pending

\* The reply handlers of writeRange and of readRange.
RangeFinished(r, ok) ==
  /\ r.kind \in {"write", "range"}
  /\ Pop
  /\ \/ ~ok /\ UNCHANGED <<data, modelVars>>
     \/ ok /\ UpdateData(r.at, IF r.kind = "write" THEN r.val ELSE mem[r.at])
  /\ IF r.kind = "write" THEN WriteFinished(r.at, ok) ELSE UNCHANGED pending
  /\ unsure' = IF ok THEN unsure \ {r.at}
               ELSE IF written THEN unsure \cup {r.at}
               ELSE unsure
  /\ UNCHANGED <<readState, invalid, loadVars>>

UpdateCompleteFinished(r, ok) ==
  /\ r.kind = "update"
  /\ Pop
  /\ UNCHANGED <<memoryVars, modelVars, loadVars, pending, unsure>>

\* The request at the front got its reply, or (ok = FALSE) the node refused it,
\* it or the reply was lost, or the retries ran out.
Answer ==
  /\ queue # <<>>
  /\ \E ok \in BOOLEAN :
       LET r == Head(queue) IN
       /\ ok /\ r.kind = "write" => written
       /\ \/ CdiAnswered(r, ok)
          \/ AddressSpaceFinished(r, ok)
          \/ AddressSpaceRead(r, ok)
          \/ RangeFinished(r, ok)
          \/ UpdateCompleteFinished(r, ok)
  /\ written' = FALSE
  /\ UNCHANGED mem

-----------------------------------------------------------------------------
Next ==
  \/ NodeKnown
  \/ ReloadNode
  \/ OtherReadsCdi
  \/ \E p \in Pin, v \in Values : Stage(p, v)
  \/ \E p \in Pin : Unstage(p)
  \/ \E p \in Fields, v \in Values : OtherWrites(p, v)
  \/ \E p \in Fields : OtherReads(p)
  \/ DiscardChanges
  \/ ApplyChanges
  \/ \E s \in Spaces : OtherReadsAll(s)
  \/ NodeWrites
  \/ Answer

Spec == Init /\ [][Next]_vars

\* NODE_INFO_TIMEOUT_MS passes, and every request gets an outcome (which
\* MemoryRequests shows under the fairness of Qt's timers).
FairSpec == Spec /\ WF_vars(NodeKnown) /\ WF_vars(Answer)

-----------------------------------------------------------------------------
(***************************************************************************)
(* Properties.                                                             *)
(***************************************************************************)

\* The state has its type.
TypeOK ==
  /\ mem \in [Pin -> Values]
  /\ queue \in Seq(Request)
  /\ written \in BOOLEAN
  /\ data \in [Spaces -> Seq(Values)]
  /\ readState \in [Spaces -> {"Not_Read_Yet", "Read_Space_Info",
                               "Reading_Memory", "Memory_Complete"}]
  /\ invalid \subseteq BadSpaces
  /\ reading \in BOOLEAN /\ hasCdi \in BOOLEAN
  /\ pins \in [Pin -> Values \cup {Unknown}]
  /\ staged \in [Pin -> Values \cup {Unknown}]
  /\ pending \subseteq Pin
  /\ spacesToRead \subseteq Spaces
  /\ forceRead \in BOOLEAN /\ listening \in BOOLEAN
  /\ status \in {"WaitingForInfo", "ReadingCdi", "ReadingMemory", "Ready", "Failed"}
  /\ error \in BOOLEAN
  /\ unsure \subseteq Pin

\* The node carried out a write of p that SegmentMemory does not know of yet.
Written(p) == written /\ Head(queue).at = p

\* "Our copy of the memory is updated as the node accepts the data"
\* (SegmentMemory::writeRange): as far as the copy reaches, also while it is
\* being read and with reads and writes of others in between, it is what the
\* node has, except where the node carried out a write whose reply was lost.
CopyIsTrue ==
  \A p \in Pin : Covered(p, Spaces, data) =>
    data[p[1]][p[2]] = mem[p] \/ p \in unsure \/ Written(p)

\* What the graph shows is the copy, whoever read or wrote it last ("The pins
\* are updated from dataChanged").
GraphShowsCopy ==
  \A p \in Pin : listening /\ HasMemory(p[1]) /\ Covered(p, Spaces, data) =>
    pins[p] = data[p[1]][p[2]]

\* The two together: an event ID that the graph shows is what the node has, except
\* where the node carried out a write whose reply was lost or is still to come.
GraphIsTrue ==
  \A p \in Pin : listening /\ HasMemory(p[1]) /\ Covered(p, Spaces, data) =>
    pins[p] = mem[p] \/ p \in unsure \/ Written(p)

\* "A change is removed from the staged changes once the node has it, so failed
\* changes are left to try again" (EventGraphController::applyChanges): a reply
\* takes a change away only if the node has it.
ChangesAreKept ==
  [][Answer => \A p \in Pin :
       staged[p] # Unknown /\ staged'[p] # staged[p] =>
         staged[p] = mem[p] \/ p \in unsure]_vars

\* "This is sent after the writes that were just made, so the node uses the new
\* values": behind every write there is an update complete.
WritesTakeEffect ==
  \A i \in DOMAIN queue : queue[i].kind = "write" =>
    \E j \in DOMAIN queue : j > i /\ queue[j].kind = "update"

\* The write that the graph made for p is in the queue q.
Queued(p, q) ==
  \E i \in DOMAIN q : q[i].kind = "write" /\ q[i].at = p /\ q[i].graph

\* "An event ID is being written to the pin": the write of a pending pin stays in
\* the queue as long as the pin is pending, so that its reply ends it, and a change
\* that is applied while the connection is busy has its write queued.  Only one that
\* is applied to an idle connection, which may refuse within the call, can be pending
\* without a write, until somebody else writes the same event ID.
PendingStaysQueued ==
  [][\A p \in pending' :
       Queued(p, queue) \/ (p \notin pending /\ queue # <<>>) => Queued(p, queue')]_vars

\* Whoever else reads the node's memory, the graph knows when it is loaded.
LoadingEnds ==
  status \in {"ReadingCdi", "ReadingMemory"} ~> status \in {"Ready", "Failed"}
=============================================================================
