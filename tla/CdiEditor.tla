------------------------------ MODULE CdiEditor ------------------------------
(***************************************************************************)
(* The CDI editor of the GUI (cdieditorwidget.cpp): the values of a node   *)
(* that the user sees and changes, and the copies of the node's memory     *)
(* (segmentmemory.cpp) that it shares with the event graph.  A value may   *)
(* be longer than a block of memory and is then read and written in        *)
(* several requests.                                                       *)
(***************************************************************************)
EXTENDS Integers, Sequences, FiniteSets, Functions

CONSTANTS
  Segments,    \* the address spaces of the CDI's segments, in their order
  FieldOrder,  \* the values of the CDI, in the order of their keys
  SpaceOf,     \* SpaceOf[f]: the address space of f
  Blocks,      \* Blocks[f]: how many blocks of memory f has
  Layout,      \* Layout[s]: the blocks <<f, i>> of space s, in the order of their addresses
  Block,       \* what may be in a block
  Memories,    \* what the memory of the node may be at first
  Inputs,      \* Inputs[f]: what is entered in f, as the editor would write it
  Encode,      \* Encode[f][v]: what the editor makes of v when it shows it in f
  Groups,      \* the groups of values; one is shown at a time
  GraphFields, \* the event IDs that the event graph changes
  BadSpaces,   \* spaces of which the node says that they end before they start
  MaxQueue,    \* bound: with fewer requests in the queue the user makes more
  MaxGraph,    \* bound: with fewer requests in the queue the event graph writes
  MaxLost      \* bound: replies to writes that are lost before the values are shown anew

Spaces == Range(Segments)
Fields == Range(FieldOrder)
Value(f) == [1..Blocks[f] -> Block]
AnyValue == UNION {Value(f) : f \in Fields}
NoValue == <<>>     \* an empty QVector: not known, or no change
None == "none"      \* no space is being read

(* The blocks of the values. *)
AllBlocks == UNION {{<<f, i>> : i \in 1..Blocks[f]} : f \in Fields}

(* The CDI: its segments have no space in common, and a space that the node can read *)
(* has something in it; nothing of the event graph is longer than a block.           *)
ASSUME CdiAssumption ==
  /\ Segments \in Seq(Spaces)
  /\ FieldOrder \in Seq(Fields) /\ \A i, j \in DOMAIN FieldOrder : FieldOrder[i] = FieldOrder[j] => i = j
  /\ SpaceOf \in [Fields -> Spaces] /\ Blocks \in [Fields -> Nat \ {0}]
  /\ \A g \in Groups : g \subseteq Fields
  /\ \A f \in GraphFields : f \in Fields /\ Blocks[f] = 1
  /\ \A s \in Spaces \ BadSpaces : \E f \in Fields : SpaceOf[f] = s
(* The values of a space follow each other and do not overlap. *)
ASSUME LayoutAssumption ==
  \A s \in Spaces :
    /\ Layout[s] \in Seq(AllBlocks)
    /\ \A b \in AllBlocks : SpaceOf[b[1]] = s <=> \E k \in DOMAIN Layout[s] : Layout[s][k] = b
    /\ \A k, l \in DOMAIN Layout[s] : Layout[s][k] = Layout[s][l] => k = l
ASSUME EncodeAssumption ==
  \A f \in Fields :
    /\ \A v \in Value(f) : Encode[f][v] \in Value(f) /\ Encode[f][Encode[f][v]] = Encode[f][v]
    /\ \A v \in Inputs[f] : v \in Value(f) /\ Encode[f][v] = v
ASSUME MemoriesAssumption ==
  \A m \in Memories : m \in [Fields -> AnyValue] /\ \A f \in Fields : m[f] \in Value(f)

VARIABLES
  mem,         \* the memory of the node
  queue,       \* what the connection is to do, in order; all blocks of a range are queued at once
  block,       \* the block of the range at the front that is next
  written,     \* that block is one to write, and the node has written it
  failed,      \* RangeOperation::failed of the range at the front
  data,        \* data[s]: SegmentMemory::m_data
  invalid,     \* the spaces with m_invalid
  shown,       \* m_fields
  original,    \* FieldBinding::original
  pending,     \* m_pending
  outstanding, \* m_writesOutstanding
  inFlight,    \* m_writesInFlight
  toRead,      \* m_segmentsToRead
  current,     \* the space of m_currentSegmentRead
  forceRead,   \* m_forceRead
  modal,       \* a menu with what it offers, or the question before all is read again
  unsure       \* history: blocks of which the editor was not told what became of them

connVars == <<mem, block, written, failed>>
memoryVars == <<data, invalid>>
shownVars == <<shown, original>>
writeVars == <<outstanding, inFlight>>
readVars == <<toRead, current, forceRead>>
vars == <<connVars, queue, memoryVars, shownVars, pending, writeVars, readVars, modal, unsure>>

(* Where a block is in its space. *)
Index == [b \in AllBlocks |-> CHOOSE k \in DOMAIN Layout[SpaceOf[b[1]]] : Layout[SpaceOf[b[1]]][k] = b]

(* The copies that SegmentMemory has.  A space that cannot be read is never there. *)
HasMemory(s, copy) == s \notin BadSpaces /\ Len(copy[s]) = Len(Layout[s])
Covered(b, copy) == Index[b] <= Len(copy[SpaceOf[b[1]]])
InCopy(b, copy) == copy[SpaceOf[b[1]]][Index[b]]
FieldOf(f, copy) == [i \in 1..Blocks[f] |-> InCopy(<<f, i>>, copy)]

(* The requests. *)
Info(s) == [kind |-> "info", space |-> s]
ReadBlock(s, k) == [kind |-> "read", space |-> s, at |-> k]
Write(f, v) == [kind |-> "write", field |-> f, val |-> v]
ReadRange(f) == [kind |-> "range", field |-> f]
Update == [kind |-> "update"]
InProcess(s, q) == \E i \in DOMAIN q : q[i].kind \in {"info", "read"} /\ q[i].space = s

(* A menu offers what was possible when it was opened. *)
Menu(f, write) == [open |-> "menu", field |-> f, write |-> write]
Question == [open |-> "question"]
NoModal == [open |-> "nothing"]

Room == Len(queue) < MaxQueue
Nothing == [f \in Fields |-> NoValue]

Init ==
  /\ mem \in Memories
  /\ queue = <<>> /\ block = 1 /\ written = FALSE /\ failed = FALSE
  /\ data = [s \in Spaces |-> <<>>] /\ invalid = {}
  /\ shown = {} /\ original = Nothing /\ pending = Nothing
  /\ outstanding = 0 /\ inFlight = {}
  /\ toRead = <<>> /\ current = None /\ forceRead = FALSE
  /\ modal = NoModal /\ unsure = {}

-----------------------------------------------------------------------------
(* What is shown and changed. *)

(* loadFieldValue: what is in the copy, as the widget encodes it. *)
Loaded(fields, copy) ==
  [f \in Fields |-> IF f \in fields /\ HasMemory(SpaceOf[f], copy) THEN Encode[f][FieldOf(f, copy)] ELSE NoValue]

(* What the node did with these blocks is known when the values are shown anew. *)
StillUnsure(copy) == {b \in unsure : Covered(b, copy) => InCopy(b, copy) # mem[b[1]][b[2]]}

RefreshFieldValues(copy) ==
  /\ original' = Loaded(shown, copy)
  /\ unsure' = StillUnsure(copy)

OnTreeSelectionChanged(g) ==
  /\ modal = NoModal /\ g # shown
  /\ shown' = g /\ original' = Loaded(g, data)
  /\ UNCHANGED <<connVars, queue, memoryVars, pending, writeVars, readVars, modal, unsure>>

(* A value that is not valid (yet), or is the original one, is no change. *)
ChangeOf(f, v) == IF v = original[f] THEN NoValue ELSE v

(* A widget is disabled if the node's value is not known, all are while memory is read. *)
Enabled(f) == modal = NoModal /\ current = None /\ f \in shown /\ original[f] # NoValue

FieldEdited(f, v) ==
  /\ Enabled(f)
  /\ pending' = [pending EXCEPT ![f] = ChangeOf(f, v)]
  /\ UNCHANGED <<connVars, queue, memoryVars, shownVars, writeVars, readVars, modal, unsure>>

-----------------------------------------------------------------------------
(* Reading all segments, one after the other. *)

(* readNextSegment, with the requests q in the queue.  An invalid space fails within *)
(* the call; one that is being read by somebody else is waited for.                  *)
ReadNextSegment(segments, force, q, copy, bad) ==
  LET needed == {i \in DOMAIN segments : segments[i] \notin bad /\ (force \/ ~HasMemory(segments[i], copy))}
  IN  \/ /\ needed = {}
         /\ toRead' = <<>> /\ current' = None
         /\ queue' = q /\ data' = copy
      \/ \E i \in needed :
           /\ \A j \in needed : i <= j
           /\ toRead' = SubSeq(segments, i + 1, Len(segments)) /\ current' = segments[i]
           /\ IF InProcess(segments[i], q)
              THEN queue' = q /\ data' = copy
              ELSE /\ queue' = Append(q, Info(segments[i]))
                   /\ data' = [copy EXCEPT ![segments[i]] = <<>>]

ReadConfigurationMemory(force) ==
  IF current # None
  THEN UNCHANGED <<queue, data, readVars>>
  ELSE /\ forceRead' = force
       /\ ReadNextSegment(Segments, force, queue, data, invalid)

(* The CDI was read, by anybody: the tree is built anew, and its fields are gone. *)
NodeCDIRead ==
  /\ Room
  /\ shown' = {} /\ original' = Nothing /\ pending' = Nothing
  /\ modal' = IF modal = Question THEN Question ELSE NoModal
  /\ ReadConfigurationMemory(FALSE)
  /\ UNCHANGED <<connVars, invalid, writeVars, unsure>>

ReadAll ==
  /\ pending' = Nothing
  /\ ReadConfigurationMemory(TRUE)
  /\ RefreshFieldValues(data')
  /\ modal' = NoModal
  /\ UNCHANGED <<connVars, invalid, shown, writeVars>>

Busy == current # None \/ outstanding > 0

OnReadAllButtonClicked ==
  /\ modal = NoModal /\ ~Busy /\ Room
  /\ \/ pending = Nothing /\ ReadAll
     \/ /\ pending # Nothing
        /\ modal' = Question
        /\ UNCHANGED <<connVars, queue, memoryVars, shownVars, pending, writeVars, readVars, unsure>>

AnswerQuestion ==
  /\ modal = Question
  /\ \/ Room /\ ReadAll
     \/ /\ modal' = NoModal
        /\ UNCHANGED <<connVars, queue, memoryVars, shownVars, pending, writeVars, readVars, unsure>>

-----------------------------------------------------------------------------
(* Reading and writing values. *)

(* The keys of a map, one after the other. *)
Position(f) == CHOOSE k \in DOMAIN FieldOrder : FieldOrder[k] = f
InOrder(fields) ==
  {keys \in [1..Cardinality(fields) -> fields] :
     /\ \A f \in fields : \E k \in DOMAIN keys : keys[k] = f
     /\ \A k, l \in DOMAIN keys : k < l => Position(keys[k]) < Position(keys[l])}

(* writeChange for some fields, then sendUpdateComplete. *)
WriteChanges(fields) ==
  /\ \E keys \in InOrder(fields) :
       queue' = queue \o [k \in 1..Cardinality(fields) |-> Write(keys[k], pending[keys[k]])] \o <<Update>>
  /\ outstanding' = outstanding + Cardinality(fields)
  /\ inFlight' = inFlight \cup fields

Changed == {f \in Fields : pending[f] # NoValue}

OnWriteButtonClicked ==
  /\ modal = NoModal /\ ~Busy /\ Room
  /\ Changed # {}
  /\ WriteChanges(Changed)
  /\ UNCHANGED <<connVars, memoryVars, shownVars, pending, readVars, modal, unsure>>

(* What the menu offers is found when it opens: to read, and to write a change. (While *)
(* the editor is busy it offers neither.)                                             *)
ShowFieldContextMenu(f) ==
  /\ Enabled(f) /\ ~Busy
  /\ modal' = Menu(f, pending[f] # NoValue)
  /\ UNCHANGED <<connVars, queue, memoryVars, shownVars, pending, writeVars, readVars, unsure>>

ChooseFromMenu ==
  /\ modal.open = "menu"
  /\ modal' = NoModal
  /\ \/ /\ Room
        /\ queue' = Append(queue, ReadRange(modal.field))
        /\ UNCHANGED writeVars
     \/ modal.write /\ Room /\ WriteChanges({modal.field} \cap Changed)
     \/ UNCHANGED <<queue, writeVars>>
  /\ UNCHANGED <<connVars, memoryVars, shownVars, pending, readVars, unsure>>

-----------------------------------------------------------------------------
(* The event graph reads and changes the same memory. (The update complete that it  *)
(* sends too is left out, as nothing waits for it.)                                  *)

GraphWrites(f, v) ==
  /\ Len(queue) < MaxGraph
  /\ queue' = Append(queue, Write(f, v))
  /\ UNCHANGED <<connVars, memoryVars, shownVars, pending, writeVars, readVars, modal, unsure>>

GraphReadsAll(s) ==
  /\ Room /\ ~InProcess(s, queue) /\ s \notin invalid
  /\ queue' = Append(queue, Info(s))
  /\ data' = [data EXCEPT ![s] = <<>>]
  /\ UNCHANGED <<connVars, invalid, shownVars, pending, writeVars, readVars, modal, unsure>>

-----------------------------------------------------------------------------
(* The node, and what becomes of the request at the front. *)

NodeWrites ==
  /\ queue # <<>> /\ ~written
  /\ LET r == Head(queue) IN
     /\ r.kind = "write"
     /\ mem' = [mem EXCEPT ![r.field][block] = r.val[block]]
  /\ written' = TRUE
  /\ UNCHANGED <<queue, block, failed, memoryVars, shownVars, pending, writeVars, readVars, modal, unsure>>

(* segmentMemoryReady: the editor is only interested in the space that it waits for. *)
SegmentMemoryReady(s, copy) ==
  IF s = current
  THEN /\ RefreshFieldValues(copy)
       /\ ReadNextSegment(toRead, forceRead, Tail(queue), copy, invalid)
  ELSE /\ queue' = Tail(queue) /\ data' = copy
       /\ UNCHANGED <<original, unsure, toRead, current>>

(* Mutation: the editor stops at a space that cannot be read. *)
SegmentMemoryReadFailedStops(s, bad) ==
  /\ queue' = Tail(queue)
  /\ UNCHANGED <<data, original, unsure, toRead, current>>

(* segmentMemoryReadFailed: keep going with the other segments. *)
SegmentMemoryReadFailed(s, bad) ==
  IF s = current
  THEN /\ ReadNextSegment(toRead, forceRead, Tail(queue), data, bad)
       /\ IF current' = None THEN RefreshFieldValues(data) ELSE UNCHANGED <<original, unsure>>
  ELSE /\ queue' = Tail(queue)
       /\ UNCHANGED <<data, original, unsure, toRead, current>>

AddressSpaceFinished(r, ok) ==
  /\ r.kind = "info"
  /\ invalid' = IF ok /\ r.space \in BadSpaces THEN invalid \cup {r.space} ELSE invalid
  /\ IF ok /\ r.space \notin BadSpaces
     THEN /\ queue' = Append(Tail(queue), ReadBlock(r.space, 1))
          /\ UNCHANGED <<data, original, unsure, toRead, current>>
     ELSE SegmentMemoryReadFailed(r.space, invalid')
  /\ UNCHANGED <<block, failed, pending, writeVars>>

AddressSpaceRead(r, ok) ==
  /\ r.kind = "read"
  /\ LET s == r.space
         b == Layout[s][r.at]
         copy == [data EXCEPT ![s] = Append(@, mem[b[1]][b[2]])]
     IN  CASE ok /\ HasMemory(s, copy) -> SegmentMemoryReady(s, copy)
           [] ok /\ ~HasMemory(s, copy) ->
                /\ data' = copy
                /\ queue' = Append(Tail(queue), ReadBlock(s, r.at + 1))
                /\ UNCHANGED <<original, unsure, toRead, current>>
           [] OTHER -> SegmentMemoryReadFailed(s, invalid)
  /\ UNCHANGED <<block, failed, invalid, pending, writeVars>>

(* Mutation: only what is read gets into the copy. *)
UpdateDataNot(b, x) == data

(* updateData: as far as the copy reaches. *)
UpdateData(b, x) == IF Covered(b, data) THEN [data EXCEPT ![SpaceOf[b[1]]][Index[b]] = x] ELSE data

(* Mutation: what is written is no change any more, whatever the user did since. *)
RemoveWrittenChangesAll(f, copy) == [pending EXCEPT ![f] = NoValue]

(* removeWrittenChanges: what the node now has is no longer a change. *)
RemoveWrittenChanges(f, copy) ==
  [g \in Fields |-> IF HasMemory(SpaceOf[g], copy) /\ FieldOf(g, copy) = pending[g] THEN NoValue ELSE pending[g]]

(* Mutation: a write of something else is counted, too. *)
WriteEndsOfAnybody(f) ==
  /\ inFlight' = inFlight \ {f}
  /\ outstanding' = IF outstanding = 0 THEN 0 ELSE outstanding - 1

(* Mutation: it is even counted when there is none to be counted. *)
WriteEndsUncounted(f) == inFlight' = inFlight \ {f} /\ outstanding' = outstanding - 1

(* A write of something else is only shown. *)
WriteEnds(f) ==
  IF f \in inFlight
  THEN /\ inFlight' = inFlight \ {f}
       /\ outstanding' = IF outstanding = 0 THEN 0 ELSE outstanding - 1
  ELSE UNCHANGED writeVars

RangeWritten(f, copy) ==
  /\ pending' = RemoveWrittenChanges(f, copy)
  /\ RefreshFieldValues(copy)
  /\ WriteEnds(f)

(* Part of the value may have been written. *)
RangeWriteFailed(f, blocks) ==
  IF f \in inFlight
  THEN /\ pending' = RemoveWrittenChanges(f, data)
       /\ original' = Loaded(shown, data)
       /\ unsure' = blocks
       /\ WriteEnds(f)
  ELSE unsure' = blocks /\ UNCHANGED <<original, pending, writeVars>>

(* What the user had changed is replaced by what the node has. *)
RangeRead(f, copy) ==
  /\ pending' = [pending EXCEPT ![f] = NoValue]
  /\ RefreshFieldValues(copy)
  /\ UNCHANGED writeVars

(* The reply handlers of writeRange and readRange: the end of a range is told once, *)
(* at its last block or at the first one that fails.                                *)
RangeFinished(r, ok) ==
  /\ r.kind \in {"write", "range"}
  /\ LET f == r.field
         b == <<f, block>>
         last == block = Blocks[f]
         copy == IF ok THEN UpdateData(b, IF r.kind = "write" THEN r.val[block] ELSE mem[f][block]) ELSE data
     IN  /\ data' = copy
         /\ failed' = (~last /\ (failed \/ ~ok))
         /\ queue' = (IF last THEN Tail(queue) ELSE queue) /\ block' = IF last THEN 1 ELSE block + 1
         /\ CASE ok /\ last /\ ~failed ->
                   IF r.kind = "write" THEN RangeWritten(f, copy) ELSE RangeRead(f, copy)
              [] ~ok /\ ~failed /\ r.kind = "write" ->
                   RangeWriteFailed(f, IF written THEN unsure \cup {b} ELSE unsure)
              [] OTHER ->
                   /\ unsure' = IF written /\ failed THEN unsure \cup {b} ELSE unsure
                   /\ UNCHANGED <<original, pending, writeVars>>
  /\ UNCHANGED <<invalid, toRead, current>>

UpdateCompleteFinished(r, ok) ==
  /\ r.kind = "update"
  /\ queue' = Tail(queue)
  /\ UNCHANGED <<block, failed, memoryVars, original, pending, writeVars, toRead, current, unsure>>

(* The request at the front got its reply, or (ok = FALSE) was refused or lost. *)
Answer ==
  /\ queue # <<>>
  /\ \E ok \in BOOLEAN :
       LET r == Head(queue) IN
       /\ ok /\ r.kind = "write" => written
       /\ ~ok /\ written => Cardinality(unsure) < MaxLost
       /\ \/ AddressSpaceFinished(r, ok)
          \/ AddressSpaceRead(r, ok)
          \/ RangeFinished(r, ok)
          \/ UpdateCompleteFinished(r, ok)
  /\ written' = FALSE
  /\ UNCHANGED <<mem, shown, forceRead, modal>>

-----------------------------------------------------------------------------
Next ==
  \/ \E g \in Groups : OnTreeSelectionChanged(g)
  \/ \E f \in Fields : \E v \in Inputs[f] \cup {NoValue} : FieldEdited(f, v)
  \/ NodeCDIRead
  \/ OnReadAllButtonClicked
  \/ AnswerQuestion
  \/ OnWriteButtonClicked
  \/ \E f \in Fields : ShowFieldContextMenu(f)
  \/ ChooseFromMenu
  \/ \E f \in GraphFields : \E v \in Value(f) : GraphWrites(f, v)
  \/ \E s \in {SpaceOf[f] : f \in GraphFields} : GraphReadsAll(s)
  \/ NodeWrites
  \/ Answer

Spec == Init /\ [][Next]_vars

(* Every request gets an outcome, which MemoryRequests shows of the connection. *)
FairSpec == Spec /\ WF_vars(Answer)

-----------------------------------------------------------------------------
(* The state has its type. *)
Values == AnyValue \cup {NoValue}
Requests ==
  [kind : {"info"}, space : Spaces] \cup [kind : {"read"}, space : Spaces, at : Nat]
    \cup [kind : {"write"}, field : Fields, val : AnyValue] \cup [kind : {"range"}, field : Fields]
    \cup {Update}
Modals == [open : {"menu"}, field : Fields, write : BOOLEAN] \cup {Question, NoModal}

TypeOK ==
  /\ mem \in [Fields -> AnyValue] /\ original \in [Fields -> Values] /\ pending \in [Fields -> Values]
  /\ \A f \in Fields : /\ mem[f] \in Value(f)
                       /\ original[f] \in Value(f) \cup {NoValue}
                       /\ pending[f] \in Value(f) \cup {NoValue}
  /\ queue \in Seq(Requests)
  /\ \A i \in DOMAIN queue : queue[i].kind = "write" => queue[i].val \in Value(queue[i].field)
  /\ block \in Nat \ {0} /\ written \in BOOLEAN /\ failed \in BOOLEAN /\ forceRead \in BOOLEAN
  /\ data \in [Spaces -> Seq(Block)] /\ \A s \in Spaces : Len(data[s]) <= Len(Layout[s])
  /\ invalid \subseteq Spaces \cap BadSpaces
  /\ shown \in Groups \cup {{}} /\ inFlight \subseteq Fields /\ outstanding \in Nat
  /\ toRead \in Seq(Spaces) /\ current \in Spaces \cup {None}
  /\ modal \in Modals
  /\ unsure \subseteq AllBlocks

(* The range at the front writes f, and a block of it was written of which the editor *)
(* has not been told.                                                                  *)
Underway(f) ==
  /\ queue # <<>> /\ Head(queue).kind = "write" /\ Head(queue).field = f
  /\ written \/ (block > 1 /\ ~failed)

(* What the editor compares a change with is what the node has, whoever read or wrote *)
(* it last, in however many requests.  It may differ where the reply to a write was   *)
(* lost, or another block of the same write had failed before.                        *)
ShownIsTrue ==
  \A f \in Fields :
    original[f] # NoValue /\ ~Underway(f) /\ (\A b \in unsure : b[1] # f) =>
      original[f] = Encode[f][mem[f]]

(* "Anything that the node now has is no longer a change": no reply takes a change away *)
(* that the node does not have, unless the user asked to read that value again.         *)
ChangesAreKept ==
  [][Answer => \A f \in Fields :
       pending[f] # NoValue /\ pending'[f] # pending[f] =>
         \/ mem[f] = pending[f] \/ \E b \in unsure' : b[1] = f
         \/ Head(queue).kind = "range" /\ Head(queue).field = f]_vars

(* The buttons wait for nothing but writes that are still to be answered: each write in *)
(* flight is counted once and is in the queue, and has not failed yet.                   *)
InFlightIsQueued ==
  /\ IsFiniteSet(inFlight) /\ outstanding = Cardinality(inFlight)
  /\ \A f \in inFlight : \E i \in DOMAIN queue :
       queue[i].kind = "write" /\ queue[i].field = f /\ (i = 1 => ~failed)

(* The editor can be used again, whoever reads and writes the same memory. *)
BusyEnds == Busy ~> ~Busy
=============================================================================
