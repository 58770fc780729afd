------------------------------ MODULE EventPins ------------------------------
(* The event graph of the GUI (eventgraphmodel.cpp): the nodes with their pins,  *)
(* which are the event IDs in a node's memory, what is known of the direction of *)
(* a pin, the changes that are staged, and the links between pins. The operators *)
(* take a graph and give a graph; EventGraphController calls them.               *)
(*                                                                               *)
(* A pin is <<node, field>>, both natural numbers. A field stands for a space, an *)
(* address and the path of labels, and means the same in all nodes of a model.    *)
EXTENDS Integers, FiniteSets

NullEvent == 0      \* NULL_EVENT_ID
NoValue == -1       \* an event ID that has not been read
Events == Nat
Directions == {"Unknown", "Producer", "Consumer"}

(* DirectionSource, in the order of its enumerators. *)
None == 0
Learned == 1
Identified == 2
Observed == 3

PinRecord == [value : Events \cup {NoValue}, direction : Directions, source : None..Observed]

(* EventGraphModel; a node has a model and pins by their fields. *)
Graph(nodes, identified, learned, staged) ==
    [nodes |-> nodes, identified |-> identified, learned |-> learned, staged |-> staged]
Node(model, pins) == [model |-> model, pins |-> pins]
PinIs(value, direction, source) == [value |-> value, direction |-> direction, source |-> source]

(* Functions with one value set, or restricted. *)
Put(f, x, y) == [z \in DOMAIN f \cup {x} |-> IF z = x THEN y ELSE f[z]]
Only(f, S) == [z \in DOMAIN f \cap S |-> f[z]]

IsPin(g, p) == p[1] \in DOMAIN g.nodes /\ p[2] \in DOMAIN g.nodes[p[1]].pins
AllPins(g) == UNION {{<<n, f>> : f \in DOMAIN g.nodes[n].pins} : n \in DOMAIN g.nodes}
PinOf(g, p) == g.nodes[p[1]].pins[p[2]]

-------------------------------------------------------------------------------
(* Directions. `dirs' gives some fields of a node a direction. *)

(* Those that nothing more reliable is known of. *)
Taken(node, dirs, source) == {f \in DOMAIN dirs : source >= node.pins[f].source}

Directed(node, dirs, source) ==
    Node(node.model,
         [f \in DOMAIN node.pins |->
            IF f \in DOMAIN dirs /\ source >= node.pins[f].source
            THEN PinIs(node.pins[f].value, dirs[f], source) ELSE node.pins[f]])

(* Other nodes of the model profit from what was not learned itself. *)
Remembered(learned, node, dirs, source) ==
    LET new == {f \in Taken(node, dirs, source) : dirs[f] # "Unknown"} IN
    IF source > Learned
    THEN [k \in DOMAIN learned \cup {<<node.model, f>> : f \in new} |->
            IF k[1] = node.model /\ k[2] \in new THEN dirs[k[2]] ELSE learned[k]]
    ELSE learned

LearnedDirs(learned, node) ==
    [f \in {f \in DOMAIN node.pins : <<node.model, f>> \in DOMAIN learned} |-> learned[<<node.model, f>>]]

ApplyLearned(learned, node) == Directed(node, LearnedDirs(learned, node), Learned)

(* An event that is in both lists or in none says nothing of a field. *)
IdentifiedDirs(lists, node) ==
    [f \in {f \in DOMAIN node.pins :
              /\ node.pins[f].value \notin {NoValue, NullEvent}
              /\ (node.pins[f].value \in lists.produced) # (node.pins[f].value \in lists.consumed)} |->
        IF node.pins[f].value \in lists.produced THEN "Producer" ELSE "Consumer"]

WithDirs(g, n, dirs, source) ==
    Graph(Put(g.nodes, n, Directed(g.nodes[n], dirs, source)), g.identified,
          Remembered(g.learned, g.nodes[n], dirs, source), g.staged)

ApplyIdentified(g, n) ==
    IF n \in DOMAIN g.identified /\ n \in DOMAIN g.nodes
    THEN LET dirs == IdentifiedDirs(g.identified[n], g.nodes[n]) IN
         WithDirs(g, n, dirs, Identified)
    ELSE g

-------------------------------------------------------------------------------
(* What the controller tells the graph. *)

(* A change to a pin that the node has no more cannot be applied. *)
SetNode(g, n, node) ==
    ApplyIdentified(
        Graph(Put(g.nodes, n, ApplyLearned(g.learned, node)), g.identified, g.learned,
              Only(g.staged, {p \in DOMAIN g.staged : p[1] = n => p[2] \in DOMAIN node.pins})),
        n)

RemoveNode(g, n) ==
    Graph(Only(g.nodes, DOMAIN g.nodes \ {n}), Only(g.identified, DOMAIN g.identified \ {n}),
          g.learned, Only(g.staged, {p \in DOMAIN g.staged : p[1] # n}))

(* The pin was read or written. A staged change to the same event ID is done. *)
SetPinEventId(g, p, e) ==
    IF IsPin(g, p)
    THEN LET node == g.nodes[p[1]]
             pin == PinIs(e, PinOf(g, p).direction, PinOf(g, p).source)
         IN  ApplyIdentified(
                Graph(Put(g.nodes, p[1], Node(node.model, Put(node.pins, p[2], pin))), g.identified, g.learned,
                      Only(g.staged, {q \in DOMAIN g.staged : q # p \/ g.staged[q] # e})),
                p[1])
    ELSE g

SetIdentifiedEvents(g, n, lists) ==
    ApplyIdentified(Graph(g.nodes, Put(g.identified, n, lists), g.learned, g.staged), n)

ObservedDirs(node, e) == [f \in {f \in DOMAIN node.pins : node.pins[f].value = e} |-> "Producer"]

(* A node sent an event: its pins with it, as far as they were read, are producers. *)
EventObserved(g, n, e) ==
    IF n \in DOMAIN g.nodes /\ e # NullEvent
    THEN WithDirs(g, n, ObservedDirs(g.nodes[n], e), Observed)
    ELSE g

(* Saved with the layout of the graph, and loaded before there are nodes. *)
SetLearnedDirections(g, learned) ==
    Graph([n \in DOMAIN g.nodes |-> ApplyLearned(learned, g.nodes[n])], g.identified, learned, g.staged)
SaveAndLoad(learned) == Only(learned, {k \in DOMAIN learned : learned[k] # "Unknown"})

-------------------------------------------------------------------------------
(* Changes that are staged. *)

WithStaged(g, staged) == Graph(g.nodes, g.identified, g.learned, staged)

Unstaged(g, p) == WithStaged(g, Only(g.staged, DOMAIN g.staged \ {p}))
ClearStaged(g) == WithStaged(g, Only(g.staged, {}))

StageEventId(g, p, e) ==
    CASE ~IsPin(g, p) -> g
      [] IsPin(g, p) /\ PinOf(g, p).value = e -> Unstaged(g, p)
      [] OTHER -> WithStaged(g, Put(g.staged, p, e))

(* The event ID that the graph shows. *)
EventId(g, p) ==
    IF p \in DOMAIN g.staged THEN g.staged[p]
    ELSE IF IsPin(g, p) THEN PinOf(g, p).value ELSE NoValue

(* What to write to connect two pins, or why nothing is. *)
Refusal(g, from, to) ==
    CASE ~IsPin(g, from) \/ ~IsPin(g, to) -> "InvalidPin"
      [] IsPin(g, from) /\ IsPin(g, to) /\ from = to -> "SamePin"
      [] OTHER -> IF EventId(g, from) = NoValue \/ EventId(g, to) = NoValue THEN "ValueUnknown"
                  ELSE IF EventId(g, from) # EventId(g, to) THEN "Ok"
                  ELSE IF EventId(g, from) = NullEvent THEN "BothEmpty" ELSE "AlreadyConnected"

CopyFromTo(g, from, to) ==
    \/ EventId(g, from) = NullEvent
    \/ /\ PinOf(g, to).direction = "Producer" /\ PinOf(g, from).direction # "Producer"
       /\ EventId(g, to) # NullEvent

Connect(g, from, to) ==
    IF CopyFromTo(g, from, to) THEN [pin |-> from, event |-> EventId(g, to)]
    ELSE [pin |-> to, event |-> EventId(g, from)]

Disconnect(p) == [pin |-> p, event |-> NullEvent]

(* EventGraphController::stageWrite *)
StageWrite(g, write) == StageEventId(g, write.pin, write.event)

-------------------------------------------------------------------------------
(* Links: pins with the same event ID. *)

Before(p, q) == p[1] < q[1] \/ (p[1] = q[1] /\ p[2] < q[2])
IsFirst(p, S) == p \in S /\ \A q \in S : p = q \/ Before(p, q)
First(S) == CHOOSE p \in S : IsFirst(p, S)

Group(g, e) == {p \in AllPins(g) : EventId(g, p) = e}
ProducersOf(g, S) == {p \in S : PinOf(g, p).direction = "Producer"}
IsStaged(g, p) == p \in DOMAIN g.staged

Link(g, e, p, q, directed) ==
    [event |-> e, from |-> p, to |-> q, directed |-> directed, pending |-> IsStaged(g, p) \/ IsStaged(g, q)]

(* Every producer to everything else; if it is not known who sends the event, or *)
(* everybody does, one pin to everything else.                                   *)
DirectedLinks(g, e, producers, others) ==
    UNION {{Link(g, e, p, q, TRUE) : q \in others} : p \in producers}
HubLinks(g, e, hub, pins) == {Link(g, e, hub, q, FALSE) : q \in pins \ {hub}}

GroupLinks(g, e) ==
    LET pins == Group(g, e)
        producers == ProducersOf(g, pins)
    IN  IF producers \notin {{}, pins}
        THEN DirectedLinks(g, e, producers, pins \ producers)
        ELSE HubLinks(g, e, First(pins), pins)

ShownEvents(g) == {EventId(g, p) : p \in AllPins(g)} \ {NoValue, NullEvent}
Links(g) == UNION {GroupLinks(g, e) : e \in ShownEvents(g)}

LinkCount(g, p) == Cardinality({l \in Links(g) : p \in {l.from, l.to}})

-------------------------------------------------------------------------------
(* What is asked of a graph. *)

IsNode(node) ==
    /\ DOMAIN node.pins \subseteq Nat
    /\ \A f \in DOMAIN node.pins : node.pins[f] \in PinRecord

(* A direction comes from somewhere, and an observed pin is a producer. *)
HasSources(node) ==
    \A f \in DOMAIN node.pins :
        /\ node.pins[f].direction = "Unknown" <=> node.pins[f].source = None
        /\ node.pins[f].source = Observed => node.pins[f].direction = "Producer"

Typed(g) ==
    /\ DOMAIN g.nodes \subseteq Nat
    /\ \A n \in DOMAIN g.nodes : IsNode(g.nodes[n])
    /\ \A p \in DOMAIN g.staged : g.staged[p] \in Events

Sourced(g) == \A n \in DOMAIN g.nodes : HasSources(g.nodes[n])

(* A change is staged for pins of the graph only. *)
StagedArePins(g) == \A p \in DOMAIN g.staged : p = <<p[1], p[2]>> /\ IsPin(g, p)

(* A change that is done is not staged any more. *)
StagedDiffer(g) == \A p \in DOMAIN g.staged : IsPin(g, p) => g.staged[p] # PinOf(g, p).value

(* What other nodes learn is a direction, so that nothing of it is lost in a file. *)
LearnedAreKnown(g) == \A k \in DOMAIN g.learned : g.learned[k] \in {"Producer", "Consumer"}

Sound(g) == Typed(g) /\ Sourced(g) /\ StagedArePins(g) /\ LearnedAreKnown(g)

(* The pins of g that are in h too are known at least as reliably there, and what *)
(* was observed does not change.                                                  *)
KnowsMore(g, h) ==
    \A n \in DOMAIN g.nodes \cap DOMAIN h.nodes :
        \A f \in DOMAIN g.nodes[n].pins \cap DOMAIN h.nodes[n].pins :
            LET old == g.nodes[n].pins[f]
                new == h.nodes[n].pins[f]
            IN  /\ new.source >= old.source
                /\ old.source = Observed => new.direction = old.direction

(* Two pins are linked, or both to a third one. *)
Linked(g, p, q) == \E l \in Links(g) : {l.from, l.to} = {p, q}
Joined(g, p, q) == Linked(g, p, q) \/ \E r \in AllPins(g) : Linked(g, p, r) /\ Linked(g, r, q)
==============================================================================
