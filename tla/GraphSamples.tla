---------------------------- MODULE GraphSamples ----------------------------
(* Small graphs on which TLC evaluates what EventPinsProof proves for all graphs. *)
EXTENDS Integers

P == INSTANCE EventPins
V == INSTANCE GraphView

Partly(S, T) == UNION {[D -> T] : D \in SUBSET S}

(* Two nodes with three pins. *)
PinSamples == {P!PinIs(v, d[1], d[2]) : v \in {-1, 0, 1}, d \in {<<"Unknown", 0>>, <<"Producer", 1>>}}
GraphOf(pins, staged) ==
    P!Graph([n \in 1..2 |-> P!Node("m", [f \in 1..n |-> pins[n + f - 1]])], <<>>, <<>>, staged)
GraphSamples == {GraphOf(pins, staged) : pins \in [1..3 -> PinSamples],
                                         staged \in Partly({<<1, 1>>, <<2, 1>>, <<2, 2>>}, {0, 1})}

(* EventGraphModel::links: two pins of one event ID are joined, others are not. *)
ASSUME LinksOnSamples ==
    \A g \in GraphSamples :
        /\ \A l \in P!Links(g) : /\ l.from # l.to /\ l.event > 0
                                 /\ P!EventId(g, l.from) = l.event /\ P!EventId(g, l.to) = l.event
        /\ \A p, q \in P!AllPins(g) :
              p # q /\ P!EventId(g, p) = P!EventId(g, q) /\ P!EventId(g, p) > 0 => P!Joined(g, p, q)

(* EventGraphModel::connect: both pins show the same event ID, no other staged. *)
ASSUME ConnectOnSamples ==
    \A g \in GraphSamples : \A p, q \in P!AllPins(g) :
        P!Refusal(g, p, q) = "Ok" =>
            LET write == P!Connect(g, p, q)
                h == P!StageWrite(g, write)
            IN  /\ write.pin \in {p, q}
                /\ P!EventId(h, p) = P!EventId(h, q) /\ P!EventId(h, p) > 0
                /\ \A r \in P!AllPins(g) \ {write.pin} : P!EventId(h, r) = P!EventId(g, r)

(* Up to two nodes of the same model with a pin each. *)
OnePin == {P!PinIs(v, d[1], d[2]) : v \in {-1, 0, 1},
              d \in {<<"Unknown", 0>>, <<"Consumer", 1>>, <<"Producer", 2>>, <<"Producer", 3>>}}
EventLists == [produced : SUBSET {1}, consumed : SUBSET {1}]
LearnedSamples == Partly({<<"m", 1>>}, {"Producer", "Consumer"})
DirectionSamples ==
    {P!Graph([n \in nodes |-> P!Node("m", <<pins[n]>>)], identified, learned, staged) :
        nodes \in SUBSET {1, 2}, pins \in [1..2 -> OnePin], identified \in Partly({1}, EventLists),
        learned \in LearnedSamples, staged \in Partly({<<1, 1>>}, {0, 1})}

Results(g) ==
    {P!SetPinEventId(g, p, e) : p \in {<<1, 1>>, <<2, 1>>}, e \in {0, 1}}
      \cup {P!StageEventId(g, p, e) : p \in {<<1, 1>>, <<2, 1>>}, e \in {0, 1}}
      \cup {P!SetIdentifiedEvents(g, n, l) : n \in 1..2, l \in EventLists}
      \cup {P!EventObserved(g, n, e) : n \in 1..2, e \in {0, 1}}
      \cup {P!SetLearnedDirections(g, learned) : learned \in LearnedSamples}
      \cup {P!RemoveNode(g, n) : n \in 1..2} \cup {P!Unstaged(g, <<1, 1>>), P!ClearStaged(g)}

(* The operations keep a graph sound and never know less of a direction. *)
ASSUME OperationsOnSamples ==
    \A g \in DirectionSamples : P!Sound(g) =>
        /\ \A h \in Results(g) :
              P!Sound(h) /\ P!KnowsMore(g, h) /\ (P!StagedDiffer(g) => P!StagedDiffer(h))
        /\ \A n \in 1..2, pin \in OnePin : P!Sound(P!SetNode(g, n, P!Node("m", <<pin>>)))

(* What is learned is the same when it has been saved and loaded. *)
ASSUME LearnedIsSaved == \A learned \in LearnedSamples : P!SaveAndLoad(learned) = learned
-------------------------------------------------------------------------------
(* Views of a node with two pins in a group of a group, and one with a pin. *)
Paths == [p \in {<<1, 1>>, <<1, 2>>, <<1, 3>>, <<2, 1>>} |->
            CASE p = <<1, 3>> -> <<"A">> [] p = <<2, 1>> -> <<"C">> [] OTHER -> <<"A", "B">>]
ViewPins == {P!PinIs(v, "Unknown", 0) : v \in {1, 2}}
ViewGraphs ==
    {P!Graph([n \in 1..2 |-> P!Node("m", [f \in 1..(IF n = 1 THEN 3 ELSE 1) |-> pins[n + f - 1 + (IF n = 2 THEN 2 ELSE 0)]])],
             <<>>, <<>>, <<>>) : pins \in [1..4 -> ViewPins]}
Views == [expanded : SUBSET {<<1, <<"A">>>>, <<1, <<"A", "B">>>>, <<2, <<"C">>>>},
          matches : {{}, {<<1, 1>>}, {<<1, 3>>, <<2, 1>>}}, onlyConnected : BOOLEAN]
CollapsedAround(p, drawn) ==
    {r.group : r \in {r \in V!Range(drawn.rows) :
        /\ r.pin = {} /\ ~r.expanded
        /\ r.group[1] = p[1] /\ V!IsPrefix(r.group[2], Paths[p])}}

(* EventGraphWidget::drawLinks and collectRows: every link is drawn, whatever is      *)
(* collapsed, searched or left out, except within one collapsed group; it ends at     *)
(* rows that are there, and what the search finds is there.                           *)
ASSUME EveryLinkIsDrawn ==
    \A g \in ViewGraphs : \A view \in Views :
        LET drawn == V!Drawn(g, Paths, view)
            rows == V!Range(drawn.rows)
        IN  /\ \A l \in P!Links(g) \ V!DrawnLinks(g, drawn) :
                  CollapsedAround(l.from, drawn) # {} /\ CollapsedAround(l.from, drawn) = CollapsedAround(l.to, drawn)
            /\ \A a \in drawn.anchors : \E r \in rows : a.at = V!Anchor(r)
            /\ \A p \in view.matches : \E r \in rows : r.pin = {p}
            /\ view.onlyConnected => \A r \in rows : r.pin \subseteq V!LinkedIn(g) \cup view.matches

(* Clearing one end as the menu says takes exactly the links of that end away. *)
ASSUME ClearingDisconnects ==
    \A g \in ViewGraphs : \A p \in P!AllPins(g) :
        LET h == V!ClearEnd(g, p, {})
        IN  /\ P!LinkCount(h, p) = 0 /\ V!ClearEnd(g, p, {p}) = g
            /\ \A q, r \in P!AllPins(g) \ {p} : P!EventId(h, q) = P!EventId(g, q)

(* EventSearch: an event ID is found by a part of it, with or without dots. *)
ASSUME SearchFinds ==
    LET digits == <<"0", "1", "a", "2">> IN
    /\ V!Matches(V!EventSearch(<<" ", "1", ".", "a">>), <<"x">>, {digits})
    /\ ~V!Matches(V!EventSearch(<<" ", "1", ".", "b">>), <<"x">>, {digits})
    /\ ~V!Matches(V!EventSearch(<<"x", "1">>), <<"1", "x">>, {digits})
    /\ V!Matches(V!EventSearch(<<"x", "1", " ">>), <<"a", "x", "1">>, {})
    /\ ~V!Matches(V!EventSearch(<<" ">>), <<" ">>, {digits})

(* Steps through the matches come to all of them, and back. *)
ASSUME MatchesInTurn ==
    \A count \in 1..4 : \A cursor \in -1..(count - 1) :
        /\ V!NextMatch(cursor, count) \in 0..(count - 1)
        /\ V!PreviousMatch(cursor, count) \in 0..(count - 1)
        /\ cursor >= 0 => V!PreviousMatch(V!NextMatch(cursor, count), count) = cursor

(* The node editor's numbers (2^20 pins at most in the code, 8 here): a pin is known *)
(* by its two, which no link, group or other pin has.                                *)
ASSUME EditorIdsDiffer ==
    LET base == [pin |-> 256, link |-> 512, group |-> 768, pins |-> 8]
        known == 0..7
        links == {V!LinkId(a, b, base) : a \in known, b \in known}
        groups == {V!GroupPinId(k, o, base) : k \in known, o \in 0..1}
    IN  /\ \A k \in known, o \in 0..1 : V!PinForEditorPin(V!PinId(k, o, base), base, 8) = {k}
        /\ \A id \in links \cup groups : V!PinForEditorPin(id, base, 8) = {}
        /\ links \cap groups = {}
        /\ \A a, b, c, d \in known : V!LinkId(a, b, base) = V!LinkId(c, d, base) => a = c /\ b = d

(* handleCreateLink and the link menu: a line is drawn only between two pins that are  *)
(* not being written, and undoing any line that it changed takes the whole of it back. *)
ASSUME UndoReverts ==
    \A g \in ViewGraphs : \A p, q \in P!AllPins(g) :
        LET h == V!CreateLink(g, {p}, {q}, {}) IN
        /\ \A writing \in {{p}, {q}} : V!CreateLink(g, {p}, {q}, writing) = g
        /\ V!CreateLink(g, {}, {q}, {}) = g
        /\ h # g => \E l \in P!Links(h) : l.pending
        /\ \A l \in P!Links(h) : l.pending => V!UndoLink(h, l) = g
=============================================================================
