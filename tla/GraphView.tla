----------------------------- MODULE GraphView -----------------------------
(***************************************************************************)
(* What the event graph shows of its model (eventgraphwidget.cpp): the tree *)
(* of the groups and pins of every node with the search and the filter, the *)
(* pins or groups at which the lines end, and what the user does with them. *)
(* A view has the groups that are expanded, the filter "only show connected *)
(* events", and the search.                                                 *)
(***************************************************************************)
EXTENDS EventPins, Sequences, SequencesExt

Cdi == INSTANCE CdiDocument

-----------------------------------------------------------------------------
(* EventSearch: a text is a sequence of characters. *)

HexDigits == {"0", "1", "2", "3", "4", "5", "6", "7", "8", "9", "a", "b", "c", "d", "e", "f"}
Occurs(s, t) == \E k \in 0..(Len(t) - Len(s)) : SubSeq(t, k + 1, k + Len(s)) = s

RECURSIVE Trimmed(_)
Trimmed(text) ==
  CASE text # <<>> /\ Head(text) = " " -> Trimmed(Tail(text))
    [] text # <<>> /\ Head(text) # " " /\ Last(text) = " " -> Trimmed(Front(text))
    [] OTHER -> text

(* An event ID is searched for only if there are digits and nothing else. *)
EventSearch(text) ==
  LET hex == SelectSeq(text, LAMBDA c : c \notin {".", " ", ":"})
  IN  [text |-> Trimmed(text), hex |-> IF Range(hex) \subseteq HexDigits THEN hex ELSE <<>>]

(* A pin by its path, or by its event ID if it is known: sixteen digits, or {}. *)
Matches(search, path, digits) ==
  /\ search.text # <<>>
  /\ \/ search.hex # <<>> /\ \E d \in digits : Occurs(search.hex, d)
     \/ Occurs(search.text, path)

-----------------------------------------------------------------------------
(* The rows of a node, and the lines.                                              *)
(* paths[p] is the path of pin p; view.matches are the pins that the search finds. *)

LinkedIn(g) == UNION {{l.from, l.to} : l \in Links(g)}

(* buildPinTree for the pins of a node, which are in the order of their fields. *)
TreeOf(g, n, paths) ==
  LET fields == SetToSortSeq(DOMAIN g.nodes[n].pins, LAMBDA a, b : a < b)
  IN  Cdi!BuildPinTree([k \in DOMAIN fields |-> [groupPath |-> paths[<<n, fields[k]>>]]])
FieldAt(g, n, k) == SetToSortSeq(DOMAIN g.nodes[n].pins, LAMBDA a, b : a < b)[k]
PinsIn(g, n, group) == [k \in DOMAIN group.pins |-> <<n, FieldAt(g, n, group.pins[k])>>]

(* fillGroupInfo: of a group and the groups in it. *)
RECURSIVE Inside(_, _, _)
Inside(g, n, group) ==
  Range(PinsIn(g, n, group)) \cup UNION {Inside(g, n, group.children[k]) : k \in DOMAIN group.children}
LinkedPins(g, n, group) == Inside(g, n, group) \cap LinkedIn(g)
MatchesIn(g, n, group, view) == Inside(g, n, group) \cap view.matches

GroupKey(n, path) == <<n, path>>
Expanded(g, n, group, view) == GroupKey(n, group.path) \in view.expanded \/ MatchesIn(g, n, group, view) # {}

GroupRow(n, group, depth, expanded) ==
  [pin |-> {}, group |-> GroupKey(n, group.path), depth |-> depth, expanded |-> expanded]
PinRow(p, depth) == [pin |-> {p}, group |-> <<>>, depth |-> depth, expanded |-> FALSE]

(* Where a line ends: at a pin, or at the header of a group. *)
Anchor(row) == [pin |-> row.pin, group |-> IF row.pin = {} THEN row.group ELSE <<>>]

(* collectRows: [rows, anchors], where anchors are the ends of lines to pins. *)
RECURSIVE CollectRows(_, _, _, _, _)
CollectRows(g, n, group, depth, view) ==
  LET linked == LinkedPins(g, n, group)
      expanded == Expanded(g, n, group, view)
      header == GroupRow(n, group, depth, expanded)
      isShown(p) == ~view.onlyConnected \/ p \in LinkedIn(g) \/ p \in view.matches
      pins == SelectSeq(PinsIn(g, n, group), isShown)
      children == [k \in DOMAIN group.children |-> CollectRows(g, n, group.children[k], depth + 1, view)]
  IN  CASE view.onlyConnected /\ linked = {} /\ MatchesIn(g, n, group, view) = {} ->
             [rows |-> <<>>, anchors |-> <<>>]
        [] expanded ->
             [rows |-> <<header>> \o [k \in DOMAIN pins |-> PinRow(pins[k], depth + 1)]
                       \o FlattenSeq([k \in DOMAIN children |-> children[k].rows]),
              anchors |-> [k \in DOMAIN pins |-> [pin |-> pins[k], at |-> Anchor(PinRow(pins[k], 0))]]
                          \o FlattenSeq([k \in DOMAIN children |-> children[k].anchors])]
        [] OTHER ->
             [rows |-> <<header>>,
              anchors |-> LET ends == SetToSeq(linked)
                          IN  [k \in DOMAIN ends |-> [pin |-> ends[k], at |-> Anchor(header)]]]

(* drawNode of all nodes. *)
Drawn(g, paths, view) ==
  LET one(n, tree) == [k \in DOMAIN tree |-> CollectRows(g, n, tree[k], 0, view)]
      all == FlattenSeq(LET ns == SetToSeq(DOMAIN g.nodes) IN [k \in DOMAIN ns |-> one(ns[k], TreeOf(g, ns[k], paths))])
  IN  [rows |-> FlattenSeq([k \in DOMAIN all |-> all[k].rows]),
       anchors |-> Range(FlattenSeq([k \in DOMAIN all |-> all[k].anchors]))]

(* drawLinks: not between pins in the same collapsed group. *)
DrawnLinks(g, drawn) ==
  {l \in Links(g) : \E a, b \in drawn.anchors : a.pin = l.from /\ b.pin = l.to /\ a.at # b.at}

-----------------------------------------------------------------------------
(* What the user does.  `writing' are the pins whose change is being written. *)

(* handleCreateLink: from and to are a pin, or {} for the header of a group. *)
CreateLink(g, from, to, writing) ==
  CASE from = {} \/ to = {} -> g
    [] OTHER ->
         LET p == CHOOSE x \in from : TRUE
             q == CHOOSE x \in to : TRUE
         IN  IF {p, q} \cap writing # {} \/ Refusal(g, p, q) # "Ok" THEN g
             ELSE StageWrite(g, Connect(g, p, q))

(* drawLinkMenu: the link may have changed since the menu was opened. *)
UndoLink(g, l) == IF l.pending THEN Unstaged(Unstaged(g, l.from), l.to) ELSE g
ClearEnd(g, end, writing) == IF IsPin(g, end) /\ end \notin writing THEN StageWrite(g, Disconnect(end)) ELSE g

(* drawToolbox: the nodes with matches, one after the other; -1 is none yet. *)
NextMatch(cursor, count) == (cursor + 1) % count
PreviousMatch(cursor, count) == IF cursor <= 0 THEN count - 1 ELSE cursor - 1

(* The numbers that the node editor knows things by: their places in the order in   *)
(* which they were first drawn, from a base for each kind of thing.                  *)
PinId(index, output, base) == base.pin + 2 * index + output
GroupPinId(index, output, base) == base.group + 2 * index + output
LinkId(from, to, base) == base.link + from * base.pins + to
PinForEditorPin(id, base, known) ==
  {index \in 0..(known - 1) : id \in base.pin..(base.link - 1) /\ index = (id - base.pin) \div 2}
=============================================================================
