---------------------------- MODULE CdiDocument ----------------------------
(***************************************************************************)
(* The description of a node's configuration (CDI) in the GUI: how the XML  *)
(* is read (GUI/lcc/cdi/*type.cpp, segment.cpp, cdi.cpp), where its values  *)
(* are in the memory of the node (cdilayout.cpp, cdivariant.cpp), and the   *)
(* pins that the event graph makes of it (eventgraphmodel.cpp); and how a    *)
(* node of the library writes its own (LCC/lcc-cdi-control.c).               *)
(* An XML document is the sequence of the tokens of QXmlStreamReader.       *)
(* Addresses stay below 2^31.                                               *)
(***************************************************************************)
EXTENDS Integers, Sequences, FiniteSets, SequencesExt, TLC

Start(name, attrs) == [type |-> "start", name |-> name, attrs |-> attrs]
End(name) == [type |-> "end", name |-> name]
(* A text, with the integer that it is, if it is one. *)
Characters(text) == [type |-> "text", text |-> text, int |-> {}]
Digits(n) == [type |-> "text", text |-> ToString(n), int |-> {n}]

-----------------------------------------------------------------------------
(* Reading.  Every element is read by the createFromXML of its class, in the same  *)
(* way: elements that the class knows are read by their own class, the names of    *)
(* others are put on a stack, and a text belongs to the one at the top.            *)

(* What the class of an element knows: the elements that it reads by their own class, *)
(* its texts, its numbers, and its attributes.                                        *)
Class(parts, texts, numbers, attributes) ==
  [parts |-> parts, texts |-> texts, numbers |-> numbers, attributes |-> attributes]

Elements == {"group", "int", "string", "eventid"}
Segment == Class(Elements, {"name", "description"}, {}, {"space", "origin"})
GroupType == Class(Elements, {"name", "description", "repname"}, {}, {"replication", "offset"})
IntType == Class({"map"}, {"name", "description"}, {"min", "max", "default"}, {"size", "offset"})
StringType == Class({}, {"name", "description"}, {}, {"size", "offset"})
EventIDType == Class({}, {"name", "description"}, {}, {"offset"})
Identification == Class({}, {"manufacturer", "model", "hardwareVersion", "softwareVersion"}, {}, {})
MapType == Class({}, {"name", "description"}, {}, {})
Classes == [segment |-> Segment, group |-> GroupType, int |-> IntType, string |-> StringType,
            eventid |-> EventIDType, identification |-> Identification, map |-> MapType]

Get(f, x, default) == IF x \in DOMAIN f THEN f[x] ELSE default
NoRelation == [property |-> Characters(""), value |-> "", description |-> ""]

(* An element as its constructor and its attributes make it; those that are not *)
(* there are 0.                                                                *)
Constructed(kind, attrs) ==
  [kind |-> kind] @@ [a \in Classes[kind].attributes |-> Get(attrs, a, 0)]
                  @@ [t \in Classes[kind].texts |-> ""]
                  @@ [n \in Classes[kind].numbers |-> {}]
                  @@ CASE kind \in {"segment", "group"} -> [elements |-> <<>>]
                       [] kind = "int" -> [map |-> {}]
                       [] kind = "map" -> [relations |-> <<>>]
                       [] OTHER -> <<>>

WithPart(el, part) ==
  IF el.kind = "int" THEN [el EXCEPT !.map = {part}] ELSE [el EXCEPT !.elements = Append(@, part)]

(* MapType: what is in a relation belongs to the relation. *)
MapText(el, stack, relation, token) ==
  LET top == Last(stack)
      inside == Contains(stack, "relation")
  IN  IF top \in {"name", "description"} /\ ~inside
      THEN [el |-> [el EXCEPT ![top] = token.text], relation |-> relation]
      ELSE [el |-> el,
            relation |-> CASE top = "property" -> [relation EXCEPT !.property = token]
                           [] top = "value" -> [relation EXCEPT !.value = token.text]
                           [] top = "description" /\ inside -> [relation EXCEPT !.description = token.text]
                           [] OTHER -> relation]

WithText(el, stack, relation, token) ==
  IF stack = <<>> THEN [el |-> el, relation |-> relation]
  ELSE IF el.kind = "map" THEN MapText(el, stack, relation, token)
  ELSE LET top == Last(stack)
       IN  [relation |-> relation,
            el |-> CASE top \in Classes[el.kind].texts -> [el EXCEPT ![top] = token.text]
                     [] top \in Classes[el.kind].numbers /\ token.int # {} -> [el EXCEPT ![top] = token.int]
                     [] OTHER -> el]

Ended(el, stack, relation) ==
  IF stack # <<>> /\ el.kind = "map" /\ Last(stack) = "relation"
  THEN [el EXCEPT !.relations = Append(@, relation)]
  ELSE el

(* createFromXML: el is what was read of the element before token i.  The document *)
(* may end, or not be well formed, anywhere: then that is all there is.            *)
RECURSIVE Read(_, _, _, _, _)
Read(xml, i, el, stack, relation) ==
  IF i > Len(xml) THEN [el |-> el, next |-> i]
  ELSE LET t == xml[i] IN
       CASE t.type = "end" /\ t.name = el.kind /\ stack = <<>> -> [el |-> el, next |-> i + 1]
         [] t.type = "end" /\ ~(t.name = el.kind /\ stack = <<>>) ->
              Read(xml, i + 1, Ended(el, stack, relation), IF stack = <<>> THEN stack ELSE Front(stack), relation)
         [] t.type = "start" /\ t.name \in Classes[el.kind].parts ->
              LET part == Read(xml, i + 1, Constructed(t.name, t.attrs), <<>>, NoRelation)
              IN  Read(xml, part.next, WithPart(el, part.el), stack, relation)
         [] t.type = "start" /\ t.name \notin Classes[el.kind].parts ->
              Read(xml, i + 1, el, Append(stack, t.name), IF t.name = "relation" THEN NoRelation ELSE relation)
         [] t.type = "text" ->
              LET read == WithText(el, stack, relation, t)
              IN  Read(xml, i + 1, read.el, stack, read.relation)

(* CDI::createFromXML: an element counts wherever it is; the last identification does. *)
RECURSIVE ReadCdi(_, _, _)
ReadCdi(xml, i, cdi) ==
  IF i > Len(xml) THEN cdi
  ELSE IF xml[i].type = "start" /\ xml[i].name \in {"identification", "segment"}
  THEN LET read == Read(xml, i + 1, Constructed(xml[i].name, xml[i].attrs), <<>>, NoRelation)
       IN  ReadCdi(xml, read.next,
                   IF xml[i].name = "segment" THEN [cdi EXCEPT !.segments = Append(@, read.el)]
                   ELSE [cdi EXCEPT !.identification = read.el])
  ELSE ReadCdi(xml, i + 1, cdi)

CreateFromXML(xml) ==
  ReadCdi(xml, 1, [identification |-> Constructed("identification", <<>>), segments |-> <<>>])

-----------------------------------------------------------------------------
(* Where the values are. *)

Replication(group) == IF group.replication > 1 THEN group.replication ELSE 1

RECURSIVE VariantSize(_), ElementsSize(_)
VariantSize(v) ==
  CASE v.kind = "int" -> IF v.size > 0 THEN v.size ELSE 1
    [] v.kind = "string" -> v.size
    [] v.kind = "eventid" -> 8
    [] v.kind = "group" -> Replication(v) * ElementsSize(v.elements)
ElementsSize(elements) ==
  IF elements = <<>> THEN 0
  ELSE Head(elements).offset + VariantSize(Head(elements)) + ElementsSize(Tail(elements))

Label(group, rep) ==
  <<IF group.repname = "" THEN group.name ELSE group.repname, IF Replication(group) > 1 THEN rep ELSE 0>>

(* A group that only pads the storage is not shown. *)
IsPadding(group) == Replication(group) = 1 /\ group.name = "" /\ group.elements = <<>>

LayoutGroup(label, space, address) ==
  [label |-> label, space |-> space, address |-> address, fields |-> <<>>, children |-> <<>>]

RECURSIVE LayoutElements(_, _, _)
LayoutElements(parent, elements, address) ==
  IF elements = <<>> THEN parent
  ELSE
    LET v == Head(elements)
        at == address + v.offset
        size == IF v.kind = "group" THEN ElementsSize(v.elements) ELSE 0
        repetition(rep) ==
          LET start == at + (rep - 1) * size
          IN  LayoutElements(LayoutGroup(Label(v, rep), parent.space, start), v.elements, start)
        with ==
          CASE v.kind # "group" ->
                 [parent EXCEPT !.fields = Append(@, [variant |-> v, space |-> parent.space, address |-> at])]
            [] v.kind = "group" /\ IsPadding(v) -> parent
            [] v.kind = "group" /\ ~IsPadding(v) ->
                 [parent EXCEPT !.children = @ \o [rep \in 1..Replication(v) |-> repetition(rep)]]
    IN  LayoutElements(with, Tail(elements), at + VariantSize(v))

SegmentLabel(s) == IF s.name = "" THEN <<"Space", s.space>> ELSE <<s.name, 0>>

CdiLayout(cdi) ==
  [k \in DOMAIN cdi.segments |->
     LET s == cdi.segments[k]
     IN  LayoutElements(LayoutGroup(SegmentLabel(s), s.space, s.origin), s.elements, s.origin)]

(* cdiForEachField: the values of a group before those of the groups in it. *)
RECURSIVE FieldsWithPath(_, _)
FieldsWithPath(groups, path) ==
  FlattenSeq([k \in DOMAIN groups |->
    LET here == Append(path, groups[k].label)
    IN  [i \in DOMAIN groups[k].fields |-> [field |-> groups[k].fields[i], path |-> here]]
        \o FieldsWithPath(groups[k].children, here)])
AllFields(layout) == FieldsWithPath(layout, <<>>)

-----------------------------------------------------------------------------
(* The pins of the event graph. *)

EventPinsFromLayout(layout) ==
  LET isEvent(f) == f.field.variant.kind = "eventid"
      events == SelectSeq(AllFields(layout), isEvent)
  IN  [k \in DOMAIN events |-> [space |-> events[k].field.space, address |-> events[k].field.address,
                                label |-> events[k].field.variant.name, groupPath |-> events[k].path]]

PinTreeGroup(path) == [path |-> path, totalPins |-> 0, children |-> <<>>, pins |-> <<>>]

(* buildPinTree: one pin goes down from its group's depth-th ancestor, into the last *)
(* group with the label.                                                            *)
RECURSIVE PutPin(_, _, _, _)
PutPin(group, pin, index, depth) ==
  LET counted == [group EXCEPT !.totalPins = @ + 1]
  IN  IF depth > Len(pin.groupPath) THEN [counted EXCEPT !.pins = Append(@, index)]
      ELSE
        LET path == SubSeq(pin.groupPath, 1, depth)
            same == {k \in DOMAIN group.children : Last(group.children[k].path) = Last(path)}
            children == IF same = {} THEN Append(group.children, PinTreeGroup(path)) ELSE group.children
            at == IF same = {} THEN Len(children) ELSE CHOOSE k \in same : \A j \in same : j <= k
        IN  [counted EXCEPT !.children = [children EXCEPT ![at] = PutPin(@, pin, index, depth + 1)]]

BuildPinTree(pins) ==
  LET put(root, k) == PutPin(root, pins[k], k, 1)
  IN  FoldLeft(put, PinTreeGroup(<<>>), [k \in DOMAIN pins |-> k]).children

-----------------------------------------------------------------------------
(* Documents for TLC: two levels of groups, with replication, offsets and padding. *)

Integer(size, offset) == [Constructed("int", <<>>) EXCEPT !.size = size, !.offset = offset, !.name = "i"]
EventId(offset) == [Constructed("eventid", <<>>) EXCEPT !.offset = offset, !.name = "e"]
GroupOf(name, rep, offset, elements) ==
  [Constructed("group", <<>>) EXCEPT !.name = name, !.replication = rep, !.offset = offset, !.elements = elements]
SomeElements == {Integer(0, 0), Integer(2, 3), EventId(0), EventId(1)}
Inner == {GroupOf("g", rep, 1, es) : rep \in {0, 2}, es \in {<<e>> : e \in SomeElements} \cup {<<Integer(2, 0), EventId(1)>>}}
         \cup {GroupOf("", 1, 5, <<>>), GroupOf("pad", 2, 1, <<>>)}
Outer == {GroupOf("o", rep, 2, <<a, b>>) : rep \in {1, 3}, a \in Inner, b \in {Integer(2, 3), EventId(1)}}
Document(elements) ==
  [identification |-> [Constructed("identification", <<>>) EXCEPT !.model = "m"],
   segments |-> <<[Constructed("segment", <<>>) EXCEPT !.space = 253, !.origin = 100, !.elements = elements]>>]
Documents == {Document(<<EventId(0), b>>) : b \in Outer} \cup {Document(<<b, a>>) : a \in Inner, b \in Inner}

(* What a document looks like without groups: a gap (TRUE), or a value, and its size. *)
RECURSIVE Unrolled(_)
Unrolled(elements) ==
  IF elements = <<>> THEN <<>>
  ELSE LET v == Head(elements)
           one == IF v.kind = "group" THEN FlattenSeq([rep \in 1..Replication(v) |-> Unrolled(v.elements)])
                  ELSE <<[gap |-> FALSE, size |-> VariantSize(v), kind |-> v.kind]>>
       IN  <<[gap |-> TRUE, size |-> v.offset, kind |-> ""]>> \o one \o Unrolled(Tail(elements))
RECURSIVE Placed(_, _)
Placed(list, at) ==
  IF list = <<>> THEN {}
  ELSE (IF Head(list).gap THEN {} ELSE {<<at, Head(list).kind>>}) \cup Placed(Tail(list), at + Head(list).size)

(* cdilayout.h: a value is where the values, gaps and repetitions before it end. *)
ASSUME LayoutIsUnrolled ==
  \A d \in Documents :
    LET fields == AllFields(CdiLayout(d))
        s == d.segments[1]
    IN  /\ {<<fields[k].field.address, fields[k].field.variant.kind>> : k \in DOMAIN fields}
             = Placed(Unrolled(s.elements), s.origin)
        /\ Len(fields) = Cardinality(Placed(Unrolled(s.elements), s.origin))

(* What is written as XML, also with elements that nobody knows in between. *)
RECURSIVE Written(_)
Written(el) ==
  LET attrs == [a \in Classes[el.kind].attributes |-> el[a]]
      inTag(t) == <<Start(t, <<>>), Characters(el[t]), End(t)>>
      unknown == <<Start("hints", <<>>), Characters("x"), Start("name2", <<>>), End("name2"), End("hints")>>
      texts == FlattenSeq([k \in DOMAIN SetToSeq(Classes[el.kind].texts) |-> inTag(SetToSeq(Classes[el.kind].texts)[k])])
      parts == IF el.kind \in {"segment", "group"}
               THEN FlattenSeq([k \in DOMAIN el.elements |-> Written(el.elements[k])]) ELSE <<>>
  IN  <<Start(el.kind, attrs)>> \o texts \o unknown \o parts \o <<End(el.kind)>>
WrittenCdi(d) ==
  <<Start("cdi", <<>>)>> \o Written(d.identification)
  \o FlattenSeq([k \in DOMAIN d.segments |-> Written(d.segments[k])]) \o <<End("cdi")>>

(* createFromXML reads what was written, whatever it does not know is in between. *)
ASSUME ReadIsWritten == \A d \in Documents : CreateFromXML(WrittenCdi(d)) = d

(* MapType: the relations, in their order, and neither their names nor texts mixed. *)
ASSUME MapIsRead ==
  LET relation(p, v) == <<Start("relation", <<>>), Start("property", <<>>), p, End("property"),
                          Start("value", <<>>), Characters(v), End("value"), End("relation")>>
      xml == <<Start("int", [size |-> 1])>>
             \o <<Start("map", <<>>), Start("name", <<>>), Characters("n"), End("name")>>
             \o relation(Digits(1), "on") \o relation(Characters("0x2"), "off") \o <<End("map")>>
             \o <<Start("max", <<>>), Digits(7), End("max"), Start("min", <<>>), Characters("x"), End("min")>>
             \o <<End("int")>>
      i == Read(xml, 2, Constructed("int", xml[1].attrs), <<>>, NoRelation).el
  IN  /\ i.max = {7} /\ i.min = {} /\ i.name = "" /\ i.size = 1
      /\ \E m \in i.map : /\ m.name = "n" /\ Len(m.relations) = 2
                          /\ m.relations[1].property = Digits(1) /\ m.relations[1].value = "on"
                          /\ m.relations[2].property = Characters("0x2") /\ m.relations[2].value = "off"

RECURSIVE GroupsOf(_)
GroupsOf(groups) == Range(groups) \cup UNION {GroupsOf(groups[k].children) : k \in DOMAIN groups}

(* buildPinTree: every pin is in one group, that of its path, and the totals are right. *)
ASSUME EveryPinHasItsGroup ==
  \A d \in Documents :
    LET pins == EventPinsFromLayout(CdiLayout(d))
        groups == GroupsOf(BuildPinTree(pins))
    IN  /\ \A k \in DOMAIN pins : \E g \in groups :
             /\ k \in Range(g.pins) /\ g.path = pins[k].groupPath
             /\ \A h \in groups \ {g} : k \notin Range(h.pins)
        /\ \A g \in groups : g.totalPins = Cardinality({k \in DOMAIN pins : IsPrefix(g.path, pins[k].groupPath)})

-----------------------------------------------------------------------------
(* How a node writes its CDI (lcc-cdi-control.c).  What may be NULL is a set.  The *)
(* relations of an input are not here: the loop over them does not end.           *)

Tagged(tag, texts) == <<Start(tag, <<>>)>> \o texts \o <<End(tag)>>
Optional(tag, value) == FlattenSeq([k \in 1..Cardinality(value) |-> Tagged(tag, <<Characters(CHOOSE v \in value : TRUE)>>)])
OptionalNumber(tag, n) == IF n # 0 THEN Tagged(tag, <<Digits(n)>>) ELSE <<>>

OutputInput(input) ==
  LET attrs == IF input.size = 0 THEN <<>>
               ELSE [size |-> input.size] @@ IF input.offset # 0 THEN [offset |-> input.offset] ELSE <<>>
  IN  <<Start(input.input_type, attrs)>> \o Tagged("name", <<Characters(input.name)>>)
      \o Optional("description", input.description)
      \o OptionalNumber("min", input.min) \o OptionalNumber("max", input.max) \o <<End(input.input_type)>>
OutputInputs(inputs) == FlattenSeq([k \in DOMAIN inputs |-> OutputInput(inputs[k])])

OutputGroup(group) ==
  LET attrs == IF group.offset # 0 \/ group.replication # 0
               THEN [offset |-> group.offset, replication |-> group.replication] ELSE <<>>
  IN  <<Start("group", attrs)>> \o Tagged("name", <<Characters(group.name)>>)
      \o Optional("repname", group.repname) \o OutputInputs(group.inputs) \o <<End("group")>>

(* lcc_cdi_control_to_xml: in a segment the groups come before the inputs. *)
ControlToXml(control) ==
  LET segment(s) == <<Start("segment", [space |-> s.segment_space])>> \o Tagged("name", <<Characters(s.segment_name)>>)
                    \o FlattenSeq([k \in DOMAIN s.groups |-> OutputGroup(s.groups[k])])
                    \o OutputInputs(s.inputs) \o <<End("segment")>>
      info(i) == FlattenSeq([k \in 1..4 |->
                   Tagged(<<"manufacturer", "model", "hardwareVersion", "softwareVersion">>[k], <<Characters(i[k])>>)])
  IN  <<Start("cdi", <<>>)>>
      \o FlattenSeq([k \in 1..Cardinality(control.simple_info) |->
                       Tagged("identification", info(CHOOSE i \in control.simple_info : TRUE))])
      \o FlattenSeq([k \in DOMAIN control.segments |-> segment(control.segments[k])]) \o <<End("cdi")>>

(* The text goes to the callback in pieces of the buffer's size; the last may be shorter. *)
AppendChar(size, out, char) ==
  IF Len(out.buffer) + 1 >= size THEN [pieces |-> Append(out.pieces, Append(out.buffer, char)), buffer |-> <<>>]
  ELSE [out EXCEPT !.buffer = Append(@, char)]
Pieces(size, text) ==
  LET append(out, char) == AppendChar(size, out, char)
      out == FoldLeft(append, [pieces |-> <<>>, buffer |-> <<>>], text)
  IN  IF out.buffer = <<>> THEN out.pieces ELSE Append(out.pieces, out.buffer)
XmlLength(size, text) == FoldLeft(LAMBDA n, piece : n + Len(piece), 0, Pieces(size, text))
(* lcc_cdi_control_to_xml_at_offset: the piece that starts at the offset, if one does. *)
XmlAtOffset(size, text, offset) ==
  LET pieces == Pieces(size, text)
      before(k) == FoldLeft(LAMBDA n, piece : n + Len(piece), 0, SubSeq(pieces, 1, k - 1))
  IN  {pieces[k] : k \in {j \in DOMAIN pieces : before(j) = offset}}

(* lcc-cdi-control.h: a reader that asks for the text buffer by buffer, up to the length *)
(* it is told, gets the whole text.                                                      *)
ASSUME PiecesAreTheText ==
  \A size \in {1, 3, 4}, length \in 0..13 :
    LET letters == [k \in 1..length |-> k]
        at(k) == CHOOSE piece \in XmlAtOffset(size, letters, (k - 1) * size) : TRUE
    IN  /\ XmlLength(size, letters) = length
        /\ FlattenSeq([k \in 1..((length + size - 1) \div size) |-> at(k)]) = letters

ControlInputs == [name : {"i"}, description : {{}, {"d"}}, min : {0, 3}, max : {0, 9},
           input_type : {"int", "string", "eventid"}, size : {0, 2}, offset : {0, 5}]
InputGroups == [name : {"g"}, repname : {{}, {"r"}}, replication : {0, 3}, offset : {0, 4}, 
                inputs : {<<>>} \cup {<<i, i>> : i \in ControlInputs}]

(* What the GUI reads of an input, of a group: an offset without a size was not written. *)
InputRead(input) ==
  LET optional(set) == IF set = {} THEN "" ELSE CHOOSE x \in set : TRUE
      number(n) == IF n = 0 THEN {} ELSE {n}
      el == Constructed(input.input_type, <<>>)
      value(a) == CASE a = "name" -> input.name
                    [] a = "description" -> optional(input.description)
                    [] a = "offset" -> IF input.size = 0 THEN 0 ELSE input.offset
                    [] a = "size" -> input.size
                    [] a = "min" -> number(input.min)
                    [] a = "max" -> number(input.max)
                    [] OTHER -> el[a]
  IN  [a \in DOMAIN el |-> value(a)]
GroupRead(group) ==
  [Constructed("group", <<>>) EXCEPT !.name = group.name, !.repname = IF group.repname = {} THEN "" ELSE "r",
     !.replication = group.replication, !.offset = group.offset,
     !.elements = [k \in DOMAIN group.inputs |-> InputRead(group.inputs[k])]]

(* createFromXML reads of the CDI of a node of the library what the node's tables say, *)
(* groups before inputs, the offset of an input without a size excepted.               *)
ASSUME ControlIsRead ==
  \A g \in InputGroups, i \in {j \in ControlInputs : j.description = {"d"} /\ j.min + j.max = 3 /\ j.size = 0}, info \in {{}, {<<"a", "b", "c", "d">>}} :
    LET xml == ControlToXml([simple_info |-> info,
                             segments |-> <<[segment_space |-> 1, segment_name |-> "s", groups |-> <<g, g>>, inputs |-> <<i>>]>>])
        read == CreateFromXML(xml)
    IN  /\ read.segments = <<[Constructed("segment", <<>>) EXCEPT !.space = 1, !.name = "s",
                                 !.elements = <<GroupRead(g), GroupRead(g), InputRead(i)>>]>>
        /\ read.identification.softwareVersion = IF info = {} THEN "" ELSE "d"
=============================================================================
