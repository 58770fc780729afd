----------------------------- MODULE BusFormats -----------------------------
(***************************************************************************)
(* What the library puts into the bytes of its buses, and reads from them:  *)
(* the GridConnect text of a CAN adapter (lcc-gridconnect.c), the fields of *)
(* CAN ids and data (lcc-common-internal.c, lcc-common.h), simple node      *)
(* information (lcc.c, lcc-simple-node-info.c, lcc-addressed.c,              *)
(* lcc-network-info.c), the segments of a memory map (lcc-memory-map.c) and *)
(* the packets of DCC (dcc-packet-parser.c).                                *)
(* Operators, and what TLC evaluates of them: nothing here has a next state. *)
(***************************************************************************)
EXTENDS Integers, Sequences, FiniteSets, SequencesExt, TLC

-----------------------------------------------------------------------------
(* GridConnect.  A text is a sequence of characters; a CAN id is the sequence of its *)
(* hexadecimal digits, a byte its value.                                             *)

Hex == <<"0", "1", "2", "3", "4", "5", "6", "7", "8", "9", "A", "B", "C", "D", "E", "F">>
HexValue == [c \in ToSet(Hex) |-> (CHOOSE k \in DOMAIN Hex : Hex[k] = c) - 1]
HexPrefix(text) == SubSeq(text, 1, CHOOSE n \in 0..Len(text) : /\ ToSet(SubSeq(text, 1, n)) \subseteq ToSet(Hex)
                                                               /\ n < Len(text) => text[n + 1] \notin ToSet(Hex))

(* strtol(text, NULL, 16), with the digits that uint32_t keeps. *)
Strtol(text) ==
  LET prefixed == Len(text) > 2 /\ text[1] = "0" /\ text[2] = "X" /\ text[3] \in ToSet(Hex)
      digits == HexPrefix(IF prefixed THEN SubSeq(text, 3, Len(text)) ELSE text)
      kept == SubSeq(digits, Len(digits) - (IF Len(digits) < 8 THEN Len(digits) ELSE 8) + 1, Len(digits))
      zeros == CHOOSE n \in 0..Len(kept) : /\ ToSet(SubSeq(kept, 1, n)) \subseteq {"0"}
                                           /\ n < Len(kept) => kept[n + 1] # "0"
  IN  SubSeq(kept, zeros + 1, Len(kept))
ByteOf(two) == FoldLeft(LAMBDA n, c : 16 * n + HexValue[c], 0, Strtol(two))

CanFrame(id, data) == [can_id |-> id, data |-> data]

CanFrameToGridConnect(frame) ==
  <<":", "X">> \o (IF frame.can_id = <<>> THEN <<"0">> ELSE frame.can_id) \o <<"N">>
  \o FlattenSeq([k \in DOMAIN frame.data |-> <<Hex[frame.data[k] \div 16 + 1], Hex[(frame.data[k] % 16) + 1]>>])
  \o <<";">>

(* lcc_gridconnect_to_canframe: of the text at the start of a buffer, in which older text *)
(* may come behind the end.  The id is what stands before N, or the first 11 characters.  *)
GridConnectToCanFrame(ascii) ==
  LET idLen == CHOOSE n \in 0..11 : /\ \A k \in 3..(2 + n) : ascii[k] # "N"
                                    /\ n = 11 \/ ascii[3 + n] = "N"
      from == 4 + idLen
      count == CHOOSE n \in 0..8 : /\ \A k \in 0..(n - 1) : ascii[from + 2 * k] # ";"
                                   /\ n = 8 \/ ascii[from + 2 * n] = ";"
  IN  CanFrame(Strtol(SubSeq(ascii, 3, 2 + idLen)),
               [k \in 1..count |-> ByteOf(SubSeq(ascii, from + 2 * (k - 1), from + 2 * k - 1))])

(* struct lcc_gridconnect, and what frame_parsed was called with; "" is NUL.  pos is the *)
(* number of characters that were received of a frame.                                   *)
GridConnect(size) == [buffer |-> [k \in 1..size |-> ""], pos |-> 0, discard |-> TRUE, parsed |-> <<>>]

(* One character.  A text begins with ':' whatever it is, as all before it is discarded. *)
TakeCharacter(gc, c) ==
  LET size == Len(gc.buffer)
      written == IF c = ";" THEN <<c, "">> ELSE <<c>>
      rest == SubSeq(gc.buffer, gc.pos + Len(written) + 1, size)
      stored == [gc EXCEPT !.buffer = SubSeq(SubSeq(@, 1, gc.pos) \o written \o rest, 1, size),
                           !.discard = FALSE, !.pos = @ + 1]
  IN  IF gc.discard /\ c # ":" THEN gc
      ELSE IF c = ";" THEN [stored EXCEPT !.parsed = Append(@, GridConnectToCanFrame(stored.buffer)),
                                          !.pos = 0, !.discard = TRUE]
      ELSE IF stored.pos >= size THEN [stored EXCEPT !.pos = 0, !.discard = TRUE]
      ELSE stored

(* lcc_gridconnect_incoming_data: what came at once. *)
IncomingText(gc, text) ==
  IF gc.pos = 0 THEN FoldLeft(TakeCharacter, [gc EXCEPT !.discard = TRUE], text)
  ELSE FoldLeft(TakeCharacter, [gc EXCEPT !.discard = FALSE], text)
Incoming(size, texts) == FoldLeft(IncomingText, GridConnect(size), texts).parsed

CanFrames == {CanFrame(id, data) : id \in {<<>>, <<"1">>, <<"1", "9", "0", "A", "0", "F", "F", "E">>},
                                   data \in {[k \in 1..n |-> (37 * k + n) % 256] : n \in 0..8} \cup {<<0, 255, 16, 1>>}}

(* Every frame is read as it was written. *)
ASSUME FramesAreRead ==
  \A f \in CanFrames : Incoming(128, <<CanFrameToGridConnect(f)>>) = <<f>>

SomeFrames == <<CanFrame(<<"1", "9">>, <<1, 254>>), CanFrame(<<"A">>, <<>>), CanFrame(<<"C", "0">>, <<7, 80, 9>>),
                CanFrame(<<"D">>, <<0>>)>>
SomeTexts == [k \in DOMAIN SomeFrames |-> CanFrameToGridConnect(SomeFrames[k])]

(* It does not matter how the text comes in pieces, with line ends between the frames. *)
ASSUME PiecesDoNotMatter ==
  LET text == FlattenSeq([k \in DOMAIN SomeTexts |-> Append(SomeTexts[k], "\n")])
  IN  /\ Incoming(128, [k \in DOMAIN text |-> <<text[k]>>]) = SomeFrames
      /\ \A i \in 0..Len(text) : Incoming(128, <<SubSeq(text, 1, i), SubSeq(text, i + 1, Len(text))>>) = SomeFrames

(* A lost or a wrong character costs the frame that it is of, and with a lost ';' the one *)
(* behind it; all others are read.                                                        *)
ASSUME DamageIsLocal ==
  \A k \in DOMAIN SomeTexts, x \in {<<>>, <<"N">>, <<";">>, <<":">>, <<"F">>} : \A i \in DOMAIN SomeTexts[k] :
    LET damaged == SubSeq(SomeTexts[k], 1, i - 1) \o x \o SubSeq(SomeTexts[k], i + 1, Len(SomeTexts[k]))
        parsed == Incoming(128, [SomeTexts EXCEPT ![k] = damaged])
    IN  /\ IsPrefix(SubSeq(SomeFrames, 1, k - 1), parsed)
        /\ IsSuffix(SubSeq(SomeFrames, k + 2, Len(SomeFrames)), parsed)

(* A text without an end is given up when the buffer is full: the frames behind it are *)
(* read, the first of them too if the buffer was full before it began.                 *)
ASSUME FullBufferIsLeft ==
  \A n \in 21..36 :
    LET parsed == Incoming(32, <<<<":">> \o [k \in 1..n |-> "1"]>> \o SomeTexts)
    IN  IsSuffix(IF n < 31 THEN Tail(SomeFrames) ELSE SomeFrames, parsed)

-----------------------------------------------------------------------------
(* Numbers in the data of a frame, the most significant part first. *)

Power(base, n) == FoldLeft(LAMBDA p, k : p * base, 1, [k \in 1..n |-> k])
ToData(base, count, number) == [k \in 1..count |-> (number \div Power(base, count - k)) % base]
FromData(base, data) == FoldLeft(LAMBDA n, d : n * base + d, 0, data)
(* lcc_node_id_to_dotted_format, of an id of six bytes. *)
Dotted(id) == FlattenSeq([k \in 1..6 |-> <<Hex[id[k] \div 16 + 1], Hex[(id[k] % 16) + 1]>> \o IF k < 6 THEN <<".">> ELSE <<>>])

(* Node ids, event ids and addresses are read as they were written (here with digits *)
(* of two bits in the place of bytes).                                               *)
ASSUME NumbersAreRead ==
  \A count \in {4, 6} : \A number \in 0..(Power(4, count) - 1) : FromData(4, ToData(4, count, number)) = number

(* The CAN id. *)
Bit(n) == Power(2, n)
HasBit(number, n) == (number \div Bit(n)) % 2 = 1
SetVariableField(alias, field) == Bit(28) + Bit(27) + field * Bit(12) + (alias % 4096)
SetCanFrameType(id, type) == id + type * Bit(24)
Mti(id) == (id \div Bit(12)) % 4096
Sender(id) == id % 4096
CanFrameType(id) == (id \div Bit(24)) % 8
IsControl(id) == ~HasBit(id, 27)
IsDatagramFrame(id) == CanFrameType(id) \in 2..5 \/ Mti(id) \in {2600, 2632}
SetFlagsAndDestAlias(flag, alias) == <<flag * 16 + ((alias \div 256) % 16), alias % 256>>
OrBit(number, n) == IF HasBit(number, n) THEN number ELSE number + Bit(n)

(* The MTIs of lcc-common.h that the library sends, with what it adds to them: bit 4 for a *)
(* simple message, bit 3 for one that is addressed, bit 2 for one with an event.           *)
VerifiedNodeId == OrBit(368, 4)
ProtocolSupportInquire == OrBit(2088, 3)
ProtocolSupportReply == OrBit(1640, 3)
SimpleInfoRequest == OrBit(3560, 3)
SimpleInfoReply == 2568
EventReport == OrBit(1460, 2)
ProducerIdentified == {OrBit(m, 2) : m \in {1348, 1349, 1351}}
ConsumerIdentified == {OrBit(m, 2) : m \in {1220, 1221, 1223}}
(* lcc_node_refresh_events_produced, lcc_node_refresh_events_consumed *)
RefreshEventsProduced == OrBit(2324, 3)
RefreshEventsConsumed == OrBit(2292, 3)

(* lcc_context_incoming_frame: which handler takes a frame. *)
Handler(id) ==
  CASE IsControl(id) -> "control"
    [] ~IsControl(id) /\ IsDatagramFrame(id) -> "datagram"
    [] ~IsControl(id) /\ ~IsDatagramFrame(id) /\ HasBit(Mti(id), 4) -> "simple"
    [] ~IsControl(id) /\ ~IsDatagramFrame(id) /\ ~HasBit(Mti(id), 4) /\ HasBit(Mti(id), 3) -> "addressed"
    [] OTHER -> "none"

(* What is put into an id is read from it, and what is added to an MTI does not make it *)
(* another one; a question to one node goes to the handler of addressed messages.       *)
ASSUME FieldsAreRead ==
  LET mtis == {VerifiedNodeId, ProtocolSupportInquire, ProtocolSupportReply, SimpleInfoRequest, SimpleInfoReply,
               EventReport} \cup ProducerIdentified \cup ConsumerIdentified
  IN  /\ \A m \in mtis, alias \in {1, 291, 4095} :
           LET id == SetCanFrameType(SetVariableField(alias, m), 1)
           IN  Mti(id) = m /\ Sender(id) = alias /\ CanFrameType(id) = 1 /\ Handler(id) \notin {"control", "datagram"}
      /\ \A m \in {ProtocolSupportInquire, SimpleInfoRequest} :
           Handler(SetCanFrameType(SetVariableField(5, m), 1)) = "addressed"
      /\ {VerifiedNodeId, ProtocolSupportInquire, ProtocolSupportReply, SimpleInfoRequest, EventReport}
           = {368, 2088, 1640, 3560, 1460}
      /\ \A flag \in 0..3, alias \in {1, 291, 4095} :
           LET d == SetFlagsAndDestAlias(flag, alias) IN (d[1] % 16) * 256 + d[2] = alias /\ d[1] \div 16 = flag

-----------------------------------------------------------------------------
(* Simple node information.  0 ends a string; the limits of lcc-common-internal.h are *)
(* scaled down by the caller.                                                         *)

(* lcc_context_set_simple_node_information and _name_description: what is too long is refused. *)
SetSimpleInfo(limits, old, fields, strings) ==
  IF \A f \in fields : Len(strings[f]) <= limits[f] THEN [f \in DOMAIN old |-> IF f \in fields THEN strings[f] ELSE old[f]]
  ELSE old

(* The reply: as many frames of six bytes as it takes, the last of which may be empty. *)
InfoData(info) == <<4>> \o FlattenSeq([f \in 1..4 |-> Append(info[f], 0)])
                  \o <<2>> \o FlattenSeq([f \in 1..2 |-> Append(info[f + 4], 0)])
InfoFrames(info) ==
  LET data == InfoData(info)
      last == Len(data) \div 6
  IN  [k \in 1..(last + 1) |-> [last |-> k = last + 1 /\ k > 1,
                               data |-> SubSeq(data, 6 * k - 5, IF k = last + 1 /\ k > 1 THEN Len(data) ELSE 6 * k)]]

(* How the other side takes the strings from what it received: the first byte is the *)
(* number of strings in the first block, which must be 4, and 2 that of the second.  *)
TakeInfoByte(parse, b) ==
  LET begun == IF parse.state = "first" THEN [parse EXCEPT !.strings = Append(@, <<>>), !.state = "string"] ELSE parse
  IN  CASE parse.state = "done" -> parse
        [] parse.state = "count" -> IF b = 2 THEN [parse EXCEPT !.state = "first"] ELSE [parse EXCEPT !.state = "done"]
        [] parse.state \in {"first", "string"} /\ b = 0 ->
             [begun EXCEPT !.state = IF Len(begun.strings) = 4 THEN "count" ELSE "first"]
        [] parse.state \in {"first", "string"} /\ b # 0 ->
             [begun EXCEPT !.strings[Len(begun.strings)] = Append(@, b)]
InfoStrings(received) == FoldLeft(TakeInfoByte, [state |-> "first", strings |-> <<>>], Tail(received)).strings

(* strncpy(.., .., limit) of the strings that there are. *)
CutTo(limit, string) == SubSeq(string, 1, IF Len(string) < limit THEN Len(string) ELSE limit)
TakeInfoFrame(limits, node, frame) ==
  LET received == node.rx_buffer \o frame.data
      strings == InfoStrings(received)
  IN  CASE ~frame.last -> [node EXCEPT !.rx_buffer = received]
        [] frame.last /\ Head(received) # 4 -> [node EXCEPT !.rx_buffer = received]
        [] frame.last /\ Head(received) = 4 ->
             [rx_buffer |-> <<>>,
              info |-> [f \in 1..6 |-> IF f <= Len(strings) THEN CutTo(limits[f], strings[f]) ELSE node.info[f]]]

InfoLimits == <<2, 2, 1, 1, 2, 3>>
NoInfo == [f \in 1..6 |-> <<>>]

(* What a node was told to be is what the other side shows, also after it was changed; a *)
(* string that has the bytes 2 and 4 in it does no harm.                                 *)
ASSUME InfoIsRead ==
  LET short == {<<>>, <<4>>}
      pairs == {<<>>, <<2>>, <<4, 2>>}
      take(node, frame) == TakeInfoFrame(InfoLimits, node, frame)
  IN  \A a, e \in pairs, b \in {<<>>, <<2, 4>>}, c, d \in short, f \in {<<>>, <<2>>, <<9, 4, 2>>} :
        LET info == SetSimpleInfo(InfoLimits, SetSimpleInfo(InfoLimits, NoInfo, 1..4, <<a, b, c, d, e, f>>),
                                  5..6, <<a, b, c, d, e, f>>)
            node == FoldLeft(take, [rx_buffer |-> <<>>, info |-> [g \in 1..6 |-> <<7>>]], InfoFrames(info))
        IN  info = <<a, b, c, d, e, f>> /\ node = [rx_buffer |-> <<>>, info |-> info]

(* The small variant: all strings in one array of a fixed size, one after the other, that *)
(* is all 0 at the start.  What would be written behind the array's end is left out.      *)
StringAt(array, x) ==
  LET ends == {k \in DOMAIN array : array[k] = 0}
      end(n) == CHOOSE k \in ends : Cardinality({j \in ends : j <= k}) = n
  IN  IF Cardinality(ends) <= x THEN {}
      ELSE {SubSeq(array, IF x = 0 THEN 1 ELSE end(x) + 1, end(x + 1) - 1)}
SmallInfoStringCopy(array, x, field) ==
  LET size == Len(array)
      ends == {k \in 1..(size - 1) : array[k] = 0}
      starts == IF x = 0 THEN {1} ELSE {k + 1 : k \in {e \in ends : Cardinality({j \in ends : j <= e}) = x}}
      from == CHOOSE k \in starts : TRUE
      length == IF x > 0 /\ Len(field) > size - from THEN size - from ELSE Len(field)
  IN  IF starts = {} THEN array
      ELSE [k \in DOMAIN array |-> CASE k \in from..(from + length - 1) -> field[k - from + 1]
                                     [] k = from + length + 1 -> 0
                                     [] OTHER -> array[k]]

(* A node that is told once what it is, the strings of lcc_context_set_simple_node_information *)
(* before the name and the description, answers just that while it fits.                       *)
ASSUME SmallInfoIsRead ==
  LET some == {<<>>, <<1>>, <<2, 3>>}
  IN  \A a, b, c, d, e, f \in some :
        LET strings == <<a, b, c, d, e, f>>
            total == Len(FlattenSeq(strings))
            put(array, x) == SmallInfoStringCopy(array, x - 1, strings[x])
            array == FoldLeft(put, [k \in 1..12 |-> 0], <<1, 2, 3, 4, 5, 6>>)
        IN  total <= 6 => \A x \in 1..6 : StringAt(array, x - 1) = {strings[x]}

-----------------------------------------------------------------------------
(* A memory map.  Addresses are taken modulo wrap, which stands for 2^32; a segment's *)
(* memory is a function on its addresses.                                             *)

Segment(space, readOnly, low, high, memory) ==
  [space |-> space, readOnly |-> readOnly, low |-> low, high |-> high, memory |-> memory]

(* The list of segments ends where a space is 0. *)
FindSegment(segments, space) ==
  {k \in DOMAIN segments : /\ segments[k].space = space
                           /\ \A j \in 1..k : segments[j].space # 0
                           /\ \A j \in 1..(k - 1) : segments[j].space # space}
InSegment(wrap, segment, start, count) ==
  start >= segment.low /\ (start + count) % wrap <= (segment.high + 1) % wrap

MemoryMapQuery(segments, space) ==
  IF FindSegment(segments, space) = {} THEN [present |-> FALSE]
  ELSE LET s == segments[CHOOSE k \in FindSegment(segments, space) : TRUE]
       IN  [present |-> TRUE, low |-> s.low, high |-> s.high, readOnly |-> s.readOnly]
MemoryMapRead(wrap, segments, space, start, count) ==
  LET found == FindSegment(segments, space)
      s == segments[CHOOSE k \in found : TRUE]
  IN  IF found = {} THEN [reply |-> "not_implemented"]
      ELSE IF ~InSegment(wrap, s, start, count) THEN [reply |-> "invalid_arg"]
      ELSE [reply |-> "ok", data |-> [k \in 1..count |-> s.memory[start + k - 1]]]
MemoryMapWrite(wrap, segments, space, start, data) ==
  LET found == FindSegment(segments, space)
      k == CHOOSE j \in found : TRUE
      written == [a \in DOMAIN segments[k].memory |->
                    IF a \in start..(start + Len(data) - 1) THEN data[a - start + 1] ELSE segments[k].memory[a]]
  IN  IF found = {} THEN [reply |-> "not_implemented", segments |-> segments]
      ELSE IF segments[k].readOnly \/ ~InSegment(wrap, segments[k], start, Len(data))
      THEN [reply |-> "invalid_arg", segments |-> segments]
      ELSE [reply |-> "ok", segments |-> [segments EXCEPT ![k].memory = written]]

(* A read or a write that does not go past the last address is done if and only if it is *)
(* inside its segment; what was written is read, and nothing else has changed.           *)
ASSUME MapKeepsToSegments ==
  LET fresh(low, high) == [a \in low..high |-> a]
  IN  \A readOnly \in BOOLEAN, low \in {0, 3}, high \in {3, 5}, start \in 0..7, count \in 0..3 :
        LET segments == <<Segment(1, readOnly, low, high, fresh(low, high)), Segment(2, FALSE, 2, 4, fresh(2, 4)),
                          Segment(0, FALSE, 0, 0, fresh(0, 0)), Segment(3, FALSE, 0, 6, fresh(0, 6))>>
            data == [k \in 1..count |-> 10 + k]
            inside == low <= start /\ start + count <= high + 1
            read == MemoryMapRead(16, segments, 1, start, count)
            write == MemoryMapWrite(16, segments, 1, start, data)
            other == MemoryMapWrite(16, segments, 2, start, data)
        IN  /\ (read.reply = "ok") = inside
            /\ (write.reply = "ok") = (inside /\ ~readOnly)
            /\ write.reply # "ok" => write.segments = segments
            /\ write.reply = "ok" =>
                 /\ MemoryMapRead(16, write.segments, 1, start, count).data = data
                 /\ \A a \in (low..high) \ (start..(start + count - 1)) : write.segments[1].memory[a] = a
            /\ Tail(write.segments) = Tail(segments) /\ other.segments[1] = segments[1]
            /\ MemoryMapRead(16, segments, 3, start, count).reply = "not_implemented"
            /\ \A space \in 1..4 : MemoryMapQuery(segments, space).present = (space <= 2)

-----------------------------------------------------------------------------
(* A packet of DCC, and what is called for it. *)

DecodeShort(second) ==
  LET code == 2 * (second % 16) + ((second \div 16) % 2)
      direction == IF HasBit(second, 5) THEN "forward" ELSE "reverse"
  IN  IF (second \div 64) # 1 THEN {}
      ELSE IF code = 1 THEN {[call |-> "estop"]}
      ELSE {[call |-> "speed_dir", direction |-> direction, speed |-> (code - 3) % 256]}
DecodeAccessory(first, second) ==
  LET msb == 3 - ((second \div 16) % 4)
      board == (first % 64) + 64 * msb
      pair == (second \div 2) % 4
  IN  {[call |-> "accessory", number |-> ((4 * (board - 1) + pair) + 1) % 65536,
        direction |-> IF HasBit(second, 0) THEN "normal" ELSE "reverse"]}
PacketParse(shortAddress, packet) ==
  CASE packet = <<255, 0, 255>> -> {}
    [] packet # <<255, 0, 255>> /\ (packet[1] = 0 \/ (packet[1] \in 1..127 /\ packet[1] = shortAddress)) ->
         DecodeShort(packet[2])
    [] packet[1] \in 128..191 -> DecodeAccessory(packet[1], packet[2])
    [] OTHER -> {}

(* Two speeds that are called are different, and the stop of all trains is no speed. *)
ASSUME SpeedsDiffer ==
  \A x, y \in 64..127 :
    PacketParse(3, <<3, x>>) = PacketParse(3, <<3, y>>)
      => x = y \/ ([call |-> "estop"] \in PacketParse(0, <<0, x>>) /\ {x, y} = {80, 112})

(* Two packets move the same accessory if and only if they are for the same pair of outputs *)
(* of the same board, of which only eight bits count, and then only bit 0 is the direction.  *)
ASSUME AccessoriesDiffer ==
  LET number(first, second) == (CHOOSE c \in PacketParse(3, <<first, second>>) : TRUE).number
      board(first, second) == <<first % 64, (second \div 16) % 4, (second \div 2) % 4>>
      firsts == {128, 129, 160, 191}
      seconds == {128 + 16 * m + p : m \in 0..7, p \in 0..15}
      numbers == [packet \in firsts \X seconds |-> number(packet[1], packet[2])]
  IN  \A p, q \in firsts \X seconds : (numbers[p] = numbers[q]) = (board(p[1], p[2]) = board(q[1], q[2]))
=============================================================================
