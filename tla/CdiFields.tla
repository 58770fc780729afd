----------------------------- MODULE CdiFields -----------------------------
(***************************************************************************)
(* What the CDI editor (GUI/lcc/cdi/cdieditorwidget.cpp) shows of the bytes  *)
(* of a value, and the bytes that it makes of what is shown: texts of        *)
(* one-byte characters, numbers, choices of a map, and event IDs.            *)
(* The largest int is a parameter, because TLC's is not larger.              *)
(***************************************************************************)
EXTENDS Integers, Sequences, FiniteSets, SequencesExt

Byte == 0..255
MinOf(a, b) == IF a < b THEN a ELSE b
MaxOf(a, b) == IF a < b THEN b ELSE a

(* An int has the size of its attribute, which is 0 if there is none. *)
CdiVariantSize(v) == IF v.kind = "int" /\ v.size <= 0 THEN 1 ELSE v.size

(* Big-endian. *)
Number(bytes) == LET add(n, b) == 256 * n + b IN FoldLeft(add, 0, bytes)
Bytes(value, size) == [k \in 1..size |-> (value \div 256^(size - k)) % 256]

-----------------------------------------------------------------------------
(* Texts: they end with a NULL, unless they fill the field; the line has room for one *)
(* character less than the field.                                                   *)
Untilled(bytes) == SelectInSeq(bytes, LAMBDA b : b = 0)
TextOf(bytes, size) ==
  LET len == IF Untilled(bytes) = 0 THEN Len(bytes) ELSE Untilled(bytes) - 1
      shown == SubSeq(bytes, 1, len)
  IN  IF size > 1 THEN SubSeq(shown, 1, MinOf(len, size - 1)) ELSE shown
EncodedText(text, size) ==
  LET kept == SubSeq(text, 1, MinOf(Len(text), size - 1))
  IN  kept \o [k \in 1..(size - Len(kept)) |-> 0]

(* Numbers: a value that is out of the range makes the range larger. *)
DefaultMax(v, top) ==
  CASE v.size = 1 -> 255
    [] v.size = 2 -> 65535
    [] v.size = 3 -> 16777215
    [] OTHER -> top
SpinRange(v, top) ==
  [low |-> IF v.min = {} THEN 0 ELSE CHOOSE x \in v.min : TRUE,
   high |-> IF v.max = {} THEN DefaultMax(v, top) ELSE CHOOSE x \in v.max : TRUE]
SpinOf(bytes, range, top) ==
  LET value == MinOf(Number(bytes), top)
  IN  [value |-> value, low |-> MinOf(value, range.low), high |-> MaxOf(value, range.high)]

(* Choices: a property is a number, or a text that may be one (toULongLong). *)
Property(isInt, n) == [int |-> isInt, number |-> n]
NotANumber == -1
PropertyMatches(property, value) == property.number >= 0 /\ property.number = value
(* The first choice that matches; a value that the map does not have becomes one more. *)
ComboOf(bytes, relations, added) ==
  LET value == Number(bytes)
      items == relations \o [k \in DOMAIN added |-> Property(TRUE, added[k])]
      at == SelectInSeq(items, LAMBDA p : PropertyMatches(p, value))
  IN  [added |-> IF at = 0 THEN Append(added, value) ELSE added,
       index |-> IF at = 0 THEN Len(items) + 1 ELSE at]
(* A negative number becomes a large one, of which the low bytes are written. *)
EncodedChoice(relations, combo, size) ==
  LET items == relations \o [k \in DOMAIN combo.added |-> Property(TRUE, combo.added[k])]
      p == items[combo.index]
  IN  IF p.number = NotANumber /\ ~p.int THEN {} ELSE {Bytes(p.number % 256^size, size)}

(* Event IDs: eight pairs of digits; those that are not entered are missing. *)
EncodedEventId(digits) ==
  IF \A k \in DOMAIN digits : digits[k] \in 0..15
  THEN {[k \in 1..8 |-> 16 * digits[2 * k - 1] + digits[2 * k]]}
  ELSE {}
EventIdOf(bytes) == [k \in 1..16 |-> IF k % 2 = 1 THEN bytes[(k + 1) \div 2] \div 16 ELSE bytes[k \div 2] % 16]

-----------------------------------------------------------------------------
(* loadFieldValue: what is shown of the bytes of the node, and encoded again, is what *)
(* a change is compared with.  What cannot be encoded is not known: {}.               *)
Displayed(v, bytes, top) ==
  CASE v.kind = "string" -> {EncodedText(TextOf(bytes, v.size), v.size)}
    [] v.kind = "int" /\ v.map = {} -> {Bytes(SpinOf(bytes, SpinRange(v, top), top).value, CdiVariantSize(v))}
    [] v.kind = "int" /\ v.map # {} ->
         LET relations == CHOOSE m \in v.map : TRUE
         IN  EncodedChoice(relations, ComboOf(bytes, relations, <<>>), CdiVariantSize(v))
    [] v.kind = "eventid" -> EncodedEventId(EventIdOf(bytes))

(* CdiEditorWidget::fieldEdited of a number: any in the range of the widget. *)
Entered(v, value, top) ==
  {Bytes(x, CdiVariantSize(v)) : x \in {value} \cap SpinRange(v, top).low..SpinRange(v, top).high}

-----------------------------------------------------------------------------
(* SampleFields of up to two bytes for TLC, and an int of three. *)

Top == 2^17
Some == {0, 1, 2, 65, 255}
Text(size) == [kind |-> "string", size |-> size]
IntField(size, min, max, map) == [kind |-> "int", size |-> size, min |-> min, max |-> max, map |-> map]
Maps == {<<Property(TRUE, 1), Property(FALSE, 2)>>, <<Property(FALSE, NotANumber), Property(TRUE, 65)>>,
         <<Property(TRUE, 1), Property(FALSE, 1)>>, <<>>}
SampleFields == {Text(n) : n \in 1..3}
          \cup {IntField(n, min, max, {}) : n \in 0..3, min \in {{}, {2}, {-1}}, max \in {{}, {65}}}
          \cup {IntField(n, {}, {}, {m}) : n \in 0..2, m \in Maps}
Stored(v) == [1..CdiVariantSize(v) -> Some]

(* encodeField, "Encode what is displayed, so that we compare like with like": what is  *)
(* shown and encoded is shown and encoded as the same, so that a value that nobody       *)
(* changed is no change, and a text that is written back ends with a NULL.               *)
ASSUME LikeWithLike ==
  \A v \in SampleFields : \A bytes \in Stored(v) :
    \A shown \in Displayed(v, bytes, Top) :
      /\ Displayed(v, shown, Top) = {shown}
      /\ Len(shown) = CdiVariantSize(v)
      /\ v.kind = "string" => Last(shown) = 0

(* setFieldValue, "Show what the node actually has": a number up to the largest int, *)
(* in the range or not, in the map or not, is written back as it was.                *)
ASSUME NumbersAreTrue ==
  \A v \in SampleFields : v.kind = "int" =>
    \A bytes \in Stored(v) : Number(bytes) <= Top => Displayed(v, bytes, Top) = {bytes}

(* encodeField, "LCC is big-endian": a number that can be entered fits in its bytes, *)
(* unless the CDI gives no size, or a range that is larger than the size.          *)
ASSUME EnteredFits ==
  \A v \in SampleFields : (v.kind = "int" /\ v.map = {} /\ v.size >= 1 /\ v.min # {-1}) =>
    \A value \in {0, 1, 65, 255, 256, 65535, 65536} : \A bytes \in Entered(v, value, Top) :
      Number(bytes) = value

(* Event IDs are shown in full. *)
ASSUME EventIdsAreTrue ==
  \A bytes \in [1..8 -> {0, 255}] : EncodedEventId(EventIdOf(bytes)) = {bytes}
=============================================================================
