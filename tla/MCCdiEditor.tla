---------------------------- MODULE MCCdiEditor ----------------------------
(* A text of two blocks and an event ID in one space, and a space that the node *)
(* does not have, for TLC.                                                      *)
EXTENDS CdiEditor, CdiDocument, CdiFields, TLC

CONSTANTS text, event, s1, s2

TwoSegments == <<s2, s1>>
OneSegment == <<s1>>
TextAndEvent == <<text, event>>
OneSpace == [f \in {text, event} |-> s1]
TwoBlocks == [f \in {text, event} |-> IF f = text THEN 2 ELSE 1]
InASpace == (s1 :> <<<<text, 1>>, <<text, 2>>, <<event, 1>>>>) @@ (s2 :> <<>>)

OneMemory == {[f \in {text, event} |-> IF f = text THEN <<0, 0>> ELSE <<0>>]}
TwoInputs == [f \in {text, event} |-> IF f = text THEN {<<1, 1>>} ELSE {<<1>>}]

(* A block of text is all NULs, or has text; nothing is shown behind a NUL. *)
Shown(f, v) == IF f = text /\ v[1] = 0 THEN <<0, 0>> ELSE v
Encoded == [f \in {text, event} |-> [v \in [1..TwoBlocks[f] -> {0, 1}] |-> Shown(f, v)]]
Both == {{text, event}}
=============================================================================
