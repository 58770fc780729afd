------------------------- MODULE MCEventGraphWrites -------------------------
(* A node with two spaces, for TLC; the CDI editor changes one field. GraphSamples *)
(* has what TLC evaluates of the modules without state.                            *)
EXTENDS EventGraphWrites, GraphSamples

CONSTANTS s1, s2, v0, v1

OneField == {<<s1, 1>>}

Sizes == [s \in {s1, s2} |-> IF s = s1 THEN 2 ELSE 1]

AllTheSame == {[p \in Pin |-> v0]}
=============================================================================
