----------------------------- MODULE MCDccDecoder ----------------------------
EXTENDS DccDecoder

(* The shortest preamble that is found, and a longer one. *)
TwoPreambles == {MIN_PREAMBLE, MIN_PREAMBLE + 1}

(* A byte of ones, and one that is not its own mirror. *)
TwoData == {{0, 1}, {0}}
=============================================================================
