--------------------------- MODULE MCSpeedMatcher ----------------------------
EXTENDS SpeedMatcher

(* A speedometer that shows nothing, two speeds that are the same and one that is not. *)
SomeKph == {0, 2, 3, 60}
=============================================================================
