--------------------------- MODULE MCLocoNetBuffer ---------------------------
(* LocoNetBuffer with a command station that switches the track on and off and *)
(* reports slots, and a program that sets a speed. The buffer holds just over  *)
(* one report.                                                                 *)
EXTENDS LocoNetBuffer

Named(seq) == [i \in DOMAIN seq |-> Hex(seq[i])]

PowerOn == <<Hex(131)>>
Speed   == Named(<<160, 8, 37>>)
MCMessages == {PowerOn, Speed}

SlotRead == Named(<<231, 14, 8, 19, 3, 37, 0, 7, 0, 0, 0, 0, 0, 44>>)
Peer     == Named(<<228, 4, 1, 30>>)
SixByte  == Named(<<208, 96, 2, 1, 65, 13>>)
MCFrames == {SlotRead, Peer, SixByte}

MCUnset == {{}, Ones}
MCNoise == {Hex(16)}
=============================================================================
