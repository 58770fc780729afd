------------------------- MODULE MCLoconetProgrammer -------------------------
(* LoconetProgrammer with the CV window and the speed matcher, and a command    *)
(* station that answers every request, accepts it or not, in the ways that the  *)
(* programmer knows. The speed matcher uses OpsModeNoFeedback only.             *)
EXTENDS LoconetProgrammer, LocoNetTables

OpsScripts == {<<"40">>, <<"00">>, <<"7F">>}
ServiceScripts ==
    {<<"7F", "01", "read">>, <<"01", "read">>, <<"7F", "40">>, <<"7F", "00">>, <<"7F", "7F">>}

(* OpsModeWithFeedback is treated like OpsModeNoFeedback. *)
MCModes == {"ServiceTrack", "OpsModeNoFeedback"}
MCScripts == [mode \in MCModes |-> IF mode = "ServiceTrack" THEN ServiceScripts ELSE OpsScripts]
=============================================================================
