--------------------------- MODULE MCDatagramServer ---------------------------
EXTENDS DatagramServer, TLC

CONSTANTS c1, c2

(* One client sends commands of one frame, two and three, the other one disturbs *)
(* it. Frames that are mixed up stand for every command.                         *)
SomeDatagrams ==
    (c1 :> [cmd : {"reboot", "query", "readCdi"}, frames : {1}]
             \cup [cmd : {"writeFirmware"}, frames : {2}]
             \cup [cmd : {"other"}, frames : {3}])
      @@ (c2 :> [cmd : {"update"}, frames : {1}] \cup [cmd : {"write"}, frames : {2}])
=============================================================================
