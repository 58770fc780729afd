---------------------------- MODULE DatagramServer ----------------------------
(* A node that other nodes configure over datagrams: lcc-datagram.c puts the   *)
(* frames of a datagram together and answers it, lcc-memory.c carries out the  *)
(* memory configuration commands and lcc-firmware-upgrade.c those that are for *)
(* the firmware.                                                               *)
(*                                                                             *)
(* Every client writes the frames of a datagram at once; on the bus they mix   *)
(* with the frames of the others, but keep their order. A frame has 8 bytes,   *)
(* but for the last one of a datagram, so lengths are counted in frames. The   *)
(* command, the address and the space of a command are in its first frame.     *)
EXTENDS Integers, Sequences, SequencesExt

CONSTANTS
    Clients,      \* the nodes that send datagrams to this one
    Datagrams,    \* what each of them sends: a set of [cmd, frames]
    BufferFrames, \* how many frames fit into lcc_datagram_buffer
    Firmware,     \* "none": no firmware context, "unset": no functions are set, "set"
    HasRead, HasWrite,  \* read_fn and write_fn are set
    Received,     \* what datagram_received_fn answers: "rxok", "silent"; "none" if it is NULL
    MaxDatagrams, \* bound: datagrams sent in a behaviour
    MaxTrouble    \* bound: frames lost, writes that fail, and late calls of the application

(* The commands that are told apart. "write" and "read" are to any space but that *)
(* of the firmware or of the CDI, "query" to any but that of the CDI; "other" is  *)
(* what the memory server does not know, also what another protocol sends.        *)
Commands == {"update", "reboot", "reset", "queryCdi", "query", "freeze", "unfreeze",
             "readCdi", "read", "write", "writeFirmware", "other"}

ASSUME DatagramsAssumption == Datagrams \in [Clients -> SUBSET [cmd : Commands, frames : 1..BufferFrames]]
ASSUME NodeAssumption ==
    /\ Firmware \in {"none", "unset", "set"} /\ Received \in {"rxok", "silent", "none"}
    /\ HasRead \in BOOLEAN /\ HasWrite \in BOOLEAN
ASSUME BoundsAssumption == BufferFrames \in Nat /\ MaxDatagrams \in Nat /\ MaxTrouble \in Nat

Ids == 1..MaxDatagrams

VARIABLES
    receiving,  \* currently_handling_incoming_datagram
    buffer,     \* datagram_buffer: the frames that were appended to it
    upgrading,  \* upgrade_in_progress
    calling,    \* calling_write_cb
    writer,     \* alias of the firmware context: the datagram it is about
    toServer,   \* the frames that each client has sent and that have not come yet
    sent,       \* the datagrams that were sent: [by, cmd, frames]
    answers,    \* what was sent to the sender while its datagram was handled
    waiting,    \* the datagrams whose sender still waits for an answer
    trouble,    \* the bound
    handed,     \* history: the frames that were last given to a handler
    calm        \* history: nothing has happened yet that confuses the assembly

node == <<receiving, buffer, upgrading, calling, writer>>
serverVars == <<node, toServer, sent, answers, waiting, trouble, handed, calm>>

-------------------------------------------------------------------------------
(* A frame of datagram d: types 2 to 5. Its bytes are the part of d that it brings. *)
Types == {"only", "first", "middle", "last"}
DatagramFrame == [type : Types, dg : Ids, part : 1..BufferFrames]
(* `Datagram received OK' or `rejected', for a datagram of this node. *)
OkFrame == [type |-> "answer", dg |-> 0, part |-> 0]

ServerAnswers == {"rxok", "pending", "rejected", "busy", "reply", "partial"}

FrameType(i, n) ==
    CASE n = 1 -> "only"
      [] n > 1 /\ i = 1 -> "first"
      [] n > 1 /\ i = n -> "last"
      [] OTHER -> "middle"
FramesOf(d, n) == [i \in 1..n |-> [type |-> FrameType(i, n), dg |-> d, part |-> i]]

ServerTypeOK ==
    /\ receiving \in BOOLEAN /\ upgrading \in BOOLEAN /\ calling \in BOOLEAN
    /\ buffer \in Seq(DatagramFrame) /\ Len(buffer) <= BufferFrames
    /\ writer \in {0} \cup Ids
    /\ toServer \in [Clients -> Seq(DatagramFrame \cup {OkFrame})]
    /\ sent \in Seq([by : Clients, cmd : Commands, frames : 1..BufferFrames])
    /\ Len(sent) <= MaxDatagrams
    /\ answers \in [Ids -> Seq(ServerAnswers)]
    /\ waiting \subseteq Ids
    /\ trouble \in 0..MaxTrouble
    /\ handed \in Seq(DatagramFrame)
    /\ calm \in BOOLEAN

ServerInit ==
    /\ receiving = FALSE /\ buffer = <<>>
    /\ upgrading = FALSE /\ calling = FALSE /\ writer = 0
    /\ toServer = [c \in Clients |-> <<>>]
    /\ sent = <<>>
    /\ answers = [d \in Ids |-> <<>>]
    /\ waiting = {}
    /\ trouble = 0
    /\ handed = <<>>
    /\ calm = TRUE

-------------------------------------------------------------------------------
(* Clients. *)

(* The datagrams of more than one frame that have frames on the bus or in the buffer. *)
Underway ==
    {d \in DOMAIN sent :
       /\ sent[d].frames > 1
       /\ \/ \E f \in ToSet(toServer[sent[d].by]) : f.dg = d
          \/ \E f \in ToSet(buffer) : f.dg = d}

Send(c, dg) ==
    /\ Len(sent) < MaxDatagrams
    /\ \A d \in waiting : sent[d].by # c
    /\ LET d == Len(sent) + 1 IN
       /\ sent' = Append(sent, [by |-> c, cmd |-> dg.cmd, frames |-> dg.frames])
       /\ toServer' = [toServer EXCEPT ![c] = @ \o FramesOf(d, dg.frames)]
       /\ waiting' = waiting \cup {d}
    /\ calm' = (calm /\ (dg.frames > 1 => \A d \in Underway : sent[d].by = c))
    /\ UNCHANGED <<node, answers, trouble, handed>>

(* The answer has come, or the client stops waiting for it. *)
StopWaiting(d) ==
    /\ d \in waiting
    /\ waiting' = waiting \ {d}
    /\ UNCHANGED <<node, toServer, sent, answers, trouble, handed, calm>>

(* A frame does not reach this node. *)
Lose(c) ==
    /\ trouble < MaxTrouble
    /\ toServer[c] # <<>>
    /\ toServer' = [toServer EXCEPT ![c] = Tail(@)]
    /\ calm' = (calm /\ Head(toServer[c]) = OkFrame)
    /\ trouble' = trouble + 1
    /\ UNCHANGED <<node, sent, answers, waiting, handed>>

-------------------------------------------------------------------------------
(* Assembling. *)

(* Mutation: one frame too many. *)
AppendedPastEnd(f) == IF Len(buffer) <= BufferFrames THEN Append(buffer, f) ELSE buffer

(* lcc_datagram_append_bytes: what does not fit is left out. *)
Appended(f) == IF Len(buffer) < BufferFrames THEN Append(buffer, f) ELSE buffer

(* Mutation: the rejection ends the datagram that is being received. *)
RejectBusyAndForget(c, f) ==
    /\ receiving /\ f.type \in {"first", "only"}
    /\ answers' = [answers EXCEPT ![f.dg] = Append(@, "busy")]
    /\ toServer' = [toServer EXCEPT ![c] = Tail(@)]
    /\ receiving' = FALSE
    /\ UNCHANGED <<buffer, upgrading, calling, writer, sent, waiting, trouble, handed, calm>>

(* One datagram is received at a time. The rejection clears the flag, and it is set again. *)
RejectBusy(c, f) ==
    /\ receiving /\ f.type \in {"first", "only"}
    /\ answers' = [answers EXCEPT ![f.dg] = Append(@, "busy")]
    /\ toServer' = [toServer EXCEPT ![c] = Tail(@)]
    /\ UNCHANGED <<node, sent, waiting, trouble, handed, calm>>

(* Nobody looks at who sent a frame that is not the first one, or whether a *)
(* first one came before.                                                   *)
AppendFrame(c, f) ==
    /\ f.type = "middle" \/ (f.type = "first" /\ ~receiving)
    /\ receiving' = TRUE
    /\ buffer' = Appended(f)
    /\ toServer' = [toServer EXCEPT ![c] = Tail(@)]
    /\ UNCHANGED <<upgrading, calling, writer, sent, answers, waiting, trouble, handed, calm>>

(* An answer to a datagram of this node, a reply for example, clears the flag. *)
AnswerReceived(c, f) ==
    /\ f = OkFrame
    /\ receiving' = FALSE
    /\ toServer' = [toServer EXCEPT ![c] = Tail(@)]
    /\ calm' = (calm /\ buffer = <<>>)
    /\ UNCHANGED <<buffer, upgrading, calling, writer, sent, answers, waiting, trouble, handed>>

-------------------------------------------------------------------------------
(* Handling the datagram that a frame f of client c completes. `what' is sent to *)
(* c meanwhile; a reply is a datagram, and c answers it at once.                 *)

Answer(c, f, what) ==
    /\ answers' = [answers EXCEPT ![f.dg] = @ \o what]
    /\ toServer' = [toServer EXCEPT ![c] =
                      Tail(@) \o IF "reply" \in ToSet(what) THEN <<OkFrame>> ELSE <<>>]
    /\ handed' = Appended(f)
    /\ buffer' = <<>> /\ receiving' = FALSE
    /\ UNCHANGED <<sent, waiting>>

(* No handler took it: the callback for datagrams, or a rejection. *)
NotHandled ==
    CASE Received = "none" -> <<"rejected">>
      [] Received = "rxok" -> <<"rxok">>
      [] Received = "silent" -> <<>>

(* lcc_datagram_load_and_send: the reply leaves, or one of its frames does not, or *)
(* there is no room for all of them, and the reply is replaced by a rejection. The *)
(* status is LCC_OK also then.                                                     *)
Sendings == {<<"reply">>, <<>>, <<"partial">>, <<"busy">>}
SentOk(r) == r \in {<<"reply">>, <<"busy">>}

(* What else follows from how the reply was sent. *)
Sending(r) ==
    /\ r # <<"reply">> => trouble < MaxTrouble
    /\ trouble' = IF r = <<"reply">> THEN trouble ELSE trouble + 1
    /\ calm' = (calm /\ r = <<"reply">>)

Quiet == UNCHANGED <<trouble, calm>>
SameFirmware == UNCHANGED <<upgrading, calling, writer>>

(* The command that the first bytes of the buffer are taken for. Of a frame that *)
(* was not sent as a first one it can be any.                                    *)
CommandOf(frames) ==
    LET h == Head(frames)
        k == sent[h.dg].cmd
    IN  IF h.type \notin {"first", "only"} THEN Commands
        ELSE IF Len(frames) = 1 THEN {k}
        ELSE IF k \in {"freeze", "unfreeze"} THEN {"other"}   \* not three bytes
        ELSE IF k = "readCdi" THEN {"read"}                   \* not seven or eight
        ELSE {k}

update_complete(c, f, k) ==
    /\ k = "update"
    /\ Answer(c, f, <<"rxok">>) /\ Quiet /\ SameFirmware

(* Mutation: the datagram counts as handled. *)
reboot_handled(c, f, k) ==
    /\ k \in {"reboot", "reset"}
    /\ Answer(c, f, <<>>) /\ Quiet /\ SameFirmware

(* They are carried out, and then taken for not handled. *)
reboot(c, f, k) ==
    /\ k \in {"reboot", "reset"}
    /\ Answer(c, f, NotHandled) /\ Quiet /\ SameFirmware

(* query_fn answers, and then the datagram is taken for not handled. *)
query(c, f, k) ==
    /\ k = "query"
    /\ \E r \in Sendings : Sending(r) /\ Answer(c, f, r \o NotHandled)
    /\ SameFirmware

query_cdi(c, f, k) ==
    /\ k = "queryCdi"
    /\ \E r \in Sendings :
         /\ Sending(r)
         /\ Answer(c, f, <<"pending">> \o r \o IF SentOk(r) THEN <<>> ELSE NotHandled)
    /\ SameFirmware

(* _lcc_firmware_upgrade_freeze and _unfreeze; an application without firmware *)
(* does not know the command.                                                  *)
freeze_unfreeze(c, f, k) ==
    /\ k \in {"freeze", "unfreeze"}
    /\ Firmware # "none"
    /\ upgrading' = (k = "freeze")
    /\ Answer(c, f, <<"rxok">>) /\ Quiet
    /\ UNCHANGED <<calling, writer>>

unknown(c, f, k) ==
    /\ k = "other" \/ (k \in {"freeze", "unfreeze"} /\ Firmware = "none")
    /\ Answer(c, f, NotHandled) /\ Quiet /\ SameFirmware

(* read_fn and write_fn answer with a reply that says whether it went well. *)
(* Without them the command is rejected.                                    *)
ReadOrWrite(c, f, isRead, before) ==
    LET has == IF isRead THEN HasRead ELSE HasWrite IN
    \/ has /\ \E r \in Sendings : Sending(r) /\ Answer(c, f, before \o <<"pending">> \o r)
    \/ ~has /\ Answer(c, f, before \o <<"rejected">>) /\ Quiet

memory_access(c, f, k) ==
    /\ k \in {"read", "write"} \/ (k = "writeFirmware" /\ Firmware = "none")
    /\ ReadOrWrite(c, f, k = "read", <<>>)
    /\ SameFirmware

(* The CDI is read without the application. If the reply cannot be sent, the *)
(* command counts as not handled, and read_fn gets it too.                   *)
read_cdi(c, f, k) ==
    /\ k = "readCdi"
    /\ \/ \E r \in {s \in Sendings : SentOk(s)} :
            Sending(r) /\ Answer(c, f, <<"pending">> \o r)
       \/ /\ trouble < MaxTrouble /\ trouble' = trouble + 1 /\ calm' = FALSE
          /\ \E r \in {s \in Sendings : ~SentOk(s)} :
               Answer(c, f, <<"pending">> \o r \o
                            IF HasRead THEN <<"pending", "reply">> ELSE <<"rejected">>)
    /\ SameFirmware

(* Mutation: the callback counts as running until the next one. *)
firmware_write_open(c, f, k) ==
    /\ k = "writeFirmware" /\ Firmware # "none"
    /\ IF Firmware = "set"
       THEN /\ writer' = f.dg /\ calling' = TRUE
            /\ \E r \in Sendings : Sending(r) /\ Answer(c, f, <<"pending">> \o r)
       ELSE Answer(c, f, <<"pending">>) /\ Quiet /\ UNCHANGED <<writer, calling>>
    /\ UNCHANGED upgrading

(* _lcc_firmware_upgrade_incoming_write, whether or not an upgrade is going on. *)
(* Its callback says write_ok or write_error before it returns.                 *)
firmware_write(c, f, k) ==
    /\ k = "writeFirmware" /\ Firmware # "none"
    /\ IF Firmware = "set"
       THEN /\ writer' = f.dg /\ calling' = FALSE
            /\ \E r \in Sendings : Sending(r) /\ Answer(c, f, <<"pending">> \o r)
       ELSE Answer(c, f, <<"pending">>) /\ Quiet /\ UNCHANGED <<writer, calling>>
    /\ UNCHANGED upgrading

Handle(c, f) ==
    /\ f.type = "last" \/ (f.type = "only" /\ ~receiving)
    /\ \E k \in CommandOf(Appended(f)) :
         \/ update_complete(c, f, k) \/ reboot(c, f, k)
         \/ query(c, f, k) \/ query_cdi(c, f, k)
         \/ freeze_unfreeze(c, f, k) \/ unknown(c, f, k)
         \/ memory_access(c, f, k) \/ read_cdi(c, f, k) \/ firmware_write(c, f, k)

(* lcc_handle_datagram, for the next frame of c. *)
handle_datagram(c) ==
    /\ toServer[c] # <<>>
    /\ LET f == Head(toServer[c]) IN
       RejectBusy(c, f) \/ AppendFrame(c, f) \/ AnswerReceived(c, f) \/ Handle(c, f)

(* lcc_firmware_write_ok or _error, called after the callback has returned: it has *)
(* no effect.                                                                      *)
write_ok_late ==
    /\ writer # 0 /\ trouble < MaxTrouble
    /\ trouble' = trouble + 1
    /\ answers' = IF calling THEN [answers EXCEPT ![writer] = Append(@, "reply")] ELSE answers
    /\ UNCHANGED <<node, toServer, sent, waiting, handed, calm>>

ServerNext ==
    \/ \E c \in Clients :
         \/ \E dg \in Datagrams[c] : Send(c, dg)
         \/ Lose(c)
         \/ handle_datagram(c)
    \/ \E d \in waiting : StopWaiting(d)
    \/ write_ok_late

(* Frames that have come are handled. *)
ServerSpec == ServerInit /\ [][ServerNext]_serverVars /\ \A c \in Clients : WF_serverVars(handle_datagram(c))

-------------------------------------------------------------------------------
(* Properties. They hold while `calm' does: until datagrams of several frames of *)
(* two clients are on the way at the same time, a frame of a datagram is lost,   *)
(* an answer comes between two frames, or a write fails. Datagrams of one frame, *)
(* lost answers, late calls and clients that stop waiting do no harm.            *)

(* What a handler gets is one datagram, whole, whoever else sends meanwhile. *)
WholeDatagrams ==
    calm /\ handed # <<>> => \E d \in DOMAIN sent : handed = FramesOf(d, sent[d].frames)

(* A datagram gets one answer, and a reply only behind an answer that announces *)
(* it; but for a query, which gets a reply and then a rejection, and for the    *)
(* firmware of an application that has not set its functions.                   *)
OneAnswer ==
    calm => \A d \in DOMAIN sent :
        answers[d] \in {<<>>, <<"rxok">>, <<"rejected">>, <<"busy">>, <<"pending", "reply">>}
                         \cup (IF sent[d].cmd = "query" THEN {<<"reply">> \o NotHandled} ELSE {})
                         \cup (IF Firmware = "unset" THEN {<<"pending">>} ELSE {})

(* Every datagram is answered, unless the application's callback keeps silent. *)
EventuallyAnswered ==
    \A d \in Ids :
        calm /\ d \in DOMAIN sent /\ Received # "silent" ~> answers[d] # <<>> \/ ~calm
==============================================================================
