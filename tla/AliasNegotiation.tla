-------------------------- MODULE AliasNegotiation --------------------------
(***************************************************************************)
(* How LCC nodes agree on their 12-bit aliases (LCC/lcc.c): a node picks   *)
(* an alias, asks with CID frames whether anybody has it, waits, and       *)
(* claims it unless a frame with that alias came back.                     *)
(*                                                                         *)
(* A node is the train GUI (GUI/lcc/lccqioconnection.cpp, behind a socket  *)
(* or serial port that buffers without limit) or a device that runs the    *)
(* loop of LCC/examples, whose transmit buffer can be full and which may   *)
(* be powered before it is attached to the bus.                            *)
(***************************************************************************)
EXTENDS Integers, Sequences, Functions

CONSTANTS
  Nodes,      \* every node
  NoNode,     \* no node
  Devices,    \* the nodes that are not the GUI
  MaxAlias,   \* aliases are 1..MaxAlias (0xFFE in the code)
  StartAlias, \* StartAlias[n]: the alias that the ID of n leads to
  CidFrames,  \* how many CID frames are sent (4 in the code)
  TxSize,     \* frames that the transmit buffer of a device holds
  MaxQueue    \* bound: frames received and not handled, or written by a GUI

ASSUME NodesAssumption == NoNode \notin Nodes /\ Devices \subseteq Nodes
ASSUME AliasAssumption ==
  MaxAlias \in Nat \ {0} /\ StartAlias \in [Nodes -> 1..MaxAlias]
ASSUME SizesAssumption ==
  /\ CidFrames \in Nat \ {0} /\ TxSize \in Nat /\ MaxQueue \in Nat

VARIABLES
  alias,      \* node_alias, 0 before the first
  aliasState, \* node_alias_state
  permitted,  \* state is LCC_STATE_PERMITTED
  timer,      \* the wait before generateAliasDone is running
  onBus,      \* the connection is up, the device is attached
  late,       \* the device was attached during its wait
  tx,         \* frames written and not yet on the bus
  rx,         \* frames received and not yet handled
  disturbed   \* history: a frame was dropped, or a device attached late

vars ==
  <<alias, aliasState, permitted, timer, onBus, late, tx, rx, disturbed>>

Aliases == 1..MaxAlias

\* The alias of the tool that asks who is there.
ToolAlias == MaxAlias + 1

\* src and to, the sender and the node whose CID frame a RID answers, are not in
\* the frame.
\* A "datagram" is a middle or last frame of one, of type 4 or 5.
Frame == [kind : {"cid", "rid", "other", "datagram", "ame"},
          alias : Aliases \cup {ToolAlias},
          src : Nodes \cup {NoNode}, to : Nodes \cup {NoNode}]

Sends(n, k, a, m) == [kind |-> k, alias |-> a, src |-> n, to |-> m]

Init ==
  /\ alias = [n \in Nodes |-> 0]
  /\ aliasState = [n \in Nodes |-> "not_set"]
  /\ permitted = [n \in Nodes |-> FALSE]
  /\ timer = [n \in Nodes |-> FALSE]
  /\ onBus = [n \in Nodes |-> FALSE] /\ late = [n \in Nodes |-> FALSE]
  /\ tx = [n \in Nodes |-> <<>>] /\ rx = [n \in Nodes |-> <<>>]
  /\ disturbed = FALSE

-----------------------------------------------------------------------------
(***************************************************************************)
(* write_function: a device refuses a frame when its buffer is full, the   *)
(* GUI when its connection is down.                                        *)
(***************************************************************************)

CanWrite(n, frames, up) ==
  IF n \in Devices THEN Len(tx[n]) + Len(frames) <= TxSize ELSE up

\* Frames are written one by one, up to the first that is refused.
Write(n, frames, up) ==
  /\ tx' = [tx EXCEPT ![n] =
       IF CanWrite(n, frames, up) THEN @ \o frames
       ELSE IF n \in Devices THEN @ \o SubSeq(frames, 1, TxSize - Len(@))
       ELSE @]
  /\ disturbed' = (disturbed \/ (up /\ ~CanWrite(n, frames, up)))

\* Bound: frames of a GUI that wait to go out.
Room(n) == n \in Devices \/ Len(tx[n]) < MaxQueue

-----------------------------------------------------------------------------
(***************************************************************************)
(* Generating and claiming an alias.                                       *)
(***************************************************************************)

\* Mutation: the same alias is tried again.
SameAlias(n) == StartAlias[n]

\* Mutation: the highest alias is not followed by the lowest.
UnboundedAlias(n) == IF alias[n] = 0 THEN StartAlias[n] ELSE alias[n] + 1

NextAlias(n) ==
  IF alias[n] = 0 THEN StartAlias[n]
  ELSE IF alias[n] = MaxAlias THEN 1
  ELSE alias[n] + 1

Cids(n) == [i \in 1..CidFrames |-> Sends(n, "cid", NextAlias(n), NoNode)]

\* lcc_context_generate_alias.  When a frame is refused the new alias stays, and
\* so does the state of the one before.
GenerateAlias(n, up) ==
  /\ alias' = [alias EXCEPT ![n] = NextAlias(n)]
  /\ Write(n, Cids(n), up)
  /\ aliasState' = [aliasState EXCEPT ![n] =
                      IF CanWrite(n, Cids(n), up) THEN "sent_cid" ELSE @]
  /\ late' = [late EXCEPT ![n] = FALSE]

\* Mutation: a collision that was seen is forgotten.
MayClaimAnyway(n) == aliasState[n] \in {"sent_cid", "fail"}

\* lcc_context_claim_alias fails unless the CID frames were written and nothing
\* came back, and on a device unless its transmit buffer is empty.
MayClaim(n) ==
  /\ aliasState[n] = "sent_cid"
  /\ n \in Devices => tx[n] = <<>>

\* The rest of lcc_context_claim_alias; the AMD, initialization complete and
\* event frames are one "other" frame.
ClaimAlias(n) ==
  /\ aliasState' = [aliasState EXCEPT ![n] = "good"]
  /\ permitted' = [permitted EXCEPT ![n] = TRUE]
  /\ Write(n, <<Sends(n, "rid", alias[n], NoNode),
                Sends(n, "other", alias[n], NoNode)>>, onBus[n])
  /\ UNCHANGED <<alias, late>>

InFlight == UNION {Range(tx[m]) \cup Range(rx[m]) : m \in Nodes}

\* A CID frame of n, or an answer to one.
Concerns(f, n) == (f.kind = "cid" /\ f.src = n) \/ f.to = n

\* The wait outlasts the bus: the CID frames of n and the answers to them have
\* been handled, unless n was not on the bus for all of it.
WaitIsOver(n) ==
  ~onBus[n] \/ late[n] \/ \A f \in InFlight : ~Concerns(f, n)

\* The GUI gives up when generating an alias fails, a device tries again.
TriesAgain(n) == n \in Devices \/ CanWrite(n, Cids(n), onBus[n])

\* LCCQIoConnection::generateAliasDone, and the loop of a device.
GenerateAliasDone(n) ==
  /\ timer[n] /\ WaitIsOver(n) /\ Room(n)
  /\ \/ /\ MayClaim(n)
        /\ ClaimAlias(n)
        /\ timer' = [timer EXCEPT ![n] = FALSE]
     \/ /\ ~MayClaim(n)
        /\ GenerateAlias(n, onBus[n])
        /\ timer' = [timer EXCEPT ![n] = TriesAgain(n)]
        /\ UNCHANGED permitted
  /\ UNCHANGED <<onBus, rx>>

\* LCCNetworkConnection::stateChanged or LCCSerialConnection::open for the GUI,
\* setup() for a device, which is attached to the bus or not.  Both stop when
\* the CID frames cannot be written.
Start(n) ==
  /\ alias[n] = 0
  /\ \E up \in (IF n \in Devices THEN BOOLEAN ELSE {TRUE}) :
       /\ onBus' = [onBus EXCEPT ![n] = up]
       /\ GenerateAlias(n, up)
       /\ timer' = [timer EXCEPT ![n] = CanWrite(n, Cids(n), up)]
  /\ UNCHANGED <<permitted, rx>>

\* A device is attached while it waits, or after.
Attach(n) ==
  /\ n \in Devices /\ alias[n] # 0 /\ ~onBus[n]
  /\ onBus' = [onBus EXCEPT ![n] = TRUE] /\ late' = [late EXCEPT ![n] = TRUE]
  /\ disturbed' = TRUE
  /\ UNCHANGED <<alias, aliasState, permitted, timer, tx, rx>>

\* The GUI loses its connection, and does not try to reconnect.
Disconnect(n) ==
  /\ n \notin Devices /\ onBus[n]
  /\ onBus' = [onBus EXCEPT ![n] = FALSE]
  /\ tx' = [tx EXCEPT ![n] = <<>>] /\ rx' = [rx EXCEPT ![n] = <<>>]
  /\ UNCHANGED <<alias, aliasState, permitted, timer, late, disturbed>>

-----------------------------------------------------------------------------
(***************************************************************************)
(* Receiving frames.                                                       *)
(***************************************************************************)

\* The frame type is looked at before the bit that tells control frames apart.
IsCidFrame(f) == f.kind \in {"cid", "datagram"}

Answers(n, f) == f.alias = alias[n] /\ IsCidFrame(f)

\* The node that a CID frame asks for.
Asks(f) == IF f.kind = "cid" THEN f.src ELSE NoNode

\* lcc_context_incoming_frame: lcc_context_check_collision, and then
\* lcc_handle_control_frame answers an alias mapping enquiry.
IncomingFrame(n) ==
  /\ rx[n] # <<>>
  /\ rx' = [rx EXCEPT ![n] = Tail(@)]
  /\ LET f == Head(rx[n]) IN
     \/ /\ Answers(n, f)
        /\ Write(n, <<Sends(n, "rid", alias[n], Asks(f))>>, onBus[n])
        /\ UNCHANGED aliasState
     \/ /\ f.alias = alias[n] /\ ~IsCidFrame(f) /\ ~permitted[n]
        /\ aliasState' = [aliasState EXCEPT ![n] = "fail"]
        /\ UNCHANGED <<tx, disturbed>>
     \/ /\ f.kind = "ame" /\ permitted[n]
        /\ Write(n, <<Sends(n, "other", alias[n], NoNode)>>, onBus[n])
        /\ UNCHANGED aliasState
     \/ /\ ~Answers(n, f)
        /\ ~(f.alias = alias[n] /\ ~IsCidFrame(f) /\ ~permitted[n])
        /\ ~(f.kind = "ame" /\ permitted[n])
        /\ UNCHANGED <<aliasState, tx, disturbed>>
  /\ UNCHANGED <<alias, permitted, timer, onBus, late>>

\* A node that has an alias uses it, for a message or a long datagram.
\* Bound: it does so when its earlier frames are out and everybody keeps up.
Talk(n) ==
  /\ permitted[n] /\ tx[n] = <<>> /\ \A m \in Nodes : rx[m] = <<>> /\ Room(m)
  /\ \E k \in {"other", "datagram"} :
       Write(n, <<Sends(n, k, alias[n], NoNode)>>, onBus[n])
  /\ UNCHANGED <<alias, aliasState, permitted, timer, onBus, late, rx>>

-----------------------------------------------------------------------------
(***************************************************************************)
(* The bus and a tool on it, which are external: everybody on the bus gets *)
(* every frame of the others, in the same order.                           *)
(***************************************************************************)

Deliver(f, sender) ==
  /\ \A m \in Nodes : Len(rx[m]) < MaxQueue
  /\ rx' = [m \in Nodes |->
              IF m # sender /\ onBus[m] THEN Append(rx[m], f) ELSE rx[m]]

Transmit(n) ==
  /\ onBus[n] /\ tx[n] # <<>>
  /\ tx' = [tx EXCEPT ![n] = Tail(@)]
  /\ Deliver(Head(tx[n]), n)
  /\ UNCHANGED <<alias, aliasState, permitted, timer, onBus, late, disturbed>>

\* Bound: the tool asks when everybody keeps up.
Enquire ==
  /\ \A n \in Nodes : rx[n] = <<>> /\ Room(n)
  /\ Deliver(Sends(NoNode, "ame", ToolAlias, NoNode), NoNode)
  /\ UNCHANGED <<alias, aliasState, permitted, timer, onBus, late, tx,
                 disturbed>>

-----------------------------------------------------------------------------
Next ==
  \/ \E n \in Nodes : Start(n) \/ Attach(n) \/ Disconnect(n)
  \/ \E n \in Nodes : GenerateAliasDone(n) \/ IncomingFrame(n) \/ Talk(n)
  \/ \E n \in Nodes : Transmit(n)
  \/ Enquire

Spec == Init /\ [][Next]_vars

\* Timers fire, received frames are handled, and the bus is shared fairly.
FairSpec ==
  /\ Spec
  /\ \A n \in Nodes :
       /\ SF_vars(GenerateAliasDone(n))
       /\ WF_vars(IncomingFrame(n))
       /\ SF_vars(Transmit(n))

-----------------------------------------------------------------------------
(***************************************************************************)
(* Properties.                                                             *)
(***************************************************************************)

\* The state has its type.
TypeOK ==
  /\ alias \in [Nodes -> 0..MaxAlias]
  /\ aliasState \in [Nodes -> {"not_set", "sent_cid", "fail", "good"}]
  /\ permitted \in [Nodes -> BOOLEAN]
  /\ timer \in [Nodes -> BOOLEAN]
  /\ onBus \in [Nodes -> BOOLEAN] /\ late \in [Nodes -> BOOLEAN]
  /\ tx \in [Nodes -> Seq(Frame)] /\ rx \in [Nodes -> Seq(Frame)]
  /\ \A n \in Devices : Len(tx[n]) <= TxSize
  /\ disturbed \in BOOLEAN

\* Two nodes on the bus never use the same alias, as long as the wait outlasts
\* the bus, no transmit buffer overflowed and no device was attached late.
UniqueAliases ==
  ~disturbed => \A n, m \in Nodes :
    n # m /\ onBus[n] /\ onBus[m] /\ permitted[n] /\ permitted[m]
      => alias[n] # alias[m]

\* Somebody's CID frame or the answer of n to it will still tell m that n has
\* its alias.
Challenged(m, n) ==
  \/ \E f \in Range(tx[m]) : f.kind = "cid" /\ f.alias = alias[m]
  \/ \E f \in Range(rx[n]) : f.kind = "cid" /\ f.src = m /\ f.alias = alias[m]
  \/ \E f \in Range(tx[n]) \cup Range(rx[m]) :
       f.kind = "rid" /\ f.to = m /\ f.alias = alias[m]

\* A node that negotiates an alias that is in use will be told so before its
\* wait is over.
TakenAliasIsDefended ==
  ~disturbed => \A n, m \in Nodes :
    n # m /\ onBus[n] /\ onBus[m] /\ permitted[n] /\ alias[n] = alias[m]
      => aliasState[m] = "fail" \/ Challenged(m, n)

\* A node on the bus that has no alias is trying to get one.
NegotiationGoesOn ==
  \A n \in Nodes : onBus[n] /\ ~permitted[n] => timer[n]

\* On an undisturbed bus a node finds a free alias once no other negotiates.
LoneNodeSucceeds ==
  \A n \in Nodes :
    (<>[](/\ onBus[n] /\ ~disturbed
          /\ \A m \in Nodes \ {n} : permitted[m] \/ ~onBus[m]))
      => <>permitted[n]
=============================================================================
