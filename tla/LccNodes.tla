------------------------------- MODULE LccNodes -------------------------------
(* Nodes of an LCC bus that announce themselves and answer questions (lcc.c,     *)
(* lcc-simple.c, lcc-addressed.c, lcc-event.c), and the table of nodes that the   *)
(* GUI builds from what it hears (lcc-network-info.c, lcc-node-info.c, the views  *)
(* lccnetworkview.cpp, lccnodeinformation.cpp and the start of the event graph).  *)
(*                                                                                *)
(* A frame is handled when it is on the bus. Replies to the GUI are not checked   *)
(* for whom they are meant; simple node information comes in several frames, here  *)
(* two, that are put together in the entry with the sender's alias. A frame counts *)
(* as one byte of rx_buffer.                                                       *)
EXTENDS EventList, FiniteSets, SequencesExt, FiniteSetsExt

CONSTANTS
    Nodes,          \* the identifiers of the devices
    Tool,           \* the GUI
    NoNode,         \* none of these
    Aliases,        \* positive integers
    Events,         \* integers, as event IDs are compared
    InitialAliases, \* the aliases that devices may have at the start
    InitialLists,   \* the lists that applications may have made before
    Changing,       \* bound: the devices whose lists change later
    TxSize,         \* frames that a device can have waiting (its write_function)
    RxParts,        \* the size of rx_buffer
    MaxExternal     \* bound: what users, applications and other nodes do

NoAlias == 0
Kinds   == {"produced", "consumed"}

ASSUME NodesAssumption == NoNode \notin Nodes /\ Tool \notin Nodes
ASSUME NumbersAssumption == Aliases \subseteq Nat \ {NoAlias} /\ Events \subseteq Int
(* No two devices start with one alias, and what an application has given a list is sorted. *)
ASSUME StartAssumption ==
    /\ \A a \in InitialAliases :
         /\ a \in [Nodes -> Aliases \cup {NoAlias}]
         /\ \A m, n \in Nodes : a[m] = a[n] /\ a[m] # NoAlias => m = n
    /\ \A l \in InitialLists :
         /\ l \in [Nodes -> [Kinds -> Seq(Events)]]
         /\ \A n \in Nodes, k \in Kinds : \A i, j \in DOMAIN l[n][k] : i < j => l[n][k][i] <= l[n][k][j]
(* rx_buffer takes the whole of a simple node information. *)
ASSUME SizesAssumption == TxSize \in Nat /\ RxParts \in Nat \ {0, 1} /\ MaxExternal \in Nat

VARIABLES
    alias,      \* node_alias of a permitted device, NoAlias otherwise
    list,       \* events_produced, events_consumed
    open,       \* in_add_..._event_transaction
    wanted,     \* history: the events added since they were removed or cleared
    out,        \* frames written by a device, or by the GUI, and not yet on the bus
    table,      \* node_info_list
    graph,      \* the nodes of the event graph (m_status)
    graphOpen,  \* its controller exists
    told,       \* the devices whose application is told of an event report in this step
    new,        \* history: the devices that came after the last refresh
    disturbed,  \* history: a frame was lost, or an alias handed on, since the last refresh
    left        \* how much may still happen from outside

deviceVars == <<alias, list, open, wanted>>
toolVars   == <<table, graph, graphOpen>>
networkVars == <<deviceVars, out, toolVars, told, new, disturbed, left>>

Entry == [id : Nodes, alias : Aliases, produced : Seq(Events), consumed : Seq(Events),
          protocols : BOOLEAN, info : {"none", "own", "garbled"},
          rx : Seq([part : {"first", "last"}, id : Nodes])]

FrameKinds == Kinds \cup {"initialized", "verify", "verify addressed", "verified", "protocols?", "protocols",
                          "info?", "info", "produced?", "consumed?", "identify", "report"}
Frames == [kind : FrameKinds, src : Aliases \cup {NoAlias}, to : Aliases \cup {NoAlias},
           id : Nodes \cup {NoNode}, event : Int, part : {"first", "last", "only"}]

NetworkTypeOK ==
    /\ alias \in [Nodes -> Aliases \cup {NoAlias}]
    /\ list \in [Nodes -> [Kinds -> Seq(Events)]]
    /\ open \in [Nodes -> [Kinds -> BOOLEAN]]
    /\ wanted \in [Nodes -> [Kinds -> SUBSET Events]]
    /\ out \in [Nodes \cup {Tool} -> Seq(Frames)]
    /\ \A n \in Nodes : Len(out[n]) <= TxSize
    /\ table \in Seq(Entry)
    /\ graph \in SUBSET Nodes /\ graphOpen \in BOOLEAN
    /\ told \in SUBSET Nodes /\ new \in SUBSET Nodes /\ disturbed \in BOOLEAN
    /\ left \in 0..MaxExternal
    \* No two nodes are entered twice. What comes for rx_buffer is not bounded by its
    \* size: one more is written, behind its end, but no more than that.
    /\ \A i, j \in DOMAIN table : table[i].id = table[j].id => i = j
    /\ \A i \in DOMAIN table : Len(table[i].rx) <= RxParts + 1

Permitted == {n \in Nodes : alias[n] # NoAlias}

-------------------------------------------------------------------------------
(* Frames. *)

Frame(kind, src, to) == [kind |-> kind, src |-> src, to |-> to, id |-> NoNode, event |-> 0, part |-> "only"]
Verified(n)       == [Frame("verified", alias[n], NoAlias) EXCEPT !.id = n]
Identified(a, k, e) == [Frame(k, a, NoAlias) EXCEPT !.event = e]

(* lcc_handle_addressed, l.108-149: the strings in frames of six bytes, here in two. *)
SimpleInfo(n) ==
    LET Part(p) == [Frame("info", alias[n], NoAlias) EXCEPT !.part = p, !.id = n]
    IN  <<Part("first"), Part("last")>>

(* lcc_send_events_produced, lcc_send_events_consumed *)
EventsOf(n, a, k) == [i \in DOMAIN list[n][k] |-> Identified(a, k, list[n][k][i])]

(* The frames of `frames' that write_function takes: they are written until one is *)
(* refused, and the rest is never sent.                                            *)
Written(n, frames) == SubSeq(frames, 1, Min({Len(frames), TxSize - Len(out[n])}))

(* lcc_handle_producer_query, lcc_handle_consumer_query *)
Query(n, k, e) == IF HasEvent(list[n][k], e) THEN <<Identified(alias[n], k, e)>> ELSE <<>>

(* lcc_handle_simple_protocol, lcc_handle_addressed: what n answers to f. *)
Answers(n, f) ==
    CASE f.kind = "verify" /\ f.id \in {NoNode, n} -> <<Verified(n)>>
      [] f.kind = "verify addressed" /\ f.to = alias[n] -> <<Verified(n)>>
      [] f.kind = "protocols?" /\ f.to = alias[n] -> <<Frame("protocols", alias[n], NoAlias)>>
      [] f.kind = "info?" /\ f.to = alias[n] -> SimpleInfo(n)
      [] f.kind = "produced?" -> Query(n, "produced", f.event)
      [] f.kind = "consumed?" -> Query(n, "consumed", f.event)
      [] f.kind = "identify" /\ f.to \in {NoAlias, alias[n]} -> EventsOf(n, alias[n], "produced")
      [] OTHER -> <<>>

(* lcc_handle_producer_consumer; listen_all_events, which tells of every event, is *)
(* left out.                                                                      *)
IsTold(n, f) == f.kind = "report" /\ HasEvent(list[n]["consumed"], f.event)

-------------------------------------------------------------------------------
(* The GUI. *)

(* lcc_node_refresh_protocol_support, lcc_node_refresh_simple_info *)
AskProtocols(a) == Frame("protocols?", NoAlias, a)
AskInfo(a)      == Frame("info?", NoAlias, a)

(* LCCNetworkView::newNodeFound and EventGraphController::nodeDiscovered. The graph *)
(* also asks for events, with messages of a type that no node answers (0x91C and    *)
(* 0x8FC, lcc-node-info.c:98 and 112); these are left out.                          *)
ViewAsks(a)  == <<AskProtocols(a), AskInfo(a)>>
GraphAsks(a) == <<AskInfo(a), AskProtocols(a)>>

(* The first entry with this alias, if there is one. *)
At(a) == {i \in DOMAIN table : table[i].alias = a /\ \A j \in 1..(i - 1) : table[j].alias # a}

(* Mutation: a node is told by its alias. *)
IsNewByAlias(f) == f.kind = "verified" /\ At(f.src) = {}

IsNew(f) == f.kind = "verified" /\ \A i \in DOMAIN table : table[i].id # f.id

(* lcc_network_add_node_if_new; a node that is known keeps the alias it had. *)
AddNode(f) ==
    /\ table' = Append(table, [id |-> f.id, alias |-> f.src, produced |-> <<>>, consumed |-> <<>>,
                               protocols |-> FALSE, info |-> "none", rx |-> <<>>])
    /\ graph' = IF graphOpen THEN graph \cup {f.id} ELSE graph
    /\ UNCHANGED graphOpen

(* What is asked of a node that was added. *)
Asked(f) ==
    IF ~IsNew(f) THEN <<>>
    ELSE ViewAsks(f.src) \o (IF graphOpen /\ f.id \notin graph THEN GraphAsks(f.src) ELSE <<>>)

(* Mutation: nothing looks at the size of rx_buffer. *)
ReceivedUnbounded(rx, f) == Append(rx, [part |-> f.part, id |-> f.id])

(* It is written as long as its location is not greater than its size, and so also *)
(* when it is full, one behind its end.                                            *)
Received(rx, f) == IF Len(rx) > RxParts THEN rx ELSE Append(rx, [part |-> f.part, id |-> f.id])

(* Mutation: rx_buffer_location is not set back when the information was understood. *)
TakePartKeepsBuffer(entry, f) ==
    LET got == Received(entry.rx, f)
    IN  IF f.part = "last" /\ got[1].part = "first"
        THEN [entry EXCEPT !.rx = got, !.info = IF Len(got) = 2 THEN "own" ELSE "garbled"]
        ELSE [entry EXCEPT !.rx = got]

(* lcc_network_handle_simple_node_reply: the last frame is understood if the first *)
(* byte says that four strings follow, and otherwise rx_buffer stays as it is.     *)
TakePart(entry, f) ==
    LET got == Received(entry.rx, f)
        whole == <<[part |-> "first", id |-> entry.id], [part |-> "last", id |-> entry.id]>>
    IN  IF f.part = "last" /\ got[1].part = "first"
        THEN [entry EXCEPT !.rx = <<>>, !.info = IF got = whole THEN "own" ELSE "garbled"]
        ELSE [entry EXCEPT !.rx = got]

(* lcc_network_handle_protcol_support_reply, lcc_network_add_event_..._to_node *)
Updated(entry, f) ==
    CASE f.kind = "protocols" -> [entry EXCEPT !.protocols = TRUE]
      [] f.kind = "info"      -> TakePart(entry, f)
      [] f.kind = "produced"  -> [entry EXCEPT !.produced = AddEvent(@, f.event, TRUE)]
      [] f.kind = "consumed"  -> [entry EXCEPT !.consumed = AddEvent(@, f.event, TRUE)]
      [] OTHER -> entry

(* lcc_network_incoming_frame *)
NetworkIncomingFrame(f) ==
    \/ IsNew(f) /\ AddNode(f)
    \/ /\ ~IsNew(f)
       /\ table' = [i \in DOMAIN table |-> IF i \in At(f.src) THEN Updated(table[i], f) ELSE table[i]]
       /\ UNCHANGED <<graph, graphOpen>>

Quiet == \A s \in Nodes \cup {Tool} : out[s] = <<>>

(* lcc_network_refresh_nodes *)
RefreshNodes(asked) ==
    /\ table' = <<>>
    /\ out' = [out EXCEPT ![Tool] = @ \o asked \o <<Frame("verify", NoAlias, NoAlias)>>]
    /\ new' = {}
    /\ disturbed' = (disturbed /\ ~Quiet)

Budget(cost) == left >= cost /\ left' = left - cost
External == Budget(2) /\ told' = {}

(* LCCNetworkView::on_queryNetwork_clicked *)
QueryNetwork ==
    /\ External
    /\ RefreshNodes(<<>>)
    /\ UNCHANGED <<deviceVars, graph, graphOpen>>

(* EventGraphController::start: what is known becomes part of the graph, and the *)
(* network is asked again, without a word to the view.                           *)
StartGraph ==
    /\ External
    /\ ~graphOpen /\ graphOpen' = TRUE
    /\ graph' = {table[i].id : i \in DOMAIN table}
    /\ RefreshNodes([k \in 1..(2 * Len(table)) |-> GraphAsks(table[(k + 1) \div 2].alias)[2 - (k % 2)]])
    /\ UNCHANGED deviceVars

(* LCCNodeInformation::on_queryProtocolsSimpleNode_clicked; when the bus is silent *)
(* it may be pressed more often.                                                   *)
QueryNode(i) ==
    /\ Budget(IF Quiet THEN 1 ELSE 2) /\ told' = {}
    /\ out' = [out EXCEPT ![Tool] = @ \o GraphAsks(table[i].alias)]
    /\ UNCHANGED <<deviceVars, toolVars, new, disturbed>>

-------------------------------------------------------------------------------
(* The bus. *)

Told(f, s) == {n \in Permitted \ {s} : IsTold(n, f)}

(* The frame of a device goes out: the GUI hears it, and asks if the node is new. *)
DeviceSends(n) ==
    /\ out[n] # <<>>
    /\ LET f == Head(out[n])
       IN  /\ NetworkIncomingFrame(f)
           /\ out' = [out EXCEPT ![n] = Tail(@), ![Tool] = @ \o Asked(f)]
           /\ told' = Told(f, n)
    /\ UNCHANGED <<deviceVars, new, disturbed, left>>

(* The GUI does not get it. *)
ToolMisses(n) ==
    /\ Budget(2)
    /\ out[n] # <<>>
    /\ out' = [out EXCEPT ![n] = Tail(@)]
    /\ told' = Told(Head(out[n]), n)
    /\ disturbed' = TRUE
    /\ UNCHANGED <<deviceVars, toolVars, new>>

(* Every device hears f (lcc_context_incoming_frame) and answers as far as its *)
(* frames are taken.                                                           *)
Answered(f, before) ==
    /\ out' = [t \in DOMAIN out |->
                 IF t \in Permitted THEN before[t] \o Written(t, Answers(t, f)) ELSE before[t]]
    /\ disturbed' = (disturbed \/ \E n \in Permitted : Written(n, Answers(n, f)) # Answers(n, f))
    /\ told' = Told(f, Tool)

ToolSends ==
    /\ out[Tool] # <<>>
    /\ Answered(Head(out[Tool]), [out EXCEPT ![Tool] = Tail(@)])
    /\ UNCHANGED <<deviceVars, toolVars, new, left>>

(* The questions of other nodes; bound: those about events, or about one node, come *)
(* when the bus is silent.                                                          *)
AskedOf(kind)    == {Frame(kind, NoAlias, a) : a \in Aliases}
AskedAbout(kind) == {[Frame(kind, NoAlias, NoAlias) EXCEPT !.event = e] : e \in Events}

Questions == {Frame("verify", NoAlias, NoAlias)} \cup AskedOf("verify addressed") \cup AskedOf("info?")
QuietQuestions ==
    {[Frame("verify", NoAlias, NoAlias) EXCEPT !.id = n] : n \in Nodes}
      \cup {Frame("identify", NoAlias, NoAlias)} \cup AskedOf("identify")
      \cup AskedAbout("produced?") \cup AskedAbout("consumed?") \cup AskedAbout("report")

OtherSends(f) ==
    /\ \/ f \in Questions /\ Budget(2)
       \/ f \in QuietQuestions /\ Budget(1) /\ Quiet
    /\ Answered(f, out)
    /\ UNCHANGED <<deviceVars, toolVars, new>>

-------------------------------------------------------------------------------
(* The devices and their applications. *)

(* lcc_context_claim_alias: initialization complete, and all events. It is not *)
(* looked at whether they are taken.                                           *)
Claim(n, a) ==
    /\ External
    /\ alias[n] = NoAlias /\ \A m \in Nodes : alias[m] # a
    /\ alias' = [alias EXCEPT ![n] = a]
    /\ out' = [out EXCEPT ![n] = Written(n, <<Frame("initialized", a, NoAlias)>>
                                    \o EventsOf(n, a, "produced") \o EventsOf(n, a, "consumed"))]
    /\ new' = new \cup {n}
    /\ disturbed' = (disturbed \/ \E i \in DOMAIN table : (table[i].id = n) # (table[i].alias = a))
    /\ UNCHANGED <<list, open, wanted, toolVars>>

(* A device is switched off, with what it had still to send. *)
SwitchOff(n) ==
    /\ External
    /\ alias[n] # NoAlias
    /\ alias' = [alias EXCEPT ![n] = NoAlias]
    /\ out' = [out EXCEPT ![n] = <<>>]
    /\ open' = [open EXCEPT ![n] = [k \in Kinds |-> FALSE]]
    /\ list' = [list EXCEPT ![n] = [k \in Kinds |-> <<>>]]
    /\ wanted' = [wanted EXCEPT ![n] = [k \in Kinds |-> {}]]
    /\ disturbed' = (disturbed \/ out[n] # <<>>)
    /\ UNCHANGED <<toolVars, new>>

(* Bound: an application changes its lists when the bus is silent. *)
NewList(n, k, l, w) ==
    /\ Budget(1) /\ told' = {}
    /\ n \in Changing /\ Quiet
    /\ list' = [list EXCEPT ![n][k] = l]
    /\ wanted' = [wanted EXCEPT ![n][k] = w]
    /\ UNCHANGED <<alias, out, toolVars, new, disturbed>>

(* lcc_event_add_event_produced, lcc_event_add_event_consumed *)
AddToList(n, k, e) ==
    /\ NewList(n, k, AddEvent(list[n][k], e, ~open[n][k]), wanted[n][k] \cup {e})
    /\ UNCHANGED open

(* lcc_event_remove_event_consumed *)
RemoveFromList(n, e) ==
    /\ NewList(n, "consumed", RemoveEvent(list[n]["consumed"], e), wanted[n]["consumed"] \ {e})
    /\ UNCHANGED open

(* lcc_event_clear_events *)
ClearList(n, k) == NewList(n, k, <<>>, {}) /\ UNCHANGED open

(* lcc_event_add_event_..._transaction_start, ..._end *)
StartTransaction(n, k) ==
    /\ NewList(n, k, list[n][k], wanted[n][k])
    /\ open' = [open EXCEPT ![n][k] = TRUE]

EndTransaction(n, k) ==
    /\ NewList(n, k, SortedList(list[n][k]), wanted[n][k])
    /\ open' = [open EXCEPT ![n][k] = FALSE]

(* lcc_event_produce_event *)
ProduceEvent(n, e) ==
    /\ External
    /\ n \in Permitted
    /\ out' = [out EXCEPT ![n] = @ \o Written(n, <<Identified(alias[n], "report", e)>>)]
    /\ UNCHANGED <<deviceVars, toolVars, new, disturbed>>

-------------------------------------------------------------------------------
(* LCCNetworkView::setLCCConnection: "Automatically query the network as soon as we're *)
(* connected".                                                                         *)
NetworkInit ==
    /\ alias \in InitialAliases
    /\ list \in InitialLists
    /\ open = [n \in Nodes |-> [k \in Kinds |-> FALSE]]
    /\ wanted = [n \in Nodes |-> [k \in Kinds |-> ToSet(list[n][k])]]
    /\ out = [s \in Nodes \cup {Tool} |-> IF s = Tool THEN <<Frame("verify", NoAlias, NoAlias)>> ELSE <<>>]
    /\ table = <<>> /\ graph = {} /\ graphOpen = FALSE
    /\ told = {} /\ new = {} /\ disturbed = FALSE
    /\ left = MaxExternal

Application(n) ==
    \/ \E a \in Aliases : Claim(n, a)
    \/ SwitchOff(n)
    \/ \E e \in Events : RemoveFromList(n, e) \/ ProduceEvent(n, e)
    \/ \E k \in Kinds :
         \/ \E e \in Events : AddToList(n, k, e)
         \/ ClearList(n, k)
         \/ StartTransaction(n, k)
         \/ EndTransaction(n, k)

NetworkNext ==
    \/ \E n \in Nodes : DeviceSends(n) \/ ToolMisses(n) \/ Application(n)
    \/ \E f \in Questions \cup QuietQuestions : OtherSends(f)
    \/ ToolSends
    \/ QueryNetwork \/ StartGraph \/ \E i \in DOMAIN table : QueryNode(i)

NetworkSpec == NetworkInit /\ [][NetworkNext]_networkVars

-------------------------------------------------------------------------------
(* The properties. *)

(* A device's application is told of every event that it consumes, as soon as its  *)
(* transactions are over: the list is sorted whenever it is bisected, whatever was *)
(* added and removed before.                                                       *)
ConsumersAreTold ==
    [][\A f \in {g \in QuietQuestions : g.kind = "report"} :
         OtherSends(f) => \A n \in Permitted :
            (f.event \in wanted[n]["consumed"] /\ ~open[n]["consumed"]) => n \in told']_networkVars

(* When the bus is silent after a refresh, the table has every node that was there *)
(* before, by its alias, with what it is asked for (lcc_network_add_node_if_new and *)
(* the questions of the views).                                                     *)
AllAreKnown ==
    Quiet => \A n \in Permitted \ new : \E i \in DOMAIN table :
        table[i].id = n /\ table[i].alias = alias[n] /\ table[i].protocols /\ table[i].info = "own"

(* No entry shows a mixture of two pieces of information, or that of another node,  *)
(* although rx_buffer takes whatever comes (lcc_network_handle_simple_node_reply).  *)
InfoIsOwn == \A i \in DOMAIN table : table[i].info # "garbled"

(* The table of nodes is true, in every order in which views, graph, other nodes and *)
(* the devices themselves ask and answer, unless a frame was lost or an alias handed *)
(* on since the last refresh: every node is in it, and nothing in it is a mixture.   *)
TableIsTrue == disturbed \/ (AllAreKnown /\ InfoIsOwn)
===============================================================================
