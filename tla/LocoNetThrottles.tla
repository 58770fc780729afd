--------------------------- MODULE LocoNetThrottles ---------------------------
(* loconet_throttle.c and loconetthrottle.cpp: throttles of one program that   *)
(* select, drive and dispatch locomotives through the slots of a command       *)
(* station.                                                                    *)
(*                                                                             *)
(* What the program writes goes to the bus in order (`out'), interleaved with  *)
(* the messages of other devices. The command station answers a message at     *)
(* once; every message, also the program's own, comes back to the program      *)
(* (`inq') and is given to all of its throttles. The station is not part of    *)
(* the repository: it answers the way the throttle expects. It has a slot for  *)
(* a locomotive as long as one is free and never gives it to another one.      *)
EXTENDS Integers, Sequences

CONSTANTS
    NumThrottles,\* the throttles of the program, in the order they were made
    AutoSteal,   \* those whose user selects with the flag AUTO_STEAL
    Locos,       \* locomotive numbers
    Slots,       \* the slots of the command station
    Speeds,      \* the speeds that users choose
    TopSpeed,    \* the greatest speed in a message
    NoLoco,      \* the address of a slot that was never given to a locomotive
    MaxSteps,    \* bound: calls of users and foreign messages in a behaviour
    MaxForeign   \* bound: messages of other devices in a behaviour

Throttles == 1..NumThrottles

ASSUME NumAssumption == NumThrottles \in Nat \ {0}
ASSUME LocosAssumption == NoLoco \notin Locos
ASSUME ThrottlesAssumption == AutoSteal \subseteq Throttles
ASSUME SpeedAssumption == TopSpeed \in Nat \ {0} /\ Speeds \subseteq 0..(TopSpeed - 1)
ASSUME BoundsAssumption == MaxSteps \in Nat /\ MaxForeign \in Nat
(* slot_number is 0xFF when no locomotive is selected; slot 0 is for dispatching. *)
NoSlot == 255
DispatchSlot == 0
(* No throttle: what `asked' records of a dispatch that was not carried out. *)
CutShort == 0
ASSUME SlotsAssumption == Slots \subseteq 1..119

VARIABLES
    request_state, request_loco_number, request_slot_number, slot_number,
    locomotive_number, speed,   \* of each struct loconet_throttle
    out,        \* what the program has written and is not on the bus yet
    inq,        \* what was on the bus and the program has not handled yet
    address,    \* command station: the locomotive of each slot
    status,     \* command station: whether each slot is in use
    slotSpeed,  \* command station: the speed it sends to the locomotive of each slot
    given,      \* to how many throttles the front of inq was given
    ops, foreign,  \* the bounds
    asked       \* history: who has ever selected each locomotive, and CutShort once
                \* a dispatch of it was cut short

throttle == <<request_state, request_loco_number, request_slot_number, slot_number,
              locomotive_number, speed>>
station == <<address, status, slotSpeed>>
vars == <<throttle, out, inq, given, station, ops, foreign, asked>>

-------------------------------------------------------------------------------
(* Messages: the fields that matter of each opcode. *)

LocoAddr(l)         == [op |-> "LOCO_ADDR", addr |-> l]
MoveSlot(from, to)  == [op |-> "MOVE_SLOT", source |-> from, slot |-> to]
SlotStat1(s)        == [op |-> "SLOT_STAT1", slot |-> s]    \* its status is COMMON
RequestSlotData(s)  == [op |-> "REQUEST_SLOT_DATA", slot |-> s]
LocoSpeed(s, v)     == [op |-> "LOCO_SPEED", slot |-> s, speed |-> v]
LocoDirFunc(s)      == [op |-> "LOCO_DIR_FUNC", slot |-> s]
SlotRead(s, st, l)  == [op |-> "SLOT_READ_DATA", slot |-> s, status |-> st, addr |-> l]
LongAck             == [op |-> "LONG_ACK"]

Status == {"COMMON", "IN_USE"}
Speed == 0..TopSpeed
SlotNumber == Slots \cup {NoSlot}
States == {"NONE", "REQUEST", "STEAL", "NULL_MOVE", "SET_COMMON"}

Requests ==
    [op : {"LOCO_ADDR"}, addr : Locos]
      \cup [op : {"MOVE_SLOT"}, source : Slots, slot : Slots \cup {DispatchSlot}]
      \cup [op : {"SLOT_STAT1", "REQUEST_SLOT_DATA"}, slot : Slots]
      \cup [op : {"LOCO_SPEED"}, slot : Slots, speed : Speed]
      \cup [op : {"LOCO_DIR_FUNC"}, slot : SlotNumber]
SlotReads == [op : {"SLOT_READ_DATA"}, slot : Slots, status : Status, addr : Locos \cup {NoLoco}]
Message == Requests \cup SlotReads \cup [op : {"LONG_ACK"}]

TypeOK ==
    /\ request_state \in [Throttles -> States]
    /\ request_loco_number \in [Throttles -> Locos \cup {NoLoco}]
    /\ request_slot_number \in [Throttles -> SlotNumber]
    /\ slot_number \in [Throttles -> SlotNumber]
    /\ locomotive_number \in [Throttles -> Locos \cup {NoLoco}]
    /\ speed \in [Throttles -> Speed]
    /\ out \in Seq(Requests)
    /\ inq \in Seq(Message)
    /\ given \in 0..(NumThrottles - 1)
    /\ address \in [Slots -> Locos \cup {NoLoco}]
    /\ status \in [Slots -> Status]
    /\ slotSpeed \in [Slots -> Speed]
    /\ ops \in 0..MaxSteps
    /\ foreign \in 0..MaxForeign
    /\ asked \in [Locos -> SUBSET (Throttles \cup {CutShort})]

(* loconet_throttle_new: zeroes, but for slot_number. *)
Init ==
    /\ request_state = [t \in Throttles |-> "NONE"]
    /\ request_loco_number = [t \in Throttles |-> NoLoco]
    /\ request_slot_number = [t \in Throttles |-> NoSlot]
    /\ slot_number = [t \in Throttles |-> NoSlot]
    /\ locomotive_number = [t \in Throttles |-> NoLoco]
    /\ speed = [t \in Throttles |-> 0]
    /\ out = <<>> /\ inq = <<>> /\ given = 0
    /\ address = [s \in Slots |-> NoLoco]
    /\ status = [s \in Slots |-> "COMMON"]
    /\ slotSpeed = [s \in Slots |-> 0]
    /\ ops = 0 /\ foreign = 0
    /\ asked = [l \in Locos |-> {}]

Selected(t) == slot_number[t] # NoSlot

-------------------------------------------------------------------------------
(* Calls of the user. *)

Op == ops + foreign < MaxSteps /\ ops' = ops + 1

(* loconet_context_write_message *)
Write(m) == out' = Append(out, m)

select_locomotive(t, l) ==
    /\ Op
    /\ ~Selected(t)
    /\ request_state' = [request_state EXCEPT ![t] = "REQUEST"]
    /\ request_loco_number' = [request_loco_number EXCEPT ![t] = l]
    /\ Write(LocoAddr(l))
    /\ asked' = [asked EXCEPT ![l] = @ \cup {t}]
    /\ UNCHANGED <<request_slot_number, slot_number, locomotive_number, speed, inq, given, station, foreign>>

(* Speed 1 is an emergency stop, so speeds are sent with 1 added, but for 0. *)
OnTheBus(v) == IF v = 0 THEN 0 ELSE v + 1

set_speed(t, v) ==
    /\ Op
    /\ Selected(t)
    /\ speed' = [speed EXCEPT ![t] = v]
    /\ Write(LocoSpeed(slot_number[t], OnTheBus(v)))
    /\ UNCHANGED <<request_state, request_loco_number, request_slot_number, slot_number,
                   locomotive_number, inq, given, station, foreign, asked>>

estop(t) ==
    /\ Op
    /\ Selected(t)
    /\ speed' = [speed EXCEPT ![t] = 1]
    /\ Write(LocoSpeed(slot_number[t], 1))
    /\ UNCHANGED <<request_state, request_loco_number, request_slot_number, slot_number,
                   locomotive_number, inq, given, station, foreign, asked>>

(* set_direction, and set_function for the functions 0 to 4: neither looks *)
(* whether a locomotive is selected.                                       *)
update_dirf(t) ==
    /\ Op
    /\ Write(LocoDirFunc(slot_number[t]))
    /\ UNCHANGED <<throttle, inq, given, station, foreign, asked>>

(* The ping that keeps the slot from being purged: the speed as it is stored. *)
slot_update(t) ==
    /\ Op
    /\ Selected(t)
    /\ Write(LocoSpeed(slot_number[t], speed[t]))
    /\ UNCHANGED <<throttle, inq, given, station, foreign, asked>>

(* The first of two steps: the second follows when this message comes back. *)
dispatch(t) ==
    /\ Op
    /\ Selected(t)
    /\ request_state' = [request_state EXCEPT ![t] = "SET_COMMON"]
    /\ Write(SlotStat1(slot_number[t]))
    /\ UNCHANGED <<request_loco_number, request_slot_number, slot_number, locomotive_number,
                   speed, inq, given, station, foreign, asked>>

(* Whatever t waits for, it does not wait for it any more. In a dispatch, this *)
(* leaves it with a slot that the station was told to let go.                  *)
EndRequest(t) ==
    /\ request_state' = [request_state EXCEPT ![t] = "NONE"]
    /\ asked' = IF request_state[t] = "SET_COMMON"
                THEN [asked EXCEPT ![request_loco_number[t]] = @ \cup {CutShort}]
                ELSE asked

(* The user answers the prompt: yes. In any other state, the call only ends what *)
(* the throttle waits for.                                                       *)
confirm_steal(t) ==
    /\ EndRequest(t)
    /\ \/ /\ request_state[t] = "STEAL"
          /\ slot_number' = [slot_number EXCEPT ![t] = request_slot_number[t]]
          /\ Write(RequestSlotData(request_slot_number[t]))
       \/ /\ request_state[t] # "STEAL"
          /\ UNCHANGED <<slot_number, out>>
    /\ UNCHANGED <<request_loco_number, request_slot_number, locomotive_number, speed, inq,
                   given, station, ops, foreign>>

(* The user gives up, in any state. *)
abort_loco_selection(t) ==
    /\ EndRequest(t)
    /\ UNCHANGED <<request_loco_number, request_slot_number, slot_number, locomotive_number,
                   speed, out, inq, given, station, ops, foreign>>

-------------------------------------------------------------------------------
(* The bus and the command station. *)

ReadOf(s) == SlotRead(s, status[s], address[s])

(* A new slot for l, if it has none and one is free. *)
Assign(l) ==
    /\ \A s \in Slots : address[s] # l
    /\ \E s \in Slots :
         /\ address[s] = NoLoco
         /\ address' = [address EXCEPT ![s] = l]
         /\ UNCHANGED <<status, slotSpeed>>
         /\ inq' = inq \o <<LocoAddr(l), SlotRead(s, status[s], l)>>

AnswerLocoAddr(m) ==
    /\ m.op = "LOCO_ADDR"
    /\ \/ Assign(m.addr)
       \/ /\ \E s \in Slots : address[s] = m.addr /\ inq' = inq \o <<m, ReadOf(s)>>
          /\ UNCHANGED station
       \/ /\ \A s \in Slots : address[s] \notin {m.addr, NoLoco}
          /\ inq' = inq \o <<m, LongAck>>
          /\ UNCHANGED station

(* A slot is taken with a null move, unless it is in use already. *)
AnswerNullMove(m) ==
    /\ m.op = "MOVE_SLOT" /\ m.source = m.slot
    /\ \/ /\ status[m.slot] # "IN_USE"
          /\ status' = [status EXCEPT ![m.slot] = "IN_USE"]
          /\ UNCHANGED <<address, slotSpeed>>
          /\ inq' = inq \o <<m, SlotRead(m.slot, "IN_USE", address[m.slot])>>
       \/ /\ status[m.slot] = "IN_USE"
          /\ inq' = inq \o <<m, LongAck>>
          /\ UNCHANGED station

AnswerDispatch(m) ==
    /\ m.op = "MOVE_SLOT" /\ m.slot = DispatchSlot
    /\ status' = [status EXCEPT ![m.source] = "COMMON"]
    /\ UNCHANGED <<address, slotSpeed>>
    /\ inq' = inq \o <<m, SlotRead(m.source, "COMMON", address[m.source])>>

AnswerRequestSlotData(m) ==
    /\ m.op = "REQUEST_SLOT_DATA"
    /\ UNCHANGED station
    /\ inq' = inq \o <<m, ReadOf(m.slot)>>

Obey(m) ==
    /\ m.op \in {"SLOT_STAT1", "LOCO_SPEED", "LOCO_DIR_FUNC"}
    /\ inq' = Append(inq, m)
    /\ address' = address
    /\ status' = IF m.op = "SLOT_STAT1" THEN [status EXCEPT ![m.slot] = "COMMON"] ELSE status
    /\ slotSpeed' = IF m.op = "LOCO_SPEED" THEN [slotSpeed EXCEPT ![m.slot] = m.speed] ELSE slotSpeed

CommandStation(m) ==
    \/ AnswerLocoAddr(m) \/ AnswerNullMove(m) \/ AnswerDispatch(m)
    \/ AnswerRequestSlotData(m) \/ Obey(m)

Transmit ==
    /\ out # <<>>
    /\ CommandStation(Head(out))
    /\ out' = Tail(out)
    /\ UNCHANGED <<throttle, given, ops, foreign, asked>>

(* Another device on the bus: a throttle or the slot monitor of another program. *)
ForeignMessages ==
    {LocoAddr(l) : l \in Locos}
      \cup {MoveSlot(s, s) : s \in Slots} \cup {MoveSlot(s, DispatchSlot) : s \in Slots}
      \cup {SlotStat1(s) : s \in Slots} \cup {RequestSlotData(s) : s \in Slots}
      \cup {LocoSpeed(s, v) : s \in Slots, v \in Speeds}

Foreign ==
    /\ foreign < MaxForeign /\ ops + foreign < MaxSteps
    /\ foreign' = foreign + 1
    /\ \E m \in ForeignMessages : CommandStation(m)
    /\ UNCHANGED <<throttle, out, given, ops, asked>>

-------------------------------------------------------------------------------
(* loconet_throttle_incoming_message: incomingLoconet gives the message at the *)
(* front of inq to one throttle after the other.                               *)

(* Mutation: the answer to another throttle is taken for its own. *)
AsksForAny(t, m) == request_state[t] = "REQUEST"

Asks(t, m) == request_state[t] = "REQUEST" /\ request_loco_number[t] = m.addr

(* Mutation: the slot is taken, and read again, but not moved. *)
TakeUnmoved(t, m) ==
    /\ Asks(t, m) /\ m.status # "IN_USE"
    /\ request_state' = [request_state EXCEPT ![t] = "NULL_MOVE"]
    /\ slot_number' = [slot_number EXCEPT ![t] = m.slot]
    /\ locomotive_number' = [locomotive_number EXCEPT ![t] = m.addr]
    /\ Write(RequestSlotData(m.slot))
    /\ UNCHANGED <<request_loco_number, request_slot_number, speed>>

(* The locomotive is free: take its slot and make it ours with a null move.    *)
(* Behind the first `if' the state is NULL_MOVE, and the second one takes this *)
(* message, which the move was decided on, to be the answer to the move.       *)
TakeFree(t, m) ==
    /\ Asks(t, m) /\ m.status # "IN_USE"
    /\ request_state' = [request_state EXCEPT ![t] = "NULL_MOVE"]
    /\ slot_number' = [slot_number EXCEPT ![t] = m.slot]
    /\ locomotive_number' = [locomotive_number EXCEPT ![t] = m.addr]
    /\ Write(MoveSlot(m.slot, m.slot))
    /\ UNCHANGED <<request_loco_number, request_slot_number, speed>>

(* It is in use: steal it, ... *)
Steal(t, m) ==
    /\ Asks(t, m) /\ m.status = "IN_USE" /\ t \in AutoSteal
    /\ request_state' = [request_state EXCEPT ![t] = "NONE"]
    /\ request_slot_number' = [request_slot_number EXCEPT ![t] = m.slot]
    /\ slot_number' = [slot_number EXCEPT ![t] = m.slot]
    /\ Write(RequestSlotData(m.slot))
    /\ UNCHANGED <<request_loco_number, locomotive_number, speed>>

(* ... or ask the user, if there is a callback, and wait. *)
PromptSteal(t, m) ==
    /\ Asks(t, m) /\ m.status = "IN_USE" /\ t \notin AutoSteal
    /\ request_state' = [request_state EXCEPT ![t] = "STEAL"]
    /\ request_slot_number' = [request_slot_number EXCEPT ![t] = m.slot]
    /\ UNCHANGED <<request_loco_number, slot_number, locomotive_number, speed, out>>

NullMoveDone(t, m) ==
    /\ request_state[t] = "NULL_MOVE" /\ request_loco_number[t] = m.addr
    /\ locomotive_number' = [locomotive_number EXCEPT ![t] = m.addr]
    /\ UNCHANGED <<request_state, request_loco_number, request_slot_number, slot_number, speed, out>>

SlotReadData(t, m) ==
    /\ m.op = "SLOT_READ_DATA"
    /\ \/ TakeFree(t, m) \/ Steal(t, m) \/ PromptSteal(t, m) \/ NullMoveDone(t, m)
       \/ /\ ~Asks(t, m)
          /\ ~(request_state[t] = "NULL_MOVE" /\ request_loco_number[t] = m.addr)
          /\ UNCHANGED <<throttle, out>>

(* Any acknowledgement ends a null move, also one for another throttle. *)
LongAcknowledge(t, m) ==
    /\ m.op = "LONG_ACK"
    /\ request_state' = IF request_state[t] = "NULL_MOVE"
                        THEN [request_state EXCEPT ![t] = "NONE"] ELSE request_state
    /\ UNCHANGED <<request_loco_number, request_slot_number, slot_number, locomotive_number,
                   speed, out>>

(* The speed of any slot becomes the speed of every throttle. *)
LocoSpeedSeen(t, m) ==
    /\ m.op = "LOCO_SPEED"
    /\ speed' = [speed EXCEPT ![t] = IF m.speed = 0 THEN 0 ELSE m.speed - 1]
    /\ UNCHANGED <<request_state, request_loco_number, request_slot_number, slot_number,
                   locomotive_number, out>>

(* The second step of a dispatch. *)
SlotStat1Seen(t, m) ==
    /\ m.op = "SLOT_STAT1"
    /\ IF slot_number[t] = m.slot /\ request_state[t] = "SET_COMMON"
       THEN /\ Write(MoveSlot(m.slot, DispatchSlot))
            /\ slot_number' = [slot_number EXCEPT ![t] = NoSlot]
            /\ request_state' = [request_state EXCEPT ![t] = "NONE"]
       ELSE UNCHANGED <<slot_number, request_state, out>>
    /\ UNCHANGED <<request_loco_number, request_slot_number, locomotive_number, speed>>

Ignored(m) ==
    /\ m.op \in {"LOCO_ADDR", "MOVE_SLOT", "REQUEST_SLOT_DATA", "LOCO_DIR_FUNC"}
    /\ UNCHANGED <<throttle, out>>

incoming_message ==
    /\ inq # <<>>
    /\ LET t == given + 1
           m == Head(inq)
       IN  /\ SlotReadData(t, m) \/ LongAcknowledge(t, m) \/ LocoSpeedSeen(t, m)
                 \/ SlotStat1Seen(t, m) \/ Ignored(m)
           /\ IF t = NumThrottles THEN inq' = Tail(inq) /\ given' = 0
                                  ELSE inq' = inq /\ given' = t
    /\ UNCHANGED <<station, ops, foreign, asked>>

-------------------------------------------------------------------------------
User ==
    \E t \in Throttles :
        \/ \E l \in Locos : select_locomotive(t, l)
        \/ \E v \in Speeds : set_speed(t, v)
        \/ estop(t) \/ update_dirf(t) \/ slot_update(t) \/ dispatch(t)
        \/ confirm_steal(t) \/ abort_loco_selection(t)

Next ==
    \/ given = 0 /\ User
    \/ Transmit
    \/ Foreign
    \/ incoming_message

(* The interface sends what it was given, and the event loop handles what it gets. *)
Spec == Init /\ [][Next]_vars /\ WF_vars(Transmit) /\ WF_vars(incoming_message)

-------------------------------------------------------------------------------
(* Properties. *)

(* A throttle drives a locomotive through a slot that the station gave to that *)
(* locomotive, whatever answers to other throttles and devices it has heard.   *)
SlotHoldsLoco ==
    \A t \in Throttles : Selected(t) => address[slot_number[t]] = request_loco_number[t]

(* Whichever way a throttle came by its slot, the station has it in use, or the *)
(* null move is on its way, until the throttle dispatches it. Only as long as   *)
(* nobody else wants the same locomotive, since the two steps of a dispatch and *)
(* the answers to others get in each other's way, and no dispatch of it was cut *)
(* short between its two steps.                                                 *)
ControlUntilDispatched ==
    \A t \in Throttles :
        LET s == slot_number[t] IN
        (/\ Selected(t) /\ request_state[t] # "SET_COMMON"
         /\ foreign = 0 /\ asked[request_loco_number[t]] = {t})
          => status[s] = "IN_USE" \/ \E i \in DOMAIN out : out[i] = MoveSlot(s, s)

(* A dispatch ends: its own message comes back, and the slot is let go. *)
DispatchEnds ==
    \A t \in Throttles : request_state[t] = "SET_COMMON" ~> ~Selected(t)

(* The throttles implement LocoControl. *)
control ==
    LET l(t) == request_loco_number[t] IN
    [t \in Throttles |->
        CASE Selected(t) /\ request_state[t] # "SET_COMMON" -> <<"driving", address[slot_number[t]]>>
          [] Selected(t) /\ request_state[t] = "SET_COMMON" -> <<"leaving", address[slot_number[t]]>>
          [] ~Selected(t) /\ request_state[t] \in {"REQUEST", "STEAL"} -> <<"wanting", l(t)>>
          [] OTHER -> <<"none">>]
Control == INSTANCE LocoControl
ControlSpec == Control!Spec
==============================================================================
