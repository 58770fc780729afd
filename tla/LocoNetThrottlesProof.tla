------------------------ MODULE LocoNetThrottlesProof ------------------------
(* The proofs about LocoNetThrottles: its types, that a throttle drives through *)
(* a slot of its locomotive, that it implements LocoControl, and that it keeps  *)
(* control of its locomotive until it dispatches it.                            *)
EXTENDS LocoNetThrottles, TLAPS

(* What the states of a selection say about the slot. *)
Selecting ==
    \A t \in Throttles :
        /\ (request_state[t] \in {"REQUEST", "STEAL"} => slot_number[t] = NoSlot)
        /\ (request_state[t] \in {"NULL_MOVE", "SET_COMMON"} => slot_number[t] # NoSlot)
        /\ ((request_state[t] \in {"REQUEST", "STEAL"} \/ slot_number[t] # NoSlot)
               => request_loco_number[t] \in Locos)
        /\ (request_state[t] = "STEAL" =>
               (request_slot_number[t] \in Slots
                  /\ address[request_slot_number[t]] = request_loco_number[t]))

(* An answer that tells of a slot stays true: a slot is given to a locomotive once. *)
TrueRead(m, a) == (m.op = "SLOT_READ_DATA" /\ m.addr # NoLoco) => a[m.slot] = m.addr
TrueReads(q, a) == \A i \in 1..Len(q) : TrueRead(q[i], a)

IInv == TypeOK /\ Selecting /\ SlotHoldsLoco /\ TrueReads(inq, address)

AddressKept == \A s \in Slots : address[s] # NoLoco => address'[s] = address[s]

-------------------------------------------------------------------------------
(* Sequences. *)

LEMMA Appending ==
    ASSUME NEW S, NEW q \in Seq(S), NEW e \in S
    PROVE  /\ Append(q, e) \in Seq(S)
           /\ Len(Append(q, e)) = Len(q) + 1
           /\ \A i \in 1..Len(q) : Append(q, e)[i] = q[i]
           /\ Append(q, e)[Len(q) + 1] = e
           /\ Len(q) \in Nat
OBVIOUS

LEMMA ConcatTwo ==
    ASSUME NEW S, NEW q \in Seq(S), NEW e \in S, NEW f \in S
    PROVE  /\ q \o <<e, f>> \in Seq(S)
           /\ q \o <<e, f>> = Append(Append(q, e), f)
<1>1. <<e, f>> \in Seq(S)
  OBVIOUS
<1>2. q \o <<e, f>> \in Seq(S)
  BY ONLY <1>1, q \in Seq(S)
<1>3. Append(Append(q, e), f) \in Seq(S)
  OBVIOUS
<1>4. Len(q \o <<e, f>>) = Len(q) + 2 /\ Len(Append(Append(q, e), f)) = Len(q) + 2 /\ Len(q) \in Nat
  OBVIOUS
<1>5. \A i \in 1..(Len(q) + 2) : (q \o <<e, f>>)[i] = Append(Append(q, e), f)[i]
  OBVIOUS
<1>6. q \o <<e, f>> = Append(Append(q, e), f)
  <2>. DEFINE l == q \o <<e, f>>
              r == Append(Append(q, e), f)
  <2>1. l \in Seq(S) /\ r \in Seq(S) /\ Len(l) = Len(r) /\ \A i \in 1..Len(l) : l[i] = r[i]
    BY <1>2, <1>3, <1>4, <1>5
  <2>2. \A u, v \in Seq(S) : (Len(u) = Len(v) /\ \A i \in 1..Len(u) : u[i] = v[i]) => u = v
    OBVIOUS
  <2>. HIDE DEF l, r
  <2>3. l = r
    BY ONLY <2>1, <2>2
  <2>. QED BY <2>3 DEF l, r
<1>. QED BY <1>2, <1>6

LEMMA HeadTail ==
    ASSUME NEW S, NEW q \in Seq(S), q # <<>>
    PROVE  /\ Head(q) \in S /\ Head(q) = q[1] /\ Tail(q) \in Seq(S)
           /\ Len(q) \in Nat /\ Len(q) >= 1 /\ Len(Tail(q)) = Len(q) - 1
           /\ \A i \in 1..Len(Tail(q)) : Tail(q)[i] = q[i + 1]
OBVIOUS

LEMMA ReadsAppend ==
    ASSUME NEW S, NEW q \in Seq(S), NEW e \in S, NEW a, TrueReads(q, a), TrueRead(e, a)
    PROVE  TrueReads(Append(q, e), a)
<1>. DEFINE r == Append(q, e)
<1>1. /\ Len(r) = Len(q) + 1 /\ Len(q) \in Nat
      /\ \A i \in 1..Len(q) : r[i] = q[i]
      /\ r[Len(q) + 1] = e
  BY ONLY q \in Seq(S), e \in S, Appending
<1>. HIDE DEF r
<1>2. ASSUME NEW i \in 1..Len(r) PROVE TrueRead(r[i], a)
  <2>1. CASE i = Len(q) + 1
    BY <1>1, <2>1
  <2>2. CASE i # Len(q) + 1
    <3>1. i \in 1..Len(q)
      BY ONLY <1>1, <2>2, i \in 1..Len(r)
    <3>. QED BY <1>1, <3>1 DEF TrueReads
  <2>. QED BY <2>1, <2>2
<1>3. TrueReads(r, a)
  BY <1>2 DEF TrueReads
<1>. QED BY <1>3 DEF r

LEMMA ReadsTail ==
    ASSUME NEW S, NEW q \in Seq(S), q # <<>>, NEW a, TrueReads(q, a)
    PROVE  TrueReads(Tail(q), a) /\ TrueRead(Head(q), a)
<1>1. /\ Head(q) = q[1] /\ Len(q) \in Nat /\ Len(q) >= 1 /\ Len(Tail(q)) = Len(q) - 1
      /\ \A i \in 1..Len(Tail(q)) : Tail(q)[i] = q[i + 1]
  BY ONLY q \in Seq(S), q # <<>>, HeadTail
<1>2. ASSUME NEW i \in 1..Len(Tail(q)) PROVE TrueRead(Tail(q)[i], a)
  <2>1. i + 1 \in 1..Len(q) /\ Tail(q)[i] = q[i + 1]
    BY ONLY <1>1, i \in 1..Len(Tail(q))
  <2>. QED BY <2>1 DEF TrueReads
<1>3. 1 \in 1..Len(q)
  BY <1>1
<1>. QED BY <1>1, <1>2, <1>3 DEF TrueReads

LEMMA ReadsKept ==
    ASSUME NEW q \in Seq(Message), NEW a, NEW b, TrueReads(q, a),
           \A s \in Slots : a[s] # NoLoco => b[s] = a[s]
    PROVE  TrueReads(q, b)
<1>1. ASSUME NEW m \in Message, TrueRead(m, a) PROVE TrueRead(m, b)
  <2>1. m.op = "SLOT_READ_DATA" => m.slot \in Slots
    BY DEF Message, Requests, SlotReads
  <2>. QED BY <1>1, <2>1 DEF TrueRead
<1>2. \A i \in 1..Len(q) : q[i] \in Message
  OBVIOUS
<1>. QED BY <1>1, <1>2 DEF TrueReads

-------------------------------------------------------------------------------
(* Messages. *)

(* What a message's opcode says about its fields. *)
Fields(m) ==
    /\ (m.op = "LOCO_ADDR" => m.addr \in Locos)
    /\ (m.op = "MOVE_SLOT" => (m.source \in Slots /\ m.slot \in Slots \cup {DispatchSlot}))
    /\ (m.op \in {"SLOT_STAT1", "REQUEST_SLOT_DATA"} => m.slot \in Slots)
    /\ (m.op = "LOCO_SPEED" => (m.slot \in Slots /\ m.speed \in Speed))
    /\ (m.op = "SLOT_READ_DATA" =>
            (m.slot \in Slots /\ m.status \in Status /\ m.addr \in Locos \cup {NoLoco}))

LEMMA MessageFields == \A m \in Message : Fields(m)
BY DEF Message, Requests, SlotReads, Fields

LEMMA RequestsAre ==
    /\ \A l \in Locos : LocoAddr(l) \in Requests
    /\ \A r \in Slots, s \in Slots \cup {DispatchSlot} : MoveSlot(r, s) \in Requests
    /\ \A s \in Slots : SlotStat1(s) \in Requests /\ RequestSlotData(s) \in Requests
    /\ \A s \in Slots, v \in Speed : LocoSpeed(s, v) \in Requests
    /\ \A s \in SlotNumber : LocoDirFunc(s) \in Requests
BY DEF Requests, LocoAddr, MoveSlot, SlotStat1, RequestSlotData, LocoSpeed, LocoDirFunc

LEMMA ReadsAre ==
    /\ \A s \in Slots, st \in Status, l \in Locos \cup {NoLoco} :
          /\ SlotRead(s, st, l) \in Message
          /\ \A a : TrueRead(SlotRead(s, st, l), a) <=> (l # NoLoco => a[s] = l)
    /\ LongAck \in Message /\ Requests \subseteq Message
    /\ \A m \in Requests \cup {LongAck} : \A a : TrueRead(m, a)
<1>1. \A s \in Slots, st \in Status, l \in Locos \cup {NoLoco} :
          /\ SlotRead(s, st, l) \in Message
          /\ \A a : TrueRead(SlotRead(s, st, l), a) <=> (l # NoLoco => a[s] = l)
  BY DEF Message, SlotReads, SlotRead, TrueRead
<1>2. LongAck \in Message /\ Requests \subseteq Message
  BY DEF Message, LongAck
<1>3. \A m \in Requests \cup {LongAck} : m.op # "SLOT_READ_DATA"
  BY DEF Requests, LongAck
<1>. QED BY <1>1, <1>2, <1>3 DEF TrueRead

LEMMA SlotFacts == NoSlot \notin Slots /\ DispatchSlot \notin Slots
BY SlotsAssumption DEF NoSlot, DispatchSlot

-------------------------------------------------------------------------------
(* The command station. *)

StationOK ==
    /\ address \in [Slots -> Locos \cup {NoLoco}]
    /\ status \in [Slots -> Status]
    /\ slotSpeed \in [Slots -> Speed]
    /\ inq \in Seq(Message)
    /\ TrueReads(inq, address)

LEMMA TwoMore ==
    ASSUME inq \in Seq(Message), NEW e \in Message, NEW f \in Message, NEW a,
           inq' = inq \o <<e, f>>, TrueReads(inq, a), TrueRead(e, a), TrueRead(f, a)
    PROVE  inq' \in Seq(Message) /\ TrueReads(inq', a)
<1>1. inq' \in Seq(Message) /\ inq' = Append(Append(inq, e), f)
  BY ONLY inq \in Seq(Message), e \in Message, f \in Message, inq' = inq \o <<e, f>>, ConcatTwo
<1>2. Append(inq, e) \in Seq(Message)
  BY ONLY inq \in Seq(Message), e \in Message, Appending
<1>3. TrueReads(Append(inq, e), a)
  BY ONLY inq \in Seq(Message), e \in Message, TrueReads(inq, a), TrueRead(e, a), ReadsAppend
<1>4. TrueReads(Append(Append(inq, e), f), a)
  BY ONLY <1>2, <1>3, f \in Message, TrueRead(f, a), ReadsAppend
<1>. QED BY <1>1, <1>4

LEMMA StationStep ==
    ASSUME StationOK, NEW m \in Requests, CommandStation(m)
    PROVE  StationOK' /\ AddressKept
<1>0. m \in Message /\ Fields(m) /\ \A a : TrueRead(m, a)
  BY ReadsAre, MessageFields
<1>1. ASSUME NEW s \in Slots, NEW st \in Status, inq' = inq \o <<m, SlotRead(s, st, address[s])>>,
             UNCHANGED <<address, slotSpeed>>, status' \in [Slots -> Status]
      PROVE  StationOK' /\ AddressKept
  <2>. DEFINE f == SlotRead(s, st, address[s])
  <2>1. address[s] \in Locos \cup {NoLoco}
    BY DEF StationOK
  <2>2. f \in Message /\ TrueRead(f, address)
    BY <2>1, ReadsAre
  <2>. HIDE DEF f
  <2>3. inq \in Seq(Message) /\ TrueReads(inq, address)
    BY DEF StationOK
  <2>4. inq' = inq \o <<m, f>>
    BY <1>1 DEF f
  <2>5. m \in Message /\ TrueRead(m, address)
    BY <1>0
  <2>6. inq' \in Seq(Message) /\ TrueReads(inq', address)
    BY ONLY <2>2, <2>3, <2>4, <2>5, TwoMore
  <2>. QED BY <1>1, <2>6 DEF StationOK, AddressKept
<1>2. ASSUME inq' = inq \o <<m, LongAck>>, UNCHANGED station
      PROVE  StationOK' /\ AddressKept
  <2>. DEFINE f == LongAck
  <2>2. f \in Message /\ TrueRead(f, address)
    BY ReadsAre
  <2>. HIDE DEF f
  <2>3. inq \in Seq(Message) /\ TrueReads(inq, address)
    BY DEF StationOK
  <2>4. inq' = inq \o <<m, f>>
    BY <1>2 DEF f
  <2>5. m \in Message /\ TrueRead(m, address)
    BY <1>0
  <2>6. inq' \in Seq(Message) /\ TrueReads(inq', address)
    BY ONLY <2>2, <2>3, <2>4, <2>5, TwoMore
  <2>. QED BY <1>2, <2>6 DEF StationOK, AddressKept, station
<1>3. CASE m.op = "LOCO_ADDR" /\ Assign(m.addr)
  <2>. DEFINE l == m.addr
  <2>1. l \in Locos
    BY <1>0, <1>3 DEF Fields
  <2>2. PICK s \in Slots :
          /\ address[s] = NoLoco
          /\ address' = [address EXCEPT ![s] = l]
          /\ UNCHANGED <<status, slotSpeed>>
          /\ inq' = inq \o <<LocoAddr(l), SlotRead(s, status[s], l)>>
    BY <1>3 DEF Assign
  <2>. DEFINE e == LocoAddr(l)
              f == SlotRead(s, status[s], l)
  <2>3. address' \in [Slots -> Locos \cup {NoLoco}] /\ AddressKept /\ address'[s] = l
    BY <2>1, <2>2 DEF StationOK, AddressKept
  <2>4. status[s] \in Status
    BY DEF StationOK
  <2>5. f \in Message /\ TrueRead(f, address')
    BY <2>1, <2>3, <2>4, ReadsAre
  <2>6. e \in Message /\ TrueRead(e, address')
    BY <2>1, RequestsAre, ReadsAre
  <2>7. inq' = inq \o <<e, f>>
    BY <2>2
  <2>8. inq \in Seq(Message) /\ TrueReads(inq, address)
    BY DEF StationOK
  <2>9. TrueReads(inq, address')
    BY ONLY <2>3, <2>8, ReadsKept DEF AddressKept
  <2>. HIDE DEF e, f
  <2>10. inq' \in Seq(Message) /\ TrueReads(inq', address')
    BY ONLY <2>5, <2>6, <2>7, <2>8, <2>9, TwoMore
  <2>. QED BY <2>2, <2>3, <2>10 DEF StationOK
<1>4. CASE /\ m.op = "LOCO_ADDR"
           /\ \E s \in Slots : address[s] = m.addr /\ inq' = inq \o <<m, ReadOf(s)>>
           /\ UNCHANGED station
  <2>1. PICK s \in Slots : inq' = inq \o <<m, SlotRead(s, status[s], address[s])>>
    BY <1>4 DEF ReadOf
  <2>2. status[s] \in Status /\ UNCHANGED <<address, slotSpeed>> /\ status' \in [Slots -> Status]
    BY <1>4 DEF StationOK, station
  <2>. QED BY <1>1, <2>1, <2>2
<1>5. CASE AnswerNullMove(m)
  <2>1. m.slot \in Slots
    BY <1>0, <1>5, SlotFacts DEF Fields, AnswerNullMove
  <2>2. CASE status[m.slot] # "IN_USE" /\ status' = [status EXCEPT ![m.slot] = "IN_USE"]
             /\ UNCHANGED <<address, slotSpeed>>
             /\ inq' = inq \o <<m, SlotRead(m.slot, "IN_USE", address[m.slot])>>
    <3>1. "IN_USE" \in Status /\ status' \in [Slots -> Status]
      BY <2>2 DEF StationOK, Status
    <3>. QED BY <1>1, <2>1, <2>2, <3>1
  <2>. QED BY <1>2, <1>5, <2>2 DEF AnswerNullMove
<1>6. CASE AnswerDispatch(m)
  <2>1. m.source \in Slots
    BY <1>0, <1>6 DEF Fields, AnswerDispatch
  <2>2. "COMMON" \in Status /\ status' \in [Slots -> Status]
    BY <1>6 DEF StationOK, Status, AnswerDispatch
  <2>. QED BY <1>1, <1>6, <2>1, <2>2 DEF AnswerDispatch
<1>7. CASE AnswerRequestSlotData(m)
  <2>1. m.slot \in Slots
    BY <1>0, <1>7 DEF Fields, AnswerRequestSlotData
  <2>2. status[m.slot] \in Status /\ UNCHANGED <<address, slotSpeed>> /\ status' \in [Slots -> Status]
    BY <1>7, <2>1 DEF StationOK, station, AnswerRequestSlotData
  <2>. QED BY <1>1, <1>7, <2>1, <2>2 DEF AnswerRequestSlotData, ReadOf
<1>8. CASE Obey(m)
  <2>1. inq \in Seq(Message) /\ TrueReads(inq, address) /\ m \in Message /\ TrueRead(m, address)
    BY <1>0 DEF StationOK
  <2>2. Append(inq, m) \in Seq(Message) /\ TrueReads(Append(inq, m), address)
    BY ONLY <2>1, Appending, ReadsAppend
  <2>3. status' \in [Slots -> Status] /\ slotSpeed' \in [Slots -> Speed]
    BY <1>0, <1>8 DEF StationOK, Obey, Fields, Status
  <2>. QED BY <1>8, <2>2, <2>3 DEF Obey, StationOK, AddressKept
<1>. QED BY <1>2, <1>3, <1>4, <1>5, <1>6, <1>7, <1>8 DEF CommandStation, AnswerLocoAddr

-------------------------------------------------------------------------------
(* The calls of users. *)

LEMMA Writing ==
    ASSUME out \in Seq(Requests), NEW m \in Requests, Write(m)
    PROVE  out' \in Seq(Requests)
BY Appending DEF Write

LEMMA Counting ==
    ASSUME ops \in 0..MaxSteps, Op, foreign \in 0..MaxForeign
    PROVE  ops' \in 0..MaxSteps
BY BoundsAssumption DEF Op

(* What no call of a user changes. *)
Outside == UNCHANGED <<inq, given, station, foreign>>

LEMMA OutsideKept ==
    ASSUME IInv, Outside
    PROVE  /\ inq' \in Seq(Message) /\ given' \in 0..(NumThrottles - 1)
           /\ address' \in [Slots -> Locos \cup {NoLoco}] /\ status' \in [Slots -> Status]
           /\ slotSpeed' \in [Slots -> Speed] /\ foreign' \in 0..MaxForeign
           /\ TrueReads(inq', address')
BY DEF IInv, TypeOK, Outside, station

LEMMA SelectInd ==
    ASSUME IInv, NEW t \in Throttles, NEW l \in Locos, select_locomotive(t, l)
    PROVE  IInv'
<1>1. Outside
  BY DEF select_locomotive, Outside
<1>2. out' \in Seq(Requests)
  BY RequestsAre, Writing DEF IInv, TypeOK, select_locomotive
<1>3. ops' \in 0..MaxSteps
  BY Counting DEF IInv, TypeOK, select_locomotive
<1>4. /\ request_state' \in [Throttles -> States]
      /\ request_loco_number' \in [Throttles -> Locos \cup {NoLoco}]
      /\ asked' \in [Locos -> SUBSET (Throttles \cup {CutShort})]
  BY DEF IInv, TypeOK, select_locomotive, States
<1>5. TypeOK'
  BY <1>1, <1>2, <1>3, <1>4, OutsideKept DEF IInv, TypeOK, select_locomotive
<1>6. Selecting'
  BY DEF IInv, TypeOK, Selecting, select_locomotive, Selected, station
<1>7. SlotHoldsLoco'
  BY DEF IInv, TypeOK, SlotHoldsLoco, select_locomotive, Selected, station
<1>. QED BY <1>1, <1>5, <1>6, <1>7, OutsideKept DEF IInv

(* Calls that send something to the slot, and no more than that. *)
Drives(m) ==
    /\ Op /\ Write(m) /\ speed' \in [Throttles -> Speed] /\ Outside
    /\ UNCHANGED <<request_state, request_loco_number, request_slot_number, slot_number,
                   locomotive_number, asked>>

LEMMA DrivesInd ==
    ASSUME IInv, NEW m \in Requests, Drives(m)
    PROVE  IInv'
<1>1. out' \in Seq(Requests)
  BY Writing DEF IInv, TypeOK, Drives
<1>2. ops' \in 0..MaxSteps
  BY Counting DEF IInv, TypeOK, Drives
<1>3. TypeOK'
  BY <1>1, <1>2, OutsideKept DEF IInv, TypeOK, Drives
<1>4. Selecting' /\ SlotHoldsLoco'
  BY DEF IInv, Selecting, SlotHoldsLoco, Selected, Drives, Outside, station
<1>. QED BY <1>3, <1>4, OutsideKept DEF IInv, Drives

LEMMA DrivingInd ==
    ASSUME IInv, NEW t \in Throttles,
           \/ \E v \in Speeds : set_speed(t, v)
           \/ estop(t) \/ update_dirf(t) \/ slot_update(t)
    PROVE  \E m \in Requests : Drives(m) /\ m.op \in {"LOCO_SPEED", "LOCO_DIR_FUNC"}
<1>0. /\ slot_number[t] \in SlotNumber /\ (Selected(t) => slot_number[t] \in Slots)
      /\ speed \in [Throttles -> Speed]
  BY DEF IInv, TypeOK, SlotNumber, Selected
<1>1. ASSUME NEW v \in Speeds, set_speed(t, v) PROVE \E m \in Requests : Drives(m) /\ m.op \in {"LOCO_SPEED", "LOCO_DIR_FUNC"}
  <2>1. v \in Speed /\ OnTheBus(v) \in Speed
    BY SpeedAssumption DEF Speed, OnTheBus
  <2>2. Drives(LocoSpeed(slot_number[t], OnTheBus(v)))
    BY <1>0, <1>1, <2>1 DEF set_speed, Drives, Outside
  <2>. QED BY <1>0, <1>1, <2>1, <2>2, RequestsAre DEF set_speed, LocoSpeed
<1>2. ASSUME estop(t) PROVE \E m \in Requests : Drives(m) /\ m.op \in {"LOCO_SPEED", "LOCO_DIR_FUNC"}
  <2>1. 1 \in Speed
    BY SpeedAssumption DEF Speed
  <2>2. Drives(LocoSpeed(slot_number[t], 1))
    BY <1>0, <1>2, <2>1 DEF estop, Drives, Outside
  <2>. QED BY <1>0, <1>2, <2>1, <2>2, RequestsAre DEF estop, LocoSpeed
<1>3. ASSUME update_dirf(t) PROVE \E m \in Requests : Drives(m) /\ m.op \in {"LOCO_SPEED", "LOCO_DIR_FUNC"}
  <2>1. Drives(LocoDirFunc(slot_number[t]))
    BY <1>0, <1>3 DEF update_dirf, Drives, Outside, throttle
  <2>. QED BY <1>0, <2>1, RequestsAre DEF LocoDirFunc
<1>4. ASSUME slot_update(t) PROVE \E m \in Requests : Drives(m) /\ m.op \in {"LOCO_SPEED", "LOCO_DIR_FUNC"}
  <2>1. Drives(LocoSpeed(slot_number[t], speed[t])) /\ speed[t] \in Speed
    BY <1>0, <1>4 DEF slot_update, Drives, Outside, throttle
  <2>. QED BY <1>0, <1>4, <2>1, RequestsAre DEF slot_update, LocoSpeed
<1>. QED BY <1>1, <1>2, <1>3, <1>4

LEMMA DispatchInd ==
    ASSUME IInv, NEW t \in Throttles, dispatch(t)
    PROVE  IInv'
<1>0. slot_number[t] \in Slots
  BY DEF IInv, TypeOK, SlotNumber, Selected, dispatch
<1>1. Outside
  BY DEF dispatch, Outside
<1>2. out' \in Seq(Requests)
  BY <1>0, RequestsAre, Writing DEF IInv, TypeOK, dispatch
<1>3. ops' \in 0..MaxSteps
  BY Counting DEF IInv, TypeOK, dispatch
<1>4. TypeOK'
  BY <1>1, <1>2, <1>3, OutsideKept DEF IInv, TypeOK, dispatch, States
<1>5. Selecting'
  BY DEF IInv, TypeOK, Selecting, dispatch, Selected, station
<1>6. SlotHoldsLoco'
  BY DEF IInv, SlotHoldsLoco, dispatch, Selected, station
<1>. QED BY <1>1, <1>4, <1>5, <1>6, OutsideKept DEF IInv

(* Without a prompt, an answer is the same as giving up. *)
LEMMA ConfirmAborts ==
    ASSUME NEW t \in Throttles, confirm_steal(t), request_state[t] # "STEAL"
    PROVE  abort_loco_selection(t)
BY DEF confirm_steal, abort_loco_selection

(* With one, the slot is taken. *)
Steals(t) ==
    /\ request_state[t] = "STEAL"
    /\ request_state' = [request_state EXCEPT ![t] = "NONE"]
    /\ slot_number' = [slot_number EXCEPT ![t] = request_slot_number[t]]
    /\ Write(RequestSlotData(request_slot_number[t]))
    /\ UNCHANGED <<request_loco_number, request_slot_number, locomotive_number, speed, inq,
                   given, station, ops, foreign, asked>>

LEMMA ConfirmSteals ==
    ASSUME NEW t \in Throttles, confirm_steal(t), request_state[t] = "STEAL"
    PROVE  Steals(t)
BY DEF confirm_steal, EndRequest, Steals

LEMMA ConfirmIs ==
    ASSUME NEW t \in Throttles, confirm_steal(t)
    PROVE  Steals(t) \/ abort_loco_selection(t)
BY ConfirmAborts, ConfirmSteals

LEMMA StealsInd ==
    ASSUME IInv, NEW t \in Throttles, Steals(t)
    PROVE  IInv'
<1>0. request_slot_number[t] \in Slots /\ address[request_slot_number[t]] = request_loco_number[t]
  BY DEF IInv, Selecting, Steals
<1>1. Outside
  BY DEF Steals, Outside
<1>2. out' \in Seq(Requests)
  BY <1>0, RequestsAre, Writing DEF IInv, TypeOK, Steals
<1>3. TypeOK'
  BY <1>0, <1>1, <1>2, OutsideKept DEF IInv, TypeOK, Steals, States, SlotNumber
<1>4. Selecting'
  BY <1>0, SlotFacts DEF IInv, TypeOK, Selecting, Steals, station
<1>5. SlotHoldsLoco'
  BY <1>0 DEF IInv, TypeOK, SlotHoldsLoco, Steals, Selected, station
<1>. QED BY <1>1, <1>3, <1>4, <1>5, OutsideKept DEF IInv

LEMMA AbortInd ==
    ASSUME IInv, NEW t \in Throttles, abort_loco_selection(t)
    PROVE  IInv'
<1>1. Outside
  BY DEF abort_loco_selection, Outside
<1>4. asked' \in [Locos -> SUBSET (Throttles \cup {CutShort})]
  <2>1. CASE request_state[t] = "SET_COMMON"
    <3>1. request_loco_number[t] \in Locos
      BY <2>1 DEF IInv, Selecting
    <3>. QED BY <2>1, <3>1 DEF IInv, TypeOK, abort_loco_selection, EndRequest
  <2>2. CASE request_state[t] # "SET_COMMON"
    BY <2>2 DEF IInv, TypeOK, abort_loco_selection, EndRequest
  <2>. QED BY <2>1, <2>2
<1>2. TypeOK'
  BY <1>1, <1>4, OutsideKept DEF IInv, TypeOK, abort_loco_selection, EndRequest, States
<1>3. Selecting' /\ SlotHoldsLoco'
  BY DEF IInv, TypeOK, Selecting, SlotHoldsLoco, Selected, abort_loco_selection, EndRequest, station
<1>. QED BY <1>1, <1>2, <1>3, OutsideKept DEF IInv

LEMMA UserInd == ASSUME IInv, User PROVE IInv'
<1>1. PICK t \in Throttles :
        \/ \E l \in Locos : select_locomotive(t, l)
        \/ \E v \in Speeds : set_speed(t, v)
        \/ estop(t) \/ update_dirf(t) \/ slot_update(t) \/ dispatch(t)
        \/ Steals(t) \/ abort_loco_selection(t)
  BY ConfirmIs DEF User
<1>2. ASSUME NEW l \in Locos, select_locomotive(t, l) PROVE IInv'
  BY ONLY <1>2, IInv, t \in Throttles, SelectInd
<1>3. CASE (\E v \in Speeds : set_speed(t, v)) \/ estop(t) \/ update_dirf(t) \/ slot_update(t)
  <2>1. PICK m \in Requests : Drives(m) /\ m.op \in {"LOCO_SPEED", "LOCO_DIR_FUNC"}
    BY ONLY <1>3, IInv, t \in Throttles, DrivingInd
  <2>. QED BY ONLY <2>1, IInv, DrivesInd
<1>4. CASE dispatch(t)
  BY ONLY <1>4, IInv, t \in Throttles, DispatchInd
<1>5. CASE Steals(t)
  BY ONLY <1>5, IInv, t \in Throttles, StealsInd
<1>6. CASE abort_loco_selection(t)
  BY ONLY <1>6, IInv, t \in Throttles, AbortInd
<1>. QED BY <1>1, <1>2, <1>3, <1>4, <1>5, <1>6

-------------------------------------------------------------------------------
(* The bus. *)

LEMMA StationInd ==
    ASSUME IInv, NEW m \in Requests, CommandStation(m), UNCHANGED <<throttle, given, asked>>,
           out' \in Seq(Requests), ops' \in 0..MaxSteps, foreign' \in 0..MaxForeign
    PROVE  IInv'
<1>1. StationOK
  BY DEF IInv, TypeOK, StationOK
<1>2. StationOK' /\ AddressKept
  BY ONLY <1>1, m \in Requests, CommandStation(m), StationStep
<1>3. TypeOK'
  BY <1>2 DEF IInv, TypeOK, StationOK, throttle
<1>4. \A t \in Throttles : (slot_number[t] # NoSlot \/ request_state[t] = "STEAL")
                             => request_loco_number[t] # NoLoco
  BY LocosAssumption DEF IInv, Selecting
<1>5. Selecting'
  BY <1>2, <1>4 DEF IInv, TypeOK, Selecting, AddressKept, throttle
<1>6. SlotHoldsLoco'
  <2>1. \A t \in Throttles : slot_number[t] # NoSlot => slot_number[t] \in Slots
    BY DEF IInv, TypeOK, SlotNumber
  <2>. QED BY <1>2, <1>4, <2>1 DEF IInv, SlotHoldsLoco, Selected, AddressKept, throttle
<1>. QED BY <1>2, <1>3, <1>5, <1>6 DEF IInv, StationOK

LEMMA TransmitInd == ASSUME IInv, Transmit PROVE IInv'
<1>1. out \in Seq(Requests) /\ out # <<>>
  BY DEF IInv, TypeOK, Transmit
<1>2. Head(out) \in Requests /\ Tail(out) \in Seq(Requests)
  BY ONLY <1>1, HeadTail
<1>3. /\ CommandStation(Head(out)) /\ UNCHANGED <<throttle, given, asked>>
      /\ out' \in Seq(Requests) /\ ops' \in 0..MaxSteps /\ foreign' \in 0..MaxForeign
  BY <1>2 DEF IInv, TypeOK, Transmit
<1>. QED BY ONLY <1>2, <1>3, IInv, StationInd

LEMMA ForeignInd == ASSUME IInv, Foreign PROVE IInv'
<1>1. PICK m \in ForeignMessages : CommandStation(m)
  BY DEF Foreign
<1>2. m \in Requests
  <2>1. Speeds \subseteq Speed
    BY SpeedAssumption DEF Speed
  <2>. QED BY <2>1, RequestsAre DEF ForeignMessages
<1>3. /\ UNCHANGED <<throttle, given, asked>>
      /\ out' \in Seq(Requests) /\ ops' \in 0..MaxSteps /\ foreign' \in 0..MaxForeign
  BY BoundsAssumption DEF IInv, TypeOK, Foreign
<1>. QED BY ONLY <1>1, <1>2, <1>3, IInv, StationInd

-------------------------------------------------------------------------------
(* What a throttle does with a message. *)

(* The message at the front of inq, and what is kept while it is given to t. *)
Given(t, m) ==
    /\ t \in Throttles /\ m \in Message /\ Fields(m) /\ TrueRead(m, address)
    /\ UNCHANGED <<station, ops, foreign, asked>>
    /\ inq' \in Seq(Message) /\ given' \in 0..(NumThrottles - 1) /\ TrueReads(inq', address')

ThrottlesOK ==
    /\ request_state \in [Throttles -> States]
    /\ request_loco_number \in [Throttles -> Locos \cup {NoLoco}]
    /\ request_slot_number \in [Throttles -> SlotNumber]
    /\ slot_number \in [Throttles -> SlotNumber]
    /\ locomotive_number \in [Throttles -> Locos \cup {NoLoco}]
    /\ speed \in [Throttles -> Speed]
    /\ out \in Seq(Requests)
    /\ Selecting /\ SlotHoldsLoco

LEMMA GivenInd ==
    ASSUME IInv, NEW t, NEW m, Given(t, m), ThrottlesOK'
    PROVE  IInv'
BY DEF IInv, TypeOK, Given, ThrottlesOK, station

LEMMA IsOK == ASSUME IInv PROVE ThrottlesOK
BY DEF IInv, TypeOK, ThrottlesOK

(* The slot that an answer to t's request tells of holds t's locomotive. *)
LEMMA AskedFacts ==
    ASSUME IInv, NEW t, NEW m, Given(t, m), m.op = "SLOT_READ_DATA", Asks(t, m)
    PROVE  /\ m.slot \in Slots /\ m.slot # NoSlot /\ m.addr \in Locos
           /\ address[m.slot] = m.addr /\ request_loco_number[t] = m.addr
           /\ slot_number[t] = NoSlot
<1>1. request_state[t] = "REQUEST" /\ request_loco_number[t] = m.addr /\ t \in Throttles
  BY DEF Asks, Given
<1>2. slot_number[t] = NoSlot /\ m.addr \in Locos
  BY <1>1 DEF IInv, Selecting
<1>3. m.slot \in Slots /\ address[m.slot] = m.addr
  BY <1>2, LocosAssumption DEF Given, Fields, TrueRead
<1>. QED BY <1>1, <1>2, <1>3, SlotFacts

LEMMA TakeFreeInd ==
    ASSUME IInv, NEW t, NEW m, Given(t, m), m.op = "SLOT_READ_DATA", TakeFree(t, m)
    PROVE  ThrottlesOK'
<1>1. Asks(t, m) /\ t \in Throttles /\ UNCHANGED station
  BY DEF TakeFree, Given
<1>2. /\ m.slot \in Slots /\ m.slot # NoSlot /\ m.addr \in Locos
      /\ address[m.slot] = m.addr /\ request_loco_number[t] = m.addr
  BY ONLY <1>1, IInv, Given(t, m), m.op = "SLOT_READ_DATA", AskedFacts
<1>3. out' \in Seq(Requests)
  BY <1>2, RequestsAre, Writing DEF IInv, TypeOK, TakeFree
<1>4. /\ request_state' \in [Throttles -> States] /\ slot_number' \in [Throttles -> SlotNumber]
      /\ locomotive_number' \in [Throttles -> Locos \cup {NoLoco}]
  BY <1>2 DEF IInv, TypeOK, TakeFree, States, SlotNumber
<1>5. Selecting'
  BY <1>1, <1>2 DEF IInv, TypeOK, Selecting, TakeFree, station
<1>6. SlotHoldsLoco'
  BY <1>1, <1>2 DEF IInv, TypeOK, SlotHoldsLoco, Selected, TakeFree, station
<1>. QED BY <1>3, <1>4, <1>5, <1>6 DEF IInv, TypeOK, ThrottlesOK, TakeFree

LEMMA StealInd ==
    ASSUME IInv, NEW t, NEW m, Given(t, m), m.op = "SLOT_READ_DATA", Steal(t, m)
    PROVE  ThrottlesOK'
<1>1. Asks(t, m) /\ t \in Throttles /\ UNCHANGED station
  BY DEF Steal, Given
<1>2. /\ m.slot \in Slots /\ m.slot # NoSlot /\ m.addr \in Locos
      /\ address[m.slot] = m.addr /\ request_loco_number[t] = m.addr
  BY ONLY <1>1, IInv, Given(t, m), m.op = "SLOT_READ_DATA", AskedFacts
<1>3. out' \in Seq(Requests)
  BY <1>2, RequestsAre, Writing DEF IInv, TypeOK, Steal
<1>4. /\ request_state' \in [Throttles -> States] /\ slot_number' \in [Throttles -> SlotNumber]
      /\ request_slot_number' \in [Throttles -> SlotNumber]
  BY <1>2 DEF IInv, TypeOK, Steal, States, SlotNumber
<1>5. Selecting'
  BY <1>1, <1>2 DEF IInv, TypeOK, Selecting, Steal, station
<1>6. SlotHoldsLoco'
  BY <1>1, <1>2 DEF IInv, TypeOK, SlotHoldsLoco, Selected, Steal, station
<1>. QED BY <1>3, <1>4, <1>5, <1>6 DEF IInv, TypeOK, ThrottlesOK, Steal

LEMMA PromptInd ==
    ASSUME IInv, NEW t, NEW m, Given(t, m), m.op = "SLOT_READ_DATA", PromptSteal(t, m)
    PROVE  ThrottlesOK'
<1>1. Asks(t, m) /\ t \in Throttles /\ UNCHANGED station
  BY DEF PromptSteal, Given
<1>2. /\ m.slot \in Slots /\ m.addr \in Locos /\ slot_number[t] = NoSlot
      /\ address[m.slot] = m.addr /\ request_loco_number[t] = m.addr
  BY ONLY <1>1, IInv, Given(t, m), m.op = "SLOT_READ_DATA", AskedFacts
<1>3. /\ request_state' \in [Throttles -> States] /\ request_slot_number' \in [Throttles -> SlotNumber]
  BY <1>2 DEF IInv, TypeOK, PromptSteal, States, SlotNumber
<1>4. Selecting'
  BY <1>1, <1>2 DEF IInv, TypeOK, Selecting, PromptSteal, station
<1>5. SlotHoldsLoco'
  BY <1>1 DEF IInv, SlotHoldsLoco, Selected, PromptSteal, station
<1>. QED BY <1>3, <1>4, <1>5 DEF IInv, TypeOK, ThrottlesOK, PromptSteal

LEMMA UntouchedInd ==
    ASSUME IInv, UNCHANGED <<throttle, out, station>>
    PROVE  ThrottlesOK'
BY IsOK DEF ThrottlesOK, Selecting, SlotHoldsLoco, Selected, throttle, station

LEMMA MoveDoneInd ==
    ASSUME IInv, NEW t, NEW m, Given(t, m), m.op = "SLOT_READ_DATA", NullMoveDone(t, m)
    PROVE  ThrottlesOK'
<1>1. t \in Throttles /\ m.addr \in Locos \cup {NoLoco} /\ UNCHANGED station
  BY DEF Given, Fields
<1>2. locomotive_number' \in [Throttles -> Locos \cup {NoLoco}]
  BY <1>1 DEF IInv, TypeOK, NullMoveDone
<1>3. Selecting' /\ SlotHoldsLoco'
  BY <1>1 DEF IInv, Selecting, SlotHoldsLoco, Selected, NullMoveDone, station
<1>. QED BY <1>2, <1>3 DEF IInv, TypeOK, ThrottlesOK, NullMoveDone

LEMMA LongAckInd ==
    ASSUME IInv, NEW t, NEW m, Given(t, m), LongAcknowledge(t, m)
    PROVE  ThrottlesOK'
<1>1. t \in Throttles /\ UNCHANGED station
  BY DEF Given
<1>2. request_state' \in [Throttles -> States]
  BY <1>1 DEF IInv, TypeOK, LongAcknowledge, States
<1>3. Selecting' /\ SlotHoldsLoco'
  BY <1>1 DEF IInv, TypeOK, Selecting, SlotHoldsLoco, Selected, LongAcknowledge, station
<1>. QED BY <1>2, <1>3 DEF IInv, TypeOK, ThrottlesOK, LongAcknowledge

LEMMA SpeedSeenInd ==
    ASSUME IInv, NEW t, NEW m, Given(t, m), LocoSpeedSeen(t, m)
    PROVE  ThrottlesOK'
<1>1. t \in Throttles /\ UNCHANGED station /\ m.speed \in Speed
  BY DEF Given, Fields, LocoSpeedSeen
<1>2. (IF m.speed = 0 THEN 0 ELSE m.speed - 1) \in Speed
  BY <1>1, SpeedAssumption DEF Speed
<1>3. speed' \in [Throttles -> Speed]
  BY <1>2 DEF IInv, TypeOK, LocoSpeedSeen
<1>4. Selecting' /\ SlotHoldsLoco'
  BY <1>1 DEF IInv, Selecting, SlotHoldsLoco, Selected, LocoSpeedSeen, station
<1>. QED BY <1>3, <1>4 DEF IInv, TypeOK, ThrottlesOK, LocoSpeedSeen

LEMMA StatSeenInd ==
    ASSUME IInv, NEW t, NEW m, Given(t, m), SlotStat1Seen(t, m)
    PROVE  ThrottlesOK'
<1>1. t \in Throttles /\ UNCHANGED station /\ m.slot \in Slots
  BY DEF Given, Fields, SlotStat1Seen
<1>2. CASE slot_number[t] = m.slot /\ request_state[t] = "SET_COMMON"
  <2>1. out' \in Seq(Requests)
    BY <1>1, <1>2, RequestsAre, Writing DEF IInv, TypeOK, SlotStat1Seen
  <2>2. slot_number' \in [Throttles -> SlotNumber] /\ request_state' \in [Throttles -> States]
    BY <1>2 DEF IInv, TypeOK, SlotStat1Seen, SlotNumber, States
  <2>3. Selecting'
    BY <1>1, <1>2 DEF IInv, TypeOK, Selecting, SlotStat1Seen, station
  <2>4. SlotHoldsLoco'
    BY <1>1, <1>2 DEF IInv, TypeOK, SlotHoldsLoco, Selected, SlotStat1Seen, station
  <2>. QED BY <2>1, <2>2, <2>3, <2>4 DEF IInv, TypeOK, ThrottlesOK, SlotStat1Seen
<1>3. CASE ~(slot_number[t] = m.slot /\ request_state[t] = "SET_COMMON")
  <2>1. UNCHANGED <<throttle, out, station>>
    BY <1>1, <1>3 DEF SlotStat1Seen, throttle
  <2>. QED BY ONLY <2>1, IInv, UntouchedInd
<1>. QED BY <1>2, <1>3

LEMMA IncomingGiven ==
    ASSUME IInv, incoming_message
    PROVE  /\ Given(given + 1, Head(inq))
           /\ \/ SlotReadData(given + 1, Head(inq)) \/ LongAcknowledge(given + 1, Head(inq))
              \/ LocoSpeedSeen(given + 1, Head(inq)) \/ SlotStat1Seen(given + 1, Head(inq))
              \/ Ignored(Head(inq))
<1>1. inq \in Seq(Message) /\ inq # <<>> /\ TrueReads(inq, address)
  BY DEF IInv, TypeOK, incoming_message
<1>2. Head(inq) \in Message /\ Tail(inq) \in Seq(Message)
  BY ONLY <1>1, HeadTail
<1>3. TrueReads(Tail(inq), address) /\ TrueRead(Head(inq), address)
  BY ONLY <1>1, ReadsTail
<1>4. given + 1 \in Throttles
  BY NumAssumption DEF IInv, TypeOK, Throttles
<1>5. given' \in 0..(NumThrottles - 1)
  BY NumAssumption DEF IInv, TypeOK, incoming_message
<1>6. inq' = Tail(inq) \/ inq' = inq
  BY DEF incoming_message
<1>7. UNCHANGED <<station, ops, foreign, asked>>
  BY DEF incoming_message
<1>8. inq' \in Seq(Message) /\ TrueReads(inq', address')
  BY <1>1, <1>2, <1>3, <1>6, <1>7 DEF station
<1>9. Given(given + 1, Head(inq))
  BY <1>2, <1>3, <1>4, <1>5, <1>7, <1>8, MessageFields DEF Given
<1>. QED BY <1>9 DEF incoming_message

LEMMA IncomingInd == ASSUME IInv, incoming_message PROVE IInv'
<1>. DEFINE t == given + 1
            m == Head(inq)
<1>1. /\ Given(t, m)
      /\ \/ SlotReadData(t, m) \/ LongAcknowledge(t, m) \/ LocoSpeedSeen(t, m)
         \/ SlotStat1Seen(t, m) \/ Ignored(m)
  BY ONLY IInv, incoming_message, IncomingGiven
<1>. HIDE DEF t, m
<1>0. UNCHANGED station
  BY <1>1 DEF Given
<1>2. ThrottlesOK'
  <2>1. CASE SlotReadData(t, m)
    <3>0. m.op = "SLOT_READ_DATA"
      BY <2>1 DEF SlotReadData
    <3>1. CASE TakeFree(t, m)
      BY ONLY <1>1, <3>0, <3>1, IInv, TakeFreeInd
    <3>2. CASE Steal(t, m)
      BY ONLY <1>1, <3>0, <3>2, IInv, StealInd
    <3>3. CASE PromptSteal(t, m)
      BY ONLY <1>1, <3>0, <3>3, IInv, PromptInd
    <3>4. CASE NullMoveDone(t, m)
      BY ONLY <1>1, <3>0, <3>4, IInv, MoveDoneInd
    <3>5. CASE UNCHANGED <<throttle, out>>
      BY ONLY <1>0, <3>5, IInv, UntouchedInd
    <3>. QED BY <2>1, <3>1, <3>2, <3>3, <3>4, <3>5 DEF SlotReadData
  <2>2. CASE LongAcknowledge(t, m)
    BY ONLY <1>1, <2>2, IInv, LongAckInd
  <2>3. CASE LocoSpeedSeen(t, m)
    BY ONLY <1>1, <2>3, IInv, SpeedSeenInd
  <2>4. CASE SlotStat1Seen(t, m)
    BY ONLY <1>1, <2>4, IInv, StatSeenInd
  <2>5. CASE Ignored(m)
    <3>1. UNCHANGED <<throttle, out>>
      BY <2>5 DEF Ignored
    <3>. QED BY ONLY <1>0, <3>1, IInv, UntouchedInd
  <2>. QED BY <1>1, <2>1, <2>2, <2>3, <2>4, <2>5
<1>. QED BY ONLY <1>1, <1>2, IInv, GivenInd

-------------------------------------------------------------------------------
(* The invariant. *)

LEMMA InitInd == Init => IInv
<1>. SUFFICES ASSUME Init PROVE IInv
  OBVIOUS
<1>1. <<>> \in Seq(Requests) /\ <<>> \in Seq(Message) /\ Len(<<>>) = 0
  OBVIOUS
<1>2. 0 \in Speed /\ 0 \in 0..MaxSteps /\ 0 \in 0..MaxForeign /\ 0 \in 0..(NumThrottles - 1)
  BY SpeedAssumption, BoundsAssumption, NumAssumption DEF Speed
<1>3. TypeOK
  BY <1>1, <1>2 DEF Init, TypeOK, States, SlotNumber, Status
<1>4. Selecting /\ SlotHoldsLoco
  BY DEF Init, Selecting, SlotHoldsLoco, Selected
<1>5. TrueReads(inq, address)
  BY <1>1 DEF Init, TrueReads
<1>. QED BY <1>3, <1>4, <1>5 DEF IInv

LEMMA StutterInd == ASSUME IInv, UNCHANGED vars PROVE IInv'
<1>1. TypeOK'
  BY DEF IInv, TypeOK, vars, throttle, station
<1>2. Selecting' /\ SlotHoldsLoco' /\ TrueReads(inq', address')
  BY DEF IInv, Selecting, SlotHoldsLoco, Selected, vars, throttle, station
<1>. QED BY <1>1, <1>2 DEF IInv

LEMMA NextInd == ASSUME IInv, [Next]_vars PROVE IInv'
BY UserInd, TransmitInd, ForeignInd, IncomingInd, StutterInd DEF Next

(* The inductive invariant: types, where a selection stands, that an answer stays *)
(* true and that a slot in use is that of the locomotive.                         *)
THEOREM Invariance == Spec => []IInv
BY InitInd, NextInd, PTL DEF Spec

(* Every state has its type: no message names a slot that does not exist, and no *)
(* speed leaves its range (loconet_throttle.c).                                  *)
THEOREM TypeCorrect == Spec => []TypeOK
BY Invariance, PTL DEF IInv

(* A throttle drives its locomotive through a slot of that locomotive, whatever *)
(* answers to other throttles it hears (loconet_throttle_incoming_message).     *)
THEOREM HoldsLoco == Spec => []SlotHoldsLoco
BY Invariance, PTL DEF IInv
-------------------------------------------------------------------------------
(* The refinement: what each throttle does, without the command station. *)

View(state, slot, loco) ==
    IF slot # NoSlot
    THEN IF state # "SET_COMMON" THEN <<"driving", loco>> ELSE <<"leaving", loco>>
    ELSE IF state \in {"REQUEST", "STEAL"} THEN <<"wanting", loco>> ELSE <<"none">>

Views == [t \in Throttles |-> View(request_state[t], slot_number[t], request_loco_number[t])]

LEMMA ControlIsViews == SlotHoldsLoco => control = Views
<1>. SUFFICES ASSUME SlotHoldsLoco PROVE control = Views
  OBVIOUS
<1>1. ASSUME NEW t \in Throttles
      PROVE  (CASE Selected(t) /\ request_state[t] # "SET_COMMON" -> <<"driving", address[slot_number[t]]>>
                [] Selected(t) /\ request_state[t] = "SET_COMMON" -> <<"leaving", address[slot_number[t]]>>
                [] ~Selected(t) /\ request_state[t] \in {"REQUEST", "STEAL"} -> <<"wanting", request_loco_number[t]>>
                [] OTHER -> <<"none">>)
             = View(request_state[t], slot_number[t], request_loco_number[t])
  BY DEF SlotHoldsLoco, Selected, View
<1>. QED BY <1>1 DEF control, Views

(* The same in the next state. *)
LEMMA ControlIsViewsNext == SlotHoldsLoco' => control' = Views'
<1>. SUFFICES ASSUME SlotHoldsLoco' PROVE control' = Views'
  OBVIOUS
<1>1. ASSUME NEW t \in Throttles
      PROVE  (CASE Selected(t)' /\ request_state'[t] # "SET_COMMON" -> <<"driving", address'[slot_number'[t]]>>
                [] Selected(t)' /\ request_state'[t] = "SET_COMMON" -> <<"leaving", address'[slot_number'[t]]>>
                [] ~Selected(t)' /\ request_state'[t] \in {"REQUEST", "STEAL"} -> <<"wanting", request_loco_number'[t]>>
                [] OTHER -> <<"none">>)
             = View(request_state'[t], slot_number'[t], request_loco_number'[t])
  BY DEF SlotHoldsLoco, Selected, View
<1>. QED BY <1>1 DEF control, Views

(* Nothing changes of what throttle u does. *)
SameView(u) ==
    View(request_state[u], slot_number[u], request_loco_number[u])'
      = View(request_state[u], slot_number[u], request_loco_number[u])

(* What throttle t does changes by a step of LocoControl. *)
ViewStep(t) ==
    LET now  == View(request_state[t], slot_number[t], request_loco_number[t])
        next == View(request_state[t], slot_number[t], request_loco_number[t])'
    IN  \E l \in Locos :
          \/ /\ now = <<"none">> \/ \E k \in Locos : now = <<"wanting", k>>
             /\ next = <<"wanting", l>>
          \/ now = <<"wanting", l>> /\ next = <<"driving", l>>
          \/ now = <<"wanting", l>> /\ next = <<"none">>
          \/ now = <<"driving", l>> /\ next = <<"leaving", l>>
          \/ now = <<"leaving", l>> /\ next = <<"driving", l>>
          \/ now = <<"leaving", l>> /\ next = <<"none">>

LEMMA StepMaps ==
    ASSUME IInv, IInv', NEW t \in Throttles, ViewStep(t), \A u \in Throttles \ {t} : SameView(u)
    PROVE  Control!Next
<1>1. control = Views /\ control' = Views'
  BY ControlIsViews, ControlIsViewsNext DEF IInv
<1>2. \A u \in Throttles \ {t} : control'[u] = control[u]
  BY <1>1 DEF Views, SameView
<1>3. control' = [control EXCEPT ![t] = control'[t]]
  BY <1>1, <1>2 DEF Views
<1>4. /\ control[t] = View(request_state[t], slot_number[t], request_loco_number[t])
      /\ control'[t] = View(request_state[t], slot_number[t], request_loco_number[t])'
  BY <1>1 DEF Views
<1>5. Control!Step(t)
  BY <1>4 DEF ViewStep, Control!Step, Control!Select, Control!Take, Control!Dispatch, Control!Abort,
              Control!Stay, Control!LetGo, Control!None, Control!Wanting, Control!Driving, Control!Leaving
<1>. QED BY <1>3, <1>5 DEF Control!Next

LEMMA SameMaps ==
    ASSUME IInv, IInv', \A u \in Throttles : SameView(u)
    PROVE  UNCHANGED control
<1>1. control = Views /\ control' = Views'
  BY ControlIsViews, ControlIsViewsNext DEF IInv
<1>. QED BY <1>1 DEF Views, SameView

(* Each step changes what one throttle does as LocoControl says, or nothing. *)
Maps == \/ \A u \in Throttles : SameView(u)
        \/ \E t \in Throttles : ViewStep(t) /\ \A u \in Throttles \ {t} : SameView(u)

LEMMA KeptMaps ==
    ASSUME UNCHANGED <<request_state, slot_number, request_loco_number>>
    PROVE  Maps
BY DEF Maps, SameView

LEMMA UserMaps == ASSUME IInv, User PROVE Maps
<1>1. PICK t \in Throttles :
        \/ \E l \in Locos : select_locomotive(t, l)
        \/ \E v \in Speeds : set_speed(t, v)
        \/ estop(t) \/ update_dirf(t) \/ slot_update(t) \/ dispatch(t)
        \/ Steals(t) \/ abort_loco_selection(t)
  BY ConfirmIs DEF User
<1>2. ASSUME NEW l \in Locos, select_locomotive(t, l) PROVE Maps
  <2>1. ViewStep(t)
    BY <1>2 DEF IInv, TypeOK, Selecting, select_locomotive, Selected, ViewStep, View
  <2>2. \A u \in Throttles \ {t} : SameView(u)
    BY <1>2 DEF IInv, TypeOK, select_locomotive, SameView
  <2>. QED BY <2>1, <2>2 DEF Maps
<1>3. CASE (\E v \in Speeds : set_speed(t, v)) \/ estop(t) \/ update_dirf(t) \/ slot_update(t)
  <2>1. UNCHANGED <<request_state, slot_number, request_loco_number>>
    BY <1>3 DEF set_speed, estop, update_dirf, slot_update, throttle
  <2>. QED BY ONLY <2>1, KeptMaps
<1>4. CASE dispatch(t)
  <2>2. \A u \in Throttles \ {t} : SameView(u)
    BY <1>4 DEF IInv, TypeOK, dispatch, SameView
  <2>3. SameView(t) \/ ViewStep(t)
    BY <1>4 DEF IInv, TypeOK, Selecting, dispatch, Selected, SameView, ViewStep, View
  <2>. QED BY <2>2, <2>3 DEF Maps
<1>5. CASE Steals(t)
  <2>1. request_slot_number[t] \in Slots /\ request_slot_number[t] # NoSlot
    BY <1>5, SlotFacts DEF IInv, Selecting, Steals
  <2>2. \A u \in Throttles \ {t} : SameView(u)
    BY <1>5 DEF IInv, TypeOK, Steals, SameView
  <2>3. ViewStep(t)
    BY <1>5, <2>1 DEF IInv, TypeOK, Selecting, Steals, ViewStep, View
  <2>. QED BY <2>2, <2>3 DEF Maps
<1>6. CASE abort_loco_selection(t)
  <2>2. \A u \in Throttles \ {t} : SameView(u)
    BY <1>6 DEF IInv, TypeOK, abort_loco_selection, EndRequest, SameView
  <2>3. SameView(t) \/ ViewStep(t)
    BY <1>6 DEF IInv, TypeOK, Selecting, abort_loco_selection, EndRequest, SameView, ViewStep, View
  <2>. QED BY <2>2, <2>3 DEF Maps
<1>. QED BY <1>1, <1>2, <1>3, <1>4, <1>5, <1>6

LEMMA IncomingMaps == ASSUME IInv, incoming_message PROVE Maps
<1>1. PICK t \in Throttles, m \in {Head(inq)} :
        /\ Given(t, m)
        /\ \/ SlotReadData(t, m) \/ LongAcknowledge(t, m) \/ LocoSpeedSeen(t, m)
           \/ SlotStat1Seen(t, m) \/ Ignored(m)
  <2>. DEFINE u == given + 1
              n == Head(inq)
  <2>1. /\ Given(u, n)
        /\ \/ SlotReadData(u, n) \/ LongAcknowledge(u, n) \/ LocoSpeedSeen(u, n)
           \/ SlotStat1Seen(u, n) \/ Ignored(n)
    BY ONLY IInv, incoming_message, IncomingGiven
  <2>2. n \in {Head(inq)}
    OBVIOUS
  <2>. HIDE DEF u, n
  <2>3. u \in Throttles
    BY <2>1 DEF Given
  <2>. QED BY ONLY <2>1, <2>2, <2>3
<1>2. t \in Throttles
  OBVIOUS
<1>3. CASE SlotReadData(t, m)
  <2>1. m.op = "SLOT_READ_DATA"
    BY <1>3 DEF SlotReadData
  <2>2. ASSUME Asks(t, m)
        PROVE  m.slot # NoSlot /\ m.addr \in Locos /\ slot_number[t] = NoSlot
               /\ request_loco_number[t] = m.addr
    BY ONLY <1>1, <2>1, <2>2, IInv, AskedFacts
  <2>3. CASE TakeFree(t, m)
    <3>0. Asks(t, m)
      BY <2>3 DEF TakeFree
    <3>1. ViewStep(t)
      <4>1. View(request_state[t], slot_number[t], request_loco_number[t]) = <<"wanting", m.addr>>
        BY <2>2, <3>0 DEF Asks, View
      <4>2. /\ request_state'[t] # "SET_COMMON" /\ slot_number'[t] = m.slot
            /\ request_loco_number'[t] = request_loco_number[t]
        BY <1>2, <2>3 DEF IInv, TypeOK, TakeFree
      <4>3. View(request_state'[t], slot_number'[t], request_loco_number'[t]) = <<"driving", m.addr>>
        BY <2>2, <3>0, <4>2 DEF View
      <4>4. m.addr \in Locos
        BY <2>2, <3>0
      <4>5. View(request_state[t], slot_number[t], request_loco_number[t])' = <<"driving", m.addr>>
        BY <4>3 DEF View
      <4>. QED BY ONLY <4>1, <4>4, <4>5 DEF ViewStep
    <3>2. \A u \in Throttles \ {t} : SameView(u)
      BY <1>2, <2>3 DEF IInv, TypeOK, TakeFree, SameView
    <3>. QED BY <1>2, <3>1, <3>2 DEF Maps
  <2>4. CASE Steal(t, m)
    <3>0. Asks(t, m)
      BY <2>4 DEF Steal
    <3>1. ViewStep(t)
      <4>1. View(request_state[t], slot_number[t], request_loco_number[t]) = <<"wanting", m.addr>>
        BY <2>2, <3>0 DEF Asks, View
      <4>2. /\ request_state'[t] # "SET_COMMON" /\ slot_number'[t] = m.slot
            /\ request_loco_number'[t] = request_loco_number[t]
        BY <1>2, <2>4 DEF IInv, TypeOK, Steal
      <4>3. View(request_state'[t], slot_number'[t], request_loco_number'[t]) = <<"driving", m.addr>>
        BY <2>2, <3>0, <4>2 DEF View
      <4>4. m.addr \in Locos
        BY <2>2, <3>0
      <4>5. View(request_state[t], slot_number[t], request_loco_number[t])' = <<"driving", m.addr>>
        BY <4>3 DEF View
      <4>. QED BY ONLY <4>1, <4>4, <4>5 DEF ViewStep
    <3>2. \A u \in Throttles \ {t} : SameView(u)
      BY <1>2, <2>4 DEF IInv, TypeOK, Steal, SameView
    <3>. QED BY <1>2, <3>1, <3>2 DEF Maps
  <2>5. CASE PromptSteal(t, m)
    <3>1. \A u \in Throttles : SameView(u)
      BY <1>2, <2>2, <2>5 DEF IInv, TypeOK, PromptSteal, Asks, SameView, View
    <3>. QED BY <3>1 DEF Maps
  <2>6. CASE NullMoveDone(t, m) \/ UNCHANGED <<throttle, out>>
    <3>1. UNCHANGED <<request_state, slot_number, request_loco_number>>
      BY <2>6 DEF NullMoveDone, throttle
    <3>. QED BY ONLY <3>1, KeptMaps
  <2>. QED BY <1>3, <2>3, <2>4, <2>5, <2>6 DEF SlotReadData
<1>4. CASE LongAcknowledge(t, m)
  <2>1. \A u \in Throttles : SameView(u)
    BY <1>2, <1>4 DEF IInv, TypeOK, Selecting, LongAcknowledge, SameView, View
  <2>. QED BY <2>1 DEF Maps
<1>5. CASE SlotStat1Seen(t, m)
  <2>1. CASE slot_number[t] = m.slot /\ request_state[t] = "SET_COMMON"
    <3>1. ViewStep(t)
      <4>1. slot_number[t] # NoSlot /\ request_loco_number[t] \in Locos
        BY <1>2, <2>1 DEF IInv, Selecting
      <4>2. request_state'[t] = "NONE" /\ slot_number'[t] = NoSlot
        BY <1>2, <1>5, <2>1 DEF IInv, TypeOK, SlotStat1Seen
      <4>3. View(request_state[t], slot_number[t], request_loco_number[t])
              = <<"leaving", request_loco_number[t]>>
        BY <2>1, <4>1 DEF View
      <4>4. View(request_state[t], slot_number[t], request_loco_number[t])' = <<"none">>
        BY <4>2 DEF View
      <4>. QED BY ONLY <4>1, <4>3, <4>4 DEF ViewStep
    <3>2. \A u \in Throttles \ {t} : SameView(u)
      BY <1>2, <1>5, <2>1 DEF IInv, TypeOK, SlotStat1Seen, SameView
    <3>. QED BY <1>2, <3>1, <3>2 DEF Maps
  <2>2. CASE ~(slot_number[t] = m.slot /\ request_state[t] = "SET_COMMON")
    <3>1. UNCHANGED <<request_state, slot_number, request_loco_number>>
      BY <1>5, <2>2 DEF SlotStat1Seen
    <3>. QED BY ONLY <3>1, KeptMaps
  <2>. QED BY <2>1, <2>2
<1>6. CASE LocoSpeedSeen(t, m) \/ Ignored(m)
  <2>1. UNCHANGED <<request_state, slot_number, request_loco_number>>
    BY <1>6 DEF LocoSpeedSeen, Ignored, throttle
  <2>. QED BY ONLY <2>1, KeptMaps
<1>. QED BY <1>1, <1>3, <1>4, <1>5, <1>6

LEMMA NextMaps == ASSUME IInv, IInv', [Next]_vars PROVE [Control!Next]_control
<1>1. Maps
  <2>1. CASE Transmit \/ Foreign \/ UNCHANGED vars
    <3>1. UNCHANGED <<request_state, slot_number, request_loco_number>>
      BY <2>1 DEF Transmit, Foreign, vars, throttle
    <3>. QED BY ONLY <3>1, KeptMaps
  <2>. QED BY <2>1, UserMaps, IncomingMaps DEF Next
<1>2. CASE \A u \in Throttles : SameView(u)
  BY ONLY <1>2, IInv, IInv', SameMaps
<1>3. ASSUME NEW t \in Throttles, ViewStep(t), \A u \in Throttles \ {t} : SameView(u)
      PROVE  Control!Next
  BY ONLY <1>3, IInv, IInv', StepMaps
<1>. QED BY <1>1, <1>2, <1>3 DEF Maps

LEMMA InitMaps == ASSUME Init PROVE Control!Init
<1>1. SlotHoldsLoco
  BY DEF Init, SlotHoldsLoco, Selected
<1>2. control = Views
  BY <1>1, ControlIsViews
<1>3. \A t \in Throttles : View(request_state[t], slot_number[t], request_loco_number[t]) = <<"none">>
  BY DEF Init, View
<1>. QED BY <1>2, <1>3 DEF Views, Control!Init, Control!None

(* The throttles implement LocoControl: a throttle drives the locomotive that was *)
(* selected last and no other one, takes none after the selection was aborted, and *)
(* lets go only when told to, whatever other throttles and devices do, also when   *)
(* a confirmation or an abort comes in a state that it is not meant for.           *)
THEOREM ImplementsControl == Spec => ControlSpec
<1>1. IInv /\ IInv' /\ [Next]_vars => [Control!Next]_control
  BY NextMaps
<1>. QED BY <1>1, InitMaps, Invariance, PTL DEF Spec, ControlSpec, Control!Spec
-------------------------------------------------------------------------------
(* Control until dispatched: the invariant of the steps of selecting and of    *)
(* dispatching, for every order in which what was written, what the station    *)
(* answers and what the throttles hear can follow one another.                 *)
(* What message m means for slot s, when its locomotive is l: it tells of the   *)
(* slot or makes the station tell of it, frees the slot, takes it with a null   *)
(* move, dispatches it, or says that it is in use.                              *)
Is(m, k, s, l) ==
    \/ /\ k = "tells"
       /\ \/ m.op = "LOCO_ADDR" /\ m.addr = l
          \/ m.op = "MOVE_SLOT" /\ m.source = s
          \/ m.op \in {"REQUEST_SLOT_DATA", "SLOT_READ_DATA"} /\ m.slot = s
    \/ k = "frees" /\ m.op = "SLOT_STAT1" /\ m.slot = s
    \/ k = "moves" /\ m.op = "MOVE_SLOT" /\ m.source = s /\ m.slot = s
    \/ k = "dispatches" /\ m.op = "MOVE_SLOT" /\ m.source = s /\ m.slot = DispatchSlot
    \/ k = "inuse" /\ m.op = "SLOT_READ_DATA" /\ m.slot = s /\ m.status = "IN_USE"

(* A message of kind k is in q; one of kind k is behind one of kind j. *)
Has(q, k, s, l) == \E i \in 1..Len(q) : Is(q[i], k, s, l)
Follows(q, j, k, s, l) ==
    \E a, b \in 1..Len(q) : a < b /\ Is(q[a], j, s, l) /\ Is(q[b], k, s, l)
(* Every dispatch in q is undone by a null move behind it. *)
MovedAgain(q, s, l) ==
    \A a \in 1..Len(q) : Is(q[a], "dispatches", s, l) =>
        \E b \in 1..Len(q) : a < b /\ Is(q[b], "moves", s, l)

(* What throttle t has still to hear of what was on the bus. *)
Rest(t) == IF given < t THEN inq ELSE Tail(inq)

(* A throttle drives, and nothing on the way takes its slot away; ... *)
Driving(r, o, st, s, l) ==
    /\ st = "IN_USE" \/ Has(o, "moves", s, l)
    /\ ~Has(r, "frees", s, l)
    /\ ~Has(o, "frees", s, l)
    /\ MovedAgain(o, s, l)
(* ... it lets the slot go, and nothing behind its message tells of the slot; ... *)
Leaving(r, o, st, s, l) ==
    /\ ~Follows(r, "frees", "tells", s, l)
    /\ Has(r, "frees", s, l) => (st = "COMMON" /\ ~Has(o, "tells", s, l))
    /\ ~Follows(o, "frees", "tells", s, l)
(* ... or it is elsewhere, and an answer that it will act on is not stale. *)
Away(r, o, st, s, l) ==
    /\ st = "COMMON"
    /\ ~Has(o, "moves", s, l)
    /\ ~Has(r, "inuse", s, l)
    /\ ~Follows(r, "tells", "frees", s, l)
    /\ Has(r, "tells", s, l) => ~Has(o, "frees", s, l)
    /\ ~Follows(o, "tells", "frees", s, l)

(* Nobody but t has ever wanted the locomotive of s. *)
Alone(t, s) == address[s] # NoLoco /\ asked[address[s]] \subseteq {t}

GivenFront == given # 0 => inq # <<>>
OneSlot == \A r, s \in Slots : (address[r] = address[s] /\ address[s] # NoLoco) => r = s
Asking == \A t \in Throttles : request_loco_number[t] \in Locos => t \in asked[request_loco_number[t]]
NoSteal == \A t \in Throttles :
    request_state[t] = "STEAL" => ~(asked[request_loco_number[t]] \subseteq {t})
(* A slot that was never given away is in nobody's messages. *)
Unused(q, s) == ~Has(q, "frees", s, NoLoco) /\ ~Has(q, "tells", s, NoLoco)
Fresh == \A s \in Slots : address[s] = NoLoco =>
    (status[s] = "COMMON" /\ Unused(inq, s) /\ Unused(out, s))
(* Where throttle t stands with slot s. *)
Stands(t, s) ==
    /\ (slot_number[t] = s /\ request_state[t] # "SET_COMMON")
          => Driving(Rest(t), out, status[s], s, address[s])
    /\ (slot_number[t] = s /\ request_state[t] = "SET_COMMON")
          => Leaving(Rest(t), out, status[s], s, address[s])
    /\ slot_number[t] # s => Away(Rest(t), out, status[s], s, address[s])
Owned == \A t \in Throttles, s \in Slots : Alone(t, s) => Stands(t, s)

ControlInv == /\ GivenFront /\ OneSlot
              /\ (foreign = 0 => (Asking /\ NoSteal /\ Fresh /\ Owned))

-------------------------------------------------------------------------------
(* Sequences of messages: behind what is there, and without the first one. *)

LEMMA HasAppend ==
    ASSUME NEW S, NEW q \in Seq(S), NEW e \in S, NEW k, NEW s, NEW l
    PROVE  Has(Append(q, e), k, s, l) <=> (Has(q, k, s, l) \/ Is(e, k, s, l))
<1>. DEFINE r == Append(q, e)
<1>1. /\ Len(r) = Len(q) + 1 /\ Len(q) \in Nat
      /\ \A i \in 1..Len(q) : r[i] = q[i]
      /\ r[Len(q) + 1] = e
  BY ONLY q \in Seq(S), e \in S, Appending
<1>. HIDE DEF r
<1>2. \A i : i \in 1..Len(r) <=> (i \in 1..Len(q) \/ i = Len(q) + 1)
  BY <1>1
<1>3. Has(r, k, s, l) <=> (Has(q, k, s, l) \/ Is(e, k, s, l))
  BY <1>1, <1>2 DEF Has
<1>. QED BY <1>3 DEF r

LEMMA FollowsAppend ==
    ASSUME NEW S, NEW q \in Seq(S), NEW e \in S, NEW j, NEW k, NEW s, NEW l
    PROVE  Follows(Append(q, e), j, k, s, l)
             <=> (Follows(q, j, k, s, l) \/ (Has(q, j, s, l) /\ Is(e, k, s, l)))
<1>. DEFINE r == Append(q, e)
<1>1. /\ Len(r) = Len(q) + 1 /\ Len(q) \in Nat
      /\ \A i \in 1..Len(q) : r[i] = q[i]
      /\ r[Len(q) + 1] = e
  BY ONLY q \in Seq(S), e \in S, Appending
<1>. HIDE DEF r
<1>2. \A i : i \in 1..Len(r) <=> (i \in 1..Len(q) \/ i = Len(q) + 1)
  BY <1>1
<1>3. \A a, b \in 1..Len(r) : a < b => (a \in 1..Len(q) /\ (b \in 1..Len(q) \/ b = Len(q) + 1))
  BY <1>1
<1>4. \A a \in 1..Len(q) : a < Len(q) + 1
  BY <1>1
<1>5. Follows(r, j, k, s, l) => (Follows(q, j, k, s, l) \/ (Has(q, j, s, l) /\ Is(e, k, s, l)))
  BY <1>1, <1>3 DEF Has, Follows
<1>6. (Follows(q, j, k, s, l) \/ (Has(q, j, s, l) /\ Is(e, k, s, l))) => Follows(r, j, k, s, l)
  BY <1>1, <1>2, <1>4 DEF Has, Follows
<1>. QED BY <1>5, <1>6 DEF r

LEMMA HasTail ==
    ASSUME NEW S, NEW q \in Seq(S), q # <<>>, NEW k, NEW s, NEW l
    PROVE  Has(q, k, s, l) <=> (Is(Head(q), k, s, l) \/ Has(Tail(q), k, s, l))
<1>1. /\ Head(q) = q[1] /\ Len(q) \in Nat /\ Len(q) >= 1 /\ Len(Tail(q)) = Len(q) - 1
      /\ \A i \in 1..Len(Tail(q)) : Tail(q)[i] = q[i + 1]
  BY ONLY q \in Seq(S), q # <<>>, HeadTail
<1>2. \A i \in 1..Len(q) : i = 1 \/ (i - 1 \in 1..Len(Tail(q)) /\ Tail(q)[i - 1] = q[i])
  <2>1. \A i \in 1..Len(q) : i = 1 \/ (i - 1 \in 1..Len(Tail(q)) /\ (i - 1) + 1 = i)
    BY <1>1
  <2>. QED BY <1>1, <2>1
<1>3. \A i \in 1..Len(Tail(q)) : i + 1 \in 1..Len(q)
  BY <1>1
<1>4. 1 \in 1..Len(q)
  BY <1>1
<1>5. Has(q, k, s, l) => (Is(Head(q), k, s, l) \/ Has(Tail(q), k, s, l))
  BY <1>1, <1>2 DEF Has
<1>6. (Is(Head(q), k, s, l) \/ Has(Tail(q), k, s, l)) => Has(q, k, s, l)
  BY <1>1, <1>3, <1>4 DEF Has
<1>. QED BY <1>5, <1>6

LEMMA FollowsTail ==
    ASSUME NEW S, NEW q \in Seq(S), q # <<>>, NEW j, NEW k, NEW s, NEW l
    PROVE  Follows(q, j, k, s, l)
             <=> (Follows(Tail(q), j, k, s, l) \/ (Is(Head(q), j, s, l) /\ Has(Tail(q), k, s, l)))
<1>1. /\ Head(q) = q[1] /\ Len(q) \in Nat /\ Len(q) >= 1 /\ Len(Tail(q)) = Len(q) - 1
      /\ \A i \in 1..Len(Tail(q)) : Tail(q)[i] = q[i + 1]
  BY ONLY q \in Seq(S), q # <<>>, HeadTail
<1>2. ASSUME NEW a \in 1..Len(q), NEW b \in 1..Len(q), a < b, Is(q[a], j, s, l), Is(q[b], k, s, l)
      PROVE  Follows(Tail(q), j, k, s, l) \/ (Is(Head(q), j, s, l) /\ Has(Tail(q), k, s, l))
  <2>1. b - 1 \in 1..Len(Tail(q)) /\ (b - 1) + 1 = b
    BY <1>1, <1>2
  <2>2. Tail(q)[b - 1] = q[b]
    BY <1>1, <2>1
  <2>3. CASE a = 1
    BY <1>1, <1>2, <2>1, <2>2, <2>3 DEF Has
  <2>4. CASE a # 1
    <3>1. a - 1 \in 1..Len(Tail(q)) /\ (a - 1) + 1 = a /\ a - 1 < b - 1
      BY <1>1, <1>2, <2>4
    <3>2. Tail(q)[a - 1] = q[a]
      BY <1>1, <3>1
    <3>. QED BY <1>2, <2>1, <2>2, <3>1, <3>2 DEF Follows
  <2>. QED BY <2>3, <2>4
<1>3. Follows(Tail(q), j, k, s, l) => Follows(q, j, k, s, l)
  <2>1. \A a, b \in 1..Len(Tail(q)) : a < b => (a + 1 \in 1..Len(q) /\ b + 1 \in 1..Len(q) /\ a + 1 < b + 1)
    BY <1>1
  <2>. QED BY <1>1, <2>1 DEF Follows
<1>4. (Is(Head(q), j, s, l) /\ Has(Tail(q), k, s, l)) => Follows(q, j, k, s, l)
  <2>1. \A b \in 1..Len(Tail(q)) : b + 1 \in 1..Len(q) /\ 1 < b + 1 /\ 1 \in 1..Len(q)
    BY <1>1
  <2>. QED BY <1>1, <2>1 DEF Has, Follows
<1>. QED BY <1>2, <1>3, <1>4 DEF Follows

LEMMA AgainAppend ==
    ASSUME NEW S, NEW q \in Seq(S), NEW e \in S, NEW s, NEW l, ~Is(e, "dispatches", s, l),
           MovedAgain(q, s, l) \/ Is(e, "moves", s, l)
    PROVE  MovedAgain(Append(q, e), s, l)
<1>. DEFINE r == Append(q, e)
<1>1. /\ Len(r) = Len(q) + 1 /\ Len(q) \in Nat
      /\ \A i \in 1..Len(q) : r[i] = q[i]
      /\ r[Len(q) + 1] = e
  BY ONLY q \in Seq(S), e \in S, Appending
<1>. HIDE DEF r
<1>2. ASSUME NEW a \in 1..Len(r), Is(r[a], "dispatches", s, l)
      PROVE  \E b \in 1..Len(r) : a < b /\ Is(r[b], "moves", s, l)
  <2>1. a \in 1..Len(q) /\ a < Len(q) + 1 /\ Len(q) + 1 \in 1..Len(r)
    <3>1. a \in 1..Len(q) \/ a = Len(q) + 1
      BY <1>1
    <3>2. a # Len(q) + 1
      BY <1>1, <1>2
    <3>. QED BY <1>1, <3>1, <3>2
  <2>2. CASE Is(e, "moves", s, l)
    BY <1>1, <2>1, <2>2
  <2>3. CASE MovedAgain(q, s, l)
    <3>1. PICK b \in 1..Len(q) : a < b /\ Is(q[b], "moves", s, l)
      BY <1>1, <1>2, <2>1, <2>3 DEF MovedAgain
    <3>2. b \in 1..Len(r) /\ r[b] = q[b]
      BY <1>1
    <3>. QED BY <3>1, <3>2
  <2>. QED BY <2>2, <2>3
<1>3. MovedAgain(r, s, l)
  BY <1>2 DEF MovedAgain
<1>. QED BY <1>3 DEF r

LEMMA AgainTail ==
    ASSUME NEW S, NEW q \in Seq(S), q # <<>>, NEW s, NEW l, MovedAgain(q, s, l)
    PROVE  /\ MovedAgain(Tail(q), s, l)
           /\ Is(Head(q), "dispatches", s, l) => Has(Tail(q), "moves", s, l)
<1>1. /\ Head(q) = q[1] /\ Len(q) \in Nat /\ Len(q) >= 1 /\ Len(Tail(q)) = Len(q) - 1
      /\ \A i \in 1..Len(Tail(q)) : Tail(q)[i] = q[i + 1]
  BY ONLY q \in Seq(S), q # <<>>, HeadTail
<1>2. ASSUME NEW a \in 1..Len(q), Is(q[a], "dispatches", s, l)
      PROVE  \E c \in 1..Len(Tail(q)) : a < c + 1 /\ Is(Tail(q)[c], "moves", s, l)
  <2>1. PICK b \in 1..Len(q) : a < b /\ Is(q[b], "moves", s, l)
    BY <1>2 DEF MovedAgain
  <2>2. b - 1 \in 1..Len(Tail(q)) /\ (b - 1) + 1 = b
    BY <1>1, <2>1
  <2>. QED BY <1>1, <2>1, <2>2
<1>3. MovedAgain(Tail(q), s, l)
  <2>1. ASSUME NEW a \in 1..Len(Tail(q)), Is(Tail(q)[a], "dispatches", s, l)
        PROVE  \E c \in 1..Len(Tail(q)) : a < c /\ Is(Tail(q)[c], "moves", s, l)
    <3>1. a + 1 \in 1..Len(q) /\ Tail(q)[a] = q[a + 1]
      BY <1>1
    <3>2. PICK c \in 1..Len(Tail(q)) : a + 1 < c + 1 /\ Is(Tail(q)[c], "moves", s, l)
      BY <1>2, <2>1, <3>1
    <3>3. a < c
      BY <3>2
    <3>. QED BY <3>2, <3>3
  <2>. QED BY <2>1 DEF MovedAgain
<1>4. Is(Head(q), "dispatches", s, l) => Has(Tail(q), "moves", s, l)
  <2>1. 1 \in 1..Len(q)
    BY <1>1
  <2>. QED BY <1>1, <1>2, <2>1 DEF Has
<1>. QED BY <1>3, <1>4

LEMMA EmptyHas ==
    ASSUME NEW k, NEW s, NEW l
    PROVE  ~Has(<<>>, k, s, l) /\ (\A j : ~Follows(<<>>, j, k, s, l)) /\ MovedAgain(<<>>, s, l)
<1>1. Len(<<>>) = 0
  OBVIOUS
<1>2. \A i : i \notin 1..Len(<<>>)
  BY <1>1
<1>. QED BY <1>2 DEF Has, Follows, MovedAgain

-------------------------------------------------------------------------------
(* Where a throttle stands: when something is written, heard or transmitted. *)

LEMMA DrivingWrite ==
    ASSUME NEW S, NEW r, NEW o \in Seq(S), NEW m \in S, NEW st, NEW s, NEW l,
           Driving(r, o, st, s, l), ~Is(m, "frees", s, l), ~Is(m, "dispatches", s, l)
    PROVE  Driving(r, Append(o, m), st, s, l)
<1>1. \A k : Has(Append(o, m), k, s, l) <=> (Has(o, k, s, l) \/ Is(m, k, s, l))
  BY HasAppend
<1>2. MovedAgain(Append(o, m), s, l)
  BY AgainAppend DEF Driving
<1>. QED BY <1>1, <1>2 DEF Driving

LEMMA LeavingWrite ==
    ASSUME NEW S, NEW r, NEW o \in Seq(S), NEW m \in S, NEW st, NEW s, NEW l,
           Leaving(r, o, st, s, l), ~Is(m, "tells", s, l)
    PROVE  Leaving(r, Append(o, m), st, s, l)
<1>1. \A k : Has(Append(o, m), k, s, l) <=> (Has(o, k, s, l) \/ Is(m, k, s, l))
  BY HasAppend
<1>2. \A j, k : Follows(Append(o, m), j, k, s, l)
                  <=> (Follows(o, j, k, s, l) \/ (Has(o, j, s, l) /\ Is(m, k, s, l)))
  BY FollowsAppend
<1>. QED BY <1>1, <1>2 DEF Leaving

LEMMA AwayWrite ==
    ASSUME NEW S, NEW r, NEW o \in Seq(S), NEW m \in S, NEW st, NEW s, NEW l,
           Away(r, o, st, s, l), ~Is(m, "moves", s, l), ~Is(m, "frees", s, l)
    PROVE  Away(r, Append(o, m), st, s, l)
<1>1. \A k : Has(Append(o, m), k, s, l) <=> (Has(o, k, s, l) \/ Is(m, k, s, l))
  BY HasAppend
<1>2. \A j, k : Follows(Append(o, m), j, k, s, l)
                  <=> (Follows(o, j, k, s, l) \/ (Has(o, j, s, l) /\ Is(m, k, s, l)))
  BY FollowsAppend
<1>. QED BY <1>1, <1>2 DEF Away

LEMMA Hearing ==
    ASSUME NEW S, NEW r \in Seq(S), r # <<>>, NEW o, NEW st, NEW s, NEW l
    PROVE  /\ Driving(r, o, st, s, l) => Driving(Tail(r), o, st, s, l)
           /\ Leaving(r, o, st, s, l) => Leaving(Tail(r), o, st, s, l)
           /\ Away(r, o, st, s, l) => Away(Tail(r), o, st, s, l)
<1>1. \A k : Has(r, k, s, l) <=> (Is(Head(r), k, s, l) \/ Has(Tail(r), k, s, l))
  BY HasTail
<1>2. \A j, k : Follows(r, j, k, s, l)
                  <=> (Follows(Tail(r), j, k, s, l) \/ (Is(Head(r), j, s, l) /\ Has(Tail(r), k, s, l)))
  BY FollowsTail
<1>. QED BY <1>1, <1>2 DEF Driving, Leaving, Away

(* The answers of the station: m, and after it f, unless f is no message at all. *)
NoAnswer == [op |-> "NONE"]
Heard(r, m, f, q) == IF f = NoAnswer THEN q = Append(r, m) ELSE q = Append(Append(r, m), f)

(* What a message and its answer f say about a slot s of a locomotive. *)
Honest(m, f, st, st2, s, l) ==
    /\ ~Is(f, "frees", s, l)
    /\ Is(f, "tells", s, l) => Is(m, "tells", s, l)
    /\ Is(f, "inuse", s, l) => (st = "IN_USE" \/ Is(m, "moves", s, l))
    /\ Is(m, "moves", s, l) => st2 = "IN_USE"
    /\ (Is(m, "dispatches", s, l) \/ Is(m, "frees", s, l)) => st2 = "COMMON"
    /\ ~(Is(m, "moves", s, l) \/ Is(m, "dispatches", s, l) \/ Is(m, "frees", s, l)) => st2 = st

LEMMA HeardHas ==
    ASSUME NEW S, NEW r \in Seq(S), NEW m \in S, NEW f \in S \cup {NoAnswer}, NEW q, Heard(r, m, f, q),
           NEW s, NEW l
    PROVE  /\ \A k : Has(q, k, s, l) <=> (Has(r, k, s, l) \/ Is(m, k, s, l) \/ Is(f, k, s, l))
           /\ \A j, k : Follows(q, j, k, s, l)
                          <=> (\/ Follows(r, j, k, s, l) \/ (Has(r, j, s, l) /\ Is(m, k, s, l))
                               \/ ((Has(r, j, s, l) \/ Is(m, j, s, l)) /\ Is(f, k, s, l)))
<1>. DEFINE u == Append(r, m)
<1>1. u \in Seq(S)
  OBVIOUS
<1>2. \A k : Has(u, k, s, l) <=> (Has(r, k, s, l) \/ Is(m, k, s, l))
  BY HasAppend
<1>3. \A j, k : Follows(u, j, k, s, l)
                  <=> (Follows(r, j, k, s, l) \/ (Has(r, j, s, l) /\ Is(m, k, s, l)))
  BY FollowsAppend
<1>4. \A k : ~Is(NoAnswer, k, s, l)
  BY DEF Is, NoAnswer
<1>. HIDE DEF u
<1>5. CASE f = NoAnswer
  <2>1. q = u
    BY <1>5 DEF Heard, u
  <2>. QED BY <1>2, <1>3, <1>4, <1>5, <2>1
<1>6. CASE f # NoAnswer
  <2>1. q = Append(u, f) /\ f \in S
    BY <1>6 DEF Heard, u
  <2>2. \A k : Has(q, k, s, l) <=> (Has(u, k, s, l) \/ Is(f, k, s, l))
    BY <1>1, <2>1, HasAppend
  <2>3. \A j, k : Follows(q, j, k, s, l)
                    <=> (Follows(u, j, k, s, l) \/ (Has(u, j, s, l) /\ Is(f, k, s, l)))
    BY <1>1, <2>1, FollowsAppend
  <2>. QED BY <1>2, <1>3, <2>2, <2>3
<1>. QED BY <1>5, <1>6

\* The same, for the messages alone.
LEMMA HeardKinds ==
    ASSUME NEW S, NEW r \in Seq(S), NEW m \in S, NEW f \in S \cup {NoAnswer}, NEW q, Heard(r, m, f, q),
           NEW s, NEW l
    PROVE  \A k : Has(q, k, s, l) <=> (Has(r, k, s, l) \/ Is(m, k, s, l) \/ Is(f, k, s, l))
<1>. DEFINE u == Append(r, m)
<1>1. u \in Seq(S) /\ \A k : Has(u, k, s, l) <=> (Has(r, k, s, l) \/ Is(m, k, s, l))
  BY HasAppend
<1>2. f = NoAnswer => \A k : ~Is(f, k, s, l)
  BY DEF Is, NoAnswer
<1>3. CASE f = NoAnswer
  BY <1>1, <1>2, <1>3 DEF Heard
<1>4. CASE f # NoAnswer
  <2>1. q = Append(u, f) /\ f \in S
    BY <1>4 DEF Heard
  <2>. HIDE DEF u
  <2>2. \A k : Has(q, k, s, l) <=> (Has(u, k, s, l) \/ Is(f, k, s, l))
    BY <1>1, <2>1, HasAppend
  <2>. QED BY <1>1, <2>2
<1>. QED BY <1>3, <1>4

LEMMA IsFacts ==
    ASSUME NEW m, NEW s, NEW l
    PROVE  /\ Is(m, "frees", s, l)
                => (~Is(m, "tells", s, l) /\ ~Is(m, "moves", s, l) /\ ~Is(m, "dispatches", s, l))
           /\ (Is(m, "moves", s, l) \/ Is(m, "dispatches", s, l)) => Is(m, "tells", s, l)
           /\ Is(m, "inuse", s, l) => Is(m, "tells", s, l)
BY DEF Is

LEMMA Sending ==
    ASSUME NEW S, NEW T, NEW r \in Seq(S), NEW o \in Seq(T), o # <<>>, Head(o) \in S,
           NEW f \in S \cup {NoAnswer}, NEW q, Heard(r, Head(o), f, q),
           NEW st, NEW st2, NEW s, NEW l, Honest(Head(o), f, st, st2, s, l)
    PROVE  /\ Driving(r, o, st, s, l) => Driving(q, Tail(o), st2, s, l)
           /\ Leaving(r, o, st, s, l) => Leaving(q, Tail(o), st2, s, l)
           /\ (Away(r, o, st, s, l) /\ ~Is(Head(o), "inuse", s, l)) => Away(q, Tail(o), st2, s, l)
<1>. DEFINE m == Head(o)
<1>1. /\ \A k : Has(q, k, s, l) <=> (Has(r, k, s, l) \/ Is(m, k, s, l) \/ Is(f, k, s, l))
      /\ \A j, k : Follows(q, j, k, s, l)
                     <=> (\/ Follows(r, j, k, s, l) \/ (Has(r, j, s, l) /\ Is(m, k, s, l))
                          \/ ((Has(r, j, s, l) \/ Is(m, j, s, l)) /\ Is(f, k, s, l)))
  BY ZenonT(60), HeardHas
<1>2. \A k : Has(o, k, s, l) <=> (Is(m, k, s, l) \/ Has(Tail(o), k, s, l))
  BY HasTail
<1>3. \A j, k : Follows(o, j, k, s, l)
                  <=> (Follows(Tail(o), j, k, s, l) \/ (Is(m, j, s, l) /\ Has(Tail(o), k, s, l)))
  BY FollowsTail
<1>4. MovedAgain(o, s, l) => (MovedAgain(Tail(o), s, l)
                                /\ (Is(m, "dispatches", s, l) => Has(Tail(o), "moves", s, l)))
  BY AgainTail
<1>5. Honest(m, f, st, st2, s, l)
  OBVIOUS
<1>. HIDE DEF m
<1>6. /\ Is(m, "frees", s, l)
           => (~Is(m, "tells", s, l) /\ ~Is(m, "moves", s, l) /\ ~Is(m, "dispatches", s, l))
      /\ (Is(m, "moves", s, l) \/ Is(m, "dispatches", s, l)) => Is(m, "tells", s, l)
  BY IsFacts
<1>7. ASSUME Driving(r, o, st, s, l) PROVE Driving(q, Tail(o), st2, s, l)
  <2>1. ~Is(m, "frees", s, l) /\ ~Has(Tail(o), "frees", s, l) /\ ~Has(q, "frees", s, l)
    BY <1>1, <1>2, <1>5, <1>7 DEF Driving, Honest
  <2>2. MovedAgain(Tail(o), s, l)
    BY <1>4, <1>7 DEF Driving
  <2>3. st2 = "IN_USE" \/ Has(Tail(o), "moves", s, l)
    BY <1>2, <1>4, <1>5, <1>7, <2>1 DEF Driving, Honest
  <2>. QED BY <2>1, <2>2, <2>3 DEF Driving
<1>8. ASSUME Leaving(r, o, st, s, l) PROVE Leaving(q, Tail(o), st2, s, l)
  <2>1. ~Follows(Tail(o), "frees", "tells", s, l)
    BY <1>3, <1>8 DEF Leaving
  <2>2. CASE Has(r, "frees", s, l)
    <3>1. st = "COMMON" /\ ~Is(m, "tells", s, l) /\ ~Has(Tail(o), "tells", s, l)
      BY <1>2, <1>8, <2>2 DEF Leaving
    <3>2. ~Is(f, "tells", s, l) /\ st2 = "COMMON"
      BY <1>5, <1>6, <3>1 DEF Honest
    <3>3. ~Follows(q, "frees", "tells", s, l)
      BY <1>1, <1>8, <3>1, <3>2 DEF Leaving
    <3>. QED BY <2>1, <3>1, <3>2, <3>3 DEF Leaving
  <2>3. CASE ~Has(r, "frees", s, l)
    <3>1. Is(m, "frees", s, l) => (st2 = "COMMON" /\ ~Has(Tail(o), "tells", s, l) /\ ~Is(f, "tells", s, l))
      BY <1>3, <1>5, <1>6, <1>8 DEF Leaving, Honest
    <3>2. ~Follows(q, "frees", "tells", s, l)
      BY <1>1, <1>8, <2>3, <3>1 DEF Leaving
    <3>3. Has(q, "frees", s, l) => Is(m, "frees", s, l)
      BY <1>1, <1>5, <2>3 DEF Honest
    <3>. QED BY <2>1, <3>1, <3>2, <3>3 DEF Leaving
  <2>. QED BY <2>2, <2>3
<1>9. ASSUME Away(r, o, st, s, l), ~Is(m, "inuse", s, l) PROVE Away(q, Tail(o), st2, s, l)
  <2>1. ~Is(m, "moves", s, l) /\ ~Has(Tail(o), "moves", s, l)
    BY <1>2, <1>9 DEF Away
  <2>2. st2 = "COMMON" /\ ~Is(f, "inuse", s, l)
    BY <1>5, <1>9, <2>1 DEF Away, Honest
  <2>3. ~Has(q, "inuse", s, l)
    BY <1>1, <1>9, <2>2 DEF Away
  <2>4. ~Follows(q, "tells", "frees", s, l)
    BY <1>1, <1>2, <1>5, <1>9 DEF Away, Honest
  <2>5. Has(q, "tells", s, l) => ~Has(Tail(o), "frees", s, l)
    BY <1>1, <1>2, <1>3, <1>5, <1>9 DEF Away, Honest
  <2>6. ~Follows(Tail(o), "tells", "frees", s, l)
    BY <1>3, <1>9 DEF Away
  <2>. QED BY <2>1, <2>2, <2>3, <2>4, <2>5, <2>6 DEF Away
<1>. QED BY <1>7, <1>8, <1>9 DEF m

-------------------------------------------------------------------------------
(* One step, for a throttle u and a slot s. *)

(* A message that says nothing about the slot. *)
Quiet(m, s, l) == ~Is(m, "tells", s, l) /\ ~Is(m, "frees", s, l)

LEMMA QuietWrite ==
    ASSUME NEW r, NEW o \in Seq(Requests), NEW m \in Requests, NEW st, NEW s, NEW l, Quiet(m, s, l)
    PROVE  /\ Driving(r, o, st, s, l) => Driving(r, Append(o, m), st, s, l)
           /\ Leaving(r, o, st, s, l) => Leaving(r, Append(o, m), st, s, l)
           /\ Away(r, o, st, s, l) => Away(r, Append(o, m), st, s, l)
<1>1. /\ ~Is(m, "tells", s, l) /\ ~Is(m, "frees", s, l)
      /\ ~Is(m, "moves", s, l) /\ ~Is(m, "dispatches", s, l)
  BY IsFacts DEF Quiet
<1>. QED BY <1>1, DrivingWrite, LeavingWrite, AwayWrite

(* Throttle u has the same to do with s as before, and writes nothing about it. *)
Keeps(u, s) ==
    /\ slot_number'[u] = s <=> slot_number[u] = s
    /\ slot_number[u] = s => (request_state'[u] = "SET_COMMON" <=> request_state[u] = "SET_COMMON")
    /\ address'[s] = address[s] /\ status'[s] = status[s]

LEMMA StandsHeard ==
    ASSUME NEW u, NEW s, out \in Seq(Requests), Rest(u) \in Seq(Message), Stands(u, s), Keeps(u, s),
           Rest(u)' = Rest(u) \/ (Rest(u) # <<>> /\ Rest(u)' = Tail(Rest(u))), out' = out
    PROVE  Stands(u, s)'
<1>. DEFINE r == Rest(u)
            l == address[s]
            st == status[s]
            q == Rest(u)'
<1>1. /\ Driving(r, out, st, s, l) => Driving(q, out, st, s, l)
      /\ Leaving(r, out, st, s, l) => Leaving(q, out, st, s, l)
      /\ Away(r, out, st, s, l) => Away(q, out, st, s, l)
  <2>1. CASE q = r
    BY <2>1
  <2>2. CASE r # <<>> /\ q = Tail(r)
    BY ONLY <2>2, r \in Seq(Message), Hearing
  <2>. QED BY <2>1, <2>2
<1>. HIDE DEF q, r
<1>2. /\ (slot_number[u] = s /\ request_state[u] # "SET_COMMON") => Driving(r, out, st, s, l)
      /\ (slot_number[u] = s /\ request_state[u] = "SET_COMMON") => Leaving(r, out, st, s, l)
      /\ slot_number[u] # s => Away(r, out, st, s, l)
  BY DEF Stands, r
<1>3. /\ (slot_number'[u] = s /\ request_state'[u] # "SET_COMMON") => Driving(q, out', status'[s], s, address'[s])
      /\ (slot_number'[u] = s /\ request_state'[u] = "SET_COMMON") => Leaving(q, out', status'[s], s, address'[s])
      /\ slot_number'[u] # s => Away(q, out', status'[s], s, address'[s])
  BY <1>1, <1>2 DEF Keeps
<1>. QED BY <1>3 DEF Stands, q

LEMMA StandsKept ==
    ASSUME NEW u, NEW s, NEW m \in Requests, out \in Seq(Requests), Rest(u) \in Seq(Message),
           Stands(u, s), Keeps(u, s),
           Rest(u)' = Rest(u) \/ (Rest(u) # <<>> /\ Rest(u)' = Tail(Rest(u))),
           Write(m), Quiet(m, s, address[s])
    PROVE  Stands(u, s)'
<1>. DEFINE r == Rest(u)
            l == address[s]
            st == status[s]
            q == Rest(u)'
            o == Append(out, m)
<1>1. /\ Driving(r, out, st, s, l) => Driving(q, out, st, s, l)
      /\ Leaving(r, out, st, s, l) => Leaving(q, out, st, s, l)
      /\ Away(r, out, st, s, l) => Away(q, out, st, s, l)
  <2>1. CASE q = r
    BY <2>1
  <2>2. CASE r # <<>> /\ q = Tail(r)
    BY ONLY <2>2, r \in Seq(Message), Hearing
  <2>. QED BY <2>1, <2>2
<1>2. out' = o
  BY DEF Write
<1>. HIDE DEF q
<1>3. /\ Driving(q, out, st, s, l) => Driving(q, o, st, s, l)
      /\ Leaving(q, out, st, s, l) => Leaving(q, o, st, s, l)
      /\ Away(q, out, st, s, l) => Away(q, o, st, s, l)
  BY QuietWrite
<1>. HIDE DEF r, o
<1>4. /\ (slot_number[u] = s /\ request_state[u] # "SET_COMMON") => Driving(r, out, st, s, l)
      /\ (slot_number[u] = s /\ request_state[u] = "SET_COMMON") => Leaving(r, out, st, s, l)
      /\ slot_number[u] # s => Away(r, out, st, s, l)
  BY DEF Stands, r
<1>5. /\ (slot_number'[u] = s /\ request_state'[u] # "SET_COMMON") => Driving(q, out', status'[s], s, address'[s])
      /\ (slot_number'[u] = s /\ request_state'[u] = "SET_COMMON") => Leaving(q, out', status'[s], s, address'[s])
      /\ slot_number'[u] # s => Away(q, out', status'[s], s, address'[s])
  BY <1>1, <1>2, <1>3, <1>4 DEF Keeps
<1>. QED BY <1>5 DEF Stands, q

(* What all the steps need of the invariants. *)
Core ==
    /\ IInv /\ GivenFront /\ OneSlot /\ Asking /\ NoSteal /\ Fresh /\ Owned

LEMMA RestTyped == ASSUME IInv, GivenFront, NEW u \in Throttles PROVE Rest(u) \in Seq(Message)
<1>1. inq \in Seq(Message) /\ given \in Nat /\ u \in Nat /\ u >= 1
  BY NumAssumption DEF IInv, TypeOK, Throttles
<1>2. CASE given < u
  BY <1>1, <1>2 DEF Rest
<1>3. CASE ~(given < u)
  <2>1. inq # <<>>
    BY <1>1, <1>3 DEF GivenFront
  <2>2. Tail(inq) \in Seq(Message)
    BY ONLY <1>1, <2>1, HeadTail
  <2>. QED BY <1>3, <2>2 DEF Rest
<1>. QED BY <1>2, <1>3

(* Somebody else's locomotive: only the throttle that asked for it can be alone with it. *)
LEMMA AloneIs ==
    ASSUME Core, NEW t \in Throttles, NEW u \in Throttles, NEW s \in Slots, Alone(u, s),
           request_loco_number[t] = address[s]
    PROVE  u = t
<1>1. address[s] \in Locos
  BY DEF Core, IInv, TypeOK, Alone
<1>2. t \in asked[address[s]]
  BY <1>1 DEF Core, Asking
<1>. QED BY <1>2 DEF Alone

LEMMA NoLocoSelected ==
    ASSUME Core, NEW t \in Throttles, NEW s \in Slots, address[s] = NoLoco
    PROVE  slot_number[t] # s
BY LocosAssumption, SlotFacts DEF Core, IInv, Selecting, SlotHoldsLoco, Selected

(* Fresh stays when m is written that says nothing of unused slots. *)
LEMMA FreshKept ==
    ASSUME Core, NEW m \in Requests, out' = out \/ Write(m), UNCHANGED <<address, status>>,
           inq' = inq \/ (inq # <<>> /\ inq' = Tail(inq)),
           \A s \in Slots : address[s] = NoLoco => Quiet(m, s, NoLoco)
    PROVE  Fresh'
<1>1. inq \in Seq(Message) /\ out \in Seq(Requests)
  BY DEF Core, IInv, TypeOK
<1>2. ASSUME NEW s \in Slots, address[s] = NoLoco
      PROVE  status[s] = "COMMON" /\ Unused(inq', s) /\ Unused(out', s)
  <2>1. status[s] = "COMMON" /\ Unused(inq, s) /\ Unused(out, s) /\ Quiet(m, s, NoLoco)
    BY <1>2 DEF Core, Fresh
  <2>2. Unused(inq', s)
    <3>1. CASE inq # <<>> /\ inq' = Tail(inq)
      <4>1. \A k : Has(inq, k, s, NoLoco) <=> (Is(Head(inq), k, s, NoLoco) \/ Has(Tail(inq), k, s, NoLoco))
        BY ONLY <1>1, <3>1, HasTail
      <4>. QED BY <2>1, <3>1, <4>1 DEF Unused
    <3>. QED BY <2>1, <3>1
  <2>3. Unused(out', s)
    <3>1. CASE Write(m)
      <4>1. \A k : Has(Append(out, m), k, s, NoLoco) <=> (Has(out, k, s, NoLoco) \/ Is(m, k, s, NoLoco))
        BY ONLY <1>1, m \in Requests, HasAppend
      <4>. QED BY <2>1, <3>1, <4>1 DEF Unused, Quiet, Write
    <3>. QED BY <2>1, <3>1
  <2>. QED BY <2>1, <2>2, <2>3
<1>. QED BY <1>2 DEF Fresh, Unused

-------------------------------------------------------------------------------
(* The calls of users. *)

Parts == GivenFront /\ OneSlot /\ Asking /\ NoSteal /\ Fresh /\ Owned

LEMMA OutsideControl ==
    ASSUME Core, Outside
    PROVE  /\ GivenFront' /\ OneSlot' /\ UNCHANGED <<address, status, inq>>
           /\ \A u \in Throttles : Rest(u)' = Rest(u)
BY DEF Core, Outside, station, GivenFront, OneSlot, Rest

(* The slot of a throttle holds the locomotive that it asked for. *)
LEMMA SlotOf ==
    ASSUME Core, NEW t \in Throttles, slot_number[t] # NoSlot
    PROVE  /\ slot_number[t] \in Slots /\ request_loco_number[t] \in Locos
           /\ address[slot_number[t]] = request_loco_number[t]
           /\ address[slot_number[t]] # NoLoco
BY LocosAssumption DEF Core, IInv, TypeOK, Selecting, SlotHoldsLoco, Selected, SlotNumber

LEMMA DrivesControl ==
    ASSUME Core, NEW m \in Requests, Drives(m), m.op \in {"LOCO_SPEED", "LOCO_DIR_FUNC"}
    PROVE  Parts'
<1>1. \A s, l : Quiet(m, s, l)
  BY DEF Quiet, Is
<1>2. /\ GivenFront' /\ OneSlot' /\ UNCHANGED <<address, status, inq>>
      /\ \A u \in Throttles : Rest(u)' = Rest(u)
  BY OutsideControl DEF Drives
<1>3. Asking' /\ NoSteal'
  BY DEF Core, Asking, NoSteal, Drives
<1>4. Fresh'
  BY <1>1, <1>2, FreshKept DEF Drives
<1>5. ASSUME NEW u \in Throttles, NEW s \in Slots, Alone(u, s)' PROVE Stands(u, s)'
  <2>1. Alone(u, s) /\ Stands(u, s) /\ out \in Seq(Requests)
    BY <1>2, <1>5 DEF Core, IInv, TypeOK, Owned, Alone, Drives
  <2>2. Rest(u) \in Seq(Message)
    BY RestTyped DEF Core
  <2>3. Keeps(u, s)
    BY <1>2 DEF Keeps, Drives
  <2>4. Rest(u)' = Rest(u) /\ Write(m) /\ Quiet(m, s, address[s])
    BY <1>1, <1>2 DEF Drives
  <2>. QED BY ONLY <2>1, <2>2, <2>3, <2>4, m \in Requests, StandsKept
<1>. QED BY <1>2, <1>3, <1>4, <1>5 DEF Parts, Owned

LEMMA SelectControl ==
    ASSUME Core, NEW t \in Throttles, NEW l \in Locos, select_locomotive(t, l)
    PROVE  Parts'
<1>. DEFINE m == LocoAddr(l)
<1>0. m \in Requests /\ m.op = "LOCO_ADDR" /\ m.addr = l /\ l # NoLoco
  BY RequestsAre, LocosAssumption DEF LocoAddr
<1>1. Outside /\ Write(m)
  BY DEF select_locomotive, Outside
<1>2. /\ GivenFront' /\ OneSlot' /\ UNCHANGED <<address, status, inq>>
      /\ \A u \in Throttles : Rest(u)' = Rest(u)
  BY <1>1, OutsideControl
<1>. HIDE DEF m
<1>3. /\ \A k \in Locos : asked[k] \subseteq asked'[k]
      /\ t \in asked'[l]
  BY DEF Core, IInv, TypeOK, select_locomotive
<1>4. Asking'
  BY <1>3 DEF Core, IInv, TypeOK, Asking, select_locomotive
<1>5. NoSteal'
  <2>1. ASSUME NEW u \in Throttles, request_state'[u] = "STEAL"
        PROVE  ~(asked'[request_loco_number'[u]] \subseteq {u})
    <3>1. u # t /\ request_state[u] = "STEAL" /\ request_loco_number'[u] = request_loco_number[u]
      BY <2>1 DEF Core, IInv, TypeOK, select_locomotive
    <3>2. request_loco_number[u] \in Locos
      BY <3>1 DEF Core, IInv, Selecting
    <3>. QED BY <1>3, <3>1, <3>2 DEF Core, NoSteal
  <2>. QED BY <2>1 DEF NoSteal
<1>6. Fresh'
  <2>1. \A s \in Slots : Quiet(m, s, NoLoco)
    BY <1>0 DEF Quiet, Is
  <2>. QED BY <1>0, <1>1, <1>2, <2>1, FreshKept
<1>7. ASSUME NEW u \in Throttles, NEW s \in Slots, Alone(u, s)' PROVE Stands(u, s)'
  <2>0. address[s] \in Locos /\ address'[s] = address[s]
    BY <1>2, <1>7 DEF Core, IInv, TypeOK, Alone
  <2>1. Alone(u, s) /\ Stands(u, s) /\ out \in Seq(Requests)
    BY <1>3, <1>7, <2>0 DEF Core, IInv, TypeOK, Owned, Alone
  <2>2. Rest(u) \in Seq(Message)
    BY RestTyped DEF Core
  <2>3. Keeps(u, s)
    <3>1. slot_number[t] = NoSlot /\ slot_number[t] # s
      BY SlotFacts DEF select_locomotive, Selected
    <3>2. u # t => request_state'[u] = request_state[u]
      BY DEF Core, IInv, TypeOK, select_locomotive
    <3>3. slot_number' = slot_number
      BY DEF select_locomotive
    <3>. QED BY <1>2, <3>1, <3>2, <3>3 DEF Keeps
  <2>4. CASE address[s] # l
    <3>1. Rest(u)' = Rest(u) /\ Write(m) /\ Quiet(m, s, address[s])
      BY <1>0, <1>1, <1>2, <2>4 DEF Quiet, Is
    <3>. QED BY ONLY <1>0, <2>1, <2>2, <2>3, <3>1, StandsKept
  <2>5. CASE address[s] = l
    <3>1. u = t
      BY <1>3, <1>7, <2>0, <2>5 DEF Alone
    <3>2. slot_number[u] # s /\ slot_number'[u] # s
      BY <3>1, SlotFacts DEF select_locomotive, Selected
    <3>3. Away(Rest(u), out, status[s], s, address[s])
      BY <2>1, <3>2 DEF Stands
    <3>4. ~Is(m, "moves", s, address[s]) /\ ~Is(m, "frees", s, address[s])
      BY <1>0 DEF Is
    <3>5. Away(Rest(u), Append(out, m), status[s], s, address[s])
      BY ONLY <1>0, <2>1, <3>3, <3>4, AwayWrite
    <3>6. Away(Rest(u)', out', status'[s], s, address'[s])
      BY <1>1, <1>2, <3>5 DEF Write
    <3>. QED BY <3>2, <3>6 DEF Stands
  <2>. QED BY <2>4, <2>5
<1>. QED BY <1>2, <1>4, <1>5, <1>6, <1>7 DEF Parts, Owned

LEMMA DispatchControl ==
    ASSUME Core, NEW t \in Throttles, dispatch(t)
    PROVE  Parts'
<1>. DEFINE d == slot_number[t]
            m == SlotStat1(d)
<1>0. d \in Slots /\ address[d] = request_loco_number[t] /\ address[d] # NoLoco
  BY SlotOf DEF dispatch, Selected
<1>1. m \in Requests /\ m.op = "SLOT_STAT1" /\ m.slot = d
  BY <1>0, RequestsAre DEF SlotStat1
<1>2. Outside /\ Write(m)
  BY DEF dispatch, Outside
<1>3. /\ GivenFront' /\ OneSlot' /\ UNCHANGED <<address, status, inq>>
      /\ \A u \in Throttles : Rest(u)' = Rest(u)
  BY <1>2, OutsideControl
<1>. HIDE DEF m
<1>4. Asking'
  BY DEF Core, Asking, dispatch
<1>5. NoSteal'
  BY DEF Core, IInv, TypeOK, NoSteal, dispatch
<1>6. Fresh'
  <2>1. \A s \in Slots : address[s] = NoLoco => Quiet(m, s, NoLoco)
    BY <1>0, <1>1 DEF Quiet, Is
  <2>. QED BY <1>1, <1>2, <1>3, <2>1, FreshKept
<1>7. ASSUME NEW u \in Throttles, NEW s \in Slots, Alone(u, s)' PROVE Stands(u, s)'
  <2>1. Alone(u, s) /\ Stands(u, s) /\ out \in Seq(Requests)
    BY <1>3, <1>7 DEF Core, IInv, TypeOK, Owned, Alone, dispatch
  <2>2. Rest(u) \in Seq(Message)
    BY RestTyped DEF Core
  <2>3. CASE s # d
    <3>1. Rest(u)' = Rest(u) /\ Quiet(m, s, address[s])
      BY <1>1, <1>3, <2>3 DEF Quiet, Is
    <3>2. Keeps(u, s)
      BY <1>3, <2>3 DEF Core, IInv, TypeOK, Keeps, dispatch
    <3>. QED BY ONLY <1>1, <1>2, <2>1, <2>2, <3>1, <3>2, StandsKept
  <2>4. CASE s = d
    <3>1. u = t
      BY <1>0, <2>1, <2>4, AloneIs
    <3>2. slot_number[u] = s /\ slot_number'[u] = s /\ request_state'[u] = "SET_COMMON"
      BY <2>4, <3>1 DEF Core, IInv, TypeOK, dispatch
    <3>3. ~Is(m, "tells", s, address[s])
      BY <1>1 DEF Is
    <3>4. Leaving(Rest(u), out, status[s], s, address[s])
      <4>1. CASE request_state[u] = "SET_COMMON"
        BY <2>1, <3>2, <4>1 DEF Stands
      <4>2. CASE request_state[u] # "SET_COMMON"
        <5>1. Driving(Rest(u), out, status[s], s, address[s])
          BY <2>1, <3>2, <4>2 DEF Stands
        <5>2. \A q : ~Has(q, "frees", s, address[s]) => ~Follows(q, "frees", "tells", s, address[s])
          BY DEF Has, Follows
        <5>. QED BY <5>1, <5>2 DEF Driving, Leaving
      <4>. QED BY <4>1, <4>2
    <3>5. Leaving(Rest(u), Append(out, m), status[s], s, address[s])
      BY ONLY <1>1, <2>1, <3>3, <3>4, LeavingWrite
    <3>6. Leaving(Rest(u)', out', status'[s], s, address'[s])
      BY <1>2, <1>3, <3>5 DEF Write
    <3>. QED BY <3>2, <3>6 DEF Stands
  <2>. QED BY <2>3, <2>4
<1>. QED BY <1>3, <1>4, <1>5, <1>6, <1>7 DEF Parts, Owned

LEMMA StealsControl ==
    ASSUME Core, NEW t \in Throttles, Steals(t)
    PROVE  Parts'
<1>. DEFINE d == request_slot_number[t]
            m == RequestSlotData(d)
<1>0. /\ d \in Slots /\ address[d] = request_loco_number[t] /\ request_loco_number[t] \in Locos
      /\ request_state[t] = "STEAL" /\ slot_number[t] = NoSlot
      /\ ~(asked[request_loco_number[t]] \subseteq {t})
  BY DEF Core, IInv, Selecting, NoSteal, Steals
<1>1. m \in Requests /\ m.op = "REQUEST_SLOT_DATA" /\ m.slot = d
  BY <1>0, RequestsAre DEF RequestSlotData
<1>2. Outside /\ Write(m)
  BY DEF Steals, Outside
<1>3. /\ GivenFront' /\ OneSlot' /\ UNCHANGED <<address, status, inq>>
      /\ \A u \in Throttles : Rest(u)' = Rest(u)
  BY <1>2, OutsideControl
<1>. HIDE DEF m
<1>4. Asking'
  BY DEF Core, Asking, Steals
<1>5. NoSteal'
  BY DEF Core, IInv, TypeOK, NoSteal, Steals
<1>6. Fresh'
  <2>1. \A s \in Slots : address[s] = NoLoco => Quiet(m, s, NoLoco)
    BY <1>0, <1>1, LocosAssumption DEF Quiet, Is
  <2>. QED BY <1>1, <1>2, <1>3, <2>1, FreshKept
<1>7. ASSUME NEW u \in Throttles, NEW s \in Slots, Alone(u, s)' PROVE Stands(u, s)'
  <2>1. Alone(u, s) /\ Stands(u, s) /\ out \in Seq(Requests)
    BY <1>3, <1>7 DEF Core, IInv, TypeOK, Owned, Alone, Steals
  <2>2. Rest(u) \in Seq(Message)
    BY RestTyped DEF Core
  <2>3. s # d
    <3>1. CASE s = d
      <4>1. u = t
        BY <1>0, <2>1, <3>1, AloneIs
      <4>. QED BY <1>0, <2>1, <3>1, <4>1 DEF Alone
    <3>. QED BY <3>1
  <2>4. Rest(u)' = Rest(u) /\ Quiet(m, s, address[s])
    BY <1>1, <1>3, <2>3 DEF Quiet, Is
  <2>5. Keeps(u, s)
    <3>1. u # t => (slot_number'[u] = slot_number[u] /\ request_state'[u] = request_state[u])
      BY DEF Core, IInv, TypeOK, Steals
    <3>2. slot_number'[t] = d
      BY DEF Core, IInv, TypeOK, Steals
    <3>. QED BY <1>0, <1>3, <2>3, <3>1, <3>2, SlotFacts DEF Keeps
  <2>. QED BY ONLY <1>1, <1>2, <2>1, <2>2, <2>4, <2>5, StandsKept
<1>. QED BY <1>3, <1>4, <1>5, <1>6, <1>7 DEF Parts, Owned

LEMMA AbortControl ==
    ASSUME Core, NEW t \in Throttles, abort_loco_selection(t)
    PROVE  Parts'
<1>1. /\ \A l \in Locos : asked[l] \subseteq asked'[l]
      /\ request_state[t] = "SET_COMMON" => CutShort \in asked'[request_loco_number[t]]
  <2>1. CASE request_state[t] = "SET_COMMON"
    <3>1. request_loco_number[t] \in Locos
      BY <2>1 DEF Core, IInv, Selecting
    <3>. QED BY <2>1, <3>1 DEF Core, IInv, TypeOK, abort_loco_selection, EndRequest
  <2>2. CASE request_state[t] # "SET_COMMON"
    BY <2>2 DEF abort_loco_selection, EndRequest
  <2>. QED BY <2>1, <2>2
<1>2. Outside /\ out' = out /\ UNCHANGED <<slot_number, request_loco_number>>
  BY DEF abort_loco_selection, Outside
<1>3. /\ GivenFront' /\ OneSlot' /\ UNCHANGED <<address, status, inq>>
      /\ \A u \in Throttles : Rest(u)' = Rest(u)
  BY <1>2, OutsideControl
<1>7. /\ request_state'[t] = "NONE"
      /\ \A u \in Throttles \ {t} : request_state'[u] = request_state[u]
  BY DEF Core, IInv, TypeOK, abort_loco_selection, EndRequest
<1>4. Asking' /\ Fresh'
  BY <1>1, <1>2, <1>3 DEF Core, Asking, Fresh, Unused
<1>5. NoSteal'
  <2>1. ASSUME NEW u \in Throttles, request_state'[u] = "STEAL"
        PROVE  ~(asked'[request_loco_number'[u]] \subseteq {u})
    <3>1. request_state[u] = "STEAL" /\ request_loco_number'[u] = request_loco_number[u]
      BY <1>2, <1>7, <2>1
    <3>2. request_loco_number[u] \in Locos
      BY <3>1 DEF Core, IInv, Selecting
    <3>. QED BY <1>1, <3>1, <3>2 DEF Core, NoSteal
  <2>. QED BY <2>1 DEF NoSteal
<1>6. ASSUME NEW u \in Throttles, NEW s \in Slots, Alone(u, s)' PROVE Stands(u, s)'
  <2>0. address[s] \in Locos /\ address'[s] = address[s] /\ asked'[address[s]] \subseteq {u}
    BY <1>3, <1>6 DEF Core, IInv, TypeOK, Alone
  <2>1. Alone(u, s) /\ Stands(u, s) /\ out \in Seq(Requests)
    BY <1>1, <1>3, <1>6, <2>0 DEF Core, IInv, TypeOK, Owned, Alone
  <2>2. Rest(u) \in Seq(Message)
    BY RestTyped DEF Core
  <2>3. Keeps(u, s)
    <3>1. CASE u = t /\ slot_number[t] = s
      <4>1. request_loco_number[t] = address[s]
        BY <3>1, SlotFacts, SlotOf
      <4>2. CutShort # u
        BY NumAssumption DEF CutShort, Throttles
      <4>3. request_state[t] # "SET_COMMON"
        BY <1>1, <2>0, <3>1, <4>1, <4>2
      <4>. QED BY <1>2, <1>3, <1>7, <3>1, <4>3 DEF Keeps
    <3>2. CASE ~(u = t /\ slot_number[t] = s)
      BY <1>2, <1>3, <1>7, <3>2 DEF Keeps
    <3>. QED BY <3>1, <3>2
  <2>4. Rest(u)' = Rest(u)
    BY <1>3
  <2>. QED BY ONLY <1>2, <2>1, <2>2, <2>3, <2>4, StandsHeard
<1>. QED BY <1>3, <1>4, <1>5, <1>6 DEF Parts, Owned

-------------------------------------------------------------------------------
(* The bus. *)

(* What the station makes of a message for a slot that it had given to a locomotive, *)
(* and that it gives a slot to a locomotive only when it has none.                   *)
Answered(m, f) ==
    /\ f \in Message \cup {NoAnswer} /\ Heard(inq, m, f, inq')
    /\ \A s \in Slots : address'[s] = address[s] =>
          Honest(m, f, status[s], status'[s], s, address[s])
    /\ \A s \in Slots : address'[s] # address[s] =>
          /\ address[s] = NoLoco /\ address'[s] \in Locos /\ \A r \in Slots : address[r] # address'[s]
          /\ address' = [address EXCEPT ![s] = address'[s]]
          /\ status'[s] = status[s] /\ ~Is(m, "frees", s, NoLoco)
          /\ \A l : ~Is(f, "frees", s, l) /\ (Is(f, "inuse", s, l) => status[s] = "IN_USE")

LEMMA AnswerIs ==
    ASSUME IInv, NEW m \in Requests, CommandStation(m)
    PROVE  \E f : Answered(m, f)
<1>0. /\ m \in Message /\ Fields(m) /\ inq \in Seq(Message)
      /\ address \in [Slots -> Locos \cup {NoLoco}] /\ status \in [Slots -> Status]
  BY ReadsAre, MessageFields DEF IInv, TypeOK
<1>1. ASSUME NEW f \in Message, inq' = inq \o <<m, f>> PROVE Heard(inq, m, f, inq')
  <2>1. inq' = Append(Append(inq, m), f)
    BY ONLY <1>0, <1>1, ConcatTwo
  <2>2. \A n \in Message : n # NoAnswer
    <3>1. \A n \in Message : n.op # "NONE"
      BY DEF Message, Requests, SlotReads
    <3>. QED BY <3>1 DEF NoAnswer
  <2>. QED BY <2>1, <2>2 DEF Heard
<1>2. ASSUME NEW r \in Slots, NEW st \in Status, inq' = inq \o <<m, SlotRead(r, st, address[r])>>,
             address' = address,
             Is(m, "tells", r, address[r]),
             st = "IN_USE" => (status[r] = "IN_USE" \/ Is(m, "moves", r, address[r])),
             \A s \in Slots :
               /\ Is(m, "moves", s, address[s]) => status'[s] = "IN_USE"
               /\ (Is(m, "dispatches", s, address[s]) \/ Is(m, "frees", s, address[s])) => status'[s] = "COMMON"
               /\ ~(Is(m, "moves", s, address[s]) \/ Is(m, "dispatches", s, address[s]) \/ Is(m, "frees", s, address[s]))
                    => status'[s] = status[s]
      PROVE  \E f : Answered(m, f)
  <2>. DEFINE f == SlotRead(r, st, address[r])
  <2>1. f \in Message /\ Heard(inq, m, f, inq')
    <3>1. f \in Message
      BY <1>0, ReadsAre
    <3>. HIDE DEF f
    <3>2. inq' = inq \o <<m, f>>
      BY <1>2 DEF f
    <3>. QED BY <1>1, <3>1, <3>2
  <2>2. f.op = "SLOT_READ_DATA" /\ f.slot = r /\ f.status = st
    BY DEF SlotRead
  <2>. HIDE DEF f
  <2>3. \A s \in Slots : Honest(m, f, status[s], status'[s], s, address[s])
    <3>1. ASSUME NEW s \in Slots PROVE Honest(m, f, status[s], status'[s], s, address[s])
      <4>1. ~Is(f, "frees", s, address[s])
        BY <2>2 DEF Is
      <4>2. (Is(f, "tells", s, address[s]) \/ Is(f, "inuse", s, address[s])) => s = r
        BY <2>2 DEF Is
      <4>3. Is(f, "inuse", s, address[s]) => st = "IN_USE"
        BY <2>2 DEF Is
      <4>. QED BY <1>2, <4>1, <4>2, <4>3 DEF Honest
    <3>. QED BY <3>1
  <2>. QED BY <1>2, <2>1, <2>3 DEF Answered
<1>3. ASSUME inq' = inq \o <<m, LongAck>>, UNCHANGED station,
             \A s \in Slots : /\ Is(m, "moves", s, address[s]) => status[s] = "IN_USE"
                              /\ ~Is(m, "dispatches", s, address[s]) /\ ~Is(m, "frees", s, address[s])
      PROVE  \E f : Answered(m, f)
  <2>. DEFINE f == LongAck
  <2>1. f \in Message /\ f.op = "LONG_ACK"
    BY ReadsAre DEF LongAck
  <2>. HIDE DEF f
  <2>2. Heard(inq, m, f, inq')
    <3>1. inq' = inq \o <<m, f>>
      BY <1>3 DEF f
    <3>. QED BY <1>1, <2>1, <3>1
  <2>3. \A s, l : ~Is(f, "frees", s, l) /\ ~Is(f, "tells", s, l) /\ ~Is(f, "inuse", s, l)
    BY <2>1 DEF Is
  <2>4. \A s \in Slots : Honest(m, f, status[s], status'[s], s, address[s])
    BY <1>3, <2>3 DEF Honest, station
  <2>. QED BY <1>3, <2>1, <2>2, <2>4 DEF Answered, station
<1>4. CASE m.op = "LOCO_ADDR" /\ Assign(m.addr)
  <2>. DEFINE l == m.addr
  <2>1. l \in Locos
    BY <1>0, <1>4 DEF Fields
  <2>2. PICK r \in Slots :
          /\ address[r] = NoLoco
          /\ address' = [address EXCEPT ![r] = l]
          /\ UNCHANGED <<status, slotSpeed>>
          /\ inq' = inq \o <<LocoAddr(l), SlotRead(r, status[r], l)>>
    BY <1>4 DEF Assign
  <2>. DEFINE f == SlotRead(r, status[r], l)
  <2>3. m = LocoAddr(l)
    BY <1>4 DEF Requests, LocoAddr
  <2>4. f \in Message
    BY <1>0, <2>1, ReadsAre
  <2>5. f.op = "SLOT_READ_DATA" /\ f.slot = r /\ f.status = status[r]
    BY DEF SlotRead
  <2>6. inq' = inq \o <<m, f>>
    BY <2>2, <2>3
  <2>. HIDE DEF f
  <2>7. Heard(inq, m, f, inq')
    BY <1>1, <2>4, <2>6
  <2>8. \A s \in Slots : s # r => (address'[s] = address[s] /\ Honest(m, f, status[s], status'[s], s, address[s]))
    <3>1. ASSUME NEW s \in Slots, s # r
          PROVE  address'[s] = address[s] /\ Honest(m, f, status[s], status'[s], s, address[s])
      <4>1. /\ ~Is(f, "frees", s, address[s]) /\ ~Is(f, "tells", s, address[s]) /\ ~Is(f, "inuse", s, address[s])
            /\ ~Is(m, "moves", s, address[s]) /\ ~Is(m, "dispatches", s, address[s])
            /\ ~Is(m, "frees", s, address[s])
        BY <1>4, <2>5, <3>1 DEF Is
      <4>. QED BY <1>0, <2>2, <3>1, <4>1 DEF Honest
    <3>. QED BY <3>1
  <2>9. /\ address'[r] = l /\ \A k \in Slots : address[k] # l
        /\ status'[r] = status[r] /\ ~Is(m, "frees", r, NoLoco)
        /\ \A k : ~Is(f, "frees", r, k) /\ (Is(f, "inuse", r, k) => status[r] = "IN_USE")
    BY <1>0, <1>4, <2>2, <2>5 DEF Is, Assign
  <2>10. l # NoLoco
    BY <2>1, LocosAssumption
  <2>11. \A s \in Slots : address'[s] = address[s] => Honest(m, f, status[s], status'[s], s, address[s])
    BY <2>2, <2>8, <2>9, <2>10
  <2>12. \A s \in Slots : address'[s] # address[s] => s = r
    BY <2>8
  <2>13. ASSUME NEW s \in Slots, address'[s] # address[s]
         PROVE  /\ address[s] = NoLoco /\ address'[s] \in Locos /\ \A k \in Slots : address[k] # address'[s]
                /\ address' = [address EXCEPT ![s] = address'[s]]
                /\ status'[s] = status[s] /\ ~Is(m, "frees", s, NoLoco)
                /\ \A k : ~Is(f, "frees", s, k) /\ (Is(f, "inuse", s, k) => status[s] = "IN_USE")
    <3>1. s = r
      BY <2>12, <2>13
    <3>2. address'[s] = l /\ address[s] = NoLoco /\ address' = [address EXCEPT ![s] = l]
      BY <2>2, <2>9, <3>1
    <3>. HIDE DEF l
    <3>3. address'[s] \in Locos /\ \A k \in Slots : address[k] # address'[s]
      BY <2>1, <2>9, <3>2
    <3>. QED BY <2>9, <3>1, <3>2, <3>3
  <2>. HIDE DEF l
  <2>. QED BY <2>4, <2>7, <2>11, <2>13 DEF Answered
<1>5. CASE /\ m.op = "LOCO_ADDR"
           /\ \E s \in Slots : address[s] = m.addr /\ inq' = inq \o <<m, ReadOf(s)>>
           /\ UNCHANGED station
  <2>1. PICK r \in Slots : address[r] = m.addr /\ inq' = inq \o <<m, SlotRead(r, status[r], address[r])>>
    BY <1>5 DEF ReadOf
  <2>2. status[r] \in Status /\ address' = address /\ status' = status
    BY <1>0, <1>5 DEF station
  <2>3. Is(m, "tells", r, address[r])
    BY <1>5, <2>1 DEF Is
  <2>4. \A s \in Slots : /\ ~Is(m, "moves", s, address[s]) /\ ~Is(m, "dispatches", s, address[s])
                         /\ ~Is(m, "frees", s, address[s])
    BY <1>5 DEF Is
  <2>. QED BY <1>2, <2>1, <2>2, <2>3, <2>4
<1>6. CASE m.op = "LOCO_ADDR" /\ inq' = inq \o <<m, LongAck>> /\ UNCHANGED station
  <2>1. \A s \in Slots : /\ ~Is(m, "moves", s, address[s]) /\ ~Is(m, "dispatches", s, address[s])
                         /\ ~Is(m, "frees", s, address[s])
    BY <1>6 DEF Is
  <2>. QED BY <1>3, <1>6, <2>1
<1>7. CASE AnswerNullMove(m)
  <2>1. m.slot \in Slots /\ m.source = m.slot /\ m.op = "MOVE_SLOT"
    BY <1>0, <1>7, SlotFacts DEF Fields, AnswerNullMove
  <2>2. \A s \in Slots : /\ Is(m, "moves", s, address[s]) <=> s = m.slot
                         /\ ~Is(m, "dispatches", s, address[s]) /\ ~Is(m, "frees", s, address[s])
    BY <2>1, SlotFacts DEF Is
  <2>3. CASE status[m.slot] # "IN_USE" /\ status' = [status EXCEPT ![m.slot] = "IN_USE"]
             /\ UNCHANGED <<address, slotSpeed>>
             /\ inq' = inq \o <<m, SlotRead(m.slot, "IN_USE", address[m.slot])>>
    <3>1. "IN_USE" \in Status /\ address' = address /\ Is(m, "tells", m.slot, address[m.slot])
      BY <2>1, <2>3 DEF Status, Is
    <3>2. \A s \in Slots : status'[s] = IF s = m.slot THEN "IN_USE" ELSE status[s]
      BY <1>0, <2>3
    <3>. QED BY <1>2, <2>1, <2>2, <2>3, <3>1, <3>2
  <2>4. CASE status[m.slot] = "IN_USE" /\ inq' = inq \o <<m, LongAck>> /\ UNCHANGED station
    BY <1>3, <2>2, <2>4
  <2>. QED BY <1>7, <2>3, <2>4 DEF AnswerNullMove
<1>8. CASE AnswerDispatch(m)
  <2>1. m.source \in Slots /\ m.op = "MOVE_SLOT" /\ m.slot = DispatchSlot
    BY <1>0, <1>8 DEF Fields, AnswerDispatch
  <2>2. \A s \in Slots : /\ ~Is(m, "moves", s, address[s])
                         /\ Is(m, "dispatches", s, address[s]) <=> s = m.source
                         /\ ~Is(m, "frees", s, address[s])
    BY <2>1, SlotFacts DEF Is
  <2>3. /\ "COMMON" \in Status /\ address' = address /\ Is(m, "tells", m.source, address[m.source])
        /\ inq' = inq \o <<m, SlotRead(m.source, "COMMON", address[m.source])>>
    BY <1>8, <2>1 DEF Status, Is, AnswerDispatch
  <2>4. \A s \in Slots : status'[s] = IF s = m.source THEN "COMMON" ELSE status[s]
    BY <1>0, <1>8 DEF AnswerDispatch
  <2>. QED BY <1>2, <2>1, <2>2, <2>3, <2>4
<1>9. CASE AnswerRequestSlotData(m)
  <2>1. /\ m.slot \in Slots /\ m.op = "REQUEST_SLOT_DATA" /\ address' = address /\ status' = status
        /\ inq' = inq \o <<m, SlotRead(m.slot, status[m.slot], address[m.slot])>>
    BY <1>0, <1>9 DEF Fields, AnswerRequestSlotData, ReadOf, station
  <2>2. \A s \in Slots : /\ ~Is(m, "moves", s, address[s]) /\ ~Is(m, "dispatches", s, address[s])
                         /\ ~Is(m, "frees", s, address[s])
    BY <2>1 DEF Is
  <2>3. status[m.slot] \in Status /\ Is(m, "tells", m.slot, address[m.slot])
    BY <1>0, <2>1 DEF Is
  <2>. QED BY <1>2, <2>1, <2>2, <2>3
<1>10. CASE Obey(m)
  <2>. DEFINE f == NoAnswer
  <2>1. Heard(inq, m, f, inq')
    BY <1>10 DEF Heard, Obey
  <2>2. \A k, s, l : ~Is(f, k, s, l)
    BY DEF Is, NoAnswer
  <2>. HIDE DEF f
  <2>3. \A s \in Slots : /\ ~Is(m, "moves", s, address[s]) /\ ~Is(m, "dispatches", s, address[s])
                         /\ Is(m, "frees", s, address[s]) <=> (m.op = "SLOT_STAT1" /\ m.slot = s)
    BY <1>10 DEF Obey, Is
  <2>4. \A s \in Slots : status'[s] = IF m.op = "SLOT_STAT1" /\ m.slot = s THEN "COMMON" ELSE status[s]
    BY <1>0, <1>10 DEF Obey
  <2>5. \A s \in Slots : Honest(m, f, status[s], status'[s], s, address[s])
    BY <2>2, <2>3, <2>4 DEF Honest
  <2>6. address' = address
    BY <1>10 DEF Obey
  <2>. QED BY <2>1, <2>5, <2>6 DEF Answered, f
<1>. QED BY <1>4, <1>5, <1>6, <1>7, <1>8, <1>9, <1>10 DEF CommandStation, AnswerLocoAddr

LEMMA StationKeeps ==
    ASSUME IInv, GivenFront, OneSlot, NEW m \in Requests, CommandStation(m), UNCHANGED given
    PROVE  GivenFront' /\ OneSlot'
<1>1. PICK f : Answered(m, f)
  BY AnswerIs
<1>2. GivenFront'
  <2>1. inq \in Seq(Message) /\ m \in Message /\ f \in Message \cup {NoAnswer}
    BY <1>1, ReadsAre DEF IInv, TypeOK, Answered
  <2>2. Append(inq, m) # <<>> /\ (f \in Message => Append(Append(inq, m), f) # <<>>)
    BY <2>1
  <2>. QED BY <1>1, <2>1, <2>2 DEF Answered, Heard, GivenFront
<1>3. OneSlot'
  <2>1. ASSUME NEW s \in Slots, address'[s] # address[s] PROVE OneSlot'
    <3>1. /\ \A r \in Slots : address[r] # address'[s]
          /\ \A r \in Slots : r # s => address'[r] = address[r]
      BY <1>1, <2>1 DEF Answered, IInv, TypeOK
    <3>. QED BY <3>1 DEF OneSlot
  <2>2. CASE \A s \in Slots : address'[s] = address[s]
    BY <2>2 DEF OneSlot
  <2>. QED BY <2>1, <2>2
<1>. QED BY <1>2, <1>3

LEMMA RestAppend ==
    ASSUME IInv, GivenFront, NEW m \in Message, NEW f \in Message \cup {NoAnswer},
           Heard(inq, m, f, inq'), UNCHANGED given, NEW u \in Throttles
    PROVE  Heard(Rest(u), m, f, Rest(u)')
<1>1. inq \in Seq(Message) /\ given \in Nat /\ u \in Nat /\ u >= 1
  BY NumAssumption DEF IInv, TypeOK, Throttles
<1>2. CASE given < u
  BY <1>2 DEF Rest
<1>3. CASE ~(given < u)
  <2>1. inq # <<>>
    BY <1>1, <1>3 DEF GivenFront
  <2>2. \A q \in Seq(Message), e \in Message : q # <<>> =>
          (Tail(Append(q, e)) = Append(Tail(q), e) /\ Append(q, e) # <<>> /\ Append(q, e) \in Seq(Message))
    <3>1. ASSUME NEW q \in Seq(Message), NEW e \in Message, q # <<>>
          PROVE  Tail(Append(q, e)) = Append(Tail(q), e)
      <4>. DEFINE a == Tail(Append(q, e))
                  b == Append(Tail(q), e)
      <4>1. a \in Seq(Message) /\ b \in Seq(Message) /\ Len(a) = Len(q) /\ Len(b) = Len(q)
        BY <3>1
      <4>2. \A i \in 1..Len(q) : a[i] = b[i]
        BY <3>1
      <4>3. \A v, w \in Seq(Message) : (Len(v) = Len(w) /\ \A i \in 1..Len(v) : v[i] = w[i]) => v = w
        OBVIOUS
      <4>. HIDE DEF a, b
      <4>4. a = b
        BY <4>1, <4>2, <4>3
      <4>. QED BY <4>4 DEF a, b
    <3>2. \A q \in Seq(Message), e \in Message : Append(q, e) # <<>> /\ Append(q, e) \in Seq(Message)
      <4>1. ASSUME NEW q \in Seq(Message), NEW e \in Message
            PROVE  Append(q, e) # <<>> /\ Append(q, e) \in Seq(Message)
        <5>1. Append(q, e) \in Seq(Message) /\ Len(Append(q, e)) = Len(q) + 1 /\ Len(q) \in Nat
          BY ONLY q \in Seq(Message), e \in Message, Appending
        <5>2. Len(Append(q, e)) # 0 /\ Len(<<>>) = 0
          BY <5>1
        <5>. QED BY <5>1, <5>2
      <4>. QED BY <4>1
    <3>. QED BY <3>1, <3>2
  <2>3. Rest(u) = Tail(inq) /\ Rest(u)' = Tail(inq')
    BY <1>3 DEF Rest
  <2>4. CASE f = NoAnswer
    BY <1>1, <2>1, <2>2, <2>3, <2>4 DEF Heard
  <2>5. CASE f # NoAnswer
    <3>1. inq' = Append(Append(inq, m), f) /\ f \in Message
      BY <2>5 DEF Heard
    <3>2. Tail(inq') = Append(Tail(Append(inq, m)), f)
      BY <1>1, <2>1, <2>2, <3>1
    <3>3. Tail(Append(inq, m)) = Append(Tail(inq), m)
      BY <1>1, <2>1, <2>2
    <3>. QED BY <2>3, <2>5, <3>2, <3>3 DEF Heard
  <2>. QED BY <2>4, <2>5
<1>. QED BY <1>2, <1>3

LEMMA UnusedIs ==
    ASSUME NEW q, NEW s, Unused(q, s), NEW l
    PROVE  ~Has(q, "frees", s, l) /\ ~Has(q, "moves", s, l) /\ ~Has(q, "inuse", s, l)
<1>1. ASSUME NEW i \in 1..Len(q)
      PROVE  ~Is(q[i], "frees", s, l) /\ ~Is(q[i], "moves", s, l) /\ ~Is(q[i], "inuse", s, l)
  <2>1. ~Is(q[i], "frees", s, NoLoco) /\ ~Is(q[i], "tells", s, NoLoco)
    BY DEF Unused, Has
  <2>. QED BY <2>1 DEF Is
<1>. QED BY <1>1 DEF Has

LEMMA UnusedTail ==
    ASSUME NEW S, NEW q \in Seq(S), q # <<>>, NEW s, Unused(q, s)
    PROVE  /\ Unused(Tail(q), s)
           /\ ~Is(Head(q), "frees", s, NoLoco) /\ ~Is(Head(q), "tells", s, NoLoco)
<1>1. \A k : Has(q, k, s, NoLoco) <=> (Is(Head(q), k, s, NoLoco) \/ Has(Tail(q), k, s, NoLoco))
  BY HasTail
<1>. QED BY <1>1 DEF Unused

LEMMA TransmitControl ==
    ASSUME Core, Transmit
    PROVE  Parts'
<1>. DEFINE m == Head(out)
<1>1. /\ out \in Seq(Requests) /\ out # <<>> /\ inq \in Seq(Message) /\ CommandStation(m)
      /\ out' = Tail(out) /\ UNCHANGED <<throttle, given, ops, foreign, asked>>
  BY DEF Core, IInv, TypeOK, Transmit
<1>2. m \in Requests
  BY ONLY <1>1, HeadTail
<1>3. m \in Message
  BY <1>2, ReadsAre
<1>4. PICK f : Answered(m, f)
  BY <1>1, <1>2, AnswerIs DEF Core
<1>5. GivenFront' /\ OneSlot'
  BY <1>1, <1>2, StationKeeps DEF Core
<1>6. Asking' /\ NoSteal'
  BY <1>1 DEF Core, Asking, NoSteal, throttle
<1>7. /\ f \in Message \cup {NoAnswer} /\ Heard(inq, m, f, inq')
      /\ \A s \in Slots : address'[s] = address[s] => Honest(m, f, status[s], status'[s], s, address[s])
      /\ \A s \in Slots : address'[s] # address[s] =>
            /\ address[s] = NoLoco /\ address'[s] \in Locos
            /\ status'[s] = status[s] /\ ~Is(m, "frees", s, NoLoco)
            /\ \A l : ~Is(f, "frees", s, l) /\ (Is(f, "inuse", s, l) => status[s] = "IN_USE")
  BY <1>4 DEF Answered
<1>8. Fresh'
  <2>1. ASSUME NEW s \in Slots, address'[s] = NoLoco
        PROVE  status'[s] = "COMMON" /\ Unused(inq', s) /\ Unused(out', s)
    <3>1. address[s] = NoLoco
      BY <1>7, <2>1, LocosAssumption
    <3>2. status[s] = "COMMON" /\ Unused(inq, s) /\ Unused(out, s)
      BY <3>1 DEF Core, Fresh
    <3>3. Honest(m, f, status[s], status'[s], s, NoLoco)
      BY <1>7, <2>1, <3>1
    <3>4. Unused(Tail(out), s) /\ ~Is(m, "frees", s, NoLoco) /\ ~Is(m, "tells", s, NoLoco)
      BY ONLY <1>1, <3>2, UnusedTail
    <3>. HIDE DEF m
    <3>5. ~Is(m, "moves", s, NoLoco) /\ ~Is(m, "dispatches", s, NoLoco)
      BY <3>4, IsFacts
    <3>6. status'[s] = "COMMON" /\ ~Is(f, "frees", s, NoLoco) /\ ~Is(f, "tells", s, NoLoco)
      BY <3>2, <3>3, <3>4, <3>5 DEF Honest
    <3>7. \A k : Has(inq', k, s, NoLoco) <=> (Has(inq, k, s, NoLoco) \/ Is(m, k, s, NoLoco) \/ Is(f, k, s, NoLoco))
      <4>. DEFINE z == inq'
      <4>1. Heard(inq, m, f, z)
        BY <1>7
      <4>. HIDE DEF z
      <4>2. inq \in Seq(Message) /\ m \in Message /\ f \in Message \cup {NoAnswer}
        BY <1>1, <1>3, <1>7
      <4>3. \A k : Has(z, k, s, NoLoco) <=> (Has(inq, k, s, NoLoco) \/ Is(m, k, s, NoLoco) \/ Is(f, k, s, NoLoco))
        BY ONLY <4>1, <4>2, HeardKinds
      <4>. QED BY <4>3 DEF z
    <3>8. Unused(inq', s)
      BY <3>2, <3>4, <3>6, <3>7 DEF Unused
    <3>. QED BY <1>1, <3>4, <3>6, <3>8
  <2>. QED BY <2>1 DEF Fresh, Unused
<1>9. ASSUME NEW u \in Throttles, NEW s \in Slots, Alone(u, s)' PROVE Stands(u, s)'
  <2>. DEFINE r == Rest(u)
              q == Rest(u)'
              l == address'[s]
  <2>1. r \in Seq(Message)
    BY RestTyped DEF Core
  <2>2. Heard(r, m, f, q)
    BY ONLY Core, <1>1, <1>3, <1>7, u \in Throttles, RestAppend DEF Core
  <2>3. slot_number' = slot_number /\ request_state' = request_state
    BY <1>1 DEF throttle
  <2>4. CASE address'[s] = address[s]
    <3>1. Alone(u, s) /\ Stands(u, s)
      BY <1>1, <1>9, <2>4 DEF Core, Owned, Alone
    <3>2. Honest(m, f, status[s], status'[s], s, l)
      BY <1>7, <2>4
    <3>3. ~Is(m, "inuse", s, l)
      <4>1. \A n \in Requests : n.op # "SLOT_READ_DATA"
        BY DEF Requests
      <4>. QED BY <1>2, <4>1 DEF Is
    <3>. HIDE DEF l, r, q
    <3>4. /\ Driving(r, out, status[s], s, l) => Driving(q, Tail(out), status'[s], s, l)
          /\ Leaving(r, out, status[s], s, l) => Leaving(q, Tail(out), status'[s], s, l)
          /\ Away(r, out, status[s], s, l) => Away(q, Tail(out), status'[s], s, l)
      BY ONLY <1>1, <1>3, <1>7, <2>1, <2>2, <3>2, <3>3, Sending
    <3>5. /\ (slot_number[u] = s /\ request_state[u] # "SET_COMMON") => Driving(r, out, status[s], s, l)
          /\ (slot_number[u] = s /\ request_state[u] = "SET_COMMON") => Leaving(r, out, status[s], s, l)
          /\ slot_number[u] # s => Away(r, out, status[s], s, l)
      BY <2>4, <3>1 DEF Stands, r, l
    <3>6. /\ (slot_number'[u] = s /\ request_state'[u] # "SET_COMMON") => Driving(q, out', status'[s], s, l)
          /\ (slot_number'[u] = s /\ request_state'[u] = "SET_COMMON") => Leaving(q, out', status'[s], s, l)
          /\ slot_number'[u] # s => Away(q, out', status'[s], s, l)
      BY <1>1, <2>3, <3>4, <3>5
    <3>. QED BY <3>6 DEF Stands, q, l
  <2>5. CASE address'[s] # address[s]
    <3>1. /\ address[s] = NoLoco /\ status'[s] = status[s] /\ ~Is(m, "frees", s, NoLoco)
          /\ ~Is(f, "frees", s, l) /\ (Is(f, "inuse", s, l) => status[s] = "IN_USE")
      BY <1>7, <2>5
    <3>2. slot_number[u] # s
      BY <3>1, NoLocoSelected
    <3>3. status[s] = "COMMON" /\ Unused(inq, s) /\ Unused(out, s)
      BY <3>1 DEF Core, Fresh
    <3>4. Unused(r, s)
      <4>1. CASE given < u
        BY <3>3, <4>1 DEF Rest
      <4>2. CASE ~(given < u)
        <5>1. inq # <<>>
          BY <4>2, NumAssumption DEF Core, GivenFront, IInv, TypeOK, Throttles
        <5>2. Unused(Tail(inq), s)
          BY ONLY <1>1, <3>3, <5>1, UnusedTail
        <5>. QED BY <4>2, <5>2 DEF Rest
      <4>. QED BY <4>1, <4>2
    <3>5. Unused(Tail(out), s)
      BY ONLY <1>1, <3>3, UnusedTail
    <3>. HIDE DEF r, q, l
    <3>6. ~Has(r, "frees", s, l) /\ ~Has(r, "inuse", s, l)
      BY ONLY <3>4, UnusedIs
    <3>7. ~Has(Tail(out), "frees", s, l) /\ ~Has(Tail(out), "moves", s, l)
      BY ONLY <3>5, UnusedIs
    <3>8. ~Is(m, "frees", s, l) /\ ~Is(m, "inuse", s, l)
      <4>1. \A n \in Requests : n.op # "SLOT_READ_DATA"
        BY DEF Requests
      <4>. QED BY <1>2, <3>1, <4>1 DEF Is
    <3>9. ~Has(q, "frees", s, l) /\ ~Has(q, "inuse", s, l)
      <4>1. \A k : Has(q, k, s, l) <=> (Has(r, k, s, l) \/ Is(m, k, s, l) \/ Is(f, k, s, l))
        BY ONLY ZenonT(60), <1>3, <1>7, <2>1, <2>2, HeardHas
      <4>. QED BY <3>1, <3>3, <3>6, <3>8, <4>1
    <3>10. \A p : ~Has(p, "frees", s, l) => ~Follows(p, "tells", "frees", s, l)
      BY DEF Has, Follows
    <3>11. Away(q, Tail(out), status'[s], s, l)
      BY <3>1, <3>3, <3>7, <3>9, <3>10 DEF Away
    <3>. QED BY <1>1, <2>3, <3>2, <3>11 DEF Stands, q, l
  <2>. QED BY <2>4, <2>5
<1>. QED BY <1>5, <1>6, <1>8, <1>9 DEF Parts, Owned

-------------------------------------------------------------------------------
(* What a throttle does with a message. *)

LEMMA FreshHeard ==
    ASSUME Core, out' = out, UNCHANGED <<address, status>>,
           inq' = inq \/ (inq # <<>> /\ inq' = Tail(inq))
    PROVE  Fresh'
<1>. DEFINE m == LocoDirFunc(NoSlot)
<1>1. m \in Requests /\ m.op = "LOCO_DIR_FUNC"
  BY RequestsAre DEF SlotNumber, LocoDirFunc
<1>. HIDE DEF m
<1>2. \A s \in Slots : Quiet(m, s, NoLoco)
  BY <1>1 DEF Quiet, Is
<1>. QED BY <1>1, <1>2, FreshKept

(* The message at the front of inq is given to t: only t has it behind it. *)
Front(t) ==
    /\ t \in Throttles /\ inq \in Seq(Message) /\ inq # <<>>
    /\ Rest(t) = inq /\ Rest(t)' = Tail(inq)
    /\ \A u \in Throttles : u # t => Rest(u)' = Rest(u)
    /\ GivenFront' /\ OneSlot'
    /\ UNCHANGED <<address, status, foreign, asked>>
    /\ inq' = inq \/ inq' = Tail(inq)

LEMMA FrontIs ==
    ASSUME IInv, GivenFront, OneSlot, incoming_message, NEW t, t = given + 1
    PROVE  Front(t)
<1>1. inq \in Seq(Message) /\ inq # <<>> /\ given \in 0..(NumThrottles - 1) /\ NumThrottles \in Nat
  BY NumAssumption DEF IInv, TypeOK, incoming_message
<1>2. t \in Throttles
  BY <1>1 DEF Throttles
<1>3. IF t = NumThrottles THEN inq' = Tail(inq) /\ given' = 0 ELSE inq' = inq /\ given' = t
  BY t = given + 1 DEF incoming_message
<1>4. UNCHANGED <<address, status, foreign, asked>>
  BY DEF incoming_message, station
<1>5. OneSlot'
  BY <1>4 DEF OneSlot
<1>6. GivenFront'
  BY <1>1, <1>3 DEF GivenFront
<1>7. Rest(t) = inq
  BY <1>1 DEF Rest
<1>8. Rest(t)' = Tail(inq)
  <2>1. CASE t = NumThrottles
    <3>1. inq' = Tail(inq) /\ given' = 0 /\ given' < t
      BY <1>1, <1>3, <2>1
    <3>. QED BY <1>1, <3>1 DEF Rest
  <2>2. CASE t # NumThrottles
    <3>1. inq' = inq /\ given' = t
      BY <1>3, <2>2
    <3>2. ~(given' < t)
      BY <1>1, <3>1
    <3>. QED BY <3>1, <3>2 DEF Rest
  <2>. QED BY <2>1, <2>2
<1>9. ASSUME NEW u \in Throttles, u # t PROVE Rest(u)' = Rest(u)
  <2>0. u \in Nat /\ u >= 1 /\ u <= NumThrottles
    BY <1>1 DEF Throttles
  <2>1. CASE t = NumThrottles
    <3>1. inq' = Tail(inq) /\ given' < u /\ ~(given < u)
      BY <1>1, <1>3, <1>9, <2>0, <2>1
    <3>. QED BY <3>1 DEF Rest
  <2>2. CASE t # NumThrottles
    <3>1. inq' = inq /\ (given' < u <=> given < u)
      BY <1>1, <1>3, <1>9, <2>0, <2>2
    <3>. QED BY <3>1 DEF Rest
  <2>. QED BY <2>1, <2>2
<1>. QED BY <1>1, <1>2, <1>3, <1>4, <1>5, <1>6, <1>7, <1>8, <1>9 DEF Front

LEMMA RestHeard ==
    ASSUME NEW t, Front(t), NEW u \in Throttles
    PROVE  Rest(u)' = Rest(u) \/ (Rest(u) # <<>> /\ Rest(u)' = Tail(Rest(u)))
BY DEF Front

(* Nothing is written, and no throttle takes a slot or lets it go. *)
LEMMA SilentControl ==
    ASSUME Core, NEW t, Front(t), out' = out, UNCHANGED <<request_loco_number, slot_number>>,
           NoSteal',
           \A u \in Throttles : request_state'[u] = "SET_COMMON" <=> request_state[u] = "SET_COMMON"
    PROVE  Parts'
<1>1. GivenFront' /\ OneSlot' /\ UNCHANGED <<address, status, asked>>
  BY DEF Front
<1>2. Asking'
  BY <1>1 DEF Core, Asking
<1>3. Fresh'
  BY FreshHeard DEF Front
<1>4. ASSUME NEW u \in Throttles, NEW s \in Slots, Alone(u, s)' PROVE Stands(u, s)'
  <2>1. Alone(u, s) /\ Stands(u, s) /\ out \in Seq(Requests)
    BY <1>1, <1>4 DEF Core, IInv, TypeOK, Owned, Alone
  <2>2. Rest(u) \in Seq(Message)
    BY RestTyped DEF Core
  <2>3. Keeps(u, s)
    BY <1>1 DEF Keeps
  <2>4. Rest(u)' = Rest(u) \/ (Rest(u) # <<>> /\ Rest(u)' = Tail(Rest(u)))
    BY ONLY Front(t), u \in Throttles, RestHeard
  <2>. QED BY ONLY <2>1, <2>2, <2>3, <2>4, out' = out, StandsHeard
<1>. QED BY <1>1, <1>2, <1>3, <1>4 DEF Parts, Owned

(* t writes m, about slot d of the locomotive that it asked for. *)
LEMMA OwnControl ==
    ASSUME Core, NEW t, Front(t), NEW d \in Slots, NEW m \in Requests, Write(m),
           address[d] = request_loco_number[t], address[d] # NoLoco,
           m.op \in {"MOVE_SLOT", "REQUEST_SLOT_DATA"},
           m.op = "MOVE_SLOT" => m.source = d, m.op = "REQUEST_SLOT_DATA" => m.slot = d,
           request_loco_number' = request_loco_number, NoSteal',
           \A u \in Throttles : u # t =>
               (slot_number'[u] = slot_number[u] /\ request_state'[u] = request_state[u]),
           \A s \in Slots : s # d => (slot_number[t] # s /\ slot_number'[t] # s),
           Alone(t, d) => Stands(t, d)'
    PROVE  Parts'
<1>1. GivenFront' /\ OneSlot' /\ UNCHANGED <<address, status, asked>> /\ t \in Throttles
  BY DEF Front
<1>2. Asking'
  BY <1>1 DEF Core, Asking
<1>3. \A s \in Slots : s # d => Quiet(m, s, address[s])
  BY DEF Quiet, Is
<1>4. Fresh'
  BY <1>3, FreshKept DEF Front
<1>5. ASSUME NEW u \in Throttles, NEW s \in Slots, Alone(u, s)' PROVE Stands(u, s)'
  <2>1. Alone(u, s) /\ Stands(u, s) /\ out \in Seq(Requests)
    BY <1>1, <1>5 DEF Core, IInv, TypeOK, Owned, Alone
  <2>2. Rest(u) \in Seq(Message)
    BY RestTyped DEF Core
  <2>3. CASE s = d
    <3>1. u = t
      BY <1>1, <2>1, <2>3, AloneIs
    <3>. QED BY <2>1, <2>3, <3>1
  <2>4. CASE s # d
    <3>1. Keeps(u, s)
      BY <1>1, <2>4 DEF Keeps
    <3>2. Rest(u)' = Rest(u) \/ (Rest(u) # <<>> /\ Rest(u)' = Tail(Rest(u)))
      BY ONLY Front(t), u \in Throttles, RestHeard
    <3>3. Quiet(m, s, address[s])
      BY <1>3, <2>4
    <3>. QED BY ONLY <2>1, <2>2, <3>1, <3>2, <3>3, m \in Requests, Write(m), StandsKept
  <2>. QED BY <2>3, <2>4
<1>. QED BY <1>1, <1>2, <1>4, <1>5 DEF Parts, Owned

(* An answer that says t's locomotive is in use: somebody else wants it too. *)
LEMMA InUseIsShared ==
    ASSUME Core, NEW t, NEW m, Front(t), Given(t, m), m = Head(inq),
           m.op = "SLOT_READ_DATA", Asks(t, m), m.status = "IN_USE"
    PROVE  /\ ~Alone(t, m.slot)
           /\ ~(asked[request_loco_number[t]] \subseteq {t})
<1>1. /\ m.slot \in Slots /\ m.slot # NoSlot /\ m.addr \in Locos
      /\ address[m.slot] = m.addr /\ request_loco_number[t] = m.addr
      /\ slot_number[t] = NoSlot
  BY AskedFacts DEF Core
<1>2. ASSUME Alone(t, m.slot) PROVE FALSE
  <2>1. Away(inq, out, status[m.slot], m.slot, address[m.slot])
    BY <1>1, <1>2 DEF Core, Owned, Stands, Front
  <2>2. Is(m, "inuse", m.slot, address[m.slot])
    BY DEF Is
  <2>3. Has(inq, "inuse", m.slot, address[m.slot])
    <3>1. inq \in Seq(Message) /\ inq # <<>>
      BY DEF Front
    <3>. QED BY <2>2, <3>1, HasTail
  <2>. QED BY <2>1, <2>3 DEF Away
<1>3. m.addr # NoLoco
  BY <1>1, LocosAssumption
<1>. QED BY <1>1, <1>2, <1>3 DEF Alone

LEMMA TakeFreeControl ==
    ASSUME Core, NEW t, NEW m, Front(t), Given(t, m), m = Head(inq),
           m.op = "SLOT_READ_DATA", TakeFree(t, m)
    PROVE  Parts'
<1>. DEFINE d == m.slot
            n == MoveSlot(d, d)
            l == address[d]
<1>0. Asks(t, m) /\ t \in Throttles
  BY DEF TakeFree, Given
<1>1. /\ d \in Slots /\ d # NoSlot /\ m.addr \in Locos /\ l = m.addr /\ l # NoLoco
      /\ l = request_loco_number[t] /\ slot_number[t] = NoSlot
  BY <1>0, AskedFacts, LocosAssumption DEF Core
<1>2. n \in Requests /\ n.op = "MOVE_SLOT" /\ n.source = d /\ n.slot = d /\ Write(n)
  BY <1>1, RequestsAre DEF MoveSlot, TakeFree
<1>3. /\ slot_number'[t] = d /\ request_state'[t] = "NULL_MOVE"
      /\ request_loco_number' = request_loco_number
      /\ \A u \in Throttles : u # t =>
               (slot_number'[u] = slot_number[u] /\ request_state'[u] = request_state[u])
  BY <1>0 DEF Core, IInv, TypeOK, TakeFree
<1>4. NoSteal'
  <2>1. ASSUME NEW u \in Throttles, request_state'[u] = "STEAL"
        PROVE  ~(asked'[request_loco_number'[u]] \subseteq {u})
    <3>1. request_state[u] = "STEAL" /\ request_loco_number' = request_loco_number /\ asked' = asked
      BY <1>3, <2>1 DEF Front
    <3>. QED BY <3>1 DEF Core, NoSteal
  <2>. QED BY <2>1 DEF NoSteal
<1>5. \A s \in Slots : s # d => (slot_number[t] # s /\ slot_number'[t] # s)
  BY <1>1, <1>3, SlotFacts
<1>. HIDE DEF n, d
<1>6. ASSUME Alone(t, d) PROVE Stands(t, d)'
  <2>1. Away(inq, out, status[d], d, l)
    BY <1>0, <1>1, <1>6 DEF Core, Owned, Stands, Front
  <2>2. /\ inq \in Seq(Message) /\ inq # <<>> /\ out \in Seq(Requests)
        /\ Rest(t)' = Tail(inq) /\ address'[d] = l /\ status'[d] = status[d]
    BY DEF Front, Core, IInv, TypeOK
  <2>3. Is(m, "tells", d, l)
    BY DEF Is, d
  <2>4. Has(inq, "tells", d, l) /\ ~Has(Tail(inq), "frees", d, l)
    <3>1. Has(inq, "tells", d, l)
      BY <2>2, <2>3, HasTail
    <3>2. ~Follows(inq, "tells", "frees", d, l)
      BY <2>1 DEF Away
    <3>3. ~Has(Tail(inq), "frees", d, l)
      BY <2>2, <2>3, <3>2, FollowsTail
    <3>. QED BY <3>1, <3>3
  <2>5. /\ Is(n, "moves", d, l) /\ ~Is(n, "frees", d, l) /\ ~Is(n, "dispatches", d, l)
    BY <1>1, <1>2, SlotFacts DEF Is
  <2>6. \A k : Has(Append(out, n), k, d, l) <=> (Has(out, k, d, l) \/ Is(n, k, d, l))
    BY <1>2, <2>2, HasAppend
  <2>7. MovedAgain(Append(out, n), d, l)
    BY <1>2, <2>2, <2>5, AgainAppend
  <2>8. ~Has(out, "frees", d, l)
    BY <2>1, <2>4 DEF Away
  <2>9. Driving(Tail(inq), Append(out, n), status[d], d, l)
    BY <2>4, <2>5, <2>6, <2>7, <2>8 DEF Driving
  <2>10. Driving(Rest(t)', out', status'[d], d, address'[d])
    BY <1>2, <2>2, <2>9 DEF Write
  <2>. QED BY <1>3, <2>10 DEF Stands
<1>. QED BY <1>0, <1>1, <1>2, <1>3, <1>4, <1>5, <1>6, OwnControl

LEMMA StealControl ==
    ASSUME Core, NEW t, NEW m, Front(t), Given(t, m), m = Head(inq),
           m.op = "SLOT_READ_DATA", Steal(t, m)
    PROVE  Parts'
<1>. DEFINE d == m.slot
            n == RequestSlotData(d)
<1>0. Asks(t, m) /\ t \in Throttles /\ m.status = "IN_USE"
  BY DEF Steal, Given
<1>1. /\ d \in Slots /\ d # NoSlot /\ m.addr \in Locos /\ address[d] = m.addr /\ address[d] # NoLoco
      /\ address[d] = request_loco_number[t] /\ slot_number[t] = NoSlot
  BY <1>0, AskedFacts, LocosAssumption DEF Core
<1>2. n \in Requests /\ n.op = "REQUEST_SLOT_DATA" /\ n.slot = d /\ Write(n)
  BY <1>1, RequestsAre DEF RequestSlotData, Steal
<1>3. /\ slot_number'[t] = d /\ request_state'[t] = "NONE"
      /\ request_loco_number' = request_loco_number
      /\ \A u \in Throttles : u # t =>
               (slot_number'[u] = slot_number[u] /\ request_state'[u] = request_state[u])
  BY <1>0 DEF Core, IInv, TypeOK, Steal
<1>4. NoSteal'
  <2>1. ASSUME NEW u \in Throttles, request_state'[u] = "STEAL"
        PROVE  ~(asked'[request_loco_number'[u]] \subseteq {u})
    <3>1. request_state[u] = "STEAL" /\ request_loco_number' = request_loco_number /\ asked' = asked
      BY <1>3, <2>1 DEF Front
    <3>. QED BY <3>1 DEF Core, NoSteal
  <2>. QED BY <2>1 DEF NoSteal
<1>5. \A s \in Slots : s # d => (slot_number[t] # s /\ slot_number'[t] # s)
  BY <1>1, <1>3, SlotFacts
<1>6. ~Alone(t, d)
  BY <1>0, InUseIsShared
<1>. HIDE DEF n, d
<1>. QED BY <1>0, <1>1, <1>2, <1>3, <1>4, <1>5, <1>6, OwnControl

LEMMA PromptControl ==
    ASSUME Core, NEW t, NEW m, Front(t), Given(t, m), m = Head(inq),
           m.op = "SLOT_READ_DATA", PromptSteal(t, m)
    PROVE  Parts'
<1>1. Asks(t, m) /\ m.status = "IN_USE" /\ t \in Throttles
  <2>1. m.status \in Status => m.status \in {"COMMON", "IN_USE"}
    BY DEF Status
  <2>. QED BY <2>1 DEF PromptSteal, Given, Fields
<1>2. ~(asked[request_loco_number[t]] \subseteq {t})
  BY <1>1, InUseIsShared
<1>3. NoSteal'
  <2>1. ASSUME NEW u \in Throttles, request_state'[u] = "STEAL"
        PROVE  ~(asked'[request_loco_number'[u]] \subseteq {u})
    <3>1. request_loco_number' = request_loco_number /\ asked' = asked
      BY DEF Front, PromptSteal
    <3>2. u = t \/ request_state[u] = "STEAL"
      BY <2>1 DEF PromptSteal
    <3>. QED BY <1>2, <3>1, <3>2 DEF Core, NoSteal
  <2>. QED BY <2>1 DEF NoSteal
<1>4. \A u \in Throttles : request_state'[u] = "SET_COMMON" <=> request_state[u] = "SET_COMMON"
  BY <1>1 DEF Core, IInv, TypeOK, PromptSteal, Asks
<1>5. out' = out /\ UNCHANGED <<request_loco_number, slot_number>>
  BY DEF PromptSteal
<1>. QED BY ONLY Core, Front(t), <1>3, <1>4, <1>5, SilentControl

(* A message after which at most a null move is over. *)
LEMMA EasyControl ==
    ASSUME Core, NEW t, Front(t), out' = out, UNCHANGED <<request_loco_number, slot_number>>,
           \A u \in Throttles : request_state'[u] = request_state[u]
                                  \/ (request_state[u] = "NULL_MOVE" /\ request_state'[u] = "NONE")
    PROVE  Parts'
<1>1. NoSteal'
  <2>1. ASSUME NEW u \in Throttles, request_state'[u] = "STEAL"
        PROVE  ~(asked'[request_loco_number'[u]] \subseteq {u})
    <3>1. request_state[u] = "STEAL" /\ request_loco_number' = request_loco_number /\ asked' = asked
      BY <2>1 DEF Front
    <3>. QED BY <3>1 DEF Core, NoSteal
  <2>. QED BY <2>1 DEF NoSteal
<1>2. \A u \in Throttles : request_state'[u] = "SET_COMMON" <=> request_state[u] = "SET_COMMON"
  OBVIOUS
<1>. QED BY <1>1, <1>2, SilentControl

LEMMA StatSeenControl ==
    ASSUME Core, NEW t, NEW m, Front(t), Given(t, m), m = Head(inq), SlotStat1Seen(t, m),
           slot_number[t] = m.slot, request_state[t] = "SET_COMMON"
    PROVE  Parts'
<1>. DEFINE d == m.slot
            n == MoveSlot(d, DispatchSlot)
            l == address[d]
<1>0. t \in Throttles /\ slot_number[t] # NoSlot /\ m.op = "SLOT_STAT1"
  BY DEF Given, Core, IInv, Selecting, SlotStat1Seen
<1>1. d \in Slots /\ l # NoLoco /\ l = request_loco_number[t] /\ slot_number[t] = d
  BY <1>0, SlotOf
<1>2. n \in Requests /\ n.op = "MOVE_SLOT" /\ n.source = d /\ n.slot = DispatchSlot /\ Write(n)
  BY <1>1, RequestsAre DEF MoveSlot, SlotStat1Seen
<1>3. /\ slot_number'[t] = NoSlot /\ request_state'[t] = "NONE"
      /\ request_loco_number' = request_loco_number
      /\ \A u \in Throttles : u # t =>
               (slot_number'[u] = slot_number[u] /\ request_state'[u] = request_state[u])
  BY <1>0 DEF Core, IInv, TypeOK, SlotStat1Seen
<1>4. NoSteal'
  <2>1. ASSUME NEW u \in Throttles, request_state'[u] = "STEAL"
        PROVE  ~(asked'[request_loco_number'[u]] \subseteq {u})
    <3>1. request_state[u] = "STEAL" /\ request_loco_number' = request_loco_number /\ asked' = asked
      BY <1>3, <2>1 DEF Front
    <3>. QED BY <3>1 DEF Core, NoSteal
  <2>. QED BY <2>1 DEF NoSteal
<1>5. \A s \in Slots : s # d => (slot_number[t] # s /\ slot_number'[t] # s)
  BY <1>1, <1>3, SlotFacts
<1>. HIDE DEF n, d
<1>6. ASSUME Alone(t, d) PROVE Stands(t, d)'
  <2>1. Leaving(inq, out, status[d], d, l)
    BY <1>0, <1>1, <1>6 DEF Core, Owned, Stands, Front
  <2>2. /\ inq \in Seq(Message) /\ inq # <<>> /\ out \in Seq(Requests)
        /\ Rest(t)' = Tail(inq) /\ address'[d] = l /\ status'[d] = status[d]
    BY DEF Front, Core, IInv, TypeOK
  <2>3. Is(m, "frees", d, l)
    BY <1>0 DEF Is, d
  <2>4. Has(inq, "frees", d, l) /\ ~Has(Tail(inq), "tells", d, l)
    <3>1. Has(inq, "frees", d, l)
      BY <2>2, <2>3, HasTail
    <3>2. ~Follows(inq, "frees", "tells", d, l)
      BY <2>1 DEF Leaving
    <3>3. ~Has(Tail(inq), "tells", d, l)
      BY <2>2, <2>3, <3>2, FollowsTail
    <3>. QED BY <3>1, <3>3
  <2>5. status[d] = "COMMON" /\ ~Has(out, "tells", d, l)
    BY <2>1, <2>4 DEF Leaving
  <2>6. ~Is(n, "moves", d, l) /\ ~Is(n, "frees", d, l)
    BY <1>1, <1>2, SlotFacts DEF Is
  <2>7. \A q : ~Has(q, "tells", d, l) =>
            (~Has(q, "moves", d, l) /\ ~Has(q, "inuse", d, l) /\ ~Follows(q, "tells", "frees", d, l))
    BY IsFacts DEF Has, Follows
  <2>8. Away(Tail(inq), out, status[d], d, l)
    BY <2>4, <2>5, <2>7 DEF Away
  <2>9. Away(Tail(inq), Append(out, n), status[d], d, l)
    BY ONLY <1>2, <2>2, <2>6, <2>8, AwayWrite
  <2>10. Away(Rest(t)', out', status'[d], d, address'[d])
    BY <1>2, <2>2, <2>9 DEF Write
  <2>11. slot_number'[t] # d
    BY <1>1, <1>3, SlotFacts
  <2>. QED BY <2>10, <2>11 DEF Stands
<1>. QED BY <1>0, <1>1, <1>2, <1>3, <1>4, <1>5, <1>6, OwnControl

LEMMA IncomingControl == ASSUME Core, incoming_message PROVE Parts'
<1>. DEFINE m == Head(inq)
<1>0. PICK t \in Throttles : t = given + 1
  BY IncomingGiven DEF Core, Given
<1>1. Front(t)
  BY <1>0, FrontIs DEF Core
<1>2. /\ Given(t, m)
      /\ \/ SlotReadData(t, m) \/ LongAcknowledge(t, m) \/ LocoSpeedSeen(t, m)
         \/ SlotStat1Seen(t, m) \/ Ignored(m)
  BY <1>0, IncomingGiven DEF Core
<1>3. m = Head(inq)
  OBVIOUS
<1>. HIDE DEF m
<1>4. ASSUME UNCHANGED <<out, request_loco_number, request_state, slot_number>> PROVE Parts'
  BY ONLY Core, <1>1, <1>4, EasyControl
<1>5. CASE SlotReadData(t, m)
  <2>0. m.op = "SLOT_READ_DATA"
    BY <1>5 DEF SlotReadData
  <2>1. CASE TakeFree(t, m)
    BY ONLY <1>1, <1>2, <1>3, <2>0, <2>1, Core, TakeFreeControl
  <2>2. CASE Steal(t, m)
    BY ONLY <1>1, <1>2, <1>3, <2>0, <2>2, Core, StealControl
  <2>3. CASE PromptSteal(t, m)
    BY ONLY <1>1, <1>2, <1>3, <2>0, <2>3, Core, PromptControl
  <2>4. CASE NullMoveDone(t, m) \/ UNCHANGED <<throttle, out>>
    BY <1>4, <2>4 DEF NullMoveDone, throttle
  <2>. QED BY <1>5, <2>1, <2>2, <2>3, <2>4 DEF SlotReadData
<1>6. CASE LongAcknowledge(t, m)
  <2>1. out' = out /\ UNCHANGED <<request_loco_number, slot_number>>
    BY <1>6 DEF LongAcknowledge
  <2>2. \A u \in Throttles : request_state'[u] = request_state[u]
                               \/ (request_state[u] = "NULL_MOVE" /\ request_state'[u] = "NONE")
    BY <1>6 DEF LongAcknowledge, Core, IInv, TypeOK
  <2>. QED BY ONLY Core, <1>1, <2>1, <2>2, EasyControl
<1>7. CASE LocoSpeedSeen(t, m) \/ Ignored(m)
  BY <1>4, <1>7 DEF LocoSpeedSeen, Ignored, throttle
<1>8. CASE SlotStat1Seen(t, m)
  <2>1. CASE slot_number[t] = m.slot /\ request_state[t] = "SET_COMMON"
    BY ONLY <1>1, <1>2, <1>3, <1>8, <2>1, Core, StatSeenControl
  <2>2. CASE ~(slot_number[t] = m.slot /\ request_state[t] = "SET_COMMON")
    BY <1>4, <1>8, <2>2 DEF SlotStat1Seen
  <2>. QED BY <2>1, <2>2
<1>. QED BY <1>2, <1>5, <1>6, <1>7, <1>8

-------------------------------------------------------------------------------
(* The invariant of the steps of a selection and a dispatch. *)

LEMMA UserControl == ASSUME Core, User PROVE Parts'
<1>1. PICK t \in Throttles :
        \/ \E l \in Locos : select_locomotive(t, l)
        \/ \E v \in Speeds : set_speed(t, v)
        \/ estop(t) \/ update_dirf(t) \/ slot_update(t) \/ dispatch(t)
        \/ Steals(t) \/ abort_loco_selection(t)
  BY ConfirmIs DEF User
<1>2. ASSUME NEW l \in Locos, select_locomotive(t, l) PROVE Parts'
  BY ONLY <1>2, Core, t \in Throttles, SelectControl
<1>3. CASE (\E v \in Speeds : set_speed(t, v)) \/ estop(t) \/ update_dirf(t) \/ slot_update(t)
  <2>1. PICK m \in Requests : Drives(m) /\ m.op \in {"LOCO_SPEED", "LOCO_DIR_FUNC"}
    BY ONLY <1>3, Core, t \in Throttles, DrivingInd DEF Core
  <2>. QED BY ONLY <2>1, Core, DrivesControl
<1>4. CASE dispatch(t)
  BY ONLY <1>4, Core, t \in Throttles, DispatchControl
<1>5. CASE Steals(t)
  BY ONLY <1>5, Core, t \in Throttles, StealsControl
<1>6. CASE abort_loco_selection(t)
  BY ONLY <1>6, Core, t \in Throttles, AbortControl
<1>. QED BY <1>1, <1>2, <1>3, <1>4, <1>5, <1>6

LEMMA ControlInit == Init => ControlInv
<1>. SUFFICES ASSUME Init PROVE ControlInv
  OBVIOUS
<1>1. GivenFront /\ OneSlot /\ NoSteal
  BY DEF Init, GivenFront, OneSlot, NoSteal
<1>2. Asking
  BY LocosAssumption DEF Init, Asking
<1>3. Fresh
  BY EmptyHas DEF Init, Fresh, Unused
<1>4. Owned
  BY DEF Init, Owned, Alone
<1>. QED BY <1>1, <1>2, <1>3, <1>4 DEF ControlInv

LEMMA ControlNext == ASSUME IInv, ControlInv, [Next]_vars PROVE ControlInv'
<1>0. foreign \in Nat
  BY DEF IInv, TypeOK
<1>1. CASE Foreign
  <2>1. PICK m \in ForeignMessages : CommandStation(m)
    BY <1>1 DEF Foreign
  <2>2. m \in Requests
    <3>1. Speeds \subseteq Speed
      BY SpeedAssumption DEF Speed
    <3>. QED BY <3>1, RequestsAre DEF ForeignMessages
  <2>3. given' = given /\ foreign' # 0
    BY <1>0, <1>1 DEF Foreign
  <2>4. GivenFront' /\ OneSlot'
    BY <2>1, <2>2, <2>3, StationKeeps DEF ControlInv
  <2>. QED BY <2>3, <2>4 DEF ControlInv
<1>2. CASE UNCHANGED vars
  <2>1. GivenFront' /\ OneSlot' /\ (foreign = 0 => (Asking' /\ NoSteal'))
    BY <1>2 DEF ControlInv, vars, throttle, station, GivenFront, OneSlot, Asking, NoSteal
  <2>2. foreign = 0 => (Fresh' /\ Owned')
    BY <1>2 DEF ControlInv, vars, throttle, station, Fresh, Unused, Owned, Alone, Stands, Rest
  <2>. QED BY <1>2, <2>1, <2>2 DEF ControlInv, vars
<1>3. CASE (User \/ Transmit \/ incoming_message) /\ foreign = 0
  <2>1. Core
    BY <1>3 DEF Core, ControlInv
  <2>2. Parts'
    BY <1>3, <2>1, UserControl, TransmitControl, IncomingControl
  <2>. QED BY <2>2 DEF Parts, ControlInv
<1>4. CASE (User \/ Transmit \/ incoming_message) /\ foreign # 0
  <2>1. foreign' = foreign
    <3>1. ASSUME User PROVE foreign' = foreign
      BY <3>1 DEF User, select_locomotive, set_speed, estop, update_dirf, slot_update, dispatch,
                  confirm_steal, abort_loco_selection
    <3>. QED BY <1>4, <3>1 DEF Transmit, incoming_message
  <2>2. GivenFront' /\ OneSlot'
    <3>1. CASE User
      <4>1. UNCHANGED <<inq, given, station>>
        BY <3>1 DEF User, select_locomotive, set_speed, estop, update_dirf, slot_update, dispatch,
                    confirm_steal, abort_loco_selection
      <4>. QED BY <4>1 DEF ControlInv, GivenFront, OneSlot, station
    <3>2. CASE Transmit
      <4>1. out \in Seq(Requests) /\ out # <<>>
        BY <3>2 DEF IInv, TypeOK, Transmit
      <4>2. Head(out) \in Requests
        BY ONLY <4>1, HeadTail
      <4>3. CommandStation(Head(out)) /\ given' = given
        BY <3>2 DEF Transmit
      <4>. QED BY <4>2, <4>3, StationKeeps DEF ControlInv
    <3>3. CASE incoming_message
      <4>1. PICK t \in Throttles : t = given + 1
        BY <3>3, IncomingGiven DEF Given
      <4>. QED BY <3>3, <4>1, FrontIs DEF ControlInv, Front
    <3>. QED BY <1>4, <3>1, <3>2, <3>3
  <2>. QED BY <1>4, <2>1, <2>2 DEF ControlInv
<1>. QED BY <1>1, <1>2, <1>3, <1>4 DEF Next

(* Where every throttle stands with every slot, as long as the program is alone on  *)
(* the bus: the strengthening without which a dispatch and an answer that is still  *)
(* under way could not be told apart.                                               *)
THEOREM ControlInvariance == Spec => [](IInv /\ ControlInv)
<1>1. IInv /\ ControlInv /\ [Next]_vars => (IInv /\ ControlInv)'
  BY NextInd, ControlNext
<1>. QED BY <1>1, InitInd, ControlInit, PTL DEF Spec

LEMMA StandsIsControl == ASSUME IInv, ControlInv PROVE ControlUntilDispatched
<1>. SUFFICES ASSUME NEW t \in Throttles,
                     Selected(t), request_state[t] # "SET_COMMON",
                     foreign = 0, asked[request_loco_number[t]] = {t}
              PROVE  LET s == slot_number[t]
                     IN  status[s] = "IN_USE" \/ \E i \in DOMAIN out : out[i] = MoveSlot(s, s)
  BY DEF ControlUntilDispatched
<1>. DEFINE s == slot_number[t]
<1>1. Core
  BY DEF Core, ControlInv
<1>2. /\ s \in Slots /\ address[s] = request_loco_number[t] /\ address[s] # NoLoco
  BY <1>1, SlotOf DEF Selected
<1>3. Driving(Rest(t), out, status[s], s, address[s])
  BY <1>1, <1>2 DEF Core, Owned, Stands, Alone
<1>4. \A m \in Requests : Is(m, "moves", s, address[s]) => m = MoveSlot(s, s)
  BY DEF Is, Requests, MoveSlot
<1>5. out \in Seq(Requests)
  BY DEF IInv, TypeOK
<1>6. Has(out, "moves", s, address[s]) => \E i \in DOMAIN out : out[i] = MoveSlot(s, s)
  BY <1>4, <1>5 DEF Has
<1>. QED BY <1>3, <1>6 DEF Driving

(* A throttle whose locomotive nobody else has wanted, and of which no dispatch was *)
(* cut short, is in control of it until it dispatches it: the station has its slot  *)
(* in use, or the null move is on its way, for any number of throttles and slots    *)
(* and any order of steps                                                           *)
(* (loconet_throttle_incoming_message, loconet_throttle_dispatch_locomotive).       *)
THEOREM InControl == Spec => []ControlUntilDispatched
BY ControlInvariance, StandsIsControl, PTL
===============================================================================
