----------------------------- MODULE CabBusBridge -----------------------------
(***************************************************************************)
(* The program between the cabs of a CabBus and LocoNet: what it does with *)
(* the command of a cab that was pinged and with a message from LocoNet.   *)
(* What it keeps is for each cab its slot, its request and its direction;  *)
(* what a cab shows and the messages that the program writes go with it.   *)
(* Operators take all of that from one step of its loop to the next; the   *)
(* statements below fold them over steps in many orders, with a command    *)
(* station that answers.                                                   *)
(***************************************************************************)
EXTENDS Integers, Sequences, SequencesExt, FiniteSetsExt, TLC

NoSlot == 255

BridgeCabs == {3, 4}

Cab0 == [slot |-> NoSlot, request |-> "NONE", asked |-> 0, offered |-> 0, reverse |-> FALSE,
         loco |-> 0, speed |-> 0, backwards |-> FALSE, on |-> {}, question |-> FALSE]

(* b.at: each cab, b.out: what was written, b.time: what the cabs show as time. *)
Bridge0 == [at |-> [c \in BridgeCabs |-> Cab0], out |-> <<>>, time |-> <<>>]

Write(b, m) == [b EXCEPT !.out = Append(@, m)]

----------------------------------------------------------------------------
(* Commands of cabs. *)

(* LocoNet's speed 1 is the emergency stop, so that others are one more. *)
OnLoconet(speed, estop) == IF estop THEN 1 ELSE IF speed = 0 THEN 0 ELSE speed + 1

handle_cabbus_speed(b, c, speed, estop) ==
    IF b.at[c].slot = NoSlot THEN b
    ELSE Write(b, [opcode |-> "LOCO_SPEED", slot |-> b.at[c].slot, speed |-> OnLoconet(speed, estop)])

select_loco(b, c, number) ==
    Write([b EXCEPT !.at[c].request = "REQUEST", !.at[c].asked = number],
          [opcode |-> "LOCO_ADDR", address |-> number])

(* Functions 5 to 8 have a message of their own.  None of them looks whether the cab *)
(* has a slot.                                                                       *)
DirFunc(b, c) ==
    [opcode |-> "LOCO_DIR_FUNC", slot |-> b.at[c].slot, reverse |-> b.at[c].reverse,
     on |-> b.at[c].on \cap 0..4]

Sound(b, c) == [opcode |-> "LOCO_SOUND", slot |-> b.at[c].slot, on |-> b.at[c].on \cap 5..8]

direction(b, c, reverse) ==
    LET b1 == [b EXCEPT !.at[c].reverse = reverse] IN Write(b1, DirFunc(b1, c))

function(b, c, number, onoff) ==
    LET b1 == IF number > 8 THEN b
              ELSE [b EXCEPT !.at[c].on = IF onoff THEN @ \cup {number} ELSE @ \ {number}]
    IN  Write(b1, IF number \in 5..8 THEN Sound(b1, c) ELSE DirFunc(b1, c))

(* The cab has taken its question away when it sends the answer. *)
response(b, c, yes) ==
    LET b1 == [b EXCEPT !.at[c].request = "NONE", !.at[c].question = FALSE]
    IN  IF b.at[c].request = "STEAL" /\ yes
        THEN Write([b1 EXCEPT !.at[c].slot = b.at[c].offered],
                   [opcode |-> "REQUEST_SLOT_DATA", slot |-> b.at[c].offered])
        ELSE b1

unselect_loco(b, c) ==
    IF b.at[c].slot = NoSlot THEN b
    ELSE Write([b EXCEPT !.at[c].request = "SET_COMMON", !.at[c].loco = 0, !.at[c].speed = 0],
               [opcode |-> "SLOT_STAT1", slot |-> b.at[c].slot, use |-> "COMMON"])

switch(b, number, normal) ==
    Write(b, [opcode |-> "SWITCH_REQUEST", sw1 |-> (number - 1) % 256,
              sw2 |-> 16 + (IF normal THEN 32 ELSE 0)])

handle_good_cab_ping(b, c, cmd) ==
    CASE cmd.command = "SEL_LOCO"      -> select_loco(b, c, cmd.number)
      [] cmd.command = "SPEED"         -> handle_cabbus_speed(b, c, cmd.speed, FALSE)
      [] cmd.command = "ESTOP"         -> handle_cabbus_speed(b, c, 0, TRUE)
      [] cmd.command = "DIRECTION"     -> direction(b, c, cmd.reverse)
      [] cmd.command = "FUNCTION"      -> function(b, c, cmd.number, cmd.onoff)
      [] cmd.command = "RESPONSE"      -> response(b, c, cmd.yes)
      [] cmd.command = "UNSELECT_LOCO" -> unselect_loco(b, c)
      [] cmd.command = "SWITCH"        -> switch(b, cmd.number, cmd.normal)
      [] OTHER                         -> b

----------------------------------------------------------------------------
(* Messages of LocoNet. *)

(* The cabs that a message is about, and what they are after it. *)
AtEach(b, after) == [b EXCEPT !.at = after @@ @]

OfSlot(b, slot) == {c \in BridgeCabs : b.at[c].slot = slot}

Shows(m, cab1) == [cab1 EXCEPT !.backwards = m.reverse, !.on = (@ \ 0..4) \cup m.on]

(* Cabs are looked through in the order of their numbers until one has asked for *)
(* the locomotive: those behind it learn nothing of this message.                *)
slot_read(b, m) ==
    LET asks   == {c \in BridgeCabs : b.at[c].request = "REQUEST" /\ b.at[c].asked = m.address}
        seen   == {c \in BridgeCabs : \A d \in asks : c < d}
        moved  == {c \in seen : b.at[c].request = "NULL_MOVE" /\ b.at[c].asked = m.address}
        owns   == {c \in seen : b.at[c].request = "NONE" /\ b.at[c].slot = m.slot}
        Told(c) == IF c \in owns THEN Shows(m, b.at[c]) ELSE b.at[c]
        told   == AtEach(b, [c \in moved \cup owns |-> [Told(c) EXCEPT !.loco = m.address]])
        first  == Min(asks)
    IN  IF asks = {} THEN told
        ELSE IF m.use = "IN_USE"
        THEN [told EXCEPT !.at[first].request = "STEAL", !.at[first].offered = m.slot,
                          !.at[first].question = TRUE]
        ELSE Write([told EXCEPT !.at[first].request = "NULL_MOVE", !.at[first].slot = m.slot],
                   [opcode |-> "MOVE_SLOT", source |-> m.slot, slot |-> m.slot])

clock_read(b, m) ==
    [b EXCEPT !.time = <<IF m.hours = 0 THEN 12 ELSE m.hours, m.minutes, m.hours < 12>>]

(* Any long acknowledgement, for whatever message and with whatever outcome. *)
long_ack(b) ==
    LET moving == {c \in BridgeCabs : b.at[c].request = "NULL_MOVE"}
    IN  AtEach(b, [c \in moving |-> [b.at[c] EXCEPT !.request = "NONE"]])

speed_seen(b, m) ==
    LET speed == IF m.speed = 0 THEN 0 ELSE (m.speed - 1) % 128
    IN  AtEach(b, [c \in OfSlot(b, m.slot) |-> [b.at[c] EXCEPT !.speed = speed]])

dir_func_seen(b, m) == AtEach(b, [c \in OfSlot(b, m.slot) |-> Shows(m, b.at[c])])

sound_seen(b, m) ==
    AtEach(b, [c \in OfSlot(b, m.slot) |-> [b.at[c] EXCEPT !.on = (@ \ 5..8) \cup m.on]])

(* The echo of the first step of giving a locomotive back is the cue for the second. *)
slot_stat1(b, m) ==
    LET back == {c \in OfSlot(b, m.slot) : b.at[c].request = "SET_COMMON"}
        Dispatched(c) == [b.at[c] EXCEPT !.slot = NoSlot, !.request = "NONE", !.loco = 0, !.speed = 0]
    IN  [AtEach(b, [c \in back |-> Dispatched(c)]) EXCEPT
            !.out = @ \o [i \in 1..Cardinality(back) |-> [opcode |-> "MOVE_SLOT", source |-> m.slot, slot |-> 0]]]

handle_incoming_loconet(b, m) ==
    CASE m.opcode = "SLOT_READ_DATA" /\ m.slot = 123 -> clock_read(b, m)
      [] m.opcode = "SLOT_READ_DATA" /\ m.slot /= 123 -> slot_read(b, m)
      [] m.opcode = "LONG_ACK"       -> long_ack(b)
      [] m.opcode = "LOCO_SPEED"     -> speed_seen(b, m)
      [] m.opcode = "LOCO_DIR_FUNC"  -> dir_func_seen(b, m)
      [] m.opcode = "SLOT_STAT1"     -> slot_stat1(b, m)
      [] m.opcode = "LOCO_SOUND"     -> sound_seen(b, m)
      [] OTHER                       -> b

(* Every thirty seconds the speed of each cab is written again. *)
handle_slot_refresh(b) ==
    FoldLeft(LAMBDA b1, c : handle_cabbus_speed(b1, c, b1.at[c].speed, FALSE), b, SetToSortSeq(BridgeCabs, <))

----------------------------------------------------------------------------
(* LocoNet with a command station of two slots, which answers before       *)
(* anyone else writes; everything that is written comes back as an echo.   *)

StationSlots == {1, 2}

World == [b |-> Bridge0, bus |-> <<>>,
          holds |-> [n \in StationSlots |-> 0], used |-> {}, speed |-> [n \in StationSlots |-> 0],
          on |-> [n \in StationSlots |-> {}], reverse |-> [n \in StationSlots |-> FALSE]]

DataOf(w, n) ==
    [opcode |-> "SLOT_READ_DATA", slot |-> n, address |-> w.holds[n], reverse |-> w.reverse[n],
     use |-> IF n \in w.used THEN "IN_USE" ELSE "COMMON", on |-> w.on[n] \cap 0..4]

(* The slot that has the locomotive, an empty one, or one that nobody uses. *)
SlotsFor(w, number) ==
    LET holding == {n \in StationSlots : w.holds[n] = number}
        empty   == {n \in StationSlots : w.holds[n] = 0}
    IN  IF holding /= {} THEN holding ELSE IF empty /= {} THEN empty ELSE StationSlots \ w.used

Refused == <<[opcode |-> "LONG_ACK"]>>

(* What the station makes of a message: what it keeps, and its answer. *)
Obeyed(w, m) ==
    CASE m.opcode = "LOCO_ADDR" /\ SlotsFor(w, m.address) /= {} ->
            [w EXCEPT !.holds[Min(SlotsFor(w, m.address))] = m.address]
      [] m.opcode = "MOVE_SLOT" /\ m.slot = m.source -> [w EXCEPT !.used = @ \cup {m.slot}]
      [] m.opcode = "SLOT_STAT1" -> [w EXCEPT !.used = @ \ {m.slot}]
      [] m.opcode = "LOCO_SPEED" /\ m.slot \in StationSlots -> [w EXCEPT !.speed[m.slot] = m.speed]
      [] m.opcode = "LOCO_DIR_FUNC" /\ m.slot \in StationSlots ->
            [w EXCEPT !.on[m.slot] = (@ \ 0..4) \cup m.on, !.reverse[m.slot] = m.reverse]
      [] m.opcode = "LOCO_SOUND" /\ m.slot \in StationSlots -> [w EXCEPT !.on[m.slot] = (@ \ 5..8) \cup m.on]
      [] OTHER -> w

Answer(w, m) ==
    CASE m.opcode = "LOCO_ADDR" ->
            IF \E n \in StationSlots : w.holds[n] = m.address
            THEN <<DataOf(w, CHOOSE n \in StationSlots : w.holds[n] = m.address)>> ELSE Refused
      [] m.opcode = "MOVE_SLOT" -> IF m.slot = 0 THEN Refused ELSE <<DataOf(w, m.slot)>>
      [] m.opcode = "REQUEST_SLOT_DATA" -> <<DataOf(w, m.slot)>>
      [] OTHER -> <<>>

Deliver(w) ==
    IF w.bus = <<>> THEN w
    ELSE LET m    == Head(w.bus)
             next == Obeyed(w, m)
             b1   == handle_incoming_loconet(w.b, m)
         IN  [next EXCEPT !.b = [b1 EXCEPT !.out = <<>>], !.bus = Answer(next, m) \o Tail(@) \o b1.out]

Settled(w) == FoldLeft(LAMBDA w1, i : Deliver(w1), w, [i \in 1..24 |-> i])

Commanded(w, c, cmd) ==
    LET b1 == handle_good_cab_ping(w.b, c, cmd)
    IN  [w EXCEPT !.b = [b1 EXCEPT !.out = <<>>], !.bus = @ \o b1.out]

(* A step of the whole: the bus delivers, or a cab that may gives a command. *)
Steps(w, s) ==
    IF s.kind = "bus" THEN Deliver(w)
    ELSE IF s.cmd.command = "RESPONSE" /\ ~w.b.at[s.c].question THEN w
    ELSE Commanded(w, s.c, s.cmd)

Bus == [kind |-> "bus"]
By(c, cmd) == [kind |-> "cab", c |-> c, cmd |-> cmd]
Selects(c, number) == By(c, [command |-> "SEL_LOCO", number |-> number])
Unselects(c) == By(c, [command |-> "UNSELECT_LOCO"])
Replies(c, yes) == By(c, [command |-> "RESPONSE", yes |-> yes])
SetsSpeed(c, speed) == By(c, [command |-> "SPEED", speed |-> speed])

(* What is reached by steps in any order, with at most this many messages underway *)
(* and no command of a cab that is giving its locomotive back.                     *)
MaxUnderway == 4

May(w, s) == s.kind = "cab" => Len(w.bus) < MaxUnderway /\ w.b.at[s.c].request /= "SET_COMMON"

Reached(steps, n) ==
    LET Onward(r, i) ==
            LET next == {Steps(s[1], s[2]) : s \in {t \in r.new \X steps : May(t[1], t[2])}}
            IN  [seen |-> r.seen \cup next, new |-> next \ r.seen]
    IN  FoldLeft(Onward, [seen |-> {World}, new |-> {World}], [i \in 1..n |-> i]).seen

After(w, steps) == Settled(FoldLeft(Steps, w, steps))

OwnSelections == {Bus, Selects(3, 5), Selects(4, 6), Unselects(3), Unselects(4)}
Selections == OwnSelections \cup {Selects(4, 5), Replies(4, TRUE), Replies(4, FALSE)}

Holding(w) == {c \in BridgeCabs : w.b.at[c].slot /= NoSlot}

(* Cabs that select and give back, each its own locomotive, in any order and with *)
(* any delay of LocoNet: once nothing is underway no request is pending (but for  *)
(* the question whether to steal what the cab has already, if it selects that     *)
(* again), the slots in use are exactly those that a cab holds, each held by one  *)
(* cab, which shows the locomotive that the station has in it (or none while it   *)
(* is asked that question).                                                       *)
ASSUME OwnLocomotivesAreHeld ==
    \A w \in {x \in Reached(OwnSelections, 12) : x.bus = <<>>} :
        /\ \A c \in BridgeCabs :
              \/ w.b.at[c].request \in {"NONE", "NULL_MOVE"}
              \/ w.b.at[c].request = "STEAL" /\ w.b.at[c].offered = w.b.at[c].slot
        /\ w.used = {w.b.at[c].slot : c \in Holding(w)}
        /\ \A c \in Holding(w) : /\ OfSlot(w.b, w.b.at[c].slot) = {c}
                                  /\ \/ w.b.at[c].loco = w.holds[w.b.at[c].slot]
                                     \/ w.b.at[c].request = "STEAL" /\ w.b.at[c].loco = 0
        /\ \A c \in BridgeCabs \ Holding(w) : w.b.at[c].loco = 0

(* If they also select each other's locomotives and take them, there still is no *)
(* request that was not answered, a cab is asked a question exactly while its    *)
(* request is to take a slot, and one that shows a locomotive has a slot.        *)
ASSUME RequestsAreAnswered ==
    \A w \in {x \in Reached(Selections, 9) : x.bus = <<>>} : \A c \in BridgeCabs :
        /\ w.b.at[c].request \in {"NONE", "NULL_MOVE", "STEAL"}
        /\ w.b.at[c].request = "STEAL" => w.b.at[c].question
        /\ w.b.at[c].loco /= 0 => c \in Holding(w)

(* Cab 3 holds locomotive 5; cab 4 took it too, was asked and agreed. *)
One  == After(World, <<Selects(3, 5)>>)
Both == After(One, <<Selects(4, 5), Bus, Bus, Replies(4, TRUE)>>)

(* A locomotive in use is shared only by a cab that agreed, and not by one that    *)
(* selects it before it is in use: that one gets it without being asked.  A cab    *)
(* that selects another locomotive leaves the slot of its first one in use; one    *)
(* that selects the one it is just giving back has it as if it had kept it.        *)
ASSUME Sharing ==
    /\ OfSlot(One.b, 1) = {3} /\ OfSlot(Both.b, 1) = {3, 4}
    /\ LET refused == After(One, <<Selects(4, 5), Bus, Bus, Replies(4, FALSE)>>)
       IN  OfSlot(refused.b, 1) = {3} /\ refused.b.at[4].request = "NONE"
    /\ OfSlot(After(World, <<Selects(3, 5), Selects(4, 5)>>).b, 1) = {3, 4}
    /\ LET other == After(One, <<Selects(3, 6)>>)
       IN  other.used = {1, 2} /\ OfSlot(other.b, 1) = {}
    /\ After(One, <<Unselects(3), Selects(3, 5)>>) = One

(* What a cab sets comes back as what it shows, and no speed is taken for the       *)
(* emergency stop; 127 is sent as a byte that is none of data.  Refreshing changes  *)
(* no speed, except that it ends an emergency stop.  A cab without a slot sets none. *)
ASSUME SpeedsComeBack ==
    /\ After(World, <<SetsSpeed(3, 5)>>) = World
    /\ \A v \in 0..127 :
          LET w == After(One, <<SetsSpeed(3, v)>>)
              r == Settled([w EXCEPT !.bus = handle_slot_refresh(w.b).out])
          IN  /\ w.b.at[3].speed = v /\ w.speed[1] /= 1
              /\ w.speed[1] < 128 <=> v /= 127
              /\ r = w
    /\ LET w == After(One, <<SetsSpeed(3, 9), By(3, [command |-> "ESTOP"])>>)
       IN  /\ w.speed[1] = 1 /\ w.b.at[3].speed = 0
           /\ Settled([w EXCEPT !.bus = handle_slot_refresh(w.b).out]).speed[1] = 0

Reverses(c, reverse) == By(c, [command |-> "DIRECTION", reverse |-> reverse])
Functions(c, number, onoff) == By(c, [command |-> "FUNCTION", number |-> number, onoff |-> onoff])
Driving == {Bus, Reverses(3, TRUE), Reverses(4, TRUE), Reverses(4, FALSE), Functions(3, 0, TRUE),
            Functions(4, 0, FALSE), Functions(4, 4, TRUE), Functions(3, 7, TRUE), Functions(4, 8, TRUE),
            SetsSpeed(3, 10), SetsSpeed(4, 20)}

(* Two cabs that share a slot show the same as the station has, whatever they   *)
(* command in whatever order.                                                   *)
ASSUME SharersAgree ==
    \A steps \in BoundedSeq(Driving, 3) :
        LET w == After(Both, steps)
        IN  \A c \in BridgeCabs :
                /\ w.b.at[c].on = w.on[1] /\ w.b.at[c].backwards = w.reverse[1]
                /\ w.b.at[c].speed = IF w.speed[1] = 0 THEN 0 ELSE w.speed[1] - 1

(* A function that a cab sets comes with the direction that this cab chose last, *)
(* also after the other one has turned the locomotive.  Cabs without a slot      *)
(* write theirs to a slot that does not exist, and set them at each other.       *)
ASSUME FunctionsCarryDirection ==
    /\ After(Both, <<Reverses(4, TRUE)>>).reverse[1]
    /\ ~After(Both, <<Reverses(4, TRUE), Bus, Functions(3, 1, TRUE)>>).reverse[1]
    /\ LET w == After(World, <<Functions(3, 0, TRUE)>>)
       IN  w.b.at[4].on = {0} /\ w.on = World.on

(* A turnout is commanded with a byte of data only up to 128; the hours of the *)
(* clock are shown with their half of the day.                                 *)
ASSUME SwitchesAndClock ==
    /\ \A number \in 1..400, normal \in BOOLEAN :
          LET m == switch(Bridge0, number, normal).out[1]
          IN  /\ m.sw2 >= 48 <=> normal
              /\ (m.sw1 < 128 /\ ((m.sw2 % 16) * 128) + m.sw1 + 1 = number) <=> number <= 128
    /\ \A hour \in 0..23 :
          LET time == handle_incoming_loconet(Bridge0, [opcode |-> "SLOT_READ_DATA", slot |-> 123,
                                                       hours |-> hour, minutes |-> 7]).time
          IN  time[3] = (hour < 12) /\ (time[1] \in 1..12 <=> hour <= 12)
==============================================================================
