---------------------------- MODULE LocoNetTables ----------------------------
(***************************************************************************)
(* What programs keep of the LocoNet messages that they see: the statuses  *)
(* of turnouts and sensors of the library, two bits each, the turnouts of  *)
(* the GUI, its table of the slots and its count of messages; and what is  *)
(* printed of a message.  All of it reacts to one message at a time, so    *)
(* that operators from what is kept and a message to what is kept next say *)
(* all; sequences of messages are folded over them.                        *)
(***************************************************************************)
EXTENDS Integers, Sequences, SequencesExt, FiniteSetsExt, TLC

Bit(byte, n) == (byte \div 2 ^ n) % 2

----------------------------------------------------------------------------
(* Turnouts and sensors.  A cell holds four of them, and the number of the *)
(* one modulo 4 is taken as the number of its lowest bit, not twice that.  *)

Field(cell, low) == (cell \div 2 ^ low) % 4

SetField(cell, low, value) == cell + (value - Field(cell, low)) * 2 ^ low

(* A field of 1 is the first of two statuses, 2 the other one. *)
StatusOf(field, one, two) ==
    CASE field = 1 -> one [] field = 2 -> two [] OTHER -> "UNKNOWN"

(* The old status is read with the complement of the field's mask, which   *)
(* leaves the bits above the field and never 1 or 2.                       *)
OldField(cell, low) == (cell - (Field(cell, low) * 2 ^ low)) \div 2 ^ low

Cells == 0..511

(* An unknown cell lies behind the table: what is written there is lost to it. *)
Keep(cells, number, field, one, two) ==
    LET at  == number \div 4
        low == number % 4
        new == StatusOf(field, one, two)
        old == IF at \in DOMAIN cells
               THEN StatusOf(OldField(cells[at], low), one, two) ELSE "UNKNOWN"
    IN  [cells    |-> IF at \in DOMAIN cells
                      THEN [cells EXCEPT ![at] = SetField(@, low, field)] ELSE cells,
         reported |-> IF new = old THEN <<>> ELSE <<[number |-> number + 1, status |-> new]>>]

SwitchNumber(m) == ((m.sw2 % 16) * 128) + m.sw1

SwitchSeen(cells, m) ==
    Keep(cells, SwitchNumber(m), IF Bit(m.sw2, 5) = 1 THEN 1 ELSE 2, "CLOSED", "THROWN")

SensorNumber(m) == ((m.in2 % 16) * 256) + (m.in1 * 2) + Bit(m.in2, 5)

SensorSeen(cells, m) ==
    Keep(cells, SensorNumber(m), IF Bit(m.in2, 4) = 1 THEN 1 ELSE 2, "ACTIVE", "INACTIVE")

(* Numbers that programs use begin with 1, which is refused. *)
CachedTurnout(cells, number) ==
    IF number \in 2..2048
    THEN StatusOf(Field(cells[(number - 1) \div 4], (number - 1) % 4), "CLOSED", "THROWN")
    ELSE "UNKNOWN"

(* Only for numbers whose cell exists: cells has none for the others. *)
CachedSensor(cells, number) ==
    IF number \in 2..4095
    THEN StatusOf(Field(cells[(number - 1) \div 4], (number - 1) % 4), "ACTIVE", "INACTIVE")
    ELSE "INVALID_SENSOR_NUM"

(* The messages that throw or close a turnout; bit 7 of the number has no place. *)
Command(number, status, flag) ==
    LET n     == number - 1
        on    == ((n \div 256) % 32) + 16 + (IF status = "CLOSED" THEN 32 ELSE 0)
        Of(s) == [sw1 |-> n % 128, sw2 |-> s]
    IN  IF number \notin 1..2048 THEN <<>>
        ELSE IF flag THEN <<Of(on), Of(on - 16)>> ELSE <<Of(on)>>

----------------------------------------------------------------------------
(* What the statements below are evaluated on. *)

Blank == [c \in Cells |-> 0]
Statuses == {"CLOSED", "THROWN"}
SomeBytes == {0, 1, 2, 5, 10, 27, 85, 150, 170, 228, 255}

SwitchMessage(number, status) ==
    [sw1 |-> (number - 1) % 128,
     sw2 |-> ((number - 1) \div 128) + (IF status = "CLOSED" THEN 32 ELSE 0)]

SensorMessage(number, active) ==
    [in1 |-> ((number - 1) \div 2) % 128,
     in2 |-> (((number - 1) \div 256) % 16) + (IF active THEN 16 ELSE 0) + (((number - 1) % 2) * 32)]

(* Whatever the table holds, right after a message about a turnout or sensor   *)
(* its cached status is the one of the message, and the message is reported    *)
(* with its number and status; turnouts that are not next to it keep theirs    *)
(* (those next to it need not: their bits overlap).  Sensors beyond the table  *)
(* are reported but change nothing that is cached.                             *)
ASSUME LastMessageIsCached ==
    \A byte \in SomeBytes, n \in {2, 3, 4, 5, 6, 7, 8, 129, 255, 256, 257, 2048}, status \in Statuses :
        LET cells == [Blank EXCEPT ![(n - 1) \div 4] = byte]
            turn  == SwitchSeen(cells, SwitchMessage(n, status))
            sense == SensorSeen(cells, SensorMessage(n, status = "CLOSED"))
        IN  /\ CachedTurnout(turn.cells, n) = status
            /\ turn.reported = <<[number |-> n, status |-> status]>>
            /\ CachedSensor(sense.cells, n) = IF status = "CLOSED" THEN "ACTIVE" ELSE "INACTIVE"
            /\ \A k \in ((n - 8)..(n + 8)) \cap (2..2048) :
                  k \notin (n - 1)..(n + 1) \/ (k - 1) \div 4 /= (n - 1) \div 4
                      => k = n \/ CachedTurnout(turn.cells, k) = CachedTurnout(cells, k)
            /\ \A k \in {2049, 3000, 4096} :
                  LET beyond == SensorSeen(cells, SensorMessage(k, status = "CLOSED"))
                  IN  beyond.cells = cells /\ Len(beyond.reported) = 1

(* The command for a turnout is read back as that number by every station   *)
(* exactly for the numbers up to 128, with the status that was asked for,   *)
(* on and then off with the flag; other numbers command another turnout.    *)
ASSUME CommandsUpTo128 ==
    /\ \A number \in 1..2048, status \in Statuses :
          LET sent == Command(number, status, TRUE)
              seen == SwitchSeen(Blank, sent[1])
          IN  /\ (SwitchNumber(sent[1]) + 1 = number) <=> number <= 128
              /\ seen.reported[1].status = status
              /\ SwitchNumber(sent[2]) = SwitchNumber(sent[1])
              /\ Bit(sent[1].sw2, 4) = 1 /\ Bit(sent[2].sw2, 4) = 0
              /\ Command(number, status, FALSE) = <<sent[1]>>
    /\ Command(0, "CLOSED", FALSE) = <<>> /\ Command(2049, "CLOSED", FALSE) = <<>>

----------------------------------------------------------------------------
(* The turnouts of the GUI: class Turnout and what LocoNet makes of it.    *)
(* A turnout is the status that it shows; a user's step gives the next one *)
(* and whether a command is sent.                                          *)

setState(shown, wanted) == [shows |-> wanted, sends |-> shown /= wanted]
throwTurnout(shown)  == setState(shown, "THROWN")
closeTurnout(shown)  == setState(shown, "CLOSED")
toggleTurnout(shown) ==
    [shows |-> IF shown = "CLOSED" THEN "THROWN" ELSE "CLOSED", sends |-> TRUE]

UserSteps == {"throw", "close", "toggle"}

Clicked(shown, button) ==
    CASE button = "throw" -> throwTurnout(shown)
      [] button = "close" -> closeTurnout(shown)
      [] OTHER            -> toggleTurnout(shown)

(* A message is reported with a number; only a turnout that was asked for  *)
(* has an object.                                                          *)
SwitchChanged(turnouts, report) ==
    IF report.number \in DOMAIN turnouts
    THEN [turnouts EXCEPT ![report.number] = report.status] ELSE turnouts

getDCCTurnout(turnouts, number) ==
    [k \in DOMAIN turnouts \cup {number} |->
        IF k \in DOMAIN turnouts THEN turnouts[k] ELSE "UNKNOWN"]

(* What a connection does with a message, and with a user's step: its       *)
(* turnouts and its cells, and the messages it sends.                       *)
Connection == [turnouts |-> getDCCTurnout(getDCCTurnout(<<>>, 6), 128), cells |-> Blank]

IncomingLoconet(conn, m) ==
    LET seen == SwitchSeen(conn.cells, m)
    IN  [turnouts |-> FoldLeft(SwitchChanged, conn.turnouts, seen.reported), cells |-> seen.cells]

(* Two programs on one bus, each with its connection; the bus takes what   *)
(* they send in order and gives it to both, as their own echo too.         *)
TwoPrograms == [at |-> [p \in 1..2 |-> Connection], bus |-> <<>>]

UserAt(s, p, number, button) ==
    LET does == Clicked(s.at[p].turnouts[number], button)
    IN  [at  |-> [s.at EXCEPT ![p].turnouts[number] = does.shows],
         bus |-> IF does.sends THEN s.bus \o Command(number, does.shows, FALSE) ELSE s.bus]

Deliver(s) ==
    IF s.bus = <<>> THEN s
    ELSE [at |-> [p \in 1..2 |-> IncomingLoconet(s.at[p], Head(s.bus))], bus |-> Tail(s.bus)]

Happens(s, what) ==
    IF what.kind = "bus" THEN Deliver(s) ELSE UserAt(s, what.program, what.number, what.button)

Happenings ==
    {[kind |-> "bus"]} \cup
        [kind : {"user"}, program : 1..2, number : {6}, button : UserSteps] \cup
        [kind : {"user"}, program : {2}, number : {128}, button : {"close"}]

Settled(s) == FoldLeft(LAMBDA t, m : Deliver(t), s, s.bus)

(* Whatever two users do with the same turnouts, and whenever the bus delivers *)
(* it, once everything is delivered both programs show the same, and it is     *)
(* what the library's table has; a user's wish that no other user's step       *)
(* follows before it is delivered is what both show.                           *)
ASSUME ProgramsAgree ==
    \A h \in BoundedSeq(Happenings, 4) :
        LET end == Settled(FoldLeft(Happens, TwoPrograms, h))
        IN  /\ end.at[1] = end.at[2]
            /\ \A p \in 1..2 : \A n \in DOMAIN end.at[p].turnouts :
                  end.at[p].turnouts[n] = CachedTurnout(end.at[p].cells, n)
            /\ Len(h) > 0 /\ h[Len(h)].kind = "user"
                  => LET before == FoldLeft(Happens, TwoPrograms, Front(h))
                         last   == h[Len(h)]
                     IN  before.bus = <<>>
                            => end.at[1].turnouts[last.number] =
                                   Clicked(before.at[last.program].turnouts[last.number], last.button).shows

(* Saving writes the number of each turnout at index 0, one over the other; loading *)
(* reads outside of the array's entries, which hold no number: toInt of that is 0.  *)
SavedTurnouts(turnouts) ==
    IF DOMAIN turnouts = {} THEN <<>> ELSE <<Max(DOMAIN turnouts)>>

OutsideOfEntries == 0

Load(saved) ==
    FoldLeft(LAMBDA t, entry : getDCCTurnout(t, OutsideOfEntries), <<>>, saved)

(* Restarting keeps no turnout: there is none after none was saved, and one that *)
(* nobody made, with a number that no command takes, in any other case.          *)
ASSUME TurnoutsAreNotRestored ==
    \A ns \in SUBSET {1, 6, 128} :
        LET again == Load(SavedTurnouts([n \in ns |-> "UNKNOWN"]))
        IN  DOMAIN again = (IF ns = {} THEN {} ELSE {0}) /\ Command(0, "THROWN", FALSE) = <<>>

----------------------------------------------------------------------------
(* The table of the slots: a row for each locomotive slot, hidden while    *)
(* the slot is free.                                                       *)

Slots == 0..119

EmptyRow == [address |-> 0, speed |-> 0, use |-> 0, direction |-> "", throttle |-> 0,
             functions |-> [f \in 0..8 |-> FALSE], hidden |-> TRUE]

EmptyTable == [n \in Slots |-> EmptyRow]

LN_SLOT_STATUS(stat) == (stat \div 16) % 4

DirectionOf(byte) == IF Bit(byte, 5) = 1 THEN "FWD" ELSE "REV"

(* F0 is bit 4, F1 to F4 are bits 0 to 3, and F5 to F8 those of the sound. *)
LowFunctions(byte) ==
    [f \in 0..4 |-> IF f = 0 THEN Bit(byte, 4) = 1 ELSE Bit(byte, f - 1) = 1]
HighFunctions(byte) == [f \in 5..8 |-> Bit(byte, f - 5) = 1]

With(functions, new) ==
    [f \in DOMAIN functions |-> IF f \in DOMAIN new THEN new[f] ELSE functions[f]]

(* The loop that copies the functions of a slot ends before F8. *)
updateSlot(row, m) ==
    [row EXCEPT !.address   = m.addr1 + (m.addr2 * 128),
                !.speed     = m.speed,
                !.use       = LN_SLOT_STATUS(m.stat),
                !.direction = DirectionOf(m.dir_funcs),
                !.throttle  = (m.id1 * 256) + m.id2,
                !.functions = With(With(@, LowFunctions(m.dir_funcs)),
                                     [f \in 5..7 |-> HighFunctions(m.sound)[f]]),
                !.hidden    = LN_SLOT_STATUS(m.stat) = 0]

(* Slot 120 passes the check of the bounds, but has no row: what is written lies *)
(* behind the table.  Slots above it are left alone.                             *)
SlotTableSees(table, m) ==
    IF m.slot \notin Slots THEN table
    ELSE [table EXCEPT ![m.slot] =
            CASE m.opcode = "SLOT_READ_DATA" -> updateSlot(@, m)
              [] m.opcode = "LOCO_SPEED"     -> [@ EXCEPT !.speed = m.speed]
              [] m.opcode = "LOCO_DIR_FUNC"  ->
                    [@ EXCEPT !.direction = DirectionOf(m.dir_funcs),
                              !.functions = With(@, LowFunctions(m.dir_funcs))]
              [] m.opcode = "LOCO_SOUND"     -> [@ EXCEPT !.functions = With(@, HighFunctions(m.snd))]
              [] OTHER                       -> @]

UseText(use) == <<"Free", "Common", "Idle", "In use">>[use + 1]

(* The columns that have a text: the status, the consist and the throttle have none. *)
Row(table, n) ==
    [slot |-> n, address |-> table[n].address, speed |-> table[n].speed,
     use |-> UseText(table[n].use), direction |-> table[n].direction,
     functions |-> table[n].functions]

(* What a refresh asks for. *)
ForceRefresh == [i \in 1..120 |-> [opcode |-> "REQUEST_SLOT_DATA", slot |-> i - 1]]

----------------------------------------------------------------------------
(* What the library prints of a message: as lines, or decoded into one     *)
(* string for the GUI's monitor, without the wording.                      *)

PrintedDirection(byte) == IF Bit(byte, 5) = 1 THEN "REV" ELSE "FWD"

PrintedFunctions(byte) == {f \in 0..4 : LowFunctions(byte)[f]}

PrintedHighFunctions(byte) == {f \in 5..8 : HighFunctions(byte)[f]}

PrintedSlotStatus(stat) ==
    [decoder |-> CASE stat % 8 = 0 -> "28 step"
                   [] stat % 8 = 1 -> "28 step trinary"
                   [] stat % 8 = 2 -> "14 step"
                   [] stat % 8 = 3 -> "128 step"
                   [] stat % 8 = 4 -> "28 step consisting"
                   [] stat % 8 = 7 -> "128 step consisting"
                   [] OTHER        -> "unknown",
     use     |-> <<"FREE", "COMMON", "IDLE", "IN_USE">>[LN_SLOT_STATUS(stat) + 1],
     consist |-> <<"free", "sub-member", "top", "mid">>[(stat \div 64) + 1]]

PrintedTrack(trk) ==
    [power |-> Bit(trk, 0) = 1, paused |-> Bit(trk, 1) = 0,
     master |-> IF Bit(trk, 2) = 1 THEN "LocoNet 1.1" ELSE "DT200", busy |-> Bit(trk, 3) = 1]

(* The hours count up to 0x80 and the minutes up to 0x7F, but both are taken *)
(* from 0xFF: the hours have one too much, and the last one wraps before it  *)
(* is taken off.                                                             *)
ClockTime(m) ==
    [hours   |-> ((24 - (((255 - m.hours_24) % 128) % 24)) % 24) - 1,
     minutes |-> (60 - (((255 - m.mins_60) % 128) % 60)) % 60]

PrintedClock(m) == [m EXCEPT !.opcode = "clock"] @@ [time |-> ClockTime(m)]

UpdateCurrentTime(time, m) == IF m.slot = 123 THEN ClockTime(m) ELSE time

PrintedSlot(m) ==
    [opcode |-> m.opcode, slot |-> m.slot, stat |-> PrintedSlotStatus(m.stat), speed |-> m.speed,
     direction |-> PrintedDirection(m.dir_funcs), functions |-> PrintedFunctions(m.dir_funcs),
     track |-> PrintedTrack(m.track), address |-> m.addr1 + (m.addr2 * 128), long |-> m.addr2 /= 0]

PrintedDirFunc(m) ==
    [opcode |-> m.opcode, slot |-> m.slot, direction |-> PrintedDirection(m.dir_funcs),
     functions |-> PrintedFunctions(m.dir_funcs)]

(* Switches are printed without the high part of their number. *)
PrintedSwitch(m) ==
    [opcode |-> m.opcode, number |-> m.sw1 + 1,
     status |-> IF Bit(m.sw2, 5) = 1 THEN "CLOSED" ELSE "THROWN"]

Unprinted == [opcode |-> "unimplemented"]

AsTheyAre ==
    {"LOCO_SPEED", "REQUEST_SLOT_DATA", "MOVE_SLOT", "SLOT_STAT1", "LONG_ACK", "LOCO_ADDR"}

PrintMessage(m) ==
    CASE m.opcode \in AsTheyAre     -> m
      [] m.opcode = "LOCO_DIR_FUNC"  -> PrintedDirFunc(m)
      [] m.opcode = "LOCO_SOUND"     ->
            [opcode |-> m.opcode, slot |-> m.slot, functions |-> PrintedHighFunctions(m.snd)]
      [] m.opcode = "SWITCH_REQUEST" -> PrintedSwitch(m)
      [] m.opcode \in {"SLOT_READ_DATA", "SLOT_WRITE_DATA"} ->
            IF m.slot = 123 THEN PrintedClock(m) ELSE PrintedSlot(m)
      [] OTHER -> Unprinted

DecodeAsStr(m) ==
    CASE m.opcode \in AsTheyAre \cup {"POWER_ON", "POWER_OFF"} -> m
      [] m.opcode = "LOCO_DIR_FUNC"  -> PrintedDirFunc(m)
      [] m.opcode = "SWITCH_REQUEST" -> PrintedSwitch(m)
      [] m.opcode = "INPUT_REPORT"   ->
            [opcode |-> m.opcode, number |-> m.in1 + ((m.in2 % 16) * 128), active |-> Bit(m.in2, 4) = 1]
      [] m.opcode \in {"SLOT_READ_DATA", "SLOT_WRITE_DATA"} ->
            IF m.slot = 123 THEN [opcode |-> "clock"] ELSE PrintedSlot(m)
      [] OTHER -> Unprinted

(* How many bytes are printed of a message whose opcode has this type, with  *)
(* the first byte of its data, and how many it has on the bus.               *)
PrintedBytes(type, first, slotData) ==
    CASE type = 128 -> 2 [] type = 160 -> 4 [] type = 192 -> 6
      [] OTHER -> IF slotData THEN 1 + 13 ELSE 1 + first + 1

BytesOnBus(type, first, slotData) ==
    CASE type = 128 -> 2 [] type = 160 -> 4 [] type = 192 -> 6
      [] OTHER -> IF slotData THEN 14 ELSE first

(* What a throttle of the library sends of its direction and its functions. *)
UpdateDirf(forward, functions) ==
    LET On(f, n) == IF functions[f] THEN 2 ^ n ELSE 0
    IN  (IF forward THEN 32 ELSE 0) + On(0, 4) + On(1, 0) + On(2, 1) + On(3, 2) + On(4, 3)

SlotRead(n, stat, byte, snd) ==
    [opcode |-> "SLOT_READ_DATA", slot |-> n, stat |-> stat, addr1 |-> 3 + n, addr2 |-> 1, speed |-> 7,
     dir_funcs |-> byte, sound |-> snd, id1 |-> 1, id2 |-> 2]

SlotMessages ==
    {SlotRead(n, 16 * u, 45, 15) : n \in {0, 119}, u \in {0, 3}} \cup
        {SlotRead(119, 51, 18, 6)} \cup
        [opcode : {"LOCO_SPEED"}, slot : {0, 119, 121}, speed : {1, 126}] \cup
        [opcode : {"LOCO_DIR_FUNC"}, slot : {0, 119}, dir_funcs : {0, 33, 26}] \cup
        [opcode : {"LOCO_SOUND"}, slot : {119}, snd : {5, 10}]

LastOf(ms, n, opcodes) ==
    LET them == SelectSeq(ms, LAMBDA m : m.slot = n /\ m.opcode \in opcodes)
    IN  IF them = <<>> THEN <<>> ELSE <<Last(them)>>

(* After any messages a row shows what the last one that says it said: the speed, *)
(* the direction and the functions up to F4, F5 to F7, and F8, which only a sound *)
(* message says; it is hidden exactly when the last data of the slot was free or  *)
(* there was none.                                                                *)
ASSUME RowsShowTheLast ==
    \A ms \in BoundedSeq(SlotMessages, 3), n \in {0, 119} :
        LET table == FoldLeft(SlotTableSees, EmptyTable, ms)
            row   == Row(table, n)
            read  == LastOf(ms, n, {"SLOT_READ_DATA"})
            speed == LastOf(ms, n, {"SLOT_READ_DATA", "LOCO_SPEED"})
            low   == LastOf(ms, n, {"SLOT_READ_DATA", "LOCO_DIR_FUNC"})
            high  == LastOf(ms, n, {"SLOT_READ_DATA", "LOCO_SOUND"})
            f8    == LastOf(ms, n, {"LOCO_SOUND"})
            HighOf(m) == HighFunctions(IF m.opcode = "LOCO_SOUND" THEN m.snd ELSE m.sound)
        IN  /\ row.speed = IF speed = <<>> THEN 0 ELSE speed[1].speed
            /\ row.direction = IF low = <<>> THEN "" ELSE DirectionOf(low[1].dir_funcs)
            /\ \A f \in 0..4 : row.functions[f] = (low /= <<>> /\ LowFunctions(low[1].dir_funcs)[f])
            /\ \A f \in 5..7 : row.functions[f] = (high /= <<>> /\ HighOf(high[1])[f])
            /\ row.functions[8] = (f8 /= <<>> /\ HighOf(f8[1])[8])
            /\ table[n].hidden <=> (read = <<>> \/ row.use = "Free")
            /\ row.address = IF read = <<>> THEN 0 ELSE n + 131

(* A refresh asks for every row of the table: once the station has answered, each *)
(* row shows its slot, those of free slots hidden.                                *)
ASSUME RefreshFillsTheTable ==
    LET Answered(table, ask) == SlotTableSees(table, SlotRead(ask.slot, 16 * (ask.slot % 4), 45, 15))
        table == FoldLeft(Answered, EmptyTable, ForceRefresh)
    IN  \A n \in Slots : Row(table, n).address = n + 131 /\ (table[n].hidden <=> n % 4 = 0)

(* What a throttle sends of its direction and functions is what the table shows, *)
(* and what is printed has the same functions but the opposite direction.        *)
ASSUME ThrottlesAreShown ==
    \A forward \in BOOLEAN, functions \in [0..4 -> BOOLEAN] :
        LET byte  == UpdateDirf(forward, functions)
            sent  == [opcode |-> "LOCO_DIR_FUNC", slot |-> 3, dir_funcs |-> byte]
            shown == Row(SlotTableSees(EmptyTable, sent), 3)
        IN  /\ \A f \in 0..4 : shown.functions[f] = functions[f]
            /\ shown.direction = IF forward THEN "FWD" ELSE "REV"
            /\ PrintedFunctions(byte) = {f \in 0..4 : functions[f]}
            /\ PrintedDirection(byte) /= shown.direction

PrintSamples ==
    [opcode : {"LOCO_SPEED"}, slot : {1}, speed : {0, 9}] \cup
    [opcode : {"LONG_ACK"}, lopc : {58}, ack : {0, 127}] \cup
    [opcode : {"LOCO_DIR_FUNC"}, slot : {1}, dir_funcs : 0..63] \cup
    [opcode : {"SLOT_READ_DATA", "SLOT_WRITE_DATA"}, slot : {1}, stat : {0, 18, 36, 55, 253},
     addr1 : {3}, addr2 : {0, 1}, speed : {7}, dir_funcs : {0, 45}, track : 0..15]

(* The two ways to print a message say the same of it, except of the messages  *)
(* that only one of them knows and of the clock, whose time one of them leaves *)
(* out; all bytes are printed, and of messages of any length two that are not  *)
(* theirs.  The number of a sensor is printed as half of the one that is kept, *)
(* less one, and that of a turnout as the one kept up to 128 only.             *)
ASSUME PrintersAgree ==
    /\ \A m \in PrintSamples : PrintMessage(m) = DecodeAsStr(m)
    /\ DecodeAsStr([opcode |-> "SLOT_READ_DATA", slot |-> 123]) = [opcode |-> "clock"]
    /\ PrintMessage([opcode |-> "POWER_ON"]) = Unprinted
    /\ DecodeAsStr([opcode |-> "LOCO_SOUND", slot |-> 1, snd |-> 1]) = Unprinted
    /\ \A type \in {128, 160, 192} : PrintedBytes(type, 9, FALSE) = BytesOnBus(type, 9, FALSE)
    /\ \A first \in {3, 9} : /\ PrintedBytes(224, first, TRUE) = BytesOnBus(224, first, TRUE)
                             /\ PrintedBytes(224, first, FALSE) = BytesOnBus(224, first, FALSE) + 2
    /\ \A n \in {1, 2, 128, 129, 300, 2048} :
          LET turn  == SwitchMessage(n, "CLOSED")
              sense == SensorMessage(n, TRUE)
          IN  /\ PrintedSwitch([opcode |-> "SWITCH_REQUEST"] @@ turn).number = n <=> n <= 128
              /\ DecodeAsStr([opcode |-> "INPUT_REPORT"] @@ sense).number = (n - 1) \div 2

(* Each hour and minute of the clock that is sent is the one that is kept and *)
(* printed, except the hour 23, which becomes hour -1.                        *)
ASSUME HoursUntil23 ==
    \A hour \in 0..23, minute \in {0, 1, 33, 59} :
        LET m == [opcode |-> "SLOT_READ_DATA", slot |-> 123, hours_24 |-> 104 + hour, mins_60 |-> 67 + minute]
            time == PrintMessage(m).time
        IN  /\ UpdateCurrentTime([hours |-> 0, minutes |-> 0], m) = time
            /\ time.hours = IF hour = 23 THEN -1 ELSE hour
            /\ time.minutes = minute

----------------------------------------------------------------------------
(* The count of messages per second.  It goes on while the timer that ends *)
(* the seconds is stopped: m_collecting is never changed.                  *)

NoUsage == [current |-> 0, seconds |-> <<>>, running |-> TRUE]

Counted(usage, what) ==
    CASE what = "message" -> [usage EXCEPT !.current = @ + 1]
      [] what = "second"  -> IF usage.running
                             THEN [usage EXCEPT !.current = 0, !.seconds = Append(@, usage.current)]
                             ELSE usage
      [] what = "clear"   -> [usage EXCEPT !.seconds = <<>>]
      [] what = "start"   -> [usage EXCEPT !.running = TRUE]
      [] what = "stop"    -> [usage EXCEPT !.running = FALSE]

SumOf(seq) == FoldLeft(LAMBDA a, b : a + b, 0, seq)

(* Every message is in exactly one second, whenever it comes: also those that come *)
(* while collecting is stopped, in the first second after it.                      *)
ASSUME EveryMessageIsCounted ==
    \A h \in BoundedSeq({"message", "second", "stop", "start"}, 5) :
        LET usage == FoldLeft(Counted, NoUsage, h)
        IN  /\ SumOf(usage.seconds) + usage.current = Len(SelectSeq(h, LAMBDA e : e = "message"))
            /\ Counted(usage, "clear").current = usage.current

----------------------------------------------------------------------------
(* The connections by their names.  One that has no name is given a number *)
(* that is used up even if another one has the name; one that comes from   *)
(* the settings takes the place of another one of its name.                *)

NoConnections == [next |-> 1, named |-> {}]

CreateNewLoconet(manager, name) ==
    LET number == name = ""
        takes  == IF number THEN "Loconet" \o ToString(manager.next) ELSE name
    IN  [next |-> IF number THEN manager.next + 1 ELSE manager.next,
         named |-> manager.named \cup {takes},
         made |-> takes \notin manager.named]

CreateFromSettings(manager, name) == [manager EXCEPT !.named = @ \cup {name}]

(* Connections that users make get names that no other one has, and one is made *)
(* whenever the name is free; without a name one is made at the latest when all *)
(* the numbers that others took as their names are used up.                     *)
ASSUME NamesAreOwn ==
    \A names \in BoundedSeq({"", "Loconet1", "Loconet2", "a"}, 4) :
        LET before == FoldLeft(CreateNewLoconet, NoConnections, Front(names \o <<"">>))
            new    == CreateNewLoconet(before, Last(<<"">> \o names))
        IN  /\ new.made <=> new.named /= before.named
            /\ before.named \subseteq new.named
            /\ \E k \in 0..2 :
                  CreateNewLoconet(FoldLeft(CreateNewLoconet, before, [i \in 1..k |-> ""]), "").made
            /\ CreateFromSettings(before, "a").named = before.named \cup {"a"}
==============================================================================
