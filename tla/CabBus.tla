-------------------------------- MODULE CabBus --------------------------------
(* CabBus.c: the master of a bus with cabs, which it asks in turn. A cab that is *)
(* asked answers with two bytes, its key and its knob; they come in by an         *)
(* interrupt, late or not at all. Cabs are plugged in and pulled out.             *)
EXTENDS CabMenu, FiniteSetsExt, Sequences

CONSTANTS
    NumCabs,               \* addresses are below it: 64
    CABBUS_NO_PING_TIMES,  \* rounds after which a cab that is silent is asked less often: 30
    Keys,                  \* the keys that each cab has
    Pluggable,             \* the cabs that are plugged in and pulled out; the others stay
    Numbers, Texts, Set,   \* what the program sets on cabs: locomotives, messages, functions
    MaxKeys                \* bound: the keys that are pressed, with none, one, ... of these
                           \* events: a byte lost, an answer late, a cab plugged in, a call

Cabs == 0..(NumCabs - 1) \ {1, 2}
Attachable == DOMAIN Keys

ASSUME NumCabsAssumption == NumCabs \in 4..64
ASSUME PingTimesAssumption == CABBUS_NO_PING_TIMES \in Nat \ {0, 1}
ASSUME CabsAssumption ==
    /\ Attachable \subseteq Cabs /\ Pluggable \subseteq Attachable
    /\ Keys \in [Attachable -> SUBSET (0..127)]
ASSUME BoundsAssumption == MaxKeys \in Seq(Nat) /\ MaxKeys # <<>>
ASSUME NumbersAssumption == Numbers \subseteq 0..9999 /\ Set \subseteq 0..8

VARIABLES
    cab,             \* allCabs
    currentCabAddr,
    ping_num,        \* modulo 4
    age,             \* ping_num - last_ping of each cab, no longer counted when it is long
    bytes,           \* firstByte and secondByte, as far as byteStatus has them
    pc,              \* the program: before step1, before step2, or waiting in it
    wire,            \* bytes that cabs have sent and that did not come in yet
    attached,        \* the cabs on the bus
    shown,           \* what the screen of each cab on the bus shows
    missed,          \* a cab that was pulled out was asked since
    keys, events,    \* the bounds
    clean,           \* history: nothing was still on its way when the ping before this one ended
    calm,            \* history: that was always so
    drawn,           \* history: the cabs that answered since they were plugged in
    typed,           \* history: the number typed since the accessory menu was opened
    nested           \* history: the cabs where one menu was opened inside the other

bounds == <<keys, events>>
history == <<clean, calm, drawn, typed, nested>>
vars == <<cab, currentCabAddr, ping_num, age, bytes, pc, wire, attached, shown, missed, bounds, history>>

Long == CABBUS_NO_PING_TIMES + 1
Byte(a, n, key) == [from |-> a, part |-> n, key |-> key]
Blank == [p \in Part |-> <<"BLANK">>]

(* cabbus_new *)
NewCab ==
    [speed |-> 0, forward |-> TRUE, loco |-> 44, functions |-> {1}, flags |-> {},
     dirty |-> Quarter, cursor |-> "NONE", number |-> 0, command |-> NoCommand,
     rows |-> [p \in Part |->
        CASE p = "TOPLEFT" -> <<"LOC", 44>> [] p = "BOTTOMLEFT" -> <<"SPEED", TRUE, 0>>
          [] p = "TOPRIGHT" -> <<"TIME", 0>> [] p = "BOTTOMRIGHT" -> <<"FUNCTIONS", {1}>>
          [] p = "NINTH" -> <<"BLANK">>]]

Init ==
    /\ cab = [a \in Cabs |-> NewCab]
    /\ currentCabAddr = 0
    /\ ping_num = CABBUS_NO_PING_TIMES % 4
    /\ age = [a \in Cabs |-> CABBUS_NO_PING_TIMES]
    /\ bytes = <<>> /\ pc = "step1" /\ wire = <<>>
    /\ attached = Attachable \ Pluggable
    /\ shown = [a \in Attachable |-> Blank]
    /\ missed = Pluggable
    /\ keys = 0 /\ events = 0
    /\ clean = TRUE /\ calm = TRUE /\ drawn = {}
    /\ typed = [a \in Cabs |-> 0] /\ nested = {}

(* What a part of a screen can say. *)
Row ==
    ({"SPEED"} \X BOOLEAN \X (0..TopSpeed)) \cup ({"FUNCTIONS"} \X SUBSET (0..6))
      \cup ({"LOC"} \X (0..9999)) \cup ({"ACC"} \X Word) \cup ({"TIME"} \X (0..1))
      \cup ({"MESSAGE"} \X Texts)
      \cup {<<"BLANK">>, <<"ENTER LOCO">>, <<"CONTROL">>, <<"ACC NUMBER">>, <<"1=N(ON) 2=R(OFF)">>}

CabType ==
    [speed : 0..TopSpeed, forward : BOOLEAN, loco : 0..9999, functions : SUBSET (0..9),
     flags : SUBSET Flags, dirty : SUBSET Quarter, cursor : Cursors, number : Word,
     command : Commands, rows : [Part -> Row]]

AnswerByte == [from : Attachable, part : 1..2, key : 0..127]

TypeOK ==
    /\ cab \in [Cabs -> CabType]
    /\ currentCabAddr \in Cabs
    /\ ping_num \in 0..3
    /\ age \in [Cabs -> 0..Long]
    /\ bytes \in Seq(AnswerByte) /\ Len(bytes) <= 2 /\ wire \in Seq(AnswerByte)
    /\ pc \in {"step1", "step2", "wait"}
    /\ attached \subseteq Attachable /\ missed \subseteq Cabs
    /\ shown \in [Attachable -> [Part -> Row]]
    /\ keys \in Nat /\ events \in 0..(Len(MaxKeys) - 1)
    /\ clean \in BOOLEAN /\ calm \in BOOLEAN
    /\ drawn \subseteq Cabs /\ typed \in [Cabs -> Nat] /\ nested \subseteq Cabs

-------------------------------------------------------------------------------
(* Asking a cab. *)

(* A cab that was not seen for long is asked in one round of four; one that was *)
(* not seen for exactly CABBUS_NO_PING_TIMES rounds is not asked.               *)
Due(a) ==
    \/ age[a] < CABBUS_NO_PING_TIMES
    \/ age[a] > CABBUS_NO_PING_TIMES /\ (ping_num + a) % 4 = 0

(* Mutation: the search begins at the first cab each time. *)
LaterFromStart == {a \in Cabs : a > 0 /\ Due(a)}

Later == {a \in Cabs : a > currentCabAddr /\ Due(a)}

(* Address 0 is asked at the end of every round. *)
next_ping_address ==
    IF Later # {}
    THEN currentCabAddr' = Min(Later) /\ UNCHANGED <<ping_num, age>>
    ELSE /\ currentCabAddr' = 0
         /\ ping_num' = (ping_num + 1) % 4
         /\ age' = [a \in Cabs |-> IF age[a] = Long THEN Long ELSE age[a] + 1]

Event ==
    /\ events' = events + 1
    /\ events' \in 0..(Len(MaxKeys) - 1) /\ keys <= MaxKeys[events' + 1]

(* What a cab on the bus answers; numbers stay below the bound. *)
Answers(a) ==
    \E key \in {NO_KEY} \cup (IF keys < MaxKeys[events + 1] THEN Keys[a] ELSE {}) :
        /\ (key \in Digits /\ cab[a].flags \cap {"SELECTING_LOCO", "SELECTING_ACCY"} # {})
             => 10 * cab[a].number + Digit(key) <= MaxNumber
        /\ wire' = wire \o <<Byte(a, 1, key), Byte(a, 2, key)>>
        /\ keys' = IF key = NO_KEY THEN keys ELSE keys + 1

ping_step1 ==
    /\ pc = "step1"
    /\ next_ping_address
    /\ IF currentCabAddr' \in attached THEN Answers(currentCabAddr') ELSE UNCHANGED <<wire, keys>>
    /\ missed' = missed \cup ({currentCabAddr'} \ attached)
    /\ pc' = "step2"
    /\ UNCHANGED <<cab, bytes, attached, shown, events, history>>

-------------------------------------------------------------------------------
(* Bytes. *)

(* cabbus_incoming_byte: a third byte makes it forget the two it has. *)
incoming_byte ==
    /\ wire # <<>>
    /\ wire' = Tail(wire)
    /\ bytes' = IF Len(bytes) = 2 THEN <<>> ELSE Append(bytes, Head(wire))
    /\ UNCHANGED <<cab, currentCabAddr, ping_num, age, pc, attached, shown, missed, bounds, history>>

LoseByte ==
    /\ Event
    /\ wire # <<>>
    /\ wire' = Tail(wire)
    /\ UNCHANGED <<cab, currentCabAddr, ping_num, age, bytes, pc, attached, shown, missed, keys, history>>

-------------------------------------------------------------------------------
(* Taking an answer. *)

Here == currentCabAddr

(* Mutation: a cab that is back keeps the screen that it is thought to show. *)
ReturningUnseen(c) == c

(* A cab that missed a round may have been pulled out: its screen is sent again. *)
Returning(c) == IF age[Here] > 1 THEN [c EXCEPT !.dirty = Quarter] ELSE c

Pressed(c, key) == IF key = NO_KEY THEN c ELSE process_button_press(c, key)

Typed(c, key) ==
    IF key = SEL_ACCY_KEY /\ "SELECTING_ACCY" \notin c.flags THEN 0
    ELSE IF key \in Digits /\ "SELECTING_ACCY" \in c.flags THEN 10 * typed[Here] + Digit(key)
    ELSE typed[Here]

Nests(c, key) ==
    \/ key = SELECT_LOCO_KEY /\ c.flags \cap {"SELECTING_ACCY", "SELECTING_ACCY_DIR"} # {}
    \/ key = SEL_ACCY_KEY /\ "SELECTING_LOCO" \in c.flags

(* The screen of the cab that is asked shows the quarter that is sent. *)
Sent(c) ==
    IF Here \in attached /\ c.dirty # {}
    THEN shown' = [shown EXCEPT ![Here] =
            [p \in Part |-> IF p \in PartsOf(Quarters[FirstDirty(c)]) THEN c.rows[p] ELSE @[p]]]
    ELSE UNCHANGED shown

PingEnds ==
    /\ pc' = "step1"
    /\ clean' = (wire = <<>>) /\ calm' = (calm /\ clean')

(* c is the cab before its key is handled. *)
Take(c) ==
    LET key == bytes[1].key
        pressed == Pressed(c, key)
    IN  /\ bytes' = <<>>
        /\ age' = [age EXCEPT ![Here] = 0]
        /\ cab' = [cab EXCEPT ![Here] = output_dirty_screens(pressed)]
        /\ Sent(pressed)
        /\ drawn' = drawn \cup {Here}
        /\ typed' = [typed EXCEPT ![Here] = Typed(c, key)]
        /\ nested' = IF Nests(c, key) THEN nested \cup {Here} ELSE nested
        /\ PingEnds
        /\ UNCHANGED <<currentCabAddr, ping_num, wire, attached, missed, bounds>>

(* That an answer is late is an event. *)
NoneComes ==
    /\ PingEnds
    /\ IF wire # <<>> THEN Event ELSE UNCHANGED events
    /\ UNCHANGED <<currentCabAddr, ping_num, age, wire, attached, shown, missed, keys, drawn, typed, nested>>

Asked == [Returning(cab[Here]) EXCEPT !.command = NoCommand]

ping_step2 ==
    /\ pc = "step2"
    /\ \/ /\ Len(bytes) = 2
          /\ Take(Asked)
       \/ /\ Len(bytes) = 1
          /\ pc' = "wait"
          /\ cab' = [cab EXCEPT ![Here] = Asked]
          /\ UNCHANGED <<currentCabAddr, ping_num, age, bytes, wire, attached, shown, missed, bounds, history>>
       \/ /\ bytes = <<>>
          /\ cab' = [cab EXCEPT ![Here] = Returning(@)]
          /\ bytes' = bytes
          /\ NoneComes

(* Mutation: the byte that came in is kept. *)
GiveUpKeepingByte ==
    /\ NoneComes
    /\ UNCHANGED <<cab, bytes>>

GiveUp ==
    /\ bytes' = <<>>
    /\ NoneComes
    /\ UNCHANGED cab

(* The loop ends when the second byte is there, or after 1000 turns. *)
ping_step2_waits ==
    /\ pc = "wait"
    /\ IF Len(bytes) = 2 THEN Take(cab[Here]) ELSE GiveUp

-------------------------------------------------------------------------------
(* What the program sets between two pings. *)

Set_(a, c) ==
    /\ Event
    /\ pc = "step1"
    /\ cab' = [cab EXCEPT ![a] = c]
    /\ UNCHANGED <<currentCabAddr, ping_num, age, bytes, pc, wire, attached, shown, missed, keys, history>>

ProgramSets ==
    \E a \in Attachable :
        \/ \E n \in Numbers : Set_(a, set_loco_number(cab[a], n))
        \/ \E v \in {0, TopSpeed} : Set_(a, set_loco_speed(cab[a], v))
        \/ \E fwd \in BOOLEAN : Set_(a, set_direction(cab[a], fwd))
        \/ \E f \in Set, on \in BOOLEAN : Set_(a, set_functions(cab[a], f, on))
        \/ \E t \in Texts : Set_(a, ask_question(cab[a], t)) \/ Set_(a, user_message(cab[a], t))
        \/ Set_(a, set_time(cab[a], 1))

(* A cab stays away for at least one ping: a round is far shorter than a hand. *)
PlugIn ==
    /\ Event
    /\ \E a \in Pluggable \ attached :
         /\ a \in missed
         /\ attached' = attached \cup {a}
         /\ shown' = [shown EXCEPT ![a] = Blank]
         /\ drawn' = drawn \ {a}
    /\ UNCHANGED <<cab, currentCabAddr, ping_num, age, bytes, pc, wire, missed, keys,
                   clean, calm, typed, nested>>

PullOut ==
    /\ \E a \in Pluggable \cap attached : attached' = attached \ {a} /\ missed' = missed \ {a}
    /\ UNCHANGED <<cab, currentCabAddr, ping_num, age, bytes, pc, wire, shown, bounds, history>>

-------------------------------------------------------------------------------
Next ==
    \/ ping_step1 \/ ping_step2 \/ ping_step2_waits
    \/ incoming_byte \/ LoseByte
    \/ ProgramSets \/ PlugIn \/ PullOut

(* The main loop runs, and bytes that were sent come in. *)
Spec ==
    /\ Init /\ [][Next]_vars
    /\ WF_vars(ping_step1) /\ WF_vars(ping_step2) /\ WF_vars(ping_step2_waits)
    /\ WF_vars(incoming_byte)

-------------------------------------------------------------------------------
(* Properties. *)

(* Whatever came late or was lost before: if no byte was on its way when the last *)
(* ping ended, two bytes that are taken for an answer are those of the cab that   *)
(* is asked, the first of them first. A late answer spoils no more than the next. *)
OwnKeys ==
    (clean /\ pc # "step1" /\ Len(bytes) = 2) =>
        \A i \in 1..2 : bytes[i].from = currentCabAddr /\ bytes[i].part = i

(* The ninth character of the bottom row may have become blank since it was sent. *)
Agrees(screen, rows, q) ==
    /\ screen[q] = rows[q]
    /\ q = "BOTTOMRIGHT" => rows["NINTH"] \in {screen["NINTH"], <<"BLANK">>}

(* As long as no answer was late: what a cab shows in a quarter that is not to be *)
(* sent is what it should show, also after it was pulled out and plugged in. Not  *)
(* so the first character of BOTTOMRIGHT, but only where set_loco_speed, also for *)
(* set_direction, has made it blank.                                              *)
CleanIsShown ==
    calm => \A a \in attached \cap drawn : \A q \in Quarter \ cab[a].dirty :
                Agrees(shown[a], cab[a].rows, q)

(* A switch that is thrown is the one whose number was entered, as far as it has *)
(* 16 bits, unless one menu was opened inside the other.                          *)
SwitchAsEntered ==
    \A a \in Cabs \ nested : cab[a].command.op = "SWITCH" => cab[a].command.number = typed[a] % 65536

(* Every address is asked again and again, whether a cab answers there or not. *)
AllAreAsked == \A a \in Cabs : []<>(pc = "step2" /\ currentCabAddr = a)
=============================================================================
