------------------------------- MODULE CabMenu -------------------------------
(* cabbus_cab.c: what the master knows of one cab, its screen and its menus. A *)
(* cab is a record; every function of the file maps one record to the next.    *)
EXTENDS Integers

CONSTANTS
    TopSpeed,   \* the greatest speed step, 127
    FastStep,   \* what a fast key adds, 5
    MaxNumber   \* bound: the numbers that users enter

ASSUME SpeedAssumption == TopSpeed \in Nat /\ FastStep \in Nat
ASSUME NumberAssumption == MaxNumber \in Nat

(* Keys, as they are on the bus. *)
NO_KEY == 125
REPEAT_SCREEN == 126
ENTER == 64
PROGRAM_KEY == 65
DIRECTION_KEY == 67
SELECT_LOCO_KEY == 72
HORN_KEY == 73
STEP_FASTER_KEY == 74
STEP_SLOWER_KEY == 75
ESTOP_KEY == 76
BELL_KEY == 77
SEL_ACCY_KEY == 78
Digits == 80..89
SPEED_INC_FAST_KEY == 90
SPEED_DEC_FAST_KEY == 91
HORN_KEY_RELEASE == 95
Digit(key) == key - 80

(* The quarters of the screen, in the order in which they are sent. *)
Quarters == <<"TOPLEFT", "BOTTOMLEFT", "TOPRIGHT", "BOTTOMRIGHT">>
Quarter == {Quarters[i] : i \in 1..4}

(* bottomRow[8] is the first character of BOTTOMRIGHT and is set apart from the  *)
(* rest of that quarter: it has a row of its own, and is sent with the quarter.   *)
Part == Quarter \cup {"NINTH"}
PartsOf(q) == IF q = "BOTTOMRIGHT" THEN {q, "NINTH"} ELSE {q}

(* The upper half of dirty_screens. *)
Flags == {"ASK_QUESTION", "SELECTING_LOCO", "SELECTING_ACCY", "SELECTING_ACCY_DIR"}

(* new_cursor_position: where a number is entered, or -2, -3, -1. *)
Cursors == {"MOVE", "ENABLE", "DISABLE", "NONE"}

NoCommand == [op |-> "NONE"]
SelLoco(n) == [op |-> "SEL_LOCO", address |-> n]
UnselectLoco == [op |-> "UNSELECT_LOCO"]
Speed(v) == [op |-> "SPEED", speed |-> v]
Direction(fwd) == [op |-> "DIRECTION", forward |-> fwd]
Estop == [op |-> "ESTOP"]
Function(f, on) == [op |-> "FUNCTION", number |-> f, on |-> on]
Switch(n, normal) == [op |-> "SWITCH", number |-> n, normal |-> normal]
Response(yes) == [op |-> "RESPONSE", yes |-> yes]

(* Numbers that are entered have 16 bits. *)
Word == 0..65535

Commands ==
    {NoCommand, UnselectLoco, Estop}
      \cup [op : {"SEL_LOCO"}, address : Word \ {0}]
      \cup [op : {"SPEED"}, speed : 0..TopSpeed]
      \cup [op : {"DIRECTION"}, forward : BOOLEAN]
      \cup [op : {"FUNCTION"}, number : 0..9, on : BOOLEAN]
      \cup [op : {"SWITCH"}, number : Word, normal : BOOLEAN]
      \cup [op : {"RESPONSE"}, yes : BOOLEAN]

-------------------------------------------------------------------------------
(* What the program sets. `rows' holds what each part of the screen should show. *)

Show(cab, q, text) == [cab EXCEPT !.rows[q] = text, !.dirty = @ \cup {q}]

(* The character is changed without its quarter being sent for it. *)
SetNinth(cab, text) == [cab EXCEPT !.rows["NINTH"] = text]

ShowSpeed(cab) ==
    SetNinth(Show(cab, "BOTTOMLEFT", <<"SPEED", cab.forward, cab.speed>>), <<"BLANK">>)
ShowFunctions(cab) == Show(cab, "BOTTOMRIGHT", <<"FUNCTIONS", cab.functions \cap 0..6>>)
ShowLoco(cab)      == Show(cab, "TOPLEFT", <<"LOC", cab.loco>>)
ShowBottom(cab, text) ==
    SetNinth(Show(Show(cab, "BOTTOMLEFT", text), "BOTTOMRIGHT", text), text)

set_loco_number(cab, n) ==
    LET number == IF n > 9999 THEN 9999 ELSE n
    IN  IF cab.loco = number THEN cab ELSE ShowLoco([cab EXCEPT !.loco = number])

set_loco_speed(cab, v) == ShowSpeed([cab EXCEPT !.speed = v])
set_direction(cab, fwd) == ShowSpeed([cab EXCEPT !.forward = fwd])
set_time(cab, t) == Show(cab, "TOPRIGHT", <<"TIME", t>>)

set_functions(cab, f, on) ==
    ShowFunctions([cab EXCEPT !.functions = IF on THEN @ \cup {f} ELSE @ \ {f}])

ask_question(cab, text) ==
    ShowBottom([cab EXCEPT !.flags = @ \cup {"ASK_QUESTION"}], <<"MESSAGE", text>>)
user_message(cab, text) == ShowBottom(cab, <<"MESSAGE", text>>)

(* Three digits of the number are left: the last of four is overwritten. *)
ShowThreeDigits(cab) ==
    Show(cab, "TOPLEFT", <<"LOC", IF cab.loco > 999 THEN cab.loco \div 10 ELSE cab.loco>>)

reset(cab) == ShowThreeDigits(ShowFunctions(ShowSpeed(cab)))

-------------------------------------------------------------------------------
(* Keys. *)

Escape(cab) ==
    IF cab.flags = {} THEN cab
    ELSE [reset(cab) EXCEPT !.cursor = "DISABLE", !.dirty = Quarter, !.flags = {}]

OpenLoco(cab) ==
    ShowBottom([cab EXCEPT !.number = 0, !.flags = @ \cup {"SELECTING_LOCO"}, !.cursor = "MOVE"],
               <<"ENTER LOCO">>)

AddDigit(cab, key) == [cab EXCEPT !.number = (10 * @ + Digit(key)) % 65536]

LocoEntered(cab) ==
    [reset(cab) EXCEPT !.command = IF cab.number = 0 THEN UnselectLoco ELSE SelLoco(cab.number),
                       !.flags = @ \ {"SELECTING_LOCO"},
                       !.cursor = "DISABLE"]

(* Every other key is ignored. *)
InLoco(cab, key) ==
    IF key \in Digits THEN AddDigit(cab, key)
    ELSE IF key = ENTER THEN LocoEntered(cab)
    ELSE cab

(* Mutation: the number that was entered before is still there. *)
OpenAccyKeepingNumber(cab) ==
    Show(ShowBottom([cab EXCEPT !.flags = @ \cup {"SELECTING_ACCY"}, !.cursor = "MOVE"],
                    <<"ACC NUMBER">>),
         "TOPLEFT", <<"CONTROL">>)

OpenAccy(cab) ==
    Show(ShowBottom([cab EXCEPT !.number = 0, !.flags = @ \cup {"SELECTING_ACCY"}, !.cursor = "MOVE"],
                    <<"ACC NUMBER">>),
         "TOPLEFT", <<"CONTROL">>)

AccyEntered(cab) ==
    Show(ShowBottom([cab EXCEPT !.flags = (@ \ {"SELECTING_ACCY"}) \cup {"SELECTING_ACCY_DIR"},
                                !.cursor = "DISABLE"],
                    <<"1=N(ON) 2=R(OFF)">>),
         "TOPLEFT", <<"ACC", cab.number>>)

InAccy(cab, key) ==
    IF key \in Digits THEN AddDigit(cab, key)
    ELSE IF key = ENTER THEN AccyEntered(cab)
    ELSE cab

InAccyDir(cab, key) ==
    IF key \in Digits /\ Digit(key) \in {1, 2}
    THEN reset([cab EXCEPT !.flags = @ \ {"SELECTING_ACCY_DIR"},
                           !.command = Switch(cab.number, Digit(key) = 1)])
    ELSE cab

Toggle(cab, f) == [cab EXCEPT !.command = Function(f, f \notin cab.functions)]

press_number_key(cab, key) ==
    IF "ASK_QUESTION" \in cab.flags /\ Digit(key) \in {0, 1}
    THEN [reset([cab EXCEPT !.flags = @ \ {"ASK_QUESTION"}])
            EXCEPT !.command = Response(Digit(key) = 1)]
    ELSE Toggle(cab, Digit(key))

(* By how much a key changes the speed. *)
SpeedChange(key) ==
    IF key = STEP_FASTER_KEY THEN 1
    ELSE IF key = STEP_SLOWER_KEY THEN -1
    ELSE IF key = SPEED_INC_FAST_KEY THEN FastStep
    ELSE IF key = SPEED_DEC_FAST_KEY THEN -FastStep
    ELSE 0

(* Mutation: no speed is the greatest. *)
handle_speedUnlimited(cab, key) ==
    IF SpeedChange(key) = 0 THEN cab
    ELSE [cab EXCEPT !.command = Speed(cab.speed + SpeedChange(key))]

handle_speed(cab, key) ==
    LET d == SpeedChange(key)
        v == cab.speed + d
    IN  IF (d > 0 /\ cab.speed # TopSpeed) \/ (d < 0 /\ cab.speed # 0)
        THEN [cab EXCEPT !.command = Speed(IF v > TopSpeed THEN TopSpeed ELSE IF v < 0 THEN 0 ELSE v)]
        ELSE cab

OtherKey(cab, key) ==
    IF key = REPEAT_SCREEN THEN [cab EXCEPT !.dirty = Quarter, !.flags = {}]
    ELSE IF key = ENTER THEN reset(cab)
    ELSE IF key = DIRECTION_KEY THEN [cab EXCEPT !.command = Direction(~cab.forward)]
    ELSE IF key = ESTOP_KEY THEN [cab EXCEPT !.command = Estop]
    ELSE IF key = HORN_KEY THEN [cab EXCEPT !.command = Function(2, TRUE)]
    ELSE IF key = HORN_KEY_RELEASE THEN [cab EXCEPT !.command = Function(2, FALSE)]
    ELSE IF key = BELL_KEY THEN Toggle(cab, 1)
    ELSE cab

(* The menus take a key in this order; a key that a menu ignores is not passed on. *)
(* Before the cursor has moved to the place for the number, the keys still act.    *)
process_button_press(cab, key) ==
    IF key = PROGRAM_KEY THEN Escape(cab)
    ELSE IF key = SELECT_LOCO_KEY THEN OpenLoco(cab)
    ELSE IF "SELECTING_LOCO" \in cab.flags /\ cab.cursor # "MOVE" THEN InLoco(cab, key)
    ELSE LET c == handle_speed(cab, key)
         IN  IF "SELECTING_ACCY" \in c.flags THEN InAccy(c, key)
             ELSE IF key = SEL_ACCY_KEY THEN OpenAccy(c)
             ELSE IF "SELECTING_ACCY_DIR" \in c.flags THEN InAccyDir(c, key)
             ELSE IF key \in Digits THEN press_number_key(c, key)
             ELSE OtherKey(c, key)

(* The bits of dirty_screens that output_dirty_screens would send next: one quarter. *)
FirstDirty(cab) ==
    CHOOSE i \in 1..4 : Quarters[i] \in cab.dirty /\ \A j \in 1..(i - 1) : Quarters[j] \notin cab.dirty

(* output_dirty_screens: one quarter at a time, and the cursor when all are clean. *)
output_dirty_screens(cab) ==
    IF cab.dirty # {} THEN [cab EXCEPT !.dirty = @ \ {Quarters[FirstDirty(cab)]}]
    ELSE [cab EXCEPT !.cursor = IF @ = "MOVE" THEN "ENABLE" ELSE "NONE"]
=============================================================================
