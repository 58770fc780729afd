----------------------------- MODULE CabBusProof -----------------------------
(* The master of the CabBus: its types, whose bytes it takes for an answer, what *)
(* the screens of cabs show, and the switch numbers that are entered.            *)
EXTENDS CabBus, WellFoundedInduction, TLAPS

(***************************************************************************)
(* The cab: records, and what the functions of cabbus_cab.c do to them.    *)
(***************************************************************************)

\* The sets of cabs, with the set of values of each field as a parameter: the
\* provers decide whether an update stays in it when they need not look into them.
CabOf(Sp, Fw, Lo, Fn, Fl, Di, Cu, Nu, Co, Ro) ==
  [speed : Sp, forward : Fw, loco : Lo, functions : Fn, flags : Fl, dirty : Di,
   cursor : Cu, number : Nu, command : Co, rows : Ro]

\* Updates of a cab stay among the cabs.
LEMMA CabUpdates ==
  ASSUME NEW Sp, NEW Fw, NEW Lo, NEW Fn, NEW Fl, NEW Di, NEW Cu, NEW Nu, NEW Co, NEW Ro,
         NEW c \in CabOf(Sp, Fw, Lo, Fn, Fl, Di, Cu, Nu, Co, Ro)
  PROVE  /\ \A d \in Di, r \in Ro :
              [c EXCEPT !.rows = r, !.dirty = d] \in CabOf(Sp, Fw, Lo, Fn, Fl, Di, Cu, Nu, Co, Ro)
         /\ \A v \in Sp : [c EXCEPT !.speed = v] \in CabOf(Sp, Fw, Lo, Fn, Fl, Di, Cu, Nu, Co, Ro)
         /\ \A v \in Fw : [c EXCEPT !.forward = v] \in CabOf(Sp, Fw, Lo, Fn, Fl, Di, Cu, Nu, Co, Ro)
         /\ \A v \in Lo : [c EXCEPT !.loco = v] \in CabOf(Sp, Fw, Lo, Fn, Fl, Di, Cu, Nu, Co, Ro)
         /\ \A v \in Fn : [c EXCEPT !.functions = v] \in CabOf(Sp, Fw, Lo, Fn, Fl, Di, Cu, Nu, Co, Ro)
         /\ \A v \in Nu : [c EXCEPT !.number = v] \in CabOf(Sp, Fw, Lo, Fn, Fl, Di, Cu, Nu, Co, Ro)
         /\ \A v \in Co : [c EXCEPT !.command = v] \in CabOf(Sp, Fw, Lo, Fn, Fl, Di, Cu, Nu, Co, Ro)
         /\ \A v \in Di : [c EXCEPT !.dirty = v] \in CabOf(Sp, Fw, Lo, Fn, Fl, Di, Cu, Nu, Co, Ro)
         /\ \A v \in Cu : [c EXCEPT !.cursor = v] \in CabOf(Sp, Fw, Lo, Fn, Fl, Di, Cu, Nu, Co, Ro)
         /\ \A v \in Fl : [c EXCEPT !.flags = v] \in CabOf(Sp, Fw, Lo, Fn, Fl, Di, Cu, Nu, Co, Ro)
         /\ \A u \in Cu, d \in Di, f \in Fl :
              [c EXCEPT !.cursor = u, !.dirty = d, !.flags = f]
                \in CabOf(Sp, Fw, Lo, Fn, Fl, Di, Cu, Nu, Co, Ro)
         /\ \A n \in Nu, f \in Fl, u \in Cu :
              [c EXCEPT !.number = n, !.flags = f, !.cursor = u]
                \in CabOf(Sp, Fw, Lo, Fn, Fl, Di, Cu, Nu, Co, Ro)
         /\ \A k \in Co, f \in Fl, u \in Cu :
              [c EXCEPT !.command = k, !.flags = f, !.cursor = u]
                \in CabOf(Sp, Fw, Lo, Fn, Fl, Di, Cu, Nu, Co, Ro)
         /\ \A f \in Fl, u \in Cu :
              [c EXCEPT !.flags = f, !.cursor = u] \in CabOf(Sp, Fw, Lo, Fn, Fl, Di, Cu, Nu, Co, Ro)
         /\ \A f \in Fl, k \in Co :
              [c EXCEPT !.flags = f, !.command = k] \in CabOf(Sp, Fw, Lo, Fn, Fl, Di, Cu, Nu, Co, Ro)
         /\ \A d \in Di, f \in Fl :
              [c EXCEPT !.dirty = d, !.flags = f] \in CabOf(Sp, Fw, Lo, Fn, Fl, Di, Cu, Nu, Co, Ro)
  BY DEF CabOf

\* The values of the fields of a cab, by names that the provers need not expand.
Speeds == 0..TopSpeed
Locos == 0..9999
FunctionSets == SUBSET (0..9)
FlagSets == SUBSET Flags
QuarterSets == SUBSET Quarter
Rows == [Part -> Row]

LEMMA CabTypeIs ==
  CabType = CabOf(Speeds, BOOLEAN, Locos, FunctionSets, FlagSets, QuarterSets, Cursors, Word,
                  Commands, Rows)
  BY DEF CabType, CabOf, Speeds, Locos, FunctionSets, FlagSets, QuarterSets, Rows

LEMMA CabFields ==
  ASSUME NEW c \in CabType
  PROVE  /\ c.speed \in Speeds /\ c.forward \in BOOLEAN /\ c.loco \in Locos
         /\ c.functions \in FunctionSets /\ c.flags \in FlagSets /\ c.dirty \in QuarterSets
         /\ c.cursor \in Cursors /\ c.number \in Word /\ c.command \in Commands
         /\ c.rows \in Rows
  BY CabTypeIs DEF CabOf

\* Updates of the cabs of CabBus.
LEMMA CabUpdated ==
  ASSUME NEW c \in CabType
  PROVE  /\ \A d \in QuarterSets, r \in Rows : [c EXCEPT !.rows = r, !.dirty = d] \in CabType
         /\ \A v \in Speeds : [c EXCEPT !.speed = v] \in CabType
         /\ \A v \in BOOLEAN : [c EXCEPT !.forward = v] \in CabType
         /\ \A v \in Locos : [c EXCEPT !.loco = v] \in CabType
         /\ \A v \in FunctionSets : [c EXCEPT !.functions = v] \in CabType
         /\ \A v \in Word : [c EXCEPT !.number = v] \in CabType
         /\ \A v \in Commands : [c EXCEPT !.command = v] \in CabType
         /\ \A v \in QuarterSets : [c EXCEPT !.dirty = v] \in CabType
         /\ \A v \in Cursors : [c EXCEPT !.cursor = v] \in CabType
         /\ \A v \in FlagSets : [c EXCEPT !.flags = v] \in CabType
         /\ \A u \in Cursors, d \in QuarterSets, f \in FlagSets :
              [c EXCEPT !.cursor = u, !.dirty = d, !.flags = f] \in CabType
         /\ \A n \in Word, f \in FlagSets, u \in Cursors :
              [c EXCEPT !.number = n, !.flags = f, !.cursor = u] \in CabType
         /\ \A k \in Commands, f \in FlagSets, u \in Cursors :
              [c EXCEPT !.command = k, !.flags = f, !.cursor = u] \in CabType
         /\ \A f \in FlagSets, u \in Cursors : [c EXCEPT !.flags = f, !.cursor = u] \in CabType
         /\ \A f \in FlagSets, k \in Commands : [c EXCEPT !.flags = f, !.command = k] \in CabType
         /\ \A d \in QuarterSets, f \in FlagSets : [c EXCEPT !.dirty = d, !.flags = f] \in CabType
<1>1. c \in CabOf(Speeds, BOOLEAN, Locos, FunctionSets, FlagSets, QuarterSets, Cursors, Word,
                  Commands, Rows)
  BY CabTypeIs
<1> QED BY ONLY <1>1, CabTypeIs, CabUpdates

Texted == {<<"BLANK">>, <<"ENTER LOCO">>, <<"CONTROL">>, <<"ACC NUMBER">>, <<"1=N(ON) 2=R(OFF)">>}
Shown7 == SUBSET (0..6)
Times == 0..1

LEMMA PairIs ==
  ASSUME NEW s, NEW S, NEW v \in S
  PROVE  <<s, v>> \in {s} \X S
  OBVIOUS

LEMMA RowIs ==
  /\ \A b \in BOOLEAN, v \in Speeds : <<"SPEED", b, v>> \in Row
  /\ \A f \in Shown7 : <<"FUNCTIONS", f>> \in Row
  /\ \A n \in Locos : <<"LOC", n>> \in Row
  /\ \A n \in Word : <<"ACC", n>> \in Row
  /\ \A t \in Times : <<"TIME", t>> \in Row
  /\ \A t \in Texts : <<"MESSAGE", t>> \in Row
  /\ Texted \subseteq Row
<1> DEFINE R1 == {"SPEED"} \X BOOLEAN \X Speeds
           R2 == {"FUNCTIONS"} \X Shown7
           R3 == {"LOC"} \X Locos
           R4 == {"ACC"} \X Word
           R5 == {"TIME"} \X Times
           R6 == {"MESSAGE"} \X Texts
<1>1. Row = R1 \cup R2 \cup R3 \cup R4 \cup R5 \cup R6 \cup Texted
  BY DEF Row, Speeds, Shown7, Locos, Times, Texted
<1>2. \A b \in BOOLEAN, v \in Speeds : <<"SPEED", b, v>> \in R1
  OBVIOUS
<1>3. /\ \A f \in Shown7 : <<"FUNCTIONS", f>> \in R2
      /\ \A n \in Locos : <<"LOC", n>> \in R3
      /\ \A n \in Word : <<"ACC", n>> \in R4
      /\ \A t \in Times : <<"TIME", t>> \in R5
      /\ \A t \in Texts : <<"MESSAGE", t>> \in R6
  OBVIOUS
<1> HIDE DEF R1, R2, R3, R4, R5, R6
<1> QED BY <1>1, <1>2, <1>3

LEMMA CommandIs ==
  /\ NoCommand \in Commands /\ UnselectLoco \in Commands /\ Estop \in Commands
  /\ \A n \in Word : n # 0 => SelLoco(n) \in Commands
  /\ \A v \in 0..TopSpeed : Speed(v) \in Commands
  /\ \A b \in BOOLEAN : Direction(b) \in Commands
  /\ \A f \in 0..9, b \in BOOLEAN : Function(f, b) \in Commands
  /\ \A n \in Word, b \in BOOLEAN : Switch(n, b) \in Commands
  /\ \A b \in BOOLEAN : Response(b) \in Commands
<1>1. NoCommand \in Commands /\ UnselectLoco \in Commands /\ Estop \in Commands
  BY DEF Commands
<1>2. \A n \in Word : n # 0 => SelLoco(n) \in Commands
  BY DEF Commands, SelLoco
<1>3. \A v \in 0..TopSpeed : Speed(v) \in Commands
  BY DEF Commands, Speed
<1>4. \A b \in BOOLEAN : Direction(b) \in Commands
  BY DEF Commands, Direction
<1>5. \A f \in 0..9, b \in BOOLEAN : Function(f, b) \in Commands
  BY DEF Commands, Function
<1>6. \A n \in Word, b \in BOOLEAN : Switch(n, b) \in Commands
  BY DEF Commands, Switch
<1>7. \A b \in BOOLEAN : Response(b) \in Commands
  BY DEF Commands, Response
<1> QED BY <1>1, <1>2, <1>3, <1>4, <1>5, <1>6, <1>7

\* Only a switch is a switch.
LEMMA OpIs ==
  /\ NoCommand.op # "SWITCH" /\ UnselectLoco.op # "SWITCH" /\ Estop.op # "SWITCH"
  /\ \A n : SelLoco(n).op # "SWITCH" /\ Speed(n).op # "SWITCH" /\ Direction(n).op # "SWITCH"
            /\ Response(n).op # "SWITCH"
  /\ \A n, b : Function(n, b).op # "SWITCH" /\ Switch(n, b).number = n
  BY DEF NoCommand, UnselectLoco, Estop, SelLoco, Speed, Direction, Response, Function, Switch

LEMMA QuarterIs ==
  Quarter = {"TOPLEFT", "BOTTOMLEFT", "TOPRIGHT", "BOTTOMRIGHT"}
  /\ Quarters[1] = "TOPLEFT" /\ Quarters[2] = "BOTTOMLEFT" /\ Quarters[3] = "TOPRIGHT"
  /\ Quarters[4] = "BOTTOMRIGHT"
<1>1. /\ Quarters[1] = "TOPLEFT" /\ Quarters[2] = "BOTTOMLEFT" /\ Quarters[3] = "TOPRIGHT"
      /\ Quarters[4] = "BOTTOMRIGHT"
  BY DEF Quarters
<1>2. 1..4 = {1, 2, 3, 4}
  OBVIOUS
<1> QED BY <1>1, <1>2 DEF Quarter

LEMMA PartIs ==
  /\ "NINTH" \notin Quarter /\ "NINTH" \in Part /\ Quarter \subseteq Part
  /\ Part = {"TOPLEFT", "BOTTOMLEFT", "TOPRIGHT", "BOTTOMRIGHT", "NINTH"}
  /\ \A q \in Quarter : PartsOf(q) \subseteq Part
  /\ \A q \in Quarter, p \in Quarter : p \in PartsOf(q) <=> p = q
  /\ \A q \in Quarter : "NINTH" \in PartsOf(q) <=> q = "BOTTOMRIGHT"
  BY QuarterIs DEF Part, PartsOf

LEMMA AgreesTwice ==
  ASSUME NEW a, NEW b, NEW c, NEW q, Agrees(a, b, q), Agrees(b, c, q)
  PROVE  Agrees(a, c, q)
  BY DEF Agrees

\* d shows on its screen what c shows, or is going to be sent, or has a blank where c
\* may have none.
Draws(c, d) ==
  /\ c.dirty \subseteq d.dirty
  /\ \A q \in Quarter \ d.dirty : Agrees(c.rows, d.rows, q)
\* All but the screen is the same.
SameKeys(c, d) ==
  /\ d.speed = c.speed /\ d.forward = c.forward /\ d.loco = c.loco /\ d.functions = c.functions
  /\ d.cursor = c.cursor /\ d.number = c.number /\ d.command = c.command /\ d.flags = c.flags
Redrawn(c, d) == d \in CabType /\ Draws(c, d) /\ SameKeys(c, d)

LEMMA DrawsTwice ==
  ASSUME NEW c, NEW d, NEW e, Draws(c, d), Draws(d, e)
  PROVE  Draws(c, e)
  BY DEF Draws, Agrees

LEMMA RedrawnTwice ==
  ASSUME NEW c, NEW d, NEW e, Redrawn(c, d), Redrawn(d, e)
  PROVE  Redrawn(c, e)
  BY DrawsTwice DEF Redrawn, SameKeys

LEMMA ShowRedraws ==
  ASSUME NEW c \in CabType, NEW q \in Quarter, NEW text \in Row
  PROVE  Redrawn(c, Show(c, q, text))
<1> DEFINE d == c.dirty \cup {q}
           r == [c.rows EXCEPT ![q] = text]
<1>1. d \in QuarterSets /\ r \in Rows
  BY CabFields, PartIs DEF QuarterSets, Rows
<1>2. Show(c, q, text) = [c EXCEPT !.rows = r, !.dirty = d]
  BY DEF Show
<1> HIDE DEF d, r
<1>3. Show(c, q, text) \in CabType
  <2>1. \A dd \in QuarterSets, rr \in Rows : [c EXCEPT !.rows = rr, !.dirty = dd] \in CabType
    BY CabUpdated
  <2>2. [c EXCEPT !.rows = r, !.dirty = d] \in CabType
    BY ONLY <1>1, <2>1
  <2> QED BY ONLY <1>2, <2>2
<1> USE DEF d, r
<1>4. SameKeys(c, Show(c, q, text))
  BY DEF Show, SameKeys, CabType
<1>5. /\ Show(c, q, text).dirty = c.dirty \cup {q}
      /\ Show(c, q, text).rows = [c.rows EXCEPT ![q] = text]
  BY DEF Show, CabType
<1>6. Draws(c, Show(c, q, text))
  <2>1. \A p \in Part \ {q} : [c.rows EXCEPT ![q] = text][p] = c.rows[p]
    BY CabFields DEF Rows
  <2>2. \A p \in Quarter \ (c.dirty \cup {q}) : Agrees(c.rows, [c.rows EXCEPT ![q] = text], p)
    BY <2>1, PartIs DEF Agrees
  <2> QED BY <1>5, <2>2 DEF Draws
<1> QED BY <1>3, <1>4, <1>6 DEF Redrawn

\* The ninth character is true if its quarter is going to be sent, or if it is blank.
LEMMA NinthRedraws ==
  ASSUME NEW c \in CabType, NEW text \in Row, "BOTTOMRIGHT" \in c.dirty \/ text = <<"BLANK">>
  PROVE  Redrawn(c, SetNinth(c, text))
<1> DEFINE r == [c.rows EXCEPT !["NINTH"] = text]
           d == [c EXCEPT !.rows = r]
<1>1. r \in Rows /\ c.dirty \in QuarterSets
  BY CabFields, PartIs DEF Rows
<1>2. SetNinth(c, text) = d
  BY DEF SetNinth
<1> HIDE DEF r
<1>3. d = [c EXCEPT !.rows = r, !.dirty = c.dirty]
  <2>1. c \in CabOf(Speeds, BOOLEAN, Locos, FunctionSets, FlagSets, QuarterSets, Cursors, Word,
                    Commands, Rows)
    BY CabTypeIs
  <2> QED BY ONLY <2>1 DEF CabOf
<1>4. d \in CabType
  <2>1. \A dd \in QuarterSets, rr \in Rows : [c EXCEPT !.rows = rr, !.dirty = dd] \in CabType
    BY CabUpdated
  <2> QED BY ONLY <1>1, <1>3, <2>1
<1>5. d.dirty = c.dirty /\ d.rows = r /\ SameKeys(c, d)
  BY DEF CabType, SameKeys
<1>6. \A q \in Quarter \ c.dirty : Agrees(c.rows, r, q)
  <2>1. \A q \in Quarter : r[q] = c.rows[q]
    BY CabFields, PartIs DEF r, Rows
  <2>2. r["NINTH"] = text
    BY CabFields, PartIs DEF r, Rows
  <2> QED BY <2>1, <2>2 DEF Agrees
<1> QED BY <1>2, <1>4, <1>5, <1>6 DEF Redrawn, Draws

LEMMA BlankIsRow == <<"BLANK">> \in Row
  BY RowIs DEF Texted

LEMMA RowsRedraw ==
  ASSUME NEW c \in CabType
  PROVE  /\ Redrawn(c, ShowSpeed(c)) /\ Redrawn(c, ShowFunctions(c)) /\ Redrawn(c, ShowLoco(c))
         /\ Redrawn(c, ShowThreeDigits(c))
         /\ \A text \in Row : Redrawn(c, ShowBottom(c, text))
         /\ Redrawn(c, reset(c))
<1>1. \A d \in CabType : /\ Redrawn(d, ShowSpeed(d)) /\ Redrawn(d, ShowFunctions(d))
                         /\ Redrawn(d, ShowLoco(d)) /\ Redrawn(d, ShowThreeDigits(d))
  <2> SUFFICES ASSUME NEW d \in CabType
               PROVE  /\ Redrawn(d, ShowSpeed(d)) /\ Redrawn(d, ShowFunctions(d))
                      /\ Redrawn(d, ShowLoco(d)) /\ Redrawn(d, ShowThreeDigits(d))
    OBVIOUS
  <2> DEFINE n == IF d.loco > 999 THEN d.loco \div 10 ELSE d.loco
  <2>1. /\ <<"SPEED", d.forward, d.speed>> \in Row /\ <<"FUNCTIONS", d.functions \cap 0..6>> \in Row
        /\ <<"LOC", d.loco>> \in Row /\ <<"LOC", n>> \in Row
    <3>1. d.forward \in BOOLEAN /\ d.speed \in Speeds /\ d.loco \in Locos
      BY CabFields
    <3>2. d.functions \cap 0..6 \in Shown7
      BY DEF Shown7
    <3>3. n \in Locos
      <4> DEFINE m == d.loco
      <4>1. m \in 0..9999
        BY <3>1 DEF Locos
      <4> HIDE DEF m
      <4>2. (IF m > 999 THEN m \div 10 ELSE m) \in 0..9999
        BY ONLY <4>1
      <4> QED BY <4>2 DEF m, Locos
    <3> HIDE DEF n
    <3> QED BY <3>1, <3>2, <3>3, RowIs
  <2>2. Redrawn(d, ShowSpeed(d))
    <3> DEFINE e == Show(d, "BOTTOMLEFT", <<"SPEED", d.forward, d.speed>>)
    <3>1. Redrawn(d, e) /\ ShowSpeed(d) = SetNinth(e, <<"BLANK">>)
      BY <2>1, ShowRedraws, QuarterIs DEF ShowSpeed
    <3> HIDE DEF e
    <3> QED BY <3>1, NinthRedraws, BlankIsRow, RedrawnTwice DEF Redrawn
  <2>3. ShowThreeDigits(d) = Show(d, "TOPLEFT", <<"LOC", n>>)
    BY DEF ShowThreeDigits
  <2> HIDE DEF n
  <2> QED BY <2>1, <2>2, <2>3, ShowRedraws, QuarterIs DEF ShowFunctions, ShowLoco
<1>2. \A text \in Row : Redrawn(c, ShowBottom(c, text))
  <2> TAKE text \in Row
  <2>1. Redrawn(c, Show(c, "BOTTOMLEFT", text))
    BY ShowRedraws, QuarterIs
  <2> DEFINE d == Show(c, "BOTTOMLEFT", text)
             e == Show(d, "BOTTOMRIGHT", text)
  <2>2. Redrawn(d, e) /\ d \in CabType
    BY <2>1, ShowRedraws, QuarterIs DEF Redrawn
  <2>3. "BOTTOMRIGHT" \in e.dirty
    <3> HIDE DEF d
    <3> QED BY <2>2 DEF Show, CabType
  <2>4. ShowBottom(c, text) = SetNinth(e, text)
    BY DEF ShowBottom
  <2> HIDE DEF d, e
  <2>5. Redrawn(e, SetNinth(e, text))
    BY <2>2, <2>3, NinthRedraws DEF Redrawn
  <2> QED BY <2>1, <2>2, <2>4, <2>5, RedrawnTwice DEF d
<1>3. Redrawn(c, reset(c))
  <2>1. Redrawn(c, ShowSpeed(c)) /\ ShowSpeed(c) \in CabType
    BY <1>1 DEF Redrawn
  <2>2. Redrawn(c, ShowFunctions(ShowSpeed(c))) /\ ShowFunctions(ShowSpeed(c)) \in CabType
    BY <1>1, <2>1, RedrawnTwice DEF Redrawn
  <2> QED BY <1>1, <2>2, RedrawnTwice DEF reset
<1> QED BY <1>1, <1>2, <1>3

\* What a key makes of cab c: its flags, its number and its command, and a screen
\* that is as true as it was.
Becomes(c, d, flags, number, command) ==
  /\ d \in CabType /\ Draws(c, d)
  /\ d.flags = flags /\ d.number = number /\ d.command = command

LEMMA FlagsAre ==
  ASSUME NEW f \in FlagSets
  PROVE  /\ \A g \in Flags : f \cup {g} \in FlagSets /\ f \ {g} \in FlagSets
         /\ \A g, h \in Flags : (f \ {g}) \cup {h} \in FlagSets
         /\ {} \in FlagSets
  BY DEF FlagSets

LEMMA OpenLocoIs ==
  ASSUME NEW c \in CabType
  PROVE  Becomes(c, OpenLoco(c), c.flags \cup {"SELECTING_LOCO"}, 0, c.command)
<1> DEFINE f == c.flags \cup {"SELECTING_LOCO"}
           d == [c EXCEPT !.number = 0, !.flags = f, !.cursor = "MOVE"]
<1>1. f \in FlagSets /\ 0 \in Word /\ "MOVE" \in Cursors
  <2>1. f \in FlagSets
    BY CabFields, FlagsAre DEF Flags
  <2> QED BY ONLY <2>1 DEF Word, Cursors
<1>2. d \in CabType
  <2> HIDE DEF f
  <2>1. \A n \in Word, g \in FlagSets, u \in Cursors :
          [c EXCEPT !.number = n, !.flags = g, !.cursor = u] \in CabType
    BY CabUpdated
  <2> QED BY ONLY <1>1, <2>1
<1>3. d.flags = f /\ d.number = 0 /\ d.command = c.command /\ d.dirty = c.dirty /\ d.rows = c.rows
  BY DEF CabType
<1>4. OpenLoco(c) = ShowBottom(d, <<"ENTER LOCO">>)
  BY DEF OpenLoco
<1> HIDE DEF d, f
<1>5. Redrawn(d, OpenLoco(c))
  BY <1>2, <1>4, RowsRedraw, RowIs DEF Texted
<1> QED BY <1>3, <1>5 DEF Becomes, Redrawn, SameKeys, Draws, f

LEMMA OpenAccyIs ==
  ASSUME NEW c \in CabType
  PROVE  Becomes(c, OpenAccy(c), c.flags \cup {"SELECTING_ACCY"}, 0, c.command)
<1> DEFINE f == c.flags \cup {"SELECTING_ACCY"}
           d == [c EXCEPT !.number = 0, !.flags = f, !.cursor = "MOVE"]
           e == ShowBottom(d, <<"ACC NUMBER">>)
<1>1. f \in FlagSets /\ 0 \in Word /\ "MOVE" \in Cursors
  <2>1. f \in FlagSets
    BY CabFields, FlagsAre DEF Flags
  <2> QED BY ONLY <2>1 DEF Word, Cursors
<1>2. d \in CabType
  <2> HIDE DEF f
  <2>1. \A n \in Word, g \in FlagSets, u \in Cursors :
          [c EXCEPT !.number = n, !.flags = g, !.cursor = u] \in CabType
    BY CabUpdated
  <2> QED BY ONLY <1>1, <2>1
<1>3. d.flags = f /\ d.number = 0 /\ d.command = c.command /\ d.dirty = c.dirty /\ d.rows = c.rows
  BY DEF CabType
<1>4. OpenAccy(c) = Show(e, "TOPLEFT", <<"CONTROL">>)
  BY DEF OpenAccy
<1> HIDE DEF d, f
<1>5. Redrawn(d, e)
  BY <1>2, RowsRedraw, RowIs DEF Texted
<1> HIDE DEF e
<1>6. Redrawn(e, OpenAccy(c))
  BY <1>4, <1>5, ShowRedraws, QuarterIs, RowIs DEF Texted, Redrawn
<1> QED BY <1>3, <1>5, <1>6, RedrawnTwice DEF Becomes, Redrawn, SameKeys, Draws, f

LEMMA AccyEnteredIs ==
  ASSUME NEW c \in CabType
  PROVE  Becomes(c, AccyEntered(c), (c.flags \ {"SELECTING_ACCY"}) \cup {"SELECTING_ACCY_DIR"},
                 c.number, c.command)
<1> DEFINE f == (c.flags \ {"SELECTING_ACCY"}) \cup {"SELECTING_ACCY_DIR"}
           d == [c EXCEPT !.flags = f, !.cursor = "DISABLE"]
           e == ShowBottom(d, <<"1=N(ON) 2=R(OFF)">>)
<1>1. f \in FlagSets /\ "DISABLE" \in Cursors
  BY CabFields, FlagsAre DEF Flags, Cursors
<1>2. d \in CabType
  <2> HIDE DEF f
  <2>1. \A g \in FlagSets, u \in Cursors : [c EXCEPT !.flags = g, !.cursor = u] \in CabType
    BY CabUpdated
  <2> QED BY ONLY <1>1, <2>1
<1>3. d.flags = f /\ d.number = c.number /\ d.command = c.command /\ d.dirty = c.dirty /\ d.rows = c.rows
  BY DEF CabType
<1>4. AccyEntered(c) = Show(e, "TOPLEFT", <<"ACC", c.number>>)
  BY DEF AccyEntered
<1>5. <<"ACC", c.number>> \in Row
  BY CabFields, RowIs
<1> HIDE DEF d, f
<1>6. Redrawn(d, e)
  BY <1>2, RowsRedraw, RowIs DEF Texted
<1> HIDE DEF e
<1>7. Redrawn(e, AccyEntered(c))
  BY <1>4, <1>5, <1>6, ShowRedraws, QuarterIs DEF Redrawn
<1> QED BY <1>3, <1>6, <1>7, RedrawnTwice DEF Becomes, Redrawn, SameKeys, Draws, f

LEMMA EscapeIs ==
  ASSUME NEW c \in CabType
  PROVE  Becomes(c, Escape(c), {}, c.number, c.command)
<1> DEFINE r == reset(c)
           d == [r EXCEPT !.cursor = "DISABLE", !.dirty = Quarter, !.flags = {}]
<1>1. Redrawn(c, r)
  BY RowsRedraw
<1>2. CASE c.flags = {}
  BY <1>2 DEF Escape, Becomes, Draws, Agrees
<1>3. CASE c.flags # {}
  <2>1. Escape(c) = d
    BY <1>3 DEF Escape
  <2> HIDE DEF r
  <2>2. r \in CabType
    BY <1>1 DEF Redrawn
  <2>3. d \in CabType
    <3>1. \A u \in Cursors, g \in QuarterSets, f \in FlagSets :
            [r EXCEPT !.cursor = u, !.dirty = g, !.flags = f] \in CabType
      BY <2>2, CabUpdated
    <3>2. "DISABLE" \in Cursors /\ Quarter \in QuarterSets /\ {} \in FlagSets
      BY DEF Cursors, QuarterSets, FlagSets
    <3> QED BY ONLY <3>1, <3>2
  <2>4. d.flags = {} /\ d.number = r.number /\ d.command = r.command /\ d.dirty = Quarter
    BY <2>2 DEF CabType
  <2>5. c.dirty \subseteq Quarter
    BY CabFields DEF QuarterSets
  <2> QED BY <1>1, <2>1, <2>3, <2>4, <2>5 DEF Becomes, Redrawn, SameKeys, Draws
<1> QED BY <1>2, <1>3

LEMMA WordIs ==
  ASSUME NEW n \in Nat
  PROVE  n % 65536 \in Word
  BY SMTT(30) DEF Word

LEMMA DigitAdded ==
  ASSUME NEW n \in Word, NEW d \in Nat
  PROVE  (10 * n + d) % 65536 \in Word
<1>1. n \in Nat /\ d \in Nat
  BY SMTT(30) DEF Word
<1>2. 10 * n + d \in Nat
  BY ONLY <1>1
<1> QED BY ONLY <1>2, WordIs

LEMMA DigitsAre ==
  ASSUME NEW key \in Digits
  PROVE  Digit(key) \in 0..9
  BY DEF Digits, Digit

LEMMA AddDigitIs ==
  ASSUME NEW c \in CabType, NEW key \in Digits
  PROVE  Becomes(c, AddDigit(c, key), c.flags, (10 * c.number + Digit(key)) % 65536, c.command)
<1> DEFINE n == (10 * c.number + Digit(key)) % 65536
           d == [c EXCEPT !.number = n]
<1>1. n \in Word
  <2>1. c.number \in Word /\ Digit(key) \in 0..9
    BY CabFields, DigitsAre
  <2> DEFINE m == c.number
             g == Digit(key)
  <2>2. m \in Word /\ g \in Nat
    BY <2>1
  <2> HIDE DEF m, g
  <2>3. (10 * m + g) % 65536 \in Word
    BY ONLY <2>2, DigitAdded
  <2> QED BY ONLY <2>3 DEF m, g
<1>2. AddDigit(c, key) = d
  BY DEF AddDigit
<1> HIDE DEF n
<1>3. d \in CabType
  <2>1. \A v \in Word : [c EXCEPT !.number = v] \in CabType
    BY CabUpdated
  <2> QED BY ONLY <1>1, <2>1
<1>4. d.flags = c.flags /\ d.number = n /\ d.command = c.command /\ d.dirty = c.dirty /\ d.rows = c.rows
  BY DEF CabType
<1> QED BY <1>2, <1>3, <1>4 DEF Becomes, Draws, Agrees, n

LEMMA LocoEnteredIs ==
  ASSUME NEW c \in CabType
  PROVE  Becomes(c, LocoEntered(c), c.flags \ {"SELECTING_LOCO"}, c.number,
                 IF c.number = 0 THEN UnselectLoco ELSE SelLoco(c.number))
<1> DEFINE r == reset(c)
           k == IF c.number = 0 THEN UnselectLoco ELSE SelLoco(c.number)
           f == r.flags \ {"SELECTING_LOCO"}
           d == [r EXCEPT !.command = k, !.flags = f, !.cursor = "DISABLE"]
<1>1. Redrawn(c, r) /\ r \in CabType
  BY RowsRedraw DEF Redrawn
<1>2. LocoEntered(c) = d
  BY DEF LocoEntered
<1>3. k \in Commands
  BY CommandIs, CabFields
<1> HIDE DEF r, k
<1>4. f \in FlagSets /\ "DISABLE" \in Cursors
  BY <1>1, CabFields, FlagsAre DEF Flags, Cursors
<1>5. d \in CabType
  <2> HIDE DEF f
  <2>1. \A x \in Commands, g \in FlagSets, u \in Cursors :
          [r EXCEPT !.command = x, !.flags = g, !.cursor = u] \in CabType
    BY <1>1, CabUpdated
  <2> QED BY ONLY <1>3, <1>4, <2>1
<1>6. d.flags = f /\ d.number = r.number /\ d.command = k /\ d.dirty = r.dirty /\ d.rows = r.rows
  BY SMTT(30), <1>1 DEF CabType
<1> QED BY <1>1, <1>2, <1>5, <1>6 DEF Becomes, Redrawn, SameKeys, Draws, k

LEMMA CommandSet ==
  ASSUME NEW c \in CabType, NEW k \in Commands
  PROVE  Becomes(c, [c EXCEPT !.command = k], c.flags, c.number, k)
<1> DEFINE d == [c EXCEPT !.command = k]
<1>1. d \in CabType
  <2>1. \A x \in Commands : [c EXCEPT !.command = x] \in CabType
    BY CabUpdated
  <2> QED BY ONLY <2>1, k \in Commands
<1>2. d.flags = c.flags /\ d.number = c.number /\ d.command = k /\ d.dirty = c.dirty /\ d.rows = c.rows
  BY DEF CabType
<1> QED BY <1>1, <1>2 DEF Becomes, Draws, Agrees

LEMMA ResetIs ==
  ASSUME NEW c \in CabType
  PROVE  Becomes(c, reset(c), c.flags, c.number, c.command)
  BY RowsRedraw DEF Redrawn, SameKeys, Becomes

LEMMA BecomesTwice ==
  ASSUME NEW c, NEW d, NEW e, NEW f, NEW n, NEW k, NEW f2, NEW n2, NEW k2,
         Becomes(c, d, f, n, k), Becomes(d, e, f2, n2, k2)
  PROVE  Becomes(c, e, f2, n2, k2)
  BY DrawsTwice DEF Becomes

LEMMA FlagsCommandSet ==
  ASSUME NEW c \in CabType, NEW f \in FlagSets, NEW k \in Commands
  PROVE  Becomes(c, [c EXCEPT !.flags = f, !.command = k], f, c.number, k)
<1> DEFINE d == [c EXCEPT !.flags = f, !.command = k]
<1>1. d \in CabType
  <2>1. \A g \in FlagSets, x \in Commands : [c EXCEPT !.flags = g, !.command = x] \in CabType
    BY CabUpdated
  <2> QED BY ONLY <2>1, f \in FlagSets, k \in Commands
<1>2. d.flags = f /\ d.number = c.number /\ d.command = k /\ d.dirty = c.dirty /\ d.rows = c.rows
  BY DEF CabType
<1> QED BY <1>1, <1>2 DEF Becomes, Draws, Agrees

LEMMA FlagsSet ==
  ASSUME NEW c \in CabType, NEW f \in FlagSets
  PROVE  Becomes(c, [c EXCEPT !.flags = f], f, c.number, c.command)
<1> DEFINE d == [c EXCEPT !.flags = f]
<1>1. d \in CabType
  <2>1. \A g \in FlagSets : [c EXCEPT !.flags = g] \in CabType
    BY CabUpdated
  <2> QED BY ONLY <2>1, f \in FlagSets
<1>2. d.flags = f /\ d.number = c.number /\ d.command = c.command /\ d.dirty = c.dirty /\ d.rows = c.rows
  BY DEF CabType
<1> QED BY <1>1, <1>2 DEF Becomes, Draws, Agrees

LEMMA InAccyDirIs ==
  ASSUME NEW c \in CabType, NEW key
  PROVE  \/ InAccyDir(c, key) = c
         \/ \E b \in BOOLEAN :
              Becomes(c, InAccyDir(c, key), c.flags \ {"SELECTING_ACCY_DIR"}, c.number,
                      Switch(c.number, b))
<1> SUFFICES ASSUME key \in Digits, Digit(key) \in {1, 2}
             PROVE  \E b \in BOOLEAN :
                      Becomes(c, InAccyDir(c, key), c.flags \ {"SELECTING_ACCY_DIR"}, c.number,
                              Switch(c.number, b))
  BY DEF InAccyDir
<1> DEFINE f == c.flags \ {"SELECTING_ACCY_DIR"}
           b == Digit(key) = 1
           k == Switch(c.number, b)
           d == [c EXCEPT !.flags = f, !.command = k]
<1>1. f \in FlagSets
  BY CabFields, FlagsAre DEF Flags
<1>2. b \in BOOLEAN
  OBVIOUS
<1>3. k \in Commands
  <2> HIDE DEF b
  <2> QED BY <1>2, CabFields, CommandIs
<1>4. InAccyDir(c, key) = reset(d)
  BY DEF InAccyDir
<1> HIDE DEF f, b, k
<1>5. Becomes(c, d, f, c.number, k)
  BY <1>1, <1>3, FlagsCommandSet
<1> HIDE DEF d
<1>6. Becomes(d, reset(d), f, c.number, k)
  BY <1>5, ResetIs DEF Becomes
<1>7. Becomes(c, InAccyDir(c, key), f, c.number, Switch(c.number, b))
  BY <1>4, <1>5, <1>6, BecomesTwice DEF k
<1> QED BY <1>2, <1>7 DEF f

LEMMA ToggleIs ==
  ASSUME NEW c \in CabType, NEW g \in 0..9
  PROVE  Becomes(c, Toggle(c, g), c.flags, c.number, Function(g, g \notin c.functions))
<1>1. Function(g, g \notin c.functions) \in Commands
  BY CommandIs
<1> QED BY <1>1, CommandSet DEF Toggle

LEMMA PressNumberIs ==
  ASSUME NEW c \in CabType, NEW key \in Digits
  PROVE  \E k \in Commands, f \in {c.flags, c.flags \ {"ASK_QUESTION"}} :
            k.op # "SWITCH" /\ Becomes(c, press_number_key(c, key), f, c.number, k)
<1>1. CASE "ASK_QUESTION" \in c.flags /\ Digit(key) \in {0, 1}
  <2> DEFINE f == c.flags \ {"ASK_QUESTION"}
             d == [c EXCEPT !.flags = f]
             r == reset(d)
             k == Response(Digit(key) = 1)
  <2>1. f \in FlagSets
    BY CabFields, FlagsAre DEF Flags
  <2>2. k \in Commands /\ k.op # "SWITCH"
    <3>1. (Digit(key) = 1) \in BOOLEAN
      OBVIOUS
    <3> QED BY ONLY <3>1, CommandIs, OpIs
  <2>3. press_number_key(c, key) = [r EXCEPT !.command = k]
    BY <1>1 DEF press_number_key
  <2> HIDE DEF f, k
  <2>4. Becomes(c, d, f, c.number, c.command)
    BY <2>1, FlagsSet
  <2> HIDE DEF d
  <2>5. Becomes(d, r, f, c.number, c.command)
    BY <2>4, ResetIs DEF Becomes
  <2> HIDE DEF r
  <2>6. Becomes(r, press_number_key(c, key), f, c.number, k)
    BY <2>2, <2>3, <2>5, CommandSet DEF Becomes
  <2>7. Becomes(c, press_number_key(c, key), f, c.number, k)
    BY <2>4, <2>5, <2>6, BecomesTwice
  <2> QED BY <2>2, <2>7 DEF f
<1>2. CASE ~("ASK_QUESTION" \in c.flags /\ Digit(key) \in {0, 1})
  <2>1. press_number_key(c, key) = Toggle(c, Digit(key))
    BY <1>2 DEF press_number_key
  <2>2. Becomes(c, press_number_key(c, key), c.flags, c.number,
                Function(Digit(key), Digit(key) \notin c.functions))
    BY <2>1, DigitsAre, ToggleIs
  <2>3. /\ Function(Digit(key), Digit(key) \notin c.functions) \in Commands
        /\ Function(Digit(key), Digit(key) \notin c.functions).op # "SWITCH"
    BY DigitsAre, CommandIs, OpIs
  <2> QED BY <2>2, <2>3
<1> QED BY <1>1, <1>2

LEMMA HandleSpeedIs ==
  ASSUME NEW c \in CabType, NEW key, SpeedAssumption
  PROVE  \/ handle_speed(c, key) = c
         \/ \E v \in Speeds : Becomes(c, handle_speed(c, key), c.flags, c.number, Speed(v))
<1> DEFINE v == c.speed + SpeedChange(key)
           w == IF v > TopSpeed THEN TopSpeed ELSE IF v < 0 THEN 0 ELSE v
<1> SUFFICES ASSUME handle_speed(c, key) # c
             PROVE  \E x \in Speeds : Becomes(c, handle_speed(c, key), c.flags, c.number, Speed(x))
  OBVIOUS
<1>1. handle_speed(c, key) = [c EXCEPT !.command = Speed(w)]
  BY DEF handle_speed
<1>2. w \in Speeds
  <2>1. c.speed \in Int /\ SpeedChange(key) \in Int /\ TopSpeed \in Nat
    BY CabFields DEF SpeedAssumption, Speeds, SpeedChange
  <2> QED BY <2>1 DEF Speeds
<1> HIDE DEF w
<1>3. Speed(w) \in Commands
  BY <1>2, CommandIs DEF Speeds
<1> QED BY <1>1, <1>2, <1>3, CommandSet

LEMMA RepeatIs ==
  ASSUME NEW c \in CabType
  PROVE  Becomes(c, [c EXCEPT !.dirty = Quarter, !.flags = {}], {}, c.number, c.command)
<1> DEFINE d == [c EXCEPT !.dirty = Quarter, !.flags = {}]
<1>1. d \in CabType
  <2>1. \A g \in QuarterSets, f \in FlagSets : [c EXCEPT !.dirty = g, !.flags = f] \in CabType
    BY CabUpdated
  <2>2. Quarter \in QuarterSets /\ {} \in FlagSets
    BY DEF QuarterSets, FlagSets
  <2> QED BY ONLY <2>1, <2>2
<1>2. d.flags = {} /\ d.number = c.number /\ d.command = c.command /\ d.dirty = Quarter
  BY DEF CabType
<1>3. c.dirty \subseteq Quarter
  BY CabFields DEF QuarterSets
<1> QED BY <1>1, <1>2, <1>3 DEF Becomes, Draws

LEMMA OtherKeyIs ==
  ASSUME NEW c \in CabType, NEW key
  PROVE  \/ OtherKey(c, key) = c
         \/ \E f \in {c.flags, {}}, k \in Commands :
              /\ k.op # "SWITCH" \/ k = c.command
              /\ Becomes(c, OtherKey(c, key), f, c.number, k)
<1>1. CASE key = REPEAT_SCREEN
  <2>1. OtherKey(c, key) = [c EXCEPT !.dirty = Quarter, !.flags = {}]
    BY <1>1 DEF OtherKey
  <2> QED BY <2>1, RepeatIs, CabFields
<1>2. CASE key # REPEAT_SCREEN /\ key = ENTER
  <2>1. OtherKey(c, key) = reset(c)
    BY <1>2 DEF OtherKey
  <2> QED BY <2>1, ResetIs, CabFields
<1>3. CASE key \notin {REPEAT_SCREEN, ENTER} /\ key = BELL_KEY
  <2>1. OtherKey(c, key) = Toggle(c, 1)
    BY <1>3 DEF OtherKey, BELL_KEY, DIRECTION_KEY, ESTOP_KEY, HORN_KEY, HORN_KEY_RELEASE
  <2> DEFINE b == 1 \notin c.functions
             k == Function(1, b)
  <2>2. Becomes(c, OtherKey(c, key), c.flags, c.number, k)
    BY <2>1, ToggleIs
  <2>3. b \in BOOLEAN /\ 1 \in 0..9
    OBVIOUS
  <2> HIDE DEF b
  <2>4. k \in Commands /\ k.op # "SWITCH"
    BY <2>3, CommandIs, OpIs
  <2> HIDE DEF k
  <2> QED BY <2>2, <2>4
<1>4. CASE key \notin {REPEAT_SCREEN, ENTER, BELL_KEY}
  <2> DEFINE b == ~c.forward
  <2>1. \/ OtherKey(c, key) = c
        \/ \E k \in {Direction(b), Estop, Function(2, TRUE), Function(2, FALSE)} :
             OtherKey(c, key) = [c EXCEPT !.command = k]
    BY <1>4 DEF OtherKey
  <2>0. b \in BOOLEAN
    OBVIOUS
  <2> HIDE DEF b
  <2>2. \A k \in {Direction(b), Estop, Function(2, TRUE), Function(2, FALSE)} :
          k \in Commands /\ k.op # "SWITCH"
    <3>1. b \in BOOLEAN /\ TRUE \in BOOLEAN /\ FALSE \in BOOLEAN /\ 2 \in 0..9
      BY <2>0
    <3>2. Direction(b) \in Commands /\ Function(2, TRUE) \in Commands /\ Function(2, FALSE) \in Commands
      BY <3>1, CommandIs
    <3>3. /\ Direction(b).op # "SWITCH" /\ Function(2, TRUE).op # "SWITCH"
          /\ Function(2, FALSE).op # "SWITCH"
      BY OpIs
    <3>4. Estop \in Commands /\ Estop.op # "SWITCH"
      BY CommandIs, OpIs
    <3> QED BY ONLY <3>2, <3>3, <3>4
  <2> QED BY <2>1, <2>2, CommandSet
<1> QED BY <1>1, <1>2, <1>3, <1>4

\* What the master does when a key comes in, in the order of its menus.
LEMMA KeyCases ==
  ASSUME NEW c \in CabType, NEW key, SpeedAssumption
  PROVE  LET p == process_button_press(c, key)
             c1 == handle_speed(c, key)
         IN  \/ key = PROGRAM_KEY /\ p = Escape(c)
             \/ key = SELECT_LOCO_KEY /\ p = OpenLoco(c)
             \/ "SELECTING_LOCO" \in c.flags /\ p = InLoco(c, key)
             \/ "SELECTING_ACCY" \in c1.flags /\ p = InAccy(c1, key)
             \/ "SELECTING_ACCY" \notin c1.flags /\ key = SEL_ACCY_KEY /\ p = OpenAccy(c1)
             \/ /\ "SELECTING_ACCY" \notin c1.flags /\ "SELECTING_ACCY_DIR" \in c1.flags
                /\ key # SEL_ACCY_KEY /\ p = InAccyDir(c1, key)
             \/ /\ "SELECTING_ACCY" \notin c1.flags /\ "SELECTING_ACCY_DIR" \notin c1.flags
                /\ key # SEL_ACCY_KEY
                /\ (key \in Digits /\ p = press_number_key(c1, key)) \/ p = OtherKey(c1, key)
<1> DEFINE p == process_button_press(c, key)
           c1 == handle_speed(c, key)
<1>1. CASE key = PROGRAM_KEY
  BY <1>1, Zenon DEF process_button_press
<1>2. CASE key # PROGRAM_KEY /\ key = SELECT_LOCO_KEY
  BY <1>2, Zenon DEF process_button_press
<1>3. CASE key # PROGRAM_KEY /\ key # SELECT_LOCO_KEY
           /\ "SELECTING_LOCO" \in c.flags /\ c.cursor # "MOVE"
  BY <1>3, Zenon DEF process_button_press
<1>4. CASE key # PROGRAM_KEY /\ key # SELECT_LOCO_KEY
           /\ ~("SELECTING_LOCO" \in c.flags /\ c.cursor # "MOVE")
  <2>1. p = IF "SELECTING_ACCY" \in c1.flags THEN InAccy(c1, key)
            ELSE IF key = SEL_ACCY_KEY THEN OpenAccy(c1)
            ELSE IF "SELECTING_ACCY_DIR" \in c1.flags THEN InAccyDir(c1, key)
            ELSE IF key \in Digits THEN press_number_key(c1, key)
            ELSE OtherKey(c1, key)
    BY <1>4, Zenon DEF process_button_press
  <2> HIDE DEF p, c1
  <2>2. \/ "SELECTING_ACCY" \in c1.flags /\ p = InAccy(c1, key)
        \/ "SELECTING_ACCY" \notin c1.flags /\ key = SEL_ACCY_KEY /\ p = OpenAccy(c1)
        \/ /\ "SELECTING_ACCY" \notin c1.flags /\ "SELECTING_ACCY_DIR" \in c1.flags
           /\ key # SEL_ACCY_KEY /\ p = InAccyDir(c1, key)
        \/ /\ "SELECTING_ACCY" \notin c1.flags /\ "SELECTING_ACCY_DIR" \notin c1.flags
           /\ key # SEL_ACCY_KEY
           /\ (key \in Digits /\ p = press_number_key(c1, key)) \/ p = OtherKey(c1, key)
    BY <2>1
  <2> QED BY <2>2 DEF p, c1
<1> QED BY <1>1, <1>2, <1>3, <1>4

LEMMA InLocoIs ==
  ASSUME NEW c \in CabType, NEW key
  PROVE  \/ InLoco(c, key) = c
         \/ \E f \in {c.flags, c.flags \ {"SELECTING_LOCO"}}, n \in Word, k \in Commands :
              /\ k.op # "SWITCH" \/ k = c.command
              /\ Becomes(c, InLoco(c, key), f, n, k)
<1>1. CASE key \in Digits
  <2>1. Becomes(c, InLoco(c, key), c.flags, (10 * c.number + Digit(key)) % 65536, c.command)
    BY <1>1, AddDigitIs DEF InLoco
  <2>2. (10 * c.number + Digit(key)) % 65536 \in Word
    BY <2>1, CabFields DEF Becomes
  <2> QED BY <2>1, <2>2, CabFields
<1>2. CASE key \notin Digits /\ key = ENTER
  <2> DEFINE k == IF c.number = 0 THEN UnselectLoco ELSE SelLoco(c.number)
  <2>1. Becomes(c, InLoco(c, key), c.flags \ {"SELECTING_LOCO"}, c.number, k)
    BY <1>2, LocoEnteredIs DEF InLoco
  <2>2. k \in Commands /\ k.op # "SWITCH"
    BY CabFields, CommandIs, OpIs
  <2> HIDE DEF k
  <2> QED BY <2>1, <2>2, CabFields
<1> QED BY <1>1, <1>2 DEF InLoco

LEMMA InAccyIs ==
  ASSUME NEW c \in CabType, NEW key
  PROVE  \/ key \notin Digits /\ InAccy(c, key) = c
         \/ /\ key \in Digits
            /\ Becomes(c, InAccy(c, key), c.flags, (10 * c.number + Digit(key)) % 65536, c.command)
         \/ /\ key = ENTER /\ key \notin Digits
            /\ Becomes(c, InAccy(c, key), (c.flags \ {"SELECTING_ACCY"}) \cup {"SELECTING_ACCY_DIR"},
                       c.number, c.command)
<1>1. CASE key \in Digits
  <2>1. InAccy(c, key) = AddDigit(c, key)
    BY <1>1 DEF InAccy
  <2> QED BY <1>1, <2>1, AddDigitIs
<1>2. CASE key \notin Digits /\ key = ENTER
  <2>1. InAccy(c, key) = AccyEntered(c)
    BY <1>2 DEF InAccy
  <2> QED BY <1>2, <2>1, AccyEnteredIs
<1>3. CASE key \notin Digits /\ key # ENTER
  BY <1>3 DEF InAccy
<1> QED BY <1>1, <1>2, <1>3

\* handle_speed changes nothing but the command.
LEMMA SpeedKeeps ==
  ASSUME NEW c \in CabType, NEW key, SpeedAssumption
  PROVE  LET c1 == handle_speed(c, key)
         IN  /\ c1 \in CabType /\ Draws(c, c1) /\ c1.flags = c.flags /\ c1.number = c.number
             /\ c1.command.op # "SWITCH" \/ c1.command = c.command
<1> DEFINE c1 == handle_speed(c, key)
<1>1. c1 = c \/ \E v \in Speeds : Becomes(c, c1, c.flags, c.number, Speed(v))
  BY HandleSpeedIs
<1> SUFFICES /\ c1 \in CabType /\ Draws(c, c1) /\ c1.flags = c.flags /\ c1.number = c.number
             /\ c1.command.op # "SWITCH" \/ c1.command = c.command
  OBVIOUS
<1> HIDE DEF c1
<1>2. CASE c1 = c
  BY <1>2 DEF Draws, Agrees
<1>3. ASSUME NEW v \in Speeds, Becomes(c, c1, c.flags, c.number, Speed(v))
      PROVE  /\ c1 \in CabType /\ Draws(c, c1) /\ c1.flags = c.flags /\ c1.number = c.number
             /\ c1.command.op # "SWITCH"
  BY <1>3, OpIs DEF Becomes
<1> QED BY <1>1, <1>2, <1>3

\* Every key keeps the type of the cab and the truth of its screen.
LEMMA KeyKeeps ==
  ASSUME NEW c \in CabType, NEW key, SpeedAssumption
  PROVE  process_button_press(c, key) \in CabType /\ Draws(c, process_button_press(c, key))
<1> DEFINE p == process_button_press(c, key)
           c1 == handle_speed(c, key)
<1>1. c1 \in CabType /\ Draws(c, c1)
  BY SpeedKeeps
<1>2. \/ p = Escape(c) \/ p = OpenLoco(c) \/ p = InLoco(c, key) \/ p = InAccy(c1, key)
      \/ p = OpenAccy(c1) \/ p = InAccyDir(c1, key)
      \/ (key \in Digits /\ p = press_number_key(c1, key)) \/ p = OtherKey(c1, key)
  BY KeyCases
<1> SUFFICES p \in CabType /\ Draws(c, p)
  OBVIOUS
<1> HIDE DEF p, c1
<1>3. Draws(c, c)
  BY DEF Draws, Agrees
<1>4. CASE p = Escape(c)
  BY <1>4, EscapeIs DEF Becomes
<1>5. CASE p = OpenLoco(c)
  BY <1>5, OpenLocoIs DEF Becomes
<1>6. CASE p = InLoco(c, key)
  BY <1>3, <1>6, InLocoIs DEF Becomes
<1>7. CASE p = InAccy(c1, key)
  <2>1. p = c1 \/ (p \in CabType /\ Draws(c1, p))
    BY <1>1, <1>7, InAccyIs DEF Becomes
  <2> QED BY <1>1, <2>1, DrawsTwice
<1>8. CASE p = OpenAccy(c1)
  <2>1. p \in CabType /\ Draws(c1, p)
    BY <1>1, <1>8, OpenAccyIs DEF Becomes
  <2> QED BY <1>1, <2>1, DrawsTwice
<1>9. CASE p = InAccyDir(c1, key)
  <2>1. p = c1 \/ (p \in CabType /\ Draws(c1, p))
    BY <1>1, <1>9, InAccyDirIs DEF Becomes
  <2> QED BY <1>1, <2>1, DrawsTwice
<1>10. CASE key \in Digits /\ p = press_number_key(c1, key)
  <2>1. p \in CabType /\ Draws(c1, p)
    BY <1>1, <1>10, PressNumberIs DEF Becomes
  <2> QED BY <1>1, <2>1, DrawsTwice
<1>11. CASE p = OtherKey(c1, key)
  <2>1. p = c1 \/ (p \in CabType /\ Draws(c1, p))
    BY <1>1, <1>11, OtherKeyIs DEF Becomes
  <2> QED BY <1>1, <2>1, DrawsTwice
<1> QED BY <1>2, <1>4, <1>5, <1>6, <1>7, <1>8, <1>9, <1>10, <1>11


(***************************************************************************)
(* Switches.                                                               *)
(***************************************************************************)

InMenu(c) == c.flags \cap {"SELECTING_ACCY", "SELECTING_ACCY_DIR"} # {}

\* The number t was typed into the menu of cab c: that is the number it has.
Entering(c, t) ==
  /\ InMenu(c) => c.number = t % 65536 /\ "SELECTING_LOCO" \notin c.flags
  /\ c.command.op = "SWITCH" => c.command.number = t % 65536

\* What is typed with the key, as in Typed.
NextTyped(c, key, t) ==
  IF key = SEL_ACCY_KEY /\ "SELECTING_ACCY" \notin c.flags THEN 0
  ELSE IF key \in Digits /\ "SELECTING_ACCY" \in c.flags THEN 10 * t + Digit(key)
  ELSE t

LEMMA DigitTyped ==
  ASSUME NEW t \in Nat, NEW d \in Nat
  PROVE  (10 * (t % 65536) + d) % 65536 = (10 * t + d) % 65536
<1> DEFINE r == t % 65536
           q == t \div 65536
<1>1. r \in Nat /\ q \in Nat /\ t = 65536 * q + r
  OBVIOUS
<1> HIDE DEF r, q
<1>2. 10 * t + d = 65536 * (10 * q) + (10 * r + d)
  BY <1>1
<1>3. \A x, y \in Nat : (65536 * x + y) % 65536 = y % 65536
  OBVIOUS
<1>4. 10 * q \in Nat /\ 10 * r + d \in Nat
  BY <1>1
<1>5. (10 * t + d) % 65536 = (10 * r + d) % 65536
  BY <1>2, <1>3, <1>4
<1> QED BY <1>5 DEF r

LEMMA TypedIs ==
  ASSUME NEW c, NEW key, NEW t \in Nat
  PROVE  NextTyped(c, key, t) \in Nat
  BY DigitsAre DEF NextTyped

\* Outside the menu, and without a switch, nothing is asked of the number.
LEMMA NotInMenu ==
  ASSUME NEW d, NEW t, ~InMenu(d), d.command.op # "SWITCH"
  PROVE  Entering(d, t)
  BY DEF Entering

LEMMA KeyEnters ==
  ASSUME NEW c \in CabType, NEW key, NEW t \in Nat, SpeedAssumption,
         Entering(c, t), c.command.op # "SWITCH", ~Nests(c, key)
  PROVE  Entering(process_button_press(c, key), NextTyped(c, key, t))
<1> DEFINE p == process_button_press(c, key)
           c1 == handle_speed(c, key)
           u == NextTyped(c, key, t)
<1>1. /\ c1 \in CabType /\ c1.flags = c.flags /\ c1.number = c.number
      /\ c1.command.op # "SWITCH"
  BY SpeedKeeps
<1>2. \/ key = PROGRAM_KEY /\ p = Escape(c)
      \/ key = SELECT_LOCO_KEY /\ p = OpenLoco(c)
      \/ "SELECTING_LOCO" \in c.flags /\ p = InLoco(c, key)
      \/ "SELECTING_ACCY" \in c1.flags /\ p = InAccy(c1, key)
      \/ "SELECTING_ACCY" \notin c1.flags /\ key = SEL_ACCY_KEY /\ p = OpenAccy(c1)
      \/ /\ "SELECTING_ACCY" \notin c1.flags /\ "SELECTING_ACCY_DIR" \in c1.flags
         /\ key # SEL_ACCY_KEY /\ p = InAccyDir(c1, key)
      \/ /\ "SELECTING_ACCY" \notin c1.flags /\ "SELECTING_ACCY_DIR" \notin c1.flags
         /\ key # SEL_ACCY_KEY
         /\ (key \in Digits /\ p = press_number_key(c1, key)) \/ p = OtherKey(c1, key)
  BY KeyCases
<1> SUFFICES Entering(p, u)
  OBVIOUS
<1>3. /\ "SELECTING_ACCY" \in c.flags => u = IF key \in Digits THEN 10 * t + Digit(key) ELSE t
      /\ "SELECTING_ACCY" \notin c.flags => u = IF key = SEL_ACCY_KEY THEN 0 ELSE t
  BY DEF NextTyped
<1> HIDE DEF p, c1, u
<1>4. CASE key = PROGRAM_KEY /\ p = Escape(c)
  BY <1>4, EscapeIs, NotInMenu DEF Becomes, InMenu
<1>5. CASE key = SELECT_LOCO_KEY /\ p = OpenLoco(c)
  BY <1>5, OpenLocoIs, NotInMenu DEF Becomes, InMenu, Nests
<1>6. CASE "SELECTING_LOCO" \in c.flags /\ p = InLoco(c, key)
  <2>1. ~InMenu(c)
    BY <1>6 DEF Entering
  <2>2. ~InMenu(p) /\ p.command.op # "SWITCH"
    BY <1>6, <2>1, InLocoIs DEF Becomes, InMenu
  <2> QED BY <2>2, NotInMenu
<1>7. CASE "SELECTING_ACCY" \in c1.flags /\ p = InAccy(c1, key)
  <2>1. InMenu(c) /\ c.number = t % 65536 /\ "SELECTING_LOCO" \notin c.flags
    BY <1>1, <1>7 DEF Entering, InMenu
  <2>2. CASE key \notin Digits
    <3>1. /\ p.number = c.number /\ "SELECTING_LOCO" \notin p.flags
          /\ p.command.op # "SWITCH"
      BY <1>1, <1>7, <2>1, <2>2, InAccyIs DEF Becomes
    <3>2. u = t
      BY <1>1, <1>3, <1>7, <2>2
    <3> QED BY <2>1, <3>1, <3>2 DEF Entering
  <2>3. CASE key \in Digits
    <3>1. /\ p.number = (10 * c.number + Digit(key)) % 65536 /\ p.flags = c.flags
          /\ p.command.op # "SWITCH"
      BY <1>1, <1>7, <2>3, InAccyIs DEF Becomes
    <3>2. u = 10 * t + Digit(key)
      BY <1>1, <1>3, <1>7, <2>3
    <3> DEFINE g == Digit(key)
    <3>3. g \in Nat
      BY <2>3, DigitsAre
    <3> HIDE DEF g
    <3>4. (10 * (t % 65536) + g) % 65536 = (10 * t + g) % 65536
      BY <3>3, DigitTyped
    <3>5. p.number = u % 65536
      BY <2>1, <3>1, <3>2, <3>4 DEF g
    <3> QED BY <2>1, <3>1, <3>5 DEF Entering
  <2> QED BY <2>2, <2>3
<1>8. CASE "SELECTING_ACCY" \notin c1.flags /\ key = SEL_ACCY_KEY /\ p = OpenAccy(c1)
  <2>1. u = 0 /\ "SELECTING_LOCO" \notin c.flags
    BY <1>1, <1>3, <1>8 DEF Nests
  <2>2. p.number = 0 /\ "SELECTING_LOCO" \notin p.flags /\ p.command.op # "SWITCH"
    BY <1>1, <1>8, <2>1, OpenAccyIs DEF Becomes
  <2>3. 0 % 65536 = 0
    OBVIOUS
  <2> QED BY <2>1, <2>2, <2>3 DEF Entering
<1>9. CASE /\ "SELECTING_ACCY" \notin c1.flags /\ "SELECTING_ACCY_DIR" \in c1.flags
           /\ key # SEL_ACCY_KEY /\ p = InAccyDir(c1, key)
  <2>1. u = t /\ c.number = t % 65536 /\ "SELECTING_LOCO" \notin c.flags
    BY <1>1, <1>3, <1>9 DEF Entering, InMenu
  <2>2. CASE p = c1
    BY <1>1, <2>1, <2>2 DEF Entering
  <2>3. ASSUME NEW b \in BOOLEAN,
               Becomes(c1, p, c1.flags \ {"SELECTING_ACCY_DIR"}, c1.number, Switch(c1.number, b))
        PROVE  Entering(p, u)
    BY <1>1, <2>1, <2>3, OpIs DEF Becomes, Entering
  <2> QED BY <1>1, <1>9, <2>2, <2>3, InAccyDirIs
<1>10. CASE /\ "SELECTING_ACCY" \notin c1.flags /\ "SELECTING_ACCY_DIR" \notin c1.flags
            /\ key # SEL_ACCY_KEY
            /\ (key \in Digits /\ p = press_number_key(c1, key)) \/ p = OtherKey(c1, key)
  <2>1. /\ p = c1 \/ p.command.op # "SWITCH" \/ p.command = c1.command
        /\ p.flags \subseteq c1.flags
    BY <1>1, <1>10, PressNumberIs, OtherKeyIs DEF Becomes
  <2>2. ~InMenu(p) /\ p.command.op # "SWITCH"
    BY <1>1, <1>10, <2>1 DEF InMenu
  <2> QED BY <2>2, NotInMenu
<1> QED BY <1>2, <1>4, <1>5, <1>6, <1>7, <1>8, <1>9, <1>10

(***************************************************************************)
(* The bus: what a step does to one cab.                                   *)
(***************************************************************************)

\* The keys and the menu of d are those of c; a question may be asked.
SameMenu(c, d) ==
  /\ d.number = c.number /\ d.command = c.command
  /\ d.flags \in {c.flags, c.flags \cup {"ASK_QUESTION"}}

LEMMA SameMenuEnters ==
  ASSUME NEW c, NEW d, NEW t, SameMenu(c, d), Entering(c, t)
  PROVE  Entering(d, t)
  BY DEF SameMenu, Entering, InMenu

LEMMA FirstDirtyIs ==
  ASSUME NEW c \in CabType, c.dirty # {}
  PROVE  FirstDirty(c) \in 1..4 /\ Quarters[FirstDirty(c)] \in c.dirty
<1>1. c.dirty \subseteq Quarter
  BY CabFields DEF QuarterSets
<1>2. \E i \in 1..4 : Quarters[i] \in c.dirty /\ \A j \in 1..(i - 1) : Quarters[j] \notin c.dirty
  <2>1. CASE Quarters[1] \in c.dirty
    BY <2>1
  <2>2. CASE Quarters[1] \notin c.dirty /\ Quarters[2] \in c.dirty
    BY <2>2
  <2>3. CASE Quarters[1] \notin c.dirty /\ Quarters[2] \notin c.dirty /\ Quarters[3] \in c.dirty
    <3>1. \A j \in 1..(3 - 1) : j = 1 \/ j = 2
      OBVIOUS
    <3> QED BY <2>3, <3>1
  <2>4. CASE /\ Quarters[1] \notin c.dirty /\ Quarters[2] \notin c.dirty
             /\ Quarters[3] \notin c.dirty /\ Quarters[4] \in c.dirty
    <3>1. \A j \in 1..(4 - 1) : j = 1 \/ j = 2 \/ j = 3
      OBVIOUS
    <3> QED BY <2>4, <3>1
  <2>5. \E i \in 1..4 : Quarters[i] \in c.dirty
    BY <1>1 DEF Quarter
  <2>6. \A i \in 1..4 : i = 1 \/ i = 2 \/ i = 3 \/ i = 4
    OBVIOUS
  <2> QED BY <2>1, <2>2, <2>3, <2>4, <2>5, <2>6
<1> QED BY <1>2 DEF FirstDirty

\* One quarter less is to be sent, and nothing else changes but the cursor.
LEMMA OutputIs ==
  ASSUME NEW c \in CabType
  PROVE  LET d == output_dirty_screens(c)
         IN  /\ d \in CabType /\ d.rows = c.rows /\ d.flags = c.flags
             /\ d.number = c.number /\ d.command = c.command
             /\ d.dirty = IF c.dirty # {} THEN c.dirty \ {Quarters[FirstDirty(c)]} ELSE {}
<1> DEFINE g == c.dirty \ {Quarters[FirstDirty(c)]}
           u == IF c.cursor = "MOVE" THEN "ENABLE" ELSE "NONE"
           d == output_dirty_screens(c)
<1>1. g \in QuarterSets /\ u \in Cursors
  BY CabFields DEF QuarterSets, Cursors
<1>2. CASE c.dirty # {}
  <2>1. d = [c EXCEPT !.dirty = g]
    BY <1>2 DEF output_dirty_screens
  <2> HIDE DEF g
  <2>2. [c EXCEPT !.dirty = g] \in CabType
    <3>1. \A v \in QuarterSets : [c EXCEPT !.dirty = v] \in CabType
      BY CabUpdated
    <3> QED BY ONLY <1>1, <3>1
  <2>3. LET e == [c EXCEPT !.dirty = g]
        IN  /\ e.rows = c.rows /\ e.flags = c.flags /\ e.number = c.number
            /\ e.command = c.command /\ e.dirty = g
    BY DEF CabType
  <2> QED BY <1>2, <2>1, <2>2, <2>3 DEF g
<1>3. CASE c.dirty = {}
  <2>1. d = [c EXCEPT !.cursor = u]
    BY <1>3 DEF output_dirty_screens
  <2> HIDE DEF u
  <2>2. [c EXCEPT !.cursor = u] \in CabType
    <3>1. \A v \in Cursors : [c EXCEPT !.cursor = v] \in CabType
      BY CabUpdated
    <3> QED BY ONLY <1>1, <3>1
  <2>3. LET e == [c EXCEPT !.cursor = u]
        IN  /\ e.rows = c.rows /\ e.flags = c.flags /\ e.number = c.number
            /\ e.command = c.command /\ e.dirty = c.dirty
    BY DEF CabType
  <2> QED BY <1>3, <2>1, <2>2, <2>3
<1> QED BY <1>2, <1>3

LEMMA ReturningIs ==
  ASSUME NEW c \in CabType
  PROVE  /\ Returning(c) \in CabType /\ Draws(c, Returning(c)) /\ SameMenu(c, Returning(c))
         /\ age[currentCabAddr] > 1 \/ c.dirty = Quarter => Returning(c).dirty = Quarter
<1>1. CASE age[currentCabAddr] > 1
  <2> DEFINE d == [c EXCEPT !.dirty = Quarter]
  <2>1. Returning(c) = d
    BY <1>1 DEF Returning, Here
  <2>2. d \in CabType
    <3>1. \A v \in QuarterSets : [c EXCEPT !.dirty = v] \in CabType
      BY CabUpdated
    <3>2. Quarter \in QuarterSets
      BY DEF QuarterSets
    <3> QED BY ONLY <3>1, <3>2
  <2>3. d.dirty = Quarter /\ d.flags = c.flags /\ d.number = c.number /\ d.command = c.command
    BY DEF CabType
  <2>4. c.dirty \subseteq Quarter
    BY CabFields DEF QuarterSets
  <2> QED BY <2>1, <2>2, <2>3, <2>4 DEF Draws, SameMenu
<1>2. CASE ~(age[currentCabAddr] > 1)
  BY <1>2 DEF Returning, Here, Draws, Agrees, SameMenu
<1> QED BY <1>1, <1>2

\* The cab that is asked, without the command of its last key.
LEMMA AskedIs ==
  ASSUME NEW c \in CabType
  PROVE  LET d == [Returning(c) EXCEPT !.command = NoCommand]
         IN  /\ d \in CabType /\ Draws(c, d) /\ d.flags = c.flags /\ d.number = c.number
             /\ d.command = NoCommand
             /\ age[currentCabAddr] > 1 \/ c.dirty = Quarter => d.dirty = Quarter
<1> DEFINE r == Returning(c)
           d == [r EXCEPT !.command = NoCommand]
<1>1. /\ r \in CabType /\ Draws(c, r) /\ r.number = c.number
      /\ age[currentCabAddr] > 1 \/ c.dirty = Quarter => r.dirty = Quarter
      /\ r.flags = c.flags
  <2>1. r.flags = c.flags
    BY DEF Returning, CabType
  <2> QED BY <2>1, ReturningIs DEF SameMenu
<1> HIDE DEF r
<1>2. d \in CabType
  BY <1>1, CommandIs, CommandSet DEF Becomes
<1>3. d.flags = r.flags /\ d.number = r.number /\ d.command = NoCommand /\ d.dirty = r.dirty /\ d.rows = r.rows
  BY SMTT(30), <1>1 DEF CabType
<1>4. Draws(c, d)
  BY <1>1, <1>3 DEF Draws
<1>5. d = [Returning(c) EXCEPT !.command = NoCommand]
  BY DEF r
<1> HIDE DEF d
<1> QED BY <1>1, <1>2, <1>3, <1>4, <1>5

LEMMA RedrawnIs ==
  ASSUME NEW c, NEW d, Redrawn(c, d)
  PROVE  d \in CabType /\ Draws(c, d) /\ SameMenu(c, d)
  BY DEF Redrawn, SameKeys, SameMenu

\* What the program sets on a cab leaves its menu alone.
Sets(c, d) == d \in CabType /\ Draws(c, d) /\ SameMenu(c, d)

LEMMA SetsThenShows ==
  ASSUME NEW c, NEW d, NEW e, Sets(c, d), Redrawn(d, e)
  PROVE  Sets(c, e)
  BY DrawsTwice DEF Sets, SameMenu, Redrawn, SameKeys

LEMMA SettersSet ==
  ASSUME NEW c \in CabType
  PROVE  /\ \A n \in Numbers : Sets(c, set_loco_number(c, n))
         /\ \A v \in {0, TopSpeed} : Sets(c, set_loco_speed(c, v))
         /\ \A fwd \in BOOLEAN : Sets(c, set_direction(c, fwd))
         /\ \A f \in Set, on \in BOOLEAN : Sets(c, set_functions(c, f, on))
         /\ \A t \in Texts : Sets(c, ask_question(c, t)) /\ Sets(c, user_message(c, t))
         /\ Sets(c, set_time(c, 1))
<1>0. Sets(c, c)
  BY DEF Sets, Draws, Agrees, SameMenu
<1>1. \A n \in Numbers : Sets(c, set_loco_number(c, n))
  <2> TAKE n \in Numbers
  <2> DEFINE d == [c EXCEPT !.loco = n]
  <2>1. n \in Locos /\ set_loco_number(c, n) = IF c.loco = n THEN c ELSE ShowLoco(d)
    <3>1. n \in 0..9999
      BY NumbersAssumption DEF NumbersAssumption
    <3>2. n \in Locos /\ ~(n > 9999)
      BY ONLY <3>1 DEF Locos
    <3> QED BY ONLY <3>2 DEF set_loco_number
  <2>2. d \in CabType
    <3>1. \A v \in Locos : [c EXCEPT !.loco = v] \in CabType
      BY ONLY c \in CabType, CabUpdated
    <3> QED BY <2>1, <3>1
  <2>3. /\ d.flags = c.flags /\ d.number = c.number /\ d.command = c.command
        /\ d.dirty = c.dirty /\ d.rows = c.rows
    BY DEF CabType
  <2> HIDE DEF d
  <2>4. Sets(c, d)
    BY <2>2, <2>3 DEF Sets, Draws, Agrees, SameMenu
  <2>5. Sets(c, ShowLoco(d))
    BY <2>2, <2>4, RowsRedraw, SetsThenShows
  <2> QED BY <1>0, <2>1, <2>5
<1>2. \A v \in {0, TopSpeed} : Sets(c, set_loco_speed(c, v))
  <2> TAKE v \in {0, TopSpeed}
  <2> DEFINE d == [c EXCEPT !.speed = v]
  <2>1. v \in Speeds
    BY SpeedAssumption DEF Speeds, SpeedAssumption
  <2>2. d \in CabType
    <3>1. \A x \in Speeds : [c EXCEPT !.speed = x] \in CabType
      BY ONLY c \in CabType, CabUpdated
    <3> QED BY <2>1, <3>1
  <2>3. /\ d.flags = c.flags /\ d.number = c.number /\ d.command = c.command
        /\ d.dirty = c.dirty /\ d.rows = c.rows
    BY DEF CabType
  <2>4. set_loco_speed(c, v) = ShowSpeed(d)
    BY DEF set_loco_speed
  <2> HIDE DEF d
  <2>5. Sets(c, d)
    BY <2>2, <2>3 DEF Sets, Draws, Agrees, SameMenu
  <2> QED BY <2>2, <2>4, <2>5, RowsRedraw, SetsThenShows
<1>3. \A fwd \in BOOLEAN : Sets(c, set_direction(c, fwd))
  <2> TAKE fwd \in BOOLEAN
  <2> DEFINE d == [c EXCEPT !.forward = fwd]
  <2>2. d \in CabType
    <3>1. \A x \in BOOLEAN : [c EXCEPT !.forward = x] \in CabType
      BY ONLY c \in CabType, CabUpdated
    <3> QED BY <3>1
  <2>3. /\ d.flags = c.flags /\ d.number = c.number /\ d.command = c.command
        /\ d.dirty = c.dirty /\ d.rows = c.rows
    BY DEF CabType
  <2>4. set_direction(c, fwd) = ShowSpeed(d)
    BY DEF set_direction
  <2> HIDE DEF d
  <2>5. Sets(c, d)
    BY <2>2, <2>3 DEF Sets, Draws, Agrees, SameMenu
  <2> QED BY <2>2, <2>4, <2>5, RowsRedraw, SetsThenShows
<1>4. \A f \in Set, on \in BOOLEAN : Sets(c, set_functions(c, f, on))
  <2> TAKE f \in Set, on \in BOOLEAN
  <2> DEFINE g == IF on THEN c.functions \cup {f} ELSE c.functions \ {f}
             d == [c EXCEPT !.functions = g]
  <2>1. g \in FunctionSets
    <3>1. f \in 0..8
      BY NumbersAssumption DEF NumbersAssumption
    <3> QED BY <3>1, CabFields DEF FunctionSets
  <2>4. set_functions(c, f, on) = ShowFunctions(d)
    BY DEF set_functions
  <2> HIDE DEF g
  <2>2. d \in CabType
    <3>1. \A x \in FunctionSets : [c EXCEPT !.functions = x] \in CabType
      BY ONLY c \in CabType, CabUpdated
    <3> QED BY <2>1, <3>1
  <2>3. /\ d.flags = c.flags /\ d.number = c.number /\ d.command = c.command
        /\ d.dirty = c.dirty /\ d.rows = c.rows
    BY DEF CabType
  <2> HIDE DEF d
  <2>5. Sets(c, d)
    BY <2>2, <2>3 DEF Sets, Draws, Agrees, SameMenu
  <2> QED BY <2>2, <2>4, <2>5, RowsRedraw, SetsThenShows
<1>5. \A t \in Texts : Sets(c, ask_question(c, t)) /\ Sets(c, user_message(c, t))
  <2> TAKE t \in Texts
  <2>0. <<"MESSAGE", t>> \in Row
    BY RowIs
  <2> DEFINE g == c.flags \cup {"ASK_QUESTION"}
             d == [c EXCEPT !.flags = g]
  <2>1. g \in FlagSets
    BY ONLY c \in CabType, CabFields, FlagsAre DEF Flags
  <2>2. Becomes(c, d, g, c.number, c.command)
    <3> HIDE DEF g
    <3> QED BY <2>1, FlagsSet
  <2>3. Sets(c, d)
    BY <2>2 DEF Sets, Becomes, SameMenu
  <2>4. ask_question(c, t) = ShowBottom(d, <<"MESSAGE", t>>)
    BY DEF ask_question
  <2> HIDE DEF g, d
  <2>5. Sets(c, ask_question(c, t))
    BY <2>0, <2>3, <2>4, RowsRedraw, SetsThenShows DEF Sets
  <2> QED BY <1>0, <2>0, <2>5, RowsRedraw, SetsThenShows DEF user_message
<1>6. Sets(c, set_time(c, 1))
  <2>1. <<"TIME", 1>> \in Row
    BY RowIs DEF Times
  <2> QED BY <1>0, <2>1, ShowRedraws, SetsThenShows, QuarterIs DEF set_time
<1> QED BY <1>1, <1>2, <1>3, <1>4, <1>5, <1>6

(***************************************************************************)
(* Types.                                                                  *)
(***************************************************************************)

LEMMA MinIs ==
  ASSUME NEW S, S \subseteq Nat, S # {}
  PROVE  Min(S) \in S
<1> DEFINE R == {ss \in Nat \X Nat : ss[1] < ss[2]}
<1>1. IsWellFoundedOn(R, Nat)
  BY NatLessThanWellFounded DEF OpToRel
<1>2. PICK x \in S : \A y \in S : ~ (<<y, x>> \in R)
  BY <1>1, WFMin
<1>3. \A y \in S : x <= y
  <2> TAKE y \in S
  <2>1. x \in Nat /\ y \in Nat /\ ~ (<<y, x>> \in R)
    BY <1>2
  <2> QED BY <2>1
<1> QED BY <1>3 DEF Min

LEMMA CabsAre == NumCabsAssumption => /\ 0 \in Cabs /\ Cabs \subseteq 0..63
                                      /\ \A a \in Cabs : a \in Nat
  BY DEF NumCabsAssumption, Cabs

ShownRows == [Part -> Row]

\* The parts of the type.
CabOK == cab \in [Cabs -> CabType]
AddressOK ==
  /\ currentCabAddr \in Cabs /\ ping_num \in 0..3 /\ age \in [Cabs -> 0..Long]
  /\ pc \in {"step1", "step2", "wait"}
BytesOK == bytes \in Seq(AnswerByte) /\ Len(bytes) <= 2 /\ wire \in Seq(AnswerByte)
ShownOK ==
  /\ attached \subseteq Attachable /\ missed \subseteq Cabs
  /\ shown \in [Attachable -> ShownRows]
BoundsOK == keys \in Nat /\ events \in 0..(Len(MaxKeys) - 1)
HistoryOK ==
  /\ clean \in BOOLEAN /\ calm \in BOOLEAN
  /\ drawn \subseteq Cabs /\ typed \in [Cabs -> Nat] /\ nested \subseteq Cabs

LEMMA TypeIs ==
  TypeOK <=> CabOK /\ AddressOK /\ BytesOK /\ ShownOK /\ BoundsOK /\ HistoryOK
  BY DEF TypeOK, CabOK, AddressOK, BytesOK, ShownOK, BoundsOK, HistoryOK, ShownRows

LEMMA TypeNext ==
  CabOK' /\ AddressOK' /\ BytesOK' /\ ShownOK' /\ BoundsOK' /\ HistoryOK' => TypeOK'
  BY DEF TypeOK, CabOK, AddressOK, BytesOK, ShownOK, BoundsOK, HistoryOK, ShownRows

LEMMA LongIs == Long \in Nat /\ Long > 2
  BY PingTimesAssumption DEF Long

\* Everything that is taken from bytes, wire and the like has its type.
LEMMA HereIs ==
  ASSUME TypeOK
  PROVE  /\ currentCabAddr \in Cabs /\ cab[currentCabAddr] \in CabType
         /\ age[currentCabAddr] \in 0..Long /\ typed[currentCabAddr] \in Nat
         /\ \A a \in Attachable : a \in Cabs /\ cab[a] \in CabType
<1>1. \A a \in Attachable : a \in Cabs
  BY CabsAssumption DEF CabsAssumption
<1> QED BY <1>1 DEF TypeOK

\* Where the next ping goes.
LEMMA NextAddress ==
  ASSUME TypeOK, next_ping_address
  PROVE  /\ AddressOK' \/ pc' \notin {"step1", "step2", "wait"}
         /\ \/ /\ currentCabAddr' > currentCabAddr /\ UNCHANGED age
            \/ /\ currentCabAddr' = 0
               /\ \A a \in Cabs : age'[a] = IF age[a] = Long THEN Long ELSE age[a] + 1
<1>0. currentCabAddr \in Cabs /\ age \in [Cabs -> 0..Long] /\ ping_num \in 0..3
  BY DEF TypeOK
<1>1. CASE Later # {}
  <2>1. currentCabAddr' = Min(Later) /\ UNCHANGED <<ping_num, age>>
    BY <1>1 DEF next_ping_address
  <2>2. Later \subseteq Nat /\ Later \subseteq Cabs
    BY CabsAre, NumCabsAssumption DEF Later
  <2>3. currentCabAddr' \in Later
    BY <1>1, <2>1, <2>2, MinIs
  <2>4. currentCabAddr' > currentCabAddr /\ currentCabAddr' \in Cabs
    BY <2>2, <2>3 DEF Later
  <2> QED BY <1>0, <2>1, <2>4 DEF AddressOK
<1>2. CASE Later = {}
  <2>1. /\ currentCabAddr' = 0 /\ ping_num' = (ping_num + 1) % 4
        /\ age' = [a \in Cabs |-> IF age[a] = Long THEN Long ELSE age[a] + 1]
    BY <1>2 DEF next_ping_address
  <2>2. ping_num' \in 0..3
    BY <1>0, <2>1
  <2>3. \A a \in Cabs : (IF age[a] = Long THEN Long ELSE age[a] + 1) \in 0..Long
    <3> TAKE a \in Cabs
    <3>1. age[a] \in 0..Long
      BY <1>0
    <3> QED BY <3>1, LongIs
  <2>4. age' \in [Cabs -> 0..Long] /\ 0 \in Cabs
    BY <2>1, <2>3, CabsAre, NumCabsAssumption
  <2> QED BY <2>1, <2>2, <2>4 DEF AddressOK
<1> QED BY <1>1, <1>2

LEMMA AnswerBytes ==
  ASSUME NEW a \in Attachable, NEW key \in 0..127, NEW w \in Seq(AnswerByte)
  PROVE  w \o <<Byte(a, 1, key), Byte(a, 2, key)>> \in Seq(AnswerByte)
<1>1. Byte(a, 1, key) \in AnswerByte /\ Byte(a, 2, key) \in AnswerByte
  BY DEF Byte, AnswerByte
<1>2. <<Byte(a, 1, key), Byte(a, 2, key)>> \in Seq(AnswerByte)
  BY <1>1
<1> QED BY <1>2

LEMMA Step1Type ==
  ASSUME TypeOK, ping_step1
  PROVE  TypeOK'
<1>1. AddressOK'
  BY NextAddress DEF ping_step1
<1>2. wire' \in Seq(AnswerByte) /\ keys' \in Nat
  <2>0. wire \in Seq(AnswerByte) /\ keys \in Nat /\ attached \subseteq Attachable
    BY DEF TypeOK
  <2>1. CASE currentCabAddr' \in attached
    <3>1. Answers(currentCabAddr')
      BY <2>1 DEF ping_step1
    <3>2. currentCabAddr' \in Attachable
      BY <2>0, <2>1
    <3> DEFINE a == currentCabAddr'
    <3>3. PICK key \in {NO_KEY} \cup Keys[a] :
            /\ wire' = wire \o <<Byte(a, 1, key), Byte(a, 2, key)>>
            /\ keys' = IF key = NO_KEY THEN keys ELSE keys + 1
      BY <3>1 DEF Answers
    <3>4. key \in 0..127
      BY <3>2, CabsAssumption DEF CabsAssumption, NO_KEY
    <3> HIDE DEF a
    <3>5. wire' \in Seq(AnswerByte)
      BY <2>0, <3>2, <3>3, <3>4, AnswerBytes DEF a
    <3> QED BY <2>0, <3>3, <3>5
  <2>2. CASE currentCabAddr' \notin attached
    BY <2>0, <2>2 DEF ping_step1
  <2> QED BY <2>1, <2>2
<1>3. BytesOK' /\ BoundsOK'
  BY <1>2 DEF TypeOK, BytesOK, BoundsOK, ping_step1
<1>4. missed' \subseteq Cabs
  BY <1>1 DEF AddressOK, TypeOK, ping_step1
<1>5. CabOK' /\ ShownOK' /\ HistoryOK'
  <2>1. CabOK' /\ ShownOK'
    BY <1>4, TypeIs DEF CabOK, ShownOK, ping_step1
  <2>2. HistoryOK'
    BY TypeIs DEF HistoryOK, ping_step1, history
  <2> QED BY <2>1, <2>2
<1> QED BY <1>1, <1>3, <1>5, TypeNext

(***************************************************************************)
(* What a ping does with an answer.                                        *)
(***************************************************************************)

LEMMA PressedIs ==
  ASSUME NEW c \in CabType, NEW key
  PROVE  Pressed(c, key) \in CabType /\ Draws(c, Pressed(c, key))
  BY KeyKeeps, SpeedAssumption DEF Pressed, Draws, Agrees

\* The quarter that is sent, if there is one, is shown by the cab that is asked.
LEMMA SentIs ==
  ASSUME TypeOK, NEW p \in CabType, Sent(p)
  PROVE  /\ shown' \in [Attachable -> ShownRows]
         /\ \A a \in Attachable \ {currentCabAddr} : shown'[a] = shown[a]
         /\ currentCabAddr \in attached =>
              \A q \in Quarter : \A z \in PartsOf(q) : shown'[currentCabAddr][z]
                = IF q \in p.dirty \ output_dirty_screens(p).dirty THEN p.rows[z]
                  ELSE shown[currentCabAddr][z]
<1> DEFINE h == currentCabAddr
           x == output_dirty_screens(p)
           s == Quarters[FirstDirty(p)]
<1>0. attached \subseteq Attachable /\ shown \in [Attachable -> ShownRows]
  BY DEF TypeOK, ShownRows
<1>1. x.dirty = IF p.dirty # {} THEN p.dirty \ {s} ELSE {}
  BY OutputIs
<1>2. CASE h \in attached /\ p.dirty # {}
  <2>1. s \in p.dirty /\ s \in Quarter
    <3>1. s \in p.dirty /\ p.dirty \in QuarterSets
      BY <1>2, FirstDirtyIs, CabFields
    <3> QED BY <3>1 DEF QuarterSets
  <2> DEFINE screen == [z \in Part |-> IF z \in PartsOf(s) THEN p.rows[z] ELSE shown[h][z]]
  <2>2. shown' = [shown EXCEPT ![h] = screen]
    BY <1>0, <1>2 DEF Sent, Here
  <2>3. p.rows \in Rows
    BY CabFields
  <2> HIDE DEF s, x, h
  <2>4. h \in Attachable /\ shown[h] \in ShownRows
    BY <1>0, <1>2
  <2>5. screen \in ShownRows
    BY <2>3, <2>4 DEF ShownRows, Rows
  <2>6. \A z \in Part : screen[z] = IF z \in PartsOf(s) THEN p.rows[z] ELSE shown[h][z]
    OBVIOUS
  <2> HIDE DEF screen
  <2>7. shown' \in [Attachable -> ShownRows]
    BY <1>0, <2>2, <2>5
  <2>8. \A a \in Attachable \ {h} : shown'[a] = shown[a]
    BY <1>0, <2>2
  <2>9. \A q \in Quarter : \A z \in PartsOf(q) :
          shown'[h][z] = IF q = s THEN p.rows[z] ELSE shown[h][z]
    <3>1. shown'[h] = screen
      BY <1>0, <2>2, <2>4
    <3>2. \A q \in Quarter : \A z \in PartsOf(q) : z \in Part /\ (z \in PartsOf(s) <=> q = s)
      BY <2>1, QuarterIs, PartIs DEF PartsOf
    <3> QED BY <2>6, <3>1, <3>2
  <2>10. \A q \in Quarter : q \in p.dirty \ x.dirty <=> q = s
    BY <1>1, <1>2, <2>1
  <2> QED BY <2>7, <2>8, <2>9, <2>10 DEF h, x
<1>3. CASE ~(h \in attached /\ p.dirty # {})
  <2>1. shown' = shown
    BY <1>3 DEF Sent, Here
  <2>2. h \in attached => p.dirty = {}
    BY <1>3
  <2> QED BY <1>0, <2>1, <2>2
<1> QED BY <1>2, <1>3

LEMMA TypedType ==
  ASSUME TypeOK, NEW c \in CabType, NEW key
  PROVE  Typed(c, key) = NextTyped(c, key, typed[currentCabAddr]) /\ Typed(c, key) \in Nat
<1>1. Typed(c, key) = NextTyped(c, key, typed[currentCabAddr])
  BY DEF Typed, NextTyped, Here
<1> QED BY <1>1, HereIs, TypedIs

\* The cab that is asked, after its key and what is sent to it.
Taken(c) == output_dirty_screens(Pressed(c, bytes[1].key))

LEMMA TakeIs ==
  ASSUME TypeOK, NEW c \in CabType, Take(c)
  PROVE  /\ Taken(c) \in CabType
         /\ cab' = [cab EXCEPT ![currentCabAddr] = Taken(c)]
         /\ age' = [age EXCEPT ![currentCabAddr] = 0]
         /\ typed' = [typed EXCEPT ![currentCabAddr] = Typed(c, bytes[1].key)]
         /\ drawn' = drawn \cup {currentCabAddr}
         /\ nested' = IF Nests(c, bytes[1].key) THEN nested \cup {currentCabAddr} ELSE nested
         /\ bytes' = <<>> /\ pc' = "step1"
         /\ clean' = (wire = <<>>) /\ calm' = (calm /\ clean')
         /\ UNCHANGED <<currentCabAddr, ping_num, wire, attached, missed, keys, events>>
  BY PressedIs, OutputIs DEF Take, Taken, PingEnds, Here, bounds

LEMMA NoneComesNow == <<>> \in Seq(AnswerByte) /\ Len(<<>>) <= 2
  OBVIOUS

LEMMA TakeType ==
  ASSUME TypeOK, NEW c \in CabType, Take(c)
  PROVE  TypeOK'
<1>1. CabOK'
  BY TypeIs, TakeIs DEF CabOK
<1>2. AddressOK'
  <2>1. 0 \in 0..Long
    BY LongIs
  <2> QED BY <2>1, TypeIs, TakeIs DEF AddressOK
<1>3. BytesOK'
  <2> QED BY NoneComesNow, TypeIs, TakeIs DEF BytesOK
<1>4. ShownOK'
  <2>1. shown' \in [Attachable -> ShownRows]
    BY PressedIs, SentIs DEF Take
  <2> QED BY <2>1, TypeIs, TakeIs DEF ShownOK
<1>5. BoundsOK'
  BY TypeIs, TakeIs DEF BoundsOK
<1>6. HistoryOK'
  <2>1. clean' \in BOOLEAN /\ calm' \in BOOLEAN
    BY TakeIs
  <2>2. drawn' \subseteq Cabs /\ nested' \subseteq Cabs
    BY TypeIs, HereIs, TakeIs DEF HistoryOK
  <2>3. typed' \in [Cabs -> Nat]
    <3>1. typed \in [Cabs -> Nat] /\ currentCabAddr \in Cabs
      BY DEF TypeOK
    <3> QED BY <3>1, TakeIs, TypedType
  <2> QED BY <2>1, <2>2, <2>3 DEF HistoryOK
<1> QED BY <1>1, <1>2, <1>3, <1>4, <1>5, <1>6, TypeNext

LEMMA NoneIs ==
  ASSUME TypeOK, NoneComes
  PROVE  /\ AddressOK' /\ ShownOK' /\ BoundsOK' /\ HistoryOK'
         /\ pc' = "step1" /\ clean' = (wire = <<>>) /\ calm' = (calm /\ clean')
         /\ UNCHANGED <<currentCabAddr, ping_num, age, wire, attached, shown, missed, drawn, typed,
                        nested>>
<1>1. /\ pc' = "step1" /\ clean' = (wire = <<>>) /\ calm' = (calm /\ clean')
      /\ UNCHANGED <<currentCabAddr, ping_num, age, wire, attached, shown, missed, keys, drawn,
                     typed, nested>>
      /\ events' \in 0..(Len(MaxKeys) - 1)
  BY DEF NoneComes, PingEnds, Event, TypeOK
<1>2. clean' \in BOOLEAN /\ calm' \in BOOLEAN
  BY <1>1
<1> QED BY <1>1, <1>2, TypeIs DEF AddressOK, ShownOK, BoundsOK, HistoryOK

\* The three cases of step 2.
LEMMA Step2Is ==
  ASSUME TypeOK, ping_step2
  PROVE  \/ bytes # <<>> /\ Len(bytes) = 2 /\ Asked \in CabType /\ Take(Asked)
         \/ /\ Len(bytes) = 1 /\ pc' = "wait" /\ cab' = [cab EXCEPT ![currentCabAddr] = Asked]
            /\ UNCHANGED <<currentCabAddr, ping_num, age, bytes, wire, attached, shown, missed,
                           keys, events, clean, calm, drawn, typed, nested>>
         \/ /\ bytes = <<>> /\ bytes' = <<>> /\ NoneComes
            /\ cab' = [cab EXCEPT ![currentCabAddr] = Returning(cab[currentCabAddr])]
<1>1. Asked \in CabType
  BY HereIs, AskedIs DEF Asked, Here
<1> QED BY <1>1 DEF ping_step2, Here, bounds, history

LEMMA Step2Type ==
  ASSUME TypeOK, ping_step2
  PROVE  TypeOK'
<1>1. CASE Asked \in CabType /\ Take(Asked)
  BY <1>1, TakeType
<1>2. CASE /\ pc' = "wait" /\ cab' = [cab EXCEPT ![currentCabAddr] = Asked]
           /\ UNCHANGED <<currentCabAddr, ping_num, age, bytes, wire, attached, shown, missed,
                          keys, events, clean, calm, drawn, typed, nested>>
  <2>1. Asked \in CabType
    BY HereIs, AskedIs DEF Asked, Here
  <2>2. CabOK'
    BY <1>2, <2>1, TypeIs DEF CabOK
  <2>3. AddressOK' /\ BytesOK' /\ ShownOK' /\ BoundsOK'
    BY <1>2, TypeIs DEF AddressOK, BytesOK, ShownOK, BoundsOK
  <2>4. HistoryOK'
    BY <1>2, TypeIs DEF HistoryOK
  <2> QED BY <2>2, <2>3, <2>4, TypeNext
<1>3. CASE /\ bytes = <<>> /\ bytes' = <<>> /\ NoneComes
           /\ cab' = [cab EXCEPT ![currentCabAddr] = Returning(cab[currentCabAddr])]
  <2>1. Returning(cab[currentCabAddr]) \in CabType
    BY HereIs, ReturningIs
  <2>2. CabOK'
    BY <1>3, <2>1, TypeIs DEF CabOK
  <2>3. BytesOK'
    BY <1>3, NoneIs, NoneComesNow, TypeIs DEF BytesOK
  <2> QED BY <1>3, <2>2, <2>3, NoneIs, TypeNext
<1> QED BY <1>1, <1>2, <1>3, Step2Is

LEMMA WaitIs ==
  ASSUME TypeOK, ping_step2_waits
  PROVE  \/ bytes # <<>> /\ Len(bytes) = 2 /\ Take(cab[currentCabAddr])
         \/ Len(bytes) # 2 /\ bytes' = <<>> /\ NoneComes /\ UNCHANGED cab
  BY DEF ping_step2_waits, GiveUp, Here

LEMMA WaitType ==
  ASSUME TypeOK, ping_step2_waits
  PROVE  TypeOK'
<1>1. CASE Take(cab[currentCabAddr])
  BY <1>1, HereIs, TakeType
<1>2. CASE bytes' = <<>> /\ NoneComes /\ UNCHANGED cab
  <2>1. CabOK' /\ BytesOK'
    BY <1>2, NoneIs, NoneComesNow, TypeIs DEF CabOK, BytesOK
  <2> QED BY <1>2, <2>1, NoneIs, TypeNext
<1> QED BY <1>1, <1>2, WaitIs

(***************************************************************************)
(* The types after the other steps.                                        *)
(***************************************************************************)

LEMMA BytesMove ==
  ASSUME NEW b \in Seq(AnswerByte), NEW w \in Seq(AnswerByte), w # <<>>
  PROVE  /\ Tail(w) \in Seq(AnswerByte) /\ Append(b, Head(w)) \in Seq(AnswerByte)
         /\ Len(Append(b, Head(w))) = Len(b) + 1
  OBVIOUS

LEMMA IncomingType ==
  ASSUME TypeOK, incoming_byte
  PROVE  TypeOK'
<1>1. BytesOK'
  <2>1. bytes \in Seq(AnswerByte) /\ wire \in Seq(AnswerByte) /\ wire # <<>>
    BY DEF TypeOK, incoming_byte
  <2>2. Tail(wire) \in Seq(AnswerByte) /\ Append(bytes, Head(wire)) \in Seq(AnswerByte)
    BY <2>1, BytesMove
  <2>3. Len(bytes) <= 2 /\ Len(bytes) \in Nat /\ Len(Append(bytes, Head(wire))) = Len(bytes) + 1
    BY <2>1, BytesMove DEF TypeOK
  <2>4. /\ wire' = Tail(wire)
        /\ bytes' = IF Len(bytes) = 2 THEN <<>> ELSE Append(bytes, Head(wire))
    BY DEF incoming_byte
  <2>5. CASE Len(bytes) = 2
    BY <2>2, <2>4, <2>5, NoneComesNow DEF BytesOK
  <2>6. CASE Len(bytes) # 2
    <3>1. bytes' = Append(bytes, Head(wire))
      BY <2>4, <2>6
    <3>2. \A n \in Nat : n <= 2 /\ n # 2 => n + 1 <= 2
      OBVIOUS
    <3>3. Len(bytes') <= 2
      BY <2>3, <2>6, <3>1, <3>2
    <3> QED BY <2>2, <2>4, <3>1, <3>3 DEF BytesOK
  <2> QED BY <2>5, <2>6
<1>2. CabOK' /\ AddressOK' /\ ShownOK' /\ BoundsOK'
  BY TypeIs DEF incoming_byte, CabOK, AddressOK, ShownOK, BoundsOK, bounds
<1>3. HistoryOK'
  BY TypeIs DEF incoming_byte, HistoryOK, history
<1> QED BY <1>1, <1>2, <1>3, TypeNext

LEMMA LoseType ==
  ASSUME TypeOK, LoseByte
  PROVE  TypeOK'
<1>1. BytesOK' /\ BoundsOK'
  <2>1. bytes \in Seq(AnswerByte) /\ wire \in Seq(AnswerByte) /\ wire # <<>>
    BY DEF TypeOK, LoseByte
  <2>2. Tail(wire) \in Seq(AnswerByte)
    BY <2>1, BytesMove
  <2> QED BY <2>2 DEF LoseByte, BytesOK, BoundsOK, TypeOK, Event
<1>2. CabOK' /\ AddressOK' /\ ShownOK'
  BY TypeIs DEF LoseByte, CabOK, AddressOK, ShownOK
<1>3. HistoryOK'
  BY TypeIs DEF LoseByte, HistoryOK, history
<1> QED BY <1>1, <1>2, <1>3, TypeNext

\* A call of the program changes one cab, and its menu stays.
LEMMA ProgramIs ==
  ASSUME TypeOK, ProgramSets
  PROVE  \E a \in Attachable : \E d : Sets(cab[a], d) /\ Set_(a, d)
<1>1. PICK a \in Attachable :
        \/ \E n \in Numbers : Set_(a, set_loco_number(cab[a], n))
        \/ \E v \in {0, TopSpeed} : Set_(a, set_loco_speed(cab[a], v))
        \/ \E fwd \in BOOLEAN : Set_(a, set_direction(cab[a], fwd))
        \/ \E f \in Set, on \in BOOLEAN : Set_(a, set_functions(cab[a], f, on))
        \/ \E t \in Texts : Set_(a, ask_question(cab[a], t)) \/ Set_(a, user_message(cab[a], t))
        \/ Set_(a, set_time(cab[a], 1))
  BY DEF ProgramSets
<1> DEFINE c == cab[a]
<1>2. c \in CabType
  BY HereIs
<1> HIDE DEF c
<1>3. /\ \A n \in Numbers : Sets(c, set_loco_number(c, n))
      /\ \A v \in {0, TopSpeed} : Sets(c, set_loco_speed(c, v))
      /\ \A fwd \in BOOLEAN : Sets(c, set_direction(c, fwd))
      /\ \A f \in Set, on \in BOOLEAN : Sets(c, set_functions(c, f, on))
      /\ \A t \in Texts : Sets(c, ask_question(c, t)) /\ Sets(c, user_message(c, t))
      /\ Sets(c, set_time(c, 1))
  BY ONLY <1>2, SettersSet
<1>4. \E d : Sets(c, d) /\ Set_(a, d)
  BY <1>1, <1>3, Zenon DEF c
<1> QED BY <1>4 DEF c

LEMMA SetIs ==
  ASSUME NEW a, NEW d, Set_(a, d)
  PROVE  /\ cab' = [cab EXCEPT ![a] = d] /\ pc = "step1" /\ Event
         /\ UNCHANGED <<currentCabAddr, ping_num, age, bytes, pc, wire, attached, shown, missed,
                        keys, clean, calm, drawn, typed, nested>>
  BY DEF Set_, history

LEMMA ProgramType ==
  ASSUME TypeOK, ProgramSets
  PROVE  TypeOK'
<1>0. PICK a \in Attachable : \E d : Sets(cab[a], d) /\ Set_(a, d)
  BY ProgramIs
<1>1. PICK d : Sets(cab[a], d) /\ Set_(a, d)
  BY <1>0
<1>2. CabOK'
  BY <1>1, SetIs, TypeIs DEF CabOK, Sets
<1>3. AddressOK' /\ BytesOK' /\ ShownOK' /\ BoundsOK'
  BY <1>1, SetIs, TypeIs DEF AddressOK, BytesOK, ShownOK, BoundsOK, Event
<1>4. HistoryOK'
  BY <1>1, SetIs, TypeIs DEF HistoryOK
<1> QED BY <1>2, <1>3, <1>4, TypeNext

\* A cab that is plugged in shows nothing.
LEMMA PlugIs ==
  ASSUME TypeOK, PlugIn
  PROVE  \E a \in Attachable :
           /\ a \notin attached /\ a \in missed
           /\ attached' = attached \cup {a} /\ drawn' = drawn \ {a}
           /\ shown' = [shown EXCEPT ![a] = Blank]
           /\ Event
           /\ UNCHANGED <<cab, currentCabAddr, ping_num, age, bytes, pc, wire, missed, keys,
                          clean, calm, typed, nested>>
  BY CabsAssumption DEF PlugIn, CabsAssumption

LEMMA PlugType ==
  ASSUME TypeOK, PlugIn
  PROVE  TypeOK'
<1>1. PICK a \in Attachable :
           /\ a \notin attached /\ a \in missed
           /\ attached' = attached \cup {a} /\ drawn' = drawn \ {a}
           /\ shown' = [shown EXCEPT ![a] = Blank]
           /\ Event
           /\ UNCHANGED <<cab, currentCabAddr, ping_num, age, bytes, pc, wire, missed, keys,
                          clean, calm, typed, nested>>
  BY PlugIs
<1>2. Blank \in ShownRows
  BY BlankIsRow DEF Blank, ShownRows
<1>3. ShownOK'
  BY <1>1, <1>2, TypeIs DEF ShownOK
<1>4. CabOK' /\ AddressOK' /\ BytesOK' /\ BoundsOK'
  BY <1>1, TypeIs DEF CabOK, AddressOK, BytesOK, BoundsOK, Event
<1>5. HistoryOK'
  <2>1. clean' \in BOOLEAN /\ calm' \in BOOLEAN
    BY <1>1, TypeIs DEF HistoryOK
  <2> QED BY <1>1, <2>1, TypeIs DEF HistoryOK
<1> QED BY <1>3, <1>4, <1>5, TypeNext

LEMMA PullIs ==
  ASSUME PullOut
  PROVE  \E a \in attached :
           /\ attached' = attached \ {a} /\ missed' = missed \ {a}
           /\ UNCHANGED <<cab, currentCabAddr, ping_num, age, bytes, pc, wire, shown, keys, events,
                          clean, calm, drawn, typed, nested>>
  BY DEF PullOut, history, bounds

LEMMA PullType ==
  ASSUME TypeOK, PullOut
  PROVE  TypeOK'
<1>1. PICK a \in attached :
           /\ attached' = attached \ {a} /\ missed' = missed \ {a}
           /\ UNCHANGED <<cab, currentCabAddr, ping_num, age, bytes, pc, wire, shown, keys, events,
                          clean, calm, drawn, typed, nested>>
  BY PullIs
<1>2. CabOK' /\ AddressOK' /\ BytesOK' /\ ShownOK' /\ BoundsOK'
  BY <1>1, TypeIs DEF CabOK, AddressOK, BytesOK, ShownOK, BoundsOK
<1>3. HistoryOK'
  BY <1>1, TypeIs DEF HistoryOK
<1> QED BY <1>2, <1>3, TypeNext

LEMMA StutterType ==
  ASSUME TypeOK, UNCHANGED vars
  PROVE  TypeOK'
<1>1. CabOK' /\ AddressOK' /\ BytesOK' /\ ShownOK' /\ BoundsOK'
  BY TypeIs DEF vars, bounds, CabOK, AddressOK, BytesOK, ShownOK, BoundsOK
<1>2. HistoryOK'
  BY TypeIs DEF vars, history, HistoryOK
<1> QED BY <1>1, <1>2, TypeNext

LEMMA NewCabIs == NewCab \in CabType /\ NewCab.dirty = Quarter /\ NewCab.flags = {}
                  /\ NewCab.command = NoCommand
<1> DEFINE R == [p \in Part |->
        CASE p = "TOPLEFT" -> <<"LOC", 44>> [] p = "BOTTOMLEFT" -> <<"SPEED", TRUE, 0>>
          [] p = "TOPRIGHT" -> <<"TIME", 0>> [] p = "BOTTOMRIGHT" -> <<"FUNCTIONS", {1}>>
          [] p = "NINTH" -> <<"BLANK">>]
<1>1. R \in Rows
  <2>1. /\ <<"LOC", 44>> \in Row /\ <<"SPEED", TRUE, 0>> \in Row /\ <<"TIME", 0>> \in Row
        /\ <<"FUNCTIONS", {1}>> \in Row
    <3>1. 44 \in Locos /\ 0 \in Speeds /\ 0 \in Times /\ {1} \in Shown7
      BY SpeedAssumption DEF Locos, Speeds, Times, Shown7, SpeedAssumption
    <3> QED BY <3>1, RowIs
  <2> QED BY <2>1, BlankIsRow, PartIs DEF Rows
<1>2. /\ 0 \in Speeds /\ 44 \in Locos /\ {1} \in FunctionSets /\ {} \in FlagSets
      /\ Quarter \in QuarterSets /\ "NONE" \in Cursors /\ 0 \in Word /\ NoCommand \in Commands
  BY SMTT(30), SpeedAssumption DEF Speeds, SpeedAssumption, Locos, FunctionSets, FlagSets, QuarterSets, Cursors,
     Word, Commands
<1>3. NewCab = [speed |-> 0, forward |-> TRUE, loco |-> 44, functions |-> {1}, flags |-> {},
                dirty |-> Quarter, cursor |-> "NONE", number |-> 0, command |-> NoCommand,
                rows |-> R]
  BY DEF NewCab
<1> HIDE DEF R
<1>4. NewCab \in CabOf(Speeds, BOOLEAN, Locos, FunctionSets, FlagSets, QuarterSets, Cursors, Word,
                       Commands, Rows)
  BY <1>1, <1>2, <1>3 DEF CabOf
<1> QED BY <1>3, <1>4, CabTypeIs

LEMMA InitType ==
  ASSUME Init
  PROVE  TypeOK
<1>1. CabOK
  BY NewCabIs DEF Init, CabOK
<1>2. AddressOK
  <2>1. 0 \in Cabs /\ CABBUS_NO_PING_TIMES \in 0..Long /\ CABBUS_NO_PING_TIMES % 4 \in 0..3
    BY CabsAre, NumCabsAssumption, PingTimesAssumption DEF Long, PingTimesAssumption
  <2> QED BY <2>1 DEF Init, AddressOK
<1>3. BytesOK
  BY NoneComesNow DEF Init, BytesOK
<1>4. ShownOK
  <2>1. Blank \in ShownRows
    BY BlankIsRow DEF Blank, ShownRows
  <2>2. Attachable \subseteq Cabs /\ Pluggable \subseteq Attachable
    BY CabsAssumption DEF CabsAssumption
  <2> QED BY <2>1, <2>2 DEF Init, ShownOK
<1>5. BoundsOK
  <2>1. Len(MaxKeys) \in Nat /\ Len(MaxKeys) > 0
    BY BoundsAssumption DEF BoundsAssumption
  <2> QED BY <2>1 DEF Init, BoundsOK
<1>6. HistoryOK
  BY DEF Init, HistoryOK
<1> QED BY <1>1, <1>2, <1>3, <1>4, <1>5, <1>6, TypeIs

(***************************************************************************)
(* Whose bytes they are.                                                   *)
(***************************************************************************)

IsByte(b, a, n) == b.from = a /\ b.part = n

\* The bytes that came in and the bytes on the wire are what one answer of cab a can be.
OneAnswer(b, w, a) ==
  \/ b = <<>> /\ w = <<>>
  \/ b = <<>> /\ Len(w) = 2 /\ IsByte(w[1], a, 1) /\ IsByte(w[2], a, 2)
  \/ b = <<>> /\ Len(w) = 1 /\ IsByte(w[1], a, 2)
  \/ Len(b) = 1 /\ IsByte(b[1], a, 1) /\ Len(w) = 1 /\ IsByte(w[1], a, 2)
  \/ Len(b) = 1 /\ (IsByte(b[1], a, 1) \/ IsByte(b[1], a, 2)) /\ w = <<>>
  \/ Len(b) = 2 /\ IsByte(b[1], a, 1) /\ IsByte(b[2], a, 2) /\ w = <<>>

Framed ==
  clean => IF pc = "step1" THEN bytes = <<>> /\ wire = <<>>
           ELSE OneAnswer(bytes, wire, currentCabAddr)

LEMMA EmptySeq ==
  ASSUME NEW S, NEW w \in Seq(S), Len(w) = 0
  PROVE  w = <<>>
  OBVIOUS

LEMMA Lengths ==
  ASSUME NEW S, NEW w \in Seq(S)
  PROVE  /\ Len(w) = 0 <=> w = <<>>
         /\ w # <<>> => /\ Len(Tail(w)) = Len(w) - 1 /\ Head(w) = w[1]
                        /\ Len(w) = 1 => Tail(w) = <<>>
                        /\ Len(w) = 2 => Tail(w)[1] = w[2]
<1>1. Len(w) \in Nat /\ (Len(w) = 0 <=> w = <<>>)
  OBVIOUS
<1>2. ASSUME w # <<>>
      PROVE  /\ Len(Tail(w)) = Len(w) - 1 /\ Head(w) = w[1]
             /\ Tail(w) \in Seq(S)
             /\ \A i \in 1..(Len(w) - 1) : Tail(w)[i] = w[i + 1]
  BY <1>2
<1>3. ASSUME w # <<>>, Len(w) = 1
      PROVE  Tail(w) = <<>>
  <2>1. Tail(w) \in Seq(S) /\ Len(Tail(w)) = 0
    BY <1>2, <1>3
  <2> QED BY <2>1, EmptySeq
<1>4. ASSUME w # <<>>, Len(w) = 2
      PROVE  Tail(w)[1] = w[2]
  <2>1. 1 \in 1..(Len(w) - 1)
    BY <1>4
  <2> QED BY <1>2, <1>4, <2>1
<1> QED BY <1>1, <1>2, <1>3, <1>4

LEMMA Appended ==
  ASSUME NEW S, NEW b \in Seq(S), NEW x \in S
  PROVE  /\ Len(Append(b, x)) = Len(b) + 1
         /\ b = <<>> => Append(b, x)[1] = x
         /\ Len(b) = 1 => Append(b, x)[1] = b[1] /\ Append(b, x)[2] = x
<1>1. Len(b) \in Nat /\ Len(Append(b, x)) = Len(b) + 1 /\ Append(b, x)[Len(b) + 1] = x
  OBVIOUS
<1>2. \A i \in 1..Len(b) : Append(b, x)[i] = b[i]
  OBVIOUS
<1>3. b = <<>> => Len(b) = 0
  OBVIOUS
<1>4. ASSUME Len(b) = 1
      PROVE  Append(b, x)[1] = b[1] /\ Append(b, x)[2] = x
  <2>1. 1 \in 1..Len(b) /\ Len(b) + 1 = 2
    BY <1>4
  <2> QED BY <1>1, <1>2, <2>1
<1>5. ASSUME b = <<>>
      PROVE  Append(b, x)[1] = x
  <2>1. Len(b) + 1 = 1
    BY <1>3, <1>5
  <2> QED BY <1>1, <2>1
<1> QED BY <1>1, <1>4, <1>5

\* A byte of the answer that comes in, or is lost, leaves what one answer can be.
LEMMA AnswerComesIn ==
  ASSUME NEW S, NEW b \in Seq(S), NEW w \in Seq(S), NEW a, OneAnswer(b, w, a), w # <<>>
  PROVE  /\ OneAnswer(b, Tail(w), a)
         /\ OneAnswer(Append(b, Head(w)), Tail(w), a)
         /\ Len(b) # 2
<1>0. Head(w) \in S /\ Len(b) \in Nat /\ Len(w) \in Nat /\ (Len(b) = 0 <=> b = <<>>)
      /\ (Len(w) = 0 <=> w = <<>>)
  OBVIOUS
<1> DEFINE t == Tail(w)
           n == Append(b, Head(w))
<1>1. /\ Len(t) = Len(w) - 1 /\ Head(w) = w[1] /\ (Len(w) = 1 => t = <<>>)
      /\ (Len(w) = 2 => t[1] = w[2])
  BY Lengths
<1>2. /\ Len(n) = Len(b) + 1 /\ (b = <<>> => n[1] = w[1])
      /\ (Len(b) = 1 => n[1] = b[1] /\ n[2] = w[1])
  BY <1>0, <1>1, Appended
<1>3. SUFFICES OneAnswer(b, t, a) /\ OneAnswer(n, t, a) /\ Len(b) # 2
  OBVIOUS
<1> HIDE DEF t, n
<1>4. CASE b = <<>> /\ Len(w) = 2 /\ IsByte(w[1], a, 1) /\ IsByte(w[2], a, 2)
  BY <1>0, <1>1, <1>2, <1>4 DEF OneAnswer
<1>5. CASE b = <<>> /\ Len(w) = 1 /\ IsByte(w[1], a, 2)
  BY <1>0, <1>1, <1>2, <1>5 DEF OneAnswer
<1>6. CASE Len(b) = 1 /\ IsByte(b[1], a, 1) /\ Len(w) = 1 /\ IsByte(w[1], a, 2)
  BY <1>0, <1>1, <1>2, <1>6 DEF OneAnswer
<1> QED BY <1>0, <1>4, <1>5, <1>6 DEF OneAnswer

LEMMA TwoAnswered ==
  ASSUME NEW a, NEW key, NEW w, w = <<Byte(a, 1, key), Byte(a, 2, key)>>
  PROVE  OneAnswer(<<>>, w, a)
  BY DEF OneAnswer, IsByte, Byte

LEMMA FramedStep1 ==
  ASSUME TypeOK, Framed, ping_step1
  PROVE  Framed'
<1> SUFFICES ASSUME clean'
             PROVE  OneAnswer(bytes', wire', currentCabAddr')
  BY DEF Framed, ping_step1
<1>1. bytes = <<>> /\ wire = <<>> /\ bytes' = bytes
  BY DEF Framed, ping_step1, history
<1>2. CASE currentCabAddr' \in attached
  <2>1. Answers(currentCabAddr')
    BY <1>2 DEF ping_step1
  <2>2. PICK key : wire' = wire \o <<Byte(currentCabAddr', 1, key), Byte(currentCabAddr', 2, key)>>
    BY <2>1 DEF Answers
  <2>3. \A x, y : <<>> \o <<x, y>> = <<x, y>>
    OBVIOUS
  <2>4. wire' = <<Byte(currentCabAddr', 1, key), Byte(currentCabAddr', 2, key)>>
    BY <1>1, <2>2, <2>3
  <2> QED BY <1>1, <2>4, TwoAnswered
<1>3. CASE currentCabAddr' \notin attached
  BY <1>1, <1>3 DEF ping_step1, OneAnswer
<1> QED BY <1>2, <1>3

LEMMA FramedComes ==
  ASSUME TypeOK, Framed, incoming_byte \/ LoseByte
  PROVE  Framed'
<1> SUFFICES ASSUME clean'
             PROVE  pc # "step1" /\ OneAnswer(bytes', wire', currentCabAddr)
  BY DEF Framed, incoming_byte, LoseByte
<1>0. bytes \in Seq(AnswerByte) /\ wire \in Seq(AnswerByte) /\ wire # <<>>
  BY DEF TypeOK, incoming_byte, LoseByte
<1>1. pc # "step1" /\ OneAnswer(bytes, wire, currentCabAddr)
  BY <1>0 DEF Framed, incoming_byte, LoseByte, history
<1>2. /\ OneAnswer(bytes, Tail(wire), currentCabAddr)
      /\ OneAnswer(Append(bytes, Head(wire)), Tail(wire), currentCabAddr)
      /\ Len(bytes) # 2
  BY <1>0, <1>1, AnswerComesIn
<1> QED BY <1>1, <1>2 DEF incoming_byte, LoseByte

LEMMA FramedOthers ==
  ASSUME TypeOK, Framed, ping_step2 \/ ping_step2_waits
  PROVE  Framed'
<1>1. CASE pc' = "step1" /\ clean' = (wire = <<>>) /\ wire' = wire /\ bytes' = <<>>
  BY <1>1 DEF Framed
<1>2. CASE pc' = "wait" /\ UNCHANGED <<bytes, wire, currentCabAddr, clean>> /\ pc # "step1"
  BY <1>2 DEF Framed
<1>3. CASE ping_step2
  <2>1. pc # "step1"
    BY <1>3 DEF ping_step2
  <2> QED BY <1>1, <1>2, <1>3, <2>1, Step2Is, TakeIs, NoneIs
<1>4. CASE ping_step2_waits
  <2>1. cab[currentCabAddr] \in CabType
    BY HereIs
  <2> QED BY <1>1, <1>4, <2>1, WaitIs, TakeIs, NoneIs
<1> QED BY <1>3, <1>4

LEMMA FramedNext ==
  ASSUME TypeOK, Framed, [Next]_vars
  PROVE  Framed'
<1>1. CASE ping_step1
  BY <1>1, FramedStep1
<1>2. CASE incoming_byte \/ LoseByte
  BY <1>2, FramedComes
<1>3. CASE ping_step2 \/ ping_step2_waits
  BY <1>3, FramedOthers
<1>4. CASE ProgramSets \/ PlugIn \/ PullOut \/ UNCHANGED vars
  <2>1. UNCHANGED <<bytes, wire, currentCabAddr, clean, pc>>
    BY <1>4, ProgramIs, SetIs DEF PlugIn, PullOut, vars, history
  <2> QED BY <2>1 DEF Framed
<1> QED BY <1>1, <1>2, <1>3, <1>4 DEF Next

LEMMA FramedOwns ==
  ASSUME TypeOK, Framed
  PROVE  OwnKeys
<1> SUFFICES ASSUME clean, pc # "step1", Len(bytes) = 2, NEW i \in 1..2
             PROVE  bytes[i].from = currentCabAddr /\ bytes[i].part = i
  BY DEF OwnKeys
<1>1. Len(<<>>) = 0 /\ bytes \in Seq(AnswerByte)
  BY DEF TypeOK
<1>2. IsByte(bytes[1], currentCabAddr, 1) /\ IsByte(bytes[2], currentCabAddr, 2)
  BY <1>1 DEF Framed, OneAnswer
<1>3. i = 1 \/ i = 2
  OBVIOUS
<1> QED BY <1>2, <1>3 DEF IsByte

(***************************************************************************)
(* What is typed.                                                          *)
(***************************************************************************)

AllEntering == \A a \in Cabs \ nested : Entering(cab[a], typed[a])

\* While the program waits for the second byte, the last command is gone.
Fresh == pc = "wait" => cab[currentCabAddr].command = NoCommand

LEMMA NoSwitch == NoCommand.op # "SWITCH"
  BY DEF NoCommand

\* The command of the last key, if there was one, is forgotten.
LEMMA Forgets ==
  ASSUME NEW c, NEW d, NEW t, Entering(c, t), d.flags = c.flags, d.number = c.number,
         d.command = NoCommand
  PROVE  Entering(d, t)
  BY NoSwitch DEF Entering, InMenu

LEMMA OutputEnters ==
  ASSUME NEW c \in CabType, NEW t, Entering(c, t)
  PROVE  Entering(output_dirty_screens(c), t)
<1> DEFINE d == output_dirty_screens(c)
<1>1. d.flags = c.flags /\ d.number = c.number /\ d.command = c.command
  BY OutputIs
<1> HIDE DEF d
<1>2. Entering(d, t)
  BY <1>1 DEF Entering, InMenu
<1> QED BY <1>2 DEF d

LEMMA TakeEnters ==
  ASSUME TypeOK, NEW c \in CabType, Take(c), c.command = NoCommand, AllEntering,
         currentCabAddr \notin nested => Entering(c, typed[currentCabAddr])
  PROVE  AllEntering'
<1> DEFINE h == currentCabAddr
           key == bytes[1].key
           t == typed[h]
           p == Pressed(c, key)
<1> SUFFICES ASSUME NEW a \in Cabs, a \notin nested'
             PROVE  Entering(cab'[a], typed'[a])
  BY DEF AllEntering
<1>1. h' = h /\ cab' = [cab EXCEPT ![h] = Taken(c)] /\ typed' = [typed EXCEPT ![h] = Typed(c, key)]
      /\ nested' = IF Nests(c, key) THEN nested \cup {h} ELSE nested
  BY TakeIs
<1>2. h \in Cabs /\ t \in Nat /\ cab \in [Cabs -> CabType] /\ typed \in [Cabs -> Nat]
  BY HereIs DEF TypeOK
<1>3. CASE a # h
  <2>1. cab'[a] = cab[a] /\ typed'[a] = typed[a] /\ a \notin nested
    BY <1>1, <1>2, <1>3
  <2> QED BY <2>1 DEF AllEntering
<1>4. CASE a = h
  <2>1. cab'[a] = Taken(c) /\ typed'[a] = NextTyped(c, key, t) /\ h \notin nested /\ ~Nests(c, key)
    BY <1>1, <1>2, <1>4, TypedType
  <2>2. Entering(c, t) /\ c.command.op # "SWITCH"
    BY <2>1, NoSwitch
  <2>3. Entering(p, NextTyped(c, key, t))
    <3>1. CASE key = NO_KEY
      <4>1. NextTyped(c, key, t) = t
        BY <3>1 DEF NextTyped, NO_KEY, SEL_ACCY_KEY, Digits
      <4> QED BY <2>2, <3>1, <4>1 DEF Pressed
    <3>2. CASE key # NO_KEY
      <4> HIDE DEF t, key
      <4>1. Entering(process_button_press(c, key), NextTyped(c, key, t))
        BY <1>2, <2>1, <2>2, KeyEnters, SpeedAssumption
      <4> QED BY <3>2, <4>1 DEF Pressed
    <3> QED BY <3>1, <3>2
  <2>4. p \in CabType /\ Taken(c) = output_dirty_screens(p)
    BY PressedIs DEF Taken
  <2> HIDE DEF p
  <2> QED BY <2>1, <2>3, <2>4, OutputEnters
<1> QED BY <1>3, <1>4

LEMMA EnteringStep2 ==
  ASSUME TypeOK, AllEntering, ping_step2
  PROVE  AllEntering' /\ Fresh'
<1> DEFINE h == currentCabAddr
<1>0. h \in Cabs /\ cab[h] \in CabType /\ cab \in [Cabs -> CabType]
  BY HereIs DEF TypeOK
<1>1. Asked \in CabType /\ Asked.flags = cab[h].flags /\ Asked.number = cab[h].number
      /\ Asked.command = NoCommand
  BY <1>0, AskedIs DEF Asked, Here
<1>2. h \notin nested => Entering(Asked, typed[h])
  BY <1>0, <1>1, Forgets DEF AllEntering
<1>3. CASE Take(Asked)
  <2>1. pc' = "step1"
    BY <1>1, <1>3, TakeIs
  <2> QED BY <1>1, <1>2, <1>3, <2>1, TakeEnters DEF Fresh
<1>4. CASE pc' = "wait" /\ cab' = [cab EXCEPT ![h] = Asked] /\ UNCHANGED <<h, typed, nested>>
  <2>1. \A a \in Cabs : cab'[a] = IF a = h THEN Asked ELSE cab[a]
    BY <1>0, <1>4
  <2>2. AllEntering'
    BY <1>0, <1>2, <1>4, <2>1 DEF AllEntering
  <2> QED BY <1>0, <1>1, <1>4, <2>1, <2>2 DEF Fresh
<1>5. CASE cab' = [cab EXCEPT ![h] = Returning(cab[h])] /\ NoneComes
  <2> DEFINE r == Returning(cab[h])
  <2>0. SameMenu(cab[h], r)
    BY <1>0, ReturningIs
  <2>1. \A a \in Cabs : cab'[a] = IF a = h THEN r ELSE cab[a]
    BY <1>0, <1>5
  <2>2. h \notin nested => Entering(r, typed[h])
    BY <1>0, <2>0, SameMenuEnters DEF AllEntering
  <2>3. pc' = "step1" /\ UNCHANGED <<h, typed, nested>>
    BY <1>5, NoneIs
  <2> HIDE DEF r
  <2> QED BY <1>0, <2>1, <2>2, <2>3 DEF AllEntering, Fresh
<1> QED BY <1>3, <1>4, <1>5, Step2Is

LEMMA EnteringWaits ==
  ASSUME TypeOK, AllEntering, Fresh, ping_step2_waits
  PROVE  AllEntering' /\ Fresh'
<1> DEFINE h == currentCabAddr
<1>0. h \in Cabs /\ cab[h] \in CabType /\ pc = "wait"
  BY HereIs DEF ping_step2_waits
<1>1. CASE Take(cab[h])
  <2>1. pc' = "step1"
    BY <1>0, <1>1, TakeIs
  <2>2. cab[h].command = NoCommand /\ (h \notin nested => Entering(cab[h], typed[h]))
    BY <1>0 DEF Fresh, AllEntering
  <2> QED BY <1>0, <1>1, <2>1, <2>2, TakeEnters DEF Fresh
<1>2. CASE NoneComes /\ UNCHANGED cab
  <2>1. pc' = "step1" /\ UNCHANGED <<typed, nested>>
    BY <1>2, NoneIs
  <2> QED BY <1>2, <2>1 DEF AllEntering, Fresh
<1> QED BY <1>1, <1>2, WaitIs

LEMMA EnteringNext ==
  ASSUME TypeOK, AllEntering, Fresh, [Next]_vars
  PROVE  AllEntering' /\ Fresh'
<1>1. CASE ping_step2
  BY <1>1, EnteringStep2
<1>2. CASE ping_step2_waits
  BY <1>2, EnteringWaits
<1>3. CASE ping_step1
  BY <1>3 DEF ping_step1, history, AllEntering, Fresh
<1>4. CASE ProgramSets
  <2>0. PICK a \in Attachable : \E d : Sets(cab[a], d) /\ Set_(a, d)
    BY <1>4, ProgramIs
  <2>1. PICK d : Sets(cab[a], d) /\ Set_(a, d)
    BY <2>0
  <2>2. /\ cab' = [cab EXCEPT ![a] = d] /\ pc' = "step1" /\ UNCHANGED <<typed, nested>>
    BY <2>1, SetIs
  <2>3. a \in Cabs /\ cab \in [Cabs -> CabType]
    BY HereIs DEF TypeOK
  <2>4. a \notin nested => Entering(d, typed[a])
    BY <2>1, <2>3, SameMenuEnters DEF Sets, AllEntering
  <2> QED BY <2>2, <2>3, <2>4 DEF AllEntering, Fresh
<1>5. CASE incoming_byte \/ LoseByte \/ PlugIn \/ PullOut \/ UNCHANGED vars
  <2>1. UNCHANGED <<cab, pc, currentCabAddr, typed, nested>>
    BY <1>5 DEF incoming_byte, LoseByte, PlugIn, PullOut, vars, history
  <2> QED BY <2>1 DEF AllEntering, Fresh
<1> QED BY <1>1, <1>2, <1>3, <1>4, <1>5 DEF Next

LEMMA EnteringThrows ==
  ASSUME AllEntering
  PROVE  SwitchAsEntered
  BY DEF AllEntering, Entering, SwitchAsEntered

(***************************************************************************)
(* What is shown.                                                          *)
(***************************************************************************)

\* Something of the answer that was asked for is there or under way.
Answered == pc # "step1" /\ (bytes # <<>> \/ wire # <<>>)

\* The whole screen of cab a is sent when it answers the next time.
Redraws(a) ==
  \/ cab[a].dirty = Quarter
  \/ age[a] > 1
  \/ age[a] = 1 /\ a <= currentCabAddr /\ ~(a = currentCabAddr /\ Answered)

\* Cabs that were asked in vain since they were pulled out, or that are back since.
Away(a) == a \in missed \ attached \/ a \in attached \ drawn

CalmIsClean == calm => clean
AgesRise == /\ \A a \in Cabs : age[a] = 0 => a <= currentCabAddr
            /\ pc # "step1" => age[currentCabAddr] > 0
Waits == pc = "wait" => /\ clean => bytes # <<>>
                        /\ age[currentCabAddr] > 1 => cab[currentCabAddr].dirty = Quarter
AnswersAreSeen == calm /\ Answered /\ currentCabAddr \notin attached => currentCabAddr \notin missed
AwayRedraws == calm => \A a \in Attachable : Away(a) => Redraws(a)

Returns == CalmIsClean /\ AgesRise /\ Waits /\ AnswersAreSeen /\ AwayRedraws

LEMMA AgesAre ==
  ASSUME TypeOK, NEW a \in Cabs
  PROVE  age[a] \in Nat /\ age[a] <= Long /\ a \in Nat /\ currentCabAddr \in Nat
<1>1. age[a] \in 0..Long /\ Long \in Nat
  BY LongIs DEF TypeOK
<1>2. a \in Nat /\ currentCabAddr \in Nat
  BY CabsAre, NumCabsAssumption DEF TypeOK
<1> QED BY <1>1, <1>2

\* While nothing is late, nothing is there before a cab is asked.
LEMMA QuietBefore ==
  ASSUME Framed, CalmIsClean, calm, pc = "step1"
  PROVE  bytes = <<>> /\ wire = <<>>
  BY DEF Framed, CalmIsClean

LEMMA Step1Returns ==
  ASSUME TypeOK, Framed, Returns, ping_step1
  PROVE  Returns'
<1>0. /\ pc = "step1" /\ pc' = "step2" /\ missed' = missed \cup ({currentCabAddr'} \ attached)
      /\ currentCabAddr' \notin attached => wire' = wire
      /\ UNCHANGED <<cab, bytes, attached, clean, calm, drawn>>
  BY DEF ping_step1, history
<1>1. currentCabAddr' \in Cabs /\ age' \in [Cabs -> 0..Long] /\ currentCabAddr \in Cabs
  BY Step1Type DEF TypeOK
<1>2. \/ currentCabAddr' > currentCabAddr /\ UNCHANGED age
      \/ /\ currentCabAddr' = 0
         /\ \A a \in Cabs : age'[a] = IF age[a] = Long THEN Long ELSE age[a] + 1
  BY NextAddress DEF ping_step1
<1>3. \A a \in Cabs : /\ age'[a] = 0 => a <= currentCabAddr /\ currentCabAddr' > currentCabAddr
                      /\ age[a] > 1 => age'[a] > 1
                      /\ age[a] = 1 => \/ age'[a] > 1
                                       \/ age'[a] = 1 /\ currentCabAddr' > currentCabAddr
  <2> TAKE a \in Cabs
  <2>1. age[a] \in Nat /\ age[a] <= Long /\ Long > 2 /\ Long \in Nat
    BY AgesAre, LongIs
  <2>2. CASE currentCabAddr' > currentCabAddr /\ UNCHANGED age
    BY <2>2 DEF Returns, AgesRise
  <2>3. CASE age'[a] = IF age[a] = Long THEN Long ELSE age[a] + 1
    BY <2>1, <2>3
  <2> QED BY <1>2, <2>2, <2>3
<1>4. \A a \in Cabs : a \in Nat /\ age'[a] \in Nat
  <2> TAKE a \in Cabs
  <2>1. age'[a] \in 0..Long
    BY <1>1
  <2> QED BY <2>1, AgesAre, LongIs
<1>5. AgesRise'
  <2>1. \A a \in Cabs : age'[a] = 0 => a <= currentCabAddr'
    BY <1>1, <1>3, <1>4
  <2>2. age'[currentCabAddr'] > 0
    BY <1>1, <1>3, <1>4
  <2> QED BY <2>1, <2>2 DEF AgesRise
<1>6. ASSUME calm, currentCabAddr' \notin attached
      PROVE  ~Answered'
  BY <1>0, <1>6, QuietBefore DEF Answered, Returns
<1>7. AnswersAreSeen'
  BY <1>0, <1>6 DEF AnswersAreSeen
<1>8. AwayRedraws'
  <2> SUFFICES ASSUME calm, NEW a \in Attachable, Away(a)'
               PROVE  Redraws(a)'
    BY <1>0 DEF AwayRedraws
  <2>0. a \in Cabs
    BY HereIs
  <2>1. CASE Away(a)
    <3>1. Redraws(a)
      BY <2>1 DEF Returns, AwayRedraws
    <3>2. CASE cab[a].dirty = Quarter
      BY <1>0, <3>2 DEF Redraws
    <3>3. CASE age[a] > 1
      BY <1>3, <2>0, <3>3 DEF Redraws
    <3>4. CASE age[a] = 1 /\ a <= currentCabAddr
      BY <1>1, <1>3, <1>4, <2>0, <3>4 DEF Redraws
    <3> QED BY <3>1, <3>2, <3>3, <3>4 DEF Redraws
  <2>2. CASE ~Away(a)
    <3>1. a = currentCabAddr' /\ a \notin attached
      BY <1>0, <2>2 DEF Away
    <3>2. ~Answered'
      BY <1>6, <3>1
    <3>3. age'[a] > 0 /\ age'[a] \in Nat /\ a \in Nat
      BY <1>0, <1>4, <1>5, <2>0, <3>1 DEF AgesRise
    <3> QED BY <3>1, <3>2, <3>3 DEF Redraws
  <2> QED BY <2>1, <2>2
<1>9. CalmIsClean' /\ Waits'
  BY <1>0 DEF Returns, CalmIsClean, Waits
<1> QED BY <1>5, <1>7, <1>8, <1>9 DEF Returns

\* A cab that answered is not away any more.
LEMMA TakeReturns ==
  ASSUME TypeOK, Returns, NEW c \in CabType, Take(c), pc # "step1", bytes # <<>>
  PROVE  Returns'
<1> DEFINE h == currentCabAddr
<1>0. /\ cab' = [cab EXCEPT ![h] = Taken(c)] /\ age' = [age EXCEPT ![h] = 0]
      /\ drawn' = drawn \cup {h} /\ bytes' = <<>> /\ pc' = "step1"
      /\ clean' = (wire = <<>>) /\ calm' = (calm /\ clean')
      /\ UNCHANGED <<h, wire, attached, missed>>
  BY TakeIs
<1>1. h \in Cabs /\ age \in [Cabs -> 0..Long] /\ cab \in [Cabs -> CabType] /\ h \in Nat
  BY AgesAre DEF TypeOK
<1>2. CalmIsClean' /\ Waits' /\ AnswersAreSeen' /\ ~Answered'
  BY <1>0 DEF CalmIsClean, Waits, AnswersAreSeen, Answered
<1>3. AgesRise'
  BY <1>0, <1>1 DEF Returns, AgesRise
<1>4. AwayRedraws'
  <2> SUFFICES ASSUME calm, NEW a \in Attachable, Away(a)'
               PROVE  Redraws(a)'
    BY <1>0 DEF AwayRedraws
  <2>0. a \in Cabs
    BY HereIs
  <2>1. Answered
    BY DEF Answered
  <2>2. h \notin missed \/ h \in attached
    BY <2>1 DEF Returns, AnswersAreSeen
  <2>3. a # h
    BY <1>0, <2>2 DEF Away
  <2>4. Redraws(a)
    BY <1>0, <2>3 DEF Returns, AwayRedraws, Away
  <2>5. cab'[a] = cab[a] /\ age'[a] = age[a]
    BY <1>0, <1>1, <2>0, <2>3
  <2> QED BY <1>0, <2>3, <2>4, <2>5 DEF Redraws
<1> QED BY <1>2, <1>3, <1>4 DEF Returns

\* A ping that ends without an answer, or goes on, redraws no less.
LEMMA PingReturns ==
  ASSUME TypeOK, Returns, NEW d, pc # "step1", Draws(cab[currentCabAddr], d), d \in CabType,
         cab' = [cab EXCEPT ![currentCabAddr] = d],
         UNCHANGED <<currentCabAddr, age, attached, missed, drawn>>,
         \/ pc' = "step1" /\ clean' = (wire = <<>>) /\ calm' = (calm /\ clean')
         \/ /\ pc' = "wait" /\ UNCHANGED <<clean, calm, bytes, wire>> /\ bytes # <<>>
            /\ age[currentCabAddr] > 1 => d.dirty = Quarter
  PROVE  Returns'
<1> DEFINE h == currentCabAddr
<1>1. h \in Cabs /\ cab \in [Cabs -> CabType]
  BY DEF TypeOK
<1>2. cab[h].dirty \subseteq Quarter /\ d.dirty \subseteq Quarter
  BY <1>1, CabFields DEF QuarterSets
<1>3. \A a \in Cabs : cab[a].dirty = Quarter => cab'[a].dirty = Quarter
  <2>1. cab[h].dirty \subseteq d.dirty
    BY DEF Draws
  <2>2. cab' = [cab EXCEPT ![h] = d]
    OBVIOUS
  <2>3. cab[h].dirty = Quarter => d.dirty = Quarter
    BY ONLY <1>2, <2>1
  <2> QED BY ONLY <1>1, <2>2, <2>3
<1>4. cab'[h] = d
  BY <1>1
<1>5. Answered' => Answered
  BY DEF Answered
<1>6. calm' => calm
  OBVIOUS
<1>7. CalmIsClean' /\ AgesRise' /\ Waits'
  <2>1. CalmIsClean'
    BY DEF Returns, CalmIsClean
  <2>2. AgesRise'
    BY DEF Returns, AgesRise
  <2>3. Waits'
    BY <1>4 DEF Waits
  <2> QED BY <2>1, <2>2, <2>3
<1>8. AnswersAreSeen'
  BY <1>5, <1>6 DEF Returns, AnswersAreSeen
<1>9. AwayRedraws'
  <2> SUFFICES ASSUME calm, NEW a \in Attachable, Away(a)'
               PROVE  Redraws(a)'
    BY <1>6 DEF AwayRedraws
  <2>0. a \in Cabs
    BY HereIs
  <2>1. Redraws(a)
    BY DEF Returns, AwayRedraws, Away
  <2> QED BY <1>3, <1>5, <2>0, <2>1 DEF Redraws
<1> QED BY <1>7, <1>8, <1>9 DEF Returns

LEMMA Step2Returns ==
  ASSUME TypeOK, Returns, ping_step2
  PROVE  Returns'
<1> DEFINE h == currentCabAddr
<1>0. pc # "step1" /\ cab[h] \in CabType
  BY HereIs DEF ping_step2
<1>1. /\ Asked \in CabType /\ Draws(cab[h], Asked)
      /\ age[h] > 1 \/ cab[h].dirty = Quarter => Asked.dirty = Quarter
  BY <1>0, AskedIs DEF Asked, Here
<1>2. CASE bytes # <<>> /\ Take(Asked)
  BY <1>0, <1>1, <1>2, TakeReturns
<1>3. CASE /\ Len(bytes) = 1 /\ pc' = "wait" /\ cab' = [cab EXCEPT ![h] = Asked]
           /\ UNCHANGED <<h, age, bytes, wire, attached, missed, clean, calm, drawn>>
  <2>1. bytes # <<>>
    <3>1. Len(<<>>) = 0
      OBVIOUS
    <3> QED BY <1>3, <3>1
  <2> QED BY <1>0, <1>1, <1>3, <2>1, PingReturns
<1>4. CASE cab' = [cab EXCEPT ![h] = Returning(cab[h])] /\ NoneComes
  <2>1. Returning(cab[h]) \in CabType /\ Draws(cab[h], Returning(cab[h]))
    BY <1>0, ReturningIs
  <2>2. /\ pc' = "step1" /\ clean' = (wire = <<>>) /\ calm' = (calm /\ clean')
        /\ UNCHANGED <<h, age, attached, missed, drawn>>
    BY <1>4, NoneIs
  <2> QED BY <1>0, <1>4, <2>1, <2>2, PingReturns
<1> QED BY <1>2, <1>3, <1>4, Step2Is

LEMMA WaitReturns ==
  ASSUME TypeOK, Returns, ping_step2_waits
  PROVE  Returns'
<1> DEFINE h == currentCabAddr
<1>0. pc # "step1" /\ cab[h] \in CabType /\ Draws(cab[h], cab[h])
  BY HereIs DEF ping_step2_waits, Draws, Agrees
<1>1. CASE bytes # <<>> /\ Take(cab[h])
  BY <1>0, <1>1, TakeReturns
<1>2. CASE NoneComes /\ UNCHANGED cab
  <2>1. /\ pc' = "step1" /\ clean' = (wire = <<>>) /\ calm' = (calm /\ clean')
        /\ UNCHANGED <<h, age, attached, missed, drawn>>
    BY <1>2, NoneIs
  <2>2. cab' = [cab EXCEPT ![h] = cab[h]]
    BY <1>2 DEF TypeOK
  <2> QED BY <1>0, <2>1, <2>2, PingReturns
<1> QED BY <1>1, <1>2, WaitIs

\* A byte is there or under way before one comes in or is lost.
LEMMA ByteReturns ==
  ASSUME TypeOK, Framed, Returns, incoming_byte \/ LoseByte
  PROVE  Returns'
<1>0. /\ UNCHANGED <<cab, age, currentCabAddr, pc, attached, missed, clean, calm, drawn>>
      /\ wire # <<>> /\ wire' = Tail(wire)
      /\ bytes' \in {bytes, IF Len(bytes) = 2 THEN <<>> ELSE Append(bytes, Head(wire))}
  BY DEF incoming_byte, LoseByte, history
<1>1. bytes \in Seq(AnswerByte) /\ wire \in Seq(AnswerByte)
  BY DEF TypeOK
<1>2. Answered' => Answered
  BY <1>0 DEF Answered
<1>3. ASSUME clean, pc = "wait"
      PROVE  bytes' # <<>>
  <2>1. OneAnswer(bytes, wire, currentCabAddr) /\ bytes # <<>>
    BY <1>3 DEF Framed, Returns, Waits
  <2>2. Len(bytes) # 2
    BY <1>0, <1>1, <2>1, AnswerComesIn
  <2>3. Append(bytes, Head(wire)) # <<>>
    <3>1. Len(Append(bytes, Head(wire))) = Len(bytes) + 1 /\ Len(bytes) \in Nat /\ Len(<<>>) = 0
      BY <1>0, <1>1, BytesMove
    <3> QED BY <3>1
  <2> QED BY <1>0, <2>1, <2>2, <2>3
<1>4. CalmIsClean' /\ AgesRise' /\ Waits'
  BY <1>0, <1>3 DEF Returns, CalmIsClean, AgesRise, Waits
<1>5. AnswersAreSeen'
  BY <1>0, <1>2 DEF Returns, AnswersAreSeen
<1>6. AwayRedraws'
  <2> SUFFICES ASSUME calm, NEW a \in Attachable, Away(a)
               PROVE  Redraws(a)'
    BY <1>0 DEF AwayRedraws, Away
  <2>1. Redraws(a)
    BY DEF Returns, AwayRedraws
  <2> QED BY <1>0, <1>2, <2>1 DEF Redraws
<1> QED BY <1>4, <1>5, <1>6 DEF Returns

LEMMA ProgramReturns ==
  ASSUME TypeOK, Returns, ProgramSets
  PROVE  Returns'
<1>0. PICK b \in Attachable : \E d : Sets(cab[b], d) /\ Set_(b, d)
  BY ProgramIs
<1>1. PICK d : Sets(cab[b], d) /\ Set_(b, d)
  BY <1>0
<1>2. /\ cab' = [cab EXCEPT ![b] = d] /\ pc = "step1"
      /\ UNCHANGED <<currentCabAddr, age, bytes, pc, wire, attached, missed, clean, calm, drawn>>
  BY <1>1, SetIs
<1>3. b \in Cabs /\ cab \in [Cabs -> CabType] /\ cab[b].dirty \subseteq d.dirty
      /\ d.dirty \subseteq Quarter
  BY <1>1, HereIs, CabFields DEF TypeOK, Sets, Draws, QuarterSets
<1>4. \A a \in Cabs : cab[a].dirty = Quarter => cab'[a].dirty = Quarter
  <2>1. \A a \in Cabs : cab'[a] = IF a = b THEN d ELSE cab[a]
    BY <1>2, <1>3
  <2>2. cab[b].dirty = Quarter => d.dirty = Quarter
    BY <1>3
  <2> QED BY <2>1, <2>2
<1>5. CalmIsClean' /\ AgesRise' /\ Waits' /\ AnswersAreSeen'
  BY <1>2 DEF Returns, CalmIsClean, AgesRise, Waits, AnswersAreSeen, Answered
<1>6. AwayRedraws'
  <2> SUFFICES ASSUME calm, NEW a \in Attachable, Away(a)
               PROVE  Redraws(a)'
    BY <1>2 DEF AwayRedraws, Away
  <2>1. Redraws(a) /\ a \in Cabs
    BY HereIs DEF Returns, AwayRedraws
  <2> QED BY <1>2, <1>4, <2>1 DEF Redraws, Answered
<1> QED BY <1>5, <1>6 DEF Returns

\* What a cab that is plugged in or pulled out leaves alone.
LEMMA PlugReturns ==
  ASSUME TypeOK, Returns, PlugIn \/ PullOut \/ UNCHANGED vars
  PROVE  Returns'
<1>1. UNCHANGED <<cab, currentCabAddr, age, bytes, pc, wire, clean, calm>>
  BY DEF PlugIn, PullOut, vars, history
<1>2. \A a \in Attachable : Away(a)' => Away(a)
  <2>1. CASE PlugIn
    <3>1. PICK b \in Attachable : /\ b \notin attached /\ b \in missed
                                  /\ attached' = attached \cup {b} /\ drawn' = drawn \ {b}
                                  /\ UNCHANGED missed
      BY <2>1, PlugIs
    <3> QED BY <3>1 DEF Away
  <2>2. CASE PullOut
    <3>1. PICK b \in attached : /\ attached' = attached \ {b} /\ missed' = missed \ {b}
                                /\ UNCHANGED drawn
      BY <2>2, PullIs
    <3> QED BY <3>1 DEF Away
  <2>3. CASE UNCHANGED vars
    BY <2>3 DEF vars, history, Away
  <2> QED BY <2>1, <2>2, <2>3
<1>3. currentCabAddr \notin attached' => currentCabAddr \notin attached \/ currentCabAddr \notin missed'
  <2>1. CASE PlugIn
    BY <2>1 DEF PlugIn
  <2>2. CASE PullOut
    BY <2>2, PullIs
  <2>3. CASE UNCHANGED vars
    BY <2>3 DEF vars
  <2> QED BY <2>1, <2>2, <2>3
<1>4. missed' \subseteq missed
  BY PullIs DEF PlugIn, vars
<1>5. CalmIsClean' /\ AgesRise' /\ Waits' /\ AnswersAreSeen'
  BY <1>1, <1>3, <1>4 DEF Returns, CalmIsClean, AgesRise, Waits, AnswersAreSeen, Answered
<1>6. AwayRedraws'
  <2> SUFFICES ASSUME calm, NEW a \in Attachable, Away(a)
               PROVE  Redraws(a)'
    BY <1>1, <1>2 DEF AwayRedraws
  <2>1. Redraws(a)
    BY DEF Returns, AwayRedraws
  <2> QED BY <1>1, <2>1 DEF Redraws, Answered
<1> QED BY <1>5, <1>6 DEF Returns

LEMMA ReturnsNext ==
  ASSUME TypeOK, Framed, Returns, [Next]_vars
  PROVE  Returns'
<1>1. CASE ping_step1
  BY <1>1, Step1Returns
<1>2. CASE ping_step2
  BY <1>2, Step2Returns
<1>3. CASE ping_step2_waits
  BY <1>3, WaitReturns
<1>4. CASE incoming_byte \/ LoseByte
  BY <1>4, ByteReturns
<1>5. CASE ProgramSets
  BY <1>5, ProgramReturns
<1>6. CASE PlugIn \/ PullOut \/ UNCHANGED vars
  BY <1>6, PlugReturns
<1> QED BY <1>1, <1>2, <1>3, <1>4, <1>5, <1>6 DEF Next

\* What the cab that is asked shows, and what is sent to it, is what it should show.
LEMMA TakeShows ==
  ASSUME TypeOK, NEW c \in CabType, Take(c), Draws(cab[currentCabAddr], c), CleanIsShown, calm,
         currentCabAddr \in attached \ drawn => c.dirty = Quarter
  PROVE  CleanIsShown'
<1> DEFINE h == currentCabAddr
           p == Pressed(c, bytes[1].key)
           x == output_dirty_screens(p)
<1>0. /\ cab' = [cab EXCEPT ![h] = x] /\ drawn' = drawn \cup {h} /\ attached' = attached
      /\ h' = h
  BY TakeIs DEF Taken
<1>1. h \in Cabs /\ cab \in [Cabs -> CabType] /\ attached \subseteq Attachable
  BY DEF TypeOK
<1>2. p \in CabType /\ Draws(c, p)
  BY PressedIs
<1>3. Sent(p)
  BY DEF Take
<1> HIDE DEF p
<1>4. x.rows = p.rows /\ p.dirty \subseteq Quarter
  BY <1>2, OutputIs, CabFields DEF QuarterSets
<1>5. /\ \A a \in Attachable \ {h} : shown'[a] = shown[a]
      /\ h \in attached => \A q \in Quarter : \A z \in PartsOf(q) : shown'[h][z]
                               = IF q \in p.dirty \ x.dirty THEN p.rows[z] ELSE shown[h][z]
  BY <1>2, <1>3, SentIs
<1> HIDE DEF x
<1>6. SUFFICES ASSUME NEW a \in attached, a \in drawn \cup {h}, NEW q \in Quarter,
                      q \notin cab'[a].dirty
               PROVE  Agrees(shown'[a], cab'[a].rows, q)
  BY <1>0 DEF CleanIsShown
<1>7. a \in Attachable /\ a \in Cabs
  BY <1>1, HereIs
<1>8. CASE a # h
  <2>1. cab'[a] = cab[a] /\ shown'[a] = shown[a] /\ a \in drawn
    BY <1>0, <1>1, <1>5, <1>6, <1>7, <1>8
  <2> QED BY <1>6, <2>1 DEF CleanIsShown
<1>9. CASE a = h
  <2>1. cab'[a] = x /\ h \in attached
    BY <1>0, <1>1, <1>9
  <2>0. q \in PartsOf(q) /\ (q = "BOTTOMRIGHT" => "NINTH" \in PartsOf(q))
    BY PartIs
  <2>2. CASE q \in p.dirty
    <3>1. \A z \in PartsOf(q) : shown'[h][z] = p.rows[z]
      BY <1>5, <1>6, <1>9, <2>1, <2>2
    <3> QED BY <1>4, <1>9, <2>0, <2>1, <3>1 DEF Agrees
  <2>3. CASE q \notin p.dirty
    <3>1. Draws(cab[h], p)
      BY <1>2, DrawsTwice
    <3>2. q \notin c.dirty /\ q \notin cab[h].dirty /\ Agrees(cab[h].rows, p.rows, q)
      BY <1>2, <2>3, <3>1 DEF Draws
    <3>3. h \in drawn
      BY <2>1, <3>2
    <3>4. Agrees(shown[h], cab[h].rows, q)
      BY <2>1, <3>2, <3>3 DEF CleanIsShown
    <3>5. \A z \in PartsOf(q) : shown'[h][z] = shown[h][z]
      BY <1>5, <2>1, <2>3
    <3>6. Agrees(shown'[h], cab[h].rows, q)
      BY <2>0, <3>4, <3>5 DEF Agrees
    <3> QED BY <1>4, <1>9, <2>1, <3>2, <3>6, AgreesTwice
  <2> QED BY <2>2, <2>3
<1> QED BY <1>8, <1>9

\* A change of one cab that sends again whatever it changes on the screen.
LEMMA DrawsShows ==
  ASSUME TypeOK, CleanIsShown, calm' => calm, NEW b \in Cabs, NEW d, Draws(cab[b], d),
         cab' = [cab EXCEPT ![b] = d], UNCHANGED <<attached, drawn, shown>>
  PROVE  CleanIsShown'
<1> SUFFICES ASSUME calm, NEW a \in attached, a \in drawn, NEW q \in Quarter,
                    q \notin cab'[a].dirty
             PROVE  Agrees(shown[a], cab'[a].rows, q)
  BY DEF CleanIsShown
<1>1. a \in Cabs /\ cab \in [Cabs -> CabType]
  BY HereIs DEF TypeOK
<1>2. CASE a # b
  <2>1. cab'[a] = cab[a]
    BY <1>1, <1>2
  <2> QED BY <2>1 DEF CleanIsShown
<1>3. CASE a = b
  <2>1. cab'[a] = d
    BY <1>1, <1>3
  <2>2. q \notin cab[a].dirty /\ Agrees(cab[a].rows, d.rows, q)
    BY <1>3, <2>1 DEF Draws
  <2> QED BY <2>1, <2>2, AgreesTwice DEF CleanIsShown
<1> QED BY <1>2, <1>3

\* A cab that is asked for the first time since it is back gets its whole screen.
LEMMA BackIsRedrawn ==
  ASSUME TypeOK, Returns, calm, currentCabAddr \in attached \ drawn, Answered
  PROVE  cab[currentCabAddr].dirty = Quarter \/ age[currentCabAddr] > 1
<1>1. currentCabAddr \in Attachable
  BY DEF TypeOK
<1> QED BY <1>1 DEF Returns, AwayRedraws, Away, Redraws

LEMMA Step2Shows ==
  ASSUME TypeOK, Returns, CleanIsShown, ping_step2
  PROVE  CleanIsShown'
<1> DEFINE h == currentCabAddr
<1>0. pc # "step1" /\ cab[h] \in CabType /\ h \in Cabs
  BY HereIs DEF ping_step2
<1>1. /\ Asked \in CabType /\ Draws(cab[h], Asked)
      /\ age[h] > 1 \/ cab[h].dirty = Quarter => Asked.dirty = Quarter
  BY <1>0, AskedIs DEF Asked, Here
<1>2. CASE bytes # <<>> /\ Take(Asked)
  <2>1. CASE calm
    <3>1. h \in attached \ drawn => Asked.dirty = Quarter
      BY <1>0, <1>1, <1>2, <2>1, BackIsRedrawn DEF Answered
    <3> QED BY <1>1, <1>2, <2>1, <3>1, TakeShows
  <2>2. CASE ~calm
    BY <1>1, <1>2, <2>2, TakeIs DEF CleanIsShown
  <2> QED BY <2>1, <2>2
<1>3. CASE cab' = [cab EXCEPT ![h] = Asked] /\ UNCHANGED <<attached, shown, calm, drawn>>
  BY <1>0, <1>1, <1>3, DrawsShows
<1>4. CASE cab' = [cab EXCEPT ![h] = Returning(cab[h])] /\ NoneComes
  <2>1. Draws(cab[h], Returning(cab[h]))
    BY <1>0, ReturningIs
  <2>2. (calm' => calm) /\ UNCHANGED <<attached, shown, drawn>>
    BY <1>4, NoneIs
  <2> QED BY <1>0, <1>4, <2>1, <2>2, DrawsShows
<1> QED BY <1>2, <1>3, <1>4, Step2Is

LEMMA WaitShows ==
  ASSUME TypeOK, Returns, CleanIsShown, ping_step2_waits
  PROVE  CleanIsShown'
<1> DEFINE h == currentCabAddr
<1>0. pc = "wait" /\ cab[h] \in CabType /\ Draws(cab[h], cab[h])
  BY HereIs DEF ping_step2_waits, Draws, Agrees
<1>1. CASE bytes # <<>> /\ Take(cab[h])
  <2>1. CASE calm
    <3>1. h \in attached \ drawn => cab[h].dirty = Quarter
      BY <1>0, <1>1, <2>1, BackIsRedrawn DEF Answered, Returns, Waits
    <3> QED BY <1>0, <1>1, <2>1, <3>1, TakeShows
  <2>2. CASE ~calm
    BY <1>0, <1>1, <2>2, TakeIs DEF CleanIsShown
  <2> QED BY <2>1, <2>2
<1>2. CASE NoneComes /\ UNCHANGED cab
  <2>1. (calm' => calm) /\ UNCHANGED <<attached, shown, drawn>>
    BY <1>2, NoneIs
  <2> QED BY <1>2, <2>1 DEF CleanIsShown
<1> QED BY <1>1, <1>2, WaitIs

LEMMA ShownNext ==
  ASSUME TypeOK, Returns, CleanIsShown, [Next]_vars
  PROVE  CleanIsShown'
<1>1. CASE ping_step2
  BY <1>1, Step2Shows
<1>2. CASE ping_step2_waits
  BY <1>2, WaitShows
<1>3. CASE ProgramSets
  <2>0. PICK a \in Attachable : \E d : Sets(cab[a], d) /\ Set_(a, d)
    BY <1>3, ProgramIs
  <2>1. PICK d : Sets(cab[a], d) /\ Set_(a, d)
    BY <2>0
  <2>2. /\ cab' = [cab EXCEPT ![a] = d] /\ UNCHANGED <<attached, drawn, shown, calm>>
        /\ Draws(cab[a], d) /\ a \in Cabs
    BY <2>1, SetIs, HereIs DEF Sets
  <2> QED BY <2>2, DrawsShows
<1>4. CASE PlugIn
  <2>1. PICK a \in Attachable :
           /\ attached' = attached \cup {a} /\ drawn' = drawn \ {a}
           /\ shown' = [shown EXCEPT ![a] = Blank]
           /\ UNCHANGED <<cab, calm>>
    BY <1>4, PlugIs
  <2>2. shown \in [Attachable -> ShownRows] /\ attached \subseteq Attachable
    BY DEF TypeOK, ShownRows
  <2>3. \A b \in attached : b # a => shown'[b] = shown[b]
    BY <2>1, <2>2
  <2> QED BY <2>1, <2>3 DEF CleanIsShown
<1>5. CASE PullOut
  <2>1. attached' \subseteq attached /\ UNCHANGED <<cab, calm, drawn, shown>>
    BY <1>5, PullIs
  <2> QED BY <2>1 DEF CleanIsShown
<1>6. CASE ping_step1 \/ incoming_byte \/ LoseByte \/ UNCHANGED vars
  <2>1. UNCHANGED <<cab, calm, drawn, shown, attached>>
    BY <1>6 DEF ping_step1, incoming_byte, LoseByte, vars, history
  <2> QED BY <2>1 DEF CleanIsShown
<1> QED BY <1>1, <1>2, <1>3, <1>4, <1>5, <1>6 DEF Next

(***************************************************************************)
(* The theorems.                                                           *)
(***************************************************************************)

IInv == TypeOK /\ Framed /\ AllEntering /\ Fresh /\ Returns /\ CleanIsShown

LEMMA InitHolds ==
  ASSUME Init
  PROVE  IInv
<1>1. TypeOK
  BY InitType
<1>2. Framed /\ Fresh
  BY DEF Init, Framed, Fresh
<1>3. AllEntering
  BY NewCabIs, NoSwitch DEF Init, AllEntering, Entering, InMenu
<1>4. Returns
  <2>1. \A a \in Cabs : age[a] # 0
    BY PingTimesAssumption DEF Init, PingTimesAssumption
  <2>2. AgesRise
    BY <2>1 DEF Init, AgesRise
  <2>3. AwayRedraws
    <3>1. \A a \in Attachable : cab[a].dirty = Quarter
      BY NewCabIs, CabsAssumption DEF Init, CabsAssumption
    <3> QED BY <3>1 DEF AwayRedraws, Redraws
  <2> QED BY <2>2, <2>3 DEF Init, Returns, CalmIsClean, Waits, AnswersAreSeen, Answered
<1>5. CleanIsShown
  BY DEF Init, CleanIsShown
<1> QED BY <1>1, <1>2, <1>3, <1>4, <1>5 DEF IInv

LEMMA TypeNextHolds ==
  ASSUME TypeOK, [Next]_vars
  PROVE  TypeOK'
<1>1. CASE ping_step1
  BY <1>1, Step1Type
<1>2. CASE ping_step2
  BY <1>2, Step2Type
<1>3. CASE ping_step2_waits
  BY <1>3, WaitType
<1>4. CASE incoming_byte
  BY <1>4, IncomingType
<1>5. CASE LoseByte
  BY <1>5, LoseType
<1>6. CASE ProgramSets
  BY <1>6, ProgramType
<1>7. CASE PlugIn
  BY <1>7, PlugType
<1>8. CASE PullOut
  BY <1>8, PullType
<1>9. CASE UNCHANGED vars
  BY <1>9, StutterType
<1> QED BY <1>1, <1>2, <1>3, <1>4, <1>5, <1>6, <1>7, <1>8, <1>9 DEF Next

LEMMA NextHolds ==
  ASSUME IInv, [Next]_vars
  PROVE  IInv'
  BY TypeNextHolds, FramedNext, EnteringNext, ReturnsNext, ShownNext DEF IInv

\* CabBus.c and cabbus_cab.c keep the inductive invariant: while no answer was late before
\* this ping, the bytes are those of one answer; a cab's menu holds the number that was typed
\* into it; a cab that was away has its whole screen to be sent, or is old enough for that.
THEOREM Invariance == Spec => []IInv
<1>1. Init => IInv
  BY InitHolds
<1>2. IInv /\ [Next]_vars => IInv'
  BY NextHolds
<1> QED BY <1>1, <1>2, PTL DEF Spec

\* Addresses, ages, the bytes of an answer, cabs and their rows keep their types.
THEOREM TypeCorrect == Spec => []TypeOK
<1>1. IInv => TypeOK
  BY DEF IInv
<1> QED BY <1>1, Invariance, PTL

\* Two bytes that ping_step2 takes for an answer are the two bytes of the cab that was asked,
\* in their order, when no byte was on its way as the ping before it ended.
THEOREM KeysAreOwn == Spec => []OwnKeys
<1>1. IInv => OwnKeys
  BY FramedOwns DEF IInv
<1> QED BY <1>1, Invariance, PTL

\* While no answer was late, a cab on the bus that has answered shows what the master means it
\* to show, in every quarter that is not to be sent, also after it was pulled out and put back.
\* Only the first character of the right half of the bottom row may differ, where set_loco_speed
\* (or set_direction) has made it blank without sending that half.
THEOREM ScreensAreTrue == Spec => []CleanIsShown
<1>1. IInv => CleanIsShown
  BY DEF IInv
<1> QED BY <1>1, Invariance, PTL

\* The number of a switch that a cab throws is the number that was typed, modulo 2^16, unless
\* one menu was opened inside the other.
THEOREM SwitchesAreAsEntered == Spec => []SwitchAsEntered
<1>1. IInv => SwitchAsEntered
  BY EnteringThrows DEF IInv
<1> QED BY <1>1, Invariance, PTL
=============================================================================
