------------------------------ MODULE MCCabBus -------------------------------
EXTENDS CabBus, CabBusBridge, TLC

(* The cab at address 3 has the keys of the menus; the one at 4 can be pulled out. *)
MenuKeys == {SELECT_LOCO_KEY, SEL_ACCY_KEY, ENTER, PROGRAM_KEY, REPEAT_SCREEN, 81}
SomeKeys == 3 :> MenuKeys @@ 4 :> {STEP_SLOWER_KEY}

(* Six keys without an event, one with an event, none with two. *)
SomeEvents == <<6, 1, 0>>
=============================================================================
