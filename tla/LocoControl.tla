----------------------------- MODULE LocoControl -----------------------------
(* What a LocoNet throttle promises its user: it drives the locomotive that    *)
(* the user selected last and no other one, takes none after the selection was *)
(* aborted, and lets go only when told to, unless it is told to stay before it  *)
(* has let go.                                                                 *)
CONSTANTS Throttles, Locos

VARIABLE control  \* what each throttle does, and with which locomotive

None == <<"none">>
Wanting(l) == <<"wanting", l>>
Driving(l) == <<"driving", l>>
Leaving(l) == <<"leaving", l>>

Init == control = [t \in Throttles |-> None]

(* The user selects a locomotive, or another one as long as none is driven. *)
Select(t, l) ==
    /\ control[t] = None \/ \E k \in Locos : control[t] = Wanting(k)
    /\ control'[t] = Wanting(l)

Take(t, l) ==
    /\ control[t] = Wanting(l)
    /\ control'[t] = Driving(l)

Abort(t) ==
    /\ \E l \in Locos : control[t] = Wanting(l)
    /\ control'[t] = None

Dispatch(t, l) ==
    /\ control[t] = Driving(l)
    /\ control'[t] = Leaving(l)

LetGo(t) ==
    /\ \E l \in Locos : control[t] = Leaving(l)
    /\ control'[t] = None

(* A dispatch that is cut short: the throttle drives on. *)
Stay(t, l) ==
    /\ control[t] = Leaving(l)
    /\ control'[t] = Driving(l)

Step(t) ==
    \/ \E l \in Locos : Select(t, l) \/ Take(t, l) \/ Dispatch(t, l) \/ Stay(t, l)
    \/ Abort(t)
    \/ LetGo(t)

(* One throttle after the other. *)
Next == \E t \in Throttles : Step(t) /\ control' = [control EXCEPT ![t] = control'[t]]

Spec == Init /\ [][Next]_control
==============================================================================
