------------------------------ MODULE EventList ------------------------------
(* The lists of event IDs of the LCC library (LCC/lcc-common-internal.c): what  *)
(* a list holds after each operation, and what a bisection finds in it.         *)
EXTENDS Integers, Sequences, FiniteSets

(* event_list_sort: an event goes behind all that are less; equal ones keep their order. *)
Rank(list, i) ==
    Cardinality({j \in DOMAIN list : list[j] < list[i] \/ (list[j] = list[i] /\ j <= i)})
SortedList(list) ==
    [place \in DOMAIN list |-> list[CHOOSE i \in DOMAIN list : Rank(list, i) = place]]

(* Mutation: an event is appended and never sorted in. *)
AddEventLast(list, event, sort) == Append(list, event)

(* event_list_add_event; within a transaction the list is not sorted. *)
AddEvent(list, event, sort) ==
    IF sort THEN SortedList(Append(list, event)) ELSE Append(list, event)

(* event_list_remove_event: what is behind the event moves down, but for the last *)
(* one; `found' is never set, so the list keeps its length.                       *)
RemoveEvent(list, event) ==
    LET at == {i \in DOMAIN list : list[i] = event}
    IN  [i \in DOMAIN list |->
            IF i < Len(list) - 1 /\ (\E j \in at : j <= i) THEN list[i + 1] ELSE list[i]]

(* event_list_has_event: the bisection of the C library. *)
HasEvent(list, event) ==
    LET found[r \in (0..Len(list)) \X (0..Len(list))] ==
            /\ r[1] < r[2]
            /\ LET middle == (r[1] + r[2]) \div 2
                   there  == list[middle + 1]
               IN  \/ event = there
                   \/ event < there /\ found[<<r[1], middle>>]
                   \/ event > there /\ found[<<middle + 1, r[2]>>]
    IN  found[<<0, Len(list)>>]
==============================================================================
