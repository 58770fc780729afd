------------------------------ MODULE MCLccNodes ------------------------------
(* LccNodes with two devices and two events; at the start, the first device     *)
(* produces one of them and consumes both, and the other one none.              *)
EXTENDS LccNodes, AccessoryEvents, BusFormats

CONSTANTS a, b

None == [k \in Kinds |-> <<>>]
Some == [k \in Kinds |-> IF k = "produced" THEN <<1>> ELSE <<1, 2>>]
\* The other device has not come yet, or has.
SomeAliases == {[n \in Nodes |-> IF n = a THEN 1 ELSE later] : later \in {NoAlias, 2}}
SomeLists == {[n \in Nodes |-> IF n = a THEN Some ELSE None]}
===============================================================================
