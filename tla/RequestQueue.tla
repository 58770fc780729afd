---------------------------- MODULE RequestQueue ----------------------------
(***************************************************************************)
(* What LCCConnection promises the callers of readSingleMemoryBlock,       *)
(* writeSingleMemoryBlock, queryAddressSpaceInformation and                *)
(* sendUpdateComplete (GUI/lcc/lccconnection.h): requests are numbered in  *)
(* the order in which they are made, a request is put on the bus only when *)
(* every request made before it has an outcome, and a request gets exactly *)
(* one outcome and keeps it.  Nothing here says how a response finds its   *)
(* request, or when the client gives up.                                   *)
(***************************************************************************)
EXTENDS Integers

CONSTANT MaxRequests  \* how many requests are ever made

VARIABLES
  outcome,  \* outcome[i]: "unmade", "pending", "ok" or "failed"
  onBus     \* the request that was last put on the bus, 0 before the first

vars == <<outcome, onBus>>

Ids == 1..MaxRequests

Outcome == {"unmade", "pending", "ok", "failed"}

\* i is the request in o whose turn it is.
IsNext(i, o) ==
  /\ o[i] = "pending"
  /\ \A j \in Ids : j < i => o[j] \notin {"unmade", "pending"}

\* i is the request that is made next.
Made(i, o) ==
  /\ o[i] = "unmade"
  /\ \A j \in Ids : j < i => o[j] # "unmade"

Init ==
  /\ outcome = [i \in Ids |-> "unmade"]
  /\ onBus = 0

Submit(i) ==
  /\ Made(i, outcome)
  /\ outcome' = [outcome EXCEPT ![i] = "pending"]
  /\ onBus' = onBus

Transmit(i) ==
  /\ IsNext(i, outcome)
  /\ onBus' = i
  /\ UNCHANGED outcome

\* Making a request while the bus is idle can put a request on it at once.
SubmitAndTransmit(i, j) ==
  /\ Made(i, outcome)
  /\ outcome' = [outcome EXCEPT ![i] = "pending"]
  /\ IsNext(j, outcome')
  /\ onBus' = j

Settle(i) ==
  /\ outcome[i] = "pending"
  /\ \E o \in {"ok", "failed"} : outcome' = [outcome EXCEPT ![i] = o]
  /\ UNCHANGED onBus

\* The request that was to go out at once could not be sent.
SubmitAndFail(i, j) ==
  LET made == [outcome EXCEPT ![i] = "pending"] IN
  /\ Made(i, outcome)
  /\ IsNext(j, made)
  /\ outcome' = [made EXCEPT ![j] = "failed"]
  /\ UNCHANGED onBus

Next ==
  \/ \E i \in Ids : Submit(i) \/ Transmit(i) \/ Settle(i)
  \/ \E i, j \in Ids : SubmitAndTransmit(i, j) \/ SubmitAndFail(i, j)

Spec == Init /\ [][Next]_vars
=============================================================================
