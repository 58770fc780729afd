-------------------------- MODULE LccLibraryProof --------------------------
(***************************************************************************)
(* Proofs about what src/LCC does with its frames: that aliases are unique *)
(* (AliasNegotiation), and that datagrams come whole and get one answer    *)
(* each (DatagramServer). The two share nothing but the module.            *)
(***************************************************************************)
EXTENDS AliasNegotiation, DatagramServer, SequenceTheorems, TLAPS

(***************************************************************************)
(* Aliases: for every set of nodes and every bound.                        *)
(***************************************************************************)

\* What the fields of a node say about each other.
Phases ==
  \A n \in Nodes :
    /\ alias[n] = 0 => ~permitted[n] /\ ~timer[n] /\ ~onBus[n]
    /\ permitted[n] <=> aliasState[n] = "good"
    /\ timer[n] => ~permitted[n]
    /\ late[n] => disturbed

\* A CID frame that waits to go out names its sender.
Sources ==
  \A n \in Nodes : \A f \in Range(tx[n]) : f.kind = "cid" => f.src = n

\* Nothing of the negotiation of a node is on its way once it is over.
Silent ==
  ~disturbed => \A n \in Nodes :
    onBus[n] /\ permitted[n] => \A f \in InFlight : ~Concerns(f, n)

\* Node m knows, or will be told, that n has its alias.
Told(m, n) == aliasState[m] = "fail" \/ Challenged(m, n)

\* Of two nodes with the same alias one is told, and the other one if that one
\* has claimed it.
Contested ==
  ~disturbed => \A n, m \in Nodes :
    n # m /\ onBus[n] /\ onBus[m] /\ alias[n] = alias[m]
      => /\ Told(m, n) \/ Told(n, m)
         /\ permitted[n] => Told(m, n)

\* The inductive invariant.
IInv == TypeOK /\ Phases /\ Sources /\ Silent /\ Contested

USE NodesAssumption, AliasAssumption, SizesAssumption

-----------------------------------------------------------------------------
(***************************************************************************)
(* What sequences of frames hold.                                          *)
(***************************************************************************)

\* A sequence holds its head and what its tail holds.
LEMMA RangeTail ==
  ASSUME NEW S, NEW s \in Seq(S), s # <<>>
  PROVE  /\ Head(s) \in S /\ Tail(s) \in Seq(S)
         /\ Len(Tail(s)) <= Len(s)
         /\ Range(s) = Range(Tail(s)) \cup {Head(s)}
<1>1. /\ Head(s) \in S /\ Tail(s) \in Seq(S)
      /\ Len(Tail(s)) = Len(s) - 1
      /\ \A i \in 1..Len(Tail(s)) : Tail(s)[i] = s[i + 1]
  BY HeadTailProperties
<1>2. Range(s) = {s[i] : i \in 1..Len(s)}
  BY RangeEquality
<1>3. Range(Tail(s)) = {Tail(s)[i] : i \in 1..Len(Tail(s))}
  BY <1>1, RangeEquality
<1>4. Len(s) \in Nat \ {0} /\ Head(s) = s[1]
  BY EmptySeq
<1>5. Range(s) \subseteq Range(Tail(s)) \cup {Head(s)}
  <2> SUFFICES ASSUME NEW i \in 1..Len(s)
               PROVE  s[i] \in Range(Tail(s)) \cup {Head(s)}
    BY <1>2
  <2>1. CASE i = 1
    BY <2>1, <1>4
  <2>2. CASE i # 1
    <3>1. (i - 1) \in 1..Len(Tail(s)) /\ s[i] = Tail(s)[i - 1]
      BY <2>2, <1>1, <1>4
    <3> QED BY <3>1, <1>3
  <2> QED BY <2>1, <2>2
<1>6. Range(Tail(s)) \cup {Head(s)} \subseteq Range(s)
  BY <1>1, <1>2, <1>3, <1>4
<1> QED BY <1>1, <1>4, <1>5, <1>6

\* Appending adds what is appended.
LEMMA RangeAppend ==
  ASSUME NEW S, NEW s \in Seq(S), NEW e \in S
  PROVE  Append(s, e) \in Seq(S) /\ Range(Append(s, e)) = Range(s) \cup {e}
<1> DEFINE t == <<e>>
<1>1. t \in Seq(S) /\ Range(t) = {e}
  BY DEF Range
<1>2. Append(s, e) \in Seq(S) /\ Append(s, e) = s \o t
  BY AppendProperties, AppendIsConcat
<1> HIDE DEF t
<1>3. Range(s \o t) = Range(s) \cup Range(t)
  BY <1>1, RangeConcatenation
<1> QED BY <1>1, <1>2, <1>3

\* A prefix holds no more than the sequence.
LEMMA RangePrefix ==
  ASSUME NEW S, NEW s \in Seq(S), NEW k \in Int, k <= Len(s)
  PROVE  /\ SubSeq(s, 1, k) \in Seq(S)
         /\ Len(SubSeq(s, 1, k)) = IF 1 <= k THEN k ELSE 0
         /\ Range(SubSeq(s, 1, k)) \subseteq Range(s)
<1>1. Len(s) \in Nat /\ \A i \in 1..Len(s) : s[i] \in S
  BY LenProperties, ElementOfSeq
<1>2. /\ SubSeq(s, 1, k) \in Seq(S)
      /\ Len(SubSeq(s, 1, k)) = IF 1 <= k THEN k - 1 + 1 ELSE 0
      /\ \A i \in 1..(k - 1 + 1) : SubSeq(s, 1, k)[i] = s[1 + i - 1]
  <2>1. \A i \in 1..k : s[i] \in S
    BY <1>1
  <2> QED BY <2>1, SubSeqProperties
<1>3. Range(s) = {s[i] : i \in 1..Len(s)}
  BY RangeEquality
<1>4. Range(SubSeq(s, 1, k)) =
        {SubSeq(s, 1, k)[i] : i \in 1..Len(SubSeq(s, 1, k))}
  BY <1>2, RangeEquality
<1> QED BY <1>1, <1>2, <1>3, <1>4

-----------------------------------------------------------------------------
(***************************************************************************)
(* What writing frames does to the transmit buffers.                       *)
(***************************************************************************)
LEMMA WriteEffect ==
  ASSUME TypeOK, NEW n \in Nodes, NEW frames \in Seq(Frame), NEW up,
         Write(n, frames, up)
  PROVE  /\ tx' \in [Nodes -> Seq(Frame)]
         /\ \A d \in Devices : Len(tx'[d]) <= TxSize
         /\ disturbed' \in BOOLEAN
         /\ \A m \in Nodes \ {n} : tx'[m] = tx[m]
         /\ Range(tx[n]) \subseteq Range(tx'[n])
         /\ Range(tx'[n]) \subseteq Range(tx[n]) \cup Range(frames)
         /\ ~disturbed' => ~disturbed
         /\ ~disturbed' /\ up => Range(frames) \subseteq Range(tx'[n])
<1>0. /\ tx \in [Nodes -> Seq(Frame)] /\ \A d \in Devices : Len(tx[d]) <= TxSize
      /\ Devices \subseteq Nodes
  BY DEF TypeOK
<1>1. /\ tx[n] \in Seq(Frame) /\ Len(tx[n]) \in Nat /\ Len(frames) \in Nat
      /\ disturbed \in BOOLEAN
  BY LenProperties DEF TypeOK
<1>2. /\ disturbed' \in BOOLEAN
      /\ ~disturbed' => ~disturbed
      /\ ~disturbed' /\ up => CanWrite(n, frames, up)
  BY <1>1 DEF Write
<1>3. ASSUME NEW new \in Seq(Frame), tx' = [tx EXCEPT ![n] = new],
             n \in Devices => Len(new) <= TxSize
      PROVE  /\ tx' \in [Nodes -> Seq(Frame)]
             /\ \A d \in Devices : Len(tx'[d]) <= TxSize
             /\ \A m \in Nodes \ {n} : tx'[m] = tx[m]
             /\ tx'[n] = new
  BY <1>0, <1>3
<1>4. CASE CanWrite(n, frames, up)
  <2> DEFINE new == tx[n] \o frames
  <2>1. tx' = [tx EXCEPT ![n] = new]
    BY <1>4 DEF Write
  <2>2. /\ new \in Seq(Frame)
        /\ Len(new) = Len(tx[n]) + Len(frames)
        /\ Range(new) = Range(tx[n]) \cup Range(frames)
    BY <1>1, ConcatProperties, RangeConcatenation
  <2>3. n \in Devices => Len(new) <= TxSize
    BY <1>4, <2>2 DEF CanWrite
  <2> HIDE DEF new
  <2>4. /\ tx' \in [Nodes -> Seq(Frame)]
        /\ \A d \in Devices : Len(tx'[d]) <= TxSize
        /\ \A m \in Nodes \ {n} : tx'[m] = tx[m]
        /\ tx'[n] = new
    BY <1>3, <2>1, <2>2, <2>3
  <2> QED BY <1>2, <2>2, <2>4
<1>5. CASE ~CanWrite(n, frames, up) /\ n \in Devices
  <2> DEFINE room == TxSize - Len(tx[n])
             part == SubSeq(frames, 1, room)
             new == tx[n] \o part
  <2>1. tx' = [tx EXCEPT ![n] = new]
    BY <1>5 DEF Write
  <2>2. room \in Int /\ 0 <= room /\ room <= Len(frames)
    BY <1>0, <1>1, <1>5 DEF CanWrite
  <2>3. room = TxSize - Len(tx[n])
    OBVIOUS
  <2> HIDE DEF room
  <2>4. /\ part \in Seq(Frame) /\ Range(part) \subseteq Range(frames)
        /\ Len(part) = IF 1 <= room THEN room ELSE 0
    BY <2>2, RangePrefix
  <2> HIDE DEF part
  <2>5. /\ new \in Seq(Frame)
        /\ Len(new) = Len(tx[n]) + Len(part)
        /\ Range(new) = Range(tx[n]) \cup Range(part)
    BY <1>1, <2>4, ConcatProperties, RangeConcatenation
  <2> HIDE DEF new
  <2>6. Len(new) <= TxSize
    <3>1. Len(part) = room
      BY <2>2, <2>4
    <3>2. Len(new) = Len(tx[n]) + (TxSize - Len(tx[n]))
      BY <2>3, <2>5, <3>1
    <3> QED BY <1>1, <3>2
  <2>7. /\ tx' \in [Nodes -> Seq(Frame)]
        /\ \A d \in Devices : Len(tx'[d]) <= TxSize
        /\ \A m \in Nodes \ {n} : tx'[m] = tx[m]
        /\ tx'[n] = new
    <3>1. n \in Devices => Len(new) <= TxSize
      BY <2>6
    <3> QED BY <1>3, <2>1, <2>5, <3>1
  <2> QED BY <1>2, <1>5, <2>4, <2>5, <2>7
<1>6. CASE ~CanWrite(n, frames, up) /\ n \notin Devices
  <2>1. tx' = tx
    BY <1>0, <1>6 DEF Write
  <2> QED BY <1>0, <1>2, <1>6, <2>1
<1> QED BY <1>4, <1>5, <1>6
\* A frame that is put together from its parts is a frame.
LEMMA SendsType ==
  ASSUME NEW n \in Nodes \cup {NoNode}, NEW m \in Nodes \cup {NoNode},
         NEW k \in {"cid", "rid", "other", "datagram", "ame"},
         NEW a \in Aliases \cup {ToolAlias}
  PROVE  /\ Sends(n, k, a, m) \in Frame
         /\ Sends(n, k, a, m).kind = k /\ Sends(n, k, a, m).alias = a
         /\ Sends(n, k, a, m).src = n /\ Sends(n, k, a, m).to = m
  BY DEF Sends, Frame

\* One frame is written.
LEMMA OneFrame ==
  ASSUME NEW f \in Frame
  PROVE  <<f>> \in Seq(Frame) /\ Range(<<f>>) = {f}
  BY DEF Range

\* Two frames are written.
LEMMA TwoFrames ==
  ASSUME NEW f \in Frame, NEW g \in Frame
  PROVE  <<f, g>> \in Seq(Frame) /\ Range(<<f, g>>) = {f, g}
<1>1. <<f, g>> \in Seq(Frame) /\ Len(<<f, g>>) = 2
  OBVIOUS
<1>2. Range(<<f, g>>) = {<<f, g>>[i] : i \in 1..2}
  BY <1>1, RangeEquality
<1> QED BY <1>1, <1>2

\* The CID frames of a node carry its new alias and its name.
LEMMA CidsType ==
  ASSUME TypeOK, NEW n \in Nodes
  PROVE  /\ NextAlias(n) \in Aliases
         /\ Cids(n) \in Seq(Frame)
         /\ Range(Cids(n)) = {Sends(n, "cid", NextAlias(n), NoNode)}
<1>1. NextAlias(n) \in Aliases
  BY DEF TypeOK, NextAlias, Aliases
<1> DEFINE c == Sends(n, "cid", NextAlias(n), NoNode)
<1>2. c \in Frame
  BY <1>1, SendsType
<1>3. Cids(n) = [i \in 1..CidFrames |-> c]
  BY DEF Cids
<1> HIDE DEF c
<1>4. Cids(n) \in Seq(Frame)
  BY <1>2, <1>3
<1>5. Range(Cids(n)) = {c}
  BY <1>3 DEF Range
<1> QED BY <1>1, <1>4, <1>5 DEF c

\* A frame reaches everybody else on the bus, and nothing else is received.
LEMMA DeliverEffect ==
  ASSUME TypeOK, NEW f \in Frame, NEW sender, Deliver(f, sender)
  PROVE  /\ rx' \in [Nodes -> Seq(Frame)]
         /\ \A m \in Nodes :
              /\ Range(rx[m]) \subseteq Range(rx'[m])
              /\ Range(rx'[m]) \subseteq Range(rx[m]) \cup {f}
              /\ m # sender /\ onBus[m] => f \in Range(rx'[m])
<1>1. \A m \in Nodes : /\ rx[m] \in Seq(Frame)
                       /\ Append(rx[m], f) \in Seq(Frame)
                       /\ Range(Append(rx[m], f)) = Range(rx[m]) \cup {f}
  BY RangeAppend DEF TypeOK
<1>2. rx' = [m \in Nodes |->
               IF m # sender /\ onBus[m] THEN Append(rx[m], f) ELSE rx[m]]
  BY DEF Deliver
<1> QED BY <1>1, <1>2

-----------------------------------------------------------------------------
(***************************************************************************)
(* Being told: what keeps it, and what establishes it.                     *)
(***************************************************************************)

\* What is on its way stays, and so does what a node knows.
LEMMA ToldKept ==
  ASSUME NEW m \in Nodes, NEW n \in Nodes, Told(m, n),
         alias'[m] = alias[m],
         aliasState[m] = "fail" => aliasState'[m] = "fail",
         \A k \in {m, n} : /\ Range(tx[k]) \subseteq Range(tx'[k])
                           /\ Range(rx[k]) \subseteq Range(rx'[k])
  PROVE  Told(m, n)'
  BY DEF Told, Challenged

\* A node that has just asked will be told by everybody who has its alias.
LEMMA AskedIsTold ==
  ASSUME NEW m \in Nodes, NEW n \in Nodes, NEW f \in Range(tx'[m]),
         f.kind = "cid", f.alias = alias'[m]
  PROVE  Told(m, n)'
  BY DEF Told, Challenged

\* The frames on their way, when one sequence at a time changes.
LEMMA InFlightGrows ==
  ASSUME NEW X,
         \A m \in Nodes : /\ Range(tx'[m]) \subseteq Range(tx[m]) \cup X
                          /\ Range(rx'[m]) \subseteq Range(rx[m]) \cup X
  PROVE  InFlight' \subseteq InFlight \cup X
  BY DEF InFlight
-----------------------------------------------------------------------------
(***************************************************************************)
(* One lemma per operation: it keeps the inductive invariant.              *)
(***************************************************************************)

\* lcc_context_generate_alias, called by setup, the loop, or the GUI.
LEMMA GenerateInv ==
  ASSUME IInv, NEW n \in Nodes, NEW up \in BOOLEAN, GenerateAlias(n, up),
         ~permitted[n],
         onBus' = [onBus EXCEPT ![n] = up],
         timer' \in [Nodes -> BOOLEAN],
         \A k \in Nodes \ {n} : timer'[k] = timer[k],
         UNCHANGED <<permitted, rx>>
  PROVE  IInv'
<1> DEFINE c == Sends(n, "cid", NextAlias(n), NoNode)
<1>1. /\ NextAlias(n) \in Aliases
      /\ Cids(n) \in Seq(Frame) /\ Range(Cids(n)) = {c}
  BY CidsType DEF IInv
<1>2. /\ c.kind = "cid" /\ c.alias = NextAlias(n)
      /\ c.src = n /\ c.to = NoNode
  BY <1>1, SendsType
<1> HIDE DEF c
<1>3. /\ tx' \in [Nodes -> Seq(Frame)]
      /\ \A d \in Devices : Len(tx'[d]) <= TxSize
      /\ disturbed' \in BOOLEAN
      /\ \A m \in Nodes \ {n} : tx'[m] = tx[m]
      /\ Range(tx[n]) \subseteq Range(tx'[n])
      /\ Range(tx'[n]) \subseteq Range(tx[n]) \cup {c}
      /\ ~disturbed' => ~disturbed
      /\ ~disturbed' /\ up => c \in Range(tx'[n])
  <2>1. Write(n, Cids(n), up)
    BY DEF GenerateAlias
  <2>2. TypeOK
    BY DEF IInv
  <2> DEFINE frames == Cids(n)
  <2> HIDE DEF frames
  <2>3. frames \in Seq(Frame) /\ Range(frames) = {c} /\ Write(n, frames, up)
    BY <1>1, <2>1 DEF frames
  <2>4. /\ tx' \in [Nodes -> Seq(Frame)]
        /\ \A d \in Devices : Len(tx'[d]) <= TxSize
        /\ disturbed' \in BOOLEAN
        /\ \A m \in Nodes \ {n} : tx'[m] = tx[m]
        /\ Range(tx[n]) \subseteq Range(tx'[n])
        /\ Range(tx'[n]) \subseteq Range(tx[n]) \cup Range(frames)
        /\ ~disturbed' => ~disturbed
        /\ ~disturbed' /\ up => Range(frames) \subseteq Range(tx'[n])
    BY <2>2, <2>3, WriteEffect
  <2> QED BY <2>3, <2>4
<1>4. /\ alias' = [alias EXCEPT ![n] = NextAlias(n)]
      /\ aliasState' \in [Nodes -> {"not_set", "sent_cid", "fail", "good"}]
      /\ aliasState'[n] # "good"
      /\ \A m \in Nodes \ {n} : aliasState'[m] = aliasState[m]
      /\ late' = [late EXCEPT ![n] = FALSE]
  BY DEF GenerateAlias, IInv, TypeOK, Phases
<1>5. alias'[n] = NextAlias(n) /\ alias'[n] # 0
  BY <1>1, <1>4 DEF IInv, TypeOK, Aliases
<1>6. TypeOK'
  BY <1>1, <1>3, <1>4 DEF IInv, TypeOK, Aliases
<1>7. Phases'
  <2> SUFFICES ASSUME NEW k \in Nodes
               PROVE  /\ alias'[k] = 0 => ~permitted'[k] /\ ~timer'[k] /\ ~onBus'[k]
                      /\ permitted'[k] <=> aliasState'[k] = "good"
                      /\ timer'[k] => ~permitted'[k]
                      /\ late'[k] => disturbed'
    BY DEF Phases
  <2>1. CASE k = n
    BY <1>4, <1>5, <2>1 DEF IInv, TypeOK
  <2>2. CASE k # n
    BY <1>3, <1>4, <2>2 DEF IInv, TypeOK, Phases
  <2> QED BY <2>1, <2>2
<1>8. Sources'
  <2> SUFFICES ASSUME NEW k \in Nodes, NEW f \in Range(tx'[k]), f.kind = "cid"
               PROVE  f.src = k
    BY DEF Sources
  <2>1. CASE k = n
    BY <1>2, <1>3, <2>1 DEF IInv, Sources
  <2>2. CASE k # n
    BY <1>3, <2>2 DEF IInv, Sources
  <2> QED BY <2>1, <2>2
<1>9. Silent'
  <2> SUFFICES ASSUME ~disturbed', NEW k \in Nodes, onBus'[k], permitted'[k],
                      NEW f \in InFlight'
               PROVE  ~Concerns(f, k)
    BY DEF Silent
  <2>1. k # n /\ onBus[k] /\ permitted[k]
    BY DEF IInv, TypeOK
  <2>2. InFlight' \subseteq InFlight \cup {c}
    BY <1>3, InFlightGrows
  <2>3. \A g \in InFlight : ~Concerns(g, k)
    BY <1>3, <2>1 DEF IInv, Silent
  <2>4. ~Concerns(c, k)
    BY <1>2, <2>1 DEF Concerns
  <2> QED BY <2>2, <2>3, <2>4
<1>10. Contested'
  <2> SUFFICES ASSUME ~disturbed', NEW a \in Nodes, NEW b \in Nodes, a # b,
                      onBus'[a], onBus'[b], alias'[a] = alias'[b]
               PROVE  /\ Told(b, a)' \/ Told(a, b)'
                      /\ permitted'[a] => Told(b, a)'
    BY DEF Contested
  <2>1. onBus'[n] = up
    BY DEF IInv, TypeOK
  <2>2. CASE a = n
    <3>1. Told(a, b)'
      BY <1>2, <1>3, <1>5, <2>1, <2>2, AskedIsTold
    <3> QED BY <2>2, <3>1
  <2>3. CASE b = n
    <3>1. Told(b, a)'
      BY <1>2, <1>3, <1>5, <2>1, <2>3, AskedIsTold
    <3> QED BY <3>1
  <2>4. CASE a # n /\ b # n
    <3>1. onBus[a] /\ onBus[b] /\ alias'[a] = alias[a] /\ alias'[b] = alias[b]
      BY <1>4, <2>4 DEF IInv, TypeOK
    <3>2. /\ Told(b, a) \/ Told(a, b)
          /\ permitted[a] => Told(b, a)
      BY <1>3, <3>1 DEF IInv, Contested
    <3>3. /\ Told(b, a) => Told(b, a)'
          /\ Told(a, b) => Told(a, b)'
      BY <1>3, <1>4, <2>4, <3>1, ToldKept
    <3> QED BY <3>2, <3>3
  <2> QED BY <2>2, <2>3, <2>4
<1> QED BY <1>6, <1>7, <1>8, <1>9, <1>10 DEF IInv
\* Frames that answer nobody and ask nothing do not change who is told.
LEMMA OtherWriteInv ==
  ASSUME IInv, NEW n \in Nodes, NEW frames \in Seq(Frame),
         Write(n, frames, onBus[n]),
         \A f \in Range(frames) : f.kind # "cid" /\ f.to = NoNode,
         aliasState' \in [Nodes -> {"not_set", "sent_cid", "fail", "good"}],
         permitted' \in [Nodes -> BOOLEAN], timer' \in [Nodes -> BOOLEAN],
         Phases',
         \A k \in Nodes : aliasState[k] = "fail" => aliasState'[k] = "fail",
         \A k \in Nodes :
           \/ permitted'[k] = permitted[k]
           \/ ~disturbed /\ onBus[k] =>
                /\ \A f \in InFlight : ~Concerns(f, k)
                /\ \A m \in Nodes : ~Told(k, m),
         UNCHANGED <<alias, onBus, late, rx>>
  PROVE  IInv'
<1>0. TypeOK /\ Phases /\ Sources /\ Silent /\ Contested
  BY DEF IInv
<1>1. /\ tx' \in [Nodes -> Seq(Frame)]
      /\ \A d \in Devices : Len(tx'[d]) <= TxSize
      /\ disturbed' \in BOOLEAN
      /\ \A m \in Nodes \ {n} : tx'[m] = tx[m]
      /\ Range(tx[n]) \subseteq Range(tx'[n])
      /\ Range(tx'[n]) \subseteq Range(tx[n]) \cup Range(frames)
      /\ ~disturbed' => ~disturbed
  BY <1>0, WriteEffect
<1>2. TypeOK'
  BY <1>0, <1>1 DEF TypeOK
<1>3. Sources'
  <2> SUFFICES ASSUME NEW k \in Nodes, NEW f \in Range(tx'[k]), f.kind = "cid"
               PROVE  f.src = k
    BY DEF Sources
  <2>1. CASE k = n
    BY <1>0, <1>1, <2>1 DEF Sources
  <2>2. CASE k # n
    BY <1>0, <1>1, <2>2 DEF Sources
  <2> QED BY <2>1, <2>2
<1>4. Silent'
  <2> SUFFICES ASSUME ~disturbed', NEW k \in Nodes, onBus'[k], permitted'[k],
                      NEW f \in InFlight'
               PROVE  ~Concerns(f, k)
    BY DEF Silent
  <2>1. InFlight' \subseteq InFlight \cup Range(frames)
    BY <1>1, InFlightGrows
  <2>2. \A g \in InFlight : ~Concerns(g, k)
    BY <1>0, <1>1 DEF Silent
  <2>3. \A g \in Range(frames) : ~Concerns(g, k)
    BY DEF Concerns
  <2> QED BY <2>1, <2>2, <2>3
<1>5. Contested'
  <2> SUFFICES ASSUME ~disturbed', NEW a \in Nodes, NEW b \in Nodes, a # b,
                      onBus'[a], onBus'[b], alias'[a] = alias'[b]
               PROVE  /\ Told(b, a)' \/ Told(a, b)'
                      /\ permitted'[a] => Told(b, a)'
    BY DEF Contested
  <2>1. /\ Told(b, a) \/ Told(a, b)
        /\ permitted[a] => Told(b, a)
    BY <1>0, <1>1 DEF Contested
  <2>2. permitted'[a] => permitted[a] \/ ~Told(a, b)
    BY <1>1
  <2>3. \A k \in {a, b} : /\ Range(tx[k]) \subseteq Range(tx'[k])
                          /\ Range(rx[k]) \subseteq Range(rx'[k])
    BY <1>1
  <2>4. /\ Told(b, a) => Told(b, a)'
        /\ Told(a, b) => Told(a, b)'
    BY <2>3, ToldKept
  <2> QED BY <2>1, <2>2, <2>4
<1> QED BY <1>2, <1>3, <1>4, <1>5 DEF IInv

\* LCCQIoConnection::generateAliasDone, and the loop of a device.
LEMMA GenerateAliasDoneInv ==
  ASSUME IInv, NEW n \in Nodes, GenerateAliasDone(n)
  PROVE  IInv'
<1>0. TypeOK /\ Phases /\ Sources /\ Silent /\ Contested
  BY DEF IInv
<1>1. timer[n] /\ WaitIsOver(n) /\ UNCHANGED <<onBus, rx>> /\ ~permitted[n]
  BY <1>0 DEF GenerateAliasDone, Phases
<1>2. CASE /\ MayClaim(n) /\ ClaimAlias(n)
           /\ timer' = [timer EXCEPT ![n] = FALSE]
  <2> DEFINE r == Sends(n, "rid", alias[n], NoNode)
             o == Sends(n, "other", alias[n], NoNode)
             frames == <<r, o>>
  <2>1. alias[n] \in Aliases
    BY <1>0, <1>1 DEF TypeOK, Phases, Aliases
  <2>2. /\ r \in Frame /\ r.kind = "rid" /\ r.to = NoNode
        /\ o \in Frame /\ o.kind = "other" /\ o.to = NoNode
    BY <2>1, SendsType
  <2> HIDE DEF r, o
  <2>3. frames \in Seq(Frame) /\ Range(frames) = {r, o}
    BY <2>2, TwoFrames
  <2>4. Write(n, frames, onBus[n])
    BY <1>2 DEF ClaimAlias, r, o
  <2> HIDE DEF frames
  <2>5. \A f \in Range(frames) : f.kind # "cid" /\ f.to = NoNode
    BY <2>2, <2>3
  <2>6. /\ aliasState[n] = "sent_cid"
        /\ aliasState' = [aliasState EXCEPT ![n] = "good"]
        /\ permitted' = [permitted EXCEPT ![n] = TRUE]
        /\ UNCHANGED <<alias, late>>
    BY <1>2 DEF MayClaim, ClaimAlias
  <2>7. ~disturbed' => ~disturbed
    BY <1>0 , <2>3, <2>4, WriteEffect
  <2>8. Phases'
    <3> SUFFICES ASSUME NEW k \in Nodes
                 PROVE  /\ alias'[k] = 0 => ~permitted'[k] /\ ~timer'[k] /\ ~onBus'[k]
                        /\ permitted'[k] <=> aliasState'[k] = "good"
                        /\ timer'[k] => ~permitted'[k]
                        /\ late'[k] => disturbed'
      BY DEF Phases
    <3>1. CASE k = n
      BY <1>0, <1>1, <1>2, <2>1, <2>6, <2>7, <3>1 DEF TypeOK, Phases, Aliases
    <3>2. CASE k # n
      BY <1>0, <1>1, <1>2, <2>6, <2>7, <3>2 DEF TypeOK, Phases
    <3> QED BY <3>1, <3>2
  <2>9. ~disturbed /\ onBus[n] => \A f \in InFlight : ~Concerns(f, n)
    BY <1>0, <1>1 DEF WaitIsOver, Phases
  <2>10. ~disturbed /\ onBus[n] => \A m \in Nodes : ~Told(n, m)
    <3> SUFFICES ASSUME ~disturbed, onBus[n], NEW m \in Nodes PROVE ~Told(n, m)
      OBVIOUS
    <3>1. \A k \in Nodes : \A f \in Range(tx[k]) \cup Range(rx[k]) :
             f \in InFlight
      BY DEF InFlight
    <3>2. \A f \in Range(tx[n]) : f.kind # "cid"
      BY <1>0, <2>9, <3>1 DEF Concerns, Sources
    <3>3. \A f \in Range(rx[m]) : ~(f.kind = "cid" /\ f.src = n)
      BY <2>9, <3>1 DEF Concerns
    <3>4. \A f \in Range(tx[m]) \cup Range(rx[n]) : f.to # n
      BY <2>9, <3>1 DEF Concerns
    <3> QED BY <2>6, <3>2, <3>3, <3>4 DEF Told, Challenged
  <2>11. \A k \in Nodes : aliasState[k] = "fail" => aliasState'[k] = "fail"
    BY <1>0, <2>6 DEF TypeOK
  <2>12. /\ aliasState' \in [Nodes -> {"not_set", "sent_cid", "fail", "good"}]
         /\ permitted' \in [Nodes -> BOOLEAN] /\ timer' \in [Nodes -> BOOLEAN]
    BY <1>0, <1>2, <2>6 DEF TypeOK
  <2>13. \A k \in Nodes :
           \/ permitted'[k] = permitted[k]
           \/ ~disturbed /\ onBus[k] =>
                /\ \A f \in InFlight : ~Concerns(f, k)
                /\ \A m \in Nodes : ~Told(k, m)
    <3> SUFFICES ASSUME NEW k \in Nodes
                 PROVE  \/ permitted'[k] = permitted[k]
                        \/ ~disturbed /\ onBus[k] =>
                             /\ \A f \in InFlight : ~Concerns(f, k)
                             /\ \A m \in Nodes : ~Told(k, m)
      OBVIOUS
    <3>1. CASE k = n
      BY <2>9, <2>10, <3>1
    <3>2. CASE k # n
      BY <1>0, <2>6, <3>2 DEF TypeOK
    <3> QED BY <3>1, <3>2
  <2> QED BY <1>1, <2>3, <2>4, <2>5, <2>6, <2>8, <2>11, <2>12, <2>13, OtherWriteInv
<1>3. CASE /\ GenerateAlias(n, onBus[n])
           /\ timer' = [timer EXCEPT ![n] = TriesAgain(n)]
           /\ UNCHANGED permitted
  <2>1. onBus[n] \in BOOLEAN /\ onBus' = [onBus EXCEPT ![n] = onBus[n]]
    BY <1>0, <1>1 DEF TypeOK
  <2>2. /\ timer' \in [Nodes -> BOOLEAN]
        /\ \A k \in Nodes \ {n} : timer'[k] = timer[k]
    <3>1. TriesAgain(n) \in BOOLEAN
      BY DEF TriesAgain
    <3> QED BY <1>0, <1>3, <3>1 DEF TypeOK
  <2> QED BY <1>1, <1>3, <2>1, <2>2, GenerateInv
<1> QED BY <1>2, <1>3 DEF GenerateAliasDone

\* LCCNetworkConnection::stateChanged, LCCSerialConnection::open, and setup.
LEMMA StartInv ==
  ASSUME IInv, NEW n \in Nodes, Start(n)
  PROVE  IInv'
<1>1. PICK up \in BOOLEAN : onBus' = [onBus EXCEPT ![n] = up]
                           /\ GenerateAlias(n, up)
                           /\ timer' = [timer EXCEPT ![n] = CanWrite(n, Cids(n), up)]
  BY DEF Start
<1>2. ~permitted[n] /\ UNCHANGED <<permitted, rx>>
  BY DEF Start, IInv, Phases
<1>3. /\ timer' \in [Nodes -> BOOLEAN]
      /\ \A k \in Nodes \ {n} : timer'[k] = timer[k]
  <2>1. CanWrite(n, Cids(n), up) \in BOOLEAN
    <3>1. CASE n \in Devices
      BY <3>1 DEF CanWrite
    <3>2. CASE n \notin Devices
      BY <3>2 DEF CanWrite
    <3> QED BY <3>1, <3>2
  <2> QED BY <1>1, <2>1 DEF IInv, TypeOK
<1> QED BY ZenonT(60), <1>1, <1>2, <1>3, GenerateInv

\* A device is attached late: nothing is promised from then on.
LEMMA AttachInv ==
  ASSUME IInv, NEW n \in Nodes, Attach(n)
  PROVE  IInv'
<1>1. TypeOK'
  BY DEF IInv, Attach, TypeOK
<1>2. Phases'
  BY DEF IInv, Attach, TypeOK, Phases
<1>3. Sources'
  BY DEF IInv, Attach, Sources
<1>4. Silent' /\ Contested'
  BY DEF Attach, Silent, Contested
<1> QED BY <1>1, <1>2, <1>3, <1>4 DEF IInv
\* The GUI loses its connection.
LEMMA DisconnectInv ==
  ASSUME IInv, NEW n \in Nodes, Disconnect(n)
  PROVE  IInv'
<1>0. TypeOK /\ Phases /\ Sources /\ Silent /\ Contested
  BY DEF IInv
<1>1. /\ n \notin Devices
      /\ onBus' = [onBus EXCEPT ![n] = FALSE]
      /\ tx' = [tx EXCEPT ![n] = <<>>] /\ rx' = [rx EXCEPT ![n] = <<>>]
      /\ UNCHANGED <<alias, aliasState, permitted, timer, late, disturbed>>
  BY DEF Disconnect
<1>2. /\ tx' \in [Nodes -> Seq(Frame)] /\ rx' \in [Nodes -> Seq(Frame)]
      /\ tx'[n] = <<>> /\ rx'[n] = <<>>
      /\ \A k \in Nodes \ {n} : tx'[k] = tx[k] /\ rx'[k] = rx[k]
      /\ ~onBus'[n] /\ \A k \in Nodes : onBus'[k] => onBus[k]
      /\ onBus' \in [Nodes -> BOOLEAN]
  BY <1>0, <1>1 DEF TypeOK
<1>3. Range(<<>>) = {}
  BY DEF Range
<1>4. TypeOK'
  BY <1>0, <1>1, <1>2 DEF TypeOK
<1>5. Phases'
  BY <1>0, <1>1, <1>2 DEF Phases
<1>6. Sources'
  BY <1>0, <1>2, <1>3 DEF Sources
<1>7. InFlight' \subseteq InFlight \cup {}
  BY <1>2, <1>3, InFlightGrows
<1>8. Silent'
  BY <1>0, <1>1, <1>2, <1>7 DEF Silent, Concerns
<1>9. Contested'
  <2> SUFFICES ASSUME ~disturbed', NEW a \in Nodes, NEW b \in Nodes, a # b,
                      onBus'[a], onBus'[b], alias'[a] = alias'[b]
               PROVE  /\ Told(b, a)' \/ Told(a, b)'
                      /\ permitted'[a] => Told(b, a)'
    BY DEF Contested
  <2>1. a # n /\ b # n /\ onBus[a] /\ onBus[b]
    BY <1>2
  <2>2. /\ Told(b, a) \/ Told(a, b)
        /\ permitted[a] => Told(b, a)
    BY <1>0, <1>1, <2>1 DEF Contested
  <2>3. /\ Told(b, a) => Told(b, a)'
        /\ Told(a, b) => Told(a, b)'
    BY ZenonT(60), <1>1, <1>2, <2>1, ToldKept
  <2> QED BY <1>1, <2>2, <2>3
<1> QED BY <1>4, <1>5, <1>6, <1>8, <1>9 DEF IInv

\* A node uses its alias.
LEMMA TalkInv ==
  ASSUME IInv, NEW n \in Nodes, Talk(n)
  PROVE  IInv'
<1>0. TypeOK /\ Phases
  BY DEF IInv
<1>1. PICK k \in {"other", "datagram"} :
        Write(n, <<Sends(n, k, alias[n], NoNode)>>, onBus[n])
  BY DEF Talk
<1> DEFINE f == Sends(n, k, alias[n], NoNode)
           frames == <<f>>
<1>2. alias[n] \in Aliases
  BY <1>0 DEF Talk, TypeOK, Phases, Aliases
<1>3. f \in Frame /\ f.kind = k /\ f.to = NoNode
  BY <1>2, SendsType
<1>4. Write(n, frames, onBus[n])
  BY <1>1
<1> HIDE DEF f
<1>5. frames \in Seq(Frame) /\ Range(frames) = {f}
  BY <1>3, OneFrame
<1> HIDE DEF frames
<1>6. \A g \in Range(frames) : g.kind # "cid" /\ g.to = NoNode
  BY <1>3, <1>5
<1>7. UNCHANGED <<alias, aliasState, permitted, timer, onBus, late, rx>>
  BY DEF Talk
<1>8. ~disturbed' => ~disturbed
  BY <1>0, <1>4, <1>5, WriteEffect
<1>9. Phases'
  BY <1>0, <1>7, <1>8 DEF Phases
<1>10. /\ aliasState' \in [Nodes -> {"not_set", "sent_cid", "fail", "good"}]
       /\ permitted' \in [Nodes -> BOOLEAN] /\ timer' \in [Nodes -> BOOLEAN]
  BY <1>0, <1>7 DEF TypeOK
<1> QED BY <1>4, <1>5, <1>6, <1>7, <1>9, <1>10, OtherWriteInv

\* The bus carries a frame.
LEMMA TransmitInv ==
  ASSUME IInv, NEW n \in Nodes, Transmit(n)
  PROVE  IInv'
<1>0. TypeOK /\ Phases /\ Sources /\ Silent /\ Contested
  BY DEF IInv
<1> DEFINE f == Head(tx[n])
<1>1. /\ f \in Frame /\ Tail(tx[n]) \in Seq(Frame)
      /\ Len(Tail(tx[n])) <= Len(tx[n])
      /\ Range(tx[n]) = Range(Tail(tx[n])) \cup {f}
  BY <1>0, RangeTail DEF Transmit, TypeOK
<1>2. /\ Deliver(f, n)
      /\ tx' = [tx EXCEPT ![n] = Tail(tx[n])]
      /\ UNCHANGED <<alias, aliasState, permitted, timer, onBus, late, disturbed>>
  BY <1>0 DEF Transmit, TypeOK
<1> HIDE DEF f
<1>3. /\ rx' \in [Nodes -> Seq(Frame)]
      /\ \A m \in Nodes :
           /\ Range(rx[m]) \subseteq Range(rx'[m])
           /\ Range(rx'[m]) \subseteq Range(rx[m]) \cup {f}
           /\ m # n /\ onBus[m] => f \in Range(rx'[m])
  BY <1>0, <1>1, <1>2, DeliverEffect
<1>4. /\ tx' \in [Nodes -> Seq(Frame)]
      /\ tx'[n] = Tail(tx[n]) /\ \A m \in Nodes \ {n} : tx'[m] = tx[m]
      /\ \A m \in Nodes : Range(tx'[m]) \subseteq Range(tx[m])
      /\ \A d \in Devices : Len(tx'[d]) <= TxSize
  <2>1. /\ tx \in [Nodes -> Seq(Frame)]
        /\ tx' \in [Nodes -> Seq(Frame)]
        /\ tx'[n] = Tail(tx[n]) /\ \A m \in Nodes \ {n} : tx'[m] = tx[m]
    BY <1>0, <1>1, <1>2 DEF TypeOK
  <2>2. n \in Devices => Len(tx'[n]) <= TxSize
    <3>1. Len(tx[n]) \in Nat /\ Len(Tail(tx[n])) \in Nat
      BY <1>1, <2>1, LenProperties
    <3> QED BY <1>0, <1>1, <2>1, <3>1 DEF TypeOK
  <2>3. \A d \in Devices \ {n} : Len(tx'[d]) <= TxSize
    BY <1>0, <2>1 DEF TypeOK
  <2> QED BY <1>1, <2>1, <2>2, <2>3
<1>5. TypeOK'
  BY <1>0, <1>2, <1>3, <1>4 DEF TypeOK
<1>6. Phases'
  BY <1>0, <1>2 DEF Phases
<1>7. Sources'
  BY <1>0, <1>4 DEF Sources
<1>8. Silent'
  <2>1. f \in InFlight
    BY <1>1 DEF InFlight
  <2>2. InFlight' \subseteq InFlight \cup {f}
    BY <1>3, <1>4, InFlightGrows
  <2> QED BY <1>0, <1>2, <2>1, <2>2 DEF Silent, Concerns
<1>9. ASSUME NEW m \in Nodes, NEW k \in Nodes, m # k, onBus[m], onBus[k], Told(m, k)
      PROVE  Told(m, k)'
  <2>1. CASE aliasState[m] = "fail"
    BY <1>2, <2>1 DEF Told
  <2>2. CASE \E g \in Range(tx[m]) : g.kind = "cid" /\ g.alias = alias[m]
    <3>1. PICK g \in Range(tx[m]) : g.kind = "cid" /\ g.alias = alias[m]
      BY <2>2
    <3>2. CASE m = n /\ g = f
      <4>1. f.src = m /\ f \in Range(rx'[k])
        BY <1>0, <1>3, <1>9, <3>1, <3>2 DEF Sources
      <4> QED BY <1>2, <3>1, <3>2, <4>1 DEF Told, Challenged
    <3>3. CASE ~(m = n /\ g = f)
      <4>1. g \in Range(tx'[m])
        BY <1>1, <1>4, <3>3
      <4> QED BY <1>2, <3>1, <4>1 DEF Told, Challenged
    <3> QED BY <3>2, <3>3
  <2>3. CASE \E g \in Range(rx[k]) :
               g.kind = "cid" /\ g.src = m /\ g.alias = alias[m]
    BY <1>2, <1>3, <2>3 DEF Told, Challenged
  <2>4. CASE \E g \in Range(tx[k]) \cup Range(rx[m]) :
               g.kind = "rid" /\ g.to = m /\ g.alias = alias[m]
    <3>1. PICK g \in Range(tx[k]) \cup Range(rx[m]) :
               g.kind = "rid" /\ g.to = m /\ g.alias = alias[m]
      BY <2>4
    <3>2. g \in Range(tx'[k]) \cup Range(rx'[m])
      BY <1>1, <1>3, <1>4, <1>9
    <3> QED BY <1>2, <3>1, <3>2 DEF Told, Challenged
  <2> QED BY <1>9, <2>1, <2>2, <2>3, <2>4 DEF Told, Challenged
<1>10. Contested'
  <2> SUFFICES ASSUME ~disturbed', NEW a \in Nodes, NEW b \in Nodes, a # b,
                      onBus'[a], onBus'[b], alias'[a] = alias'[b]
               PROVE  /\ Told(b, a)' \/ Told(a, b)'
                      /\ permitted'[a] => Told(b, a)'
    BY DEF Contested
  <2>1. onBus[a] /\ onBus[b] /\ ~disturbed
    BY <1>2
  <2>2. /\ Told(b, a) \/ Told(a, b)
        /\ permitted[a] => Told(b, a)
    BY <1>0, <1>2, <2>1 DEF Contested
  <2>3. /\ Told(b, a) => Told(b, a)'
        /\ Told(a, b) => Told(a, b)'
    BY <1>9, <2>1
  <2> QED BY <1>2, <2>2, <2>3
<1> QED BY <1>5, <1>6, <1>7, <1>8, <1>10 DEF IInv
\* The tool asks who is there.
LEMMA EnquireInv ==
  ASSUME IInv, Enquire
  PROVE  IInv'
<1>0. TypeOK /\ Phases /\ Sources /\ Silent /\ Contested
  BY DEF IInv
<1> DEFINE f == Sends(NoNode, "ame", ToolAlias, NoNode)
<1>1. f \in Frame /\ f.kind = "ame" /\ f.to = NoNode
  BY SendsType
<1>2. /\ Deliver(f, NoNode)
      /\ UNCHANGED <<alias, aliasState, permitted, timer, onBus, late, tx,
                     disturbed>>
  BY DEF Enquire
<1> HIDE DEF f
<1>3. /\ rx' \in [Nodes -> Seq(Frame)]
      /\ \A m \in Nodes : /\ Range(rx[m]) \subseteq Range(rx'[m])
                           /\ Range(rx'[m]) \subseteq Range(rx[m]) \cup {f}
  BY <1>0, <1>1, <1>2, DeliverEffect
<1>4. TypeOK' /\ Phases' /\ Sources'
  BY <1>0, <1>2, <1>3 DEF TypeOK, Phases, Sources
<1>5. Silent'
  <2>1. InFlight' \subseteq InFlight \cup {f}
    BY <1>2, <1>3, InFlightGrows
  <2> QED BY <1>0, <1>1, <1>2, <2>1 DEF Silent, Concerns
<1>6. Contested'
  <2> SUFFICES ASSUME ~disturbed', NEW a \in Nodes, NEW b \in Nodes, a # b,
                      onBus'[a], onBus'[b], alias'[a] = alias'[b]
               PROVE  /\ Told(b, a)' \/ Told(a, b)'
                      /\ permitted'[a] => Told(b, a)'
    BY DEF Contested
  <2>1. /\ Told(b, a) \/ Told(a, b)
        /\ permitted[a] => Told(b, a)
    BY <1>0, <1>2 DEF Contested
  <2>2. /\ Told(b, a) => Told(b, a)'
        /\ Told(a, b) => Told(a, b)'
    BY <1>2, <1>3, ToldKept
  <2> QED BY <1>2, <2>1, <2>2
<1> QED BY <1>4, <1>5, <1>6 DEF IInv

\* Whoever is told stays so when n has handled the frame f, if the frame did
\* not tell anything, or n answered it or gave up its alias because of it.
LEMMA HandledTold ==
  ASSUME NEW n \in Nodes, NEW f, NEW m \in Nodes, NEW k \in Nodes,
         Told(m, k), alias[m] = alias[k], alias' = alias,
         aliasState[m] = "fail" => aliasState'[m] = "fail",
         \A j \in Nodes : /\ Range(tx[j]) \subseteq Range(tx'[j])
                          /\ Range(rx[j]) \subseteq
                               Range(rx'[j]) \cup (IF j = n THEN {f} ELSE {}),
         m = n /\ f.kind = "rid" /\ f.to = n /\ f.alias = alias[n]
           => aliasState'[n] = "fail",
         k = n /\ f.kind = "cid" /\ f.src = m /\ f.alias = alias[n]
           => \E g \in Range(tx'[n]) :
                g.kind = "rid" /\ g.to = m /\ g.alias = alias[n]
  PROVE  Told(m, k)'
<1>1. CASE aliasState[m] = "fail"
  BY <1>1 DEF Told
<1>2. CASE \E g \in Range(tx[m]) : g.kind = "cid" /\ g.alias = alias[m]
  BY <1>2 DEF Told, Challenged
<1>3. CASE \E g \in Range(rx[k]) :
             g.kind = "cid" /\ g.src = m /\ g.alias = alias[m]
  <2>1. PICK g \in Range(rx[k]) :
             g.kind = "cid" /\ g.src = m /\ g.alias = alias[m]
    BY <1>3
  <2>2. CASE g \in Range(rx'[k])
    BY <2>1, <2>2 DEF Told, Challenged
  <2>3. CASE g \notin Range(rx'[k])
    <3>1. k = n /\ g = f
      BY <2>1, <2>3
    <3>2. \E r \in Range(tx'[k]) :
            r.kind = "rid" /\ r.to = m /\ r.alias = alias'[m]
      BY <2>1, <3>1
    <3> QED BY <3>2 DEF Told, Challenged
  <2> QED BY <2>2, <2>3
<1>4. CASE \E g \in Range(tx[k]) \cup Range(rx[m]) :
             g.kind = "rid" /\ g.to = m /\ g.alias = alias[m]
  <2>1. PICK g \in Range(tx[k]) \cup Range(rx[m]) :
             g.kind = "rid" /\ g.to = m /\ g.alias = alias[m]
    BY <1>4
  <2>2. CASE g \in Range(tx'[k]) \cup Range(rx'[m])
    BY <2>1, <2>2 DEF Told, Challenged
  <2>3. CASE g \notin Range(tx'[k]) \cup Range(rx'[m])
    <3>1. m = n /\ g = f
      BY <2>1, <2>3
    <3> QED BY <2>1, <3>1 DEF Told
  <2> QED BY <2>2, <2>3
<1> QED BY <1>1, <1>2, <1>3, <1>4 DEF Told, Challenged

\* lcc_context_incoming_frame, for what it writes and what it makes of its alias.
LEMMA HandledInv ==
  ASSUME IInv, NEW n \in Nodes, NEW f \in Frame,
         rx[n] # <<>>, f = Head(rx[n]),
         rx' = [rx EXCEPT ![n] = Tail(rx[n])],
         UNCHANGED <<alias, permitted, timer, onBus, late>>,
         tx' \in [Nodes -> Seq(Frame)],
         \A d \in Devices : Len(tx'[d]) <= TxSize,
         disturbed' \in BOOLEAN, ~disturbed' => ~disturbed,
         aliasState' \in [Nodes -> {"not_set", "sent_cid", "fail", "good"}],
         \A k \in Nodes : aliasState[k] = "fail" => aliasState'[k] = "fail",
         \A k \in Nodes : aliasState'[k] = "good" <=> aliasState[k] = "good",
         \A k \in Nodes : Range(tx[k]) \subseteq Range(tx'[k]),
         \A k \in Nodes : \A g \in Range(tx'[k]) : g \in Range(tx[k]) \/
           (g.kind # "cid" /\ (g.to = NoNode \/ (f.kind = "cid" /\ g.to = f.src))),
         ~disturbed' /\ onBus[n] =>
           /\ f.kind = "rid" /\ f.to = n /\ f.alias = alias[n]
                => aliasState'[n] = "fail"
           /\ f.kind = "cid" /\ f.alias = alias[n]
                => \E g \in Range(tx'[n]) :
                     g.kind = "rid" /\ g.to = f.src /\ g.alias = alias[n]
  PROVE  IInv'
<1>0. TypeOK /\ Phases /\ Sources /\ Silent /\ Contested
  BY DEF IInv
<1>1. /\ Tail(rx[n]) \in Seq(Frame)
      /\ Range(rx[n]) = Range(Tail(rx[n])) \cup {f}
  BY <1>0, RangeTail DEF TypeOK
<1>2. /\ rx' \in [Nodes -> Seq(Frame)]
      /\ \A j \in Nodes : /\ Range(rx'[j]) \subseteq Range(rx[j])
                           /\ Range(rx[j]) \subseteq
                                Range(rx'[j]) \cup (IF j = n THEN {f} ELSE {})
  BY <1>0, <1>1 DEF TypeOK
<1>3. TypeOK'
  BY <1>0, <1>2 DEF TypeOK
<1>4. Phases'
  BY <1>0 DEF Phases
<1>5. Sources'
  BY <1>0 DEF Sources
<1>6. Silent'
  <2> SUFFICES ASSUME ~disturbed', NEW k \in Nodes, onBus'[k], permitted'[k],
                      NEW g \in InFlight'
               PROVE  ~Concerns(g, k)
    BY DEF Silent
  <2>1. \A h \in InFlight : ~Concerns(h, k)
    BY <1>0 DEF Silent
  <2>2. f \in InFlight
    BY <1>1 DEF InFlight
  <2>3. CASE g \in InFlight
    BY <2>1, <2>3
  <2>4. CASE g \notin InFlight
    <3>1. PICK j \in Nodes : g \in Range(tx'[j])
      BY <1>2, <2>4 DEF InFlight
    <3>2. g \notin Range(tx[j])
      BY <2>4 DEF InFlight
    <3>3. g.kind # "cid" /\ (g.to = NoNode \/ (f.kind = "cid" /\ g.to = f.src))
      BY <3>1, <3>2
    <3>4. k # NoNode /\ ~(f.kind = "cid" /\ f.src = k)
      BY <2>1, <2>2 DEF Concerns
    <3> QED BY <3>3, <3>4 DEF Concerns
  <2> QED BY <2>3, <2>4
<1>7. ASSUME ~disturbed', NEW m \in Nodes, NEW k \in Nodes, onBus[m], onBus[k],
             alias[m] = alias[k], Told(m, k)
      PROVE  Told(m, k)'
  <2>1. m = n /\ f.kind = "rid" /\ f.to = n /\ f.alias = alias[n]
          => aliasState'[n] = "fail"
    BY <1>7
  <2>2. k = n /\ f.kind = "cid" /\ f.src = m /\ f.alias = alias[n]
          => \E g \in Range(tx'[n]) :
               g.kind = "rid" /\ g.to = m /\ g.alias = alias[n]
    BY <1>7
  <2>3. \A j \in Nodes : /\ Range(tx[j]) \subseteq Range(tx'[j])
                         /\ Range(rx[j]) \subseteq
                              Range(rx'[j]) \cup (IF j = n THEN {f} ELSE {})
    BY <1>2
  <2>4. aliasState[m] = "fail" => aliasState'[m] = "fail"
    OBVIOUS
  <2>5. Told(m, k) /\ alias[m] = alias[k]
    BY <1>7
  <2> HIDE <1>7
  <2> QED BY ZenonT(60), <2>1, <2>2, <2>3, <2>4, <2>5, HandledTold
<1>8. Contested'
  <2> SUFFICES ASSUME ~disturbed', NEW a \in Nodes, NEW b \in Nodes, a # b,
                      onBus'[a], onBus'[b], alias'[a] = alias'[b]
               PROVE  /\ Told(b, a)' \/ Told(a, b)'
                      /\ permitted'[a] => Told(b, a)'
    BY DEF Contested
  <2>1. /\ Told(b, a) \/ Told(a, b)
        /\ permitted[a] => Told(b, a)
    BY <1>0 DEF Contested
  <2>2. /\ Told(b, a) => Told(b, a)'
        /\ Told(a, b) => Told(a, b)'
    BY <1>7
  <2> QED BY <2>1, <2>2
<1> QED BY <1>3, <1>4, <1>5, <1>6, <1>8 DEF IInv
\* lcc_context_incoming_frame.
LEMMA IncomingFrameInv ==
  ASSUME IInv, NEW n \in Nodes, IncomingFrame(n)
  PROVE  IInv'
<1>0. TypeOK /\ Phases /\ Sources /\ Silent /\ Contested
  BY DEF IInv
<1> DEFINE f == Head(rx[n])
<1>1. /\ rx[n] # <<>> /\ f \in Frame
      /\ rx' = [rx EXCEPT ![n] = Tail(rx[n])]
      /\ UNCHANGED <<alias, permitted, timer, onBus, late>>
      /\ Range(rx[n]) = Range(Tail(rx[n])) \cup {f}
  BY <1>0, RangeTail DEF IncomingFrame, TypeOK
<1>2. f \in InFlight
  BY <1>1 DEF InFlight
<1>3. \/ /\ Answers(n, f)
         /\ Write(n, <<Sends(n, "rid", alias[n], Asks(f))>>, onBus[n])
         /\ UNCHANGED aliasState
      \/ /\ f.alias = alias[n] /\ ~IsCidFrame(f) /\ ~permitted[n]
         /\ aliasState' = [aliasState EXCEPT ![n] = "fail"]
         /\ UNCHANGED <<tx, disturbed>>
      \/ /\ f.kind = "ame" /\ permitted[n]
         /\ Write(n, <<Sends(n, "other", alias[n], NoNode)>>, onBus[n])
         /\ UNCHANGED aliasState
      \/ /\ ~Answers(n, f)
         /\ ~(f.alias = alias[n] /\ ~IsCidFrame(f) /\ ~permitted[n])
         /\ ~(f.kind = "ame" /\ permitted[n])
         /\ UNCHANGED <<aliasState, tx, disturbed>>
  BY DEF IncomingFrame
<1> HIDE DEF f
<1>4. /\ f.kind \in {"cid", "rid", "other", "datagram", "ame"}
      /\ f.src \in Nodes \cup {NoNode} /\ f.to \in Nodes \cup {NoNode}
      /\ f.alias \in Aliases \cup {ToolAlias}
  BY <1>1 DEF Frame
\* A claimed alias is not lost to an answer: none is on its way.
<1>5. ~disturbed /\ onBus[n] /\ permitted[n] => f.to # n
  BY <1>0, <1>2 DEF Silent, Concerns
<1>6. /\ tx \in [Nodes -> Seq(Frame)] /\ \A d \in Devices : Len(tx[d]) <= TxSize
      /\ disturbed \in BOOLEAN /\ onBus[n] \in BOOLEAN
      /\ aliasState \in [Nodes -> {"not_set", "sent_cid", "fail", "good"}]
      /\ \A k \in Nodes : permitted[k] <=> aliasState[k] = "good"
  BY <1>0 DEF TypeOK, Phases
<1>7. ASSUME NEW g \in Frame, Write(n, <<g>>, onBus[n])
      PROVE  /\ tx' \in [Nodes -> Seq(Frame)]
             /\ \A d \in Devices : Len(tx'[d]) <= TxSize
             /\ disturbed' \in BOOLEAN
             /\ ~disturbed' => ~disturbed
             /\ \A k \in Nodes : Range(tx[k]) \subseteq Range(tx'[k])
             /\ \A k \in Nodes : Range(tx'[k]) \subseteq Range(tx[k]) \cup {g}
             /\ ~disturbed' /\ onBus[n] => g \in Range(tx'[n])
  <2> DEFINE frames == <<g>>
  <2>1. frames \in Seq(Frame) /\ Range(frames) = {g} /\ Write(n, frames, onBus[n])
    BY <1>7, OneFrame
  <2> HIDE DEF frames
  <2>2. /\ tx' \in [Nodes -> Seq(Frame)]
        /\ \A d \in Devices : Len(tx'[d]) <= TxSize
        /\ disturbed' \in BOOLEAN
        /\ \A m \in Nodes \ {n} : tx'[m] = tx[m]
        /\ Range(tx[n]) \subseteq Range(tx'[n])
        /\ Range(tx'[n]) \subseteq Range(tx[n]) \cup Range(frames)
        /\ ~disturbed' => ~disturbed
        /\ ~disturbed' /\ onBus[n] => Range(frames) \subseteq Range(tx'[n])
    BY ZenonT(60), <1>0, <2>1, WriteEffect
  <2>3. ASSUME NEW k \in Nodes
        PROVE  /\ Range(tx[k]) \subseteq Range(tx'[k])
               /\ Range(tx'[k]) \subseteq Range(tx[k]) \cup {g}
    <3>1. CASE k = n
      BY <2>1, <2>2, <3>1
    <3>2. CASE k # n
      BY <2>2, <3>2
    <3> QED BY <3>1, <3>2
  <2>4. ~disturbed' /\ onBus[n] => g \in Range(tx'[n])
    BY <2>1, <2>2
  <2> QED BY <2>2, <2>3, <2>4
<1>8. CASE /\ Answers(n, f)
           /\ Write(n, <<Sends(n, "rid", alias[n], Asks(f))>>, onBus[n])
           /\ UNCHANGED aliasState
  <2> DEFINE g == Sends(n, "rid", alias[n], Asks(f))
  <2>1. alias[n] \in Aliases \cup {ToolAlias} /\ Asks(f) \in Nodes \cup {NoNode}
    BY <1>4, <1>8 DEF Answers, Asks
  <2>2. /\ g \in Frame /\ g.kind = "rid" /\ g.alias = alias[n]
        /\ f.kind = "cid" => g.to = f.src
        /\ f.kind # "cid" => g.to = NoNode
    BY <2>1, SendsType DEF Asks
  <2>3. Write(n, <<g>>, onBus[n]) /\ f.kind # "rid"
    BY <1>8 DEF Answers, IsCidFrame
  <2> HIDE DEF g
  <2>4. /\ tx' \in [Nodes -> Seq(Frame)]
        /\ \A d \in Devices : Len(tx'[d]) <= TxSize
        /\ disturbed' \in BOOLEAN
        /\ ~disturbed' => ~disturbed
        /\ \A k \in Nodes : Range(tx[k]) \subseteq Range(tx'[k])
        /\ \A k \in Nodes : Range(tx'[k]) \subseteq Range(tx[k]) \cup {g}
        /\ ~disturbed' /\ onBus[n] => g \in Range(tx'[n])
    BY <1>7, <2>2, <2>3
  <2>5. \A k \in Nodes : \A h \in Range(tx'[k]) : h \in Range(tx[k]) \/
           (h.kind # "cid" /\ (h.to = NoNode \/ (f.kind = "cid" /\ h.to = f.src)))
    BY <2>2, <2>4
  <2>6. ~disturbed' /\ onBus[n] =>
           /\ f.kind = "rid" /\ f.to = n /\ f.alias = alias[n]
                => aliasState'[n] = "fail"
           /\ f.kind = "cid" /\ f.alias = alias[n]
                => \E h \in Range(tx'[n]) :
                     h.kind = "rid" /\ h.to = f.src /\ h.alias = alias[n]
    BY <2>2, <2>3, <2>4
  <2>7. /\ aliasState' \in [Nodes -> {"not_set", "sent_cid", "fail", "good"}]
        /\ \A k \in Nodes : aliasState[k] = "fail" => aliasState'[k] = "fail"
        /\ \A k \in Nodes : aliasState'[k] = "good" <=> aliasState[k] = "good"
    BY <1>6, <1>8
  <2>8. /\ rx[n] # <<>> /\ f \in Frame /\ f = Head(rx[n])
        /\ rx' = [rx EXCEPT ![n] = Tail(rx[n])]
        /\ UNCHANGED <<alias, permitted, timer, onBus, late>>
    BY <1>1 DEF f
  <2>9. /\ tx' \in [Nodes -> Seq(Frame)]
        /\ \A d \in Devices : Len(tx'[d]) <= TxSize
        /\ disturbed' \in BOOLEAN
        /\ ~disturbed' => ~disturbed
        /\ \A k \in Nodes : Range(tx[k]) \subseteq Range(tx'[k])
    BY <2>4
  <2> QED BY <2>5, <2>6, <2>7, <2>8, <2>9, HandledInv
<1>9. CASE /\ f.alias = alias[n] /\ ~IsCidFrame(f) /\ ~permitted[n]
           /\ aliasState' = [aliasState EXCEPT ![n] = "fail"]
           /\ UNCHANGED <<tx, disturbed>>
  <2>1. /\ aliasState' \in [Nodes -> {"not_set", "sent_cid", "fail", "good"}]
        /\ aliasState'[n] = "fail"
        /\ \A k \in Nodes : aliasState[k] = "fail" => aliasState'[k] = "fail"
        /\ \A k \in Nodes : aliasState'[k] = "good" <=> aliasState[k] = "good"
    BY <1>6, <1>9
  <2>2. f.kind # "cid" /\ tx' = tx /\ disturbed' = disturbed
    BY <1>9 DEF IsCidFrame
  <2> QED BY <1>1, <1>6, <2>1, <2>2, HandledInv DEF f
<1>10. CASE /\ f.kind = "ame" /\ permitted[n]
            /\ Write(n, <<Sends(n, "other", alias[n], NoNode)>>, onBus[n])
            /\ UNCHANGED aliasState
  <2> DEFINE g == Sends(n, "other", alias[n], NoNode)
  <2>1. alias[n] \in Aliases
    BY <1>0, <1>10 DEF TypeOK, Phases, Aliases
  <2>2. g \in Frame /\ g.kind = "other" /\ g.to = NoNode
    BY <2>1, SendsType
  <2>3. Write(n, <<g>>, onBus[n]) /\ aliasState' = aliasState
    BY <1>10
  <2> HIDE DEF g
  <2>4. /\ tx' \in [Nodes -> Seq(Frame)]
        /\ \A d \in Devices : Len(tx'[d]) <= TxSize
        /\ disturbed' \in BOOLEAN
        /\ ~disturbed' => ~disturbed
        /\ \A k \in Nodes : Range(tx[k]) \subseteq Range(tx'[k])
        /\ \A k \in Nodes : Range(tx'[k]) \subseteq Range(tx[k]) \cup {g}
    BY <1>7, <2>2, <2>3
  <2>5. \A k \in Nodes : \A h \in Range(tx'[k]) : h \in Range(tx[k]) \/
           (h.kind # "cid" /\ (h.to = NoNode \/ (f.kind = "cid" /\ h.to = f.src)))
    BY <2>2, <2>4
  <2> QED BY <1>1, <1>6, <1>10, <2>3, <2>4, <2>5, HandledInv DEF f
<1>11. CASE /\ ~Answers(n, f)
            /\ ~(f.alias = alias[n] /\ ~IsCidFrame(f) /\ ~permitted[n])
            /\ UNCHANGED <<aliasState, tx, disturbed>>
  <2>1. ~(f.kind = "cid" /\ f.alias = alias[n])
    BY <1>11 DEF Answers, IsCidFrame
  <2>2. ~(~disturbed /\ onBus[n] /\ f.kind = "rid" /\ f.to = n /\ f.alias = alias[n])
    BY <1>5, <1>11 DEF IsCidFrame
  <2>3. tx' = tx /\ aliasState' = aliasState /\ disturbed' = disturbed
    BY <1>11
  <2> QED BY <1>1, <1>6, <2>1, <2>2, <2>3, HandledInv DEF f
<1> QED BY <1>3, <1>8, <1>9, <1>10, <1>11

-----------------------------------------------------------------------------
(***************************************************************************)
(* The theorems.                                                           *)
(***************************************************************************)

\* The inductive invariant holds at first.
LEMMA InitInv == Init => IInv
<1> SUFFICES ASSUME Init PROVE IInv
  OBVIOUS
<1>1. Range(<<>>) = {} /\ <<>> \in Seq(Frame) /\ Len(<<>>) = 0
  BY DEF Range
<1>2. TypeOK
  <2>1. /\ tx \in [Nodes -> Seq(Frame)] /\ rx \in [Nodes -> Seq(Frame)]
        /\ \A n \in Nodes : Len(tx[n]) = 0
    BY <1>1 DEF Init
  <2>2. \A n \in Devices : Len(tx[n]) <= TxSize
    BY <2>1
  <2>3. alias \in [Nodes -> 0..MaxAlias]
    BY DEF Init
  <2>4. /\ aliasState \in [Nodes -> {"not_set", "sent_cid", "fail", "good"}]
        /\ permitted \in [Nodes -> BOOLEAN] /\ timer \in [Nodes -> BOOLEAN]
        /\ onBus \in [Nodes -> BOOLEAN] /\ late \in [Nodes -> BOOLEAN]
        /\ disturbed \in BOOLEAN
    BY DEF Init
  <2> QED BY <2>1, <2>2, <2>3, <2>4 DEF TypeOK
<1>3. Phases /\ Sources /\ Silent /\ Contested
  BY <1>1 DEF Init, Phases, Sources, Silent, Contested
<1> QED BY <1>2, <1>3 DEF IInv

\* Every step keeps it.
LEMMA NextInv == IInv /\ [Next]_vars => IInv'
<1> SUFFICES ASSUME IInv, [Next]_vars PROVE IInv'
  OBVIOUS
<1>1. CASE UNCHANGED vars
  BY <1>1 DEF vars, IInv, TypeOK, Phases, Sources, Silent, Contested, InFlight, Told,
     Challenged
<1>2. CASE Next
  BY <1>2, StartInv, AttachInv, DisconnectInv, GenerateAliasDoneInv, IncomingFrameInv,
     TalkInv, TransmitInv, EnquireInv DEF Next
<1> QED BY <1>1, <1>2

\* The inductive invariant holds in every reachable state.
THEOREM Invariance == Spec => []IInv
  BY InitInv, NextInv, PTL DEF Spec

\* Every reachable state has its type, and no device's transmit buffer holds more
\* than it can (lcc_context_set_write_function's write_buffer_size).
THEOREM TypeCorrect == Spec => []TypeOK
<1>1. IInv => TypeOK
  BY DEF IInv
<1> QED BY <1>1, Invariance, PTL

\* A node that asks for an alias that is in use has been told so, or will be
\* before its wait is over (lcc_context_check_collision).
THEOREM Defended == Spec => []TakenAliasIsDefended
<1>1. IInv => TakenAliasIsDefended
  BY DEF IInv, Contested, TakenAliasIsDefended, Told
<1> QED BY <1>1, Invariance, PTL

\* No two nodes on an undisturbed bus have claimed the same alias
\* (lcc_context_claim_alias).
THEOREM Unique == Spec => []UniqueAliases
<1>1. ASSUME IInv PROVE UniqueAliases
  <2> SUFFICES ASSUME ~disturbed, NEW n \in Nodes, NEW m \in Nodes, n # m,
                      onBus[n], onBus[m], permitted[n], permitted[m],
                      alias[n] = alias[m]
               PROVE  FALSE
    BY DEF UniqueAliases
  <2>1. Told(m, n)
    BY <1>1 DEF IInv, Contested
  <2>2. aliasState[m] # "fail"
    BY <1>1 DEF IInv, Phases
  <2>3. \A f \in InFlight : ~Concerns(f, m)
    BY <1>1 DEF IInv, Silent
  <2>4. \A k \in Nodes : \A f \in Range(tx[k]) \cup Range(rx[k]) : f \in InFlight
    BY DEF InFlight
  <2>5. \A f \in Range(tx[m]) : f.kind # "cid"
    BY <1>1, <2>3, <2>4 DEF IInv, Sources, Concerns
  <2> QED BY <2>1, <2>2, <2>3, <2>4, <2>5 DEF Told, Challenged, Concerns
<1> QED BY <1>1, Invariance, PTL

-----------------------------------------------------------------------------
(***************************************************************************)
(* Negotiation goes on, if all CID frames fit into an empty buffer.        *)
(***************************************************************************)

\* A node that has not started wrote nothing, and one that is negotiating waits;
\* a device does so off the bus as well, so that it waits when it is attached.
Going ==
  \A n \in Nodes :
    /\ alias[n] = 0 => tx[n] = <<>>
    /\ alias[n] # 0 /\ ~permitted[n] /\ (n \in Devices \/ onBus[n]) => timer[n]

LEMMA GoingStart ==
  ASSUME CidFrames <= TxSize, IInv, Going, NEW n \in Nodes, Start(n)
  PROVE  Going'
<1>0. TypeOK /\ NextAlias(n) \in Aliases /\ Cids(n) \in Seq(Frame)
  BY CidsType DEF IInv
<1>1. PICK up \in (IF n \in Devices THEN BOOLEAN ELSE {TRUE}) :
        /\ onBus' = [onBus EXCEPT ![n] = up]
        /\ GenerateAlias(n, up)
        /\ timer' = [timer EXCEPT ![n] = CanWrite(n, Cids(n), up)]
  BY DEF Start
<1>2. CanWrite(n, Cids(n), up)
  <2>1. CASE n \in Devices
    <3>1. Len(tx[n]) = 0
      BY DEF Start, Going
    <3>2. Len(Cids(n)) = CidFrames
      BY DEF Cids
    <3> QED BY <2>1, <3>1, <3>2 DEF CanWrite
  <2>2. CASE n \notin Devices
    BY <1>1, <2>2 DEF CanWrite
  <2> QED BY <2>1, <2>2
<1>3. /\ \A m \in Nodes \ {n} : tx'[m] = tx[m]
      /\ alias' = [alias EXCEPT ![n] = NextAlias(n)] /\ permitted' = permitted
  BY <1>0, <1>1, WriteEffect DEF GenerateAlias, Start
<1>4. alias'[n] # 0 /\ timer'[n]
  BY <1>0, <1>1, <1>2, <1>3 DEF TypeOK, Aliases
<1>5. \A m \in Nodes \ {n} :
        alias'[m] = alias[m] /\ onBus'[m] = onBus[m] /\ timer'[m] = timer[m]
  BY <1>0, <1>1, <1>3 DEF TypeOK
<1> QED BY <1>3, <1>4, <1>5 DEF Going

LEMMA GoingDone ==
  ASSUME IInv, Going, NEW n \in Nodes, GenerateAliasDone(n)
  PROVE  Going'
<1>0. TypeOK /\ NextAlias(n) \in Aliases /\ Cids(n) \in Seq(Frame) /\ alias[n] # 0
  BY CidsType DEF IInv, GenerateAliasDone, Phases
<1>1. onBus' = onBus
  BY DEF GenerateAliasDone
<1>2. CASE ClaimAlias(n) /\ timer' = [timer EXCEPT ![n] = FALSE]
  <2> DEFINE fs == <<Sends(n, "rid", alias[n], NoNode), Sends(n, "other", alias[n], NoNode)>>
  <2>1. fs \in Seq(Frame)
    BY <1>0, SendsType, TwoFrames, NodesAssumption DEF TypeOK, Aliases
  <2>2. Write(n, fs, onBus[n])
    BY <1>2 DEF ClaimAlias
  <2> HIDE DEF fs
  <2>3. \A m \in Nodes \ {n} : tx'[m] = tx[m]
    BY <1>0, <2>1, <2>2, WriteEffect
  <2>4. alias' = alias /\ permitted' = [permitted EXCEPT ![n] = TRUE]
    BY <1>2 DEF ClaimAlias
  <2> QED BY <1>0, <1>1, <1>2, <2>3, <2>4 DEF Going, TypeOK
<1>3. CASE /\ GenerateAlias(n, onBus[n])
           /\ timer' = [timer EXCEPT ![n] = TriesAgain(n)]
           /\ UNCHANGED permitted
  <2>1. /\ \A m \in Nodes \ {n} : tx'[m] = tx[m]
        /\ alias' = [alias EXCEPT ![n] = NextAlias(n)]
    BY <1>0, <1>3, WriteEffect DEF GenerateAlias
  <2>2. n \in Devices \/ onBus[n] => TriesAgain(n)
    BY DEF TriesAgain, CanWrite
  <2>3. alias'[n] # 0 /\ timer'[n] = TriesAgain(n)
    BY <1>0, <1>3, <2>1 DEF TypeOK, Aliases
  <2>4. \A m \in Nodes \ {n} : alias'[m] = alias[m] /\ timer'[m] = timer[m]
    BY <1>0, <1>3, <2>1 DEF TypeOK
  <2> QED BY <1>1, <1>3, <2>1, <2>2, <2>3, <2>4 DEF Going
<1> QED BY <1>2, <1>3 DEF GenerateAliasDone

\* A node that has not started answers nothing.
LEMMA GoingIncoming ==
  ASSUME IInv, Going, NEW n \in Nodes, IncomingFrame(n)
  PROVE  Going'
<1>0. TypeOK /\ rx[n] \in Seq(Frame) /\ rx[n] # <<>>
  BY DEF IInv, TypeOK, IncomingFrame
<1> DEFINE f == Head(rx[n])
<1>1. f \in Frame /\ f.alias # 0
  <2>1. f \in Frame
    BY <1>0, HeadTailProperties
  <2> QED BY <2>1 DEF Frame, Aliases, ToolAlias
<1>2. UNCHANGED <<alias, permitted, timer, onBus>>
  BY DEF IncomingFrame
<1>3. \A m \in Nodes : alias[m] = 0 => tx'[m] = tx[m]
  <2>1. CASE alias[n] = 0
    <3>1. ~permitted[n]
      BY <2>1 DEF IInv, Phases
    <3>2. tx' = tx
      BY <1>1, <2>1, <3>1 DEF IncomingFrame, Answers
    <3> QED BY <3>2
  <2>2. CASE alias[n] # 0
    <3>1. ASSUME NEW fs, Write(n, fs, onBus[n]) PROVE \A m \in Nodes \ {n} : tx'[m] = tx[m]
      BY <1>0, <3>1 DEF Write, TypeOK
    <3>2. \A m \in Nodes \ {n} : tx'[m] = tx[m]
      BY <3>1 DEF IncomingFrame
    <3> QED BY <2>2, <3>2
  <2> QED BY <2>1, <2>2
<1> QED BY <1>2, <1>3 DEF Going

LEMMA GoingInv ==
  ASSUME CidFrames <= TxSize, IInv, Going, [Next]_vars
  PROVE  Going'
<1>0. TypeOK
  BY DEF IInv
<1>1. CASE \E n \in Nodes : Attach(n) \/ Disconnect(n)
  BY <1>0, <1>1 DEF Attach, Disconnect, Going, TypeOK
<1>2. ASSUME NEW n \in Nodes, Talk(n) PROVE Going'
  <2>1. alias[n] # 0
    BY <1>2 DEF IInv, Phases, Talk
  <2>2. \A m \in Nodes \ {n} : tx'[m] = tx[m]
    BY <1>0, <1>2 DEF Talk, Write, TypeOK
  <2> QED BY <1>2, <2>1, <2>2 DEF Going, Talk
<1>3. ASSUME NEW n \in Nodes, Transmit(n) PROVE Going'
  <2>1. alias[n] # 0
    BY <1>3 DEF Going, Transmit
  <2>2. \A m \in Nodes \ {n} : tx'[m] = tx[m]
    BY <1>0, <1>3 DEF Transmit, TypeOK
  <2> QED BY <1>3, <2>1, <2>2 DEF Going, Transmit
<1>4. CASE Enquire \/ UNCHANGED vars
  BY <1>4 DEF Enquire, vars, Going
<1> QED BY <1>1, <1>2, <1>3, <1>4, GoingStart, GoingDone, GoingIncoming DEF Next

\* A node on the bus that has no alias is waiting to claim one or to try the next,
\* whatever collides and whatever its buffer refuses (generateAliasDone, loop()).
THEOREM GoesOn ==
  ASSUME CidFrames <= TxSize PROVE Spec => []NegotiationGoesOn
<1>1. Init => Going
  BY DEF Init, Going
<1>2. IInv /\ Going /\ [Next]_vars => Going'
  BY GoingInv
<1>3. IInv /\ Going => NegotiationGoesOn
  BY DEF IInv, Phases, Going, NegotiationGoesOn
<1> QED BY <1>1, <1>2, <1>3, Invariance, PTL DEF Spec

(***************************************************************************)
(* Datagrams: for any clients and datagrams, and every kind of node.       *)
(*                                                                         *)
(* While nothing has confused the assembly, the frames of every client on  *)
(* the bus are its datagrams in order (Chain), the buffer holds the first  *)
(* frames of the one whose next frame comes (Holds), the other clients are *)
(* at a first frame, and no datagram has an answer before it is whole.     *)
(***************************************************************************)

(***************************************************************************)
(* The server: what a step does to its state, and the types.               *)
(***************************************************************************)

LEMMA AnswerWords ==
  /\ \A x \in ServerAnswers : <<x>> \in Seq(ServerAnswers)
  /\ <<>> \in Seq(ServerAnswers)
  /\ \A v, w \in Seq(ServerAnswers) : v \o w \in Seq(ServerAnswers)
  /\ {"rxok", "pending", "rejected", "busy", "reply", "partial"} \subseteq ServerAnswers
  BY DEF ServerAnswers

LEMMA NotHandledIs == NotHandled \in {<<"rejected">>, <<"rxok">>, <<>>} /\ NotHandled \in Seq(ServerAnswers)
<1>1. NotHandled \in {<<"rejected">>, <<"rxok">>, <<>>}
  BY NodeAssumption DEF NotHandled, NodeAssumption
<1> QED BY <1>1, AnswerWords

LEMMA SendingsAre ==
  ASSUME NEW r \in Sendings
  PROVE  r \in Seq(ServerAnswers)
  BY AnswerWords DEF Sendings

LEMMA ReplyIs == <<"reply">> \in Sendings /\ SentOk(<<"reply">>)
  BY DEF Sendings, SentOk

\* What the answers to a command may be when all goes well.
GoodFor(k) ==
  {<<>>, <<"rxok">>, <<"rejected">>, <<"busy">>, <<"pending", "reply">>}
     \cup (IF k = "query" THEN {<<"reply">> \o NotHandled} ELSE {})
     \cup (IF Firmware = "unset" THEN {<<"pending">>} ELSE {})

Bounded == trouble' \in 0..MaxTrouble /\ calm' \in BOOLEAN /\ (calm' => calm)

LEMMA QuietIs ==
  ASSUME ServerTypeOK, Quiet
  PROVE  Bounded
  BY DEF ServerTypeOK, Quiet, Bounded

LEMMA SendingIs ==
  ASSUME ServerTypeOK, NEW r, Sending(r)
  PROVE  Bounded /\ (calm' => r = <<"reply">>)
<1>1. trouble' \in 0..MaxTrouble
  BY BoundsAssumption DEF Sending, ServerTypeOK, BoundsAssumption
<1>2. calm' = (calm /\ r = <<"reply">>)
  BY DEF Sending
<1> QED BY <1>1, <1>2 DEF Bounded

\* How a command of the memory server, or of the firmware, answers.
Handles(c, f, k, what) ==
  /\ Answer(c, f, what) /\ what \in Seq(ServerAnswers)
  /\ upgrading' \in BOOLEAN /\ calling' \in {calling, FALSE} /\ writer' \in {writer, f.dg}
  /\ Bounded
  /\ calm' => what \in GoodFor(k)

LEMMA TwoWords ==
  ASSUME NEW S, NEW x \in S, NEW y \in S
  PROVE  /\ <<x>> \o <<y>> = <<x, y>> /\ <<x>> \o <<>> = <<x>> /\ <<>> \o <<x>> = <<x>>
         /\ <<x, y>> \o <<>> = <<x, y>> /\ <<x, y>> \in Seq(S)
<1>1. <<x>> \in Seq(S) /\ <<y>> \in Seq(S) /\ <<>> \in Seq(S) /\ <<x, y>> \in Seq(S)
  OBVIOUS
<1>2. /\ Len(<<x>>) = 1 /\ Len(<<y>>) = 1 /\ Len(<<>>) = 0 /\ Len(<<x, y>>) = 2
      /\ <<x>>[1] = x /\ <<y>>[1] = y /\ <<x, y>>[1] = x /\ <<x, y>>[2] = y
  OBVIOUS
<1>3. ASSUME NEW v \in Seq(S) PROVE v \o <<>> = v /\ <<>> \o v = v
  BY <1>1, ConcatEmptySeq
<1>4. <<x>> \o <<y>> = <<x, y>>
  <2> DEFINE v == <<x>>
             w == <<y>>
             u == <<x, y>>
  <2>1. Len(v \o w) = 2 /\ (v \o w)[1] = x /\ (v \o w)[2] = y /\ v \o w \in Seq(S)
    <3> HIDE DEF v, w
    <3> QED BY <1>1, <1>2, ConcatProperties DEF v, w
  <2>2. Len(u) = 2 /\ u[1] = x /\ u[2] = y /\ u \in Seq(S)
    BY <1>1, <1>2
  <2> HIDE DEF v, w, u
  <2>3. v \o w = u
    BY SMTT(30), <2>1, <2>2, SeqEqual
  <2> QED BY <2>3 DEF v, w, u
<1> QED BY <1>1, <1>3, <1>4

LEMMA Pairs ==
  /\ <<"pending">> \o <<"reply">> = <<"pending", "reply">>
  /\ <<>> \o <<"pending">> = <<"pending">> /\ <<>> \o <<"rejected">> = <<"rejected">>
  /\ <<"pending", "reply">> \o <<>> = <<"pending", "reply">>
  /\ <<"pending", "reply">> \in Seq(ServerAnswers)
<1>1. "pending" \in ServerAnswers /\ "reply" \in ServerAnswers /\ "rejected" \in ServerAnswers
  BY DEF ServerAnswers
<1>2. <<"pending">> \o <<"reply">> = <<"pending", "reply">>
  BY <1>1, TwoWords
<1>3. <<>> \o <<"pending">> = <<"pending">>
  BY <1>1, TwoWords
<1>4. <<>> \o <<"rejected">> = <<"rejected">>
  BY <1>1, TwoWords
<1>5. <<"pending", "reply">> \o <<>> = <<"pending", "reply">>
  BY <1>1, TwoWords
<1>6. <<"pending", "reply">> \in Seq(ServerAnswers)
  BY <1>1, TwoWords
<1> QED BY <1>2, <1>3, <1>4, <1>5, <1>6

LEMMA SimpleHandles ==
  ASSUME ServerTypeOK, NEW c, NEW f, NEW k, SameFirmware, Quiet, NEW what \in Seq(ServerAnswers),
         Answer(c, f, what), what \in {<<>>, <<"rxok">>, <<"rejected">>}
  PROVE  Handles(c, f, k, what)
<1>1. upgrading' \in BOOLEAN /\ calling' = calling /\ writer' = writer
  BY DEF SameFirmware, ServerTypeOK
<1> QED BY <1>1, QuietIs DEF Handles, GoodFor

LEMMA UpdateHandles ==
  ASSUME ServerTypeOK, NEW c, NEW f, NEW k, update_complete(c, f, k)
  PROVE  \E what : Handles(c, f, k, what)
  BY SimpleHandles, AnswerWords DEF update_complete

LEMMA RebootHandles ==
  ASSUME ServerTypeOK, NEW c, NEW f, NEW k, reboot(c, f, k) \/ unknown(c, f, k)
  PROVE  \E what : Handles(c, f, k, what)
  BY SimpleHandles, NotHandledIs DEF reboot, unknown

LEMMA QueryHandles ==
  ASSUME ServerTypeOK, NEW c, NEW f, NEW k, query(c, f, k)
  PROVE  \E what : Handles(c, f, k, what)
<1>1. PICK r \in Sendings : Sending(r) /\ Answer(c, f, r \o NotHandled)
  BY DEF query
<1> DEFINE what == r \o NotHandled
<1>2. what \in Seq(ServerAnswers)
  BY SendingsAre, NotHandledIs, AnswerWords
<1>3. Bounded /\ (calm' => what = <<"reply">> \o NotHandled)
  BY <1>1, SendingIs
<1>4. k = "query" /\ upgrading' \in BOOLEAN /\ calling' = calling /\ writer' = writer
  BY DEF query, SameFirmware, ServerTypeOK
<1>5. calm' => what \in GoodFor(k)
  BY <1>3, <1>4 DEF GoodFor
<1> QED BY <1>1, <1>2, <1>3, <1>4, <1>5 DEF Handles

LEMMA QueryCdiHandles ==
  ASSUME ServerTypeOK, NEW c, NEW f, NEW k, query_cdi(c, f, k)
  PROVE  \E what : Handles(c, f, k, what)
<1>1. PICK r \in Sendings :
        Sending(r) /\ Answer(c, f, <<"pending">> \o r \o IF SentOk(r) THEN <<>> ELSE NotHandled)
  BY DEF query_cdi
<1> DEFINE tail == IF SentOk(r) THEN <<>> ELSE NotHandled
           what == <<"pending">> \o r \o tail
<1>2. what \in Seq(ServerAnswers)
  <2>1. tail \in Seq(ServerAnswers)
    BY NotHandledIs, AnswerWords
  <2> HIDE DEF tail
  <2> QED BY <2>1, SendingsAre, AnswerWords
<1>3. Bounded /\ (calm' => r = <<"reply">>)
  BY <1>1, SendingIs
<1>4. calm' => what = <<"pending", "reply">>
  BY <1>3, ReplyIs, Pairs
<1>5. upgrading' \in BOOLEAN /\ calling' = calling /\ writer' = writer
  BY DEF query_cdi, SameFirmware, ServerTypeOK
<1> QED BY <1>1, <1>2, <1>3, <1>4, <1>5 DEF Handles, GoodFor

LEMMA FreezeHandles ==
  ASSUME ServerTypeOK, NEW c, NEW f, NEW k, freeze_unfreeze(c, f, k)
  PROVE  \E what : Handles(c, f, k, what)
<1>1. Answer(c, f, <<"rxok">>) /\ Quiet /\ calling' = calling /\ writer' = writer
  BY DEF freeze_unfreeze
<1>2. upgrading' \in BOOLEAN
  BY DEF freeze_unfreeze
<1> QED BY <1>1, <1>2, QuietIs, AnswerWords DEF Handles, GoodFor

LEMMA MemoryHandles ==
  ASSUME ServerTypeOK, NEW c, NEW f, NEW k, memory_access(c, f, k)
  PROVE  \E what : Handles(c, f, k, what)
<1>1. upgrading' \in BOOLEAN /\ calling' = calling /\ writer' = writer
  BY DEF memory_access, SameFirmware, ServerTypeOK
<1>2. ReadOrWrite(c, f, k = "read", <<>>)
  BY DEF memory_access
<1>3. \/ \E r \in Sendings : Sending(r) /\ Answer(c, f, <<>> \o <<"pending">> \o r)
      \/ Answer(c, f, <<>> \o <<"rejected">>) /\ Quiet
  BY <1>2 DEF ReadOrWrite
<1>4. ASSUME NEW r \in Sendings, Sending(r), Answer(c, f, <<>> \o <<"pending">> \o r)
      PROVE  \E what : Handles(c, f, k, what)
  <2> DEFINE what == <<>> \o <<"pending">> \o r
  <2>1. what \in Seq(ServerAnswers)
    BY SendingsAre, AnswerWords
  <2>2. Bounded /\ (calm' => what = <<"pending", "reply">>)
    BY <1>4, SendingIs, Pairs
  <2> QED BY <1>1, <1>4, <2>1, <2>2 DEF Handles, GoodFor
<1>5. ASSUME Answer(c, f, <<>> \o <<"rejected">>), Quiet
      PROVE  \E what : Handles(c, f, k, what)
  BY <1>1, <1>5, QuietIs, Pairs, AnswerWords DEF Handles, GoodFor
<1> QED BY <1>3, <1>4, <1>5

LEMMA CdiHandles ==
  ASSUME ServerTypeOK, NEW c, NEW f, NEW k, read_cdi(c, f, k)
  PROVE  \E what : Handles(c, f, k, what)
<1>1. upgrading' \in BOOLEAN /\ calling' = calling /\ writer' = writer
  BY DEF read_cdi, SameFirmware, ServerTypeOK
<1>2. ASSUME NEW r \in Sendings, Sending(r), Answer(c, f, <<"pending">> \o r)
      PROVE  \E what : Handles(c, f, k, what)
  <2> DEFINE what == <<"pending">> \o r
  <2>1. what \in Seq(ServerAnswers)
    BY SendingsAre, AnswerWords
  <2>2. Bounded /\ (calm' => what = <<"pending", "reply">>)
    BY <1>2, SendingIs, Pairs
  <2> QED BY <1>1, <1>2, <2>1, <2>2 DEF Handles, GoodFor
<1>3. ASSUME trouble < MaxTrouble, trouble' = trouble + 1, calm' = FALSE,
             NEW r \in Sendings,
             Answer(c, f, <<"pending">> \o r \o
                            IF HasRead THEN <<"pending", "reply">> ELSE <<"rejected">>)
      PROVE  \E what : Handles(c, f, k, what)
  <2> DEFINE tail == IF HasRead THEN <<"pending", "reply">> ELSE <<"rejected">>
             what == <<"pending">> \o r \o tail
  <2>1. tail \in Seq(ServerAnswers)
    BY AnswerWords, Pairs
  <2>2. what \in Seq(ServerAnswers)
    <3> HIDE DEF tail
    <3> QED BY <2>1, SendingsAre, AnswerWords
  <2>3. Bounded
    <3>1. trouble' \in 0..MaxTrouble
      BY <1>3, BoundsAssumption DEF ServerTypeOK, BoundsAssumption
    <3> QED BY <1>3, <3>1 DEF Bounded
  <2> QED BY <1>1, <1>3, <2>2, <2>3 DEF Handles
<1> QED BY <1>2, <1>3 DEF read_cdi

LEMMA FirmwareHandles ==
  ASSUME ServerTypeOK, NEW c, NEW f, NEW k, firmware_write(c, f, k)
  PROVE  \E what : Handles(c, f, k, what)
<1>1. upgrading' \in BOOLEAN
  BY DEF firmware_write, ServerTypeOK
<1>2. CASE Firmware = "set"
  <2>1. PICK r \in Sendings : Sending(r) /\ Answer(c, f, <<"pending">> \o r)
    BY <1>2 DEF firmware_write
  <2> DEFINE what == <<"pending">> \o r
  <2>2. what \in Seq(ServerAnswers)
    BY SendingsAre, AnswerWords
  <2>3. Bounded /\ (calm' => what = <<"pending", "reply">>)
    BY <2>1, SendingIs, Pairs
  <2>4. writer' = f.dg /\ calling' = FALSE
    BY <1>2 DEF firmware_write
  <2> QED BY <1>1, <2>1, <2>2, <2>3, <2>4 DEF Handles, GoodFor
<1>3. CASE Firmware # "set"
  <2>1. Answer(c, f, <<"pending">>) /\ Quiet /\ calling' = calling /\ writer' = writer
    BY <1>3 DEF firmware_write
  <2>2. Firmware = "unset"
    BY <1>3, NodeAssumption DEF firmware_write, NodeAssumption
  <2> QED BY <1>1, <2>1, <2>2, QuietIs, AnswerWords DEF Handles, GoodFor
<1> QED BY <1>2, <1>3

LEMMA HandleIs ==
  ASSUME ServerTypeOK, NEW c, NEW f, Handle(c, f)
  PROVE  \E k \in CommandOf(Appended(f)) : \E what : Handles(c, f, k, what)
<1>1. PICK k \in CommandOf(Appended(f)) :
         \/ update_complete(c, f, k) \/ reboot(c, f, k)
         \/ query(c, f, k) \/ query_cdi(c, f, k)
         \/ freeze_unfreeze(c, f, k) \/ unknown(c, f, k)
         \/ memory_access(c, f, k) \/ read_cdi(c, f, k) \/ firmware_write(c, f, k)
  BY DEF Handle
<1>2. \E what : Handles(c, f, k, what)
  BY <1>1, UpdateHandles, RebootHandles, QueryHandles, QueryCdiHandles, FreezeHandles, MemoryHandles,
     CdiHandles, FirmwareHandles
<1> QED BY <1>2

(***************************************************************************)
(* The frames of a client on the bus.                                      *)
(***************************************************************************)

Sents == [by : Clients, cmd : Commands, frames : 1..BufferFrames]
Frames == DatagramFrame \cup {OkFrame}

\* DatagramFrame number k of datagram d.
Part(s, d, k) == [type |-> FrameType(k, s[d].frames), dg |-> d, part |-> k]

IsPart(s, f, c) ==
  /\ f.dg \in DOMAIN s /\ s[f.dg].by = c
  /\ f.part \in 1..s[f.dg].frames
  /\ f = Part(s, f.dg, f.part)
OfClient(s, f, c) == f = OkFrame \/ IsPart(s, f, c)

Ends(s, f) == f.part = 0 \/ f.part = s[f.dg].frames
Begins(f) == f.part \in {0, 1}
Follows(s, f, g) == IF Ends(s, f) THEN Begins(g) ELSE g = Part(s, f.dg, f.part + 1)
Before(f, g) ==
  f.part > 0 /\ g.part > 0 => f.dg < g.dg \/ (f.dg = g.dg /\ f.part < g.part)

\* What client c has on the bus: its datagrams one after the other, the first one
\* perhaps without its beginning, and its answers between them.
AllOf(s, q, c) == \A i \in 1..Len(q) : OfClient(s, q[i], c)
Linked(s, q) == \A i \in 1..Len(q) : i + 1 <= Len(q) => Follows(s, q[i], q[i + 1])
Closed(s, q) == q # <<>> => Ends(s, q[Len(q)])
Sorted(q) == \A i, j \in 1..Len(q) : i < j => Before(q[i], q[j])
Chain(s, q, c) == AllOf(s, q, c) /\ Linked(s, q) /\ Closed(s, q) /\ Sorted(q)

LEMMA TailIs ==
  ASSUME NEW S, NEW q \in Seq(S), q # <<>>
  PROVE  /\ Tail(q) \in Seq(S) /\ Len(q) \in Nat /\ Len(q) >= 1 /\ Len(Tail(q)) = Len(q) - 1
         /\ \A i \in 1..Len(Tail(q)) : i + 1 \in 1..Len(q) /\ Tail(q)[i] = q[i + 1]
         /\ Head(q) = q[1] /\ q[1] \in S
         /\ Tail(q) = <<>> <=> Len(q) = 1
<1>1. Tail(q) \in Seq(S) /\ Len(q) \in Nat /\ Len(q) >= 1 /\ Len(Tail(q)) = Len(q) - 1
  BY EmptySeq
<1>2. \A i \in 1..Len(Tail(q)) : i + 1 \in 1..Len(q) /\ Tail(q)[i] = q[i + 1]
  BY <1>1
<1>3. Head(q) = q[1] /\ q[1] \in S
  BY <1>1
<1>4. Tail(q) = <<>> <=> Len(Tail(q)) = 0
  BY <1>1, EmptySeq
<1> QED BY <1>1, <1>2, <1>3, <1>4

LEMMA ChainTail ==
  ASSUME NEW s, NEW c, NEW S, NEW q \in Seq(S), q # <<>>, Chain(s, q, c)
  PROVE  /\ Chain(s, Tail(q), c)
         /\ Tail(q) # <<>> => Follows(s, q[1], Tail(q)[1])
         /\ Tail(q) = <<>> => Ends(s, q[1])
         /\ \A i \in 1..Len(Tail(q)) : Before(q[1], Tail(q)[i])
<1> DEFINE t == Tail(q)
<1>1. /\ t \in Seq(S) /\ Len(q) \in Nat /\ Len(q) >= 1 /\ Len(t) = Len(q) - 1
      /\ \A i \in 1..Len(t) : i + 1 \in 1..Len(q) /\ t[i] = q[i + 1]
      /\ t = <<>> <=> Len(q) = 1
  BY TailIs
<1> SUFFICES /\ Chain(s, t, c) /\ (t # <<>> => Follows(s, q[1], t[1])) /\ (t = <<>> => Ends(s, q[1]))
             /\ \A i \in 1..Len(t) : Before(q[1], t[i])
  OBVIOUS
<1> HIDE DEF t
<1>2. AllOf(s, t, c)
  BY <1>1 DEF Chain, AllOf
<1>3. Linked(s, t)
  <2> SUFFICES ASSUME NEW i \in 1..Len(t), i + 1 <= Len(t) PROVE Follows(s, t[i], t[i + 1])
    BY DEF Linked
  <2>1. t[i] = q[i + 1] /\ t[i + 1] = q[(i + 1) + 1] /\ i + 1 \in 1..Len(q) /\ (i + 1) + 1 <= Len(q)
    BY <1>1
  <2>2. Follows(s, q[i + 1], q[(i + 1) + 1])
    BY <2>1 DEF Chain, Linked
  <2> QED BY <2>1, <2>2
<1>4. Closed(s, t)
  <2> SUFFICES ASSUME t # <<>> PROVE Ends(s, t[Len(t)])
    BY DEF Closed
  <2>1. Len(t) \in 1..Len(t) /\ Len(t) + 1 = Len(q) /\ q # <<>>
    BY <1>1
  <2>2. t[Len(t)] = q[Len(q)]
    BY <1>1, <2>1
  <2> QED BY <2>1, <2>2 DEF Chain, Closed
<1>5. Sorted(t)
  <2> SUFFICES ASSUME NEW i \in 1..Len(t), NEW j \in 1..Len(t), i < j PROVE Before(t[i], t[j])
    BY DEF Sorted
  <2>1. t[i] = q[i + 1] /\ t[j] = q[j + 1] /\ i + 1 \in 1..Len(q) /\ j + 1 \in 1..Len(q) /\ i + 1 < j + 1
    BY <1>1
  <2>2. Before(q[i + 1], q[j + 1])
    BY <2>1 DEF Chain, Sorted
  <2> QED BY <2>1, <2>2
<1>6. t # <<>> => Follows(s, q[1], t[1])
  <2> HAVE t # <<>>
  <2>1. 1 \in 1..Len(t) /\ t[1] = q[1 + 1] /\ 1 \in 1..Len(q) /\ 1 + 1 <= Len(q)
    BY <1>1
  <2>2. Follows(s, q[1], q[1 + 1])
    BY <2>1 DEF Chain, Linked
  <2> QED BY <2>1, <2>2
<1>7. t = <<>> => Ends(s, q[1])
  BY <1>1 DEF Chain, Closed
<1>8. \A i \in 1..Len(t) : Before(q[1], t[i])
  <2> TAKE i \in 1..Len(t)
  <2>1. t[i] = q[i + 1] /\ 1 \in 1..Len(q) /\ i + 1 \in 1..Len(q) /\ 1 < i + 1
    BY <1>1
  <2>2. Before(q[1], q[i + 1])
    BY <2>1 DEF Chain, Sorted
  <2> QED BY <2>1, <2>2
<1> QED BY <1>2, <1>3, <1>4, <1>5, <1>6, <1>7, <1>8 DEF Chain

LEMMA ConcatIs ==
  ASSUME NEW S, NEW q \in Seq(S), NEW r \in Seq(S)
  PROVE  /\ q \o r \in Seq(S) /\ Len(q) \in Nat /\ Len(r) \in Nat /\ Len(q \o r) = Len(q) + Len(r)
         /\ \A i \in 1..Len(q) : (q \o r)[i] = q[i]
         /\ \A i \in 1..Len(r) : (q \o r)[Len(q) + i] = r[i]
         /\ \A i \in 1..(Len(q) + Len(r)) : i > Len(q) =>
              i - Len(q) \in 1..Len(r) /\ (q \o r)[i] = r[i - Len(q)]
         /\ q = <<>> <=> Len(q) = 0
         /\ r = <<>> <=> Len(r) = 0
  BY ConcatProperties, EmptySeq, LenProperties

LEMMA ChainConcat ==
  ASSUME NEW s, NEW c, NEW S, NEW q \in Seq(S), NEW r \in Seq(S), Chain(s, q, c), Chain(s, r, c),
         r # <<>> => Begins(r[1]),
         \A i \in 1..Len(q), j \in 1..Len(r) : Before(q[i], r[j])
  PROVE  Chain(s, q \o r, c)
<1> DEFINE t == q \o r
           n == Len(q)
           m == Len(r)
<1>1. /\ t \in Seq(S) /\ n \in Nat /\ m \in Nat /\ Len(t) = n + m
      /\ \A i \in 1..n : t[i] = q[i]
      /\ \A i \in 1..(n + m) : i > n => i - n \in 1..m /\ t[i] = r[i - n]
      /\ q = <<>> <=> n = 0
      /\ r = <<>> <=> m = 0
  BY ConcatIs
<1>2. /\ \A i \in 1..n : OfClient(s, q[i], c)
      /\ \A i \in 1..m : OfClient(s, r[i], c)
  BY DEF Chain, AllOf
<1>3. /\ \A i \in 1..n : i + 1 <= n => Follows(s, q[i], q[i + 1])
      /\ \A i \in 1..m : i + 1 <= m => Follows(s, r[i], r[i + 1])
  BY DEF Chain, Linked
<1>4. (q # <<>> => Ends(s, q[n])) /\ (r # <<>> => Ends(s, r[m]))
  BY DEF Chain, Closed
<1>5. /\ \A i, j \in 1..n : i < j => Before(q[i], q[j])
      /\ \A i, j \in 1..m : i < j => Before(r[i], r[j])
      /\ \A i \in 1..n, j \in 1..m : Before(q[i], r[j])
  BY DEF Chain, Sorted
<1> SUFFICES Chain(s, t, c)
  OBVIOUS
<1> HIDE DEF t, n, m
<1>6. AllOf(s, t, c)
  <2> SUFFICES ASSUME NEW i \in 1..Len(t) PROVE OfClient(s, t[i], c)
    BY DEF AllOf
  <2>1. CASE i <= n
    BY <1>1, <1>2, <2>1
  <2>2. CASE i > n
    BY <1>1, <1>2, <2>2
  <2> QED BY <1>1, <2>1, <2>2
<1>7. Linked(s, t)
  <2> SUFFICES ASSUME NEW i \in 1..Len(t), i + 1 <= Len(t) PROVE Follows(s, t[i], t[i + 1])
    BY DEF Linked
  <2>1. CASE i + 1 <= n
    <3>1. i \in 1..n /\ i + 1 \in 1..n
      BY <1>1, <2>1
    <3> QED BY <1>1, <1>3, <2>1, <3>1
  <2>2. CASE i = n
    <3>1. t[i] = q[n] /\ q # <<>>
      BY <1>1, <2>2
    <3>2. i + 1 \in 1..(n + m) /\ i + 1 > n /\ (i + 1) - n = 1
      BY <1>1, <2>2
    <3>3. t[i + 1] = r[1] /\ r # <<>>
      BY <1>1, <3>2
    <3> QED BY <1>4, <3>1, <3>3 DEF Follows
  <2>3. CASE i > n
    <3>1. i - n \in 1..m /\ (i + 1) - n = (i - n) + 1 /\ (i - n) + 1 <= m
      BY <1>1, <2>3
    <3>2. t[i] = r[i - n] /\ t[i + 1] = r[(i - n) + 1]
      BY <1>1, <2>3, <3>1
    <3> QED BY <1>3, <3>1, <3>2
  <2> QED BY <1>1, <2>1, <2>2, <2>3
<1>8. Closed(s, t)
  <2> SUFFICES ASSUME t # <<>> PROVE Ends(s, t[Len(t)])
    BY DEF Closed
  <2>0. n + m > 0
    BY <1>1, EmptySeq
  <2>1. CASE m > 0
    <3>1. Len(t) \in 1..(n + m) /\ Len(t) > n /\ Len(t) - n = m
      BY <1>1, <2>1
    <3>2. t[Len(t)] = r[m] /\ r # <<>>
      BY <1>1, <2>1, <3>1
    <3> QED BY <1>4, <3>2
  <2>2. CASE m = 0
    <3>1. Len(t) = n /\ n \in 1..n
      BY <1>1, <2>0, <2>2
    <3>2. t[Len(t)] = q[n] /\ q # <<>>
      BY <1>1, <2>0, <2>2, <3>1
    <3> QED BY <1>4, <3>2
  <2> QED BY <1>1, <2>1, <2>2
<1>9. Sorted(t)
  <2> SUFFICES ASSUME NEW i \in 1..Len(t), NEW j \in 1..Len(t), i < j PROVE Before(t[i], t[j])
    BY DEF Sorted
  <2>1. CASE j <= n
    <3>1. i \in 1..n /\ j \in 1..n
      BY <1>1, <2>1
    <3> QED BY <1>1, <1>5, <3>1
  <2>2. CASE i <= n /\ j > n
    <3>1. i \in 1..n /\ j - n \in 1..m
      BY <1>1, <2>2
    <3>2. t[i] = q[i] /\ t[j] = r[j - n]
      BY <1>1, <2>2
    <3> QED BY <1>5, <3>1, <3>2
  <2>3. CASE i > n
    <3>1. i - n \in 1..m /\ j - n \in 1..m /\ i - n < j - n
      BY <1>1, <2>3
    <3>2. t[i] = r[i - n] /\ t[j] = r[j - n]
      BY <1>1, <2>3
    <3> QED BY <1>5, <3>1, <3>2
  <2> QED BY <1>1, <2>1, <2>2, <2>3
<1> QED BY <1>6, <1>7, <1>8, <1>9 DEF Chain

\* An answer may come behind everything.
LEMMA ChainOk ==
  ASSUME NEW s, NEW c, NEW q \in Seq(Frames), Chain(s, q, c)
  PROVE  Chain(s, q \o <<OkFrame>>, c)
<1> DEFINE r == <<OkFrame>>
<1>1. r \in Seq(Frames) /\ Len(r) = 1 /\ r[1] = OkFrame /\ OkFrame.part = 0
  BY DEF Frames, OkFrame
<1> SUFFICES Chain(s, q \o r, c)
  OBVIOUS
<1> HIDE DEF r
<1>2. Chain(s, r, c)
  <2>1. \A i \in 1..Len(r) : i = 1
    BY <1>1
  <2>2. AllOf(s, r, c)
    BY <1>1, <2>1 DEF AllOf, OfClient
  <2>3. Linked(s, r) /\ Sorted(r)
    BY <1>1, <2>1 DEF Linked, Sorted
  <2>4. Closed(s, r)
    BY <1>1 DEF Closed, Ends
  <2> QED BY <2>2, <2>3, <2>4 DEF Chain
<1>3. Begins(r[1])
  BY <1>1 DEF Begins
<1>4. \A i \in 1..Len(q), j \in 1..Len(r) : Before(q[i], r[j])
  BY <1>1 DEF Before
<1> QED BY <1>1, <1>2, <1>3, <1>4, ChainConcat

LEMMA TypesOfFrames ==
  ASSUME NEW n \in Nat, NEW k \in 1..n
  PROVE  /\ FrameType(k, n) \in Types
         /\ FrameType(k, n) = "only" <=> n = 1
         /\ FrameType(k, n) = "first" <=> n > 1 /\ k = 1
         /\ FrameType(k, n) = "last" <=> n > 1 /\ k = n
         /\ FrameType(k, n) = "middle" <=> k > 1 /\ k < n
<1>1. CASE n = 1
  BY <1>1 DEF FrameType, Types
<1>2. CASE n > 1 /\ k = 1
  BY <1>2 DEF FrameType, Types
<1>3. CASE n > 1 /\ k = n
  BY <1>3 DEF FrameType, Types
<1>4. CASE k > 1 /\ k < n
  BY <1>4 DEF FrameType, Types
<1> QED BY <1>1, <1>2, <1>3, <1>4

LEMMA PartIs ==
  ASSUME NEW s, NEW d, NEW k
  PROVE  /\ Part(s, d, k).type = FrameType(k, s[d].frames)
         /\ Part(s, d, k).dg = d /\ Part(s, d, k).part = k
  BY DEF Part

LEMMA SentIs ==
  ASSUME NEW s \in Seq(Sents), NEW d \in DOMAIN s
  PROVE  /\ d \in Nat /\ d >= 1 /\ d <= Len(s) /\ Len(s) \in Nat
         /\ s[d].by \in Clients /\ s[d].cmd \in Commands
         /\ s[d].frames \in Nat /\ s[d].frames >= 1 /\ s[d].frames <= BufferFrames
<1>1. d \in Nat /\ d >= 1 /\ d <= Len(s) /\ Len(s) \in Nat
  OBVIOUS
<1>2. s[d] \in Sents
  BY <1>1
<1>3. s[d].by \in Clients /\ s[d].cmd \in Commands /\ s[d].frames \in 1..BufferFrames
  BY <1>2 DEF Sents
<1>4. BufferFrames \in Nat
  BY BoundsAssumption DEF BoundsAssumption
<1> QED BY <1>1, <1>3, <1>4

\* What is left of a client's frames q when the first one is taken.
Remains(s, q, w, c) ==
  /\ w \in Seq(Frames) /\ Chain(s, w, c)
  /\ Ends(s, q[1]) /\ w # <<>> => Begins(w[1])
  /\ ~Ends(s, q[1]) => w # <<>> /\ w[1] = Part(s, q[1].dg, q[1].part + 1)
  /\ \A i \in 1..Len(w) :
       Before(q[1], w[i]) /\ (w[i] = OkFrame \/ \E j \in 1..Len(q) : w[i] = q[j])

LEMMA ChainRest ==
  ASSUME NEW s, NEW c, NEW q \in Seq(Frames), q # <<>>, Chain(s, q, c),
         NEW w, w = Tail(q) \/ w = Tail(q) \o <<OkFrame>>
  PROVE  Remains(s, q, w, c)
<1> DEFINE t == Tail(q)
           r == <<OkFrame>>
<1>1. /\ t \in Seq(Frames) /\ Len(q) \in Nat /\ Len(t) = Len(q) - 1
      /\ \A i \in 1..Len(t) : i + 1 \in 1..Len(q) /\ t[i] = q[i + 1]
  BY TailIs
<1>2. /\ Chain(s, t, c) /\ (t # <<>> => Follows(s, q[1], t[1])) /\ (t = <<>> => Ends(s, q[1]))
      /\ \A i \in 1..Len(t) : Before(q[1], t[i])
  BY ChainTail
<1>3. r \in Seq(Frames) /\ Len(r) = 1 /\ r[1] = OkFrame /\ OkFrame.part = 0
  BY DEF Frames, OkFrame
<1>4. Chain(s, t \o r, c)
  BY <1>1, <1>2, ChainOk
<1>0. w = t \/ w = t \o r
  OBVIOUS
<1> SUFFICES /\ w \in Seq(Frames) /\ Chain(s, w, c)
             /\ Ends(s, q[1]) /\ w # <<>> => Begins(w[1])
             /\ ~Ends(s, q[1]) => w # <<>> /\ w[1] = Part(s, q[1].dg, q[1].part + 1)
             /\ \A i \in 1..Len(w) :
                  Before(q[1], w[i]) /\ (w[i] = OkFrame \/ \E j \in 1..Len(q) : w[i] = q[j])
  BY DEF Remains
<1> HIDE DEF t, r
<1>5. CASE w = t
  <2>1. Ends(s, q[1]) /\ w # <<>> => Begins(w[1])
    BY <1>2, <1>5 DEF Follows
  <2>2. ~Ends(s, q[1]) => w # <<>> /\ w[1] = Part(s, q[1].dg, q[1].part + 1)
    BY <1>2, <1>5 DEF Follows
  <2> QED BY <1>1, <1>2, <1>5, <2>1, <2>2
<1>6. CASE w = t \o r
  <2>1. /\ w \in Seq(Frames) /\ Len(t) \in Nat /\ Len(w) = Len(t) + 1
        /\ \A i \in 1..Len(t) : w[i] = t[i]
        /\ w[Len(t) + 1] = OkFrame
        /\ t = <<>> <=> Len(t) = 0
    <3> DEFINE u == t \o r
    <3>0. /\ u \in Seq(Frames) /\ Len(t) \in Nat /\ Len(u) = Len(t) + Len(r)
          /\ \A i \in 1..Len(t) : u[i] = t[i]
          /\ \A i \in 1..Len(r) : u[Len(t) + i] = r[i]
          /\ t = <<>> <=> Len(t) = 0
      <4>1. t \in Seq(Frames) /\ r \in Seq(Frames)
        BY <1>1, <1>3
      <4>2. /\ u \in Seq(Frames) /\ Len(t) \in Nat /\ Len(u) = Len(t) + Len(r)
            /\ \A i \in 1..Len(t) : u[i] = t[i]
        BY ONLY <4>1, ConcatIs
      <4>3. \A i \in 1..Len(r) : u[Len(t) + i] = r[i]
        BY ONLY <4>1, ConcatIs
      <4>4. t = <<>> <=> Len(t) = 0
        BY ONLY <4>1, ConcatIs
      <4> QED BY <4>2, <4>3, <4>4
    <3> HIDE DEF u
    <3>1. /\ w \in Seq(Frames) /\ Len(t) \in Nat /\ Len(w) = Len(t) + Len(r)
          /\ \A i \in 1..Len(t) : w[i] = t[i]
          /\ \A i \in 1..Len(r) : w[Len(t) + i] = r[i]
          /\ t = <<>> <=> Len(t) = 0
      BY <1>6, <3>0 DEF u
    <3>2. 1 \in 1..Len(r)
      BY <1>3
    <3> QED BY <1>3, <3>1, <3>2
  <2>2. w[1] = IF t = <<>> THEN OkFrame ELSE t[1]
    BY <2>1
  <2>3. w # <<>>
    BY <2>1, EmptySeq
  <2>4. Ends(s, q[1]) => Begins(w[1])
    BY <1>2, <1>3, <2>2 DEF Follows, Begins
  <2>5. ~Ends(s, q[1]) => w[1] = Part(s, q[1].dg, q[1].part + 1)
    BY <1>2, <2>2 DEF Follows
  <2>6. ASSUME NEW i \in 1..Len(w)
        PROVE  Before(q[1], w[i]) /\ (w[i] = OkFrame \/ \E j \in 1..Len(q) : w[i] = q[j])
    <3>1. CASE i = Len(t) + 1
      BY <1>3, <2>1, <3>1 DEF Before
    <3>2. CASE i \in 1..Len(t)
      BY <1>1, <1>2, <2>1, <3>2
    <3> QED BY <2>1, <3>1, <3>2
  <2> QED BY <1>4, <1>6, <2>1, <2>3, <2>4, <2>5, <2>6
<1> QED BY <1>0, <1>5, <1>6

\* The frames that a client sends.
LEMMA PartsOf ==
  ASSUME NEW s \in Seq(Sents), Len(s) <= MaxDatagrams, NEW d \in DOMAIN s
  PROVE  /\ FramesOf(d, s[d].frames) \in Seq(Frames)
         /\ Len(FramesOf(d, s[d].frames)) = s[d].frames
         /\ \A k \in 1..s[d].frames : FramesOf(d, s[d].frames)[k] = Part(s, d, k)
         /\ Chain(s, FramesOf(d, s[d].frames), s[d].by)
<1> DEFINE n == s[d].frames
           r == FramesOf(d, n)
<1>1. /\ n \in Nat /\ n >= 1 /\ n <= BufferFrames /\ d \in Nat /\ d >= 1 /\ d <= MaxDatagrams
      /\ BufferFrames \in Nat /\ MaxDatagrams \in Nat
  BY SentIs, BoundsAssumption DEF BoundsAssumption
<1>2. d \in Ids
  BY <1>1 DEF Ids
<1>3. \A k \in 1..n : /\ FrameType(k, n) \in Types
  BY <1>1, TypesOfFrames
<1>4. \A k \in 1..n : [type |-> FrameType(k, n), dg |-> d, part |-> k] \in Frames
  BY <1>1, <1>2, <1>3 DEF Frames, DatagramFrame
<1>5. r = [k \in 1..n |-> Part(s, d, k)]
  BY DEF FramesOf, Part
<1>6. \A k \in 1..n : Part(s, d, k) \in Frames
  BY <1>4 DEF Part
<1> SUFFICES r \in Seq(Frames) /\ Len(r) = n /\ (\A k \in 1..n : r[k] = Part(s, d, k))
             /\ Chain(s, r, s[d].by)
  OBVIOUS
<1>0. n = s[d].frames
  OBVIOUS
<1> HIDE DEF r, n
<1>7. r \in Seq(Frames) /\ Len(r) = n /\ \A k \in 1..n : r[k] = Part(s, d, k)
  BY <1>1, <1>5, <1>6
<1>8. \A k : Part(s, d, k).dg = d /\ Part(s, d, k).part = k
  BY PartIs
<1>9. AllOf(s, r, s[d].by)
  <2> SUFFICES ASSUME NEW k \in 1..Len(r) PROVE IsPart(s, r[k], s[d].by)
    BY DEF AllOf, OfClient
  <2> QED BY <1>0, <1>7, <1>8 DEF IsPart
<1>10. Linked(s, r)
  <2> SUFFICES ASSUME NEW k \in 1..Len(r), k + 1 <= Len(r) PROVE Follows(s, r[k], r[k + 1])
    BY DEF Linked
  <2>1. k \in 1..n /\ k + 1 \in 1..n /\ k # n /\ k # 0
    BY <1>1, <1>7
  <2>2. r[k].dg = d /\ r[k].part = k /\ r[k + 1] = Part(s, d, k + 1)
    BY <1>7, <1>8, <2>1
  <2> QED BY <1>0, <2>1, <2>2 DEF Follows, Ends
<1>11. Closed(s, r)
  <2>1. n \in 1..n
    BY <1>1
  <2> QED BY <1>0, <1>7, <1>8, <2>1 DEF Closed, Ends
<1>12. Sorted(r)
  BY <1>1, <1>7, <1>8 DEF Sorted, Before
<1> QED BY <1>7, <1>9, <1>10, <1>11, <1>12 DEF Chain

\* One more datagram changes nothing for the others.
LEMMA ChainExtends ==
  ASSUME NEW s \in Seq(Sents), NEW x \in Sents, NEW c, NEW q \in Seq(Frames), Chain(s, q, c)
  PROVE  Chain(Append(s, x), q, c)
<1> DEFINE t == Append(s, x)
<1>1. \A d \in DOMAIN s : d \in DOMAIN t /\ t[d] = s[d]
  OBVIOUS
<1> SUFFICES Chain(t, q, c)
  OBVIOUS
<1> HIDE DEF t
<1>2. \A d \in DOMAIN s : \A k : Part(t, d, k) = Part(s, d, k)
  BY <1>1 DEF Part
<1>3. \A f : OfClient(s, f, c) => OfClient(t, f, c)
  BY <1>1, <1>2 DEF OfClient, IsPart
<1>4. \A f : OfClient(s, f, c) => (Ends(t, f) <=> Ends(s, f))
  BY <1>1 DEF OfClient, IsPart, Ends, OkFrame
<1>5. ASSUME NEW f, NEW g, OfClient(s, f, c), Follows(s, f, g)
      PROVE  Follows(t, f, g)
  <2>1. CASE Ends(s, f)
    BY <1>4, <1>5, <2>1 DEF Follows
  <2>2. CASE ~Ends(s, f)
    <3>1. f.dg \in DOMAIN s
      BY <1>5, <2>2 DEF OfClient, IsPart, Ends, OkFrame
    <3> QED BY <1>2, <1>4, <1>5, <2>2, <3>1 DEF Follows
  <2> QED BY <2>1, <2>2
<1>6. AllOf(t, q, c)
  BY <1>3 DEF Chain, AllOf
<1>7. Linked(t, q)
  BY <1>5 DEF Chain, AllOf, Linked
<1>8. Closed(t, q)
  <2> SUFFICES ASSUME q # <<>> PROVE Ends(t, q[Len(q)])
    BY DEF Closed
  <2>1. Len(q) \in 1..Len(q)
    BY EmptySeq
  <2>2. OfClient(s, q[Len(q)], c) /\ Ends(s, q[Len(q)])
    BY <2>1 DEF Chain, AllOf, Closed
  <2> QED BY <1>4, <2>2
<1> QED BY <1>6, <1>7, <1>8 DEF Chain

LEMMA ChainSend ==
  ASSUME NEW s \in Seq(Sents), NEW x \in Sents, Len(s) < MaxDatagrams, NEW c, x.by = c,
         NEW q \in Seq(Frames), Chain(s, q, c)
  PROVE  /\ q \o FramesOf(Len(s) + 1, x.frames) \in Seq(Frames)
         /\ Chain(Append(s, x), q \o FramesOf(Len(s) + 1, x.frames), c)
<1> DEFINE t == Append(s, x)
           d == Len(s) + 1
           r == FramesOf(d, x.frames)
<1>1. t \in Seq(Sents) /\ Len(t) = Len(s) + 1 /\ d \in DOMAIN t /\ t[d] = x /\ Len(s) \in Nat
  OBVIOUS
<1>2. Chain(t, q, c)
  BY ChainExtends
<1> SUFFICES q \o r \in Seq(Frames) /\ Chain(t, q \o r, c)
  OBVIOUS
<1>0. r = FramesOf(d, x.frames) /\ d = Len(s) + 1
  OBVIOUS
<1> HIDE DEF t, r, d
<1>3. Len(t) <= MaxDatagrams
  BY <1>1, BoundsAssumption DEF BoundsAssumption
<1>4. /\ r \in Seq(Frames) /\ Chain(t, r, c) /\ Len(r) = x.frames
      /\ \A k \in 1..Len(r) : r[k] = Part(t, d, k)
  BY <1>0, <1>1, <1>3, PartsOf
<1>5. r # <<>> => Begins(r[1])
  <2> HAVE r # <<>>
  <2>1. 1 \in 1..Len(r)
    BY <1>4, EmptySeq
  <2> QED BY <1>4, <2>1, PartIs DEF Begins
<1>6. ASSUME NEW i \in 1..Len(q), NEW j \in 1..Len(r)
      PROVE  Before(q[i], r[j])
  <2>1. OfClient(s, q[i], c)
    BY DEF Chain, AllOf
  <2>2. CASE q[i] = OkFrame
    BY <2>2 DEF Before, OkFrame
  <2>3. CASE IsPart(s, q[i], c)
    <3>1. q[i].dg \in DOMAIN s
      BY <2>3 DEF IsPart
    <3>2. q[i].dg < d
      BY <1>0, <3>1, SentIs
    <3>3. r[j].dg = d
      BY <1>4, PartIs
    <3> QED BY <3>2, <3>3 DEF Before
  <2> QED BY <2>1, <2>2, <2>3 DEF OfClient
<1>7. q \o r \in Seq(Frames)
  BY <1>4, ConcatIs
<1> QED BY <1>2, <1>4, <1>5, <1>6, <1>7, ChainConcat

(***************************************************************************)
(* The assembly.                                                           *)
(***************************************************************************)

\* The buffer holds the first frames of datagram d, and the next one comes next.
Holds(s, a, b, d) ==
  /\ d \in DOMAIN s /\ Len(b) < s[d].frames
  /\ \A i \in 1..Len(b) : b[i] = Part(s, d, i)
  /\ a[s[d].by] # <<>> /\ Head(a[s[d].by]) = Part(s, d, Len(b) + 1)
Assembling(s, a, b) == b # <<>> => \E d : Holds(s, a, b, d)

\* Whose datagram is in the buffer; of the others a new frame comes.
Owned(s, b, c) == b # <<>> /\ s[b[1].dg].by = c
HeadsBegin(s, a, b) == \A c \in Clients : a[c] # <<>> /\ ~Owned(s, b, c) => Begins(Head(a[c]))

Chains(s, a) == \A c \in Clients : Chain(s, a[c], c)

\* Datagrams of several frames are those of one client.
Multi(s, q) == \E i \in 1..Len(q) : q[i].part > 0 /\ s[q[i].dg].frames > 1
OneLong(s, a) == \A c, e \in Clients : Multi(s, a[c]) /\ Multi(s, a[e]) => c = e

\* A datagram that has not come whole has no answer.
Unanswered(s, a, an) ==
  /\ \A d \in Ids : d \notin DOMAIN s => an[d] = <<>>
  /\ \A c \in Clients : \A i \in 1..Len(a[c]) : a[c][i].part > 0 => an[a[c][i].dg] = <<>>

Good(s, a, b, an) ==
  /\ Chains(s, a) /\ Assembling(s, a, b) /\ HeadsBegin(s, a, b)
  /\ OneLong(s, a) /\ Unanswered(s, a, an)

Settled ==
  calm => (receiving <=> buffer # <<>>) /\ Good(sent, toServer, buffer, answers)

Returned == calling = FALSE

LEMMA QueueIs ==
  ASSUME ServerTypeOK, NEW c \in Clients, toServer[c] # <<>>
  PROVE  /\ toServer[c] \in Seq(Frames) /\ Head(toServer[c]) = toServer[c][1]
         /\ Head(toServer[c]) \in Frames /\ 1 \in 1..Len(toServer[c]) /\ Tail(toServer[c]) \in Seq(Frames)
<1>1. toServer[c] \in Seq(Frames)
  BY DEF ServerTypeOK, Frames
<1>2. Len(toServer[c]) \in Nat /\ Len(toServer[c]) >= 1
  BY <1>1, TailIs
<1> QED BY <1>1, <1>2, TailIs

LEMMA SentOK ==
  ASSUME ServerTypeOK
  PROVE  sent \in Seq(Sents) /\ Len(sent) <= MaxDatagrams
  BY DEF ServerTypeOK, Sents

\* A frame that comes is one of a datagram of its sender, or an answer.
LEMMA FrameIs ==
  ASSUME ServerTypeOK, Chains(sent, toServer), NEW c \in Clients, toServer[c] # <<>>,
         NEW f, f = Head(toServer[c]), f.type # "answer"
  PROVE  /\ IsPart(sent, f, c) /\ f.dg \in Ids /\ f.part \in Nat /\ f.part > 0
         /\ sent[f.dg].frames \in Nat
         /\ f.type = FrameType(f.part, sent[f.dg].frames)
         /\ f \in DatagramFrame
<1>1. f = toServer[c][1] /\ 1 \in 1..Len(toServer[c]) /\ f \in Frames
  BY QueueIs
<1>2. OfClient(sent, f, c)
  BY <1>1 DEF Chains, Chain, AllOf
<1>3. IsPart(sent, f, c)
  BY <1>2 DEF OfClient, OkFrame
<1>4. f.dg \in DOMAIN sent /\ f.part \in 1..sent[f.dg].frames /\ f = Part(sent, f.dg, f.part)
  BY <1>3 DEF IsPart
<1>5. sent[f.dg].frames \in Nat /\ f.part \in Nat /\ f.part > 0
  BY <1>4, SentOK, SentIs
<1>6. f.type = FrameType(f.part, sent[f.dg].frames)
  BY <1>4, PartIs
<1>7. f \in DatagramFrame
  BY <1>1 DEF Frames, OkFrame
<1>8. f.dg \in Ids
  BY <1>7 DEF DatagramFrame
<1> QED BY <1>3, <1>5, <1>6, <1>7, <1>8

\* The head of the owner's frames.
LEMMA OwnerIs ==
  ASSUME ServerTypeOK, NEW d, Holds(sent, toServer, buffer, d), buffer # <<>>
  PROVE  /\ d \in DOMAIN sent /\ sent[d].by \in Clients
         /\ \A c \in Clients : Owned(sent, buffer, c) <=> c = sent[d].by
         /\ Len(buffer) \in Nat /\ Len(buffer) >= 1
         /\ sent[d].frames \in Nat /\ Len(buffer) + 1 <= sent[d].frames
         /\ sent[d].frames <= BufferFrames /\ BufferFrames \in Nat
         /\ Head(toServer[sent[d].by]).dg = d /\ Head(toServer[sent[d].by]).part = Len(buffer) + 1
         /\ Multi(sent, toServer[sent[d].by])
<1>1. Len(buffer) \in Nat /\ Len(buffer) >= 1
  BY EmptySeq DEF ServerTypeOK
<1>2. d \in DOMAIN sent /\ Len(buffer) < sent[d].frames
  BY DEF Holds
<1>3. sent[d].by \in Clients /\ sent[d].frames \in Nat /\ sent[d].frames <= BufferFrames
  BY <1>2, SentOK, SentIs
<1>4. buffer[1] = Part(sent, d, 1)
  BY <1>1 DEF Holds
<1>5. \A c \in Clients : Owned(sent, buffer, c) <=> c = sent[d].by
  BY <1>4, PartIs DEF Owned
<1> DEFINE o == sent[d].by
<1>6. toServer[o] # <<>> /\ Head(toServer[o]).dg = d /\ Head(toServer[o]).part = Len(buffer) + 1
  BY PartIs DEF Holds
<1>7. Head(toServer[o]) = toServer[o][1] /\ 1 \in 1..Len(toServer[o])
  BY <1>3, <1>6, QueueIs
<1>8. Multi(sent, toServer[o])
  BY <1>1, <1>2, <1>3, <1>6, <1>7 DEF Multi
<1>9. BufferFrames \in Nat
  BY BoundsAssumption DEF BoundsAssumption
<1> QED BY <1>1, <1>2, <1>3, <1>5, <1>6, <1>8, <1>9

\* A frame that is not turned away is the next one of what is in the buffer.
LEMMA Current ==
  ASSUME ServerTypeOK, receiving <=> buffer # <<>>, Good(sent, toServer, buffer, answers),
         NEW c \in Clients, toServer[c] # <<>>,
         NEW f, f = Head(toServer[c]), f.type # "answer",
         f.type \in {"middle", "last"} \/ ~receiving
  PROVE  /\ f.part = Len(buffer) + 1 /\ f = Part(sent, f.dg, Len(buffer) + 1)
         /\ \A i \in 1..Len(buffer) : buffer[i] = Part(sent, f.dg, i)
         /\ \A e \in Clients : e # c => ~Owned(sent, buffer, e)
         /\ Len(buffer) \in Nat /\ Len(buffer) < BufferFrames
         /\ Appended(f) = Append(buffer, f)
<1>1. /\ IsPart(sent, f, c) /\ f.part \in Nat /\ f.part > 0 /\ sent[f.dg].frames \in Nat
      /\ f.type = FrameType(f.part, sent[f.dg].frames)
  BY FrameIs DEF Good
<1>2. f.dg \in DOMAIN sent /\ f.part \in 1..sent[f.dg].frames /\ f = Part(sent, f.dg, f.part)
  BY <1>1 DEF IsPart
<1>3. Len(buffer) \in Nat /\ BufferFrames \in Nat /\ buffer \in Seq(DatagramFrame)
  BY BoundsAssumption DEF ServerTypeOK, BoundsAssumption
<1>4. CASE buffer = <<>>
  <2>1. Begins(f)
    BY <1>4 DEF Good, HeadsBegin, Owned
  <2>2. f.part = 1 /\ Len(buffer) = 0
    BY <1>1, <1>4, <2>1 DEF Begins
  <2>3. Len(buffer) < BufferFrames
    <3>1. sent[f.dg].frames >= 1 /\ sent[f.dg].frames <= BufferFrames
      BY <1>2, SentOK, SentIs
    <3> QED BY <1>1, <1>3, <2>2, <3>1
  <2>4. Appended(f) = Append(buffer, f)
    BY <2>3 DEF Appended
  <2>5. f = Part(sent, f.dg, Len(buffer) + 1)
    BY <1>2, <2>2
  <2>6. \A i \in 1..Len(buffer) : buffer[i] = Part(sent, f.dg, i)
    BY <2>2
  <2>7. \A e \in Clients : ~Owned(sent, buffer, e)
    BY <1>4 DEF Owned
  <2> QED BY <1>3, <2>2, <2>3, <2>4, <2>5, <2>6, <2>7
<1>5. CASE buffer # <<>>
  <2>1. PICK d : Holds(sent, toServer, buffer, d)
    BY <1>5 DEF Good, Assembling
  <2>2. /\ \A e \in Clients : Owned(sent, buffer, e) <=> e = sent[d].by
        /\ Len(buffer) + 1 <= sent[d].frames
        /\ sent[d].frames <= BufferFrames /\ sent[d].frames \in Nat
    BY <1>5, <2>1, OwnerIs
  <2>3. ~Begins(f)
    <3>1. f.type \in {"middle", "last"}
      BY <1>5
    <3>2. f.part > 1
      BY <1>1, <1>2, <3>1, TypesOfFrames
    <3> QED BY <1>1, <3>2 DEF Begins
  <2>4. Owned(sent, buffer, c)
    BY <2>3 DEF Good, HeadsBegin
  <2>5. c = sent[d].by
    BY <2>2, <2>4
  <2>6. f = Part(sent, d, Len(buffer) + 1) /\ \A i \in 1..Len(buffer) : buffer[i] = Part(sent, d, i)
    BY <2>1, <2>5 DEF Holds
  <2>7. f.dg = d /\ f.part = Len(buffer) + 1
    BY <2>6, PartIs
  <2>8. Len(buffer) < BufferFrames
    BY <1>3, <2>2
  <2>9. Appended(f) = Append(buffer, f)
    BY <2>8 DEF Appended
  <2> QED BY <1>3, <2>2, <2>5, <2>6, <2>7, <2>8, <2>9
<1> QED BY <1>4, <1>5

\* What taking a frame f of client c leaves on the bus.
AfterTaking(c, f, w, a) ==
  /\ Chains(sent, a) /\ OneLong(sent, a)
  /\ a[c] = w /\ \A e \in Clients : e # c => a[e] = toServer[e]
  /\ Ends(sent, f) /\ w # <<>> => Begins(Head(w))
  /\ ~Ends(sent, f) => w # <<>> /\ Head(w) = Part(sent, f.dg, f.part + 1)
  /\ \A e \in Clients : \A i \in 1..Len(a[e]) :
       \/ a[e][i].part = 0
       \/ \E j \in 1..Len(toServer[e]) : a[e][i] = toServer[e][j]
  /\ \A i \in 1..Len(w) : Before(f, w[i])

LEMMA Taken ==
  ASSUME ServerTypeOK, Chains(sent, toServer), OneLong(sent, toServer),
         NEW c \in Clients, toServer[c] # <<>>, NEW f, f = Head(toServer[c]),
         NEW w, w = Tail(toServer[c]) \/ w = Tail(toServer[c]) \o <<OkFrame>>,
         NEW a, a = [toServer EXCEPT ![c] = w]
  PROVE  AfterTaking(c, f, w, a)
<1>1. toServer[c] \in Seq(Frames) /\ f = toServer[c][1] /\ 1 \in 1..Len(toServer[c])
  BY QueueIs
<1>2. Chain(sent, toServer[c], c)
  BY DEF Chains
<1>3. Remains(sent, toServer[c], w, c)
  <2>1. toServer[c] \in Seq(Frames) /\ toServer[c] # <<>> /\ Chain(sent, toServer[c], c)
    BY <1>1, <1>2
  <2>2. w = Tail(toServer[c]) \/ w = Tail(toServer[c]) \o <<OkFrame>>
    OBVIOUS
  <2> QED BY ONLY <2>1, <2>2, ChainRest
<1>10. /\ w \in Seq(Frames) /\ Chain(sent, w, c)
       /\ Ends(sent, f) /\ w # <<>> => Begins(w[1])
       /\ ~Ends(sent, f) => w # <<>> /\ w[1] = Part(sent, f.dg, f.part + 1)
       /\ \A i \in 1..Len(w) : Before(f, w[i])
  BY ONLY <1>1, <1>3 DEF Remains
<1>11. \A i \in 1..Len(w) : w[i].part = 0 \/ \E j \in 1..Len(toServer[c]) : w[i] = toServer[c][j]
  BY ONLY <1>3 DEF Remains, OkFrame
<1>4. a[c] = w /\ \A e \in Clients : e # c => a[e] = toServer[e]
  BY DEF ServerTypeOK
<1>5. w # <<>> => Head(w) = w[1]
  BY <1>10, TailIs
<1>6. Chains(sent, a)
  BY ONLY <1>10, <1>4, Chains(sent, toServer) DEF Chains
<1>7. \A e \in Clients : \A i \in 1..Len(a[e]) :
        \/ a[e][i].part = 0
        \/ \E j \in 1..Len(toServer[e]) : a[e][i] = toServer[e][j]
  <2> TAKE e \in Clients
  <2> TAKE i \in 1..Len(a[e])
  <2>1. CASE e = c
    BY ONLY <1>4, <1>11, <2>1, i \in 1..Len(a[e])
  <2>2. CASE e # c
    BY ONLY <1>4, <2>2, i \in 1..Len(a[e]), e \in Clients
  <2> QED BY <2>1, <2>2
<1>8. \A e \in Clients : Multi(sent, a[e]) => Multi(sent, toServer[e])
  BY SMTT(30), <1>7 DEF Multi
<1>9. OneLong(sent, a)
  BY <1>8 DEF OneLong
<1> QED BY ONLY <1>10, <1>4, <1>5, <1>6, <1>7, <1>9 DEF AfterTaking

\* Where the answers are written to.
LEMMA UnansweredTaken ==
  ASSUME NEW s, NEW a, NEW a2, NEW an, Unanswered(s, a, an),
         \A e \in Clients : \A i \in 1..Len(a2[e]) :
              \/ a2[e][i].part = 0
              \/ \E j \in 1..Len(a[e]) : a2[e][i] = a[e][j]
  PROVE  Unanswered(s, a2, an)
  BY DEF Unanswered

(***************************************************************************)
(* What each step keeps.                                                   *)
(***************************************************************************)

Kept == ServerTypeOK /\ Returned /\ Settled /\ WholeDatagrams /\ OneAnswer

LEMMA AnswersAre == OneAnswer <=> (calm => \A d \in DOMAIN sent : answers[d] \in GoodFor(sent[d].cmd))
  BY DEF OneAnswer, GoodFor

LEMMA AnswersAreNext ==
  OneAnswer' <=> (calm' => \A d \in DOMAIN sent' : answers'[d] \in GoodFor(sent'[d].cmd))
  BY DEF OneAnswer, GoodFor, NotHandled

LEMMA TakenTyped ==
  ASSUME ServerTypeOK, NEW c \in Clients, toServer[c] # <<>>,
         NEW w, w = Tail(toServer[c]) \/ w = Tail(toServer[c]) \o <<OkFrame>>
  PROVE  [toServer EXCEPT ![c] = w] \in [Clients -> Seq(DatagramFrame \cup {OkFrame})]
<1>1. Tail(toServer[c]) \in Seq(Frames)
  BY QueueIs
<1>2. <<OkFrame>> \in Seq(Frames)
  BY DEF Frames
<1>3. Tail(toServer[c]) \o <<OkFrame>> \in Seq(Frames)
  BY <1>1, <1>2, ConcatIs
<1>4. w \in Seq(Frames)
  BY <1>1, <1>3
<1>5. toServer \in [Clients -> Seq(Frames)]
  BY DEF ServerTypeOK, Frames
<1>6. [toServer EXCEPT ![c] = w] \in [Clients -> Seq(Frames)]
  BY <1>4, <1>5
<1> QED BY <1>6 DEF Frames

LEMMA InFrame ==
  ASSUME ServerTypeOK, NEW c \in Clients, toServer[c] # <<>>, NEW f, f = Head(toServer[c]),
         f.type # "answer"
  PROVE  f \in DatagramFrame /\ f.dg \in Ids /\ Appended(f) \in Seq(DatagramFrame) /\ Len(Appended(f)) <= BufferFrames
<1>1. f \in DatagramFrame
  BY QueueIs DEF Frames, OkFrame
<1>2. f.dg \in Ids
  BY <1>1 DEF DatagramFrame
<1>3. buffer \in Seq(DatagramFrame) /\ Len(buffer) \in Nat /\ Len(buffer) <= BufferFrames /\ BufferFrames \in Nat
  BY BoundsAssumption DEF ServerTypeOK, BoundsAssumption
<1>4. Append(buffer, f) \in Seq(DatagramFrame) /\ Len(Append(buffer, f)) = Len(buffer) + 1
  BY <1>1, <1>3
<1>5. Appended(f) \in Seq(DatagramFrame) /\ Len(Appended(f)) <= BufferFrames
  BY <1>3, <1>4 DEF Appended
<1> QED BY <1>1, <1>2, <1>5

LEMMA SameSettled ==
  ASSUME Kept, UNCHANGED <<receiving, buffer, calling, toServer, sent, answers, handed, calm>>
  PROVE  Returned' /\ Settled' /\ WholeDatagrams' /\ OneAnswer'
<1>1. Returned' /\ Settled'
  BY DEF Kept, Returned, Settled
<1>2. WholeDatagrams'
  BY DEF Kept, WholeDatagrams
<1>3. OneAnswer'
  BY AnswersAre, AnswersAreNext DEF Kept
<1> QED BY <1>1, <1>2, <1>3

LEMMA StopStep ==
  ASSUME Kept, NEW d \in waiting, StopWaiting(d)
  PROVE  Kept'
<1>1. ServerTypeOK'
  BY DEF Kept, ServerTypeOK, StopWaiting, node
<1>2. UNCHANGED <<receiving, buffer, calling, toServer, sent, answers, handed, calm>>
  BY DEF StopWaiting, node
<1> QED BY <1>1, <1>2, SameSettled DEF Kept

LEMMA LateStep ==
  ASSUME Kept, write_ok_late
  PROVE  Kept'
<1>1. answers' = answers
  BY DEF Kept, Returned, write_ok_late
<1>2. trouble' \in 0..MaxTrouble
  BY BoundsAssumption DEF Kept, ServerTypeOK, write_ok_late, BoundsAssumption
<1>3. ServerTypeOK'
  BY <1>1, <1>2 DEF Kept, ServerTypeOK, write_ok_late, node
<1>4. UNCHANGED <<receiving, buffer, calling, toServer, sent, answers, handed, calm>>
  BY <1>1 DEF write_ok_late, node
<1> QED BY <1>3, <1>4, SameSettled DEF Kept

LEMMA StutterStep ==
  ASSUME Kept, UNCHANGED serverVars
  PROVE  Kept'
<1>1. ServerTypeOK'
  BY DEF Kept, ServerTypeOK, serverVars, node
<1>2. UNCHANGED <<receiving, buffer, calling, toServer, sent, answers, handed, calm>>
  BY DEF serverVars, node
<1> QED BY <1>1, <1>2, SameSettled DEF Kept

\* When the last frame of a datagram has come, its answer harms nothing.
LEMMA Finished ==
  ASSUME ServerTypeOK, Good(sent, toServer, buffer, answers),
         NEW c \in Clients, toServer[c] # <<>>, NEW f, f = Head(toServer[c]), f.type # "answer",
         Ends(sent, f),
         NEW w, w = Tail(toServer[c]) \/ w = Tail(toServer[c]) \o <<OkFrame>>,
         NEW a, a = [toServer EXCEPT ![c] = w],
         NEW an, \A d \in Ids : d # f.dg => an[d] = answers[d]
  PROVE  Unanswered(sent, a, an)
<1>1. IsPart(sent, f, c) /\ f.part \in Nat /\ f.part > 0 /\ sent[f.dg].frames \in Nat
  BY FrameIs DEF Good
<1>2. f.dg \in DOMAIN sent /\ sent[f.dg].by = c /\ f.part = sent[f.dg].frames
  BY <1>1 DEF IsPart, Ends
<1>3. /\ Chains(sent, a) /\ a[c] = w
      /\ \A e \in Clients : \A i \in 1..Len(a[e]) :
           \/ a[e][i].part = 0
           \/ \E j \in 1..Len(toServer[e]) : a[e][i] = toServer[e][j]
      /\ \A i \in 1..Len(w) : Before(f, w[i])
  <2>1. Chains(sent, toServer) /\ OneLong(sent, toServer)
    BY DEF Good
  <2>2. AfterTaking(c, f, w, a)
    BY <2>1, Taken
  <2> QED BY <2>2 DEF AfterTaking
<1>4. Unanswered(sent, toServer, answers)
  BY DEF Good
<1>5. \A d \in Ids : d \notin DOMAIN sent => an[d] = <<>>
  BY <1>2, <1>4 DEF Unanswered
<1>6. ASSUME NEW e \in Clients, NEW i \in 1..Len(a[e]), a[e][i].part > 0
      PROVE  an[a[e][i].dg] = <<>>
  <2> DEFINE g == a[e][i]
  <2>1. answers[g.dg] = <<>>
    <3>1. PICK j \in 1..Len(toServer[e]) : a[e][i] = toServer[e][j]
      BY <1>3, <1>6
    <3> QED BY <1>4, <1>6, <3>1 DEF Unanswered
  <2>2. IsPart(sent, g, e)
    <3>1. OfClient(sent, g, e)
      BY <1>3 DEF Chains, Chain, AllOf
    <3> QED BY <1>6, <3>1 DEF OfClient, OkFrame
  <2>3. g.dg \in DOMAIN sent /\ sent[g.dg].by = e /\ g.part \in 1..sent[g.dg].frames
    BY <2>2 DEF IsPart
  <2>4. g.dg \in Ids
    <3>1. g.dg \in Nat /\ g.dg >= 1 /\ g.dg <= MaxDatagrams
      BY <2>3, SentOK, SentIs, BoundsAssumption DEF BoundsAssumption
    <3> QED BY <3>1, BoundsAssumption DEF Ids, BoundsAssumption
  <2>5. g.dg # f.dg
    <3>1. CASE e # c
      BY <1>2, <2>3, <3>1
    <3>2. CASE e = c
      <4>1. Before(f, g)
        BY <1>3, <3>2
      <4> SUFFICES ASSUME g.dg = f.dg PROVE FALSE
        OBVIOUS
      <4>2. f.part < g.part \/ f.dg < g.dg
        BY <1>1, <1>6, <4>1 DEF Before
      <4>3. f.dg \in Nat
        BY <1>2, SentOK, SentIs
      <4>4. f.part < g.part
        BY <4>2, <4>3
      <4> QED BY SMTT(30), <1>1, <1>2, <2>3, <4>4
    <3> QED BY <3>1, <3>2
  <2> QED BY <2>1, <2>4, <2>5
<1> QED BY <1>5, <1>6 DEF Unanswered

\* The heads of the others are as they were.
LEMMA OthersBegin ==
  ASSUME ServerTypeOK, HeadsBegin(sent, toServer, buffer), NEW c \in Clients, NEW a, NEW b,
         \A e \in Clients : e # c => a[e] = toServer[e],
         \A e \in Clients : e # c => (Owned(sent, buffer, e) => Owned(sent, b, e)),
         a[c] # <<>> /\ ~Owned(sent, b, c) => Begins(Head(a[c]))
  PROVE  HeadsBegin(sent, a, b)
  BY DEF HeadsBegin

LEMMA BusyStep ==
  ASSUME Kept, NEW c \in Clients, toServer[c] # <<>>, NEW f, f = Head(toServer[c]), RejectBusy(c, f)
  PROVE  Kept'
<1> DEFINE w == Tail(toServer[c])
           a == [toServer EXCEPT ![c] = w]
           an == [answers EXCEPT ![f.dg] = Append(@, "busy")]
<1>1. /\ receiving /\ f.type \in {"first", "only"} /\ toServer' = a /\ answers' = an
      /\ UNCHANGED <<receiving, buffer, upgrading, calling, writer, sent, waiting, trouble, handed, calm>>
  BY DEF RejectBusy, node
<1>2. ServerTypeOK
  BY DEF Kept
<1>3. f \in DatagramFrame /\ f.dg \in Ids /\ f.type # "answer"
  BY <1>1, <1>2, InFrame
<1>4. ServerTypeOK'
  <2>1. a \in [Clients -> Seq(DatagramFrame \cup {OkFrame})]
    BY <1>2, TakenTyped
  <2>2. an \in [Ids -> Seq(ServerAnswers)]
    <3>1. answers \in [Ids -> Seq(ServerAnswers)] /\ answers[f.dg] \in Seq(ServerAnswers) /\ "busy" \in ServerAnswers
      BY <1>2, <1>3 DEF ServerTypeOK, ServerAnswers
    <3>2. Append(answers[f.dg], "busy") \in Seq(ServerAnswers)
      BY <3>1
    <3> QED BY <3>1, <3>2
  <2> QED BY <1>1, <1>2, <2>1, <2>2 DEF ServerTypeOK
<1>5. Returned' /\ WholeDatagrams'
  BY <1>1 DEF Kept, Returned, WholeDatagrams
<1>6. ASSUME calm
      PROVE  /\ Good(sent, a, buffer, an)
             /\ \A d \in DOMAIN sent : an[d] \in GoodFor(sent[d].cmd)
  <2>1. Good(sent, toServer, buffer, answers) /\ buffer # <<>>
    BY <1>1, <1>6 DEF Kept, Settled
  <2>2. PICK d : Holds(sent, toServer, buffer, d)
    BY <2>1 DEF Good, Assembling
  <2> DEFINE o == sent[d].by
  <2>3. /\ d \in DOMAIN sent /\ o \in Clients
        /\ \A e \in Clients : Owned(sent, buffer, e) <=> e = o
        /\ Len(buffer) \in Nat /\ Len(buffer) >= 1
        /\ Head(toServer[o]).part = Len(buffer) + 1
        /\ Multi(sent, toServer[o])
    BY <1>2, <2>1, <2>2, OwnerIs
  <2>4. /\ IsPart(sent, f, c) /\ f.part \in Nat /\ f.part > 0 /\ sent[f.dg].frames \in Nat
        /\ f.type = FrameType(f.part, sent[f.dg].frames)
    BY <1>2, <1>3, <2>1, FrameIs DEF Good
  <2>5. f.part \in 1..sent[f.dg].frames /\ f.dg \in DOMAIN sent
    BY <2>4 DEF IsPart
  <2>6. f.part = 1
    BY <1>1, <2>4, <2>5, TypesOfFrames
  <2>7. c # o
    BY <2>3, <2>6
  <2>8. sent[f.dg].frames = 1
    <3> SUFFICES ASSUME sent[f.dg].frames # 1 PROVE FALSE
      OBVIOUS
    <3>1. toServer[c][1] = f /\ 1 \in 1..Len(toServer[c])
      BY <1>2, QueueIs
    <3>2. sent[f.dg].frames > 1
      BY <2>4, <2>5
    <3>3. Multi(sent, toServer[c])
      BY <2>4, <3>1, <3>2 DEF Multi
    <3> QED BY <2>1, <2>3, <2>7, <3>3 DEF Good, OneLong
  <2>9. Ends(sent, f)
    BY <2>6, <2>8 DEF Ends
  <2>10. /\ Chains(sent, a) /\ OneLong(sent, a)
         /\ a[c] = w /\ \A e \in Clients : e # c => a[e] = toServer[e]
         /\ w # <<>> => Begins(Head(w))
    <3>1. Chains(sent, toServer) /\ OneLong(sent, toServer)
      BY <2>1 DEF Good
    <3>2. w = Tail(toServer[c]) /\ a = [toServer EXCEPT ![c] = w]
      OBVIOUS
    <3> HIDE DEF w, a
    <3>3. AfterTaking(c, f, w, a)
      BY <1>2, <3>1, <3>2, Taken
    <3> QED BY <2>9, <3>3 DEF AfterTaking
  <2>11. answers[f.dg] = <<>> /\ an[f.dg] = <<"busy">> /\ \A e \in Ids : e # f.dg => an[e] = answers[e]
    <3>1. toServer[c][1] = f /\ 1 \in 1..Len(toServer[c])
      BY <1>2, QueueIs
    <3>2. answers[f.dg] = <<>>
      BY <2>1, <2>4, <3>1 DEF Good, Unanswered
    <3>3. answers \in [Ids -> Seq(ServerAnswers)]
      BY <1>2 DEF ServerTypeOK
    <3>4. Append(<<>>, "busy") = <<"busy">>
      OBVIOUS
    <3>5. an[f.dg] = Append(answers[f.dg], "busy")
      BY <1>3, <3>3
    <3>6. \A e \in Ids : e # f.dg => an[e] = answers[e]
      BY <3>3
    <3> QED BY <3>2, <3>4, <3>5, <3>6
  <2>12. Unanswered(sent, a, an)
    <3> HIDE DEF an
    <3> QED BY <1>2, <1>3, <2>1, <2>9, <2>11, Finished
  <2>13. Assembling(sent, a, buffer)
    <3>1. a[o] = toServer[o]
      BY <2>3, <2>7, <2>10
    <3>2. Holds(sent, a, buffer, d)
      BY <2>2, <3>1 DEF Holds
    <3> QED BY <3>2 DEF Assembling
  <2>14. HeadsBegin(sent, a, buffer)
    <3> HIDE DEF a, w
    <3> QED BY <1>2, <2>1, <2>10, OthersBegin DEF Good
  <2>15. \A e \in DOMAIN sent : an[e] \in GoodFor(sent[e].cmd)
    <3>1. \A e \in DOMAIN sent : answers[e] \in GoodFor(sent[e].cmd)
      BY <1>6, AnswersAre DEF Kept
    <3>2. \A e \in DOMAIN sent : e \in Ids
      BY <1>2, SentOK, SentIs, BoundsAssumption DEF Ids, BoundsAssumption
    <3>3. \A k : <<"busy">> \in GoodFor(k)
      BY DEF GoodFor
    <3> HIDE DEF an
    <3> QED BY <2>11, <3>1, <3>2, <3>3
  <2> QED BY <2>10, <2>12, <2>13, <2>14, <2>15 DEF Good
<1> HIDE DEF a, an
<1>7. Settled'
  <2>1. receiving' = receiving /\ buffer' = buffer /\ sent' = sent /\ calm' = calm
    BY <1>1
  <2> SUFFICES ASSUME calm PROVE (receiving <=> buffer # <<>>) /\ Good(sent, a, buffer, an)
    BY <1>1, <2>1 DEF Settled
  <2> QED BY <1>6 DEF Kept, Settled
<1>8. OneAnswer'
  <2>1. sent' = sent /\ calm' = calm /\ answers' = an
    BY <1>1
  <2> QED BY <1>6, <2>1, AnswersAreNext
<1> QED BY <1>4, <1>5, <1>7, <1>8 DEF Kept

LEMMA TakenNow ==
  ASSUME ServerTypeOK, Good(sent, toServer, buffer, answers), NEW c \in Clients, toServer[c] # <<>>,
         NEW f, f = Head(toServer[c]),
         NEW w, w = Tail(toServer[c]) \/ w = Tail(toServer[c]) \o <<OkFrame>>,
         NEW a, a = [toServer EXCEPT ![c] = w]
  PROVE  AfterTaking(c, f, w, a)
<1>1. Chains(sent, toServer) /\ OneLong(sent, toServer)
  BY DEF Good
<1> QED BY <1>1, Taken

LEMMA AppendStep ==
  ASSUME Kept, NEW c \in Clients, toServer[c] # <<>>, NEW f, f = Head(toServer[c]), AppendFrame(c, f)
  PROVE  Kept'
<1> DEFINE w == Tail(toServer[c])
           a == [toServer EXCEPT ![c] = w]
           b == Appended(f)
<1>1. /\ f.type = "middle" \/ (f.type = "first" /\ ~receiving)
      /\ receiving' = TRUE /\ buffer' = b /\ toServer' = a
      /\ UNCHANGED <<upgrading, calling, writer, sent, answers, waiting, trouble, handed, calm>>
  BY DEF AppendFrame
<1>2. ServerTypeOK
  BY DEF Kept
<1>3. f \in DatagramFrame /\ f.type # "answer" /\ b \in Seq(DatagramFrame) /\ Len(b) <= BufferFrames
  BY <1>1, <1>2, InFrame
<1>4. ServerTypeOK'
  <2>1. a \in [Clients -> Seq(DatagramFrame \cup {OkFrame})]
    BY <1>2, TakenTyped
  <2> QED BY <1>1, <1>2, <1>3, <2>1 DEF ServerTypeOK
<1>5. Returned' /\ WholeDatagrams'
  BY <1>1 DEF Kept, Returned, WholeDatagrams
<1>6. OneAnswer'
  <2>1. sent' = sent /\ calm' = calm /\ answers' = answers
    BY <1>1
  <2> QED BY <2>1, AnswersAre, AnswersAreNext DEF Kept
<1>7. ASSUME calm
      PROVE  Good(sent, a, b, answers) /\ b # <<>>
  <2>1. Good(sent, toServer, buffer, answers) /\ (receiving <=> buffer # <<>>)
    BY <1>7 DEF Kept, Settled
  <2>2. /\ f.part = Len(buffer) + 1 /\ f = Part(sent, f.dg, Len(buffer) + 1)
        /\ \A i \in 1..Len(buffer) : buffer[i] = Part(sent, f.dg, i)
        /\ \A e \in Clients : e # c => ~Owned(sent, buffer, e)
        /\ Len(buffer) \in Nat /\ b = Append(buffer, f)
    BY <1>1, <1>2, <1>3, <2>1, Current
  <2>3. /\ IsPart(sent, f, c) /\ sent[f.dg].frames \in Nat /\ f.part \in Nat
        /\ f.type = FrameType(f.part, sent[f.dg].frames)
    BY <1>2, <1>3, <2>1, FrameIs DEF Good
  <2>4. f.dg \in DOMAIN sent /\ sent[f.dg].by = c /\ f.part \in 1..sent[f.dg].frames
    BY <2>3 DEF IsPart
  <2>5. f.part < sent[f.dg].frames
    BY <1>1, <2>3, <2>4, TypesOfFrames
  <2>6. AfterTaking(c, f, w, a)
    BY <1>2, <2>1, TakenNow
  <2>7. ~Ends(sent, f)
    BY <2>3, <2>4, <2>5 DEF Ends
  <2>8. /\ Chains(sent, a) /\ OneLong(sent, a)
        /\ a[c] = w /\ \A e \in Clients : e # c => a[e] = toServer[e]
        /\ w # <<>> /\ Head(w) = Part(sent, f.dg, f.part + 1)
        /\ \A e \in Clients : \A i \in 1..Len(a[e]) :
             \/ a[e][i].part = 0
             \/ \E j \in 1..Len(toServer[e]) : a[e][i] = toServer[e][j]
    BY <2>6, <2>7 DEF AfterTaking
  <2> HIDE DEF a, w
  <2>9. Unanswered(sent, a, answers)
    <3>1. Unanswered(sent, toServer, answers)
      BY <2>1 DEF Good
    <3> QED BY <2>8, <3>1, UnansweredTaken
  <2>10. /\ Len(b) = Len(buffer) + 1 /\ b[Len(buffer) + 1] = f
         /\ \A i \in 1..Len(buffer) : b[i] = buffer[i]
    <3>1. buffer \in Seq(DatagramFrame) /\ f \in DatagramFrame
      BY <1>2, <1>3 DEF ServerTypeOK
    <3> HIDE DEF b
    <3> QED BY <2>2, <3>1
  <2> HIDE DEF b
  <2>11. \A i \in 1..Len(b) : b[i] = Part(sent, f.dg, i)
    BY <2>2, <2>10
  <2>12. Holds(sent, a, b, f.dg)
    BY <2>2, <2>4, <2>5, <2>8, <2>10, <2>11 DEF Holds
  <2>13. b # <<>>
    BY <2>2, <2>10, EmptySeq
  <2>14. b[1] = Part(sent, f.dg, 1)
    BY <2>2, <2>10, <2>11
  <2>15. Owned(sent, b, c)
    BY <2>4, <2>13, <2>14, PartIs DEF Owned
  <2>16. HeadsBegin(sent, a, b)
    <3>1. HeadsBegin(sent, toServer, buffer)
      BY <2>1 DEF Good
    <3> QED BY <1>2, <2>2, <2>8, <2>15, <3>1, OthersBegin
  <2> QED BY <2>8, <2>9, <2>12, <2>13, <2>16 DEF Good, Assembling
<1> HIDE DEF a, b
<1>8. Settled'
  BY <1>1, <1>7 DEF Settled
<1> QED BY <1>4, <1>5, <1>6, <1>8 DEF Kept

\* An answer that comes, or is lost, changes nothing while nothing is in the buffer.
LEMMA AnswerTaken ==
  ASSUME ServerTypeOK, Good(sent, toServer, buffer, answers), NEW c \in Clients, toServer[c] # <<>>,
         Head(toServer[c]) = OkFrame,
         NEW a, a = [toServer EXCEPT ![c] = Tail(toServer[c])]
  PROVE  Good(sent, a, buffer, answers)
<1> DEFINE w == Tail(toServer[c])
           f == Head(toServer[c])
<1>1. AfterTaking(c, f, w, a)
  BY TakenNow
<1>2. Ends(sent, f)
  BY DEF Ends, OkFrame
<1>3. /\ Chains(sent, a) /\ OneLong(sent, a)
      /\ a[c] = w /\ \A e \in Clients : e # c => a[e] = toServer[e]
      /\ w # <<>> => Begins(Head(w))
      /\ \A e \in Clients : \A i \in 1..Len(a[e]) :
           \/ a[e][i].part = 0
           \/ \E j \in 1..Len(toServer[e]) : a[e][i] = toServer[e][j]
  BY <1>1, <1>2 DEF AfterTaking
<1> HIDE DEF w, f
<1>4. Unanswered(sent, a, answers)
  <2>1. Unanswered(sent, toServer, answers)
    BY DEF Good
  <2>2. \A e \in Clients : \A i \in 1..Len(a[e]) : a[e][i].part > 0 => answers[a[e][i].dg] = <<>>
    <3> SUFFICES ASSUME NEW e \in Clients, NEW i \in 1..Len(a[e]), a[e][i].part > 0
                 PROVE  answers[a[e][i].dg] = <<>>
      OBVIOUS
    <3>1. PICK j \in 1..Len(toServer[e]) : a[e][i] = toServer[e][j]
      BY SMTT(30), <1>3
    <3> QED BY <2>1, <3>1 DEF Unanswered
  <2> QED BY <2>1, <2>2 DEF Unanswered
<1>5. HeadsBegin(sent, a, buffer)
  <2>1. HeadsBegin(sent, toServer, buffer)
    BY DEF Good
  <2> QED BY <1>3, <2>1, OthersBegin
<1>6. Assembling(sent, a, buffer)
  <2> SUFFICES ASSUME buffer # <<>> PROVE \E d : Holds(sent, a, buffer, d)
    BY DEF Assembling
  <2>1. PICK d : Holds(sent, toServer, buffer, d)
    BY DEF Good, Assembling
  <2>2. sent[d].by \in Clients
    BY <2>1, OwnerIs
  <2>3. sent[d].by # c
    <3>1. Head(toServer[sent[d].by]).part = Len(buffer) + 1 /\ Len(buffer) \in Nat
      BY <2>1, OwnerIs
    <3> QED BY <3>1 DEF OkFrame
  <2>4. a[sent[d].by] = toServer[sent[d].by]
    BY <1>3, <2>2, <2>3
  <2> QED BY <2>1, <2>4 DEF Holds
<1> QED BY <1>3, <1>4, <1>5, <1>6 DEF Good

LEMMA AnswerStep ==
  ASSUME Kept, NEW c \in Clients, toServer[c] # <<>>, NEW f, f = Head(toServer[c]), AnswerReceived(c, f)
  PROVE  Kept'
<1> DEFINE a == [toServer EXCEPT ![c] = Tail(toServer[c])]
<1>1. /\ f = OkFrame /\ receiving' = FALSE /\ toServer' = a /\ calm' = (calm /\ buffer = <<>>)
      /\ UNCHANGED <<buffer, upgrading, calling, writer, sent, answers, waiting, trouble, handed>>
  BY DEF AnswerReceived
<1>2. ServerTypeOK
  BY DEF Kept
<1>3. ServerTypeOK'
  <2>1. a \in [Clients -> Seq(DatagramFrame \cup {OkFrame})]
    BY <1>2, TakenTyped
  <2>2. calm' \in BOOLEAN
    BY <1>1, <1>2 DEF ServerTypeOK
  <2> QED BY <1>1, <1>2, <2>1, <2>2 DEF ServerTypeOK
<1>4. Returned' /\ WholeDatagrams'
  BY <1>1 DEF Kept, Returned, WholeDatagrams
<1>5. OneAnswer'
  BY <1>1, AnswersAre, AnswersAreNext DEF Kept
<1>6. Settled'
  <2>1. ASSUME calm PROVE Good(sent, a, buffer, answers)
    <3>1. Good(sent, toServer, buffer, answers)
      BY <2>1 DEF Kept, Settled
    <3> QED BY <1>1, <1>2, <3>1, AnswerTaken
  <2> HIDE DEF a
  <2> QED BY <1>1, <2>1 DEF Settled
<1> QED BY <1>3, <1>4, <1>5, <1>6 DEF Kept

LEMMA LoseStep ==
  ASSUME Kept, NEW c \in Clients, Lose(c)
  PROVE  Kept'
<1> DEFINE a == [toServer EXCEPT ![c] = Tail(toServer[c])]
<1>1. /\ toServer[c] # <<>> /\ trouble < MaxTrouble /\ trouble' = trouble + 1
      /\ toServer' = a /\ calm' = (calm /\ Head(toServer[c]) = OkFrame)
      /\ UNCHANGED <<receiving, buffer, upgrading, calling, writer, sent, answers, waiting, handed>>
  BY DEF Lose, node
<1>2. ServerTypeOK
  BY DEF Kept
<1>3. ServerTypeOK'
  <2>1. a \in [Clients -> Seq(DatagramFrame \cup {OkFrame})]
    BY <1>1, <1>2, TakenTyped
  <2>2. calm' \in BOOLEAN
    BY <1>1, <1>2 DEF ServerTypeOK
  <2>3. trouble' \in 0..MaxTrouble
    BY <1>1, <1>2, BoundsAssumption DEF ServerTypeOK, BoundsAssumption
  <2> QED BY <1>1, <1>2, <2>1, <2>2, <2>3 DEF ServerTypeOK
<1>4. Returned' /\ WholeDatagrams'
  BY <1>1 DEF Kept, Returned, WholeDatagrams
<1>5. OneAnswer'
  BY <1>1, AnswersAre, AnswersAreNext DEF Kept
<1>6. Settled'
  <2>1. ASSUME calm, Head(toServer[c]) = OkFrame PROVE Good(sent, a, buffer, answers)
    <3>1. Good(sent, toServer, buffer, answers)
      BY <2>1 DEF Kept, Settled
    <3> QED BY <1>1, <1>2, <2>1, <3>1, AnswerTaken
  <2>2. calm => (receiving <=> buffer # <<>>)
    BY DEF Kept, Settled
  <2> HIDE DEF a
  <2> QED BY <1>1, <2>1, <2>2 DEF Settled
<1> QED BY <1>3, <1>4, <1>5, <1>6 DEF Kept

\* The bytes that a handler gets when the last frame of a datagram comes.
LEMMA WholeIs ==
  ASSUME NEW s \in Seq(Sents), Len(s) <= MaxDatagrams, NEW d \in DOMAIN s, NEW b \in Seq(DatagramFrame),
         \A i \in 1..Len(b) : b[i] = Part(s, d, i),
         NEW f \in DatagramFrame, f = Part(s, d, Len(b) + 1), Len(b) + 1 = s[d].frames
  PROVE  Append(b, f) = FramesOf(d, s[d].frames)
<1> DEFINE u == Append(b, f)
           r == FramesOf(d, s[d].frames)
<1>1. /\ r \in Seq(Frames) /\ Len(r) = s[d].frames
      /\ \A k \in 1..s[d].frames : r[k] = Part(s, d, k)
  BY PartsOf
<1>2. /\ u \in Seq(DatagramFrame) /\ Len(b) \in Nat /\ Len(u) = Len(b) + 1
      /\ u[Len(b) + 1] = f /\ \A i \in 1..Len(b) : u[i] = b[i]
  OBVIOUS
<1>3. u \in Seq(Frames)
  BY <1>2 DEF Frames
<1> SUFFICES u = r
  OBVIOUS
<1> HIDE DEF u, r
<1>4. \A i \in 1..Len(u) : u[i] = r[i]
  <2> TAKE i \in 1..Len(u)
  <2>1. r[i] = Part(s, d, i)
    BY <1>1, <1>2
  <2>2. CASE i \in 1..Len(b)
    BY <1>2, <2>1, <2>2
  <2>3. CASE i = Len(b) + 1
    BY <1>2, <2>1, <2>3
  <2> QED BY <1>2, <2>2, <2>3
<1> QED BY <1>1, <1>2, <1>3, <1>4, SeqEqual

\* A query is what was sent as one.
LEMMA CommandIs ==
  ASSUME NEW frames, Head(frames).type \in {"first", "only"}, NEW k \in CommandOf(frames)
  PROVE  GoodFor(k) \subseteq GoodFor(sent[Head(frames).dg].cmd)
<1>1. k = "query" => sent[Head(frames).dg].cmd = "query"
  BY DEF CommandOf
<1> QED BY <1>1 DEF GoodFor

LEMMA HandleStep ==
  ASSUME Kept, NEW c \in Clients, toServer[c] # <<>>, NEW f, f = Head(toServer[c]), Handle(c, f)
  PROVE  Kept'
<1>1. PICK k \in CommandOf(Appended(f)) : \E what : Handles(c, f, k, what)
  BY HandleIs DEF Kept
<1>2. PICK what : Handles(c, f, k, what)
  BY <1>1
<1> DEFINE w == Tail(toServer[c]) \o IF "reply" \in ToSet(what) THEN <<OkFrame>> ELSE <<>>
           a == [toServer EXCEPT ![c] = w]
           an == [answers EXCEPT ![f.dg] = @ \o what]
           b == Appended(f)
<1>3. /\ answers' = an /\ toServer' = a /\ handed' = b /\ buffer' = <<>> /\ receiving' = FALSE
      /\ UNCHANGED <<sent, waiting>>
      /\ what \in Seq(ServerAnswers)
      /\ upgrading' \in BOOLEAN /\ calling' \in {calling, FALSE} /\ writer' \in {writer, f.dg}
      /\ trouble' \in 0..MaxTrouble /\ calm' \in BOOLEAN /\ (calm' => calm)
      /\ (calm' => what \in GoodFor(k))
  BY <1>2 DEF Handles, Answer, Bounded
<1>4. f.type = "last" \/ (f.type = "only" /\ ~receiving)
  BY DEF Handle
<1>5. ServerTypeOK
  BY DEF Kept
<1>6. f \in DatagramFrame /\ f.dg \in Ids /\ f.type # "answer" /\ b \in Seq(DatagramFrame)
  BY <1>4, <1>5, InFrame
<1>7. w = Tail(toServer[c]) \/ w = Tail(toServer[c]) \o <<OkFrame>>
  <2>1. Tail(toServer[c]) \in Seq(Frames)
    BY <1>5, QueueIs
  <2>2. Tail(toServer[c]) \o <<>> = Tail(toServer[c])
    BY <2>1, ConcatEmptySeq
  <2> QED BY <2>2
<1>8. answers \in [Ids -> Seq(ServerAnswers)] /\ an[f.dg] = answers[f.dg] \o what
      /\ \A e \in Ids : e # f.dg => an[e] = answers[e]
  BY <1>5, <1>6 DEF ServerTypeOK
<1>9. an \in [Ids -> Seq(ServerAnswers)]
  <2>1. answers[f.dg] \o what \in Seq(ServerAnswers)
    BY <1>3, <1>6, <1>8, AnswerWords
  <2> QED BY <1>8, <2>1
<1>0. a = [toServer EXCEPT ![c] = w]
  OBVIOUS
<1>10. b = Appended(f)
  OBVIOUS
<1> HIDE DEF w, a, an, b
<1>11. ServerTypeOK'
  <2>1. a \in [Clients -> Seq(DatagramFrame \cup {OkFrame})]
    BY <1>0, <1>5, <1>7, TakenTyped
  <2>2. receiving' \in BOOLEAN /\ upgrading' \in BOOLEAN /\ calling' \in BOOLEAN
    BY <1>3, <1>5 DEF ServerTypeOK
  <2>3. writer' \in {0} \cup Ids
    BY <1>3, <1>5, <1>6 DEF ServerTypeOK
  <2>4. buffer' \in Seq(DatagramFrame) /\ Len(buffer') <= BufferFrames
    <3>1. <<>> \in Seq(DatagramFrame) /\ Len(<<>>) = 0 /\ BufferFrames \in Nat
      BY BoundsAssumption DEF BoundsAssumption
    <3> QED BY <1>3, <3>1
  <2> QED BY <1>3, <1>5, <1>6, <1>9, <2>1, <2>2, <2>3, <2>4 DEF ServerTypeOK
<1>12. Returned'
  BY <1>3 DEF Kept, Returned
<1>13. ASSUME calm'
       PROVE  /\ Good(sent, a, <<>>, an)
              /\ f.dg \in DOMAIN sent /\ b = FramesOf(f.dg, sent[f.dg].frames)
              /\ \A d \in DOMAIN sent : an[d] \in GoodFor(sent[d].cmd)
  <2>1. calm
    BY <1>3, <1>13
  <2>2. Good(sent, toServer, buffer, answers) /\ (receiving <=> buffer # <<>>)
    BY <2>1 DEF Kept, Settled
  <2>3. /\ f.part = Len(buffer) + 1 /\ f = Part(sent, f.dg, Len(buffer) + 1)
        /\ \A i \in 1..Len(buffer) : buffer[i] = Part(sent, f.dg, i)
        /\ \A e \in Clients : e # c => ~Owned(sent, buffer, e)
        /\ Len(buffer) \in Nat /\ b = Append(buffer, f)
    BY <1>4, <1>5, <1>6, <1>10, <2>2, Current
  <2>4. /\ IsPart(sent, f, c) /\ sent[f.dg].frames \in Nat /\ f.part \in Nat /\ f.part > 0
        /\ f.type = FrameType(f.part, sent[f.dg].frames)
    BY <1>5, <1>6, <2>2, FrameIs DEF Good
  <2>5. f.dg \in DOMAIN sent /\ sent[f.dg].by = c /\ f.part \in 1..sent[f.dg].frames
    BY <2>4 DEF IsPart
  <2>6. f.part = sent[f.dg].frames
    <3>1. CASE f.type = "last"
      BY <2>4, <2>5, <3>1, TypesOfFrames
    <3>2. CASE f.type = "only"
      <4>1. sent[f.dg].frames = 1
        BY <2>4, <2>5, <3>2, TypesOfFrames
      <4> QED BY <2>5, <4>1
    <3> QED BY <1>4, <3>1, <3>2
  <2>7. Ends(sent, f)
    BY <2>6 DEF Ends
  <2>8. b = FramesOf(f.dg, sent[f.dg].frames)
    <3>1. buffer \in Seq(DatagramFrame)
      BY <1>5 DEF ServerTypeOK
    <3>2. sent \in Seq(Sents) /\ Len(sent) <= MaxDatagrams
      BY <1>5, SentOK
    <3>3. Len(buffer) + 1 = sent[f.dg].frames
      BY <2>3, <2>6
    <3>4. /\ f.dg \in DOMAIN sent /\ f \in DatagramFrame /\ f = Part(sent, f.dg, Len(buffer) + 1)
          /\ \A i \in 1..Len(buffer) : buffer[i] = Part(sent, f.dg, i)
      BY <1>6, <2>3, <2>5
    <3>5. Append(buffer, f) = FramesOf(f.dg, sent[f.dg].frames)
      BY ONLY <3>1, <3>2, <3>3, <3>4, WholeIs
    <3> QED BY <2>3, <3>5
  <2>9. AfterTaking(c, f, w, a)
    BY <1>0, <1>5, <1>7, <2>2, TakenNow
  <2>10. /\ Chains(sent, a) /\ OneLong(sent, a)
         /\ a[c] = w /\ \A e \in Clients : e # c => a[e] = toServer[e]
         /\ w # <<>> => Begins(Head(w))
    BY <2>7, <2>9 DEF AfterTaking
  <2>11. Unanswered(sent, a, an)
    BY <1>0, <1>5, <1>6, <1>7, <1>8, <2>2, <2>7, Finished
  <2>12. HeadsBegin(sent, a, <<>>)
    <3>1. HeadsBegin(sent, toServer, buffer)
      BY <2>2 DEF Good
    <3> QED BY <1>5, <2>3, <2>10, <3>1, OthersBegin
  <2>13. Assembling(sent, a, <<>>)
    BY DEF Assembling
  <2>14. an[f.dg] = what
    <3>1. toServer[c][1] = f /\ 1 \in 1..Len(toServer[c])
      BY <1>5, QueueIs
    <3>2. answers[f.dg] = <<>>
      BY <2>2, <2>4, <3>1 DEF Good, Unanswered
    <3> QED BY <1>3, <1>8, <3>2, ConcatEmptySeq
  <2>15. Head(b).dg = f.dg /\ Head(b).type \in {"first", "only"}
    <3>1. Head(b) = Part(sent, f.dg, 1)
      <4>1. buffer \in Seq(DatagramFrame) /\ f \in DatagramFrame
        BY <1>5, <1>6 DEF ServerTypeOK
      <4>2. CASE Len(buffer) = 0
        <5>1. Head(Append(buffer, f)) = f
          BY <4>1, <4>2
        <5> QED BY <2>3, <4>2, <5>1
      <4>3. CASE Len(buffer) # 0
        <5>1. Head(Append(buffer, f)) = buffer[1] /\ 1 \in 1..Len(buffer)
          BY <2>3, <4>1, <4>3
        <5> QED BY <2>3, <5>1
      <4> QED BY <4>2, <4>3
    <3>2. 1 \in 1..sent[f.dg].frames
      BY <2>4, <2>6
    <3>3. FrameType(1, sent[f.dg].frames) \in {"first", "only"}
      BY <2>4, <3>2, TypesOfFrames
    <3> QED BY <3>1, <3>3, PartIs
  <2>16. what \in GoodFor(sent[f.dg].cmd)
    <3>1. GoodFor(k) \subseteq GoodFor(sent[Head(b).dg].cmd)
      BY <1>10, <2>15, CommandIs
    <3> QED BY <1>3, <1>13, <2>15, <3>1
  <2>17. \A d \in DOMAIN sent : an[d] \in GoodFor(sent[d].cmd)
    <3>1. \A d \in DOMAIN sent : answers[d] \in GoodFor(sent[d].cmd)
      BY <2>1, AnswersAre DEF Kept
    <3>2. \A d \in DOMAIN sent : d \in Ids
      BY <1>5, SentOK, SentIs, BoundsAssumption DEF Ids, BoundsAssumption
    <3> QED BY <1>8, <2>14, <2>16, <3>1, <3>2
  <2> QED BY <2>5, <2>8, <2>10, <2>11, <2>12, <2>13, <2>17 DEF Good
<1>14. Settled'
  BY <1>3, <1>13 DEF Settled
<1>15. WholeDatagrams'
  BY <1>3, <1>13 DEF WholeDatagrams
<1>16. OneAnswer'
  BY <1>3, <1>13, AnswersAreNext
<1> QED BY <1>11, <1>12, <1>14, <1>15, <1>16 DEF Kept

LEMMA SendStep ==
  ASSUME Kept, NEW c \in Clients, NEW dg \in Datagrams[c], Send(c, dg)
  PROVE  Kept'
<1> DEFINE x == [by |-> c, cmd |-> dg.cmd, frames |-> dg.frames]
           t == Append(sent, x)
           d == Len(sent) + 1
           r == FramesOf(d, dg.frames)
           w == toServer[c] \o r
           a == [toServer EXCEPT ![c] = w]
<1>1. /\ Len(sent) < MaxDatagrams /\ sent' = t /\ toServer' = a /\ waiting' = waiting \cup {d}
      /\ calm' = (calm /\ (dg.frames > 1 => \A e \in Underway : sent[e].by = c))
      /\ UNCHANGED <<receiving, buffer, upgrading, calling, writer, answers, trouble, handed>>
  BY DEF Send, node
<1>2. ServerTypeOK
  BY DEF Kept
<1>3. dg.cmd \in Commands /\ dg.frames \in 1..BufferFrames
  BY DatagramsAssumption DEF DatagramsAssumption
<1>4. x \in Sents /\ x.by = c /\ x.frames = dg.frames /\ x.cmd = dg.cmd
  BY <1>3 DEF Sents
<1>5. sent \in Seq(Sents) /\ Len(sent) \in Nat /\ MaxDatagrams \in Nat
  BY <1>2, SentOK, BoundsAssumption DEF BoundsAssumption
<1>6. /\ t \in Seq(Sents) /\ Len(t) = d /\ t[d] = x /\ d \in DOMAIN t
      /\ \A e \in DOMAIN sent : e \in DOMAIN t /\ t[e] = sent[e] /\ e # d
      /\ \A e \in DOMAIN t : e # d => e \in DOMAIN sent
  <2> HIDE DEF x
  <2> QED BY <1>4, <1>5
<1>7. d \in Ids /\ Len(t) <= MaxDatagrams /\ d \notin DOMAIN sent
  <2> HIDE DEF t
  <2> QED BY <1>1, <1>5, <1>6 DEF Ids
<1>8. t = Append(sent, x) /\ d = Len(sent) + 1 /\ r = FramesOf(d, dg.frames) /\ w = toServer[c] \o r
  OBVIOUS
<1>9. toServer \in [Clients -> Seq(Frames)]
  BY <1>2 DEF ServerTypeOK, Frames
<1>10. a[c] = w /\ \A e \in Clients : e # c => a[e] = toServer[e]
  BY <1>9
<1> HIDE DEF x, t, d, r, w
<1>11. /\ r \in Seq(Frames) /\ Len(r) = dg.frames
       /\ \A k \in 1..dg.frames : r[k] = Part(t, d, k)
  <2>1. t[d].frames = dg.frames
    BY <1>4, <1>6
  <2>2. t \in Seq(Sents) /\ Len(t) <= MaxDatagrams /\ d \in DOMAIN t
    BY <1>6, <1>7
  <2>3. /\ FramesOf(d, t[d].frames) \in Seq(Frames)
        /\ Len(FramesOf(d, t[d].frames)) = t[d].frames
        /\ \A k \in 1..t[d].frames : FramesOf(d, t[d].frames)[k] = Part(t, d, k)
    BY ONLY <2>2, PartsOf
  <2> QED BY <1>8, <2>1, <2>3
<1>12. /\ w \in Seq(Frames) /\ Len(toServer[c]) \in Nat /\ Len(w) = Len(toServer[c]) + Len(r)
       /\ \A i \in 1..Len(toServer[c]) : w[i] = toServer[c][i]
       /\ \A i \in 1..(Len(toServer[c]) + Len(r)) : i > Len(toServer[c]) =>
            i - Len(toServer[c]) \in 1..Len(r) /\ w[i] = r[i - Len(toServer[c])]
       /\ toServer[c] = <<>> <=> Len(toServer[c]) = 0
  <2>1. toServer[c] \in Seq(Frames)
    BY <1>9
  <2> DEFINE q == toServer[c]
  <2>2. w = q \o r
    BY <1>8
  <2> SUFFICES /\ w \in Seq(Frames) /\ Len(q) \in Nat /\ Len(w) = Len(q) + Len(r)
               /\ \A i \in 1..Len(q) : w[i] = q[i]
               /\ \A i \in 1..(Len(q) + Len(r)) : i > Len(q) =>
                    i - Len(q) \in 1..Len(r) /\ w[i] = r[i - Len(q)]
               /\ q = <<>> <=> Len(q) = 0
    OBVIOUS
  <2> HIDE DEF q
  <2>3. q \in Seq(Frames)
    BY <2>1 DEF q
  <2>4. r \in Seq(Frames)
    BY <1>11
  <2>5. /\ q \o r \in Seq(Frames) /\ Len(q) \in Nat /\ Len(q \o r) = Len(q) + Len(r)
        /\ \A i \in 1..Len(q) : (q \o r)[i] = q[i]
    BY ONLY <2>3, <2>4, ConcatIs
  <2>6. \A i \in 1..(Len(q) + Len(r)) : i > Len(q) =>
          i - Len(q) \in 1..Len(r) /\ (q \o r)[i] = r[i - Len(q)]
    BY ONLY <2>3, <2>4, ConcatIs
  <2>7. q = <<>> <=> Len(q) = 0
    BY ONLY <2>3, <2>4, ConcatIs
  <2> QED BY <2>2, <2>5, <2>6, <2>7
<1>13. ServerTypeOK'
  <2>1. a \in [Clients -> Seq(DatagramFrame \cup {OkFrame})]
    <3>1. a \in [Clients -> Seq(Frames)]
      BY <1>9, <1>12
    <3> QED BY <3>1 DEF Frames
  <2>2. calm' \in BOOLEAN
    BY <1>1, <1>2 DEF ServerTypeOK
  <2>3. t \in Seq([by : Clients, cmd : Commands, frames : 1..BufferFrames])
    BY <1>6 DEF Sents
  <2> HIDE DEF a
  <2> QED BY <1>1, <1>2, <1>7, <2>1, <2>2, <2>3 DEF ServerTypeOK
<1>14. Returned'
  BY <1>1 DEF Kept, Returned
<1>15. WholeDatagrams'
  <2> SUFFICES ASSUME calm', handed' # <<>>
               PROVE  \E e \in DOMAIN t : handed' = FramesOf(e, t[e].frames)
    BY <1>1 DEF WholeDatagrams
  <2>1. \E e \in DOMAIN sent : handed = FramesOf(e, sent[e].frames)
    BY <1>1 DEF Kept, WholeDatagrams
  <2> QED BY <1>1, <1>6, <2>1
<1>16. ASSUME calm'
       PROVE  /\ calm /\ Good(t, a, buffer, answers)
              /\ \A e \in DOMAIN t : answers[e] \in GoodFor(t[e].cmd)
  <2>1. calm /\ (dg.frames > 1 => \A e \in Underway : sent[e].by = c)
    BY <1>1, <1>16
  <2>2. Good(sent, toServer, buffer, answers)
    BY <2>1 DEF Kept, Settled
  <2>3. Chains(sent, toServer) /\ Unanswered(sent, toServer, answers) /\ OneLong(sent, toServer)
    BY <2>2 DEF Good
  <2>4. Chains(t, a)
    <3>1. \A e \in Clients : toServer[e] \in Seq(Frames) /\ Chain(sent, toServer[e], e)
      BY <1>9, <2>3 DEF Chains
    <3>2. Chain(t, w, c)
      BY <1>1, <1>4, <1>5, <1>8, <3>1, ChainSend
    <3>3. \A e \in Clients : Chain(t, toServer[e], e)
      BY <1>4, <1>5, <1>8, <3>1, ChainExtends
    <3> QED BY <1>10, <3>2, <3>3 DEF Chains
  <2>5. \A e \in Clients : \A i \in 1..Len(toServer[e]) :
          toServer[e][i].part > 0 =>
            toServer[e][i].dg \in DOMAIN sent /\ sent[toServer[e][i].dg].by = e
    <3> SUFFICES ASSUME NEW e \in Clients, NEW i \in 1..Len(toServer[e]), toServer[e][i].part > 0
                 PROVE  IsPart(sent, toServer[e][i], e)
      BY DEF IsPart
    <3>1. OfClient(sent, toServer[e][i], e)
      BY <2>3 DEF Chains, Chain, AllOf
    <3> QED BY <3>1 DEF OfClient, OkFrame
  <2>6. answers[d] = <<>>
    BY <1>7, <2>3 DEF Unanswered
  <2>7. \A i \in 1..Len(w) :
          \/ i \in 1..Len(toServer[c]) /\ w[i] = toServer[c][i]
          \/ \E k \in 1..dg.frames : w[i] = Part(t, d, k)
    <3> TAKE i \in 1..Len(w)
    <3>1. CASE i <= Len(toServer[c])
      BY <1>12, <3>1
    <3>2. CASE i > Len(toServer[c])
      <4>1. i - Len(toServer[c]) \in 1..dg.frames /\ w[i] = r[i - Len(toServer[c])]
        BY <1>11, <1>12, <3>2
      <4>2. \E k \in 1..dg.frames : w[i] = Part(t, d, k)
        BY <1>11, <4>1
      <4> QED BY <4>2
    <3> QED BY <1>12, <3>1, <3>2
  <2>8. Unanswered(t, a, answers)
    <3>1. \A e \in Ids : e \notin DOMAIN t => answers[e] = <<>>
      BY <1>6, <2>3 DEF Unanswered
    <3>2. ASSUME NEW e \in Clients, NEW i \in 1..Len(a[e]), a[e][i].part > 0
          PROVE  answers[a[e][i].dg] = <<>>
      <4>1. CASE e # c
        BY <1>10, <2>3, <3>2, <4>1 DEF Unanswered
      <4>2. CASE e = c
        <5>1. CASE i \in 1..Len(toServer[c]) /\ w[i] = toServer[c][i]
          BY <1>10, <2>3, <3>2, <4>2, <5>1 DEF Unanswered
        <5>2. CASE \E k \in 1..dg.frames : w[i] = Part(t, d, k)
          BY <1>10, <2>6, <4>2, <5>2, PartIs
        <5> QED BY <1>10, <2>7, <4>2, <5>1, <5>2
      <4> QED BY <4>1, <4>2
    <3> QED BY <3>1, <3>2 DEF Unanswered
  <2>9. ASSUME NEW e \in Clients, Multi(t, a[e])
        PROVE  Multi(sent, toServer[e]) \/ (e = c /\ dg.frames > 1)
    <3>1. PICK i \in 1..Len(a[e]) : a[e][i].part > 0 /\ t[a[e][i].dg].frames > 1
      BY <2>9 DEF Multi
    <3>2. ASSUME NEW j \in 1..Len(toServer[e]), a[e][i] = toServer[e][j] PROVE Multi(sent, toServer[e])
      <4>1. toServer[e][j].dg \in DOMAIN sent
        BY <2>5, <3>1, <3>2
      <4>2. t[toServer[e][j].dg] = sent[toServer[e][j].dg]
        BY <1>6, <4>1
      <4> QED BY <3>1, <3>2, <4>2 DEF Multi
    <3>3. CASE e # c
      BY <1>10, <3>1, <3>2, <3>3
    <3>4. CASE e = c
      <4>1. CASE i \in 1..Len(toServer[c]) /\ w[i] = toServer[c][i]
        BY <1>10, <3>2, <3>4, <4>1
      <4>2. CASE \E k \in 1..dg.frames : w[i] = Part(t, d, k)
        <5>1. a[e][i].dg = d
          BY <1>10, <3>4, <4>2, PartIs
        <5> QED BY <1>4, <1>6, <3>1, <3>4, <5>1
      <4> QED BY <1>10, <2>7, <3>1, <3>4, <4>1, <4>2
    <3> QED BY <3>3, <3>4
  <2>10. ASSUME NEW e \in Clients, Multi(sent, toServer[e]), dg.frames > 1
         PROVE  e = c
    <3>1. PICK i \in 1..Len(toServer[e]) :
             toServer[e][i].part > 0 /\ sent[toServer[e][i].dg].frames > 1
      BY <2>10 DEF Multi
    <3> DEFINE g == toServer[e][i].dg
    <3>2. g \in DOMAIN sent /\ sent[g].by = e
      BY <2>5, <3>1
    <3>3. toServer[e][i] \in ToSet(toServer[e])
      <4>1. toServer[e] \in Seq(Frames)
        BY <1>9
      <4> QED BY <4>1 DEF ToSet
    <3>4. g \in Underway
      BY <3>1, <3>2, <3>3 DEF Underway
    <3> QED BY <2>1, <2>10, <3>2, <3>4
  <2>11. OneLong(t, a)
    BY <2>3, <2>9, <2>10 DEF OneLong
  <2>12. \A e \in Clients : toServer[e] # <<>> => a[e] # <<>> /\ Head(a[e]) = Head(toServer[e])
    <3>1. ASSUME toServer[c] # <<>> PROVE w # <<>> /\ Head(w) = Head(toServer[c])
      <4>0. toServer[c] \in Seq(Frames)
        BY <1>9
      <4>1. Head(toServer[c]) = toServer[c][1] /\ 1 \in 1..Len(toServer[c])
        BY <1>2, <3>1, QueueIs
      <4>2. w[1] = toServer[c][1] /\ Len(w) >= 1
        BY <1>11, <1>12, <4>1
      <4>3. w # <<>>
        BY <4>2, EmptySeq
      <4> QED BY <1>12, <4>1, <4>2, <4>3, TailIs
    <3> QED BY <1>10, <3>1
  <2>13. toServer[c] = <<>> /\ a[c] # <<>> => Begins(Head(a[c]))
    <3> SUFFICES ASSUME toServer[c] = <<>>, w # <<>> PROVE Begins(Head(w))
      BY <1>10
    <3>1. Head(w) = w[1] /\ Len(w) >= 1
      BY <1>12, TailIs
    <3>2. 1 \in 1..Len(w)
      BY <1>12, <3>1
    <3>3. \E k \in 1..dg.frames : w[1] = r[1] /\ 1 \in 1..Len(r)
      <4>1. Len(toServer[c]) = 0
        BY <1>12
      <4> QED BY <1>3, <1>11, <1>12, <3>2, <4>1
    <3>4. w[1] = Part(t, d, 1)
      BY <1>11, <3>3
    <3> QED BY <3>1, <3>4, PartIs DEF Begins
  <2>14. buffer = <<>> \/ \E e : Holds(sent, toServer, buffer, e) /\ Holds(t, a, buffer, e)
    <3> SUFFICES ASSUME buffer # <<>>
                 PROVE  \E e : Holds(sent, toServer, buffer, e) /\ Holds(t, a, buffer, e)
      OBVIOUS
    <3>1. PICK e : Holds(sent, toServer, buffer, e)
      BY <2>2 DEF Good, Assembling
    <3>2. e \in DOMAIN sent /\ sent[e].by \in Clients
      BY <1>2, <3>1, OwnerIs
    <3>3. e \in DOMAIN t /\ t[e] = sent[e]
      BY <1>6, <3>2
    <3>4. \A k : Part(t, e, k) = Part(sent, e, k)
      BY <3>3 DEF Part
    <3>5. a[sent[e].by] # <<>> /\ Head(a[sent[e].by]) = Head(toServer[sent[e].by])
      BY <2>12, <3>1, <3>2 DEF Holds
    <3>6. Holds(t, a, buffer, e)
      <4> HIDE DEF a
      <4> QED BY <3>1, <3>3, <3>4, <3>5 DEF Holds
    <3> QED BY <3>1, <3>6
  <2>15. \A e \in Clients : Owned(sent, buffer, e) => Owned(t, buffer, e)
    <3> SUFFICES ASSUME NEW e \in Clients, Owned(sent, buffer, e) PROVE Owned(t, buffer, e)
      OBVIOUS
    <3>1. buffer # <<>> /\ sent[buffer[1].dg].by = e
      BY DEF Owned
    <3>2. PICK g : Holds(sent, toServer, buffer, g)
      BY <2>14, <3>1
    <3>3. g \in DOMAIN sent /\ Len(buffer) >= 1 /\ Len(buffer) \in Nat
      BY <1>2, <3>1, <3>2, OwnerIs
    <3>4. buffer[1].dg = g
      BY <3>2, <3>3, PartIs DEF Holds
    <3> QED BY <1>6, <3>1, <3>3, <3>4 DEF Owned
  <2>16. HeadsBegin(t, a, buffer)
    <3> SUFFICES ASSUME NEW e \in Clients, a[e] # <<>>, ~Owned(t, buffer, e) PROVE Begins(Head(a[e]))
      BY DEF HeadsBegin
    <3>1. CASE toServer[e] # <<>>
      BY <2>2, <2>12, <2>15, <3>1 DEF Good, HeadsBegin
    <3>2. CASE toServer[e] = <<>>
      BY <1>10, <2>13, <3>2
    <3> QED BY <3>1, <3>2
  <2>17. Good(t, a, buffer, answers)
    BY <2>4, <2>8, <2>11, <2>14, <2>16 DEF Good, Assembling
  <2>18. \A e \in DOMAIN t : answers[e] \in GoodFor(t[e].cmd)
    <3>1. \A e \in DOMAIN sent : answers[e] \in GoodFor(sent[e].cmd)
      BY <2>1, AnswersAre DEF Kept
    <3>2. \A k : <<>> \in GoodFor(k)
      BY DEF GoodFor
    <3> QED BY <1>6, <2>6, <3>1, <3>2
  <2> QED BY <2>1, <2>17, <2>18
<1> HIDE DEF a
<1>17. Settled'
  <2>1. calm => (receiving <=> buffer # <<>>)
    BY DEF Kept, Settled
  <2> QED BY <1>1, <1>16, <2>1 DEF Settled
<1>18. OneAnswer'
  BY <1>1, <1>16, AnswersAreNext
<1> QED BY <1>13, <1>14, <1>15, <1>17, <1>18 DEF Kept

LEMMA KeptInit == ServerInit => Kept
<1> SUFFICES ASSUME ServerInit PROVE Kept
  OBVIOUS
<1>1. /\ buffer = <<>> /\ receiving = FALSE /\ handed = <<>> /\ sent = <<>>
      /\ calling = FALSE /\ toServer = [c \in Clients |-> <<>>] /\ answers = [d \in Ids |-> <<>>]
      /\ upgrading = FALSE /\ writer = 0 /\ waiting = {} /\ trouble = 0 /\ calm = TRUE
  BY DEF ServerInit
<1>2. \A S : <<>> \in Seq(S) /\ Len(<<>>) = 0
  OBVIOUS
<1>3. ServerTypeOK
  <2>1. \A c \in Clients : toServer[c] = <<>>
    BY <1>1
  <2>2. toServer \in [Clients -> Seq(DatagramFrame \cup {OkFrame})]
    BY <1>1, <1>2
  <2>3. answers \in [Ids -> Seq(ServerAnswers)]
    BY <1>1, <1>2
  <2>4. Len(buffer) <= BufferFrames /\ Len(sent) <= MaxDatagrams /\ trouble \in 0..MaxTrouble
    BY <1>1, <1>2, BoundsAssumption DEF BoundsAssumption
  <2>5. /\ buffer \in Seq(DatagramFrame) /\ handed \in Seq(DatagramFrame)
        /\ sent \in Seq([by : Clients, cmd : Commands, frames : 1..BufferFrames])
    BY <1>1, <1>2
  <2> QED BY <1>1, <2>2, <2>3, <2>4, <2>5 DEF ServerTypeOK
<1>4. Settled
  <2>1. \A c \in Clients : toServer[c] = <<>>
    BY <1>1
  <2>2. Chains(sent, toServer)
    BY <2>1, <1>2 DEF Chains, Chain, AllOf, Linked, Closed, Sorted
  <2>3. Assembling(sent, toServer, buffer) /\ HeadsBegin(sent, toServer, buffer)
    BY <1>1, <2>1 DEF Assembling, HeadsBegin
  <2>4. OneLong(sent, toServer)
    BY <1>2, <2>1 DEF OneLong, Multi
  <2>5. Unanswered(sent, toServer, answers)
    BY <1>1, <1>2, <2>1 DEF Unanswered
  <2> QED BY <1>1, <2>2, <2>3, <2>4, <2>5 DEF Settled, Good
<1>5. Returned /\ WholeDatagrams
  BY <1>1 DEF Returned, WholeDatagrams
<1>6. OneAnswer
  <2>1. DOMAIN sent = {}
    BY <1>1
  <2> QED BY <2>1, AnswersAre
<1> QED BY <1>3, <1>4, <1>5, <1>6 DEF Kept

LEMMA KeptNext == Kept /\ [ServerNext]_serverVars => Kept'
<1> SUFFICES ASSUME Kept, [ServerNext]_serverVars PROVE Kept'
  OBVIOUS
<1>1. ASSUME NEW c \in Clients, NEW dg \in Datagrams[c], Send(c, dg) PROVE Kept'
  BY <1>1, SendStep
<1>2. ASSUME NEW c \in Clients, Lose(c) PROVE Kept'
  BY <1>2, LoseStep
<1>3. ASSUME NEW c \in Clients, handle_datagram(c) PROVE Kept'
  <2> DEFINE f == Head(toServer[c])
  <2>1. toServer[c] # <<>> /\ (RejectBusy(c, f) \/ AppendFrame(c, f) \/ AnswerReceived(c, f) \/ Handle(c, f))
    BY <1>3 DEF handle_datagram
  <2> QED BY <2>1, BusyStep, AppendStep, AnswerStep, HandleStep
<1>4. ASSUME NEW d \in waiting, StopWaiting(d) PROVE Kept'
  BY <1>4, StopStep
<1>5. CASE write_ok_late
  BY <1>5, LateStep
<1>6. CASE UNCHANGED serverVars
  BY <1>6, StutterStep
<1> QED BY <1>1, <1>2, <1>3, <1>4, <1>5, <1>6 DEF ServerNext

\* The inductive invariant of the server.
THEOREM ServerInvariance == ServerSpec => []Kept
BY KeptInit, KeptNext, PTL DEF ServerSpec

(* Whatever clients send, lose and wait for: the buffer never holds more frames  *)
(* than it has room for, every frame that is on its way is one of a datagram, or *)
(* an answer, and a command for the firmware is the only one that is remembered. *)
THEOREM ServerTypeCorrect == ServerSpec => []ServerTypeOK
<1>1. Kept => ServerTypeOK
  BY DEF Kept
<1> QED BY <1>1, ServerInvariance, PTL

(* Until datagrams of several frames of two clients are on the way at once, a     *)
(* frame is lost or an answer comes between two frames, what is handed to         *)
(* lcc_memory_try_handle_datagram, or to the application, is one datagram as it   *)
(* was sent: datagrams of one frame that others send meanwhile are rejected and   *)
(* leave the buffer alone (lcc_handle_datagram).                                  *)
THEOREM HandedWhole == ServerSpec => []WholeDatagrams
<1>1. Kept => WholeDatagrams
  BY DEF Kept
<1> QED BY <1>1, ServerInvariance, PTL

(* As long, and while no reply is left unsent, every datagram gets at most one    *)
(* answer and a reply only behind it, whatever command it is and whichever        *)
(* functions the node has; but for queries and unset firmware functions           *)
(* (lcc_memory_try_handle_datagram, lcc_datagram_load_and_send).                  *)
THEOREM AnsweredOnce == ServerSpec => []OneAnswer
<1>1. Kept => OneAnswer
  BY DEF Kept
<1> QED BY <1>1, ServerInvariance, PTL
=============================================================================
