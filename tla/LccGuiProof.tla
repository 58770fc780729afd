---------------------------- MODULE LccGuiProof ----------------------------
(***************************************************************************)
(* What the LCC windows of the GUI show.                                   *)
(*                                                                         *)
(* The CDI editor shows what the node has, and no reply takes a change of  *)
(* the user away, for every CDI, every node and every interleaving with    *)
(* the event graph.  The invariant: each copied block is the node's unless *)
(* a reply was lost (Agrees); a space is read by one request at a time,    *)
(* which goes on where the copy ends (ReadingOf); and a value of several   *)
(* blocks is only written by the editor, once, while it is in flight       *)
(* (WritesOf).                                                             *)
(*                                                                         *)
(* The table of nodes is true when the bus is silent, for every number of  *)
(* nodes and of views that ask them.  The invariant: a node that was there *)
(* at the last refresh is in the table or has a question or an answer on   *)
(* its way (Seen); what an entry has collected is the part that the node's *)
(* queue continues (RxOf); and the event lists of the devices are sorted   *)
(* whenever they are bisected (Listed).                                    *)
(***************************************************************************)
EXTENDS CdiEditor, LccNodes, FiniteSetTheorems, SequenceTheorems, WellFoundedInduction, TLAPS

(***************************************************************************)
(* Sequences.                                                              *)
(***************************************************************************)

LEMMA ConcatIs ==
  ASSUME NEW S, NEW q \in Seq(S), NEW r \in Seq(S)
  PROVE  /\ q \o r \in Seq(S) /\ Len(q) \in Nat /\ Len(r) \in Nat /\ Len(q \o r) = Len(q) + Len(r)
         /\ \A i \in 1..Len(q) : (q \o r)[i] = q[i]
         /\ \A i \in 1..(Len(q) + Len(r)) : i > Len(q) =>
              i - Len(q) \in 1..Len(r) /\ (q \o r)[i] = r[i - Len(q)]
         /\ \A i \in 1..Len(r) : (q \o r)[Len(q) + i] = r[i]
         /\ q = <<>> <=> Len(q) = 0
         /\ DOMAIN q = 1..Len(q) /\ DOMAIN (q \o r) = 1..(Len(q) + Len(r)) /\ DOMAIN r = 1..Len(r)
  BY ConcatProperties, EmptySeq, LenProperties

LEMMA AppendIs ==
  ASSUME NEW S, NEW q \in Seq(S), NEW x \in S
  PROVE  /\ Append(q, x) = q \o <<x>> /\ <<x>> \in Seq(S) /\ Len(<<x>>) = 1 /\ <<x>>[1] = x
         /\ Append(q, x) \in Seq(S) /\ Len(Append(q, x)) = Len(q) + 1 /\ Len(q) \in Nat
         /\ \A i \in 1..Len(q) : Append(q, x)[i] = q[i]
         /\ Append(q, x)[Len(q) + 1] = x
  OBVIOUS

LEMMA FirstIs ==
  ASSUME NEW S, NEW q \in Seq(S), NEW x \in S
  PROVE  /\ Append(q, x) # <<>>
         /\ q = <<>> => Append(q, x)[1] = x
         /\ q # <<>> => Append(q, x)[1] = q[1]
  OBVIOUS

LEMMA SeqIs ==
  ASSUME NEW S, NEW n \in Nat, NEW p \in [1..n -> S]
  PROVE  p \in Seq(S) /\ Len(p) = n
  OBVIOUS

LEMMA TailIs ==
  ASSUME NEW S, NEW q \in Seq(S), q # <<>>
  PROVE  /\ Tail(q) \in Seq(S) /\ Len(q) \in Nat /\ Len(q) >= 1 /\ Len(Tail(q)) = Len(q) - 1
         /\ \A i \in 1..Len(Tail(q)) : i + 1 \in 1..Len(q) /\ Tail(q)[i] = q[i + 1]
         /\ Head(q) = q[1] /\ q[1] \in S /\ 1 \in DOMAIN q
         /\ DOMAIN q = 1..Len(q) /\ DOMAIN Tail(q) = 1..Len(Tail(q))
<1>1. Tail(q) \in Seq(S) /\ Len(q) \in Nat /\ Len(q) >= 1 /\ Len(Tail(q)) = Len(q) - 1
  BY EmptySeq
<1>2. \A i \in 1..Len(Tail(q)) : i + 1 \in 1..Len(q) /\ Tail(q)[i] = q[i + 1]
  BY <1>1
<1>3. Head(q) = q[1] /\ q[1] \in S
  BY <1>1
<1> QED BY <1>1, <1>2, <1>3

(***************************************************************************)
(* The parts of the invariant.                                             *)
(***************************************************************************)

Typed(q, copy) ==
  /\ q \in Seq(Requests)
  /\ \A i \in DOMAIN q : q[i].kind = "write" => q[i].val \in Value(q[i].field)
  /\ copy \in [Spaces -> Seq(Block)] /\ \A s \in Spaces : Len(copy[s]) <= Len(Layout[s])

\* A space that is being read has one request, which asks for what the copy lacks next.
Reads(r) == r.kind \in {"info", "read"}
ReadingOf(q, copy) ==
  /\ \A i \in DOMAIN q : q[i].kind = "info" => copy[q[i].space] = <<>>
  /\ \A i \in DOMAIN q : q[i].kind = "read" =>
       /\ q[i].at = Len(copy[q[i].space]) + 1 /\ q[i].at <= Len(Layout[q[i].space])
       /\ q[i].space \notin BadSpaces
  /\ \A i, j \in DOMAIN q : Reads(q[i]) /\ Reads(q[j]) /\ q[i].space = q[j].space => i = j

\* How far the connection has come with the request at the front.
Ranged(q) == q # <<>> /\ q[1].kind \in {"write", "range"}
FrontOf(q, k, w, fl, m) ==
  /\ k \in Nat \ {0} /\ w \in BOOLEAN /\ fl \in BOOLEAN
  /\ w => q # <<>> /\ q[1].kind = "write" /\ m[q[1].field][k] = q[1].val[k]
  /\ Ranged(q) => k <= Blocks[q[1].field]
  /\ ~Ranged(q) => k = 1
  /\ k = 1 => ~fl

\* A write in the queue of which the end was not told yet.
Live(q, fl, i) == q[i].kind = "write" /\ (i = 1 => ~fl)
WritesOf(q, fl, fly) ==
  /\ \A i \in DOMAIN q : Live(q, fl, i) /\ Blocks[q[i].field] > 1 => q[i].field \in fly
  /\ \A i, j \in DOMAIN q :
       Live(q, fl, i) /\ Live(q, fl, j) /\ q[i].field = q[j].field /\ Blocks[q[i].field] > 1 => i = j
  /\ \A f \in fly : \E i \in DOMAIN q : Live(q, fl, i) /\ q[i].field = f

\* The copy has what is in memory m, but for the blocks in uns and in untold.
Agrees(copy, uns, m, untold) ==
  \A b \in AllBlocks :
    Covered(b, copy) /\ b \notin uns /\ b \notin untold => InCopy(b, copy) = m[b[1]][b[2]]
\* The block that the node has written and of which nobody was told.
UntoldOf(q, k, w) == IF w THEN {<<q[1].field, k>>} ELSE {}

UnderwayOf(q, k, w, fl, f) ==
  /\ q # <<>> /\ q[1].kind = "write" /\ q[1].field = f
  /\ w \/ (k > 1 /\ ~fl)
ShownOf(orig, uns, m, q, k, w, fl) ==
  \A f \in Fields :
    orig[f] # NoValue /\ ~UnderwayOf(q, k, w, fl, f) /\ (\A b \in uns : b[1] # f) =>
      orig[f] = Encode[f][m[f]]

Counted == IsFiniteSet(inFlight) /\ outstanding = Cardinality(inFlight)
MenuIsIdle == modal.open = "menu" => outstanding = 0

IInv ==
  /\ TypeOK
  /\ ReadingOf(queue, data)
  /\ FrontOf(queue, block, written, failed, mem)
  /\ WritesOf(queue, failed, inFlight)
  /\ Counted /\ MenuIsIdle
  /\ Agrees(data, unsure, mem, UntoldOf(queue, block, written))
  /\ ShownOf(original, unsure, mem, queue, block, written, failed)

(***************************************************************************)
(* The CDI.                                                                *)
(***************************************************************************)

LEMMA CdiIs ==
  /\ Segments \in Seq(Spaces) /\ FieldOrder \in Seq(Fields) /\ IsFiniteSet(Fields)
  /\ \A f \in Fields : SpaceOf[f] \in Spaces /\ Blocks[f] \in Nat /\ Blocks[f] >= 1
  /\ \A f \in GraphFields : f \in Fields /\ Blocks[f] = 1
  /\ \A g \in Groups : g \subseteq Fields
<1>1. FieldOrder \in Seq(Fields)
  BY CdiAssumption DEF CdiAssumption
<1>2. IsFiniteSet(Fields)
  <2>1. Len(FieldOrder) \in Nat /\ DOMAIN FieldOrder = 1..Len(FieldOrder)
    BY <1>1
  <2>2. IsFiniteSet(DOMAIN FieldOrder)
    BY <2>1, FS_Interval
  <2>3. Fields = {FieldOrder[k] : k \in DOMAIN FieldOrder}
    BY DEF Fields, Range
  <2>4. FieldOrder \in Surjection(DOMAIN FieldOrder, Fields)
    BY <1>1, <2>1, <2>3 DEF Surjection
  <2> QED BY <2>2, <2>4, FS_Surjection
<1> QED BY <1>1, <1>2, CdiAssumption DEF CdiAssumption

LEMMA BlocksAre ==
  /\ \A b \in AllBlocks : b[1] \in Fields /\ b[2] \in 1..Blocks[b[1]] /\ b = <<b[1], b[2]>>
  /\ \A f \in Fields : \A i \in 1..Blocks[f] : <<f, i>> \in AllBlocks
  BY DEF AllBlocks

\* Where a block is in its space, and which one is at a place.
LEMMA IndexIs ==
  /\ \A s \in Spaces : Layout[s] \in Seq(AllBlocks) /\ Len(Layout[s]) \in Nat
  /\ \A b \in AllBlocks :
       /\ SpaceOf[b[1]] \in Spaces
       /\ Index[b] \in 1..Len(Layout[SpaceOf[b[1]]]) /\ Layout[SpaceOf[b[1]]][Index[b]] = b
  /\ \A s \in Spaces : \A k \in 1..Len(Layout[s]) :
       /\ Layout[s][k] \in AllBlocks /\ SpaceOf[Layout[s][k][1]] = s
       /\ Index[Layout[s][k]] = k
<1>1. \A s \in Spaces : /\ Layout[s] \in Seq(AllBlocks) /\ Len(Layout[s]) \in Nat
                        /\ DOMAIN Layout[s] = 1..Len(Layout[s])
  BY LayoutAssumption DEF LayoutAssumption
<1>2. ASSUME NEW b \in AllBlocks
      PROVE  /\ SpaceOf[b[1]] \in Spaces
             /\ Index[b] \in DOMAIN Layout[SpaceOf[b[1]]] /\ Layout[SpaceOf[b[1]]][Index[b]] = b
  <2>1. SpaceOf[b[1]] \in Spaces
    BY BlocksAre, CdiIs
  <2>2. \E k \in DOMAIN Layout[SpaceOf[b[1]]] : Layout[SpaceOf[b[1]]][k] = b
    BY <2>1, LayoutAssumption DEF LayoutAssumption
  <2>3. Index[b] = CHOOSE k \in DOMAIN Layout[SpaceOf[b[1]]] : Layout[SpaceOf[b[1]]][k] = b
    BY DEF Index
  <2> QED BY <2>1, <2>2, <2>3
<1>3. ASSUME NEW s \in Spaces, NEW k \in 1..Len(Layout[s])
      PROVE  Layout[s][k] \in AllBlocks /\ SpaceOf[Layout[s][k][1]] = s /\ Index[Layout[s][k]] = k
  <2>1. k \in DOMAIN Layout[s] /\ Layout[s][k] \in AllBlocks
    BY <1>1
  <2>2. SpaceOf[Layout[s][k][1]] = s
    BY <2>1, LayoutAssumption DEF LayoutAssumption
  <2>3. Index[Layout[s][k]] \in DOMAIN Layout[s] /\ Layout[s][Index[Layout[s][k]]] = Layout[s][k]
    BY <1>2, <2>1, <2>2
  <2>4. \A i, j \in DOMAIN Layout[s] : Layout[s][i] = Layout[s][j] => i = j
    BY LayoutAssumption DEF LayoutAssumption
  <2> QED BY <2>1, <2>2, <2>3, <2>4
<1> QED BY <1>1, <1>2, <1>3

\* A space that can be read has a block.
LEMMA SpaceHasABlock ==
  ASSUME NEW s \in Spaces, s \notin BadSpaces
  PROVE  Len(Layout[s]) >= 1
<1>1. PICK f \in Fields : SpaceOf[f] = s
  BY CdiAssumption DEF CdiAssumption
<1>2. <<f, 1>> \in AllBlocks /\ <<f, 1>>[1] = f
  BY <1>1, CdiIs, BlocksAre
<1> QED BY <1>1, <1>2, IndexIs

LEMMA RequestIs ==
  ASSUME NEW r \in Requests
  PROVE  /\ r.kind \in {"info", "read", "write", "range", "update"}
         /\ r.kind = "info" => r.space \in Spaces /\ r = Info(r.space)
         /\ r.kind = "read" => r.space \in Spaces /\ r.at \in Nat
         /\ r.kind = "write" => r.field \in Fields /\ r.val \in AnyValue
         /\ r.kind = "range" => r.field \in Fields
  BY DEF Requests, Update, Info

LEMMA RequestsAre ==
  /\ \A s \in Spaces : Info(s) \in Requests /\ Info(s).kind = "info" /\ Info(s).space = s
  /\ \A s \in Spaces, k \in Nat : /\ ReadBlock(s, k) \in Requests /\ ReadBlock(s, k).kind = "read"
                                  /\ ReadBlock(s, k).space = s /\ ReadBlock(s, k).at = k
  /\ \A f \in Fields, v \in AnyValue : /\ Write(f, v) \in Requests /\ Write(f, v).kind = "write"
                                       /\ Write(f, v).field = f /\ Write(f, v).val = v
  /\ \A f \in Fields : ReadRange(f) \in Requests /\ ReadRange(f).kind = "range" /\ ReadRange(f).field = f
  /\ Update \in Requests /\ Update.kind = "update"
  BY DEF Requests, Info, ReadBlock, Write, ReadRange, Update

LEMMA ValuesAre ==
  /\ \A f \in Fields : Value(f) \subseteq AnyValue
  /\ \A f \in Fields : \A v \in Value(f) : \A i \in 1..Blocks[f] : v[i] \in Block
  /\ \A f \in Fields : \A v \in Value(f) : Encode[f][v] \in Value(f)
  /\ \A f \in Fields : \A v \in Inputs[f] : v \in Value(f)
<1>1. \A f \in Fields : Value(f) \subseteq AnyValue
  BY DEF AnyValue
<1>2. \A f \in Fields : \A v \in Value(f) : \A i \in 1..Blocks[f] : v[i] \in Block
  BY DEF Value
<1> QED BY <1>1, <1>2, EncodeAssumption DEF EncodeAssumption

(***************************************************************************)
(* What becomes of the queue.                                              *)
(***************************************************************************)

\* Writes only: nothing that reads a space is added.
LEMMA Added ==
  ASSUME NEW q, NEW copy, Typed(q, copy), ReadingOf(q, copy),
         NEW r \in Seq(Requests), \A i \in 1..Len(r) : ~Reads(r[i]),
         \A i \in 1..Len(r) : r[i].kind = "write" => r[i].val \in Value(r[i].field)
  PROVE  Typed(q \o r, copy) /\ ReadingOf(q \o r, copy)
<1> DEFINE t == q \o r
<1>1. q \in Seq(Requests)
  BY DEF Typed
<1>2. /\ t \in Seq(Requests) /\ Len(q) \in Nat /\ Len(r) \in Nat /\ Len(t) = Len(q) + Len(r)
      /\ \A i \in 1..Len(q) : t[i] = q[i]
      /\ \A i \in 1..(Len(q) + Len(r)) : i > Len(q) => i - Len(q) \in 1..Len(r) /\ t[i] = r[i - Len(q)]
      /\ DOMAIN q = 1..Len(q) /\ DOMAIN t = 1..(Len(q) + Len(r))
  BY <1>1, ConcatIs
<1> SUFFICES Typed(t, copy) /\ ReadingOf(t, copy)
  OBVIOUS
<1> HIDE DEF t
<1>3. \A i \in DOMAIN t : (i \in DOMAIN q /\ t[i] = q[i]) \/ \E j \in 1..Len(r) : t[i] = r[j]
  <2> TAKE i \in DOMAIN t
  <2>1. CASE i <= Len(q)
    BY <1>2, <2>1
  <2>2. CASE i > Len(q)
    BY <1>2, <2>2
  <2> QED BY <1>2, <2>1, <2>2
<1>4. Typed(t, copy)
  BY <1>2, <1>3 DEF Typed
<1>5. \A i \in DOMAIN t : Reads(t[i]) => i \in DOMAIN q /\ t[i] = q[i]
  BY <1>3
<1>6. ReadingOf(t, copy)
  <2>1. \A i \in DOMAIN t : t[i].kind \in {"info", "read"} => i \in DOMAIN q /\ t[i] = q[i]
    BY <1>5 DEF Reads
  <2>2. \A i \in DOMAIN t : t[i].kind = "info" => copy[t[i].space] = <<>>
    BY <2>1 DEF ReadingOf
  <2>3. \A i \in DOMAIN t : t[i].kind = "read" =>
          /\ t[i].at = Len(copy[t[i].space]) + 1 /\ t[i].at <= Len(Layout[t[i].space])
          /\ t[i].space \notin BadSpaces
    BY <2>1 DEF ReadingOf
  <2>4. \A i, j \in DOMAIN t : Reads(t[i]) /\ Reads(t[j]) /\ t[i].space = t[j].space => i = j
    BY <1>5 DEF ReadingOf
  <2> QED BY <2>2, <2>3, <2>4 DEF ReadingOf
<1> QED BY <1>4, <1>6

LEMMA FrontAdded ==
  ASSUME NEW q, NEW copy, Typed(q, copy), NEW k, NEW w, NEW fl, NEW m, FrontOf(q, k, w, fl, m),
         NEW r \in Seq(Requests)
  PROVE  FrontOf(q \o r, k, w, fl, m)
<1>1. q \in Seq(Requests) /\ q \o r \in Seq(Requests)
  BY ConcatIs DEF Typed
<1>2. CASE q = <<>>
  <2>1. q \o r = r /\ k = 1 /\ ~fl /\ ~w
    BY <1>2 DEF FrontOf, Ranged
  <2>2. Ranged(r) => r[1].field \in Fields
    BY RequestIs DEF Ranged
  <2>3. Ranged(r) => 1 <= Blocks[r[1].field]
    BY <2>2, CdiIs
  <2> QED BY <2>1, <2>3 DEF FrontOf
<1>3. CASE q # <<>>
  <2>1. q \o r # <<>> /\ (q \o r)[1] = q[1]
    BY <1>1, <1>3
  <2> QED BY <1>3, <2>1 DEF FrontOf, Ranged
<1> QED BY <1>2, <1>3

LEMMA WritesAdded ==
  ASSUME NEW q, NEW copy, Typed(q, copy), NEW fl \in BOOLEAN, NEW fly, WritesOf(q, fl, fly),
         NEW r \in Seq(Requests), \A i \in 1..Len(r) : r[i].kind = "write" => Blocks[r[i].field] = 1
  PROVE  WritesOf(q \o r, fl, fly)
<1> DEFINE t == q \o r
<1>1. q \in Seq(Requests)
  BY DEF Typed
<1>2. /\ t \in Seq(Requests) /\ Len(q) \in Nat /\ Len(r) \in Nat /\ Len(t) = Len(q) + Len(r)
      /\ \A i \in 1..Len(q) : t[i] = q[i]
      /\ \A i \in 1..(Len(q) + Len(r)) : i > Len(q) => i - Len(q) \in 1..Len(r) /\ t[i] = r[i - Len(q)]
      /\ DOMAIN q = 1..Len(q) /\ DOMAIN t = 1..(Len(q) + Len(r))
  BY <1>1, ConcatIs
<1> SUFFICES WritesOf(t, fl, fly)
  OBVIOUS
<1> HIDE DEF t
<1>3. \A i \in DOMAIN q : i \in DOMAIN t /\ t[i] = q[i] /\ (Live(t, fl, i) <=> Live(q, fl, i))
  BY <1>2 DEF Live
<1>4. \A i \in DOMAIN t : Live(t, fl, i) /\ Blocks[t[i].field] > 1 => i \in DOMAIN q
  <2> TAKE i \in DOMAIN t
  <2>1. CASE i > Len(q)
    <3>1. i - Len(q) \in 1..Len(r) /\ t[i] = r[i - Len(q)]
      BY <1>2, <2>1
    <3>2. t[i].kind = "write" => Blocks[t[i].field] = 1
      BY <3>1
    <3> QED BY <3>2 DEF Live
  <2>2. CASE ~ (i > Len(q))
    BY <1>2, <2>2
  <2> QED BY <2>1, <2>2
<1>5. \A i \in DOMAIN t : Live(t, fl, i) /\ Blocks[t[i].field] > 1 => t[i].field \in fly
  BY <1>3, <1>4 DEF WritesOf
<1>6. \A i, j \in DOMAIN t :
        Live(t, fl, i) /\ Live(t, fl, j) /\ t[i].field = t[j].field /\ Blocks[t[i].field] > 1 => i = j
  <2> SUFFICES ASSUME NEW i \in DOMAIN t, NEW j \in DOMAIN t, Live(t, fl, i), Live(t, fl, j),
                      t[i].field = t[j].field, Blocks[t[i].field] > 1
               PROVE  i = j
    OBVIOUS
  <2>1. i \in DOMAIN q /\ j \in DOMAIN q
    BY <1>4
  <2> QED BY <1>3, <2>1 DEF WritesOf
<1>7. \A f \in fly : \E i \in DOMAIN t : Live(t, fl, i) /\ t[i].field = f
  BY <1>3 DEF WritesOf
<1> QED BY <1>5, <1>6, <1>7 DEF WritesOf

\* The first request is done.
LEMMA TailKeeps ==
  ASSUME NEW q, NEW copy, Typed(q, copy), ReadingOf(q, copy), q # <<>>
  PROVE  Typed(Tail(q), copy) /\ ReadingOf(Tail(q), copy)
<1> DEFINE t == Tail(q)
<1>1. q \in Seq(Requests)
  BY DEF Typed
<1>2. /\ t \in Seq(Requests) /\ DOMAIN t = 1..Len(t) /\ DOMAIN q = 1..Len(q)
      /\ \A i \in 1..Len(t) : i + 1 \in 1..Len(q) /\ t[i] = q[i + 1]
  BY <1>1, TailIs
<1> SUFFICES Typed(t, copy) /\ ReadingOf(t, copy)
  OBVIOUS
<1> HIDE DEF t
<1>3. \A i \in DOMAIN t : i \in Int /\ i + 1 \in DOMAIN q /\ t[i] = q[i + 1]
  BY <1>2
<1>4. Typed(t, copy)
  BY <1>2, <1>3 DEF Typed
<1>5. ReadingOf(t, copy)
  <2>1. \A i, j \in DOMAIN t : Reads(t[i]) /\ Reads(t[j]) /\ t[i].space = t[j].space => i = j
    <3> TAKE i, j \in DOMAIN t
    <3>1. Reads(t[i]) /\ Reads(t[j]) /\ t[i].space = t[j].space => i + 1 = j + 1
      BY <1>3 DEF ReadingOf
    <3> QED BY <1>3, <3>1
  <2> QED BY <1>3, <2>1 DEF ReadingOf
<1> QED BY <1>4, <1>5

LEMMA TailFront ==
  ASSUME NEW q, NEW copy, Typed(q, copy), q # <<>>, NEW m
  PROVE  FrontOf(Tail(q), 1, FALSE, FALSE, m)
<1>1. Tail(q) \in Seq(Requests)
  BY TailIs DEF Typed
<1>2. Ranged(Tail(q)) => Tail(q)[1].field \in Fields
  BY <1>1, RequestIs DEF Ranged
<1>3. Ranged(Tail(q)) => 1 <= Blocks[Tail(q)[1].field]
  BY <1>2, CdiIs
<1> DEFINE t == Tail(q)
<1>4. Ranged(t) => 1 <= Blocks[t[1].field]
  BY <1>3
<1> HIDE DEF t
<1>5. FrontOf(t, 1, FALSE, FALSE, m)
  BY <1>4 DEF FrontOf
<1> QED BY <1>5 DEF t

\* What is in flight when the request at the front is done.
LEMMA TailWrites ==
  ASSUME NEW q, NEW copy, Typed(q, copy), q # <<>>, NEW fl \in BOOLEAN, NEW fly, WritesOf(q, fl, fly),
         NEW fly2, fly2 = IF q[1].kind = "write" /\ ~fl THEN fly \ {q[1].field} ELSE fly
  PROVE  WritesOf(Tail(q), FALSE, fly2)
<1> DEFINE t == Tail(q)
<1>1. q \in Seq(Requests)
  BY DEF Typed
<1>2. /\ t \in Seq(Requests) /\ DOMAIN t = 1..Len(t) /\ DOMAIN q = 1..Len(q)
      /\ Len(q) \in Nat /\ Len(q) >= 1 /\ Len(t) = Len(q) - 1
      /\ \A i \in 1..Len(t) : i + 1 \in 1..Len(q) /\ t[i] = q[i + 1]
  BY <1>1, TailIs
<1> SUFFICES WritesOf(t, FALSE, fly2)
  OBVIOUS
<1> HIDE DEF t
<1>3. \A i \in DOMAIN t : /\ i \in Int /\ i + 1 \in DOMAIN q /\ i + 1 # 1 /\ t[i] = q[i + 1]
                          /\ Live(t, FALSE, i) <=> Live(q, fl, i + 1)
  BY <1>2 DEF Live
<1>4. \A i \in DOMAIN q : i # 1 => i - 1 \in DOMAIN t /\ t[i - 1] = q[i] /\ (Live(t, FALSE, i - 1) <=> Live(q, fl, i))
  <2> TAKE i \in DOMAIN q
  <2> HAVE i # 1
  <2>1. i \in Int /\ i - 1 \in DOMAIN t /\ (i - 1) + 1 = i
    BY <1>2
  <2> QED BY <1>3, <2>1
<1>5. \A i \in DOMAIN t : Live(t, FALSE, i) /\ Blocks[t[i].field] > 1 => t[i].field \in fly2
  <2> SUFFICES ASSUME NEW i \in DOMAIN t, Live(t, FALSE, i), Blocks[t[i].field] > 1
               PROVE  t[i].field \in fly2
    OBVIOUS
  <2>1. i + 1 \in DOMAIN q /\ i + 1 # 1 /\ t[i] = q[i + 1] /\ Live(q, fl, i + 1)
    BY <1>3
  <2>0. 1 \in DOMAIN q
    BY <1>2
  <2>2. t[i].field \in fly
    BY <2>1 DEF WritesOf
  <2>3. q[1].kind = "write" /\ ~fl => q[1].field # t[i].field
    <3>1. q[1].kind = "write" /\ ~fl => Live(q, fl, 1)
      BY DEF Live
    <3> QED BY <2>0, <2>1, <3>1 DEF WritesOf
  <2> QED BY <2>2, <2>3
<1>6. \A i, j \in DOMAIN t :
        Live(t, FALSE, i) /\ Live(t, FALSE, j) /\ t[i].field = t[j].field /\ Blocks[t[i].field] > 1 => i = j
  <2> SUFFICES ASSUME NEW i \in DOMAIN t, NEW j \in DOMAIN t, Live(t, FALSE, i), Live(t, FALSE, j),
                      t[i].field = t[j].field, Blocks[t[i].field] > 1
               PROVE  i = j
    OBVIOUS
  <2>1. i + 1 = j + 1
    BY <1>3 DEF WritesOf
  <2> QED BY <1>3, <2>1
<1>7. \A f \in fly2 : \E i \in DOMAIN t : Live(t, FALSE, i) /\ t[i].field = f
  <2> TAKE f \in fly2
  <2>1. PICK i \in DOMAIN q : Live(q, fl, i) /\ q[i].field = f
    BY DEF WritesOf
  <2>2. i # 1
    BY <2>1 DEF Live
  <2> QED BY <1>4, <2>1, <2>2
<1> QED BY <1>5, <1>6, <1>7 DEF WritesOf

\* A block of the range at the front is done, and there are more.
LEMMA FrontStays ==
  ASSUME NEW q, NEW copy, Typed(q, copy), q # <<>>, NEW fl \in BOOLEAN, NEW fly, WritesOf(q, fl, fly),
         NEW fl2 \in BOOLEAN, fl => fl2,
         NEW fly2, fly2 = IF q[1].kind = "write" /\ ~fl /\ fl2 THEN fly \ {q[1].field} ELSE fly
  PROVE  WritesOf(q, fl2, fly2)
<1>1. q \in Seq(Requests) /\ 1 \in DOMAIN q
  BY TailIs DEF Typed
<1>2. \A i \in DOMAIN q : Live(q, fl2, i) => Live(q, fl, i) /\ (i = 1 => ~fl2)
  BY DEF Live
<1>3. \A i \in DOMAIN q : Live(q, fl2, i) /\ Blocks[q[i].field] > 1 => q[i].field \in fly2
  <2> SUFFICES ASSUME NEW i \in DOMAIN q, Live(q, fl2, i), Blocks[q[i].field] > 1
               PROVE  q[i].field \in fly2
    OBVIOUS
  <2>1. q[i].field \in fly /\ Live(q, fl, i) /\ (i = 1 => ~fl2)
    BY <1>2 DEF WritesOf
  <2>2. q[1].kind = "write" /\ ~fl /\ fl2 => q[1].field # q[i].field
    <3>1. q[1].kind = "write" /\ ~fl => Live(q, fl, 1)
      BY DEF Live
    <3> QED BY <1>1, <2>1, <3>1 DEF WritesOf
  <2> QED BY <2>1, <2>2
<1>4. \A i, j \in DOMAIN q :
        Live(q, fl2, i) /\ Live(q, fl2, j) /\ q[i].field = q[j].field /\ Blocks[q[i].field] > 1 => i = j
  BY <1>2 DEF WritesOf
<1>5. \A f \in fly2 : \E i \in DOMAIN q : Live(q, fl2, i) /\ q[i].field = f
  <2> TAKE f \in fly2
  <2>1. PICK i \in DOMAIN q : Live(q, fl, i) /\ q[i].field = f
    BY DEF WritesOf
  <2>2. Live(q, fl2, i)
    BY <2>1 DEF Live
  <2> QED BY <2>1, <2>2
<1> QED BY <1>3, <1>4, <1>5 DEF WritesOf

\* writeChange for some fields, when no write is in flight.
LEMMA PositionIs ==
  \A f \in Fields : Position(f) \in Nat
<1> TAKE f \in Fields
<1>1. FieldOrder \in Seq(Fields) /\ DOMAIN FieldOrder = 1..Len(FieldOrder)
  BY CdiIs
<1>2. \E k \in DOMAIN FieldOrder : FieldOrder[k] = f
  BY DEF Fields, Range
<1> QED BY <1>1, <1>2 DEF Position

\* p has a write of every one of the fields.
AreWrites(p, n, fields, vals) ==
  /\ fields \subseteq Fields /\ n \in Nat /\ n = Cardinality(fields)
  /\ p \in Seq(Requests) /\ Len(p) = n
  /\ \A f \in fields : vals[f] \in Value(f)
  /\ \E keys \in InOrder(fields) : \A i \in 1..n : p[i] = Write(keys[i], vals[keys[i]])

\* The queue with what is in flight, after writes are added.
Lengthened(q, copy, k, w, fl, m, fly) ==
  Typed(q, copy) /\ ReadingOf(q, copy) /\ FrontOf(q, k, w, fl, m) /\ WritesOf(q, fl, fly)

LEMMA ChangesAdded ==
  ASSUME NEW q, NEW copy, Typed(q, copy), ReadingOf(q, copy),
         NEW k, NEW w, NEW fl \in BOOLEAN, NEW m, FrontOf(q, k, w, fl, m), WritesOf(q, fl, {}),
         NEW fields, NEW n, NEW p, NEW vals, AreWrites(p, n, fields, vals),
         NEW q2, q2 = q \o p \o <<Update>>
  PROVE  Lengthened(q2, copy, k, w, fl, m, fields)
<1> DEFINE u == <<Update>>
           r == p \o u
<1>20. PICK keys \in InOrder(fields) : \A i \in 1..n : p[i] = Write(keys[i], vals[keys[i]])
  BY DEF AreWrites
<1>3. p \in Seq(Requests) /\ Len(p) = n /\ n \in Nat
  BY DEF AreWrites
<1>1. /\ keys \in [1..n -> fields] /\ \A f \in fields : \E i \in 1..n : keys[i] = f
      /\ \A i, j \in 1..n : i < j => Position(keys[i]) < Position(keys[j])
  BY DEF InOrder, AreWrites
<1>2. \A i \in 1..n : /\ p[i] \in Requests /\ p[i].kind = "write" /\ p[i].field = keys[i]
                      /\ p[i].val \in Value(p[i].field) /\ keys[i] \in fields
  <2> TAKE i \in 1..n
  <2>1. keys[i] \in fields /\ keys[i] \in Fields /\ vals[keys[i]] \in Value(keys[i])
    BY <1>1 DEF AreWrites
  <2>2. vals[keys[i]] \in AnyValue
    BY <2>1, ValuesAre
  <2> QED BY <1>20, <2>1, <2>2, RequestsAre
<1>4. u \in Seq(Requests) /\ Len(u) = 1 /\ u[1].kind = "update"
  BY RequestsAre
<1>5. q \in Seq(Requests)
  BY DEF Typed
<1>0. q2 = (q \o p) \o u
  OBVIOUS
<1> HIDE DEF u
<1>21. r = p \o u
  OBVIOUS
<1> HIDE DEF r
<1>22. r \in Seq(Requests) /\ Len(r) = Len(p) + Len(u)
  BY ONLY ZenonT(60), <1>3, <1>4, <1>21, ConcatIs
<1>23. \A i \in 1..Len(p) : r[i] = p[i]
  BY ONLY <1>3, <1>4, <1>21, ConcatIs
<1>24. \A i \in 1..Len(u) : r[Len(p) + i] = u[i]
  BY ONLY <1>3, <1>4, <1>21, ConcatIs
<1>6. /\ r \in Seq(Requests) /\ Len(r) = n + 1
      /\ \A i \in 1..n : r[i] = p[i]
      /\ r[n + 1].kind = "update"
  <2>1. 1 \in 1..Len(u) /\ r[n + 1] = u[1]
    BY ONLY <1>3, <1>4, <1>24
  <2> QED BY ONLY <1>3, <1>4, <1>22, <1>23, <2>1
<1>7. q2 = q \o r
  <2>1. (q \o p) \o u = q \o (p \o u)
    BY ONLY <1>3, <1>4, <1>5, ConcatAssociative
  <2> QED BY ONLY <1>0, <1>21, <2>1
<1>8. \A i \in 1..Len(r) : i \in 1..n \/ i = n + 1
  BY ONLY <1>3, <1>6
<1>9. /\ \A i \in 1..Len(r) : ~Reads(r[i])
      /\ \A i \in 1..Len(r) : r[i].kind = "write" => r[i].val \in Value(r[i].field)
  <2> SUFFICES ASSUME NEW i \in 1..Len(r)
               PROVE  ~Reads(r[i]) /\ (r[i].kind = "write" => r[i].val \in Value(r[i].field))
    OBVIOUS
  <2>1. CASE i \in 1..n
    BY <1>2, <1>6, <2>1 DEF Reads
  <2>2. CASE i = n + 1
    BY <1>6, <2>2 DEF Reads
  <2> QED BY <1>8, <2>1, <2>2
<1>10. Typed(q2, copy) /\ ReadingOf(q2, copy)
  BY ONLY <1>6, <1>7, <1>9, Typed(q, copy), ReadingOf(q, copy), Added
<1>11. FrontOf(q2, k, w, fl, m)
  BY ONLY <1>6, <1>7, Typed(q, copy), FrontOf(q, k, w, fl, m), FrontAdded
<1>12. /\ q2 \in Seq(Requests) /\ Len(q) \in Nat
       /\ \A i \in 1..Len(q) : q2[i] = q[i]
       /\ \A i \in 1..(Len(q) + Len(r)) : i > Len(q) => i - Len(q) \in 1..Len(r) /\ q2[i] = r[i - Len(q)]
       /\ \A i \in 1..Len(r) : q2[Len(q) + i] = r[i]
       /\ DOMAIN q = 1..Len(q) /\ DOMAIN q2 = 1..(Len(q) + Len(r))
       /\ q = <<>> <=> Len(q) = 0
       /\ Len(r) = n + 1
  <2>1. r \in Seq(Requests)
    BY <1>6
  <2>2. /\ q2 \in Seq(Requests) /\ Len(q) \in Nat
        /\ \A i \in 1..Len(q) : q2[i] = q[i]
        /\ DOMAIN q = 1..Len(q) /\ DOMAIN q2 = 1..(Len(q) + Len(r))
        /\ q = <<>> <=> Len(q) = 0
    BY ONLY <1>5, <1>7, <2>1, ConcatIs
  <2>3. \A i \in 1..(Len(q) + Len(r)) : i > Len(q) => i - Len(q) \in 1..Len(r) /\ q2[i] = r[i - Len(q)]
    BY ONLY <1>5, <1>7, <2>1, ConcatIs
  <2>4. \A i \in 1..Len(r) : q2[Len(q) + i] = r[i]
    BY ONLY <1>5, <1>7, <2>1, ConcatIs
  <2> QED BY <1>6, <2>2, <2>3, <2>4
<1>13. \A i \in DOMAIN q2 : Live(q2, fl, i) /\ Blocks[q2[i].field] > 1 =>
         /\ i - Len(q) \in 1..n /\ q2[i].field = keys[i - Len(q)] /\ i \in Int
  <2> SUFFICES ASSUME NEW i \in DOMAIN q2, Live(q2, fl, i), Blocks[q2[i].field] > 1
               PROVE  i - Len(q) \in 1..n /\ q2[i].field = keys[i - Len(q)] /\ i \in Int
    OBVIOUS
  <2>1. ~ (i \in 1..Len(q))
    <3>1. i \in 1..Len(q) => Live(q, fl, i) /\ q2[i] = q[i]
      BY <1>12 DEF Live
    <3> QED BY <1>12, <3>1 DEF WritesOf
  <2>2. i \in Int /\ i > Len(q) /\ i - Len(q) \in 1..Len(r) /\ q2[i] = r[i - Len(q)]
    <3>1. i \in 1..(Len(q) + Len(r)) /\ Len(q) \in Nat /\ Len(r) \in Nat
      BY <1>12
    <3>2. i \in Int /\ i > Len(q)
      BY ONLY <2>1, <3>1
    <3>3. i - Len(q) \in 1..Len(r) /\ q2[i] = r[i - Len(q)]
      BY ONLY <1>12, <3>1, <3>2
    <3> QED BY <3>2, <3>3
  <2>3. i - Len(q) # n + 1
    BY <1>6, <2>2 DEF Live
  <2>4. i - Len(q) \in 1..n
    BY <1>8, <2>2, <2>3
  <2> QED BY <1>2, <1>6, <2>2, <2>4
<1>14. \A i \in DOMAIN q2 : Live(q2, fl, i) /\ Blocks[q2[i].field] > 1 => q2[i].field \in fields
  BY <1>2, <1>13
<1>15. \A i, j \in DOMAIN q2 :
         Live(q2, fl, i) /\ Live(q2, fl, j) /\ q2[i].field = q2[j].field /\ Blocks[q2[i].field] > 1 => i = j
  <2> SUFFICES ASSUME NEW i \in DOMAIN q2, NEW j \in DOMAIN q2, Live(q2, fl, i), Live(q2, fl, j),
                      q2[i].field = q2[j].field, Blocks[q2[i].field] > 1
               PROVE  i = j
    OBVIOUS
  <2>1. /\ i - Len(q) \in 1..n /\ j - Len(q) \in 1..n /\ i \in Int /\ j \in Int
        /\ keys[i - Len(q)] = keys[j - Len(q)]
    BY <1>13
  <2>2. Position(keys[i - Len(q)]) \in Nat
    <3>1. keys[i - Len(q)] \in Fields
      BY <1>2, <2>1 DEF AreWrites
    <3> QED BY <3>1, PositionIs
  <2>3. ~ (i - Len(q) < j - Len(q)) /\ ~ (j - Len(q) < i - Len(q))
    <3>1. i - Len(q) < j - Len(q) => Position(keys[i - Len(q)]) < Position(keys[j - Len(q)])
      BY <1>1, <2>1
    <3>2. j - Len(q) < i - Len(q) => Position(keys[j - Len(q)]) < Position(keys[i - Len(q)])
      BY <1>1, <2>1
    <3> QED BY <2>1, <2>2, <3>1, <3>2
  <2> QED BY <1>12, <2>1, <2>3
<1>16. \A f \in fields : \E i \in DOMAIN q2 : Live(q2, fl, i) /\ q2[i].field = f
  <2> TAKE f \in fields
  <2>1. PICK i \in 1..n : keys[i] = f
    BY <1>1
  <2>2. i \in 1..Len(r) /\ r[i].kind = "write" /\ r[i].field = f
    BY ONLY <1>2, <1>3, <1>6, <2>1, i \in 1..n
  <2>3. Len(q) + i \in DOMAIN q2 /\ q2[Len(q) + i] = r[i]
    <3>1. Len(q) + i \in 1..(Len(q) + Len(r))
      BY ONLY <1>3, <1>12, <2>2, i \in 1..n
    <3> QED BY <1>12, <2>2, <3>1
  <2>4. Len(q) + i = 1 => ~fl
    <3>1. Len(q) + i = 1 => q = <<>>
      BY <1>12, <2>1
    <3>2. q = <<>> => ~fl
      BY DEF FrontOf, Ranged
    <3> QED BY <3>1, <3>2
  <2>5. Live(q2, fl, Len(q) + i)
    BY <2>2, <2>3, <2>4 DEF Live
  <2> QED BY <2>2, <2>3, <2>5
<1>17. WritesOf(q2, fl, fields)
  BY <1>14, <1>15, <1>16 DEF WritesOf
<1> QED BY <1>10, <1>11, <1>17 DEF Lengthened

(***************************************************************************)
(* The copies.                                                             *)
(***************************************************************************)

\* A space is asked for, unless it is being read.
Begins(q, copy, q2, copy2) ==
  \/ q2 = q /\ copy2 = copy
  \/ \E s \in Spaces : /\ ~InProcess(s, q)
                       /\ q2 = Append(q, Info(s)) /\ copy2 = [copy EXCEPT ![s] = <<>>]

\* Nothing that was copied becomes untrue when a copy is emptied.
LEMMA Emptied ==
  ASSUME NEW copy \in [Spaces -> Seq(Block)], NEW s \in Spaces, NEW uns, NEW m, NEW untold,
         Agrees(copy, uns, m, untold)
  PROVE  Agrees([copy EXCEPT ![s] = <<>>], uns, m, untold)
<1> DEFINE c == [copy EXCEPT ![s] = <<>>]
<1>1. \A t \in Spaces : c[t] = IF t = s THEN <<>> ELSE copy[t]
  OBVIOUS
<1> SUFFICES Agrees(c, uns, m, untold)
  OBVIOUS
<1> HIDE DEF c
<1>2. ASSUME NEW b \in AllBlocks, Covered(b, c)
      PROVE  Covered(b, copy) /\ InCopy(b, copy) = InCopy(b, c)
  <2>1. SpaceOf[b[1]] \in Spaces /\ Index[b] \in Nat /\ Index[b] >= 1
    BY IndexIs
  <2>2. SpaceOf[b[1]] # s
    BY <1>1, <1>2, <2>1 DEF Covered
  <2>3. c[SpaceOf[b[1]]] = copy[SpaceOf[b[1]]]
    BY <1>1, <2>1, <2>2
  <2> QED BY <1>2, <2>3 DEF Covered, InCopy
<1> QED BY <1>2 DEF Agrees

LEMMA BeginsKeeps ==
  ASSUME NEW q, NEW copy, Typed(q, copy), ReadingOf(q, copy),
         NEW q2, NEW copy2, Begins(q, copy, q2, copy2)
  PROVE  /\ Typed(q2, copy2) /\ ReadingOf(q2, copy2)
         /\ \A uns, m, untold : Agrees(copy, uns, m, untold) => Agrees(copy2, uns, m, untold)
<1>1. CASE q2 = q /\ copy2 = copy
  BY <1>1
<1>2. ASSUME NEW s \in Spaces, ~InProcess(s, q), q2 = Append(q, Info(s)), copy2 = [copy EXCEPT ![s] = <<>>]
      PROVE  /\ Typed(q2, copy2) /\ ReadingOf(q2, copy2)
             /\ \A uns, m, untold : Agrees(copy, uns, m, untold) => Agrees(copy2, uns, m, untold)
  <2>1. q \in Seq(Requests) /\ copy \in [Spaces -> Seq(Block)] /\ \A t \in Spaces : Len(copy[t]) <= Len(Layout[t])
    BY DEF Typed
  <2>2. Info(s) \in Requests /\ Info(s).kind = "info" /\ Info(s).space = s
    BY RequestsAre
  <2>3. /\ q2 \in Seq(Requests) /\ Len(q2) = Len(q) + 1 /\ Len(q) \in Nat
        /\ \A i \in 1..Len(q) : q2[i] = q[i]
        /\ q2[Len(q) + 1] = Info(s)
        /\ DOMAIN q = 1..Len(q) /\ DOMAIN q2 = 1..(Len(q) + 1)
    BY <1>2, <2>1, <2>2, AppendIs
  <2>4. copy2 \in [Spaces -> Seq(Block)] /\ \A t \in Spaces : copy2[t] = IF t = s THEN <<>> ELSE copy[t]
    BY <1>2, <2>1
  <2>5. \A i \in DOMAIN q2 : \/ i \in DOMAIN q /\ q2[i] = q[i]
                             \/ i = Len(q) + 1 /\ q2[i] = Info(s)
    <3> TAKE i \in DOMAIN q2
    <3>1. i \in 1..(Len(q) + 1)
      BY <2>3
    <3>2. i \in 1..Len(q) \/ i = Len(q) + 1
      BY <2>3, <3>1
    <3>3. CASE i \in 1..Len(q)
      BY ONLY <2>3, <3>3
    <3>4. CASE i = Len(q) + 1
      BY ONLY <2>3, <3>4
    <3> QED BY ONLY <3>2, <3>3, <3>4
  <2>6. \A i \in DOMAIN q : Reads(q[i]) => q[i].space # s
    BY <1>2 DEF InProcess, Reads
  <2>7. \A t \in Spaces : Len(copy2[t]) <= Len(Layout[t])
    <3> TAKE t \in Spaces
    <3>1. Len(Layout[t]) \in Nat
      BY IndexIs
    <3> QED BY <2>1, <2>4, <3>1
  <2>8. Typed(q2, copy2)
    BY <2>2, <2>3, <2>4, <2>5, <2>7 DEF Typed
  <2>9. \A i \in DOMAIN q2 : Reads(q2[i]) =>
          /\ q2[i].space \in Spaces
          /\ \/ i \in DOMAIN q /\ q2[i] = q[i] /\ copy2[q2[i].space] = copy[q[i].space]
             \/ q2[i] = Info(s) /\ i = Len(q) + 1
    <3> TAKE i \in DOMAIN q2
    <3> HAVE Reads(q2[i])
    <3>1. q2[i].space \in Spaces
      BY <2>3, RequestIs DEF Reads
    <3>2. CASE i \in DOMAIN q /\ q2[i] = q[i]
      <4>1. q[i].space # s
        BY <2>6, <3>2
      <4>2. q[i].space \in Spaces /\ copy2[q[i].space] = copy[q[i].space]
        BY ONLY <2>4, <3>1, <3>2, <4>1
      <4> QED BY ONLY <3>2, <4>2
    <3> QED BY <2>5, <3>1, <3>2
  <2>10. ReadingOf(q2, copy2)
    <3>1. \A i \in DOMAIN q2 : q2[i].kind = "info" => copy2[q2[i].space] = <<>>
      BY <2>2, <2>4, <2>9 DEF ReadingOf, Reads
    <3>2. \A i \in DOMAIN q2 : q2[i].kind = "read" =>
            /\ q2[i].at = Len(copy2[q2[i].space]) + 1 /\ q2[i].at <= Len(Layout[q2[i].space])
            /\ q2[i].space \notin BadSpaces
      BY <2>2, <2>9 DEF ReadingOf, Reads
    <3>3. \A i, j \in DOMAIN q2 : Reads(q2[i]) /\ Reads(q2[j]) /\ q2[i].space = q2[j].space => i = j
      <4> TAKE i, j \in DOMAIN q2
      <4> HAVE Reads(q2[i]) /\ Reads(q2[j]) /\ q2[i].space = q2[j].space
      <4>1. CASE i \in DOMAIN q /\ j \in DOMAIN q
        BY <2>3, <4>1 DEF ReadingOf
      <4>2. CASE i = Len(q) + 1
        BY <2>2, <2>3, <2>5, <2>6, <4>2
      <4>3. CASE j = Len(q) + 1
        BY <2>2, <2>3, <2>5, <2>6, <4>3
      <4> QED BY <2>5, <4>1, <4>2, <4>3
    <3> QED BY <3>1, <3>2, <3>3 DEF ReadingOf
  <2>11. \A uns, m, untold : Agrees(copy, uns, m, untold) => Agrees(copy2, uns, m, untold)
    BY <1>2, <2>1, Emptied
  <2> QED BY <2>8, <2>10, <2>11
<1> QED BY <1>1, <1>2 DEF Begins

LEMMA BeginsWrites ==
  ASSUME NEW q, NEW copy, Typed(q, copy), NEW q2, NEW copy2, Begins(q, copy, q2, copy2),
         NEW k, NEW w, NEW fl \in BOOLEAN, NEW m, FrontOf(q, k, w, fl, m), NEW fly, WritesOf(q, fl, fly)
  PROVE  /\ FrontOf(q2, k, w, fl, m) /\ WritesOf(q2, fl, fly)
         /\ \/ q2 = q
            \/ q # <<>> /\ q2 # <<>> /\ q2[1] = q[1]
            \/ q = <<>> /\ q2 # <<>> /\ q2[1].kind = "info"
<1>1. CASE q2 = q
  BY <1>1
<1>2. ASSUME NEW s \in Spaces, q2 = Append(q, Info(s))
      PROVE  /\ FrontOf(q2, k, w, fl, m) /\ WritesOf(q2, fl, fly)
             /\ \/ q # <<>> /\ q2 # <<>> /\ q2[1] = q[1]
                \/ q = <<>> /\ q2 # <<>> /\ q2[1].kind = "info"
  <2>1. q \in Seq(Requests) /\ Info(s) \in Requests /\ Info(s).kind = "info"
    BY RequestsAre DEF Typed
  <2> DEFINE r == <<Info(s)>>
  <2>2. q2 = q \o r /\ r \in Seq(Requests) /\ Len(r) = 1 /\ r[1] = Info(s) /\ \A i \in 1..Len(r) : r[i] = Info(s)
    BY <1>2, <2>1, AppendIs
  <2> HIDE DEF r
  <2>3. \A i \in 1..Len(r) : r[i].kind = "write" => Blocks[r[i].field] = 1
    BY <2>1, <2>2
  <2>4. FrontOf(q2, k, w, fl, m)
    BY <2>2, FrontAdded
  <2>5. WritesOf(q2, fl, fly)
    BY <2>2, <2>3, WritesAdded
  <2>6. q2 # <<>> /\ (q = <<>> => q2[1] = Info(s)) /\ (q # <<>> => q2[1] = q[1])
    BY <1>2, <2>1, FirstIs
  <2> QED BY <2>1, <2>4, <2>5, <2>6
<1> QED BY <1>1, <1>2 DEF Begins

(***************************************************************************)
(* What is shown.                                                          *)
(***************************************************************************)

\* The types, in groups.
ValueTypes(m, orig, pend) ==
  /\ m \in [Fields -> AnyValue] /\ orig \in [Fields -> Values] /\ pend \in [Fields -> Values]
  /\ \A f \in Fields : /\ m[f] \in Value(f)
                       /\ orig[f] \in Value(f) \cup {NoValue}
                       /\ pend[f] \in Value(f) \cup {NoValue}
WriteTypes(n, fly, md) == n \in Nat /\ fly \subseteq Fields /\ md \in Modals
ReadTypes(inv, sh, rd, cur, force, uns) ==
  /\ inv \subseteq Spaces \cap BadSpaces /\ sh \in Groups \cup {{}}
  /\ rd \in Seq(Spaces) /\ cur \in Spaces \cup {None} /\ force \in BOOLEAN
  /\ uns \subseteq AllBlocks

Types ==
  /\ Typed(queue, data) /\ ValueTypes(mem, original, pending)
  /\ WriteTypes(outstanding, inFlight, modal)
  /\ ReadTypes(invalid, shown, toRead, current, forceRead, unsure)

LEMMA InvIs == IInv => Types
  BY DEF IInv, Types, TypeOK, Typed, ValueTypes, WriteTypes, ReadTypes

LEMMA InvNext ==
  ASSUME Types', ReadingOf(queue', data'), FrontOf(queue', block', written', failed', mem'),
         WritesOf(queue', failed', inFlight'), Counted', MenuIsIdle',
         Agrees(data', unsure', mem', UntoldOf(queue', block', written')),
         ShownOf(original', unsure', mem', queue', block', written', failed')
  PROVE  IInv'
<1>1. TypeOK'
  BY DEF Types, TypeOK, Typed, ValueTypes, WriteTypes, ReadTypes, FrontOf
<1> QED BY <1>1 DEF IInv

LEMMA LoadedIs ==
  ASSUME NEW copy \in [Spaces -> Seq(Block)], NEW fields
  PROVE  /\ Loaded(fields, copy) \in [Fields -> Values]
         /\ \A f \in Fields : Loaded(fields, copy)[f] \in Value(f) \cup {NoValue}
         /\ \A f \in Fields : Loaded(fields, copy)[f] # NoValue =>
              /\ HasMemory(SpaceOf[f], copy) /\ FieldOf(f, copy) \in Value(f)
              /\ Loaded(fields, copy)[f] = Encode[f][FieldOf(f, copy)]
<1>1. ASSUME NEW f \in Fields, HasMemory(SpaceOf[f], copy)
      PROVE  FieldOf(f, copy) \in Value(f)
  <2>1. \A i \in 1..Blocks[f] : InCopy(<<f, i>>, copy) \in Block
    <3> TAKE i \in 1..Blocks[f]
    <3>1. <<f, i>> \in AllBlocks /\ <<f, i>>[1] = f
      BY BlocksAre
    <3>2. SpaceOf[f] \in Spaces /\ Index[<<f, i>>] \in 1..Len(Layout[SpaceOf[f]])
      BY <3>1, IndexIs
    <3>3. Index[<<f, i>>] \in 1..Len(copy[SpaceOf[f]]) /\ copy[SpaceOf[f]] \in Seq(Block)
      BY <1>1, <3>2 DEF HasMemory
    <3>4. copy[SpaceOf[f]][Index[<<f, i>>]] \in Block
      BY <3>3
    <3> QED BY <3>1, <3>4 DEF InCopy
  <2> QED BY <2>1 DEF FieldOf, Value
<1>2. \A f \in Fields : Loaded(fields, copy)[f] =
        IF f \in fields /\ HasMemory(SpaceOf[f], copy) THEN Encode[f][FieldOf(f, copy)] ELSE NoValue
  BY DEF Loaded
<1>3. \A f \in Fields : Loaded(fields, copy)[f] \in Value(f) \cup {NoValue}
  BY <1>1, <1>2, ValuesAre
<1>4. Loaded(fields, copy) \in [Fields -> Values]
  <2>1. DOMAIN Loaded(fields, copy) = Fields /\ Loaded(fields, copy) = [f \in Fields |-> Loaded(fields, copy)[f]]
    BY DEF Loaded
  <2>2. \A f \in Fields : Loaded(fields, copy)[f] \in Values
    BY <1>3, ValuesAre DEF Values
  <2> QED BY <2>1, <2>2
<1> QED BY <1>1, <1>2, <1>3, <1>4

\* What is copied of a value and agrees is the value.
LEMMA CopyIsTrue ==
  ASSUME NEW copy, NEW uns, NEW m, NEW untold, Agrees(copy, uns, m, untold),
         NEW f \in Fields, HasMemory(SpaceOf[f], copy), m[f] \in Value(f),
         \A b \in uns : b[1] # f, \A b \in untold : b[1] # f
  PROVE  FieldOf(f, copy) = m[f]
<1>1. \A i \in 1..Blocks[f] : InCopy(<<f, i>>, copy) = m[f][i]
  <2> TAKE i \in 1..Blocks[f]
  <2>1. <<f, i>> \in AllBlocks /\ <<f, i>>[1] = f /\ <<f, i>>[2] = i
    BY BlocksAre
  <2>2. <<f, i>> \notin uns /\ <<f, i>> \notin untold
    BY <2>1
  <2>3. Covered(<<f, i>>, copy)
    BY <2>1, IndexIs DEF Covered, HasMemory
  <2> QED BY <2>1, <2>2, <2>3 DEF Agrees
<1>2. m[f] = [i \in 1..Blocks[f] |-> m[f][i]]
  BY DEF Value
<1> QED BY <1>1, <1>2 DEF FieldOf

LEMMA ShownAnew ==
  ASSUME NEW copy \in [Spaces -> Seq(Block)], NEW uns, NEW m, NEW untold, Agrees(copy, uns, m, untold),
         \A f \in Fields : m[f] \in Value(f),
         NEW q, NEW k, NEW w, NEW fl, NEW fields,
         \A f \in Fields : ~UnderwayOf(q, k, w, fl, f) => \A b \in untold : b[1] # f
  PROVE  ShownOf(Loaded(fields, copy), uns, m, q, k, w, fl)
<1> SUFFICES ASSUME NEW f \in Fields, Loaded(fields, copy)[f] # NoValue,
                    ~UnderwayOf(q, k, w, fl, f), \A b \in uns : b[1] # f
             PROVE  Loaded(fields, copy)[f] = Encode[f][m[f]]
  BY DEF ShownOf
<1>1. HasMemory(SpaceOf[f], copy) /\ Loaded(fields, copy)[f] = Encode[f][FieldOf(f, copy)]
  BY LoadedIs
<1>2. FieldOf(f, copy) = m[f]
  BY <1>1, CopyIsTrue
<1> QED BY <1>1, <1>2

LEMMA UntoldIsUnderway ==
  ASSUME NEW q, NEW k, NEW w, NEW fl, NEW m, FrontOf(q, k, w, fl, m)
  PROVE  \A f \in Fields : ~UnderwayOf(q, k, w, fl, f) => \A b \in UntoldOf(q, k, w) : b[1] # f
  BY DEF FrontOf, UntoldOf, UnderwayOf

\* What is found to be as the editor thinks is not unsure any more.
LEMMA StillIs ==
  ASSUME NEW copy, NEW untold, Agrees(copy, unsure, mem, untold)
  PROVE  Agrees(copy, StillUnsure(copy), mem, untold) /\ StillUnsure(copy) \subseteq unsure
  BY DEF Agrees, StillUnsure

LEMMA NextReads ==
  ASSUME NEW segments \in Seq(Spaces), NEW force, NEW q, NEW copy, NEW bad,
         ReadNextSegment(segments, force, q, copy, bad)
  PROVE  /\ toRead' \in Seq(Spaces) /\ current' \in Spaces \cup {None}
         /\ Begins(q, copy, queue', data')
<1> DEFINE needed == {i \in DOMAIN segments : segments[i] \notin bad /\ (force \/ ~HasMemory(segments[i], copy))}
<1>1. CASE toRead' = <<>> /\ current' = None /\ queue' = q /\ data' = copy
  BY <1>1 DEF Begins
<1>2. ASSUME NEW i \in DOMAIN segments,
             toRead' = SubSeq(segments, i + 1, Len(segments)) /\ current' = segments[i],
             IF InProcess(segments[i], q)
              THEN queue' = q /\ data' = copy
              ELSE /\ queue' = Append(q, Info(segments[i]))
                   /\ data' = [copy EXCEPT ![segments[i]] = <<>>]
      PROVE  /\ toRead' \in Seq(Spaces) /\ current' \in Spaces \cup {None}
             /\ Begins(q, copy, queue', data')
  <2>1. i \in 1..Len(segments) /\ Len(segments) \in Nat /\ segments[i] \in Spaces
    OBVIOUS
  <2>2. toRead' \in Seq(Spaces)
    <3>1. \A j \in (i + 1)..Len(segments) : segments[j] \in Spaces
      BY <2>1
    <3> QED BY <1>2, <2>1, <3>1, SubSeqProperties
  <2>3. Begins(q, copy, queue', data')
    BY <1>2, <2>1 DEF Begins
  <2> QED BY <1>2, <2>1, <2>2, <2>3
<1> QED BY <1>1, <1>2 DEF ReadNextSegment

\* The editor, or the event graph, asks for a space while the front stays as it is.
LEMMA BeginKeeps ==
  ASSUME IInv, Begins(queue, data, queue', data'), UNCHANGED <<block, written, failed, mem, inFlight>>
  PROVE  /\ Typed(queue', data') /\ ReadingOf(queue', data')
         /\ FrontOf(queue', block', written', failed', mem') /\ WritesOf(queue', failed', inFlight')
         /\ UntoldOf(queue', block', written') = UntoldOf(queue, block, written)
         /\ \A f : UnderwayOf(queue', block', written', failed', f) <=> UnderwayOf(queue, block, written, failed, f)
         /\ \A uns, m, untold : Agrees(data, uns, m, untold) => Agrees(data', uns, m, untold)
<1>1. Typed(queue, data) /\ ReadingOf(queue, data) /\ FrontOf(queue, block, written, failed, mem)
      /\ WritesOf(queue, failed, inFlight) /\ failed \in BOOLEAN
  BY InvIs DEF IInv, Types, FrontOf
<1>2. /\ Typed(queue', data') /\ ReadingOf(queue', data')
      /\ \A uns, m, untold : Agrees(data, uns, m, untold) => Agrees(data', uns, m, untold)
  BY ONLY <1>1, Begins(queue, data, queue', data'), BeginsKeeps
<1>3. /\ FrontOf(queue', block, written, failed, mem) /\ WritesOf(queue', failed, inFlight)
      /\ \/ queue' = queue
         \/ queue # <<>> /\ queue' # <<>> /\ queue'[1] = queue[1]
         \/ queue = <<>> /\ queue' # <<>> /\ queue'[1].kind = "info"
  BY ONLY <1>1, Begins(queue, data, queue', data'), BeginsWrites
<1>4. queue = <<>> => ~written
  BY <1>1 DEF FrontOf
<1>5. UntoldOf(queue', block', written') = UntoldOf(queue, block, written)
  BY <1>3, <1>4 DEF UntoldOf
<1>6. \A f : UnderwayOf(queue', block', written', failed', f) <=> UnderwayOf(queue, block, written, failed, f)
  BY <1>3 DEF UnderwayOf
<1> QED BY <1>2, <1>3, <1>5, <1>6

(***************************************************************************)
(* The steps of the user.                                                  *)
(***************************************************************************)

\* What is shown is as true as before, when only the underway writes are the same.
LEMMA ShownKept ==
  ASSUME NEW orig, NEW uns, NEW m, NEW q, NEW k, NEW w, NEW fl, ShownOf(orig, uns, m, q, k, w, fl),
         NEW q2, NEW k2, NEW w2, NEW fl2,
         \A f \in Fields : UnderwayOf(q2, k2, w2, fl2, f) <=> UnderwayOf(q, k, w, fl, f)
  PROVE  ShownOf(orig, uns, m, q2, k2, w2, fl2)
  BY DEF ShownOf

\* Nothing is shown of no value.
LEMMA ShownNothing ==
  ASSUME NEW uns, NEW m, NEW q, NEW k, NEW w, NEW fl
  PROVE  ShownOf(Nothing, uns, m, q, k, w, fl)
  BY DEF ShownOf, Nothing

LEMMA NothingIs == Nothing \in [Fields -> Values] /\ \A f \in Fields : Nothing[f] = NoValue
  BY DEF Nothing, Values

LEMMA SelectionKeeps ==
  ASSUME IInv, NEW g \in Groups, OnTreeSelectionChanged(g)
  PROVE  IInv'
<1> USE DEF connVars, memoryVars, writeVars, readVars
<1>1. /\ shown' = g /\ original' = Loaded(g, data)
      /\ UNCHANGED <<connVars, queue, memoryVars, pending, writeVars, readVars, modal, unsure>>
  BY DEF OnTreeSelectionChanged
<1>2. Types /\ data \in [Spaces -> Seq(Block)] /\ \A f \in Fields : mem[f] \in Value(f)
  BY InvIs DEF Types, Typed, ValueTypes
<1>3. Types'
  BY <1>1, <1>2, LoadedIs DEF Types, ValueTypes, WriteTypes, ReadTypes
<1>4. ShownOf(Loaded(g, data), unsure, mem, queue, block, written, failed)
  BY <1>2, ShownAnew, UntoldIsUnderway DEF IInv
<1> QED BY <1>1, <1>3, <1>4, InvNext DEF IInv, Counted, MenuIsIdle

LEMMA EditKeeps ==
  ASSUME IInv, NEW f \in Fields, NEW v \in Inputs[f] \cup {NoValue}, FieldEdited(f, v)
  PROVE  IInv'
<1> USE DEF connVars, memoryVars, shownVars, writeVars, readVars
<1>1. /\ pending' = [pending EXCEPT ![f] = ChangeOf(f, v)]
      /\ UNCHANGED <<connVars, queue, memoryVars, shownVars, writeVars, readVars, modal, unsure>>
  BY DEF FieldEdited
<1>2. Types
  BY InvIs
<1>3. ChangeOf(f, v) \in Value(f) \cup {NoValue} /\ ChangeOf(f, v) \in Values
  BY ValuesAre DEF ChangeOf, Values
<1>4. Types'
  <2>1. ValueTypes(mem', original', pending')
    BY <1>1, <1>2, <1>3 DEF Types, ValueTypes
  <2> QED BY <1>1, <1>2, <2>1 DEF Types
<1> QED BY <1>1, <1>4, InvNext DEF IInv, Counted, MenuIsIdle

\* readConfigurationMemory.
LEMMA ReadConfigurationIs ==
  ASSUME IInv, NEW force \in BOOLEAN, ReadConfigurationMemory(force)
  PROVE  /\ Begins(queue, data, queue', data')
         /\ toRead' \in Seq(Spaces) /\ current' \in Spaces \cup {None} /\ forceRead' \in BOOLEAN
<1>1. CASE current # None
  BY <1>1, InvIs DEF ReadConfigurationMemory, readVars, Begins, Types, ReadTypes
<1>2. CASE current = None
  <2>1. forceRead' = force /\ ReadNextSegment(Segments, force, queue, data, invalid)
    BY <1>2 DEF ReadConfigurationMemory
  <2> QED BY <2>1, CdiIs, NextReads
<1> QED BY <1>1, <1>2

LEMMA CDIReadKeeps ==
  ASSUME IInv, NodeCDIRead
  PROVE  IInv'
<1> USE DEF connVars, memoryVars, shownVars, writeVars
<1>1. /\ shown' = {} /\ original' = Nothing /\ pending' = Nothing
      /\ modal' = IF modal = Question THEN Question ELSE NoModal
      /\ ReadConfigurationMemory(FALSE)
      /\ UNCHANGED <<connVars, invalid, writeVars, unsure>>
  BY DEF NodeCDIRead
<1>2. Types
  BY InvIs
<1>3. /\ Begins(queue, data, queue', data')
      /\ toRead' \in Seq(Spaces) /\ current' \in Spaces \cup {None} /\ forceRead' \in BOOLEAN
  BY <1>1, ReadConfigurationIs
<1>4. /\ Typed(queue', data') /\ ReadingOf(queue', data')
      /\ FrontOf(queue', block', written', failed', mem') /\ WritesOf(queue', failed', inFlight')
      /\ UntoldOf(queue', block', written') = UntoldOf(queue, block, written)
      /\ \A uns, m, untold : Agrees(data, uns, m, untold) => Agrees(data', uns, m, untold)
  BY <1>1, <1>3, BeginKeeps
<1>5. Types'
  <2>1. ValueTypes(mem', original', pending')
    BY <1>1, <1>2, NothingIs DEF Types, ValueTypes
  <2>2. WriteTypes(outstanding', inFlight', modal')
    BY <1>1, <1>2 DEF Types, WriteTypes, Modals
  <2>3. ReadTypes(invalid', shown', toRead', current', forceRead', unsure')
    BY <1>1, <1>2, <1>3 DEF Types, ReadTypes
  <2> QED BY <1>4, <2>1, <2>2, <2>3 DEF Types
<1>6. Counted' /\ MenuIsIdle'
  BY <1>1 DEF IInv, Counted, MenuIsIdle, Question, NoModal
<1>7. Agrees(data', unsure', mem', UntoldOf(queue', block', written'))
  BY <1>1, <1>4 DEF IInv
<1>8. ShownOf(original', unsure', mem', queue', block', written', failed')
  BY <1>1, ShownNothing
<1> QED BY <1>4, <1>5, <1>6, <1>7, <1>8, InvNext

LEMMA ReadAllKeeps ==
  ASSUME IInv, ReadAll
  PROVE  IInv'
<1> USE DEF connVars, memoryVars, shownVars, writeVars
<1>1. /\ pending' = Nothing
      /\ ReadConfigurationMemory(TRUE)
      /\ original' = Loaded(shown, data') /\ unsure' = StillUnsure(data')
      /\ modal' = NoModal
      /\ UNCHANGED <<connVars, invalid, shown, writeVars>>
  BY DEF ReadAll, RefreshFieldValues
<1>2. Types
  BY InvIs
<1>3. /\ Begins(queue, data, queue', data')
      /\ toRead' \in Seq(Spaces) /\ current' \in Spaces \cup {None} /\ forceRead' \in BOOLEAN
  BY <1>1, ReadConfigurationIs
<1>4. /\ Typed(queue', data') /\ ReadingOf(queue', data')
      /\ FrontOf(queue', block', written', failed', mem') /\ WritesOf(queue', failed', inFlight')
      /\ UntoldOf(queue', block', written') = UntoldOf(queue, block, written)
      /\ \A uns, m, untold : Agrees(data, uns, m, untold) => Agrees(data', uns, m, untold)
  BY <1>1, <1>3, BeginKeeps
<1>0. data' \in [Spaces -> Seq(Block)] /\ \A f \in Fields : mem'[f] \in Value(f)
  BY <1>1, <1>2, <1>4 DEF Typed, Types, ValueTypes
<1>7. /\ Agrees(data', unsure', mem', UntoldOf(queue', block', written'))
      /\ unsure' \subseteq unsure
  <2>1. Agrees(data', unsure, mem, UntoldOf(queue, block, written))
    BY <1>4 DEF IInv
  <2> QED BY <1>1, <1>4, <2>1, StillIs
<1>5. Types'
  <2>1. ValueTypes(mem', original', pending')
    BY <1>0, <1>1, <1>2, NothingIs, LoadedIs DEF Types, ValueTypes
  <2>2. WriteTypes(outstanding', inFlight', modal')
    BY <1>1, <1>2 DEF Types, WriteTypes, Modals
  <2>3. ReadTypes(invalid', shown', toRead', current', forceRead', unsure')
    BY <1>1, <1>2, <1>3, <1>7 DEF Types, ReadTypes
  <2> QED BY <1>4, <2>1, <2>2, <2>3 DEF Types
<1>6. Counted' /\ MenuIsIdle'
  BY <1>1 DEF IInv, Counted, MenuIsIdle, NoModal
<1>8. ShownOf(original', unsure', mem', queue', block', written', failed')
  <2>1. \A f \in Fields : ~UnderwayOf(queue', block', written', failed', f) =>
          \A b \in UntoldOf(queue', block', written') : b[1] # f
    BY <1>4, UntoldIsUnderway
  <2> QED BY ONLY <1>0, <1>1, <1>7, <2>1, ShownAnew
<1> QED BY <1>4, <1>5, <1>6, <1>7, <1>8, InvNext

\* A menu or the question is opened, or closed without anything else.
LEMMA ModalKeeps ==
  ASSUME IInv, modal' \in Modals, modal'.open = "menu" => outstanding = 0,
         UNCHANGED <<connVars, queue, memoryVars, shownVars, pending, writeVars, readVars, unsure>>
  PROVE  IInv'
<1> USE DEF connVars, memoryVars, shownVars, writeVars, readVars
<1>1. Types'
  <2>1. Types
    BY InvIs
  <2> QED BY <2>1 DEF Types, WriteTypes
<1> QED BY <1>1, InvNext DEF IInv, Counted, MenuIsIdle

LEMMA ModalsAre ==
  /\ Question \in Modals /\ NoModal \in Modals
  /\ Question.open # "menu" /\ NoModal.open # "menu"
  /\ \A f \in Fields : \A w \in BOOLEAN : Menu(f, w) \in Modals
  BY DEF Modals, Question, NoModal, Menu

LEMMA ReadButtonKeeps ==
  ASSUME IInv, OnReadAllButtonClicked
  PROVE  IInv'
<1>1. CASE ReadAll
  BY <1>1, ReadAllKeeps
<1>2. CASE modal' = Question /\ UNCHANGED <<connVars, queue, memoryVars, shownVars, pending, writeVars, readVars, unsure>>
  BY <1>2, ModalsAre, ModalKeeps
<1> QED BY <1>1, <1>2 DEF OnReadAllButtonClicked

LEMMA QuestionKeeps ==
  ASSUME IInv, AnswerQuestion
  PROVE  IInv'
<1>1. CASE ReadAll
  BY <1>1, ReadAllKeeps
<1>2. CASE modal' = NoModal /\ UNCHANGED <<connVars, queue, memoryVars, shownVars, pending, writeVars, readVars, unsure>>
  BY <1>2, ModalsAre, ModalKeeps
<1> QED BY <1>1, <1>2 DEF AnswerQuestion

LEMMA ShowMenuKeeps ==
  ASSUME IInv, NEW f \in Fields, ShowFieldContextMenu(f)
  PROVE  IInv'
<1>1. /\ modal' = Menu(f, pending[f] # NoValue) /\ ~Busy
      /\ UNCHANGED <<connVars, queue, memoryVars, shownVars, pending, writeVars, readVars, unsure>>
  BY DEF ShowFieldContextMenu
<1>2. modal' \in Modals
  <2>1. (pending[f] # NoValue) \in BOOLEAN
    OBVIOUS
  <2> QED BY <1>1, <2>1, ModalsAre
<1>3. outstanding = 0
  BY <1>1, InvIs DEF Busy, Types, WriteTypes
<1> QED BY <1>1, <1>2, <1>3, ModalKeeps

\* Nothing is in flight while nothing is outstanding.
LEMMA NoneInFlight ==
  ASSUME IInv, outstanding = 0
  PROVE  inFlight = {}
  BY FS_EmptySet DEF IInv, Counted

LEMMA WritingKeeps ==
  ASSUME IInv, outstanding = 0, NEW fields, fields \subseteq Changed, WriteChanges(fields),
         UNCHANGED <<connVars, memoryVars, shownVars, pending, readVars, unsure>>,
         modal' \in Modals, modal'.open # "menu"
  PROVE  IInv'
<1> USE DEF connVars, memoryVars, shownVars, readVars
<1>1. inFlight = {} /\ Types
  BY NoneInFlight, InvIs
<1>2. fields \subseteq Fields /\ \A f \in fields : pending[f] \in Value(f)
  BY <1>1 DEF Changed, Types, ValueTypes
<1>3. IsFiniteSet(fields) /\ Cardinality(fields) \in Nat
  BY <1>2, CdiIs, FS_Subset, FS_CardinalityType
<1>4. outstanding' = Cardinality(fields) /\ inFlight' = fields
  BY <1>1, <1>3 DEF WriteChanges
<1>5. PICK keys \in InOrder(fields) :
        queue' = queue \o [i \in 1..Cardinality(fields) |-> Write(keys[i], pending[keys[i]])] \o <<Update>>
  BY DEF WriteChanges
<1> DEFINE n == Cardinality(fields)
           p == [i \in 1..n |-> Write(keys[i], pending[keys[i]])]
<1>20. n \in Nat /\ n = Cardinality(fields) /\ queue' = queue \o p \o <<Update>>
       /\ \A i \in 1..n : p[i] = Write(keys[i], pending[keys[i]])
  BY <1>3, <1>5
<1>21. p \in Seq(Requests) /\ Len(p) = n
  <2>1. \A i \in 1..n : p[i] \in Requests
    BY <1>2, ValuesAre, RequestsAre DEF InOrder
  <2>2. p \in [1..n -> Requests]
    BY <2>1
  <2> HIDE DEF p
  <2> QED BY <1>20, <2>2, SeqIs
<1>22. AreWrites(p, n, fields, pending)
  BY <1>2, <1>20, <1>21 DEF AreWrites
<1> HIDE DEF n, p
<1>6. /\ Typed(queue, data) /\ ReadingOf(queue, data) /\ FrontOf(queue, block, written, failed, mem)
      /\ WritesOf(queue, failed, {}) /\ failed \in BOOLEAN /\ queue \in Seq(Requests)
  BY <1>1 DEF IInv, Types, FrontOf, Typed
<1>7. /\ Typed(queue', data) /\ ReadingOf(queue', data) /\ FrontOf(queue', block, written, failed, mem)
      /\ WritesOf(queue', failed, fields)
  <2>1. Lengthened(queue', data, block, written, failed, mem, fields)
    BY ONLY <1>6, <1>20, <1>22, ChangesAdded
  <2> QED BY ONLY <2>1 DEF Lengthened
<1>8. queue # <<>> => queue' # <<>> /\ queue'[1] = queue[1]
  <2> HAVE queue # <<>>
  <2>2. queue \o p \in Seq(Requests) /\ (queue \o p)[1] = queue[1] /\ queue \o p # <<>>
    BY <1>6, <1>21
  <2>3. Append(queue \o p, Update)[1] = (queue \o p)[1] /\ Append(queue \o p, Update) # <<>>
    BY <2>2, RequestsAre, FirstIs
  <2>4. Append(queue \o p, Update) = (queue \o p) \o <<Update>>
    BY <2>2, RequestsAre, AppendIs
  <2> QED BY <1>20, <2>2, <2>3, <2>4
<1>9. queue = <<>> => ~written /\ block = 1
  BY <1>6 DEF FrontOf, Ranged
<1>10. UntoldOf(queue', block', written') = UntoldOf(queue, block, written)
  BY <1>8, <1>9 DEF UntoldOf
<1>11. \A f \in Fields : UnderwayOf(queue', block', written', failed', f) <=> UnderwayOf(queue, block, written, failed, f)
  BY <1>8, <1>9 DEF UnderwayOf
<1>12. Types'
  <2>1. WriteTypes(outstanding', inFlight', modal')
    BY <1>2, <1>3, <1>4 DEF WriteTypes
  <2> QED BY <1>1, <1>7, <2>1 DEF Types
<1>13. Counted' /\ MenuIsIdle'
  BY <1>3, <1>4 DEF Counted, MenuIsIdle
<1>14. ShownOf(original', unsure', mem', queue', block', written', failed')
  BY <1>11, ShownKept DEF IInv
<1>15. /\ ReadingOf(queue', data') /\ FrontOf(queue', block', written', failed', mem')
       /\ WritesOf(queue', failed', inFlight')
  BY <1>4, <1>7
<1>16. Agrees(data', unsure', mem', UntoldOf(queue', block', written'))
  BY <1>10 DEF IInv
<1> QED BY <1>12, <1>13, <1>14, <1>15, <1>16, InvNext

LEMMA WriteButtonKeeps ==
  ASSUME IInv, OnWriteButtonClicked
  PROVE  IInv'
<1>1. /\ modal = NoModal /\ ~Busy /\ WriteChanges(Changed) /\ modal' = modal
      /\ UNCHANGED <<connVars, memoryVars, shownVars, pending, readVars, unsure>>
  BY DEF OnWriteButtonClicked
<1>2. outstanding = 0
  BY <1>1, InvIs DEF Busy, Types, WriteTypes
<1>3. modal' \in Modals /\ modal'.open # "menu"
  BY <1>1, ModalsAre
<1> QED BY <1>1, <1>2, <1>3, WritingKeeps

\* Requests of ranges that have one block, or are read, are added.
LEMMA RangeAdded ==
  ASSUME IInv, NEW r \in Requests, r.kind \in {"write", "range"},
         r.kind = "write" => r.val \in Value(r.field) /\ Blocks[r.field] = 1,
         queue' = Append(queue, r),
         UNCHANGED <<connVars, memoryVars, shownVars, pending, writeVars, readVars, unsure>>,
         modal' \in Modals, modal'.open # "menu" \/ modal' = modal
  PROVE  IInv'
<1> USE DEF connVars, memoryVars, shownVars, writeVars, readVars
<1>1. Types /\ Typed(queue, data) /\ queue \in Seq(Requests) /\ ReadingOf(queue, data)
      /\ FrontOf(queue, block, written, failed, mem)
      /\ WritesOf(queue, failed, inFlight) /\ failed \in BOOLEAN
  BY InvIs DEF IInv, Types, FrontOf, Typed
<1> DEFINE t == <<r>>
<1>2. queue' = queue \o t /\ t \in Seq(Requests) /\ Len(t) = 1 /\ t[1] = r /\ \A i \in 1..Len(t) : t[i] = r
  BY <1>1, AppendIs
<1> HIDE DEF t
<1>3. /\ \A i \in 1..Len(t) : ~Reads(t[i])
      /\ \A i \in 1..Len(t) : t[i].kind = "write" => t[i].val \in Value(t[i].field)
      /\ \A i \in 1..Len(t) : t[i].kind = "write" => Blocks[t[i].field] = 1
  BY <1>2 DEF Reads
<1>4. Typed(queue', data) /\ ReadingOf(queue', data)
  BY ONLY <1>1, <1>2, <1>3, Added
<1>5. FrontOf(queue', block, written, failed, mem)
  BY ONLY <1>1, <1>2, FrontAdded
<1>6. WritesOf(queue', failed, inFlight)
  BY ONLY <1>1, <1>2, <1>3, WritesAdded
<1>7. queue' # <<>> /\ (queue # <<>> => queue'[1] = queue[1])
  BY <1>1, FirstIs
<1>8. queue = <<>> => ~written /\ block = 1
  BY <1>1 DEF FrontOf, Ranged
<1>9. UntoldOf(queue', block', written') = UntoldOf(queue, block, written)
  BY <1>7, <1>8 DEF UntoldOf
<1>10. \A f \in Fields : UnderwayOf(queue', block', written', failed', f) <=> UnderwayOf(queue, block, written, failed, f)
  BY <1>7, <1>8 DEF UnderwayOf
<1>11. Types'
  BY <1>1, <1>4 DEF Types, WriteTypes
<1>12. Counted' /\ MenuIsIdle'
  BY DEF IInv, Counted, MenuIsIdle
<1>13. ShownOf(original', unsure', mem', queue', block', written', failed')
  BY <1>10, ShownKept DEF IInv
<1>14. Agrees(data', unsure', mem', UntoldOf(queue', block', written'))
  BY <1>9 DEF IInv
<1> QED BY <1>4, <1>5, <1>6, <1>11, <1>12, <1>13, <1>14, InvNext

LEMMA MenuKeeps ==
  ASSUME IInv, ChooseFromMenu
  PROVE  IInv'
<1>0. /\ modal.open = "menu" /\ modal' = NoModal
      /\ UNCHANGED <<connVars, memoryVars, shownVars, pending, readVars, unsure>>
  BY DEF ChooseFromMenu
<1>1. modal' \in Modals /\ modal'.open # "menu"
  BY <1>0, ModalsAre
<1>2. modal.field \in Fields /\ outstanding = 0
  <2>1. modal \in Modals
    BY InvIs DEF Types, WriteTypes
  <2> QED BY <1>0, <2>1 DEF Modals, Question, NoModal, IInv, MenuIsIdle
<1>3. CASE queue' = Append(queue, ReadRange(modal.field)) /\ UNCHANGED writeVars
  BY <1>0, <1>1, <1>2, <1>3, RequestsAre, RangeAdded
<1>4. CASE WriteChanges({modal.field} \cap Changed)
  <2>1. {modal.field} \cap Changed \subseteq Changed
    OBVIOUS
  <2> QED BY <1>0, <1>1, <1>2, <1>4, <2>1, WritingKeeps
<1>5. CASE UNCHANGED <<queue, writeVars>>
  BY <1>0, <1>1, <1>5, ModalKeeps
<1> QED BY <1>3, <1>4, <1>5 DEF ChooseFromMenu

LEMMA GraphWritesKeeps ==
  ASSUME IInv, NEW f \in GraphFields, NEW v \in Value(f), GraphWrites(f, v)
  PROVE  IInv'
<1>1. /\ queue' = Append(queue, Write(f, v)) /\ modal' = modal
      /\ UNCHANGED <<connVars, memoryVars, shownVars, pending, writeVars, readVars, unsure>>
  BY DEF GraphWrites
<1>2. f \in Fields /\ Blocks[f] = 1
  BY CdiIs
<1>3. Write(f, v) \in Requests /\ Write(f, v).kind = "write" /\ Write(f, v).field = f /\ Write(f, v).val = v
  BY <1>2, ValuesAre, RequestsAre
<1>4. modal' \in Modals
  BY <1>1, InvIs DEF Types, WriteTypes
<1> QED BY <1>1, <1>2, <1>3, <1>4, RangeAdded

LEMMA GraphReadsKeeps ==
  ASSUME IInv, NEW s \in Spaces, GraphReadsAll(s)
  PROVE  IInv'
<1> USE DEF connVars, shownVars, writeVars, readVars
<1>1. /\ ~InProcess(s, queue)
      /\ queue' = Append(queue, Info(s)) /\ data' = [data EXCEPT ![s] = <<>>]
      /\ UNCHANGED <<connVars, invalid, shownVars, pending, writeVars, readVars, modal, unsure>>
  BY DEF GraphReadsAll
<1>2. Begins(queue, data, queue', data')
  BY <1>1 DEF Begins
<1>3. /\ Typed(queue', data') /\ ReadingOf(queue', data')
      /\ FrontOf(queue', block', written', failed', mem') /\ WritesOf(queue', failed', inFlight')
      /\ UntoldOf(queue', block', written') = UntoldOf(queue, block, written)
      /\ \A f : UnderwayOf(queue', block', written', failed', f) <=> UnderwayOf(queue, block, written, failed, f)
      /\ \A uns, m, untold : Agrees(data, uns, m, untold) => Agrees(data', uns, m, untold)
  BY <1>1, <1>2, BeginKeeps
<1>4. Types'
  <2>1. Types
    BY InvIs
  <2> QED BY <1>1, <1>3, <2>1 DEF Types
<1>5. Counted' /\ MenuIsIdle'
  BY <1>1 DEF IInv, Counted, MenuIsIdle
<1>6. ShownOf(original', unsure', mem', queue', block', written', failed')
  BY <1>1, <1>3, ShownKept DEF IInv
<1>7. Agrees(data', unsure', mem', UntoldOf(queue', block', written'))
  BY <1>1, <1>3 DEF IInv
<1> QED BY <1>3, <1>4, <1>5, <1>6, <1>7, InvNext

(***************************************************************************)
(* The steps of the node.                                                  *)
(***************************************************************************)

LEMMA NodeKeeps ==
  ASSUME IInv, NodeWrites
  PROVE  IInv'
<1> USE DEF memoryVars, shownVars, writeVars, readVars
<1> DEFINE r == queue[1]
<1>1. Types /\ queue \in Seq(Requests) /\ FrontOf(queue, block, written, failed, mem)
  BY InvIs DEF IInv, Types, Typed
<1>2. /\ queue # <<>> /\ ~written /\ Head(queue) = r /\ r \in Requests
  BY <1>1, TailIs DEF NodeWrites
<1>3. /\ r.kind = "write" /\ mem' = [mem EXCEPT ![r.field][block] = r.val[block]] /\ written' = TRUE
      /\ UNCHANGED <<queue, block, failed, memoryVars, shownVars, pending, writeVars, readVars, modal, unsure>>
  BY <1>2 DEF NodeWrites
<1>4. r.field \in Fields /\ r.val \in Value(r.field) /\ block \in 1..Blocks[r.field]
  <2>1. r.field \in Fields
    BY <1>2, <1>3, RequestIs
  <2>2. 1 \in DOMAIN queue /\ r.val \in Value(r.field)
    BY <1>1, <1>2, <1>3, TailIs DEF Types, Typed
  <2>3. block \in Nat \ {0} /\ block <= Blocks[r.field]
    BY <1>1, <1>2, <1>3 DEF FrontOf, Ranged
  <2> QED BY <2>1, <2>2, <2>3, CdiIs
<1> HIDE DEF r
<1>5. /\ mem \in [Fields -> AnyValue] /\ \A f \in Fields : mem[f] \in Value(f)
  BY <1>1 DEF Types, ValueTypes
<1>6. /\ \A f \in Fields : f # r.field => mem'[f] = mem[f]
      /\ mem'[r.field] = [mem[r.field] EXCEPT ![block] = r.val[block]]
      /\ DOMAIN mem' = Fields /\ mem' = [f \in Fields |-> mem'[f]]
  BY <1>3, <1>4, <1>5
<1>7. mem'[r.field] \in Value(r.field) /\ mem'[r.field][block] = r.val[block]
      /\ \A i \in 1..Blocks[r.field] : i # block => mem'[r.field][i] = mem[r.field][i]
  <2>1. mem[r.field] \in [1..Blocks[r.field] -> Block] /\ r.val[block] \in Block
    BY <1>4, <1>5, ValuesAre DEF Value
  <2> QED BY <1>4, <1>6, <2>1 DEF Value
<1>8. mem' \in [Fields -> AnyValue] /\ \A f \in Fields : mem'[f] \in Value(f)
  <2>1. \A f \in Fields : mem'[f] \in Value(f)
    BY <1>5, <1>6, <1>7
  <2> QED BY <1>6, <2>1, ValuesAre
<1>9. Types'
  <2>1. ValueTypes(mem', original', pending')
    BY <1>1, <1>3, <1>8 DEF Types, ValueTypes
  <2> QED BY <1>1, <1>3, <2>1 DEF Types
<1>10. FrontOf(queue', block', written', failed', mem')
  BY <1>1, <1>2, <1>3, <1>7 DEF FrontOf, r
<1>11. Agrees(data', unsure', mem', UntoldOf(queue', block', written'))
  <2>1. UntoldOf(queue', block', written') = {<<r.field, block>>} /\ UntoldOf(queue, block, written) = {}
    BY <1>2, <1>3 DEF UntoldOf, r
  <2>2. ASSUME NEW b \in AllBlocks, b # <<r.field, block>>
        PROVE  mem'[b[1]][b[2]] = mem[b[1]][b[2]]
    <3>1. b[1] \in Fields /\ b[2] \in 1..Blocks[b[1]] /\ b = <<b[1], b[2]>>
      BY BlocksAre
    <3>2. b[1] # r.field \/ b[2] # block
      BY <2>2, <3>1
    <3> QED BY <1>6, <1>7, <3>1, <3>2
  <2> QED BY <1>3, <2>1, <2>2 DEF IInv, Agrees
<1>12. ShownOf(original', unsure', mem', queue', block', written', failed')
  <2>1. \A f \in Fields : ~UnderwayOf(queue', block', written', failed', f) =>
          f # r.field /\ ~UnderwayOf(queue, block, written, failed, f)
    BY <1>2, <1>3 DEF UnderwayOf, r
  <2> QED BY <1>3, <1>6, <2>1 DEF IInv, ShownOf
<1>13. Counted' /\ MenuIsIdle'
  BY <1>3 DEF IInv, Counted, MenuIsIdle
<1> QED BY <1>3, <1>9, <1>10, <1>11, <1>12, <1>13, InvNext DEF IInv

(***************************************************************************)
(* The answers.                                                            *)
(***************************************************************************)

\* An answer to a request for a space, or to an update complete, after which q and
\* copy are there before the editor goes on.
LEMMA SpaceAnswered ==
  ASSUME IInv, queue # <<>>, queue[1].kind \notin {"write", "range"},
         NEW q, NEW copy, Typed(q, copy), ReadingOf(q, copy),
         FrontOf(q, 1, FALSE, FALSE, mem), WritesOf(q, FALSE, inFlight),
         Agrees(copy, unsure, mem, {}),
         Begins(q, copy, queue', data'), written' = FALSE,
         UNCHANGED <<mem, block, failed, shown, forceRead, modal, pending, writeVars>>,
         toRead' \in Seq(Spaces), current' \in Spaces \cup {None}, invalid' \subseteq Spaces \cap BadSpaces,
         \/ UNCHANGED <<original, unsure>>
         \/ \E c \in {copy, data'} : original' = Loaded(shown, c) /\ unsure' = StillUnsure(c)
  PROVE  IInv'
<1> USE DEF writeVars
<1>1. ~written /\ block = 1 /\ failed = FALSE /\ Types
  BY InvIs DEF IInv, FrontOf, Ranged
<1>2. /\ Typed(queue', data') /\ ReadingOf(queue', data')
      /\ \A uns, m, untold : Agrees(copy, uns, m, untold) => Agrees(data', uns, m, untold)
  BY ONLY Typed(q, copy), ReadingOf(q, copy), Begins(q, copy, queue', data'), BeginsKeeps
<1>3. FrontOf(queue', 1, FALSE, FALSE, mem) /\ WritesOf(queue', FALSE, inFlight)
  <2>1. FALSE \in BOOLEAN
    OBVIOUS
  <2> QED BY ONLY Typed(q, copy), Begins(q, copy, queue', data'), FrontOf(q, 1, FALSE, FALSE, mem),
                  WritesOf(q, FALSE, inFlight), <2>1, BeginsWrites
<1>4. copy \in [Spaces -> Seq(Block)] /\ data' \in [Spaces -> Seq(Block)] /\ \A f \in Fields : mem[f] \in Value(f)
  BY <1>1, <1>2 DEF Typed, Types, ValueTypes
<1>5. Agrees(data', unsure, mem, {})
  BY <1>2
<1>6. UntoldOf(queue', block', written') = {} /\ UntoldOf(queue, block, written) = {}
  BY <1>1 DEF UntoldOf
<1>7. /\ Agrees(data', unsure', mem', {}) /\ unsure' \subseteq unsure
      /\ ShownOf(original', unsure', mem', queue', 1, FALSE, FALSE)
      /\ original' \in [Fields -> Values] /\ \A f \in Fields : original'[f] \in Value(f) \cup {NoValue}
  <2>1. CASE UNCHANGED <<original, unsure>>
    <3>1. \A f \in Fields : ~UnderwayOf(queue, block, written, failed, f) /\ ~UnderwayOf(queue', 1, FALSE, FALSE, f)
      BY <1>1 DEF UnderwayOf
    <3>2. ShownOf(original, unsure, mem, queue, block, written, failed)
      BY DEF IInv
    <3>3. ShownOf(original, unsure, mem, queue', 1, FALSE, FALSE)
      BY ONLY <3>1, <3>2, ShownKept
    <3> QED BY <1>1, <1>5, <2>1, <3>3 DEF Types, ValueTypes
  <2>2. ASSUME NEW c, c = copy \/ c = data', original' = Loaded(shown, c), unsure' = StillUnsure(c)
        PROVE  /\ Agrees(data', unsure', mem', {}) /\ unsure' \subseteq unsure
               /\ ShownOf(original', unsure', mem', queue', 1, FALSE, FALSE)
               /\ original' \in [Fields -> Values] /\ \A f \in Fields : original'[f] \in Value(f) \cup {NoValue}
    <3>1. c \in [Spaces -> Seq(Block)] /\ Agrees(c, unsure, mem, {})
      BY <1>4, <1>5, <2>2
    <3>2. Agrees(c, unsure', mem, {}) /\ unsure' \subseteq unsure
      BY <2>2, <3>1, StillIs
    <3>3. Agrees(data', unsure', mem', {})
      BY <1>2, <2>2, <3>2
    <3>4. ShownOf(Loaded(shown, c), unsure', mem, queue', 1, FALSE, FALSE)
      <4> DEFINE untold == {}
      <4>1. \A b \in untold : FALSE
        OBVIOUS
      <4>2. Agrees(c, unsure', mem, untold)
        BY <3>2
      <4> HIDE DEF untold
      <4>3. \A f \in Fields : ~UnderwayOf(queue', 1, FALSE, FALSE, f) => \A b \in untold : b[1] # f
        BY ONLY <4>1
      <4> QED BY ONLY <1>4, <3>1, <4>2, <4>3, ShownAnew
    <3> QED BY <2>2, <3>1, <3>2, <3>3, <3>4, LoadedIs
  <2> QED BY <2>1, <2>2
<1>8. Types'
  <2>1. ValueTypes(mem', original', pending')
    BY <1>1, <1>7 DEF Types, ValueTypes
  <2>2. ReadTypes(invalid', shown', toRead', current', forceRead', unsure')
    BY <1>1, <1>7 DEF Types, ReadTypes
  <2> QED BY <1>1, <1>2, <2>1, <2>2 DEF Types
<1>9. Counted' /\ MenuIsIdle'
  BY DEF IInv, Counted, MenuIsIdle
<1>10. block' = 1 /\ written' = FALSE /\ failed' = FALSE /\ mem' = mem /\ inFlight' = inFlight
  BY <1>1
<1> QED BY <1>2, <1>3, <1>6, <1>7, <1>8, <1>9, <1>10, InvNext

\* The request at the front was one for a space: the rest of the queue.
LEMMA RestIs ==
  ASSUME IInv, queue # <<>>, queue[1].kind \notin {"write", "range"}
  PROVE  /\ Typed(Tail(queue), data) /\ ReadingOf(Tail(queue), data)
         /\ FrontOf(Tail(queue), 1, FALSE, FALSE, mem) /\ WritesOf(Tail(queue), FALSE, inFlight)
         /\ Agrees(data, unsure, mem, {}) /\ Tail(queue) \in Seq(Requests)
<1>1. ~written /\ failed \in BOOLEAN /\ Typed(queue, data) /\ ReadingOf(queue, data) /\ WritesOf(queue, failed, inFlight)
  BY InvIs DEF IInv, FrontOf, Ranged, Types
<1>2. Typed(Tail(queue), data) /\ ReadingOf(Tail(queue), data)
  BY <1>1, TailKeeps
<1>3. FrontOf(Tail(queue), 1, FALSE, FALSE, mem)
  BY <1>1, TailFront
<1>4. WritesOf(Tail(queue), FALSE, inFlight)
  <2>1. inFlight = IF queue[1].kind = "write" /\ ~failed THEN inFlight \ {queue[1].field} ELSE inFlight
    OBVIOUS
  <2> QED BY ONLY <1>1, <2>1, queue # <<>>, TailWrites
<1>5. Agrees(data, unsure, mem, {})
  BY <1>1 DEF IInv, UntoldOf
<1> QED BY <1>2, <1>3, <1>4, <1>5 DEF Typed

LEMMA UpdateAnswered ==
  ASSUME IInv, queue # <<>>, UpdateCompleteFinished(queue[1], TRUE) \/ UpdateCompleteFinished(queue[1], FALSE),
         written' = FALSE, UNCHANGED <<mem, shown, forceRead, modal>>
  PROVE  IInv' /\ pending' = pending
<1> USE DEF memoryVars
<1>1. /\ queue[1].kind = "update" /\ queue' = Tail(queue)
      /\ UNCHANGED <<block, failed, memoryVars, original, pending, writeVars, toRead, current, unsure>>
  BY DEF UpdateCompleteFinished
<1>2. Begins(Tail(queue), data, queue', data')
  BY <1>1 DEF Begins
<1>3. toRead' \in Seq(Spaces) /\ current' \in Spaces \cup {None} /\ invalid' \subseteq Spaces \cap BadSpaces
  BY <1>1, InvIs DEF Types, ReadTypes
<1>4. queue[1].kind \notin {"write", "range"}
  BY <1>1
<1>5. UNCHANGED <<original, unsure>>
  BY <1>1
<1>6. UNCHANGED <<mem, block, failed, shown, forceRead, modal, pending, writeVars>>
  BY <1>1
<1> QED BY <1>1, <1>2, <1>3, <1>4, <1>5, <1>6, RestIs, SpaceAnswered

\* Nobody reads space s; and only its copy becomes another one.
Unread(q, s) == \A i \in DOMAIN q : Reads(q[i]) => q[i].space # s
OnlyOf(s, copy, copy2) == copy2 \in [Spaces -> Seq(Block)] /\ \A t \in Spaces : t # s => copy2[t] = copy[t]
With(copy, s, x) == [copy EXCEPT ![s] = Append(@, x)]
NextAt(copy, s, at) == at = Len(copy[s]) + 1 /\ at <= Len(Layout[s])
TrueMemory(m) == \A f \in Fields : m[f] \in Value(f)

\* A space that nobody reads gets another copy.
LEMMA CopyChanged ==
  ASSUME NEW q, NEW copy, Typed(q, copy), ReadingOf(q, copy),
         NEW s \in Spaces, Unread(q, s), NEW copy2, OnlyOf(s, copy, copy2), Len(copy2[s]) <= Len(Layout[s])
  PROVE  Typed(q, copy2) /\ ReadingOf(q, copy2)
<1>1. q \in Seq(Requests) /\ DOMAIN q = 1..Len(q)
  BY DEF Typed
<1>2. Typed(q, copy2)
  BY DEF Typed, OnlyOf
<1>3. \A i \in DOMAIN q : Reads(q[i]) => copy2[q[i].space] = copy[q[i].space]
  <2> TAKE i \in DOMAIN q
  <2> HAVE Reads(q[i])
  <2>1. q[i].space \in Spaces
    BY <1>1, RequestIs DEF Reads
  <2> QED BY <2>1 DEF Unread, OnlyOf
<1>4. \A i \in DOMAIN q : q[i].kind = "info" => copy2[q[i].space] = <<>>
  BY <1>3 DEF ReadingOf, Reads
<1>5. \A i \in DOMAIN q : q[i].kind = "read" =>
        /\ q[i].at = Len(copy2[q[i].space]) + 1 /\ q[i].at <= Len(Layout[q[i].space])
        /\ q[i].space \notin BadSpaces
  BY <1>3 DEF ReadingOf, Reads
<1> QED BY <1>2, <1>4, <1>5 DEF ReadingOf

\* The next block of a space is asked for.
LEMMA NextAsked ==
  ASSUME NEW q, NEW copy, Typed(q, copy), ReadingOf(q, copy),
         NEW s \in Spaces, s \notin BadSpaces, Unread(q, s),
         NEW at \in Nat, at = Len(copy[s]) + 1, at <= Len(Layout[s]),
         NEW q2, q2 = Append(q, ReadBlock(s, at))
  PROVE  Typed(q2, copy) /\ ReadingOf(q2, copy)
<1>1. q \in Seq(Requests)
  BY DEF Typed
<1>2. /\ ReadBlock(s, at) \in Requests /\ ReadBlock(s, at).kind = "read"
      /\ ReadBlock(s, at).space = s /\ ReadBlock(s, at).at = at
  BY RequestsAre
<1>3. /\ q2 \in Seq(Requests) /\ Len(q) \in Nat
      /\ \A i \in 1..Len(q) : q2[i] = q[i]
      /\ q2[Len(q) + 1] = ReadBlock(s, at)
      /\ DOMAIN q = 1..Len(q) /\ DOMAIN q2 = 1..(Len(q) + 1)
  BY <1>1, <1>2, AppendIs
<1>4. \A i \in DOMAIN q2 : \/ i \in DOMAIN q /\ q2[i] = q[i]
                           \/ i = Len(q) + 1 /\ q2[i] = ReadBlock(s, at)
  <2> TAKE i \in DOMAIN q2
  <2>1. i \in 1..Len(q) \/ i = Len(q) + 1
    BY <1>3
  <2> QED BY ONLY <1>3, <2>1
<1>5. Typed(q2, copy)
  BY <1>2, <1>3, <1>4 DEF Typed
<1>6. \A i \in DOMAIN q2 : q2[i].kind = "info" => copy[q2[i].space] = <<>>
  BY <1>2, <1>4 DEF ReadingOf
<1>7. \A i \in DOMAIN q2 : q2[i].kind = "read" =>
        /\ q2[i].at = Len(copy[q2[i].space]) + 1 /\ q2[i].at <= Len(Layout[q2[i].space])
        /\ q2[i].space \notin BadSpaces
  BY <1>2, <1>4 DEF ReadingOf
<1>8. \A i, j \in DOMAIN q2 : Reads(q2[i]) /\ Reads(q2[j]) /\ q2[i].space = q2[j].space => i = j
  <2> TAKE i, j \in DOMAIN q2
  <2> HAVE Reads(q2[i]) /\ Reads(q2[j]) /\ q2[i].space = q2[j].space
  <2>1. CASE i \in DOMAIN q /\ q2[i] = q[i] /\ j \in DOMAIN q /\ q2[j] = q[j]
    BY <2>1 DEF ReadingOf
  <2>2. CASE i = Len(q) + 1 /\ q2[i] = ReadBlock(s, at)
    BY <1>2, <1>4, <2>2 DEF Unread
  <2>3. CASE j = Len(q) + 1 /\ q2[j] = ReadBlock(s, at)
    BY <1>2, <1>4, <2>3 DEF Unread
  <2> QED BY <1>4, <2>1, <2>2, <2>3
<1> QED BY <1>5, <1>6, <1>7, <1>8 DEF ReadingOf

LEMMA NextWrites ==
  ASSUME NEW q, NEW copy, Typed(q, copy), NEW s \in Spaces, NEW at \in Nat,
         NEW m, FrontOf(q, 1, FALSE, FALSE, m), NEW fly, WritesOf(q, FALSE, fly),
         NEW q2, q2 = Append(q, ReadBlock(s, at))
  PROVE  FrontOf(q2, 1, FALSE, FALSE, m) /\ WritesOf(q2, FALSE, fly)
<1>1. q \in Seq(Requests) /\ ReadBlock(s, at) \in Requests /\ ReadBlock(s, at).kind = "read"
  BY RequestsAre DEF Typed
<1> DEFINE r == <<ReadBlock(s, at)>>
<1>2. q2 = q \o r /\ r \in Seq(Requests) /\ Len(r) = 1 /\ \A i \in 1..Len(r) : r[i] = ReadBlock(s, at)
  BY <1>1, AppendIs
<1> HIDE DEF r
<1>3. \A i \in 1..Len(r) : r[i].kind = "write" => Blocks[r[i].field] = 1
  BY <1>1, <1>2
<1>4. FrontOf(q2, 1, FALSE, FALSE, m)
  BY <1>2, FrontAdded
<1>5. WritesOf(q2, FALSE, fly)
  <2>1. FALSE \in BOOLEAN
    OBVIOUS
  <2> QED BY ONLY <1>2, <1>3, <2>1, Typed(q, copy), WritesOf(q, FALSE, fly), WritesAdded
<1> QED BY <1>4, <1>5

\* The block that was asked for is the next one of the copy.
LEMMA Copied ==
  ASSUME NEW copy \in [Spaces -> Seq(Block)], NEW uns, NEW m, Agrees(copy, uns, m, {}), TrueMemory(m),
         NEW s \in Spaces, NEW at, NextAt(copy, s, at),
         NEW b, b = Layout[s][at], NEW x, x = m[b[1]][b[2]],
         NEW copy2, copy2 = With(copy, s, x)
  PROVE  OnlyOf(s, copy, copy2) /\ Len(copy2[s]) = at /\ Agrees(copy2, uns, m, {})
<1>0. copy[s] \in Seq(Block) /\ Len(copy[s]) \in Nat /\ Len(Layout[s]) \in Nat
  BY IndexIs
<1>1. at \in Nat /\ at = Len(copy[s]) + 1 /\ at \in 1..Len(Layout[s])
  BY SMTT(30), <1>0 DEF NextAt
<1>2. b \in AllBlocks /\ SpaceOf[b[1]] = s /\ Index[b] = at
  BY <1>1, IndexIs
<1>4. x \in Block
  BY <1>2, BlocksAre, ValuesAre DEF TrueMemory
<1>5. copy2[s] = Append(copy[s], x) /\ \A t \in Spaces : t # s => copy2[t] = copy[t]
  BY DEF With
<1>6. /\ Append(copy[s], x) \in Seq(Block) /\ Len(Append(copy[s], x)) = at
      /\ \A i \in 1..Len(copy[s]) : Append(copy[s], x)[i] = copy[s][i]
      /\ Append(copy[s], x)[at] = x
  <2>1. /\ Append(copy[s], x) \in Seq(Block) /\ Len(Append(copy[s], x)) = Len(copy[s]) + 1
        /\ Append(copy[s], x)[Len(copy[s]) + 1] = x
    BY ONLY <1>0, <1>4, AppendIs
  <2>2. \A i \in 1..Len(copy[s]) : Append(copy[s], x)[i] = copy[s][i]
    BY ONLY <1>0, <1>4, AppendIs
  <2> QED BY ONLY <1>1, <2>1, <2>2
<1>7. copy2 \in [Spaces -> Seq(Block)]
  BY <1>6 DEF With
<1>8. Agrees(copy2, uns, m, {})
  <2> SUFFICES ASSUME NEW c \in AllBlocks, Covered(c, copy2), c \notin uns
               PROVE  InCopy(c, copy2) = m[c[1]][c[2]]
    BY DEF Agrees
  <2>0. SpaceOf[c[1]] \in Spaces /\ Layout[SpaceOf[c[1]]][Index[c]] = c
    BY IndexIs
  <2>1. Index[c] \in Nat /\ Index[c] >= 1
    <3>1. Index[c] \in 1..Len(Layout[SpaceOf[c[1]]])
      BY IndexIs
    <3>2. Len(Layout[SpaceOf[c[1]]]) \in Nat
      BY <2>0, IndexIs
    <3> QED BY ONLY <3>1, <3>2
  <2>2. Covered(c, copy) => InCopy(c, copy) = m[c[1]][c[2]]
    BY DEF Agrees
  <2>3. CASE SpaceOf[c[1]] # s
    BY <1>5, <2>0, <2>2, <2>3 DEF Covered, InCopy
  <2>4. CASE SpaceOf[c[1]] = s /\ Index[c] # at
    <3>1. Index[c] \in 1..Len(copy[s])
      <4>1. Index[c] <= at
        BY <1>5, <1>6, <2>4 DEF Covered
      <4> QED BY ONLY <1>0, <1>1, <2>1, <2>4, <4>1
    <3>2. Covered(c, copy)
      BY ONLY <1>0, <2>4, <3>1 DEF Covered
    <3>3. InCopy(c, copy2) = InCopy(c, copy)
      BY ONLY <1>5, <1>6, <2>4, <3>1 DEF InCopy
    <3> QED BY <2>2, <3>2, <3>3
  <2>5. CASE SpaceOf[c[1]] = s /\ Index[c] = at
    <3>1. c = b
      BY <2>0, <2>5
    <3>2. InCopy(c, copy2) = x
      BY <1>5, <1>6, <2>5 DEF InCopy
    <3> QED BY <3>1, <3>2
  <2> QED BY <2>3, <2>4, <2>5
<1> QED BY <1>5, <1>6, <1>7, <1>8 DEF OnlyOf

\* The request at the front was the only one for its space.
LEMMA AloneIs ==
  ASSUME IInv, queue # <<>>, Reads(queue[1])
  PROVE  queue[1].space \in Spaces /\ Unread(Tail(queue), queue[1].space)
<1>1. queue \in Seq(Requests) /\ ReadingOf(queue, data)
  BY InvIs DEF IInv, Types, Typed
<1>2. /\ queue[1] \in Requests /\ 1 \in DOMAIN queue /\ DOMAIN queue = 1..Len(queue)
      /\ DOMAIN Tail(queue) = 1..Len(Tail(queue))
      /\ \A i \in 1..Len(Tail(queue)) : i + 1 \in 1..Len(queue) /\ Tail(queue)[i] = queue[i + 1]
  BY <1>1, TailIs
<1>3. queue[1].space \in Spaces
  BY <1>2, RequestIs DEF Reads
<1>4. ASSUME NEW i \in DOMAIN Tail(queue), Reads(Tail(queue)[i])
      PROVE  Tail(queue)[i].space # queue[1].space
  <2>1. i \in Nat /\ i + 1 # 1 /\ i + 1 \in DOMAIN queue /\ Tail(queue)[i] = queue[i + 1] /\ i >= 1
    BY <1>2
  <2> QED BY <1>1, <1>2, <1>4, <2>1 DEF ReadingOf
<1> QED BY <1>3, <1>4 DEF Unread

\* segmentMemoryReadFailed.
LEMMA FailedAnswered ==
  ASSUME IInv, queue # <<>>, Reads(queue[1]), SegmentMemoryReadFailed(queue[1].space, invalid'),
         invalid' \subseteq Spaces \cap BadSpaces, written' = FALSE,
         UNCHANGED <<mem, block, failed, shown, forceRead, modal, pending, writeVars>>
  PROVE  IInv'
<1>1. /\ toRead' \in Seq(Spaces) /\ current' \in Spaces \cup {None}
      /\ Begins(Tail(queue), data, queue', data')
      /\ \/ UNCHANGED <<original, unsure>>
         \/ original' = Loaded(shown, data) /\ unsure' = StillUnsure(data)
  <2>1. CASE queue[1].space = current
    <3>1. ReadNextSegment(toRead, forceRead, Tail(queue), data, invalid')
      BY <2>1 DEF SegmentMemoryReadFailed
    <3>2. toRead \in Seq(Spaces)
      BY InvIs DEF Types, ReadTypes
    <3>3. /\ toRead' \in Seq(Spaces) /\ current' \in Spaces \cup {None}
          /\ Begins(Tail(queue), data, queue', data')
      BY ONLY <3>1, <3>2, NextReads
    <3> QED BY <2>1, <3>3 DEF SegmentMemoryReadFailed, RefreshFieldValues
  <2>2. CASE queue[1].space # current
    <3>1. /\ queue' = Tail(queue)
          /\ UNCHANGED <<data, original, unsure, toRead, current>>
      BY <2>2 DEF SegmentMemoryReadFailed
    <3> QED BY <3>1, InvIs DEF Types, ReadTypes, Begins
  <2> QED BY <2>1, <2>2
<1>2. queue[1].kind \notin {"write", "range"}
  BY DEF Reads
<1>3. \/ UNCHANGED <<original, unsure>>
      \/ \E c \in {data, data'} : original' = Loaded(shown, c) /\ unsure' = StillUnsure(c)
  BY <1>1
<1> QED BY <1>1, <1>2, <1>3, RestIs, SpaceAnswered

LEMMA InfoAnswered ==
  ASSUME IInv, queue # <<>>, NEW ok \in BOOLEAN, AddressSpaceFinished(queue[1], ok),
         written' = FALSE, UNCHANGED <<mem, shown, forceRead, modal>>
  PROVE  IInv' /\ pending' = pending
<1> DEFINE s == queue[1].space
<1>1. /\ queue[1].kind = "info" /\ UNCHANGED <<block, failed, pending, writeVars>>
      /\ invalid' = IF ok /\ s \in BadSpaces THEN invalid \cup {s} ELSE invalid
  BY DEF AddressSpaceFinished
<1>2. UNCHANGED <<mem, block, failed, shown, forceRead, modal, pending, writeVars>>
  BY <1>1
<1>3. Reads(queue[1])
  BY <1>1 DEF Reads
<1>4. s \in Spaces /\ Unread(Tail(queue), s)
  BY <1>3, AloneIs
<1>5. invalid' \subseteq Spaces \cap BadSpaces
  BY <1>1, <1>4, InvIs DEF Types, ReadTypes
<1>6. CASE ok /\ s \notin BadSpaces
  <2>1. /\ queue' = Append(Tail(queue), ReadBlock(s, 1))
        /\ UNCHANGED <<data, original, unsure, toRead, current>>
    BY <1>6 DEF AddressSpaceFinished
  <2>2. data[s] = <<>>
    BY <1>1, TailIs, InvIs DEF IInv, ReadingOf, Types, Typed
  <2>3. 1 = Len(data[s]) + 1 /\ 1 <= Len(Layout[s]) /\ 1 \in Nat
    BY <1>4, <1>6, <2>2, SpaceHasABlock
  <2>4. Typed(Tail(queue), data) /\ ReadingOf(Tail(queue), data)
        /\ FrontOf(Tail(queue), 1, FALSE, FALSE, mem) /\ WritesOf(Tail(queue), FALSE, inFlight)
    BY <1>1, RestIs
  <2>9. Agrees(data, unsure, mem, {})
    BY <1>1, RestIs
  <2> HIDE DEF s
  <2>5. Typed(queue', data) /\ ReadingOf(queue', data)
    BY ONLY <1>4, <1>6, <2>1, <2>3, <2>4, NextAsked
  <2>6. FrontOf(queue', 1, FALSE, FALSE, mem) /\ WritesOf(queue', FALSE, inFlight)
    BY ONLY <1>4, <2>1, <2>3, <2>4, NextWrites
  <2>7. Begins(queue', data, queue', data')
    BY <2>1 DEF Begins
  <2>8. toRead' \in Seq(Spaces) /\ current' \in Spaces \cup {None}
    BY <2>1, InvIs DEF Types, ReadTypes
  <2> QED BY <1>1, <1>2, <1>5, <2>1, <2>5, <2>6, <2>7, <2>8, <2>9, SpaceAnswered
<1>7. CASE ~(ok /\ s \notin BadSpaces)
  <2>1. SegmentMemoryReadFailed(s, invalid')
    BY <1>7 DEF AddressSpaceFinished
  <2> QED BY <1>1, <1>2, <1>3, <1>5, <2>1, FailedAnswered
<1> QED BY <1>6, <1>7

LEMMA ReadAnswered ==
  ASSUME IInv, queue # <<>>, NEW ok \in BOOLEAN, AddressSpaceRead(queue[1], ok),
         written' = FALSE, UNCHANGED <<mem, shown, forceRead, modal>>
  PROVE  IInv' /\ pending' = pending
<1> DEFINE s == queue[1].space
           at == queue[1].at
           b == Layout[s][at]
           x == mem[b[1]][b[2]]
           copy == With(data, s, x)
<1>1. queue[1].kind = "read" /\ UNCHANGED <<block, failed, invalid, pending, writeVars>>
  BY DEF AddressSpaceRead
<1>2. UNCHANGED <<mem, block, failed, shown, forceRead, modal, pending, writeVars>>
  BY <1>1
<1>3. Reads(queue[1])
  BY <1>1 DEF Reads
<1>4. s \in Spaces /\ Unread(Tail(queue), s)
  BY <1>3, AloneIs
<1>5. invalid' \subseteq Spaces \cap BadSpaces /\ Types
  BY <1>1, InvIs DEF Types, ReadTypes
<1>6. at = Len(data[s]) + 1 /\ at <= Len(Layout[s]) /\ s \notin BadSpaces
  BY <1>1, <1>5, TailIs DEF IInv, ReadingOf, Types, Typed
<1>7. Typed(Tail(queue), data) /\ ReadingOf(Tail(queue), data)
      /\ FrontOf(Tail(queue), 1, FALSE, FALSE, mem) /\ WritesOf(Tail(queue), FALSE, inFlight)
  BY <1>1, RestIs
<1>8. Agrees(data, unsure, mem, {})
  BY <1>1, RestIs
<1>9. data \in [Spaces -> Seq(Block)] /\ TrueMemory(mem)
  BY <1>5 DEF Types, Typed, ValueTypes, TrueMemory
<1>10. CASE ~ok
  <2>1. SegmentMemoryReadFailed(s, invalid')
    BY <1>1, <1>10 DEF AddressSpaceRead
  <2> QED BY <1>1, <1>2, <1>3, <1>5, <2>1, FailedAnswered
<1>11. CASE ok
  <2>1. \/ HasMemory(s, copy) /\ SegmentMemoryReady(s, copy)
        \/ /\ ~HasMemory(s, copy) /\ data' = copy
           /\ queue' = Append(Tail(queue), ReadBlock(s, at + 1))
           /\ UNCHANGED <<original, unsure, toRead, current>>
    BY <1>11 DEF AddressSpaceRead, With
  <2>2. copy = With(data, s, x)
    OBVIOUS
  <2>3. b = Layout[s][at] /\ x = mem[b[1]][b[2]]
    OBVIOUS
  <2> HIDE DEF s, at, b, x, copy
  <2>4. OnlyOf(s, data, copy) /\ Len(copy[s]) = at /\ Agrees(copy, unsure, mem, {})
    <3>1. s \in Spaces /\ data \in [Spaces -> Seq(Block)] /\ TrueMemory(mem) /\ Agrees(data, unsure, mem, {})
      BY <1>4, <1>8, <1>9
    <3>2. NextAt(data, s, at)
      BY <1>6 DEF NextAt
    <3>3. OnlyOf(s, data, copy)
      BY ONLY <3>1, <3>2, <2>2, <2>3, Copied
    <3>4. Len(copy[s]) = at /\ Agrees(copy, unsure, mem, {})
      BY ONLY SMTT(30), <3>1, <3>2, <2>2, <2>3, Copied
    <3> QED BY <3>3, <3>4
  <2>5. Typed(Tail(queue), copy) /\ ReadingOf(Tail(queue), copy)
    BY ONLY <1>4, <1>6, <1>7, <2>4, CopyChanged
  <2>6. CASE HasMemory(s, copy) /\ SegmentMemoryReady(s, copy)
    <3>1. /\ toRead' \in Seq(Spaces) /\ current' \in Spaces \cup {None}
          /\ Begins(Tail(queue), copy, queue', data')
          /\ \/ UNCHANGED <<original, unsure>>
             \/ original' = Loaded(shown, copy) /\ unsure' = StillUnsure(copy)
      <4>1. toRead \in Seq(Spaces) /\ current \in Spaces \cup {None}
        BY <1>5 DEF Types, ReadTypes
      <4>2. CASE s = current
        <5>1. ReadNextSegment(toRead, forceRead, Tail(queue), copy, invalid)
          BY <2>6, <4>2 DEF SegmentMemoryReady
        <5>2. /\ toRead' \in Seq(Spaces) /\ current' \in Spaces \cup {None}
              /\ Begins(Tail(queue), copy, queue', data')
          BY ONLY <4>1, <5>1, NextReads
        <5> QED BY <2>6, <4>2, <5>2 DEF SegmentMemoryReady, RefreshFieldValues
      <4>3. CASE s # current
        BY <2>6, <4>1, <4>3 DEF SegmentMemoryReady, Begins
      <4> QED BY <4>2, <4>3
    <3>2. \/ UNCHANGED <<original, unsure>>
          \/ \E c \in {copy, data'} : original' = Loaded(shown, c) /\ unsure' = StillUnsure(c)
      BY <3>1
    <3>3. queue[1].kind \notin {"write", "range"}
      BY <1>1
    <3> QED BY <1>1, <1>2, <1>5, <1>7, <2>4, <2>5, <3>1, <3>2, <3>3, SpaceAnswered
  <2>7. CASE /\ ~HasMemory(s, copy) /\ data' = copy
             /\ queue' = Append(Tail(queue), ReadBlock(s, at + 1))
             /\ UNCHANGED <<original, unsure, toRead, current>>
    <3>1. at \in Nat /\ at + 1 \in Nat /\ Len(Layout[s]) \in Nat
      BY <1>4, <1>6, <1>9, IndexIs
    <3>2. at + 1 = Len(copy[s]) + 1 /\ at + 1 <= Len(Layout[s])
      BY <1>6, <2>4, <2>7, <3>1 DEF HasMemory
    <3>3. Typed(queue', copy) /\ ReadingOf(queue', copy)
      BY ONLY <1>4, <1>6, <2>5, <2>7, <3>1, <3>2, NextAsked
    <3>4. FrontOf(queue', 1, FALSE, FALSE, mem) /\ WritesOf(queue', FALSE, inFlight)
      BY ONLY <1>4, <1>7, <2>5, <2>7, <3>1, NextWrites
    <3>5. Begins(queue', copy, queue', data')
      BY <2>7 DEF Begins
    <3>6. toRead' \in Seq(Spaces) /\ current' \in Spaces \cup {None}
      BY <1>5, <2>7 DEF Types, ReadTypes
    <3>7. queue[1].kind \notin {"write", "range"} /\ UNCHANGED <<original, unsure>>
      BY <1>1, <2>7
    <3> QED BY <1>1, <1>2, <1>5, <2>4, <3>3, <3>4, <3>5, <3>6, <3>7, SpaceAnswered
  <2> QED BY <2>1, <2>6, <2>7
<1> QED BY <1>10, <1>11

\* A copy is updated in place.
SameLengths(copy, copy2) ==
  copy2 \in [Spaces -> Seq(Block)] /\ \A s \in Spaces : Len(copy2[s]) = Len(copy[s])

LEMMA LengthsKeep ==
  ASSUME NEW q, NEW copy, Typed(q, copy), ReadingOf(q, copy), NEW copy2, SameLengths(copy, copy2)
  PROVE  Typed(q, copy2) /\ ReadingOf(q, copy2)
<1>1. q \in Seq(Requests) /\ DOMAIN q = 1..Len(q) /\ copy \in [Spaces -> Seq(Block)]
  BY DEF Typed
<1>2. Typed(q, copy2)
  BY DEF Typed, SameLengths
<1>3. \A i \in DOMAIN q : Reads(q[i]) => q[i].space \in Spaces
  BY <1>1, RequestIs DEF Reads
<1>4. \A i \in DOMAIN q : q[i].kind = "info" => copy2[q[i].space] = <<>>
  <2> TAKE i \in DOMAIN q
  <2> HAVE q[i].kind = "info"
  <2>1. q[i].space \in Spaces /\ copy[q[i].space] = <<>>
    BY <1>3 DEF Reads, ReadingOf
  <2>2. Len(copy2[q[i].space]) = 0 /\ copy2[q[i].space] \in Seq(Block)
    BY <2>1 DEF SameLengths
  <2> QED BY <2>2, EmptySeq
<1>5. \A i \in DOMAIN q : q[i].kind = "read" =>
        /\ q[i].at = Len(copy2[q[i].space]) + 1 /\ q[i].at <= Len(Layout[q[i].space])
        /\ q[i].space \notin BadSpaces
  BY <1>3 DEF ReadingOf, Reads, SameLengths
<1> QED BY <1>2, <1>4, <1>5 DEF ReadingOf

LEMMA UpdatedAgain ==
  ASSUME NEW b \in AllBlocks, data \in [Spaces -> Seq(Block)], TrueMemory(mem),
         NEW c, c = UpdateData(b, mem[b[1]][b[2]]), NEW uns, Agrees(data, uns, mem, {b})
  PROVE  SameLengths(data, c) /\ Agrees(c, uns, mem, {})
<1> DEFINE x == mem[b[1]][b[2]]
           t == SpaceOf[b[1]]
<1>1. t \in Spaces /\ Layout[t][Index[b]] = b
  BY IndexIs
<1>0. Index[b] \in Nat /\ Index[b] >= 1
  <2>1. Index[b] \in 1..Len(Layout[t]) /\ Len(Layout[t]) \in Nat
    BY <1>1, IndexIs
  <2> QED BY <2>1
<1>2. x \in Block
  BY BlocksAre, ValuesAre DEF TrueMemory
<1>3. CASE ~Covered(b, data)
  <2>1. c = data
    BY <1>3 DEF UpdateData
  <2>2. Agrees(c, uns, mem, {})
    BY <1>3, <2>1 DEF Agrees
  <2> QED BY <2>1, <2>2 DEF SameLengths
<1>4. CASE Covered(b, data)
  <2>1. c = [data EXCEPT ![t][Index[b]] = x]
    BY <1>4 DEF UpdateData
  <2>2. data[t] \in Seq(Block) /\ Len(data[t]) \in Nat /\ Index[b] \in 1..Len(data[t])
    BY <1>0, <1>1, <1>4 DEF Covered
  <2> HIDE DEF x, t
  <2>3. /\ c[t] = [data[t] EXCEPT ![Index[b]] = x]
        /\ \A s \in Spaces : s # t => c[s] = data[s]
        /\ DOMAIN c = Spaces /\ c = [s \in Spaces |-> c[s]]
    BY <1>1, <2>1
  <2>4. /\ c[t] \in Seq(Block) /\ Len(c[t]) = Len(data[t]) /\ c[t][Index[b]] = x
        /\ \A i \in 1..Len(data[t]) : i # Index[b] => c[t][i] = data[t][i]
    BY <1>2, <2>2, <2>3
  <2>5. SameLengths(data, c)
    <3>1. \A s \in Spaces : c[s] \in Seq(Block) /\ Len(c[s]) = Len(data[s])
      BY <2>3, <2>4
    <3> QED BY <2>3, <3>1 DEF SameLengths
  <2>6. ASSUME NEW a \in AllBlocks, Covered(a, c), a \notin uns
        PROVE  InCopy(a, c) = mem[a[1]][a[2]]
    <3>1. SpaceOf[a[1]] \in Spaces /\ Layout[SpaceOf[a[1]]][Index[a]] = a
      BY IndexIs
    <3>2. Index[a] \in 1..Len(Layout[SpaceOf[a[1]]]) /\ Len(Layout[SpaceOf[a[1]]]) \in Nat
      BY <3>1, IndexIs
    <3>3. Covered(a, data)
      BY <2>5, <2>6, <3>1 DEF Covered, SameLengths
    <3>4. CASE a = b
      BY <2>4, <3>4 DEF InCopy, t, x
    <3>5. CASE a # b
      <4>1. InCopy(a, data) = mem[a[1]][a[2]]
        BY <2>6, <3>3, <3>5 DEF Agrees
      <4>2. CASE SpaceOf[a[1]] # t
        BY <2>3, <3>1, <4>1, <4>2 DEF InCopy
      <4>3. CASE SpaceOf[a[1]] = t
        <5>1. Index[a] # Index[b]
          BY <1>1, <3>1, <3>5, <4>3
        <5>2. Index[a] \in 1..Len(data[t])
          BY ONLY <2>2, <3>2, <3>3, <4>3 DEF Covered
        <5> QED BY <2>4, <4>1, <4>3, <5>1, <5>2 DEF InCopy
      <4> QED BY <4>2, <4>3
    <3> QED BY <3>4, <3>5
  <2> QED BY <2>5, <2>6 DEF Agrees
<1> QED BY <1>3, <1>4

LEMMA AgreesMore ==
  ASSUME NEW copy, NEW uns, NEW m, NEW untold, Agrees(copy, uns, m, untold),
         NEW uns2, NEW untold2, \A b \in AllBlocks : b \in uns \/ b \in untold => b \in uns2 \/ b \in untold2
  PROVE  Agrees(copy, uns2, m, untold2)
  BY DEF Agrees

LEMMA RemovedIs ==
  ASSUME NEW f, NEW copy, pending \in [Fields -> Values],
         \A g \in Fields : pending[g] \in Value(g) \cup {NoValue}
  PROVE  /\ RemoveWrittenChanges(f, copy) \in [Fields -> Values]
         /\ \A g \in Fields : RemoveWrittenChanges(f, copy)[g] \in Value(g) \cup {NoValue}
         /\ \A g \in Fields : RemoveWrittenChanges(f, copy)[g] # pending[g] =>
              HasMemory(SpaceOf[g], copy) /\ FieldOf(g, copy) = pending[g]
  BY DEF RemoveWrittenChanges, Values

LEMMA EndsIs ==
  ASSUME Counted, NEW f, WriteEnds(f)
  PROVE  /\ inFlight' = inFlight \ {f} /\ Counted'
         /\ outstanding = 0 => outstanding' = 0
<1>1. IsFiniteSet(inFlight) /\ outstanding = Cardinality(inFlight) /\ outstanding \in Nat
  BY FS_CardinalityType DEF Counted
<1>2. CASE f \in inFlight
  <2>1. IsFiniteSet(inFlight \ {f}) /\ Cardinality(inFlight \ {f}) = outstanding - 1
    BY <1>1, <1>2, FS_RemoveElement
  <2>2. outstanding # 0
    BY <1>1, <1>2, FS_EmptySet
  <2>3. inFlight' = inFlight \ {f} /\ outstanding' = outstanding - 1
    BY <1>2, <2>2 DEF WriteEnds
  <2> QED BY <2>1, <2>2, <2>3 DEF Counted
<1>3. CASE f \notin inFlight
  BY <1>1, <1>3 DEF WriteEnds, writeVars, Counted
<1> QED BY <1>2, <1>3

\* No reply takes a change of the user away that the node does not have.
KeptBy(q) ==
  \A f \in Fields :
    pending[f] # NoValue /\ pending'[f] # pending[f] =>
      \/ mem[f] = pending[f] \/ \E b \in unsure' : b[1] = f
      \/ q[1].kind = "range" /\ q[1].field = f

\* What the end of a range does to the queue.
RangeIs(f, last, ok) ==
  /\ queue[1].kind \in {"write", "range"} /\ f = queue[1].field /\ f \in Fields
  /\ block \in 1..Blocks[f] /\ (last <=> block = Blocks[f])
  /\ failed' = (~last /\ (failed \/ ~ok))
  /\ queue' = (IF last THEN Tail(queue) ELSE queue) /\ block' = IF last THEN 1 ELSE block + 1
  /\ UNCHANGED <<invalid, toRead, current, mem, shown, forceRead, modal>> /\ written' = FALSE
  /\ data' = IF ok THEN UpdateData(<<f, block>>, mem[f][block]) ELSE data

\* What it does to the values, if the user is told or not.
RangeTold(f, last, ok) ==
  \/ /\ ok /\ last /\ ~failed /\ queue[1].kind = "write" /\ RangeWritten(f, data')
  \/ /\ ok /\ last /\ ~failed /\ queue[1].kind = "range" /\ RangeRead(f, data')
  \/ /\ ~ok /\ ~failed /\ queue[1].kind = "write"
     /\ RangeWriteFailed(f, IF written THEN unsure \cup {<<f, block>>} ELSE unsure)
  \/ /\ ~(ok /\ last /\ ~failed) /\ ~(~ok /\ ~failed /\ queue[1].kind = "write")
     /\ unsure' = IF written /\ failed THEN unsure \cup {<<f, block>>} ELSE unsure
     /\ UNCHANGED <<original, pending, writeVars>>

LEMMA RangeFinishedIs ==
  ASSUME IInv, queue # <<>>, NEW ok \in BOOLEAN, RangeFinished(queue[1], ok), ok /\ queue[1].kind = "write" => written,
         written' = FALSE, UNCHANGED <<mem, shown, forceRead, modal>>,
         NEW f, f = queue[1].field, NEW last, last = (block = Blocks[f])
  PROVE  RangeIs(f, last, ok) /\ RangeTold(f, last, ok)
<1>1. queue[1] \in Requests /\ queue[1].kind \in {"write", "range"} /\ FrontOf(queue, block, written, failed, mem)
  BY TailIs, InvIs DEF IInv, Types, Typed, RangeFinished
<1>2. f \in Fields /\ Blocks[f] \in Nat
  BY <1>1, RequestIs, CdiIs
<1>3. block \in 1..Blocks[f]
  BY <1>1, <1>2 DEF FrontOf, Ranged
<1>4. queue[1].kind = "write" /\ ok => mem[f][block] = queue[1].val[block]
  BY <1>1 DEF FrontOf
<1>5. data' = IF ok THEN UpdateData(<<f, block>>, mem[f][block]) ELSE data
  BY <1>1, <1>4 DEF RangeFinished
<1>6. /\ failed' = (~last /\ (failed \/ ~ok))
      /\ queue' = (IF last THEN Tail(queue) ELSE queue) /\ block' = IF last THEN 1 ELSE block + 1
      /\ UNCHANGED <<invalid, toRead, current>>
  BY DEF RangeFinished
<1>7. RangeTold(f, last, ok)
  <2>1. CASE ok /\ last /\ ~failed
    BY <1>1, <2>1 DEF RangeFinished, RangeTold
  <2>2. CASE ~ok /\ ~failed /\ queue[1].kind = "write"
    BY <1>1, <2>2 DEF RangeFinished, RangeTold
  <2>3. CASE ~(ok /\ last /\ ~failed) /\ ~(~ok /\ ~failed /\ queue[1].kind = "write")
    BY <1>1, <2>3 DEF RangeFinished, RangeTold
  <2> QED BY <2>1, <2>2, <2>3
<1> QED BY <1>1, <1>2, <1>3, <1>5, <1>6, <1>7 DEF RangeIs

\* A write that ended, well or not, is not in flight any more.
FliesOn(f, last, ok) ==
  inFlight' = IF queue[1].kind = "write" /\ ~failed /\ (ok => last) THEN inFlight \ {f} ELSE inFlight

\* Who is told: the writes in flight, and what nobody knows of the node's memory.
LEMMA ToldIs ==
  ASSUME Counted, NEW f, NEW last, NEW ok, RangeTold(f, last, ok), failed \in BOOLEAN
  PROVE  /\ FliesOn(f, last, ok)
         /\ Counted' /\ (outstanding = 0 => outstanding' = 0)
         /\ ok => unsure' = unsure \/ unsure' = StillUnsure(data')
                  \/ (written /\ failed /\ unsure' = unsure \cup {<<f, block>>})
         /\ ~ok => unsure \subseteq unsure'
         /\ ~ok /\ written /\ queue[1].kind = "write" => <<f, block>> \in unsure'
         /\ unsure' \subseteq unsure \cup {<<f, block>>}
<1> USE DEF writeVars, FliesOn
<1>1. CASE ok /\ last /\ ~failed /\ queue[1].kind = "write" /\ RangeWritten(f, data')
  <2>1. WriteEnds(f) /\ unsure' = StillUnsure(data')
    BY <1>1 DEF RangeWritten, RefreshFieldValues
  <2>2. inFlight' = inFlight \ {f} /\ Counted' /\ (outstanding = 0 => outstanding' = 0)
    BY ONLY <2>1, Counted, EndsIs
  <2> QED BY <1>1, <2>1, <2>2 DEF StillUnsure
<1>2. CASE ok /\ last /\ ~failed /\ queue[1].kind = "range" /\ RangeRead(f, data')
  BY <1>2 DEF RangeRead, RefreshFieldValues, StillUnsure, Counted
<1>3. CASE /\ ~ok /\ ~failed /\ queue[1].kind = "write"
           /\ RangeWriteFailed(f, IF written THEN unsure \cup {<<f, block>>} ELSE unsure)
  <2>1. unsure' = IF written THEN unsure \cup {<<f, block>>} ELSE unsure
    BY <1>3 DEF RangeWriteFailed
  <2>2. WriteEnds(f)
    BY <1>3 DEF RangeWriteFailed, WriteEnds
  <2>3. inFlight' = inFlight \ {f} /\ Counted' /\ (outstanding = 0 => outstanding' = 0)
    BY ONLY <2>2, Counted, EndsIs
  <2> QED BY <1>3, <2>1, <2>3
<1>4. CASE /\ ~(ok /\ last /\ ~failed) /\ ~(~ok /\ ~failed /\ queue[1].kind = "write")
           /\ unsure' = IF written /\ failed THEN unsure \cup {<<f, block>>} ELSE unsure
           /\ UNCHANGED <<original, pending, writeVars>>
  <2>1. Counted' /\ inFlight' = inFlight /\ outstanding' = outstanding
    BY <1>4 DEF Counted
  <2> QED BY <1>4, <2>1
<1> QED BY <1>1, <1>2, <1>3, <1>4 DEF RangeTold

\* The copy after the answer agrees with the node.
LEMMA AnswerAgrees ==
  ASSUME IInv, queue # <<>>, NEW ok \in BOOLEAN, NEW f, NEW last, RangeIs(f, last, ok), RangeTold(f, last, ok)
  PROVE  /\ Typed(queue, data') /\ ReadingOf(queue, data')
         /\ Agrees(data', unsure', mem, {})
<1>1. /\ Types /\ Counted /\ failed \in BOOLEAN /\ written \in BOOLEAN
      /\ ReadingOf(queue, data) /\ Typed(queue, data) /\ data \in [Spaces -> Seq(Block)] /\ TrueMemory(mem)
      /\ (written => queue[1].kind = "write")
  BY InvIs DEF IInv, FrontOf, Types, Typed, ValueTypes, TrueMemory
<1>2. <<f, block>> \in AllBlocks
  BY BlocksAre DEF RangeIs
<1> DEFINE b == <<f, block>>
<1>3. UntoldOf(queue, block, written) = IF written THEN {b} ELSE {}
  BY DEF UntoldOf, RangeIs
<1>4. Agrees(data, unsure, mem, UntoldOf(queue, block, written))
  BY DEF IInv
<1>5. /\ ok => unsure' = unsure \/ unsure' = StillUnsure(data')
               \/ (written /\ failed /\ unsure' = unsure \cup {b})
      /\ ~ok => unsure \subseteq unsure'
      /\ ~ok /\ written /\ queue[1].kind = "write" => b \in unsure'
  BY <1>1, ToldIs
<1>6. CASE ok
  <2>1. data' = UpdateData(b, mem[b[1]][b[2]])
    BY <1>6 DEF RangeIs
  <2>2. Agrees(data, unsure, mem, {b})
    BY <1>3, <1>4 DEF Agrees
  <2>3. b \in AllBlocks
    BY <1>2
  <2> HIDE DEF b
  <2>4. SameLengths(data, data') /\ Agrees(data', unsure, mem, {})
    BY ONLY <1>1, <2>1, <2>2, <2>3, UpdatedAgain
  <2>5. Typed(queue, data') /\ ReadingOf(queue, data')
    BY ONLY <1>1, <2>4, LengthsKeep
  <2>6. Agrees(data', unsure', mem, {})
    <3>1. CASE unsure' = StillUnsure(data')
      BY <2>4, <3>1, StillIs
    <3>2. CASE unsure \subseteq unsure'
      BY <2>4, <3>2 DEF Agrees
    <3> QED BY <1>5, <1>6, <3>1, <3>2
  <2> QED BY <2>5, <2>6
<1>7. CASE ~ok
  <2>1. data' = data
    BY <1>7 DEF RangeIs
  <2>2. Agrees(data, unsure', mem, {})
    BY <1>1, <1>3, <1>4, <1>5, <1>7 DEF Agrees
  <2> QED BY <1>1, <2>1, <2>2
<1> QED BY <1>6, <1>7

\* The queue after the answer.
LEMMA AnswerQueue ==
  ASSUME IInv, queue # <<>>, NEW ok \in BOOLEAN, NEW f, NEW last \in BOOLEAN, RangeIs(f, last, ok), RangeTold(f, last, ok)
  PROVE  /\ Typed(queue', data') /\ ReadingOf(queue', data')
         /\ FrontOf(queue', block', written', failed', mem') /\ WritesOf(queue', failed', inFlight')
<1>1. /\ Counted /\ failed \in BOOLEAN /\ Typed(queue, data) /\ WritesOf(queue, failed, inFlight)
      /\ FrontOf(queue, block, written, failed, mem)
  BY InvIs DEF IInv, FrontOf, Types
<1>2. Typed(queue, data') /\ ReadingOf(queue, data')
  BY AnswerAgrees
<1>3. inFlight' = IF queue[1].kind = "write" /\ ~failed /\ (ok => last) THEN inFlight \ {f} ELSE inFlight
  <2>1. FliesOn(f, last, ok)
    BY <1>1, ToldIs
  <2> QED BY <2>1 DEF FliesOn
<1>4. CASE last
  <2>1. queue' = Tail(queue) /\ block' = 1 /\ failed' = FALSE /\ written' = FALSE /\ mem' = mem
    BY <1>4 DEF RangeIs
  <2>2. Typed(Tail(queue), data') /\ ReadingOf(Tail(queue), data')
    BY ONLY <1>2, queue # <<>>, TailKeeps
  <2>3. FrontOf(Tail(queue), 1, FALSE, FALSE, mem)
    BY ONLY <1>1, queue # <<>>, TailFront
  <2>4. inFlight' = IF queue[1].kind = "write" /\ ~failed THEN inFlight \ {queue[1].field} ELSE inFlight
    BY <1>3, <1>4 DEF RangeIs
  <2>5. WritesOf(Tail(queue), FALSE, inFlight')
    BY ONLY <1>1, <2>4, queue # <<>>, TailWrites
  <2> QED BY <2>1, <2>2, <2>3, <2>5
<1>5. CASE ~last
  <2>1. /\ queue' = queue /\ block' = block + 1 /\ failed' = (failed \/ ~ok) /\ written' = FALSE /\ mem' = mem
        /\ failed' \in BOOLEAN
    BY <1>1, <1>5 DEF RangeIs
  <2>2. FrontOf(queue, block + 1, FALSE, failed', mem)
    <3>1. f \in Fields /\ block \in 1..Blocks[f] /\ block # Blocks[f] /\ Blocks[f] \in Nat
      BY <1>5, CdiIs DEF RangeIs
    <3>2. block + 1 \in Nat \ {0} /\ block + 1 <= Blocks[f] /\ block + 1 # 1
      BY ONLY <3>1
    <3> QED BY <2>1, <3>2 DEF FrontOf, RangeIs, Ranged
  <2>3. inFlight' = IF queue[1].kind = "write" /\ ~failed /\ failed' THEN inFlight \ {queue[1].field} ELSE inFlight
    BY <1>1, <1>3, <1>5, <2>1 DEF RangeIs
  <2>4. failed => failed'
    BY <2>1
  <2>5. WritesOf(queue, failed', inFlight')
    <3>1. failed \in BOOLEAN /\ failed' \in BOOLEAN /\ Typed(queue, data) /\ WritesOf(queue, failed, inFlight)
      BY <1>1, <2>1
    <3> DEFINE fl2 == failed'
               fly2 == inFlight'
    <3>2. fly2 = IF queue[1].kind = "write" /\ ~failed /\ fl2 THEN inFlight \ {queue[1].field} ELSE inFlight
      BY <2>3
    <3>3. failed => fl2
      BY <2>4
    <3>4. fl2 \in BOOLEAN
      BY <2>1
    <3> SUFFICES WritesOf(queue, fl2, fly2)
      OBVIOUS
    <3> HIDE DEF fl2, fly2
    <3> QED BY ONLY <3>1, <3>2, <3>3, <3>4, queue # <<>>, FrontStays
  <2> QED BY <1>2, <2>1, <2>2, <2>5
<1> QED BY <1>4, <1>5

\* The values after the answer.
LEMMA AnswerValues ==
  ASSUME IInv, queue # <<>>, NEW ok \in BOOLEAN, NEW f, NEW last \in BOOLEAN, RangeIs(f, last, ok), RangeTold(f, last, ok)
  PROVE  /\ ValueTypes(mem', original', pending') /\ KeptBy(queue)
         /\ UNCHANGED original \/ \E c \in {data'} : original' = Loaded(shown, c)
<1> USE DEF writeVars
<1>1. /\ Types /\ ValueTypes(mem, original, pending) /\ mem' = mem
      /\ data \in [Spaces -> Seq(Block)] /\ data' \in [Spaces -> Seq(Block)]
      /\ Agrees(data', unsure', mem, {})
  BY AnswerAgrees, InvIs DEF Types, Typed, RangeIs
<1>2. /\ pending \in [Fields -> Values] /\ \A g \in Fields : pending[g] \in Value(g) \cup {NoValue}
      /\ \A g \in Fields : mem[g] \in Value(g)
  BY <1>1 DEF ValueTypes
<1>3. \/ original' = original \/ original' = Loaded(shown, data')
  <2>1. ~ok => data' = data
    BY DEF RangeIs
  <2> QED BY <2>1 DEF RangeTold, RangeWritten, RangeRead, RangeWriteFailed, RefreshFieldValues
<1>4. original' \in [Fields -> Values] /\ \A g \in Fields : original'[g] \in Value(g) \cup {NoValue}
  <2>1. CASE original' = original
    BY <1>1, <2>1 DEF ValueTypes
  <2>2. CASE original' = Loaded(shown, data')
    BY <1>1, <2>2, LoadedIs
  <2> QED BY <1>3, <2>1, <2>2
<1>5. \/ pending' = pending
      \/ pending' = RemoveWrittenChanges(f, data')
      \/ queue[1].kind = "range" /\ pending' = [pending EXCEPT ![f] = NoValue]
  <2>1. ~ok => data' = data
    BY DEF RangeIs
  <2> QED BY <2>1 DEF RangeTold, RangeWritten, RangeRead, RangeWriteFailed
<1>6. CASE pending' = pending
  BY <1>1, <1>2, <1>3, <1>4, <1>6 DEF ValueTypes, KeptBy
<1>7. CASE pending' = RemoveWrittenChanges(f, data')
  <2>1. /\ pending' \in [Fields -> Values]
        /\ \A g \in Fields : pending'[g] \in Value(g) \cup {NoValue}
        /\ \A g \in Fields : pending'[g] # pending[g] =>
             HasMemory(SpaceOf[g], data') /\ FieldOf(g, data') = pending[g]
    BY <1>2, <1>7, RemovedIs
  <2>2. ASSUME NEW g \in Fields, pending'[g] # pending[g], ~ \E b \in unsure' : b[1] = g
        PROVE  mem[g] = pending[g]
    <3> DEFINE untold == {}
               uns == unsure'
               c == data'
    <3>1. Agrees(c, uns, mem, untold) /\ (\A b \in uns : b[1] # g) /\ (\A b \in untold : b[1] # g)
          /\ HasMemory(SpaceOf[g], c) /\ mem[g] \in Value(g) /\ FieldOf(g, c) = pending[g]
      BY <1>1, <1>2, <2>1, <2>2
    <3> HIDE DEF untold, uns, c
    <3>2. FieldOf(g, c) = mem[g]
      BY ONLY <3>1, g \in Fields, CopyIsTrue
    <3> QED BY <3>1, <3>2
  <2>3. KeptBy(queue)
    BY <2>2 DEF KeptBy
  <2> QED BY <1>1, <1>2, <1>3, <1>4, <2>1, <2>3 DEF ValueTypes
<1>8. CASE queue[1].kind = "range" /\ pending' = [pending EXCEPT ![f] = NoValue]
  <2>1. f \in Fields /\ queue[1].field = f /\ NoValue \in Values
    BY DEF RangeIs, Values
  <2>2. /\ pending' \in [Fields -> Values]
        /\ \A g \in Fields : pending'[g] \in Value(g) \cup {NoValue}
        /\ \A g \in Fields : pending'[g] # pending[g] => g = f
    BY <1>2, <1>8, <2>1
  <2>3. KeptBy(queue)
    BY <1>8, <2>1, <2>2 DEF KeptBy
  <2> QED BY <1>1, <1>2, <1>3, <1>4, <2>2, <2>3 DEF ValueTypes
<1> QED BY <1>5, <1>6, <1>7, <1>8

\* What is shown after the answer.
LEMMA AnswerShown ==
  ASSUME IInv, queue # <<>>, NEW ok \in BOOLEAN, NEW f, NEW last \in BOOLEAN, RangeIs(f, last, ok), RangeTold(f, last, ok)
  PROVE  ShownOf(original', unsure', mem', queue', block', written', failed')
<1>1. /\ Types /\ failed \in BOOLEAN /\ written \in BOOLEAN /\ WritesOf(queue, failed, inFlight)
      /\ ShownOf(original, unsure, mem, queue, block, written, failed)
      /\ data' \in [Spaces -> Seq(Block)] /\ mem' = mem /\ written' = FALSE
      /\ \A g \in Fields : mem[g] \in Value(g)
      /\ Agrees(data', unsure', mem, {})
  BY AnswerAgrees, InvIs DEF IInv, FrontOf, Types, Typed, ValueTypes, RangeIs
<1>2. CASE original' = Loaded(shown, data')
  <2> DEFINE untold == {}
             c == data'
  <2>1. Agrees(c, unsure', mem, untold) /\ c \in [Spaces -> Seq(Block)]
    BY <1>1
  <2>2. \A b \in untold : FALSE
    OBVIOUS
  <2> HIDE DEF untold, c
  <2>3. \A g \in Fields : ~UnderwayOf(queue', block', FALSE, failed', g) => \A b \in untold : b[1] # g
    BY ONLY <2>2
  <2>4. ShownOf(Loaded(shown, c), unsure', mem, queue', block', FALSE, failed')
    BY ONLY <1>1, <2>1, <2>3, ShownAnew
  <2> QED BY <1>1, <1>2, <2>4 DEF c
<1>3. CASE original' # Loaded(shown, data')
  <2>1. ~ok => data' = data
    BY DEF RangeIs
  <2>2. /\ original' = original /\ unsure \subseteq unsure'
        /\ (written /\ (failed \/ ~ok) /\ queue[1].kind = "write") => <<f, block>> \in unsure'
        /\ \/ ~ok /\ ~failed /\ queue[1].kind = "write" /\ f \notin inFlight
           \/ ~(ok /\ last /\ ~failed) /\ ~(~ok /\ ~failed /\ queue[1].kind = "write")
    BY <1>3, <2>1 DEF RangeTold, RangeWritten, RangeRead, RangeWriteFailed, RefreshFieldValues
  <2>3. ASSUME NEW g \in Fields, ~UnderwayOf(queue', block', FALSE, failed', g), \A b \in unsure' : b[1] # g
        PROVE  ~UnderwayOf(queue, block, written, failed, g)
    <3> SUFFICES ASSUME UnderwayOf(queue, block, written, failed, g)
                 PROVE  FALSE
      OBVIOUS
    <3>1. /\ queue[1].kind = "write" /\ f = g /\ (written \/ (block > 1 /\ ~failed))
          /\ block \in 1..Blocks[f] /\ Blocks[f] \in Nat /\ f \in Fields
      BY CdiIs DEF UnderwayOf, RangeIs
    <3>2. <<f, block>> \notin unsure'
      <4>1. \A b \in unsure' : b[1] # f
        BY <2>3, <3>1
      <4> QED BY <4>1
    <3>3. CASE ~ok /\ ~failed /\ f \notin inFlight
      <4>1. ~written /\ block > 1
        BY <2>2, <3>1, <3>2, <3>3
      <4>2. Blocks[f] > 1
        BY <3>1, <4>1
      <4>3. 1 \in DOMAIN queue
        BY <1>1, TailIs DEF Types, Typed
      <4>4. Live(queue, failed, 1) /\ Blocks[queue[1].field] > 1 /\ queue[1].field = f
        BY <3>1, <3>3, <4>2 DEF Live, RangeIs
      <4> QED BY <1>1, <3>3, <4>3, <4>4 DEF WritesOf
    <3>4. CASE ~(ok /\ last /\ ~failed) /\ ~(~ok /\ ~failed /\ queue[1].kind = "write")
      <4>1. failed \/ (ok /\ ~last)
        BY <3>1, <3>4
      <4>2. ~failed
        BY <2>2, <3>1, <3>2
      <4>3. ok /\ ~last
        BY <4>1, <4>2
      <4>4. queue' = queue /\ block' = block + 1 /\ failed' = FALSE
        BY <4>2, <4>3 DEF RangeIs
      <4>5. block + 1 > 1
        BY <3>1
      <4>6. UnderwayOf(queue', block', FALSE, failed', g)
        BY <3>1, <4>4, <4>5 DEF UnderwayOf, RangeIs
      <4> QED BY <2>3, <4>6
    <3> QED BY <2>2, <3>3, <3>4
  <2> QED BY <1>1, <2>2, <2>3 DEF ShownOf
<1> QED BY <1>2, <1>3

LEMMA RangeAnswered ==
  ASSUME IInv, queue # <<>>, NEW ok \in BOOLEAN, RangeFinished(queue[1], ok), ok /\ queue[1].kind = "write" => written,
         written' = FALSE, UNCHANGED <<mem, shown, forceRead, modal>>
  PROVE  IInv' /\ KeptBy(queue)
<1>0. PICK f : f = queue[1].field
  OBVIOUS
<1>1. PICK last \in BOOLEAN : last = (block = Blocks[f])
  OBVIOUS
<1>2. RangeIs(f, last, ok) /\ RangeTold(f, last, ok)
  BY <1>0, <1>1, RangeFinishedIs
<1>3. /\ Typed(queue', data') /\ ReadingOf(queue', data')
      /\ FrontOf(queue', block', written', failed', mem') /\ WritesOf(queue', failed', inFlight')
  BY <1>2, AnswerQueue
<1>4. ValueTypes(mem', original', pending') /\ KeptBy(queue)
  BY <1>2, AnswerValues
<1>5. ShownOf(original', unsure', mem', queue', block', written', failed')
  BY <1>2, AnswerShown
<1>6. Agrees(data', unsure', mem', UntoldOf(queue', block', written'))
  <2>1. Agrees(data', unsure', mem, {})
    BY <1>2, AnswerAgrees
  <2>2. mem' = mem /\ written' = FALSE
    BY <1>2 DEF RangeIs
  <2> QED BY <2>1, <2>2 DEF UntoldOf
<1>7. Types /\ Counted /\ MenuIsIdle /\ failed \in BOOLEAN
  BY InvIs DEF IInv, FrontOf
<1>8. /\ FliesOn(f, last, ok) /\ Counted' /\ (outstanding = 0 => outstanding' = 0)
      /\ unsure' \subseteq unsure \cup {<<f, block>>}
  BY <1>2, <1>7, ToldIs
<1>9. MenuIsIdle'
  BY <1>2, <1>7, <1>8 DEF MenuIsIdle, RangeIs
<1>10. Types'
  <2>1. WriteTypes(outstanding', inFlight', modal')
    <3>1. outstanding' \in Nat
      BY <1>8, FS_CardinalityType DEF Counted
    <3>2. inFlight' \subseteq inFlight
      BY <1>8 DEF FliesOn
    <3> QED BY <1>2, <1>7, <3>1, <3>2 DEF Types, WriteTypes, RangeIs
  <2>2. ReadTypes(invalid', shown', toRead', current', forceRead', unsure')
    <3>1. <<f, block>> \in AllBlocks
      BY <1>2, BlocksAre DEF RangeIs
    <3> QED BY <1>2, <1>7, <1>8, <3>1 DEF Types, ReadTypes, RangeIs
  <2> QED BY <1>3, <1>4, <2>1, <2>2 DEF Types
<1> QED BY <1>3, <1>4, <1>5, <1>6, <1>8, <1>9, <1>10, InvNext

LEMMA AnswerKeeps ==
  ASSUME IInv, Answer
  PROVE  IInv' /\ KeptBy(queue)
<1>1. queue # <<>> /\ Head(queue) = queue[1]
  BY InvIs, TailIs DEF Answer, Types, Typed
<1>2. PICK ok \in BOOLEAN :
        /\ ok /\ queue[1].kind = "write" => written
        /\ \/ AddressSpaceFinished(queue[1], ok) \/ AddressSpaceRead(queue[1], ok)
           \/ RangeFinished(queue[1], ok) \/ UpdateCompleteFinished(queue[1], ok)
  BY <1>1 DEF Answer
<1>3. written' = FALSE /\ UNCHANGED <<mem, shown, forceRead, modal>>
  BY DEF Answer
<1>4. pending' = pending => KeptBy(queue)
  BY DEF KeptBy
<1>5. CASE AddressSpaceFinished(queue[1], ok)
  BY <1>1, <1>3, <1>4, <1>5, InfoAnswered
<1>6. CASE AddressSpaceRead(queue[1], ok)
  BY <1>1, <1>3, <1>4, <1>6, ReadAnswered
<1>7. CASE RangeFinished(queue[1], ok)
  BY <1>1, <1>2, <1>3, <1>7, RangeAnswered
<1>8. CASE UpdateCompleteFinished(queue[1], ok)
  <2>1. UpdateCompleteFinished(queue[1], TRUE) \/ UpdateCompleteFinished(queue[1], FALSE)
    BY <1>8
  <2> QED BY <1>1, <1>3, <1>4, <2>1, UpdateAnswered
<1> QED BY <1>2, <1>5, <1>6, <1>7, <1>8

(***************************************************************************)
(* The theorems.                                                           *)
(***************************************************************************)

LEMMA InitHolds == Init => IInv
<1> SUFFICES ASSUME Init PROVE IInv
  OBVIOUS
<1>1. /\ mem \in Memories /\ queue = <<>> /\ block = 1 /\ written = FALSE /\ failed = FALSE
      /\ data = [s \in Spaces |-> <<>>] /\ invalid = {}
      /\ shown = {} /\ original = Nothing /\ pending = Nothing
      /\ outstanding = 0 /\ inFlight = {}
      /\ toRead = <<>> /\ current = None /\ forceRead = FALSE
      /\ modal = NoModal /\ unsure = {}
  BY DEF Init
<1>2. queue \in Seq(Requests) /\ DOMAIN queue = {}
  BY <1>1
<1>3. data \in [Spaces -> Seq(Block)] /\ \A s \in Spaces : data[s] = <<>> /\ Len(data[s]) = 0
  BY <1>1
<1>4. Typed(queue, data)
  BY <1>2, <1>3, IndexIs DEF Typed
<1>5. ValueTypes(mem, original, pending)
  <2>1. mem \in [Fields -> AnyValue] /\ \A f \in Fields : mem[f] \in Value(f)
    BY <1>1, MemoriesAssumption DEF MemoriesAssumption
  <2> QED BY <1>1, <2>1, NothingIs DEF ValueTypes
<1>6. WriteTypes(outstanding, inFlight, modal) /\ ReadTypes(invalid, shown, toRead, current, forceRead, unsure)
  <2>1. NoModal \in Modals
    BY DEF Modals
  <2>2. <<>> \in Seq(Spaces) /\ 0 \in Nat /\ FALSE \in BOOLEAN
    OBVIOUS
  <2>3. WriteTypes(outstanding, inFlight, modal)
    BY <1>1, <2>1 DEF WriteTypes
  <2> QED BY <1>1, <2>2, <2>3 DEF ReadTypes
<1>14. block \in Nat \ {0} /\ written \in BOOLEAN /\ failed \in BOOLEAN /\ ~failed /\ ~written
  <2>1. block \in Nat \ {0}
    BY <1>1
  <2>2. written = FALSE /\ failed = FALSE
    BY <1>1
  <2>3. written \in BOOLEAN /\ failed \in BOOLEAN /\ ~failed /\ ~written
    BY ONLY <2>2
  <2> QED BY <2>1, <2>3
<1>7. TypeOK
  BY <1>14, <1>4, <1>5, <1>6 DEF TypeOK, Typed, ValueTypes, WriteTypes, ReadTypes
<1>8. ReadingOf(queue, data)
  BY <1>2 DEF ReadingOf
<1>9. FrontOf(queue, block, written, failed, mem)
  BY <1>1, <1>14 DEF FrontOf, Ranged
<1>10. WritesOf(queue, failed, inFlight)
  BY <1>1, <1>2 DEF WritesOf
<1>11. Counted /\ MenuIsIdle
  BY <1>1, FS_EmptySet DEF Counted, MenuIsIdle, NoModal
<1>12. Agrees(data, unsure, mem, UntoldOf(queue, block, written))
  <2> SUFFICES ASSUME NEW b \in AllBlocks
               PROVE  ~Covered(b, data)
    BY DEF Agrees
  <2>1. SpaceOf[b[1]] \in Spaces
    BY IndexIs
  <2>2. Index[b] \in 1..Len(Layout[SpaceOf[b[1]]]) /\ Len(Layout[SpaceOf[b[1]]]) \in Nat
    BY <2>1, IndexIs
  <2>3. Len(data[SpaceOf[b[1]]]) = 0
    BY <1>3, <2>1
  <2> QED BY <2>2, <2>3 DEF Covered
<1>13. ShownOf(original, unsure, mem, queue, block, written, failed)
  BY <1>1, ShownNothing
<1> QED BY <1>7, <1>8, <1>9, <1>10, <1>11, <1>12, <1>13 DEF IInv

LEMMA StepHolds == IInv /\ [Next]_vars => IInv'
<1> SUFFICES ASSUME IInv, [Next]_vars PROVE IInv'
  OBVIOUS
<1>1. ASSUME NEW g \in Groups, OnTreeSelectionChanged(g) PROVE IInv'
  BY <1>1, SelectionKeeps
<1>2. ASSUME NEW f \in Fields, NEW v \in Inputs[f] \cup {NoValue}, FieldEdited(f, v) PROVE IInv'
  BY <1>2, EditKeeps
<1>3. CASE NodeCDIRead
  BY <1>3, CDIReadKeeps
<1>4. CASE OnReadAllButtonClicked
  BY <1>4, ReadButtonKeeps
<1>5. CASE AnswerQuestion
  BY <1>5, QuestionKeeps
<1>6. CASE OnWriteButtonClicked
  BY <1>6, WriteButtonKeeps
<1>7. ASSUME NEW f \in Fields, ShowFieldContextMenu(f) PROVE IInv'
  BY <1>7, ShowMenuKeeps
<1>8. CASE ChooseFromMenu
  BY <1>8, MenuKeeps
<1>9. ASSUME NEW f \in GraphFields, NEW v \in Value(f), GraphWrites(f, v) PROVE IInv'
  BY <1>9, GraphWritesKeeps
<1>10. ASSUME NEW s \in {SpaceOf[f] : f \in GraphFields}, GraphReadsAll(s) PROVE IInv'
  <2>1. s \in Spaces
    BY CdiIs
  <2> QED BY <1>10, <2>1, GraphReadsKeeps
<1>11. CASE NodeWrites
  BY <1>11, NodeKeeps
<1>12. CASE Answer
  BY <1>12, AnswerKeeps
<1>13. CASE UNCHANGED vars
  <2>1. UNCHANGED <<mem, block, written, failed, queue, data, invalid, shown, original, pending,
                    outstanding, inFlight, toRead, current, forceRead, modal, unsure>>
    BY <1>13 DEF vars, connVars, memoryVars, shownVars, writeVars, readVars
  <2>2. TypeOK'
    BY <2>1 DEF IInv, TypeOK
  <2> QED BY <2>1, <2>2 DEF IInv, Counted, MenuIsIdle
<1> QED BY <1>1, <1>2, <1>3, <1>4, <1>5, <1>6, <1>7, <1>8, <1>9, <1>10, <1>11, <1>12, <1>13 DEF Next

(* The invariant holds of every CDI, node and number of requests. *)
THEOREM EditorInvariance == Spec => []IInv
<1> QED BY InitHolds, StepHolds, PTL DEF Spec

(* The state of the editor, the copies and the queue has its type. *)
THEOREM EditorTypeCorrect == Spec => []TypeOK
<1>1. IInv => TypeOK
  BY DEF IInv
<1> QED BY <1>1, EditorInvariance, PTL

(* What the editor compares a change with is what the node has, in whatever order the *)
(* editor and the event graph read and wrote it, and in however many requests.        *)
THEOREM EditorShowsTheTruth == Spec => []ShownIsTrue
<1>1. IInv => ShownIsTrue
  <2> SUFFICES ASSUME IInv PROVE ShownIsTrue
    OBVIOUS
  <2>1. ShownOf(original, unsure, mem, queue, block, written, failed)
    BY DEF IInv
  <2>2. \A f \in Fields : UnderwayOf(queue, block, written, failed, f) => Underway(f)
    <3>1. queue # <<>> => Head(queue) = queue[1]
      BY InvIs, TailIs DEF Types, Typed
    <3> QED BY <3>1 DEF UnderwayOf, Underway
  <2> QED BY <2>1, <2>2 DEF ShownOf, ShownIsTrue
<1> QED BY <1>1, EditorInvariance, PTL

(* Each write that the buttons wait for is counted once and is still to be answered. *)
THEOREM WritesAreAwaited == Spec => []InFlightIsQueued
<1>1. IInv => InFlightIsQueued
  BY DEF IInv, Counted, WritesOf, Live, InFlightIsQueued
<1> QED BY <1>1, EditorInvariance, PTL

(* removeWrittenChanges takes no change away that the node does not have. *)
THEOREM ChangesStay == Spec => ChangesAreKept
<1>1. IInv /\ [Next]_vars =>
        [Answer => \A f \in Fields :
           pending[f] # NoValue /\ pending'[f] # pending[f] =>
             \/ mem[f] = pending[f] \/ \E b \in unsure' : b[1] = f
             \/ Head(queue).kind = "range" /\ Head(queue).field = f]_vars
  <2> SUFFICES ASSUME IInv, Answer
               PROVE  \A f \in Fields :
                        pending[f] # NoValue /\ pending'[f] # pending[f] =>
                          \/ mem[f] = pending[f] \/ \E b \in unsure' : b[1] = f
                          \/ Head(queue).kind = "range" /\ Head(queue).field = f
    OBVIOUS
  <2>1. KeptBy(queue)
    BY AnswerKeeps
  <2>2. Head(queue) = queue[1]
    BY InvIs, TailIs DEF Answer, Types, Typed
  <2> QED BY <2>1, <2>2 DEF KeptBy
<1> QED BY <1>1, EditorInvariance, PTL DEF Spec, ChangesAreKept

-------------------------------------------------------------------------------
(* Lists of events: what sorting and bisection do, for lists of any length.    *)

Sorted(l) == \A i, j \in DOMAIN l : i < j => l[i] <= l[j]
Before(l, i) == {j \in DOMAIN l : l[j] < l[i] \/ (l[j] = l[i] /\ j <= i)}
Places(l) == [i \in DOMAIN l |-> Rank(l, i)]

\* An element that comes before another one has the lower rank, and ranks are places.
LEMMA RankIs ==
  ASSUME NEW l \in Seq(Int)
  PROVE  /\ \A i \in DOMAIN l : Rank(l, i) \in DOMAIN l
         /\ \A i, j \in DOMAIN l :
              i # j /\ (l[i] < l[j] \/ (l[i] = l[j] /\ i < j)) =>
                Rank(l, i) < Rank(l, j)
<1> DEFINE D == DOMAIN l
<1>1. D = 1..Len(l) /\ Len(l) \in Nat /\ \A i \in D : l[i] \in Int
  OBVIOUS
<1>2. IsFiniteSet(D) /\ Cardinality(D) = Len(l)
  BY SMTT(30), <1>1, FS_Interval
<1>3. \A i \in D : Before(l, i) \in SUBSET D /\ i \in Before(l, i)
                   /\ Rank(l, i) = Cardinality(Before(l, i))
  BY <1>1 DEF Before, Rank
<1>4. \A i \in D : IsFiniteSet(Before(l, i)) /\ Rank(l, i) \in Nat
                   /\ Rank(l, i) <= Len(l)
  BY <1>2, <1>3, FS_Subset, FS_CardinalityType
<1>5. \A i \in D : Rank(l, i) # 0
  BY <1>3, <1>4, FS_EmptySet
<1>6. ASSUME NEW i \in D, NEW j \in D, i # j, l[i] < l[j] \/ (l[i] = l[j] /\ i < j)
      PROVE  Rank(l, i) < Rank(l, j)
  <2>1. Before(l, i) \in SUBSET Before(l, j) /\ j \notin Before(l, i)
    BY <1>1, <1>6 DEF Before
  <2>2. Cardinality(Before(l, i)) <= Cardinality(Before(l, j))
        /\ Cardinality(Before(l, i)) # Cardinality(Before(l, j))
    BY <2>1, <1>3, <1>4, FS_Subset
  <2> QED BY <2>2, <1>3, <1>4
<1> QED BY <1>1, <1>4, <1>5, <1>6

\* Every place is the rank of just one element.
LEMMA PlacesAre ==
  ASSUME NEW l \in Seq(Int), NEW place \in DOMAIN l
  PROVE  \E i \in DOMAIN l : /\ Rank(l, i) = place
                                /\ \A j \in DOMAIN l : Rank(l, j) = place => j = i
<1> DEFINE D == DOMAIN l
           f == Places(l)
<1>1. D = 1..Len(l) /\ Len(l) \in Nat /\ \A i \in D : l[i] \in Int
  OBVIOUS
<1>2. IsFiniteSet(D)
  BY <1>1, FS_Interval
<1>3. f \in [D -> D] /\ \A i \in D : f[i] = Rank(l, i)
  BY RankIs DEF Places
<1>4. \A i, j \in D : i # j => Rank(l, i) # Rank(l, j)
  <2> SUFFICES ASSUME NEW i \in D, NEW j \in D, i # j PROVE Rank(l, i) # Rank(l, j)
    OBVIOUS
  <2>1. \/ l[i] < l[j] \/ (l[i] = l[j] /\ i < j)
        \/ l[j] < l[i] \/ (l[j] = l[i] /\ j < i)
    BY <1>1
  <2>2. Rank(l, i) \in 1..Len(l) /\ Rank(l, j) \in 1..Len(l)
    BY <1>1, RankIs
  <2> QED BY <2>1, <2>2, RankIs
<1>5. f \in Injection(D, D)
  BY <1>3, <1>4 DEF Injection, IsInjective
<1>6. f \in Surjection(D, D)
  BY <1>2, <1>5, FS_Injection
<1>7. PICK i \in D : f[i] = place
  BY <1>6 DEF Surjection
<1> QED BY <1>3, <1>4, <1>7

\* Sorting gives a l that is sorted and has the same elements.
LEMMA SortedListIs ==
  ASSUME NEW l \in Seq(Int)
  PROVE  /\ SortedList(l) \in Seq(Int) /\ Sorted(SortedList(l))
         /\ DOMAIN SortedList(l) = DOMAIN l
         /\ \A p \in DOMAIN l : \E i \in DOMAIN l : SortedList(l)[p] = l[i]
         /\ \A i \in DOMAIN l : \E p \in DOMAIN l : SortedList(l)[p] = l[i]
<1> DEFINE D == DOMAIN l
           s == SortedList(l)
           At_(p) == CHOOSE i \in D : Rank(l, i) = p
<1>1. D = 1..Len(l) /\ Len(l) \in Nat /\ \A i \in D : l[i] \in Int
  OBVIOUS
<1>2. \A p \in D : At_(p) \in D /\ Rank(l, At_(p)) = p /\ \A j \in D : Rank(l, j) = p => j = At_(p)
  BY PlacesAre
<1>3. DOMAIN s = D /\ \A p \in D : s[p] = l[At_(p)]
  BY DEF SortedList
<1>4. s \in Seq(Int)
  <2>1. s = [p \in 1..Len(l) |-> l[At_(p)]]
    BY <1>1 DEF SortedList
  <2>2. \A p \in 1..Len(l) : l[At_(p)] \in Int
    BY <1>1, <1>2
  <2> HIDE DEF s, At_
  <2> QED BY <2>1, <2>2, <1>1
<1> HIDE DEF At_, s
<1>5. Sorted(s)
  <2> SUFFICES ASSUME NEW p \in D, NEW q \in D, p < q PROVE s[p] <= s[q]
    BY <1>3 DEF Sorted
  <2>1. l[At_(p)] \in Int /\ l[At_(q)] \in Int /\ At_(p) # At_(q)
    BY <1>1, <1>2
  <2>2. ~(l[At_(q)] < l[At_(p)])
    <3> DEFINE a == At_(p)
               c == At_(q)
    <3>1. a \in D /\ c \in D /\ Rank(l, a) = p /\ Rank(l, c) = q /\ c # a
      BY <1>2, <2>1
    <3> HIDE DEF a, c
    <3>2. l[c] < l[a] => Rank(l, c) < Rank(l, a)
      BY ONLY <3>1, RankIs, l \in Seq(Int)
    <3>3. ~(q < p)
      BY ONLY <1>1, p \in D, q \in D, p < q
    <3> QED BY ONLY <3>1, <3>2, <3>3 DEF a, c
  <2> QED BY <2>1, <2>2, <1>3
<1>6. \A i \in D : \E p \in D : s[p] = l[i]
  <2> SUFFICES ASSUME NEW i \in D PROVE \E p \in D : s[p] = l[i]
    OBVIOUS
  <2>1. Rank(l, i) \in D
    BY RankIs
  <2>2. At_(Rank(l, i)) = i
    BY <1>2, <2>1
  <2> QED BY <2>1, <2>2, <1>3
<1>7. \A p \in D : \E i \in D : s[p] = l[i]
  BY <1>2, <1>3
<1> QED BY <1>3, <1>4, <1>5, <1>6, <1>7 DEF s

\* What a list has.
Has(l, e) == \E i \in DOMAIN l : l[i] = e

LEMMA SeqMadeOf ==
  ASSUME NEW S, NEW T, NEW q \in Seq(T), \A i \in DOMAIN q : q[i] \in S
  PROVE  q \in Seq(S)
<1>1. q = [i \in 1..Len(q) |-> q[i]] /\ Len(q) \in Nat /\ DOMAIN q = 1..Len(q)
  OBVIOUS
<1>2. [i \in 1..Len(q) |-> q[i]] \in [1..Len(q) -> S]
  BY <1>1
<1>3. q \in [1..Len(q) -> S]
  BY <1>1, <1>2
<1> QED BY <1>1, <1>3

LEMMA SeqInt ==
  ASSUME NEW S \in SUBSET Int, NEW q \in Seq(S)
  PROVE  q \in Seq(Int) /\ \A i \in 1..Len(q) : q[i] \in S /\ q[i] \in Int
<1>1. \A i \in DOMAIN q : q[i] \in S
  OBVIOUS
<1>2. \A i \in DOMAIN q : q[i] \in Int
  BY <1>1
<1>3. DOMAIN q = 1..Len(q)
  OBVIOUS
<1> QED BY <1>1, <1>2, <1>3, SeqMadeOf

LEMMA AddEventIs ==
  ASSUME NEW S \in SUBSET Int, NEW l \in Seq(S), NEW e \in S, NEW sort \in BOOLEAN
  PROVE  /\ AddEvent(l, e, sort) \in Seq(S)
         /\ \A x : Has(AddEvent(l, e, sort), x) <=> (Has(l, x) \/ x = e)
         /\ sort => Sorted(AddEvent(l, e, sort))
<1> DEFINE a == Append(l, e)
           s == SortedList(a)
<1>0. a \in Seq(S)
  OBVIOUS
<1>1. a \in Seq(S) /\ a \in Seq(Int) /\ DOMAIN a = 1..(Len(l) + 1) /\ DOMAIN l = 1..Len(l) /\ Len(l) \in Nat
      /\ (\A i \in 1..Len(l) : a[i] = l[i]) /\ a[Len(l) + 1] = e
  <2>1. a \in Seq(Int)
    BY <1>0, SeqInt
  <2> QED BY <1>0, <2>1
<1>2. \A x : Has(a, x) <=> (Has(l, x) \/ x = e)
  BY <1>1 DEF Has
<1>3. s \in Seq(S) /\ (\A x : Has(s, x) <=> Has(a, x)) /\ Sorted(s)
  <2> HIDE DEF a
  <2> USE <1>1
  <2>1. s \in Seq(Int) /\ Sorted(s) /\ DOMAIN s = DOMAIN a
    BY SortedListIs
  <2>2. /\ \A p \in DOMAIN a : \E i \in DOMAIN a : s[p] = a[i]
        /\ \A i \in DOMAIN a : \E p \in DOMAIN a : s[p] = a[i]
    BY SortedListIs
  <2> HIDE DEF s
  <2>3. \A x : Has(s, x) <=> Has(a, x)
    BY <2>1, <2>2 DEF Has
  <2>4. \A p \in DOMAIN s : s[p] \in S
    BY <2>1, <2>2
  <2>5. s \in Seq(S)
    BY <2>1, <2>4, SeqMadeOf
  <2> QED BY <2>1, <2>3, <2>5
<1> HIDE DEF a, s
<1>4. CASE sort
  <2>1. AddEvent(l, e, sort) = s
    BY <1>4 DEF AddEvent, s, a
  <2> QED BY <2>1, <1>2, <1>3
<1>5. CASE ~sort
  <2>1. AddEvent(l, e, sort) = a
    BY <1>5 DEF AddEvent, a
  <2> QED BY <2>1, <1>1, <1>2, <1>5
<1> QED BY <1>4, <1>5

\* Removing an event takes no other one away, and a sorted list stays sorted.
LEMMA RemoveEventIs ==
  ASSUME NEW S \in SUBSET Int, NEW l \in Seq(S), NEW e
  PROVE  /\ RemoveEvent(l, e) \in Seq(S)
         /\ \A x : Has(l, x) /\ x # e => Has(RemoveEvent(l, e), x)
         /\ Sorted(l) => Sorted(RemoveEvent(l, e))
<1> DEFINE r == RemoveEvent(l, e)
           Late(i) == \E j \in DOMAIN l : l[j] = e /\ j <= i
           Moves(i) == i < Len(l) - 1 /\ Late(i)
<1>1. DOMAIN l = 1..Len(l) /\ Len(l) \in Nat /\ \A i \in 1..Len(l) : l[i] \in S /\ l[i] \in Int
  BY SeqInt
<1>2. r = [i \in 1..Len(l) |-> IF Moves(i) THEN l[i + 1] ELSE l[i]]
  BY <1>1 DEF RemoveEvent
<1>3. DOMAIN r = 1..Len(l) /\ (\A i \in 1..Len(l) : r[i] = IF Moves(i) THEN l[i + 1] ELSE l[i])
  BY <1>2
<1>4. \A i \in 1..Len(l) : Moves(i) => i + 1 \in 1..Len(l)
  BY <1>1
<1>5. \A i, j \in 1..Len(l) : (i <= j /\ Late(i)) => Late(j)
  BY <1>1
<1>6. \A i \in 1..Len(l) : l[i] = e => Late(i)
  BY <1>1
<1> HIDE DEF Late, r
<1>7. r \in Seq(S)
  <2>1. \A i \in 1..Len(l) : (IF Moves(i) THEN l[i + 1] ELSE l[i]) \in S
    BY <1>1, <1>4
  <2> HIDE DEF Moves
  <2> QED BY <2>1, <1>1, <1>2
<1>8. ASSUME NEW i \in 1..Len(l), l[i] # e
      PROVE  \E k \in 1..Len(l) : r[k] = l[i]
  <2>1. CASE ~Moves(i)
    BY <2>1, <1>3
  <2>2. CASE Moves(i)
    <3>1. PICK j \in 1..Len(l) : l[j] = e /\ j <= i
      BY <2>2, <1>1 DEF Late
    <3>2. j < i /\ i - 1 \in 1..Len(l) /\ j <= i - 1 /\ i - 1 < Len(l) - 1 /\ (i - 1) + 1 = i
      BY <3>1, <1>8, <2>2, <1>1
    <3>3. Late(i - 1)
      BY <3>1, <3>2, <1>5, <1>6
    <3> QED BY <3>2, <3>3, <1>3
  <2> QED BY <2>1, <2>2
<1>9. ASSUME Sorted(l), NEW i \in 1..Len(l), NEW j \in 1..Len(l), i < j
      PROVE  r[i] <= r[j]
  <2>1. \A p, q \in 1..Len(l) : p <= q => l[p] <= l[q]
    BY <1>1, <1>9 DEF Sorted
  <2>2. CASE Moves(i)
    <3>1. i + 1 \in 1..Len(l) /\ i + 1 <= j /\ r[i] = l[i + 1]
      BY <2>2, <1>1, <1>3, <1>4, <1>9
    <3>2. r[j] = l[j] \/ (r[j] = l[j + 1] /\ j + 1 \in 1..Len(l))
      BY <1>3, <1>4
    <3> QED BY <3>1, <3>2, <2>1, <1>1
  <2>3. CASE ~Moves(i)
    <3>1. r[i] = l[i]
      BY <2>3, <1>3
    <3>2. r[j] = l[j] \/ (r[j] = l[j + 1] /\ j + 1 \in 1..Len(l))
      BY <1>3, <1>4
    <3> QED BY <3>1, <3>2, <2>1, <1>1, <1>9
  <2> QED BY <2>2, <2>3
<1>10. \A x : Has(l, x) /\ x # e => Has(r, x)
  BY <1>1, <1>3, <1>8 DEF Has
<1>11. Sorted(l) => Sorted(r)
  BY <1>3, <1>9 DEF Sorted
<1> QED BY <1>7, <1>10, <1>11 DEF r

\* One step of the bisection in the range r, where f tells of smaller ranges.
Bisects(l, e, f, r) ==
  /\ r[1] < r[2]
  /\ LET middle == (r[1] + r[2]) \div 2
         there  == l[middle + 1]
     IN  \/ e = there
         \/ e < there /\ f[<<r[1], middle>>]
         \/ e > there /\ f[<<middle + 1, r[2]>>]

LEMMA MiddleIs ==
  ASSUME NEW lo \in Nat, NEW up \in Nat, lo < up
  PROVE  /\ (lo + up) \div 2 \in Nat /\ lo <= (lo + up) \div 2 /\ (lo + up) \div 2 < up
  OBVIOUS

LEMMA LeastIs ==
  ASSUME NEW T \in SUBSET Nat, T # {}
  PROVE  \E k \in T : \A j \in T : k <= j
<1>1. PICK k \in T : \A j \in T : ~(<<j, k>> \in OpToRel(<, Nat))
  BY NatLessThanWellFounded, WFMin
<1>2. \A j \in T : ~(j < k)
  BY <1>1 DEF OpToRel
<1> QED BY <1>2

\* A step looks at two smaller ranges only.
LEMMA HalvesAre ==
  ASSUME NEW l \in Seq(Int), NEW e \in Int, NEW r \in (0..Len(l)) \X (0..Len(l)), r[1] < r[2],
         NEW m, m = (r[1] + r[2]) \div 2
  PROVE  /\ <<r[1], m>> \in (0..Len(l)) \X (0..Len(l)) /\ m - r[1] < r[2] - r[1]
         /\ <<m + 1, r[2]>> \in (0..Len(l)) \X (0..Len(l)) /\ r[2] - (m + 1) < r[2] - r[1]
         /\ m + 1 \in DOMAIN l /\ r[1] <= m /\ m < r[2]
<1>1. r[1] \in Nat /\ r[2] \in Nat /\ Len(l) \in Nat /\ r[1] <= Len(l) /\ r[2] <= Len(l) /\ DOMAIN l = 1..Len(l)
  OBVIOUS
<1>2. m \in Nat /\ r[1] <= m /\ m < r[2]
  BY <1>1, MiddleIs
<1>3. m \in 0..Len(l) /\ m + 1 \in 0..Len(l) /\ m + 1 \in 1..Len(l)
  BY <1>1, <1>2
<1>4. r[1] \in 0..Len(l) /\ r[2] \in 0..Len(l)
  BY <1>1
<1>5. m - r[1] < r[2] - r[1] /\ r[2] - (m + 1) < r[2] - r[1]
  BY <1>1, <1>2
<1> QED BY <1>1, <1>2, <1>3, <1>4, <1>5

LEMMA BisectsSame ==
  ASSUME NEW l \in Seq(Int), NEW e \in Int, NEW r \in (0..Len(l)) \X (0..Len(l)), NEW f, NEW g,
         \A s \in (0..Len(l)) \X (0..Len(l)) : s[2] - s[1] < r[2] - r[1] => f[s] = g[s]
  PROVE  Bisects(l, e, f, r) = Bisects(l, e, g, r)
<1>1. CASE ~(r[1] < r[2])
  BY <1>1 DEF Bisects
<1>2. CASE r[1] < r[2]
  <2> DEFINE m == (r[1] + r[2]) \div 2
  <2>1. /\ <<r[1], m>> \in (0..Len(l)) \X (0..Len(l)) /\ m - r[1] < r[2] - r[1]
        /\ <<m + 1, r[2]>> \in (0..Len(l)) \X (0..Len(l)) /\ r[2] - (m + 1) < r[2] - r[1]
    BY <1>2, HalvesAre
  <2> HIDE DEF m
  <2>2. f[<<r[1], m>>] = g[<<r[1], m>>] /\ f[<<m + 1, r[2]>>] = g[<<m + 1, r[2]>>]
    BY <2>1
  <2> QED BY <2>2 DEF Bisects, m
<1> QED BY <1>1, <1>2

\* The bisection of the code exists: it goes on in smaller ranges only.
LEMMA BisectionIs ==
  ASSUME NEW l \in Seq(Int), NEW e \in Int
  PROVE  \E f : f = [r \in (0..Len(l)) \X (0..Len(l)) |-> Bisects(l, e, f, r)]
<1> DEFINE N == (0..Len(l)) \X (0..Len(l))
           G(f) == [r \in N |-> Bisects(l, e, f, r)]
           Good(f, k) == \A r \in N : r[2] - r[1] < k => f[r] = Bisects(l, e, f, r)
           Bad == {k \in Nat : \A f : ~Good(f, k)}
<1>0. Len(l) \in Nat /\ \A r \in N : r[1] \in Nat /\ r[2] \in Nat /\ r[2] - r[1] \in Int /\ r[2] - r[1] < Len(l) + 1
  OBVIOUS
<1>a. \A f : \A r \in N : G(f)[r] = Bisects(l, e, f, r)
  OBVIOUS
<1>1. \A f : Good(G(f), 0)
  <2> SUFFICES ASSUME NEW f, NEW r \in N, r[2] - r[1] < 0
               PROVE  G(f)[r] = Bisects(l, e, G(f), r)
    OBVIOUS
  <2>1. ~(r[1] < r[2])
    BY <1>0
  <2> HIDE DEF N, G
  <2>2. Bisects(l, e, f, r) = Bisects(l, e, G(f), r)
    BY <2>1 DEF Bisects
  <2> QED BY <2>2, <1>a
<1>2. ASSUME NEW k \in Nat, NEW f, Good(f, k)
      PROVE  Good(G(f), k + 1)
  <2> SUFFICES ASSUME NEW r \in N, r[2] - r[1] < k + 1
               PROVE  G(f)[r] = Bisects(l, e, G(f), r)
    OBVIOUS
  <2>1. \A s \in N : s[2] - s[1] < r[2] - r[1] => f[s] = G(f)[s]
    <3> SUFFICES ASSUME NEW s \in N, s[2] - s[1] < r[2] - r[1] PROVE f[s] = G(f)[s]
      OBVIOUS
    <3>1. s[2] - s[1] < k
      BY <1>0
    <3> QED BY <3>1, <1>2, <1>a
  <2> HIDE DEF G
  <2>2. Bisects(l, e, f, r) = Bisects(l, e, G(f), r)
    BY <2>1, BisectsSame
  <2> QED BY <2>2, <1>a
<1> HIDE DEF G, Good, N
<1>3. Bad = {}
  <2> SUFFICES ASSUME Bad # {} PROVE FALSE
    OBVIOUS
  <2>1. PICK k \in Bad : \A j \in Bad : k <= j
    BY LeastIs
  <2>2. k # 0
    BY <1>1
  <2>3. k - 1 \in Nat /\ k - 1 \notin Bad /\ (k - 1) + 1 = k
    BY <2>1, <2>2
  <2>4. PICK f : Good(f, k - 1)
    BY <2>3
  <2>5. Good(G(f), k)
    BY <2>3, <2>4, <1>2
  <2> QED BY <2>5
<1>4. PICK f : Good(f, Len(l) + 1)
  <2>1. Len(l) + 1 \in Nat
    BY <1>0
  <2>2. Len(l) + 1 \notin Bad
    BY <1>3
  <2> HIDE <1>3
  <2> QED BY <2>1, <2>2
<1>5. \A r \in N : f[r] = Bisects(l, e, f, r)
  BY ONLY <1>0, <1>4 DEF Good
<1>6. \A r \in N : G(f)[r] = f[r]
  BY <1>5, <1>a
<1>7. \A r \in N : Bisects(l, e, f, r) = Bisects(l, e, G(f), r)
  BY <1>6, BisectsSame DEF N
<1>8. G(f) = [r \in N |-> Bisects(l, e, G(f), r)]
  BY <1>7 DEF G
<1> QED BY <1>8 DEF N

LEMMA LessIs ==
  ASSUME NEW a \in Nat, NEW b \in Nat, a <= b
  PROVE  b - a \in Nat
  OBVIOUS

\* A list that is sorted is searched rightly: what it has is found.
LEMMA HasEventIs ==
  ASSUME NEW l \in Seq(Int), NEW e \in Int, Sorted(l), Has(l, e)
  PROVE  HasEvent(l, e)
<1> DEFINE N == (0..Len(l)) \X (0..Len(l))
           found == CHOOSE f : f = [r \in N |-> Bisects(l, e, f, r)]
           In(r) == \E i \in DOMAIN l : r[1] < i /\ i <= r[2] /\ l[i] = e
           Bad == {k \in Nat : \E r \in N : k = r[2] - r[1] /\ In(r) /\ ~found[r]}
<1>0. Len(l) \in Nat /\ DOMAIN l = 1..Len(l) /\ \A i \in 1..Len(l) : l[i] \in Int
  OBVIOUS
<1>1. found = [r \in N |-> Bisects(l, e, found, r)]
  BY BisectionIs
<1>2. \A r \in N : found[r] = Bisects(l, e, found, r)
  BY <1>1
<1>3. HasEvent(l, e) = found[<<0, Len(l)>>]
  BY DEF HasEvent, Bisects
<1> HIDE DEF found
<1>4. Bad = {}
  <2> SUFFICES ASSUME Bad # {} PROVE FALSE
    OBVIOUS
  <2>1. PICK k \in Bad : \A j \in Bad : k <= j
    BY LeastIs
  <2>2. PICK r \in N : k = r[2] - r[1] /\ In(r) /\ ~found[r]
    OBVIOUS
  <2>3. PICK i \in DOMAIN l : r[1] < i /\ i <= r[2] /\ l[i] = e
    BY <2>2
  <2>4. r[1] < r[2] /\ r[1] \in Nat /\ r[2] \in Nat
    BY <2>3, <1>0
  <2> DEFINE m == (r[1] + r[2]) \div 2
             low == <<r[1], m>>
             high == <<m + 1, r[2]>>
  <2>5. /\ low \in N /\ m - r[1] < r[2] - r[1]
        /\ high \in N /\ r[2] - (m + 1) < r[2] - r[1]
        /\ m + 1 \in DOMAIN l /\ r[1] <= m /\ m < r[2]
    BY <2>4, HalvesAre
  <2>6. ~Bisects(l, e, found, r)
    BY <1>2, <2>2
  <2>7. e # l[m + 1] /\ ~(e < l[m + 1] /\ found[low]) /\ ~(e > l[m + 1] /\ found[high])
    BY <2>4, <2>6 DEF Bisects
  <2>8. low[1] = r[1] /\ low[2] = m /\ high[1] = m + 1 /\ high[2] = r[2]
    OBVIOUS
  <2> HIDE DEF m, low, high, N
  <2>9. m \in Nat
    BY <2>5, <2>8 DEF N
  <2>10. ~In(low) \/ found[low]
    <3> SUFFICES ASSUME In(low), ~found[low] PROVE FALSE
      OBVIOUS
    <3>a. m - r[1] = low[2] - low[1]
      BY ONLY <2>8
    <3>b. m - r[1] \in Nat
      BY ONLY <2>5, <2>9, <2>4, LessIs
    <3>0. m - r[1] \in Nat /\ m - r[1] = low[2] - low[1]
      BY ONLY <3>a, <3>b
    <3>1. m - r[1] \in Bad
      BY <3>0, <2>5
    <3>2. k <= m - r[1]
      BY <3>1, <2>1
    <3>3. k = r[2] - r[1]
      BY <2>2
    <3> QED BY ONLY SMTT(30), <3>2, <3>3, <2>5, <2>9, <2>4
  <2>11. ~In(high) \/ found[high]
    <3> SUFFICES ASSUME In(high), ~found[high] PROVE FALSE
      OBVIOUS
    <3>1. m + 1 < r[2]
      <4>1. \E x \in DOMAIN l : m + 1 < x /\ x <= r[2]
        BY <2>8
      <4> QED BY ONLY SMTT(30), <4>1, <2>9, <2>4, <1>0
    <3>a. r[2] - (m + 1) = high[2] - high[1]
      BY ONLY <2>8
    <3>c. m + 1 \in Nat /\ m + 1 <= r[2]
      BY ONLY <3>1, <2>9, <2>4
    <3>b. r[2] - (m + 1) \in Nat
      BY ONLY <3>c, <2>4, LessIs
    <3>0. r[2] - (m + 1) \in Nat /\ r[2] - (m + 1) = high[2] - high[1]
      BY ONLY <3>a, <3>b
    <3>2. r[2] - (m + 1) \in Bad
      BY <3>0, <2>5
    <3>3. k <= r[2] - (m + 1)
      BY <3>2, <2>1
    <3>4. k = r[2] - r[1]
      BY <2>2
    <3> QED BY ONLY <3>3, <3>4, <2>5, <2>9, <2>4
  <2>12. CASE e < l[m + 1]
    <3>1. i < m + 1
      BY SMTT(30), <2>3, <2>5, <2>12, <1>0, <2>9 DEF Sorted
    <3>2. In(low)
      BY <3>1, <2>3, <2>8, <2>9, <1>0
    <3> QED BY <3>2, <2>10, <2>7, <2>12
  <2>13. CASE e > l[m + 1]
    <3>0. i \in Int /\ m + 1 \in Int /\ l[i] \in Int /\ l[m + 1] \in Int
      BY <2>3, <2>5, <1>0
    <3>1. m + 1 < i
      <4>1. ~(i < m + 1) /\ i # m + 1
        BY <3>0, <2>3, <2>5, <2>13 DEF Sorted
      <4> QED BY ONLY <4>1, <3>0
    <3>2. In(high)
      BY <3>1, <2>3, <2>8
    <3> QED BY <3>2, <2>11, <2>7, <2>13
  <2> QED BY <2>12, <2>13, <2>7, <2>5, <1>0
<1>5. <<0, Len(l)>> \in N /\ In(<<0, Len(l)>>)
  BY <1>0 DEF Has
<1>6. found[<<0, Len(l)>>]
  <2>1. Len(l) \notin Bad
    BY <1>4
  <2> QED BY <2>1, <1>0, <1>5
<1> QED BY <1>3, <1>6

-------------------------------------------------------------------------------
(* The network: the parts of the invariant. *)

\* What a device sends is in its own name.
OwnFrame(n, a, f) ==
  /\ f.src = a /\ a # NoAlias
  /\ f.kind \in {"verified", "info"} => f.id = n
  /\ f.part # "only" <=> f.kind = "info"
  /\ f.kind \in Kinds => f.event \in Events
OwnAll(n, a, q) == \A k \in DOMAIN q : OwnFrame(n, a, q[k])
OwnFrames == \A n \in Nodes : OwnAll(n, alias[n], out[n])

DistinctIn(al) == \A m, n \in Nodes : al[m] = al[n] /\ al[m] # NoAlias => m = n

\* An entry has the alias of its node, and no other node has it.
MatchingIn(t, al) ==
  \A i \in DOMAIN t : \A n \in Nodes : al[n] # NoAlias => (t[i].id = n <=> t[i].alias = al[n])

\* The two parts of simple node information follow each other.
Paired(q) == \A k \in DOMAIN q :
  /\ q[k].part = "first" => k + 1 \in DOMAIN q
  /\ k + 1 \in DOMAIN q => (q[k].part = "first" <=> q[k + 1].part = "last")

\* The next frame of a device is the second part, and its entry has the first one.
Half(q) == q # <<>> /\ q[1].part = "last"
RxOf(e, q) == e.rx = IF Half(q) THEN <<[part |-> "first", id |-> e.id]>> ELSE <<>>

\* A device that was there at the last refresh was asked, or will be, or has answered.
HasKind(q, kind) == \E k \in DOMAIN q : q[k].kind = kind
HasLast(q) == \E k \in DOMAIN q : q[k].part = "last"
AsksFor(q, kind, to) == \E k \in DOMAIN q : q[k] = Frame(kind, NoAlias, to)
Enters(e, a, q, o) ==
  /\ e.protocols \/ AsksFor(q, "protocols?", a) \/ HasKind(o, "protocols")
  /\ e.info = "own" \/ AsksFor(q, "info?", a) \/ HasLast(o)
Seen(t, n, a, q, o) ==
  /\ (\A i \in DOMAIN t : t[i].id # n) => (AsksFor(q, "verify", NoAlias) \/ HasKind(o, "verified"))
  /\ \A i \in DOMAIN t : t[i].id = n => Enters(t[i], a, q, o)

AllPaired(o) == \A n \in Nodes : Paired(o[n])
AllRx(t, o) == \A i \in DOMAIN t : RxOf(t[i], o[t[i].id])
AllSeen(t, al, nw, o) == \A n \in Nodes : (al[n] # NoAlias /\ n \notin nw) => Seen(t, n, al[n], o[Tool], o[n])
OwnInfo(t) == \A i \in DOMAIN t : t[i].info # "garbled"

Undisturbed ==
  /\ MatchingIn(table, alias) /\ AllPaired(out) /\ AllRx(table, out)
  /\ AllSeen(table, alias, new, out) /\ OwnInfo(table)

\* The lists have what was added, and are sorted whenever they are bisected.
Listed == \A n \in Nodes, k \in Kinds :
  /\ \A e \in wanted[n][k] : Has(list[n][k], e)
  /\ open[n][k] \/ Sorted(list[n][k])

\* What the GUI has to ask, and of whom.
Asks == {f \in Frames : f.kind \in {"verify", "protocols?", "info?"}}

NetworkInv == NetworkTypeOK /\ out[Tool] \in Seq(Asks) /\ OwnFrames /\ DistinctIn(alias) /\ (disturbed \/ Undisturbed) /\ Listed

-------------------------------------------------------------------------------
(* Frames, and what a device writes. *)

LEMMA ConstantsAre ==
  /\ Aliases \subseteq Nat \ {0} /\ Events \subseteq Int /\ NoAlias = 0 /\ NoAlias \notin Aliases
  /\ NoNode \notin Nodes /\ Tool \notin Nodes /\ TxSize \in Nat /\ RxParts \in Nat /\ RxParts >= 2
  /\ Kinds = {"produced", "consumed"} /\ MaxExternal \in Nat
  BY NodesAssumption, NumbersAssumption, SizesAssumption DEF NoAlias, Kinds

LEMMA FrameIs ==
  ASSUME NEW kind \in FrameKinds, NEW a \in Aliases \cup {NoAlias}, NEW b \in Aliases \cup {NoAlias}
  PROVE  /\ Frame(kind, a, b) \in Frames
         /\ Frame(kind, a, b).kind = kind /\ Frame(kind, a, b).src = a /\ Frame(kind, a, b).to = b
         /\ Frame(kind, a, b).part = "only" /\ Frame(kind, a, b).id = NoNode
  BY DEF Frame, Frames

LEMMA KnownFrame ==
  ASSUME NEW f \in Frames, NEW n \in Nodes
  PROVE  [f EXCEPT !.id = n] \in Frames
  BY DEF Frames

LEMMA PartFrame ==
  ASSUME NEW f \in Frames, NEW n \in Nodes, NEW p \in {"first", "last", "only"}
  PROVE  [f EXCEPT !.part = p, !.id = n] \in Frames
  BY DEF Frames

LEMMA VerifiedIs ==
  ASSUME NEW n \in Nodes, alias[n] \in Aliases
  PROVE  /\ Verified(n) \in Frames /\ OwnFrame(n, alias[n], Verified(n))
         /\ Verified(n).kind = "verified" /\ Verified(n).part = "only"
<1>0. "verified" \in FrameKinds
  BY DEF FrameKinds
<1>1. PICK f \in Frames : f = Frame("verified", alias[n], NoAlias)
  BY <1>0, FrameIs
<1>2. Verified(n) \in Frames
  <2>1. [f EXCEPT !.id = n] \in Frames
    BY KnownFrame
  <2> QED BY <2>1, <1>1 DEF Verified
<1>3. Verified(n).src = alias[n] /\ Verified(n).kind = "verified" /\ Verified(n).part = "only" /\ Verified(n).id = n
  BY DEF Verified, Frame
<1>4. alias[n] # NoAlias /\ "verified" \notin Kinds /\ "verified" # "info"
  BY ConstantsAre
<1> QED BY <1>2, <1>3, <1>4 DEF OwnFrame

LEMMA IdentifiedIs ==
  ASSUME NEW n \in Nodes, NEW a \in Aliases, NEW k \in Kinds \cup {"report"}, NEW e \in Events
  PROVE  /\ Identified(a, k, e) \in Frames /\ OwnFrame(n, a, Identified(a, k, e))
         /\ Identified(a, k, e).part = "only" /\ Identified(a, k, e).kind = k
<1>1. e \in Int /\ k \in FrameKinds /\ k \notin {"verified", "info"} /\ a # NoAlias
  BY ConstantsAre DEF FrameKinds
<1>2. (k \in Kinds => e \in Events) /\ NoAlias \in Aliases \cup {NoAlias}
  OBVIOUS
<1> QED BY <1>1, <1>2 DEF Identified, Frame, Frames, OwnFrame

LEMMA InfoIs ==
  ASSUME NEW n \in Nodes, alias[n] \in Aliases
  PROVE  /\ SimpleInfo(n) \in Seq(Frames) /\ Len(SimpleInfo(n)) = 2
         /\ SimpleInfo(n)[1].part = "first" /\ SimpleInfo(n)[2].part = "last"
         /\ OwnFrame(n, alias[n], SimpleInfo(n)[1]) /\ OwnFrame(n, alias[n], SimpleInfo(n)[2])
<1> DEFINE Part(p) == [Frame("info", alias[n], NoAlias) EXCEPT !.part = p, !.id = n]
<1>1. \A p \in {"first", "last"} :
        Part(p) \in Frames /\ OwnFrame(n, alias[n], Part(p)) /\ Part(p).part = p
  <2> SUFFICES ASSUME NEW p \in {"first", "last"}
               PROVE  Part(p) \in Frames /\ OwnFrame(n, alias[n], Part(p)) /\ Part(p).part = p
    OBVIOUS
  <2>1. Part(p).src = alias[n] /\ Part(p).id = n /\ Part(p).part = p /\ Part(p).kind = "info"
    BY DEF Frame
  <2>2. "info" \in FrameKinds /\ "info" \notin Kinds /\ alias[n] # NoAlias /\ p # "only"
    BY ConstantsAre DEF FrameKinds
  <2>a. PICK f \in Frames : f = Frame("info", alias[n], NoAlias)
    BY <2>2, FrameIs
  <2>3. Part(p) \in Frames
    <3>1. [f EXCEPT !.part = p, !.id = n] \in Frames
      BY PartFrame
    <3> QED BY <3>1, <2>a
  <2> HIDE DEF Part
  <2>4. OwnFrame(n, alias[n], Part(p))
    BY <2>1, <2>2 DEF OwnFrame
  <2> QED BY <2>1, <2>3, <2>4
<1>2. SimpleInfo(n) = <<Part("first"), Part("last")>>
  BY DEF SimpleInfo
<1> HIDE DEF Part
<1> QED BY <1>1, <1>2

\* Nothing is written but the first frames, and no more than there is room for.
LEMMA WrittenIs ==
  ASSUME NEW n, NEW S, NEW frames \in Seq(S), Len(out[n]) \in Nat, Len(out[n]) <= TxSize
  PROVE  /\ Written(n, frames) \in Seq(S)
         /\ Len(out[n]) + Len(Written(n, frames)) <= TxSize
         /\ \A k \in DOMAIN Written(n, frames) :
              k \in DOMAIN frames /\ Written(n, frames)[k] = frames[k]
<1> DEFINE room == TxSize - Len(out[n])
           m == Min({Len(frames), room})
<1>1. room \in Nat /\ Len(frames) \in Nat
  BY ConstantsAre
<1> HIDE DEF room
<1>2. m \in {Len(frames), room} /\ m <= Len(frames) /\ m <= room
  <2>1. \E x \in {Len(frames), room} : \A y \in {Len(frames), room} : x <= y
    BY <1>1
  <2>2. \A x : x = (CHOOSE z \in {Len(frames), room} : \A y \in {Len(frames), room} : z <= y) =>
          (x \in {Len(frames), room} /\ \A y \in {Len(frames), room} : x <= y)
    BY <2>1
  <2> QED BY <2>2 DEF Min
<1>3. m \in Nat /\ m <= Len(frames) /\ m <= room
  BY <1>1, <1>2
<1> HIDE DEF m
<1>4. SubSeq(frames, 1, m) \in Seq(S) /\ Len(SubSeq(frames, 1, m)) = m
      /\ \A k \in 1..m : SubSeq(frames, 1, m)[k] = frames[k]
  BY <1>3
<1>5. Written(n, frames) = SubSeq(frames, 1, m)
  BY DEF Written, m, room
<1>6. Len(out[n]) + m <= TxSize
  BY <1>1, <1>3, ConstantsAre DEF room
<1>7. Written(n, frames) \in Seq(S) /\ Len(Written(n, frames)) = m
      /\ \A k \in 1..m : Written(n, frames)[k] = frames[k]
  BY <1>4, <1>5
<1>8. DOMAIN Written(n, frames) = 1..m /\ DOMAIN frames = 1..Len(frames)
  BY <1>7
<1>9. \A k \in 1..m : k \in 1..Len(frames)
  BY ONLY <1>1, <1>3
<1> HIDE <1>5, <1>4
<1> QED BY <1>6, <1>7, <1>8, <1>9

-------------------------------------------------------------------------------
(* What grows and shrinks in a queue. *)

\* What is written at once: nothing of simple node information, or both of its parts.
Plain(r) == \A k \in DOMAIN r : r[k].part = "only"
Complete(r) == Plain(r) \/ (Len(r) = 2 /\ r[1].part = "first" /\ r[2].part = "last")

LEMMA CompleteIs ==
  ASSUME NEW r \in Seq(Frames), Complete(r)
  PROVE  /\ Paired(r)
         /\ r # <<>> => r[1].part # "last"
<1>1. CASE Plain(r)
  <2>1. Paired(r)
    BY <1>1 DEF Paired, Plain
  <2>2. r # <<>> => 1 \in DOMAIN r
    OBVIOUS
  <2>3. 1 \in DOMAIN r => r[1].part = "only"
    BY <1>1 DEF Plain
  <2> QED BY <2>1, <2>2, <2>3
<1>2. CASE Len(r) = 2 /\ r[1].part = "first" /\ r[2].part = "last"
  <2>1. DOMAIN r = 1..2
    BY <1>2
  <2>2. \A k \in 1..2 : k = 1 \/ k = 2
    OBVIOUS
  <2>3. 1 + 1 \in 1..2 /\ 2 + 1 \notin 1..2 /\ 1 + 1 = 2
    OBVIOUS
  <2> QED BY <1>2, <2>1, <2>2, <2>3 DEF Paired
<1> QED BY <1>1, <1>2 DEF Complete

LEMMA PairedGrows ==
  ASSUME NEW q \in Seq(Frames), NEW r \in Seq(Frames), Complete(r), Paired(q)
  PROVE  Paired(q \o r)
<1> DEFINE s == q \o r
           a == Len(q)
           b == Len(r)
<1>1. /\ a \in Nat /\ b \in Nat /\ DOMAIN s = 1..(a + b) /\ DOMAIN q = 1..a /\ DOMAIN r = 1..b
      /\ \A i \in 1..a : s[i] = q[i]
      /\ \A i \in 1..b : s[a + i] = r[i]
      /\ \A i \in 1..(a + b) : i > a => i - a \in 1..b /\ s[i] = r[i - a]
  BY ConcatIs
<1>2. Paired(r) /\ (1 \in DOMAIN r => r[1].part # "last")
  BY CompleteIs
<1>3. SUFFICES ASSUME NEW k \in 1..(a + b)
               PROVE  /\ s[k].part = "first" => k + 1 \in 1..(a + b)
                      /\ k + 1 \in 1..(a + b) => (s[k].part = "first" <=> s[k + 1].part = "last")
  BY <1>1 DEF Paired
<1> HIDE DEF s, a, b
<1>4. CASE k + 1 <= a
  <2>1. k \in 1..a /\ k + 1 \in 1..a /\ k + 1 \in 1..(a + b)
    BY <1>1, <1>4
  <2>2. q[k].part = "first" <=> q[k + 1].part = "last"
    BY <1>1, <2>1 DEF Paired
  <2> QED BY <1>1, <2>1, <2>2
<1>5. CASE k = a
  <2>1. k \in 1..a /\ k + 1 \notin 1..a
    BY <1>1, <1>5
  <2>2. q[k].part # "first"
    BY <1>1, <2>1 DEF Paired
  <2>3. s[k].part # "first"
    BY <1>1, <2>1, <2>2
  <2>4. ASSUME k + 1 \in 1..(a + b) PROVE s[k + 1].part # "last"
    <3>1. 1 \in 1..b /\ k + 1 = a + 1
      BY <1>1, <1>5, <2>4
    <3>2. s[a + 1] = r[1]
      BY <1>1, <3>1
    <3> QED BY <1>1, <1>2, <3>1, <3>2
  <2> QED BY <2>3, <2>4
<1>6. CASE k > a
  <2>1. k - a \in 1..b /\ s[k] = r[k - a]
    BY <1>1, <1>6
  <2>2. r[k - a].part = "first" => (k - a) + 1 \in 1..b
    BY <1>1, <1>2, <2>1 DEF Paired
  <2>3. (k - a) + 1 \in 1..b => (r[k - a].part = "first" <=> r[(k - a) + 1].part = "last")
    BY <1>1, <1>2, <2>1 DEF Paired
  <2>4. (k - a) + 1 \in 1..b <=> k + 1 \in 1..(a + b)
    BY <1>1, <1>6
  <2>5. k + 1 \in 1..(a + b) => s[k + 1] = r[(k - a) + 1]
    <3>1. SUFFICES ASSUME k + 1 \in 1..(a + b) PROVE s[k + 1] = r[(k - a) + 1]
      OBVIOUS
    <3>2. k + 1 > a /\ (k + 1) - a = (k - a) + 1
      BY <1>1, <1>6
    <3>3. s[k + 1] = r[(k + 1) - a]
      BY <1>1, <3>1, <3>2
    <3> QED BY <3>2, <3>3
  <2> QED BY <2>1, <2>2, <2>3, <2>4, <2>5
<1> QED BY <1>1, <1>4, <1>5, <1>6

LEMMA GrownIs ==
  ASSUME NEW q \in Seq(Frames), NEW r \in Seq(Frames)
  PROVE  /\ Complete(r) => (Half(q \o r) <=> Half(q))
         /\ \A kind : (HasKind(q, kind) \/ HasKind(r, kind)) => HasKind(q \o r, kind)
         /\ (HasLast(q) \/ HasLast(r)) => HasLast(q \o r)
         /\ \A kind, to : (AsksFor(q, kind, to) \/ AsksFor(r, kind, to)) => AsksFor(q \o r, kind, to)
<1> DEFINE s == q \o r
           a == Len(q)
           b == Len(r)
<1>1. /\ a \in Nat /\ b \in Nat /\ DOMAIN s = 1..(a + b) /\ DOMAIN q = 1..a /\ DOMAIN r = 1..b
      /\ \A i \in 1..a : s[i] = q[i]
      /\ \A i \in 1..b : s[a + i] = r[i]
      /\ q = <<>> <=> a = 0
  BY ConcatIs
<1>2. s \in Seq(Frames) /\ (s = <<>> <=> a + b = 0) /\ (r = <<>> <=> b = 0)
  <2>1. s \in Seq(Frames) /\ Len(s) = a + b
    BY ConcatIs
  <2> QED BY <2>1, EmptySeq
<1>3. Complete(r) /\ r # <<>> => r[1].part # "last"
  BY CompleteIs
<1> SUFFICES /\ Complete(r) => (Half(s) <=> Half(q))
             /\ \A kind : (HasKind(q, kind) \/ HasKind(r, kind)) => HasKind(s, kind)
             /\ (HasLast(q) \/ HasLast(r)) => HasLast(s)
             /\ \A kind, to : (AsksFor(q, kind, to) \/ AsksFor(r, kind, to)) => AsksFor(s, kind, to)
  OBVIOUS
<1> HIDE DEF s, a, b
<1>4. \A i \in 1..a : i \in 1..(a + b)
  BY <1>1
<1>5. \A i \in 1..b : a + i \in 1..(a + b)
  BY <1>1
<1>6. Complete(r) => (Half(s) <=> Half(q))
  <2>1. CASE a = 0 /\ b = 0
    <3>1. ~Half(s) /\ ~Half(q)
      BY <1>1, <1>2, <2>1 DEF Half
    <3> QED BY <3>1
  <2>2. CASE a = 0 /\ b # 0
    <3>1. 1 \in 1..b /\ a + 1 = 1 /\ r # <<>> /\ q = <<>>
      BY <1>1, <1>2, <2>2
    <3>2. s[1] = r[1]
      BY <1>1, <3>1
    <3> QED BY <1>3, <3>1, <3>2 DEF Half
  <2>3. CASE a # 0
    <3>1. 1 \in 1..a /\ a + b # 0
      BY <1>1, <2>3
    <3>2. s[1] = q[1] /\ s # <<>> /\ q # <<>>
      BY <1>1, <1>2, <2>3, <3>1
    <3> QED BY <3>2 DEF Half
  <2> QED BY <2>1, <2>2, <2>3
<1>7. \A kind : (HasKind(q, kind) \/ HasKind(r, kind)) => HasKind(s, kind)
  BY <1>1, <1>4, <1>5 DEF HasKind
<1>8. (HasLast(q) \/ HasLast(r)) => HasLast(s)
  BY <1>1, <1>4, <1>5 DEF HasLast
<1>9. \A kind, to : (AsksFor(q, kind, to) \/ AsksFor(r, kind, to)) => AsksFor(s, kind, to)
  BY <1>1, <1>4, <1>5 DEF AsksFor
<1> QED BY <1>6, <1>7, <1>8, <1>9

LEMMA ShrunkIs ==
  ASSUME NEW q \in Seq(Frames), q # <<>>
  PROVE  /\ Tail(q) \in Seq(Frames) /\ Head(q) = q[1] /\ q[1] \in Frames /\ 1 \in DOMAIN q
         /\ Paired(q) => Paired(Tail(q)) /\ (Half(Tail(q)) <=> q[1].part = "first")
         /\ \A kind : HasKind(q, kind) => (q[1].kind = kind \/ HasKind(Tail(q), kind))
         /\ HasLast(q) => (q[1].part = "last" \/ HasLast(Tail(q)))
         /\ \A kind, to : AsksFor(q, kind, to) => (q[1] = Frame(kind, NoAlias, to) \/ AsksFor(Tail(q), kind, to))
<1> DEFINE t == Tail(q)
           a == Len(t)
<1>1. /\ t \in Seq(Frames) /\ a \in Nat /\ Head(q) = q[1] /\ q[1] \in Frames /\ 1 \in DOMAIN q
      /\ DOMAIN q = 1..(a + 1) /\ DOMAIN t = 1..a /\ (t = <<>> <=> a = 0)
      /\ \A i \in 1..a : t[i] = q[i + 1]
  <2>1. /\ t \in Seq(Frames) /\ Len(q) \in Nat /\ Len(q) >= 1 /\ a = Len(q) - 1
        /\ \A i \in 1..a : i + 1 \in 1..Len(q) /\ t[i] = q[i + 1]
        /\ Head(q) = q[1] /\ q[1] \in Frames /\ 1 \in DOMAIN q
        /\ DOMAIN q = 1..Len(q) /\ DOMAIN t = 1..a
    BY TailIs
  <2> HIDE DEF t, a
  <2>2. Len(q) = a + 1 /\ a \in Nat
    BY <2>1
  <2>3. t = <<>> <=> a = 0
    BY <2>1, EmptySeq DEF a
  <2> QED BY <2>1, <2>2, <2>3
<1> SUFFICES /\ Paired(q) => Paired(t) /\ (Half(t) <=> q[1].part = "first")
             /\ \A kind : HasKind(q, kind) => (q[1].kind = kind \/ HasKind(t, kind))
             /\ HasLast(q) => (q[1].part = "last" \/ HasLast(t))
             /\ \A kind, to : AsksFor(q, kind, to) => (q[1] = Frame(kind, NoAlias, to) \/ AsksFor(t, kind, to))
  BY <1>1
<1> HIDE DEF t, a
<1>2. \A i \in 1..(a + 1) : i = 1 \/ \E j \in 1..a : i = j + 1
  <2> SUFFICES ASSUME NEW i \in 1..(a + 1), i # 1 PROVE \E j \in 1..a : i = j + 1
    OBVIOUS
  <2>1. i - 1 \in 1..a /\ i = (i - 1) + 1
    BY <1>1
  <2> QED BY <2>1
<1>3. \A i \in 1..(a + 1) : i = 1 \/ \E j \in 1..a : q[i] = t[j]
  BY <1>1, <1>2
<1>4. Paired(q) => Paired(t)
  <2> SUFFICES ASSUME Paired(q), NEW k \in 1..a
               PROVE  /\ t[k].part = "first" => k + 1 \in 1..a
                      /\ k + 1 \in 1..a => (t[k].part = "first" <=> t[k + 1].part = "last")
    BY <1>1 DEF Paired
  <2>1. k + 1 \in 1..(a + 1) /\ ((k + 1) + 1 \in 1..(a + 1) <=> k + 1 \in 1..a)
    BY <1>1
  <2>2. /\ q[k + 1].part = "first" => (k + 1) + 1 \in 1..(a + 1)
        /\ (k + 1) + 1 \in 1..(a + 1) => (q[k + 1].part = "first" <=> q[(k + 1) + 1].part = "last")
    BY <1>1, <2>1 DEF Paired
  <2>3. t[k] = q[k + 1] /\ (k + 1 \in 1..a => t[k + 1] = q[(k + 1) + 1])
    BY <1>1
  <2> QED BY <2>1, <2>2, <2>3
<1>5. Paired(q) => (Half(t) <=> q[1].part = "first")
  <2> SUFFICES ASSUME Paired(q) PROVE Half(t) <=> q[1].part = "first"
    OBVIOUS
  <2>1. 1 \in 1..(a + 1) /\ (1 + 1 \in 1..(a + 1) <=> 1 \in 1..a) /\ (1 \in 1..a <=> a # 0)
    BY <1>1
  <2>2. /\ q[1].part = "first" => 1 + 1 \in 1..(a + 1)
        /\ 1 + 1 \in 1..(a + 1) => (q[1].part = "first" <=> q[1 + 1].part = "last")
    BY <1>1, <2>1 DEF Paired
  <2>3. 1 \in 1..a => t[1] = q[1 + 1]
    BY <1>1
  <2> QED BY <1>1, <2>1, <2>2, <2>3 DEF Half
<1>6. \A kind : HasKind(q, kind) => (q[1].kind = kind \/ HasKind(t, kind))
  BY ZenonT(60), <1>1, <1>3 DEF HasKind
<1>7. HasLast(q) => (q[1].part = "last" \/ HasLast(t))
  BY ZenonT(60), <1>1, <1>3 DEF HasLast
<1>8. \A kind, to : AsksFor(q, kind, to) => (q[1] = Frame(kind, NoAlias, to) \/ AsksFor(t, kind, to))
  BY <1>1, <1>3 DEF AsksFor
<1> QED BY <1>4, <1>5, <1>6, <1>7, <1>8

-------------------------------------------------------------------------------
(* What a device answers. *)

LEMMA SingleIs ==
  ASSUME NEW n \in Nodes, NEW a, NEW f \in Frames, OwnFrame(n, a, f), f.part = "only"
  PROVE  /\ <<f>> \in Seq(Frames) /\ OwnAll(n, a, <<f>>) /\ Plain(<<f>>)
         /\ HasKind(<<f>>, f.kind)
<1>1. PICK q : q = <<f>>
  OBVIOUS
<1>2. q \in Seq(Frames) /\ DOMAIN q = 1..1 /\ q[1] = f
  BY <1>1
<1>3. \A k \in 1..1 : k = 1
  OBVIOUS
<1>4. OwnAll(n, a, q) /\ Plain(q)
  BY <1>2, <1>3 DEF OwnAll, Plain
<1>5. HasKind(q, f.kind)
  BY <1>2 DEF HasKind
<1> QED BY <1>1, <1>2, <1>4, <1>5

LEMMA NoFramesAre ==
  ASSUME NEW n, NEW a
  PROVE  <<>> \in Seq(Frames) /\ OwnAll(n, a, <<>>) /\ Plain(<<>>)
<1>1. <<>> \in Seq(Frames) /\ DOMAIN <<>> = {}
  OBVIOUS
<1> QED BY <1>1 DEF OwnAll, Plain

LEMMA EventsOfIs ==
  ASSUME NetworkTypeOK, NEW n \in Nodes, NEW a \in Aliases, NEW k \in Kinds
  PROVE  EventsOf(n, a, k) \in Seq(Frames) /\ OwnAll(n, a, EventsOf(n, a, k)) /\ Plain(EventsOf(n, a, k))
<1> DEFINE l == list[n][k]
           q == EventsOf(n, a, k)
<1>1. l \in Seq(Events)
  BY DEF NetworkTypeOK
<1>2. DOMAIN l = 1..Len(l) /\ Len(l) \in Nat /\ \A i \in 1..Len(l) : l[i] \in Events
  BY <1>1
<1>3. q = [i \in 1..Len(l) |-> Identified(a, k, l[i])]
  BY <1>2 DEF EventsOf
<1>4. \A e \in Events : Identified(a, k, e) \in Frames /\ OwnFrame(n, a, Identified(a, k, e))
                        /\ Identified(a, k, e).part = "only"
  <2> SUFFICES ASSUME NEW e \in Events
               PROVE  Identified(a, k, e) \in Frames /\ OwnFrame(n, a, Identified(a, k, e))
                      /\ Identified(a, k, e).part = "only"
    OBVIOUS
  <2>1. k \in Kinds \cup {"report"}
    OBVIOUS
  <2> QED BY <2>1, IdentifiedIs
<1> HIDE DEF q
<1>5. q \in [1..Len(l) -> Frames] /\ DOMAIN q = 1..Len(l) /\ \A i \in 1..Len(l) : q[i] = Identified(a, k, l[i])
  BY <1>2, <1>3, <1>4
<1>6. q \in Seq(Frames)
  BY <1>2, <1>5, SeqIs
<1>7. \A i \in DOMAIN q : OwnFrame(n, a, q[i]) /\ q[i].part = "only"
  BY <1>2, <1>4, <1>5
<1> SUFFICES q \in Seq(Frames) /\ OwnAll(n, a, q) /\ Plain(q)
  BY DEF q
<1> QED BY <1>6, <1>7 DEF OwnAll, Plain

LEMMA QueryIs ==
  ASSUME NEW n \in Nodes, alias[n] \in Aliases, NEW k \in Kinds, NEW e \in Events
  PROVE  Query(n, k, e) \in Seq(Frames) /\ OwnAll(n, alias[n], Query(n, k, e)) /\ Plain(Query(n, k, e))
<1>1. CASE HasEvent(list[n][k], e)
  <2>1. PICK f : f = Identified(alias[n], k, e)
    OBVIOUS
  <2>2. f \in Frames /\ OwnFrame(n, alias[n], f) /\ f.part = "only"
    <3>1. k \in Kinds \cup {"report"}
      OBVIOUS
    <3> QED BY <2>1, <3>1, IdentifiedIs
  <2>3. Query(n, k, e) = <<f>>
    BY <1>1, <2>1 DEF Query
  <2> QED BY <2>2, <2>3, SingleIs
<1>2. CASE ~HasEvent(list[n][k], e)
  <2>1. Query(n, k, e) = <<>>
    BY <1>2 DEF Query
  <2> QED BY <2>1, NoFramesAre
<1> QED BY <1>1, <1>2

LEMMA OwnConcat ==
  ASSUME NEW q \in Seq(Frames), NEW r \in Seq(Frames), NEW n, NEW a
  PROVE  /\ q \o r \in Seq(Frames)
         /\ OwnAll(n, a, q) /\ OwnAll(n, a, r) => OwnAll(n, a, q \o r)
         /\ Plain(q) /\ Plain(r) => Plain(q \o r)
<1>1. /\ Len(q) \in Nat /\ Len(r) \in Nat /\ q \o r \in Seq(Frames)
      /\ DOMAIN (q \o r) = 1..(Len(q) + Len(r)) /\ DOMAIN q = 1..Len(q) /\ DOMAIN r = 1..Len(r)
      /\ \A i \in 1..Len(q) : (q \o r)[i] = q[i]
      /\ \A i \in 1..(Len(q) + Len(r)) : i > Len(q) => i - Len(q) \in 1..Len(r) /\ (q \o r)[i] = r[i - Len(q)]
  BY ConcatIs
<1>2. PICK s : s = q \o r
  OBVIOUS
<1>3. \A i \in 1..(Len(q) + Len(r)) : i \in 1..Len(q) \/ i > Len(q)
  BY <1>1
<1>4. \A i \in DOMAIN s : (\E j \in DOMAIN q : s[i] = q[j]) \/ (\E j \in DOMAIN r : s[i] = r[j])
  BY <1>1, <1>2, <1>3
<1>5. OwnAll(n, a, q) /\ OwnAll(n, a, r) => OwnAll(n, a, s)
  BY <1>4 DEF OwnAll
<1>6. Plain(q) /\ Plain(r) => Plain(s)
  BY <1>4 DEF Plain
<1> QED BY <1>1, <1>2, <1>5, <1>6

\* A frame that devices may be asked with.
Askable(f) == f \in Frames /\ (f.kind \in {"produced?", "consumed?"} => f.event \in Events)

LEMMA FieldsAre ==
  ASSUME NEW kind, NEW a, NEW b
  PROVE  /\ Frame(kind, a, b).kind = kind /\ Frame(kind, a, b).src = a /\ Frame(kind, a, b).to = b
         /\ Frame(kind, a, b).part = "only" /\ Frame(kind, a, b).id = NoNode
  BY DEF Frame

LEMMA AnswersAre ==
  ASSUME NetworkTypeOK, NEW n \in Nodes, alias[n] \in Aliases, NEW f, Askable(f)
  PROVE  /\ Answers(n, f) \in Seq(Frames) /\ OwnAll(n, alias[n], Answers(n, f)) /\ Complete(Answers(n, f))
         /\ f = Frame("verify", NoAlias, NoAlias) => HasKind(Answers(n, f), "verified")
         /\ f = Frame("protocols?", NoAlias, alias[n]) => HasKind(Answers(n, f), "protocols")
         /\ f = Frame("info?", NoAlias, alias[n]) => HasLast(Answers(n, f))
<1> DEFINE r == Answers(n, f)
<1> SUFFICES /\ r \in Seq(Frames) /\ OwnAll(n, alias[n], r) /\ Complete(r)
             /\ f = Frame("verify", NoAlias, NoAlias) => HasKind(r, "verified")
             /\ f = Frame("protocols?", NoAlias, alias[n]) => HasKind(r, "protocols")
             /\ f = Frame("info?", NoAlias, alias[n]) => HasLast(r)
  OBVIOUS
<1>1. /\ f.kind = "verify" /\ f.id \in {NoNode, n} => r = <<Verified(n)>>
      /\ f.kind = "verify addressed" /\ f.to = alias[n] => r = <<Verified(n)>>
      /\ f.kind = "protocols?" /\ f.to = alias[n] => r = <<Frame("protocols", alias[n], NoAlias)>>
      /\ f.kind = "info?" /\ f.to = alias[n] => r = SimpleInfo(n)
      /\ f.kind = "produced?" => r = Query(n, "produced", f.event)
      /\ f.kind = "consumed?" => r = Query(n, "consumed", f.event)
      /\ f.kind = "identify" /\ f.to \in {NoAlias, alias[n]} => r = EventsOf(n, alias[n], "produced")
      /\ \/ f.kind = "verify" /\ f.id \in {NoNode, n}
         \/ f.kind = "verify addressed" /\ f.to = alias[n]
         \/ f.kind = "protocols?" /\ f.to = alias[n]
         \/ f.kind = "info?" /\ f.to = alias[n]
         \/ f.kind = "produced?"
         \/ f.kind = "consumed?"
         \/ f.kind = "identify" /\ f.to \in {NoAlias, alias[n]}
         \/ r = <<>>
  BY DEF Answers
<1> HIDE DEF r
<1>2. /\ f = Frame("verify", NoAlias, NoAlias) => f.kind = "verify" /\ f.id = NoNode
      /\ f = Frame("protocols?", NoAlias, alias[n]) => f.kind = "protocols?" /\ f.to = alias[n]
      /\ f = Frame("info?", NoAlias, alias[n]) => f.kind = "info?" /\ f.to = alias[n]
  BY FieldsAre
<1>3. Plain(r) => Complete(r)
  BY DEF Complete
<1>4. CASE r = <<Verified(n)>> /\ f.kind \in {"verify", "verify addressed"}
  <2>1. r \in Seq(Frames) /\ OwnAll(n, alias[n], r) /\ Plain(r) /\ HasKind(r, "verified")
    BY <1>4, VerifiedIs, SingleIs
  <2> QED BY <1>2, <1>3, <1>4, <2>1
<1>5. CASE r = <<Frame("protocols", alias[n], NoAlias)>> /\ f.kind = "protocols?"
  <2>1. PICK g : g = Frame("protocols", alias[n], NoAlias)
    OBVIOUS
  <2>2. g \in Frames /\ g.kind = "protocols" /\ g.src = alias[n] /\ g.part = "only"
    <3>1. "protocols" \in FrameKinds
      BY DEF FrameKinds
    <3> QED BY <2>1, <3>1, FrameIs
  <2>3. "protocols" \notin Kinds /\ alias[n] # NoAlias
    BY ConstantsAre
  <2>4. OwnFrame(n, alias[n], g)
    BY <2>2, <2>3 DEF OwnFrame
  <2>5. <<g>> \in Seq(Frames) /\ OwnAll(n, alias[n], <<g>>) /\ Plain(<<g>>) /\ HasKind(<<g>>, g.kind)
    BY <2>2, <2>4, SingleIs
  <2> QED BY <1>2, <1>3, <1>5, <2>1, <2>2, <2>5
<1>6. CASE r = SimpleInfo(n) /\ f.kind = "info?"
  <2>1. r \in Seq(Frames) /\ Len(r) = 2 /\ r[1].part = "first" /\ r[2].part = "last"
        /\ OwnFrame(n, alias[n], r[1]) /\ OwnFrame(n, alias[n], r[2])
    BY <1>6, InfoIs
  <2>2. DOMAIN r = {1, 2}
    BY <2>1
  <2>3. OwnAll(n, alias[n], r) /\ HasLast(r)
    BY <2>1, <2>2 DEF OwnAll, HasLast
  <2> QED BY <1>2, <1>6, <2>1, <2>3 DEF Complete
<1>7. CASE \E k \in Kinds : f.event \in Events /\ r = Query(n, k, f.event) /\ f.kind \in {"produced?", "consumed?"}
  <2>1. r \in Seq(Frames) /\ OwnAll(n, alias[n], r) /\ Plain(r)
    BY <1>7, QueryIs
  <2> QED BY <1>2, <1>3, <1>7, <2>1
<1>8. CASE r = EventsOf(n, alias[n], "produced") /\ f.kind = "identify"
  <2>1. r \in Seq(Frames) /\ OwnAll(n, alias[n], r) /\ Plain(r)
    BY <1>8, EventsOfIs DEF Kinds
  <2> QED BY <1>2, <1>3, <1>8, <2>1
<1>9. CASE /\ r = <<>> /\ ~(f.kind = "verify" /\ f.id \in {NoNode, n})
           /\ ~(f.kind = "protocols?" /\ f.to = alias[n]) /\ ~(f.kind = "info?" /\ f.to = alias[n])
  <2>1. r \in Seq(Frames) /\ OwnAll(n, alias[n], r) /\ Plain(r)
    BY <1>9, NoFramesAre
  <2> QED BY <1>2, <1>3, <1>9, <2>1
<1>10. f.kind \in {"produced?", "consumed?"} => f.event \in Events
  BY DEF Askable
<1>11. "produced" \in Kinds /\ "consumed" \in Kinds
  BY DEF Kinds
<1> QED BY <1>1, <1>4, <1>5, <1>6, <1>7, <1>8, <1>9, <1>10, <1>11

-------------------------------------------------------------------------------
(* What the GUI makes of a frame. *)

LEMMA PairIs ==
  ASSUME NEW S, NEW x \in S, NEW y \in S
  PROVE  Len(<<x>>) = 1 /\ Append(<<x>>, y) = <<x, y>>
<1>1. PICK q : q = <<x>>
  OBVIOUS
<1>2. q \in Seq(S) /\ Len(q) = 1 /\ q[1] = x
  BY <1>1
<1>3. PICK r : r = <<x, y>>
  OBVIOUS
<1>4. r \in Seq(S) /\ Len(r) = 2 /\ r[1] = x /\ r[2] = y
  BY <1>3
<1>5. PICK s : s = Append(q, y)
  OBVIOUS
<1>6. s \in Seq(S) /\ Len(s) = 2 /\ s[1] = x /\ s[2] = y
  <2>1. s \in Seq(S) /\ Len(s) = Len(q) + 1 /\ (\A i \in 1..Len(q) : s[i] = q[i]) /\ s[Len(q) + 1] = y
    <3>1. q \in Seq(S)
      BY <1>2
    <3>2. /\ Append(q, y) \in Seq(S) /\ Len(Append(q, y)) = Len(q) + 1
          /\ \A i \in 1..Len(q) : Append(q, y)[i] = q[i]
          /\ Append(q, y)[Len(q) + 1] = y
      BY ONLY <3>1, y \in S, AppendIs
    <3> QED BY <1>5, <3>2
  <2>2. 1 \in 1..1 /\ 1 + 1 = 2
    OBVIOUS
  <2> QED BY <1>2, <2>1, <2>2
<1>7. \A i \in 1..2 : i = 1 \/ i = 2
  OBVIOUS
<1>8. \A i \in 1..Len(s) : s[i] = r[i]
  BY <1>4, <1>6, <1>7
<1>9. s = r
  BY <1>4, <1>6, <1>8, SeqEqual
<1> QED BY <1>1, <1>2, <1>3, <1>5, <1>9

LEMMA TakePartIs ==
  ASSUME NEW e \in Entry, Len(e.rx) <= RxParts + 1, NEW f \in Frames, f.part \in {"first", "last"}, f.id \in Nodes
  PROVE  /\ TakePart(e, f) \in Entry /\ Len(TakePart(e, f).rx) <= RxParts + 1
         /\ TakePart(e, f).id = e.id /\ TakePart(e, f).alias = e.alias
         /\ TakePart(e, f).protocols = e.protocols
         /\ (f.part = "first" /\ e.rx = <<>>) =>
              TakePart(e, f).info = e.info /\ TakePart(e, f).rx = <<[part |-> "first", id |-> f.id]>>
         /\ (f.part = "last" /\ f.id = e.id /\ e.rx = <<[part |-> "first", id |-> e.id]>>) =>
              TakePart(e, f).info = "own" /\ TakePart(e, f).rx = <<>>
<1> DEFINE Parts == [part : {"first", "last"}, id : Nodes]
           p == [part |-> f.part, id |-> f.id]
           got == Received(e.rx, f)
           whole == <<[part |-> "first", id |-> e.id], [part |-> "last", id |-> e.id]>>
           result == IF got = whole THEN "own" ELSE "garbled"
<1>1. p \in Parts /\ e.rx \in Seq(Parts) /\ Len(e.rx) \in Nat
  BY DEF Entry
<1>2. got \in Seq(Parts) /\ Len(got) <= RxParts + 1
  <2>0. got = IF Len(e.rx) > RxParts THEN e.rx ELSE Append(e.rx, p)
    BY DEF Received
  <2> HIDE DEF p, Parts, got
  <2>1. CASE Len(e.rx) <= RxParts
    <3>1. Append(e.rx, p) \in Seq(Parts) /\ Len(Append(e.rx, p)) = Len(e.rx) + 1
      BY <1>1
    <3>2. Len(e.rx) + 1 <= RxParts + 1 /\ ~(Len(e.rx) > RxParts)
      BY <1>1, <2>1, ConstantsAre
    <3> QED BY <2>0, <3>1, <3>2
  <2>2. CASE Len(e.rx) > RxParts
    BY <1>1, <2>0, <2>2
  <2>3. Len(e.rx) <= RxParts \/ Len(e.rx) > RxParts
    BY <1>1, ConstantsAre
  <2> QED BY <2>1, <2>2, <2>3
<1>3. result \in {"none", "own", "garbled"}
  OBVIOUS
<1>4. TakePart(e, f) = IF f.part = "last" /\ got[1].part = "first"
                       THEN [e EXCEPT !.rx = <<>>, !.info = result] ELSE [e EXCEPT !.rx = got]
  BY DEF TakePart
<1>5. e.rx = <<>> => got = <<p>>
  <2>1. ~(0 > RxParts)
    BY ConstantsAre
  <2>2. e.rx = <<>> => Len(e.rx) = 0 /\ Append(e.rx, p) = <<p>>
    OBVIOUS
  <2> QED BY <2>1, <2>2 DEF Received
<1>6. e.rx = <<[part |-> "first", id |-> e.id]>> =>
        got = <<[part |-> "first", id |-> e.id], p>>
  <2>1. ~(1 > RxParts)
    BY ConstantsAre
  <2>2. \A x, y \in Parts : Len(<<x>>) = 1 /\ Append(<<x>>, y) = <<x, y>>
    <3> SUFFICES ASSUME NEW x \in Parts, NEW y \in Parts
                 PROVE  Len(<<x>>) = 1 /\ Append(<<x>>, y) = <<x, y>>
      OBVIOUS
    <3> HIDE DEF Parts
    <3> QED BY PairIs
  <2>3. PICK x \in Parts : x = [part |-> "first", id |-> e.id]
    BY DEF Entry
  <2>4. got = IF Len(e.rx) > RxParts THEN e.rx ELSE Append(e.rx, p)
    BY DEF Received
  <2> HIDE DEF p, Parts, got
  <2> QED BY <1>1, <2>1, <2>2, <2>3, <2>4
<1>7. \A x, y : <<x, y>>[1] = x
  OBVIOUS
<1> HIDE DEF got, result, whole, p
<1>8. [e EXCEPT !.rx = got] \in Entry /\ [e EXCEPT !.rx = <<>>, !.info = result] \in Entry
  <2>1. \A g \in Seq(Parts) : [e EXCEPT !.rx = g] \in Entry
    BY DEF Entry
  <2>2. \A g \in Seq(Parts), s \in {"none", "own", "garbled"} : [e EXCEPT !.rx = g, !.info = s] \in Entry
    BY DEF Entry
  <2>3. <<>> \in Seq(Parts)
    OBVIOUS
  <2> HIDE DEF Parts
  <2> QED BY <1>2, <1>3, <2>1, <2>2, <2>3
<1>9. /\ [e EXCEPT !.rx = got].rx = got /\ [e EXCEPT !.rx = <<>>, !.info = result].rx = <<>>
      /\ [e EXCEPT !.rx = <<>>, !.info = result].info = result
      /\ [e EXCEPT !.rx = got].info = e.info
      /\ [e EXCEPT !.rx = got].id = e.id /\ [e EXCEPT !.rx = <<>>, !.info = result].id = e.id
      /\ [e EXCEPT !.rx = got].alias = e.alias /\ [e EXCEPT !.rx = <<>>, !.info = result].alias = e.alias
      /\ [e EXCEPT !.rx = got].protocols = e.protocols
      /\ [e EXCEPT !.rx = <<>>, !.info = result].protocols = e.protocols
  BY DEF Entry
<1>10. Len(<<>>) = 0 /\ 0 <= RxParts + 1
  BY ConstantsAre
<1>11. CASE f.part = "last" /\ got[1].part = "first"
  <2>1. TakePart(e, f) = [e EXCEPT !.rx = <<>>, !.info = result]
    BY <1>4, <1>11
  <2>2. (f.part = "last" /\ f.id = e.id /\ e.rx = <<[part |-> "first", id |-> e.id]>>) => result = "own"
    <3>1. SUFFICES ASSUME f.id = e.id, e.rx = <<[part |-> "first", id |-> e.id]>> PROVE got = whole
      BY DEF result
    <3> QED BY <1>6, <1>11, <3>1 DEF p, whole
  <2>3. f.part # "first"
    BY <1>11
  <2> QED BY <1>8, <1>9, <1>10, <2>1, <2>2, <2>3
<1>12. CASE ~(f.part = "last" /\ got[1].part = "first")
  <2>1. TakePart(e, f) = [e EXCEPT !.rx = got]
    BY <1>4, <1>12
  <2>2. f.part = "first" /\ e.rx = <<>> => got = <<[part |-> "first", id |-> f.id]>>
    BY <1>5 DEF p
  <2>3. ~(f.part = "last" /\ f.id = e.id /\ e.rx = <<[part |-> "first", id |-> e.id]>>)
    <3>1. SUFFICES ASSUME f.part = "last", e.rx = <<[part |-> "first", id |-> e.id]>> PROVE FALSE
      OBVIOUS
    <3>2. got[1] = [part |-> "first", id |-> e.id]
      BY <1>6, <1>7, <3>1
    <3> QED BY <1>12, <3>1, <3>2
  <2> QED BY <1>2, <1>8, <1>9, <2>1, <2>2, <2>3
<1> QED BY <1>11, <1>12

\* What one frame of the device n, whose entry this is or not, makes of an entry.
LEMMA UpdatedIs ==
  ASSUME NEW e \in Entry, Len(e.rx) <= RxParts + 1, NEW f \in Frames, NEW n \in Nodes, NEW a, OwnFrame(n, a, f)
  PROVE  /\ Updated(e, f) \in Entry /\ Len(Updated(e, f).rx) <= RxParts + 1
         /\ Updated(e, f).id = e.id /\ Updated(e, f).alias = e.alias
         /\ e.protocols \/ f.kind = "protocols" => Updated(e, f).protocols
         /\ f.part = "only" => Updated(e, f).rx = e.rx /\ Updated(e, f).info = e.info
         /\ (f.part = "first" /\ e.rx = <<>>) =>
              Updated(e, f).info = e.info /\ Updated(e, f).rx = <<[part |-> "first", id |-> n]>>
         /\ (f.part = "last" /\ n = e.id /\ e.rx = <<[part |-> "first", id |-> e.id]>>) =>
              Updated(e, f).info = "own" /\ Updated(e, f).rx = <<>>
<1>1. /\ f.kind = "protocols" => Updated(e, f) = [e EXCEPT !.protocols = TRUE]
      /\ f.kind = "info" => Updated(e, f) = TakePart(e, f)
      /\ f.kind = "produced" => Updated(e, f) = [e EXCEPT !.produced = AddEvent(e.produced, f.event, TRUE)]
      /\ f.kind = "consumed" => Updated(e, f) = [e EXCEPT !.consumed = AddEvent(e.consumed, f.event, TRUE)]
      /\ f.kind \notin {"protocols", "info", "produced", "consumed"} => Updated(e, f) = e
  BY DEF Updated
<1>2. CASE f.kind = "info"
  <2>1. f.id = n /\ f.part # "only" /\ f.part \in {"first", "last", "only"}
    BY <1>2 DEF OwnFrame, Frames
  <2>2. f.part \in {"first", "last"} /\ f.id \in Nodes
    BY <2>1
  <2>3. /\ TakePart(e, f) \in Entry /\ Len(TakePart(e, f).rx) <= RxParts + 1
        /\ TakePart(e, f).id = e.id /\ TakePart(e, f).alias = e.alias
        /\ TakePart(e, f).protocols = e.protocols
        /\ (f.part = "first" /\ e.rx = <<>>) =>
             TakePart(e, f).info = e.info /\ TakePart(e, f).rx = <<[part |-> "first", id |-> f.id]>>
        /\ (f.part = "last" /\ f.id = e.id /\ e.rx = <<[part |-> "first", id |-> e.id]>>) =>
             TakePart(e, f).info = "own" /\ TakePart(e, f).rx = <<>>
    BY <2>2, TakePartIs
  <2>4. PICK u : u = Updated(e, f) /\ u = TakePart(e, f)
    BY <1>1, <1>2
  <2> QED BY <1>2, <2>1, <2>3, <2>4
<1>3. CASE f.kind # "info"
  <2>1. f.part = "only"
    BY <1>3 DEF OwnFrame
  <2>2. SUFFICES /\ Updated(e, f) \in Entry /\ Updated(e, f).rx = e.rx /\ Updated(e, f).info = e.info
                 /\ Updated(e, f).id = e.id /\ Updated(e, f).alias = e.alias
                 /\ e.protocols \/ f.kind = "protocols" => Updated(e, f).protocols
    BY <2>1
  <2>3. CASE f.kind = "protocols"
    BY <1>1, <2>3 DEF Entry
  <2>4. CASE f.kind \in Kinds
    <3>1. f.event \in Events /\ Events \in SUBSET Int /\ TRUE \in BOOLEAN
      BY <2>4, ConstantsAre DEF OwnFrame
    <3>2. e.produced \in Seq(Events) /\ e.consumed \in Seq(Events)
      BY DEF Entry
    <3>3. AddEvent(e.produced, f.event, TRUE) \in Seq(Events) /\ AddEvent(e.consumed, f.event, TRUE) \in Seq(Events)
      BY <3>1, <3>2, AddEventIs
    <3>4. \A x \in Seq(Events) :
            /\ [e EXCEPT !.produced = x] \in Entry /\ [e EXCEPT !.consumed = x] \in Entry
            /\ [e EXCEPT !.produced = x].rx = e.rx /\ [e EXCEPT !.consumed = x].rx = e.rx
            /\ [e EXCEPT !.produced = x].info = e.info /\ [e EXCEPT !.consumed = x].info = e.info
            /\ [e EXCEPT !.produced = x].id = e.id /\ [e EXCEPT !.consumed = x].id = e.id
            /\ [e EXCEPT !.produced = x].alias = e.alias /\ [e EXCEPT !.consumed = x].alias = e.alias
            /\ [e EXCEPT !.produced = x].protocols = e.protocols
            /\ [e EXCEPT !.consumed = x].protocols = e.protocols
      BY DEF Entry
    <3>5. f.kind = "produced" \/ f.kind = "consumed"
      BY <2>4 DEF Kinds
    <3>6. PICK u : u = Updated(e, f)
      OBVIOUS
    <3> QED BY <1>1, <3>3, <3>4, <3>5, <3>6
  <2>5. CASE f.kind \notin Kinds \cup {"protocols"}
    BY <1>1, <1>3, <2>5 DEF Kinds
  <2> QED BY <2>3, <2>4, <2>5
<1> QED BY <1>2, <1>3

-------------------------------------------------------------------------------
(* The GUI hears a device. *)

LEMMA AskFrame ==
  ASSUME NEW a \in Aliases \cup {NoAlias}, NEW kind \in {"verify", "protocols?", "info?"}
  PROVE  Frame(kind, NoAlias, a) \in Asks
<1>1. kind \in FrameKinds /\ NoAlias \in Aliases \cup {NoAlias}
  BY DEF FrameKinds
<1>2. Frame(kind, NoAlias, a) \in Frames /\ Frame(kind, NoAlias, a).kind = kind
  BY <1>1, FrameIs
<1> QED BY <1>2 DEF Asks

LEMMA AsksTyped ==
  ASSUME NEW q \in Seq(Asks)
  PROVE  q \in Seq(Frames) /\ \A k \in DOMAIN q : q[k] \in Asks
<1>1. \A k \in DOMAIN q : q[k] \in Asks
  OBVIOUS
<1>2. \A k \in DOMAIN q : q[k] \in Frames
  BY <1>1 DEF Asks
<1> QED BY <1>1, <1>2, SeqMadeOf

\* Both questions, in either order.
LEMMA TwoAsked ==
  ASSUME NEW a \in Aliases \cup {NoAlias}
  PROVE  /\ ViewAsks(a) \in Seq(Asks) /\ GraphAsks(a) \in Seq(Asks)
         /\ Len(ViewAsks(a)) = 2 /\ Len(GraphAsks(a)) = 2
         /\ AsksFor(ViewAsks(a), "protocols?", a) /\ AsksFor(ViewAsks(a), "info?", a)
<1>1. PICK p \in Asks, i \in Asks : p = AskProtocols(a) /\ i = AskInfo(a)
  BY AskFrame DEF AskProtocols, AskInfo
<1>2. <<p, i>> \in Seq(Asks) /\ <<i, p>> \in Seq(Asks) /\ Len(<<p, i>>) = 2 /\ Len(<<i, p>>) = 2
  OBVIOUS
<1>3. PICK q : q = <<p, i>>
  OBVIOUS
<1>4. DOMAIN q = 1..2 /\ q[1] = p /\ q[2] = i /\ 1 \in 1..2 /\ 2 \in 1..2
  BY <1>3
<1>5. p = Frame("protocols?", NoAlias, a) /\ i = Frame("info?", NoAlias, a)
  BY <1>1 DEF AskProtocols, AskInfo
<1>6. AsksFor(q, "protocols?", a) /\ AsksFor(q, "info?", a)
  BY <1>4, <1>5 DEF AsksFor
<1>7. ViewAsks(a) = q /\ GraphAsks(a) = <<i, p>>
  BY <1>1, <1>3 DEF ViewAsks, GraphAsks
<1> QED BY <1>2, <1>3, <1>6, <1>7

LEMMA AskedIs ==
  ASSUME NEW f \in Frames, f.src \in Aliases
  PROVE  /\ Asked(f) \in Seq(Asks) /\ Asked(f) \in Seq(Frames)
         /\ IsNew(f) => AsksFor(Asked(f), "protocols?", f.src) /\ AsksFor(Asked(f), "info?", f.src)
<1>1. CASE ~IsNew(f)
  <2>1. Asked(f) = <<>>
    BY <1>1 DEF Asked
  <2>2. <<>> \in Seq(Asks) /\ <<>> \in Seq(Frames)
    OBVIOUS
  <2> QED BY <1>1, <2>1, <2>2
<1>2. CASE IsNew(f)
  <2>1. PICK v \in Seq(Asks) : v = ViewAsks(f.src) /\ AsksFor(v, "protocols?", f.src) /\ AsksFor(v, "info?", f.src)
    BY TwoAsked
  <2>2. PICK g \in Seq(Asks) : g = IF graphOpen /\ f.id \notin graph THEN GraphAsks(f.src) ELSE <<>>
    <3>1. GraphAsks(f.src) \in Seq(Asks) /\ <<>> \in Seq(Asks)
      BY TwoAsked
    <3> QED BY <3>1
  <2>3. Asked(f) = v \o g
    BY <1>2, <2>1, <2>2 DEF Asked
  <2>4. v \o g \in Seq(Asks) /\ v \in Seq(Frames) /\ g \in Seq(Frames)
    BY AsksTyped
  <2>5. AsksFor(v \o g, "protocols?", f.src) /\ AsksFor(v \o g, "info?", f.src)
    BY <2>1, <2>4, GrownIs
  <2> QED BY <2>3, <2>4, <2>5, AsksTyped
<1> QED BY <1>1, <1>2

\* The table, as far as its type is concerned.
TableOK(t) ==
  /\ t \in Seq(Entry)
  /\ \A i, j \in DOMAIN t : t[i].id = t[j].id => i = j
  /\ \A i \in DOMAIN t : Len(t[i].rx) <= RxParts + 1

LEMMA AddedIs ==
  ASSUME TableOK(table), NEW f \in Frames, f.id \in Nodes, f.src \in Aliases, IsNew(f), AddNode(f)
  PROVE  /\ TableOK(table')
         /\ \E k : /\ k \notin DOMAIN table /\ DOMAIN table' = DOMAIN table \cup {k}
                   /\ \A i \in DOMAIN table : table'[i] = table[i]
                   /\ table'[k].id = f.id /\ table'[k].alias = f.src
                   /\ table'[k].rx = <<>> /\ table'[k].info = "none"
<1> DEFINE e == [id |-> f.id, alias |-> f.src, produced |-> <<>>, consumed |-> <<>>,
                 protocols |-> FALSE, info |-> "none", rx |-> <<>>]
           k == Len(table) + 1
<1>1. e \in Entry /\ e.id = f.id /\ e.alias = f.src /\ e.rx = <<>> /\ e.info = "none"
  BY DEF Entry
<1>2. table' = Append(table, e)
  BY DEF AddNode
<1>3. table \in Seq(Entry) /\ Len(table) \in Nat /\ DOMAIN table = 1..Len(table)
  BY DEF TableOK
<1> HIDE DEF e
<1>4. /\ table' \in Seq(Entry) /\ Len(table') = Len(table) + 1
      /\ (\A i \in 1..Len(table) : table'[i] = table[i]) /\ table'[Len(table) + 1] = e
  <2>1. /\ Append(table, e) \in Seq(Entry) /\ Len(Append(table, e)) = Len(table) + 1
        /\ \A i \in 1..Len(table) : Append(table, e)[i] = table[i]
        /\ Append(table, e)[Len(table) + 1] = e
    BY ONLY <1>1, <1>3, AppendIs
  <2> QED BY <1>2, <2>1
<1>5. DOMAIN table' = 1..(Len(table) + 1)
  BY <1>4
<1>6. 1..(Len(table) + 1) = (1..Len(table)) \cup {k} /\ k \notin 1..Len(table)
  BY <1>3
<1>7. \A i \in DOMAIN table : table[i].id # f.id
  BY DEF IsNew
<1> HIDE DEF k
<1>8. DOMAIN table' = DOMAIN table \cup {k} /\ k \notin DOMAIN table /\ table'[k] = e
      /\ \A i \in DOMAIN table : table'[i] = table[i]
  BY <1>3, <1>4, <1>5, <1>6 DEF k
<1>9. \A i, j \in DOMAIN table' : table'[i].id = table'[j].id => i = j
  BY <1>1, <1>7, <1>8 DEF TableOK
<1>10. Len(e.rx) <= RxParts + 1
  <2>1. Len(<<>>) = 0 /\ 0 <= RxParts + 1
    BY ConstantsAre
  <2> QED BY <1>1, <2>1
<1>11. \A i \in DOMAIN table' : Len(table'[i].rx) <= RxParts + 1
  BY <1>8, <1>10 DEF TableOK
<1> QED BY <1>1, <1>4, <1>8, <1>9, <1>11 DEF TableOK

LEMMA ChangedIs ==
  ASSUME TableOK(table), NEW n \in Nodes, NEW a, NEW f \in Frames, OwnFrame(n, a, f),
         table' = [i \in DOMAIN table |-> IF i \in At(f.src) THEN Updated(table[i], f) ELSE table[i]]
  PROVE  /\ TableOK(table')
         /\ DOMAIN table' = DOMAIN table
         /\ \A i \in DOMAIN table :
              /\ table'[i].id = table[i].id /\ table'[i].alias = table[i].alias
              /\ table'[i] = IF i \in At(f.src) THEN Updated(table[i], f) ELSE table[i]
<1>1. table \in Seq(Entry) /\ Len(table) \in Nat /\ DOMAIN table = 1..Len(table)
      /\ \A i \in 1..Len(table) : table[i] \in Entry /\ Len(table[i].rx) <= RxParts + 1
  BY DEF TableOK
<1>2. \A i \in 1..Len(table) :
        /\ Updated(table[i], f) \in Entry /\ Len(Updated(table[i], f).rx) <= RxParts + 1
        /\ Updated(table[i], f).id = table[i].id /\ Updated(table[i], f).alias = table[i].alias
  BY <1>1, UpdatedIs
<1>3. \A i \in 1..Len(table) : table'[i] = IF i \in At(f.src) THEN Updated(table[i], f) ELSE table[i]
  BY <1>1
<1>4. \A i \in 1..Len(table) :
        /\ table'[i] \in Entry /\ Len(table'[i].rx) <= RxParts + 1
        /\ table'[i].id = table[i].id /\ table'[i].alias = table[i].alias
  BY <1>1, <1>2, <1>3
<1>5. table' \in [1..Len(table) -> Entry]
  <2>1. table' = [i \in 1..Len(table) |-> table'[i]]
    BY <1>1
  <2> QED BY <1>4, <2>1
<1>6. table' \in Seq(Entry) /\ DOMAIN table' = 1..Len(table)
  BY <1>1, <1>5, SeqIs
<1>7. TableOK(table')
  <2>1. \A i, j \in 1..Len(table) : table'[i].id = table'[j].id => i = j
    BY <1>1, <1>4 DEF TableOK
  <2> QED BY <1>4, <1>6, <2>1 DEF TableOK
<1> QED BY <1>1, <1>3, <1>4, <1>6, <1>7

\* What is known of the queues and their frames.
LEMMA QueuesAre ==
  ASSUME NetworkInv, NEW n \in Nodes
  PROVE  /\ out[n] \in Seq(Frames) /\ Len(out[n]) \in Nat /\ Len(out[n]) <= TxSize
         /\ OwnAll(n, alias[n], out[n]) /\ TableOK(table)
         /\ out[Tool] \in Seq(Asks) /\ out[Tool] \in Seq(Frames)
         /\ DOMAIN out = Nodes \cup {Tool} /\ n # Tool
         /\ alias[n] \in Aliases \cup {NoAlias}
         /\ out[n] # <<>> => alias[n] \in Aliases
<1>1. out[n] \in Seq(Frames) /\ Len(out[n]) <= TxSize /\ DOMAIN out = Nodes \cup {Tool} /\ alias[n] \in Aliases \cup {NoAlias}
  BY DEF NetworkInv, NetworkTypeOK
<1>2. Len(out[n]) \in Nat /\ (out[n] # <<>> => 1 \in DOMAIN out[n])
  BY <1>1
<1>3. OwnAll(n, alias[n], out[n]) /\ out[Tool] \in Seq(Asks)
  BY DEF NetworkInv, OwnFrames
<1>4. out[n] # <<>> => alias[n] # NoAlias
  BY <1>2, <1>3 DEF OwnAll, OwnFrame
<1>5. TableOK(table)
  BY DEF NetworkInv, NetworkTypeOK, TableOK
<1>6. out[Tool] \in Seq(Frames)
  BY <1>3, AsksTyped
<1>7. n # Tool
  BY ConstantsAre
<1> QED BY <1>1, <1>2, <1>3, <1>4, <1>5, <1>6, <1>7

LEMMA EntriesAre ==
  ASSUME TableOK(table)
  PROVE  \A i \in DOMAIN table : table[i] \in Entry /\ table[i].id \in Nodes /\ Len(table[i].rx) <= RxParts + 1
<1>1. \A i \in DOMAIN table : table[i] \in Entry /\ Len(table[i].rx) <= RxParts + 1
  BY DEF TableOK
<1>2. \A e \in Entry : e.id \in Nodes
  BY DEF Entry
<1> QED BY <1>1, <1>2

\* A new node is entered, and asked.
LEMMA NewIsSeen ==
  ASSUME NetworkInv, Undisturbed, NEW n \in Nodes, NEW f \in Frames, f = out[n][1], out[n] # <<>>,
         f.id = n, f.src = alias[n], f.kind = "verified", IsNew(f), AddNode(f),
         NEW o, o[n] = Tail(out[n]), \A m \in Nodes \ {n} : o[m] = out[m], o[Tool] = out[Tool] \o Asked(f)
  PROVE  /\ MatchingIn(table', alias) /\ AllPaired(o) /\ AllRx(table', o)
         /\ AllSeen(table', alias, new, o) /\ OwnInfo(table')
<1>1. /\ out[n] \in Seq(Frames) /\ alias[n] \in Aliases /\ TableOK(table) /\ OwnFrame(n, alias[n], f)
      /\ out[Tool] \in Seq(Frames) /\ 1 \in DOMAIN out[n]
  <2>1. 1 \in DOMAIN out[n] => OwnFrame(n, alias[n], f)
    BY QueuesAre DEF OwnAll
  <2> QED BY <2>1, QueuesAre, ShrunkIs
<1>2. alias[n] # NoAlias
  BY <1>1, ConstantsAre
<1>3. f.part = "only"
  BY <1>1 DEF OwnFrame
<1>4. PICK k : /\ k \notin DOMAIN table /\ DOMAIN table' = DOMAIN table \cup {k}
               /\ \A i \in DOMAIN table : table'[i] = table[i]
               /\ table'[k].id = n /\ table'[k].alias = alias[n]
               /\ table'[k].rx = <<>> /\ table'[k].info = "none"
  BY <1>1, AddedIs
<1>5. \A i \in DOMAIN table : table[i].id # n
  BY DEF IsNew
<1>6. Asked(f) \in Seq(Frames) /\ AsksFor(Asked(f), "protocols?", alias[n]) /\ AsksFor(Asked(f), "info?", alias[n])
  BY <1>1, AskedIs
<1>7. /\ MatchingIn(table, alias) /\ AllPaired(out) /\ AllRx(table, out)
      /\ AllSeen(table, alias, new, out) /\ OwnInfo(table) /\ DistinctIn(alias)
  BY DEF Undisturbed, NetworkInv
<1>8. MatchingIn(table', alias)
  BY <1>2, <1>4, <1>7 DEF MatchingIn, DistinctIn
<1>9. Paired(Tail(out[n])) /\ ~Half(Tail(out[n]))
  <2>1. Paired(out[n])
    BY <1>7 DEF AllPaired
  <2> QED BY <1>1, <1>3, <2>1, ShrunkIs
<1>10. AllPaired(o)
  BY <1>7, <1>9 DEF AllPaired
<1>11. AllRx(table', o)
  <2>1. \A i \in DOMAIN table : table[i].id \in Nodes \ {n}
    <3>1. \A i \in DOMAIN table : table[i].id \in Nodes
      BY <1>1, EntriesAre
    <3> QED BY <1>5, <3>1
  <2>2. \A i \in DOMAIN table : RxOf(table'[i], o[table'[i].id])
    BY <1>4, <1>7, <2>1 DEF AllRx
  <2>3. RxOf(table'[k], o[table'[k].id])
    BY <1>4, <1>9 DEF RxOf
  <2> QED BY <1>4, <2>2, <2>3 DEF AllRx
<1>12. AllSeen(table', alias, new, o)
  <2> SUFFICES ASSUME NEW m \in Nodes, alias[m] # NoAlias, m \notin new
               PROVE  Seen(table', m, alias[m], o[Tool], o[m])
    BY DEF AllSeen
  <2>1. Seen(table, m, alias[m], out[Tool], out[m])
    BY <1>7 DEF AllSeen
  <2>2. \A kind, to : AsksFor(out[Tool], kind, to) \/ AsksFor(Asked(f), kind, to) => AsksFor(o[Tool], kind, to)
    BY <1>1, <1>6, GrownIs
  <2>3. CASE m = n
    <3>1. \A i \in DOMAIN table' : table'[i].id = n => Enters(table'[i], alias[n], o[Tool], o[n])
      <4>1. AsksFor(o[Tool], "protocols?", alias[n]) /\ AsksFor(o[Tool], "info?", alias[n])
        BY <1>6, <2>2
      <4> QED BY <4>1 DEF Enters
    <3> QED BY <1>4, <2>3, <3>1 DEF Seen
  <2>4. CASE m # n
    <3>1. o[m] = out[m]
      BY <2>4
    <3>2. (\A i \in DOMAIN table' : table'[i].id # m) => (\A i \in DOMAIN table : table[i].id # m)
      BY <1>4
    <3>3. \A e : Enters(e, alias[m], out[Tool], out[m]) => Enters(e, alias[m], o[Tool], o[m])
      BY <2>2, <3>1 DEF Enters
    <3>4. \A i \in DOMAIN table' : table'[i].id = m => Enters(table'[i], alias[m], out[Tool], out[m])
      BY <1>4, <2>1, <2>4 DEF Seen
    <3> QED BY <2>1, <2>2, <3>1, <3>2, <3>3, <3>4 DEF Seen
  <2> QED BY <2>3, <2>4
<1>13. OwnInfo(table')
  BY <1>4, <1>7 DEF OwnInfo
<1> QED BY <1>8, <1>10, <1>11, <1>12, <1>13

\* The answer of a node that is known is entered with it, and nothing else.
LEMMA KnownIsSeen ==
  ASSUME NetworkInv, Undisturbed, NEW n \in Nodes, NEW f \in Frames, f = out[n][1], out[n] # <<>>,
         ~IsNew(f), table' = [i \in DOMAIN table |-> IF i \in At(f.src) THEN Updated(table[i], f) ELSE table[i]],
         NEW o, o[n] = Tail(out[n]), \A m \in Nodes \ {n} : o[m] = out[m], o[Tool] = out[Tool]
  PROVE  /\ MatchingIn(table', alias) /\ AllPaired(o) /\ AllRx(table', o)
         /\ AllSeen(table', alias, new, o) /\ OwnInfo(table')
<1> DEFINE q == out[n]
           t == Tail(q)
<1>1. /\ q \in Seq(Frames) /\ alias[n] \in Aliases /\ TableOK(table) /\ OwnFrame(n, alias[n], f)
      /\ 1 \in DOMAIN q
  <2>1. 1 \in DOMAIN out[n] => OwnFrame(n, alias[n], f)
    BY QueuesAre DEF OwnAll
  <2> QED BY <2>1, QueuesAre, ShrunkIs
<1>2. alias[n] # NoAlias /\ f.src = alias[n]
  BY <1>1, ConstantsAre DEF OwnFrame
<1>3. /\ MatchingIn(table, alias) /\ AllPaired(out) /\ AllRx(table, out)
      /\ AllSeen(table, alias, new, out) /\ OwnInfo(table) /\ DistinctIn(alias)
  BY DEF Undisturbed, NetworkInv
<1>4. /\ DOMAIN table' = DOMAIN table
      /\ \A i \in DOMAIN table :
              /\ table'[i].id = table[i].id /\ table'[i].alias = table[i].alias
              /\ table'[i] = IF i \in At(f.src) THEN Updated(table[i], f) ELSE table[i]
  BY <1>1, ChangedIs
<1>5. \A i \in DOMAIN table : table[i] \in Entry /\ table[i].id \in Nodes /\ Len(table[i].rx) <= RxParts + 1
  BY <1>1, EntriesAre
<1>6. \A i \in DOMAIN table : table[i].id = n <=> i \in At(f.src)
  <2>1. \A i \in DOMAIN table : table[i].id = n <=> table[i].alias = f.src
    BY <1>2, <1>3 DEF MatchingIn
  <2>2. \A i \in At(f.src) : table[i].id = n
    BY <2>1 DEF At
  <2>3. ASSUME NEW i \in DOMAIN table, table[i].id = n PROVE i \in At(f.src)
    <3>1. table[i].alias = f.src
      BY <2>1, <2>3
    <3>2. Len(table) \in Nat /\ DOMAIN table = 1..Len(table)
      BY <1>1 DEF TableOK
    <3>3. \A j \in 1..(i - 1) : j \in DOMAIN table /\ j # i
      BY <3>2
    <3>4. \A j \in 1..(i - 1) : table[j].alias # f.src
      BY <1>1, <2>1, <2>3, <3>3 DEF TableOK
    <3> QED BY <3>1, <3>4 DEF At
  <2> QED BY <2>2, <2>3
<1>7. /\ t \in Seq(Frames) /\ Paired(t) /\ (Half(t) <=> f.part = "first")
      /\ (Half(q) <=> f.part = "last")
      /\ \A kind : HasKind(q, kind) => (f.kind = kind \/ HasKind(t, kind))
      /\ HasLast(q) => (f.part = "last" \/ HasLast(t))
  <2>1. Paired(q)
    BY <1>3 DEF AllPaired
  <2>2. Half(q) <=> f.part = "last"
    BY DEF Half
  <2> QED BY <1>1, <2>1, <2>2, ShrunkIs
<1>8. \A i \in DOMAIN table :
        IF table[i].id = n THEN table'[i] = Updated(table[i], f) /\ o[table'[i].id] = t
                           ELSE table'[i] = table[i] /\ o[table'[i].id] = out[table[i].id]
  BY <1>4, <1>5, <1>6
<1> HIDE DEF q, t
<1>9. ASSUME NEW i \in DOMAIN table, table[i].id = n
      PROVE  /\ RxOf(table'[i], t) /\ table'[i].info # "garbled"
             /\ (table[i].protocols \/ f.kind = "protocols") => table'[i].protocols
             /\ (table[i].info = "own" \/ f.part = "last") => table'[i].info = "own"
  <2>1. RxOf(table[i], q) /\ table[i].info # "garbled"
    BY <1>3, <1>9 DEF AllRx, OwnInfo, q
  <2>2. PICK e : e = table[i]
    OBVIOUS
  <2>3. PICK u : u = Updated(e, f)
    OBVIOUS
  <2>4. table'[i] = u /\ e \in Entry /\ e.id = n /\ Len(e.rx) <= RxParts + 1
    BY <1>5, <1>8, <1>9, <2>2, <2>3
  <2>5. /\ u.id = e.id /\ (e.protocols \/ f.kind = "protocols" => u.protocols)
        /\ f.part = "only" => u.rx = e.rx /\ u.info = e.info
        /\ (f.part = "first" /\ e.rx = <<>>) => u.info = e.info /\ u.rx = <<[part |-> "first", id |-> n]>>
        /\ (f.part = "last" /\ n = e.id /\ e.rx = <<[part |-> "first", id |-> e.id]>>) =>
             u.info = "own" /\ u.rx = <<>>
    BY <1>1, <2>3, <2>4, UpdatedIs
  <2>6. f.part \in {"first", "last", "only"}
    BY DEF Frames
  <2>7. e.rx = IF f.part = "last" THEN <<[part |-> "first", id |-> n]>> ELSE <<>>
    BY <1>7, <2>1, <2>2, <2>4 DEF RxOf
  <2>8. RxOf(u, t) <=> (u.rx = IF f.part = "first" THEN <<[part |-> "first", id |-> n]>> ELSE <<>>)
    BY <1>7, <2>4, <2>5 DEF RxOf
  <2>9. CASE f.part = "only"
    BY <2>1, <2>2, <2>4, <2>5, <2>7, <2>8, <2>9
  <2>10. CASE f.part = "first"
    BY <2>1, <2>2, <2>4, <2>5, <2>7, <2>8, <2>10
  <2>11. CASE f.part = "last"
    BY <2>1, <2>2, <2>4, <2>5, <2>7, <2>8, <2>11
  <2> QED BY <2>6, <2>9, <2>10, <2>11
<1>10. MatchingIn(table', alias)
  BY <1>3, <1>4 DEF MatchingIn
<1>11. AllPaired(o)
  BY <1>3, <1>7 DEF AllPaired, t, q
<1>12. AllRx(table', o)
  <2> SUFFICES ASSUME NEW i \in DOMAIN table PROVE RxOf(table'[i], o[table'[i].id])
    BY <1>4 DEF AllRx
  <2>1. CASE table[i].id = n
    BY <1>8, <1>9, <2>1
  <2>2. CASE table[i].id # n
    BY <1>3, <1>8, <2>2 DEF AllRx
  <2> QED BY <2>1, <2>2
<1>13. OwnInfo(table')
  <2> SUFFICES ASSUME NEW i \in DOMAIN table PROVE table'[i].info # "garbled"
    BY <1>4 DEF OwnInfo
  <2>1. CASE table[i].id = n
    BY <1>9, <2>1
  <2>2. CASE table[i].id # n
    BY <1>3, <1>8, <2>2 DEF OwnInfo
  <2> QED BY <2>1, <2>2
<1>14. AllSeen(table', alias, new, o)
  <2> SUFFICES ASSUME NEW m \in Nodes, alias[m] # NoAlias, m \notin new
               PROVE  Seen(table', m, alias[m], o[Tool], o[m])
    BY DEF AllSeen
  <2>1. Seen(table, m, alias[m], out[Tool], out[m])
    BY <1>3 DEF AllSeen
  <2>2. (\A i \in DOMAIN table' : table'[i].id # m) <=> (\A i \in DOMAIN table : table[i].id # m)
    BY <1>4
  <2>3. CASE m # n
    <3>1. o[m] = out[m] /\ o[Tool] = out[Tool]
      BY <2>3
    <3>2. \A i \in DOMAIN table : table[i].id = m => table'[i] = table[i]
      BY <1>8, <2>3
    <3> QED BY <1>4, <2>1, <2>2, <3>1, <3>2 DEF Seen
  <2>4. CASE m = n
    <3>1. o[m] = t /\ out[m] = q /\ o[Tool] = out[Tool]
      BY <2>4 DEF t, q
    <3>2. (\A i \in DOMAIN table : table[i].id # n) => f.kind # "verified"
      <4>1. f.kind = "verified" => f.id = n
        BY <1>1 DEF OwnFrame
      <4> QED BY <4>1 DEF IsNew
    <3>3. (\A i \in DOMAIN table : table[i].id # n) =>
            (AsksFor(out[Tool], "verify", NoAlias) \/ HasKind(t, "verified"))
      BY <1>7, <2>1, <2>4, <3>1, <3>2 DEF Seen
    <3>4. ASSUME NEW i \in DOMAIN table, table[i].id = n
          PROVE  Enters(table'[i], alias[n], out[Tool], t)
      <4>1. Enters(table[i], alias[n], out[Tool], q)
        BY <2>1, <2>4, <3>1, <3>4 DEF Seen
      <4>2. table'[i].protocols \/ AsksFor(out[Tool], "protocols?", alias[n]) \/ HasKind(t, "protocols")
        <5>1. table[i].protocols \/ AsksFor(out[Tool], "protocols?", alias[n]) \/ HasKind(q, "protocols")
          BY <4>1 DEF Enters
        <5>2. HasKind(q, "protocols") => (f.kind = "protocols" \/ HasKind(t, "protocols"))
          BY <1>7
        <5>3. (table[i].protocols \/ f.kind = "protocols") => table'[i].protocols
          BY <1>9, <3>4
        <5> QED BY <5>1, <5>2, <5>3
      <4>3. table'[i].info = "own" \/ AsksFor(out[Tool], "info?", alias[n]) \/ HasLast(t)
        <5>1. table[i].info = "own" \/ AsksFor(out[Tool], "info?", alias[n]) \/ HasLast(q)
          BY <4>1 DEF Enters
        <5>2. HasLast(q) => (f.part = "last" \/ HasLast(t))
          BY <1>7
        <5>3. (table[i].info = "own" \/ f.part = "last") => table'[i].info = "own"
          BY <1>9, <3>4
        <5> QED BY <5>1, <5>2, <5>3
      <4> QED BY <4>2, <4>3 DEF Enters
    <3>5. \A i \in DOMAIN table' : table'[i].id = n => Enters(table'[i], alias[n], out[Tool], t)
      BY <1>4, <3>4
    <3> QED BY <1>4, <2>2, <2>4, <3>1, <3>3, <3>5 DEF Seen
  <2> QED BY <2>3, <2>4
<1> QED BY <1>10, <1>11, <1>12, <1>13, <1>14

\* A frame of the device n leaves its queue; `asked' is what the GUI asks.
LEMMA LeavesQueue ==
  ASSUME NetworkInv, NEW n \in Nodes, out[n] # <<>>, NEW asked \in Seq(Asks),
         out' = [out EXCEPT ![n] = Tail(@), ![Tool] = @ \o asked], alias' = alias
  PROVE  /\ out' \in [Nodes \cup {Tool} -> Seq(Frames)] /\ out'[Tool] \in Seq(Asks)
         /\ \A m \in Nodes : Len(out'[m]) <= TxSize
         /\ out'[n] = Tail(out[n]) /\ out'[Tool] = out[Tool] \o asked
         /\ \A m \in Nodes \ {n} : out'[m] = out[m]
         /\ OwnFrames'
<1>1. /\ out[n] \in Seq(Frames) /\ Len(out[n]) \in Nat /\ Len(out[n]) <= TxSize
      /\ OwnAll(n, alias[n], out[n]) /\ out[Tool] \in Seq(Asks) /\ n # Tool
      /\ DOMAIN out = Nodes \cup {Tool}
  BY QueuesAre
<1>2. out \in [Nodes \cup {Tool} -> Seq(Frames)] /\ \A m \in Nodes : Len(out[m]) <= TxSize
  BY DEF NetworkInv, NetworkTypeOK
<1>3. out'[n] = Tail(out[n]) /\ out'[Tool] = out[Tool] \o asked /\ \A m \in Nodes \ {n} : out'[m] = out[m]
  <2>1. n \in Nodes \cup {Tool} /\ Tool \in Nodes \cup {Tool} /\ \A m \in Nodes : m # Tool /\ m \in Nodes \cup {Tool}
    BY ConstantsAre
  <2> QED BY <1>1, <1>2, <2>1
<1>4. /\ Tail(out[n]) \in Seq(Frames) /\ Len(Tail(out[n])) = Len(out[n]) - 1
      /\ \A i \in 1..Len(Tail(out[n])) : i + 1 \in 1..Len(out[n]) /\ Tail(out[n])[i] = out[n][i + 1]
      /\ DOMAIN out[n] = 1..Len(out[n]) /\ DOMAIN Tail(out[n]) = 1..Len(Tail(out[n]))
  BY <1>1, TailIs
<1>5. out[Tool] \o asked \in Seq(Asks)
  BY <1>1
<1>6. out[Tool] \o asked \in Seq(Frames)
  BY <1>5, AsksTyped
<1>7. out' \in [Nodes \cup {Tool} -> Seq(Frames)]
  BY <1>2, <1>4, <1>6
<1>8. Len(Tail(out[n])) <= TxSize
  <2>1. Len(out[n]) - 1 <= TxSize
    BY <1>1, ConstantsAre
  <2> QED BY <1>4, <2>1
<1>9. \A m \in Nodes : Len(out'[m]) <= TxSize
  BY <1>2, <1>3, <1>8
<1>10. OwnAll(n, alias[n], Tail(out[n]))
  BY <1>1, <1>4 DEF OwnAll
<1>11. OwnFrames'
  BY <1>3, <1>10 DEF OwnFrames, NetworkInv
<1> QED BY <1>3, <1>5, <1>7, <1>9, <1>11

LEMMA ToldDevicesAre ==
  ASSUME NEW f, NEW s
  PROVE  Told(f, s) \in SUBSET Nodes
  BY DEF Told, Permitted

LEMMA DeviceSendsKeeps ==
  ASSUME NetworkInv, NEW n \in Nodes, DeviceSends(n)
  PROVE  NetworkInv'
<1> DEFINE f == Head(out[n])
<1>1. /\ out[n] # <<>> /\ NetworkIncomingFrame(f)
      /\ out' = [out EXCEPT ![n] = Tail(@), ![Tool] = @ \o Asked(f)]
      /\ told' = Told(f, n)
      /\ UNCHANGED <<alias, list, open, wanted, new, disturbed, left>>
  BY DEF DeviceSends, deviceVars
<1>2. f = out[n][1] /\ f \in Frames /\ 1 \in DOMAIN out[n] /\ alias[n] \in Aliases /\ TableOK(table)
  BY <1>1, QueuesAre, ShrunkIs
<1>3. OwnFrame(n, alias[n], f)
  BY <1>2, QueuesAre DEF OwnAll
<1>4. f.src = alias[n] /\ (f.kind = "verified" => f.id = n)
  BY <1>3 DEF OwnFrame
<1> HIDE DEF f
<1>5. Asked(f) \in Seq(Asks) /\ (~IsNew(f) => Asked(f) = <<>>)
  <2>1. Asked(f) \in Seq(Asks)
    BY <1>2, <1>4, AskedIs
  <2> QED BY <2>1 DEF Asked
<1>6. PICK asked \in Seq(Asks) : asked = Asked(f)
  BY <1>5
<1>7. /\ out' \in [Nodes \cup {Tool} -> Seq(Frames)] /\ out'[Tool] \in Seq(Asks)
      /\ \A m \in Nodes : Len(out'[m]) <= TxSize
      /\ out'[n] = Tail(out[n]) /\ out'[Tool] = out[Tool] \o asked
      /\ \A m \in Nodes \ {n} : out'[m] = out[m]
      /\ OwnFrames'
  <2>1. out' = [out EXCEPT ![n] = Tail(@), ![Tool] = @ \o asked] /\ alias' = alias
    BY <1>1, <1>6
  <2> QED BY ONLY <1>1, <2>1, NetworkInv, n \in Nodes, asked \in Seq(Asks), LeavesQueue
<1>8. CASE IsNew(f)
  <2>1. AddNode(f) /\ f.kind = "verified" /\ f.id = n
    BY <1>1, <1>4, <1>8 DEF NetworkIncomingFrame, IsNew
  <2>2. TableOK(table')
    BY <1>2, <1>4, <1>8, <2>1, AddedIs
  <2>3. graph' \in SUBSET Nodes /\ graphOpen' \in BOOLEAN
    BY <2>1 DEF AddNode, NetworkInv, NetworkTypeOK
  <2>4. Undisturbed => Undisturbed'
    <3>1. ASSUME Undisturbed
          PROVE  /\ MatchingIn(table', alias) /\ AllPaired(out') /\ AllRx(table', out')
                 /\ AllSeen(table', alias, new, out') /\ OwnInfo(table')
      <4>1. out'[Tool] = out[Tool] \o Asked(f)
        BY <1>6, <1>7
      <4>2. PICK o : o = out'
        OBVIOUS
      <4>3. o[n] = Tail(out[n]) /\ (\A m \in Nodes \ {n} : o[m] = out[m]) /\ o[Tool] = out[Tool] \o Asked(f)
        BY <1>7, <4>1, <4>2
      <4>4. /\ MatchingIn(table', alias) /\ AllPaired(o) /\ AllRx(table', o)
            /\ AllSeen(table', alias, new, o) /\ OwnInfo(table')
        BY ONLY ZenonT(60), NetworkInv, n \in Nodes, <1>1, <1>2, <1>4, <1>8, <2>1, <3>1, <4>3, NewIsSeen
      <4> QED BY <4>2, <4>4
    <3> QED BY <1>1, <3>1 DEF Undisturbed
  <2>5. NetworkTypeOK'
    BY <1>1, <1>7, <2>2, <2>3, ToldDevicesAre DEF NetworkInv, NetworkTypeOK, TableOK
  <2>6. DistinctIn(alias)' /\ Listed' /\ (disturbed \/ Undisturbed)'
    BY <1>1, <2>4 DEF NetworkInv, DistinctIn, Listed
  <2> QED BY <1>7, <2>5, <2>6 DEF NetworkInv
<1>9. CASE ~IsNew(f)
  <2>1. /\ table' = [i \in DOMAIN table |-> IF i \in At(f.src) THEN Updated(table[i], f) ELSE table[i]]
        /\ UNCHANGED <<graph, graphOpen>>
    BY <1>1, <1>9 DEF NetworkIncomingFrame
  <2>2. TableOK(table')
    BY <1>2, <1>3, <2>1, ChangedIs
  <2>3. graph' \in SUBSET Nodes /\ graphOpen' \in BOOLEAN
    BY <2>1 DEF NetworkInv, NetworkTypeOK
  <2>4. Undisturbed => Undisturbed'
    <3>1. ASSUME Undisturbed
          PROVE  /\ MatchingIn(table', alias) /\ AllPaired(out') /\ AllRx(table', out')
                 /\ AllSeen(table', alias, new, out') /\ OwnInfo(table')
      <4>1. out'[Tool] = out[Tool]
        <5>1. out[Tool] \o <<>> = out[Tool]
          <6>1. out[Tool] \in Seq(Asks)
            BY DEF NetworkInv
          <6> QED BY <6>1
        <5> QED BY <1>5, <1>6, <1>7, <1>9, <5>1
      <4>2. PICK o : o = out'
        OBVIOUS
      <4>3. o[n] = Tail(out[n]) /\ (\A m \in Nodes \ {n} : o[m] = out[m]) /\ o[Tool] = out[Tool]
        BY <1>7, <4>1, <4>2
      <4>4. /\ MatchingIn(table', alias) /\ AllPaired(o) /\ AllRx(table', o)
            /\ AllSeen(table', alias, new, o) /\ OwnInfo(table')
        BY ONLY NetworkInv, n \in Nodes, <1>1, <1>2, <1>9, <2>1, <3>1, <4>3, KnownIsSeen
      <4> QED BY <4>2, <4>4
    <3> QED BY <1>1, <3>1 DEF Undisturbed
  <2>5. NetworkTypeOK'
    BY <1>1, <1>7, <2>2, <2>3, ToldDevicesAre DEF NetworkInv, NetworkTypeOK, TableOK
  <2>6. DistinctIn(alias)' /\ Listed' /\ (disturbed \/ Undisturbed)'
    BY <1>1, <2>4 DEF NetworkInv, DistinctIn, Listed
  <2> QED BY <1>7, <2>5, <2>6 DEF NetworkInv
<1> QED BY <1>8, <1>9

LEMMA ToolMissesKeeps ==
  ASSUME NetworkInv, NEW n \in Nodes, ToolMisses(n)
  PROVE  NetworkInv'
<1>1. /\ out[n] # <<>> /\ out' = [out EXCEPT ![n] = Tail(@)] /\ disturbed' = TRUE
      /\ told' = Told(Head(out[n]), n) /\ left >= 2 /\ left' = left - 2
      /\ UNCHANGED <<alias, list, open, wanted, table, graph, graphOpen, new>>
  BY DEF ToolMisses, Budget, deviceVars, toolVars
<1>2. out \in [Nodes \cup {Tool} -> Seq(Frames)] /\ out[Tool] \in Seq(Asks)
  BY DEF NetworkInv, NetworkTypeOK
<1>3. PICK asked : asked = <<>> /\ asked \in Seq(Asks) /\ out[Tool] \o asked = out[Tool]
  <2>1. out[Tool] \o <<>> = out[Tool] /\ <<>> \in Seq(Asks)
    BY <1>2
  <2> QED BY <2>1
<1>4. out' = [out EXCEPT ![n] = Tail(@), ![Tool] = @ \o asked]
  BY <1>1, <1>2, <1>3, ConstantsAre
<1>5. /\ out' \in [Nodes \cup {Tool} -> Seq(Frames)] /\ out'[Tool] \in Seq(Asks)
      /\ \A m \in Nodes : Len(out'[m]) <= TxSize
      /\ OwnFrames'
  BY <1>1, <1>3, <1>4, LeavesQueue
<1>6. left' \in 0..MaxExternal
  BY <1>1, ConstantsAre DEF NetworkInv, NetworkTypeOK
<1>7. NetworkTypeOK'
  BY <1>1, <1>5, <1>6, ToldDevicesAre DEF NetworkInv, NetworkTypeOK
<1> QED BY <1>1, <1>5, <1>7 DEF NetworkInv, DistinctIn, Listed

-------------------------------------------------------------------------------
(* Devices answer. *)

\* The devices write after what they have; `asks' is what the GUI has then.
LEMMA AnsweredIs ==
  ASSUME NetworkInv, NEW f, Askable(f), NEW asks \in Seq(Asks), NEW before,
         before \in [Nodes \cup {Tool} -> Seq(Frames)], before[Tool] = asks,
         \A n \in Nodes : before[n] = out[n],
         Answered(f, before), alias' = alias
  PROVE  /\ out' \in [Nodes \cup {Tool} -> Seq(Frames)] /\ out'[Tool] = asks
         /\ \A m \in Nodes : Len(out'[m]) <= TxSize
         /\ OwnFrames' /\ disturbed' \in BOOLEAN /\ told' \in SUBSET Nodes
         /\ ~disturbed' => /\ ~disturbed
                           /\ \A n \in Nodes : IF alias[n] # NoAlias THEN out'[n] = out[n] \o Answers(n, f)
                                                                     ELSE out'[n] = out[n]
<1>1. /\ out \in [Nodes \cup {Tool} -> Seq(Frames)]
      /\ \A n \in Nodes : n # Tool /\ n \in Nodes \cup {Tool} /\ (n \in Permitted <=> alias[n] # NoAlias)
      /\ Tool \notin Permitted /\ NetworkTypeOK
  BY ConstantsAre DEF NetworkInv, NetworkTypeOK, Permitted
<1>2. /\ out' = [t \in Nodes \cup {Tool} |->
                 IF t \in Permitted THEN before[t] \o Written(t, Answers(t, f)) ELSE before[t]]
      /\ disturbed' = (disturbed \/ \E n \in Permitted : Written(n, Answers(n, f)) # Answers(n, f))
      /\ told' = Told(f, Tool)
  BY <1>1 DEF Answered
<1>3. out'[Tool] = asks /\ \A n \in Nodes : out'[n] = IF alias[n] # NoAlias THEN out[n] \o Written(n, Answers(n, f))
                                                                          ELSE out[n]
  BY <1>1, <1>2
<1>4. ASSUME NEW n \in Nodes
      PROVE  out'[n] \in Seq(Frames) /\ Len(out'[n]) <= TxSize /\ OwnAll(n, alias[n], out'[n])
  <2>1. /\ out[n] \in Seq(Frames) /\ Len(out[n]) \in Nat /\ Len(out[n]) <= TxSize
        /\ OwnAll(n, alias[n], out[n]) /\ alias[n] \in Aliases \cup {NoAlias}
    BY QueuesAre
  <2>2. CASE alias[n] = NoAlias
    BY <1>3, <2>1, <2>2
  <2>3. CASE alias[n] # NoAlias
    <3>1. alias[n] \in Aliases
      BY <2>1, <2>3
    <3>2. PICK a \in Seq(Frames) : a = Answers(n, f) /\ OwnAll(n, alias[n], a)
      BY <1>1, <3>1, AnswersAre
    <3>3. PICK w : w = Written(n, a)
      OBVIOUS
    <3>4. /\ w \in Seq(Frames) /\ Len(out[n]) + Len(w) <= TxSize
          /\ \A k \in DOMAIN w : k \in DOMAIN a /\ w[k] = a[k]
      <4>1. /\ Written(n, a) \in Seq(Frames) /\ Len(out[n]) + Len(Written(n, a)) <= TxSize
            /\ \A k \in DOMAIN Written(n, a) : k \in DOMAIN a /\ Written(n, a)[k] = a[k]
        BY ONLY a \in Seq(Frames), <2>1, WrittenIs
      <4> QED BY <3>3, <4>1
    <3>5. OwnAll(n, alias[n], w)
      BY <3>2, <3>4 DEF OwnAll
    <3>6. out'[n] = out[n] \o w
      BY <1>3, <2>3, <3>2, <3>3
    <3>7. out[n] \o w \in Seq(Frames) /\ OwnAll(n, alias[n], out[n] \o w)
      BY <2>1, <3>4, <3>5, OwnConcat
    <3>8. Len(out[n] \o w) = Len(out[n]) + Len(w)
      BY <2>1, <3>4, ConcatIs
    <3> QED BY <3>4, <3>6, <3>7, <3>8
  <2> QED BY <2>2, <2>3
<1>5. out' \in [Nodes \cup {Tool} -> Seq(Frames)]
  <2>1. asks \in Seq(Frames)
    BY AsksTyped
  <2>2. \A t \in Nodes \cup {Tool} : out'[t] \in Seq(Frames)
    BY <1>3, <1>4, <2>1
  <2>3. out' = [t \in Nodes \cup {Tool} |-> out'[t]]
    BY <1>2
  <2> QED BY <2>2, <2>3
<1>6. OwnFrames'
  BY <1>4 DEF OwnFrames
<1>7. disturbed' \in BOOLEAN
  BY <1>1, <1>2 DEF NetworkTypeOK
<1>8. told' \in SUBSET Nodes
  BY <1>2, ToldDevicesAre
<1>9. ~disturbed' => /\ ~disturbed
                     /\ \A n \in Nodes : IF alias[n] # NoAlias THEN out'[n] = out[n] \o Answers(n, f)
                                                               ELSE out'[n] = out[n]
  BY <1>1, <1>2, <1>3
<1> QED BY <1>3, <1>4, <1>5, <1>6, <1>7, <1>8, <1>9

\* Nothing is lost: what was asked has been answered, or still is to be asked.
LEMMA AnsweredSeen ==
  ASSUME NetworkInv, Undisturbed, NEW f, Askable(f), NEW o, \A n \in Nodes : o[n] \in Seq(Frames),
         \A n \in Nodes : IF alias[n] # NoAlias THEN o[n] = out[n] \o Answers(n, f) ELSE o[n] = out[n],
         \A kind, to : AsksFor(out[Tool], kind, to) => (f = Frame(kind, NoAlias, to) \/ AsksFor(o[Tool], kind, to))
  PROVE  AllPaired(o) /\ AllRx(table, o) /\ AllSeen(table, alias, new, o)
<1>1. AllPaired(out) /\ AllRx(table, out) /\ AllSeen(table, alias, new, out) /\ NetworkTypeOK
  BY DEF Undisturbed, NetworkInv
<1>2. ASSUME NEW n \in Nodes, alias[n] # NoAlias
      PROVE  /\ Paired(o[n]) /\ (Half(o[n]) <=> Half(out[n]))
             /\ \A kind : HasKind(out[n], kind) => HasKind(o[n], kind)
             /\ HasLast(out[n]) => HasLast(o[n])
             /\ f = Frame("verify", NoAlias, NoAlias) => HasKind(o[n], "verified")
             /\ f = Frame("protocols?", NoAlias, alias[n]) => HasKind(o[n], "protocols")
             /\ f = Frame("info?", NoAlias, alias[n]) => HasLast(o[n])
  <2>1. out[n] \in Seq(Frames) /\ alias[n] \in Aliases
    BY <1>2, QueuesAre
  <2>2. PICK a : a = Answers(n, f)
    OBVIOUS
  <2>3. /\ a \in Seq(Frames) /\ Complete(a)
        /\ f = Frame("verify", NoAlias, NoAlias) => HasKind(a, "verified")
        /\ f = Frame("protocols?", NoAlias, alias[n]) => HasKind(a, "protocols")
        /\ f = Frame("info?", NoAlias, alias[n]) => HasLast(a)
    BY <1>1, <2>1, <2>2, AnswersAre
  <2>4. o[n] = out[n] \o a
    BY <1>2, <2>2
  <2>5. Paired(out[n])
    BY <1>1 DEF AllPaired
  <2>6. Paired(out[n] \o a)
    BY <2>1, <2>3, <2>5, PairedGrows
  <2>7. /\ Half(out[n] \o a) <=> Half(out[n])
        /\ \A kind : (HasKind(out[n], kind) \/ HasKind(a, kind)) => HasKind(out[n] \o a, kind)
        /\ (HasLast(out[n]) \/ HasLast(a)) => HasLast(out[n] \o a)
    BY <2>1, <2>3, GrownIs
  <2> QED BY <2>3, <2>4, <2>6, <2>7
<1>3. \A n \in Nodes : alias[n] = NoAlias => o[n] = out[n]
  OBVIOUS
<1>4. \A n \in Nodes : Paired(o[n]) /\ (Half(o[n]) <=> Half(out[n]))
  BY <1>1, <1>2, <1>3 DEF AllPaired
<1>5. AllPaired(o)
  BY <1>4 DEF AllPaired
<1>6. AllRx(table, o)
  <2>1. \A i \in DOMAIN table : table[i].id \in Nodes
    BY EntriesAre, QueuesAre DEF NetworkInv, NetworkTypeOK, TableOK
  <2> QED BY <1>1, <1>4, <2>1 DEF AllRx, RxOf
<1>7. AllSeen(table, alias, new, o)
  <2> SUFFICES ASSUME NEW n \in Nodes, alias[n] # NoAlias, n \notin new
               PROVE  Seen(table, n, alias[n], o[Tool], o[n])
    BY DEF AllSeen
  <2>1. Seen(table, n, alias[n], out[Tool], out[n])
    BY <1>1 DEF AllSeen
  <2>2. AsksFor(out[Tool], "verify", NoAlias) \/ HasKind(out[n], "verified") =>
          AsksFor(o[Tool], "verify", NoAlias) \/ HasKind(o[n], "verified")
    BY <1>2
  <2>3. AsksFor(out[Tool], "protocols?", alias[n]) \/ HasKind(out[n], "protocols") =>
          AsksFor(o[Tool], "protocols?", alias[n]) \/ HasKind(o[n], "protocols")
    BY <1>2
  <2>4. AsksFor(out[Tool], "info?", alias[n]) \/ HasLast(out[n]) =>
          AsksFor(o[Tool], "info?", alias[n]) \/ HasLast(o[n])
    BY <1>2
  <2>5. \A e : Enters(e, alias[n], out[Tool], out[n]) => Enters(e, alias[n], o[Tool], o[n])
    BY <2>3, <2>4 DEF Enters
  <2> QED BY <2>1, <2>2, <2>5 DEF Seen
<1> QED BY <1>5, <1>6, <1>7

\* Everything but the queues, and what the devices were told, stays.
LEMMA AnsweredKeeps ==
  ASSUME NetworkInv, NEW f, Askable(f), NEW asks \in Seq(Asks), NEW before,
         before \in [Nodes \cup {Tool} -> Seq(Frames)], before[Tool] = asks,
         \A n \in Nodes : before[n] = out[n],
         \A kind, to : AsksFor(out[Tool], kind, to) => (f = Frame(kind, NoAlias, to) \/ AsksFor(asks, kind, to)),
         Answered(f, before), UNCHANGED <<alias, list, open, wanted, table, graph, graphOpen, new>>,
         left' \in 0..MaxExternal
  PROVE  NetworkInv'
<1>1. /\ out' \in [Nodes \cup {Tool} -> Seq(Frames)] /\ out'[Tool] = asks
      /\ \A m \in Nodes : Len(out'[m]) <= TxSize
      /\ OwnFrames' /\ disturbed' \in BOOLEAN /\ told' \in SUBSET Nodes
      /\ ~disturbed' => /\ ~disturbed
                        /\ \A n \in Nodes : IF alias[n] # NoAlias THEN out'[n] = out[n] \o Answers(n, f)
                                                                  ELSE out'[n] = out[n]
  <2>1. alias' = alias
    OBVIOUS
  <2> QED BY <2>1, AnsweredIs
<1>2. NetworkTypeOK'
  BY <1>1 DEF NetworkInv, NetworkTypeOK
<1>3. ~disturbed' => Undisturbed'
  <2> SUFFICES ASSUME ~disturbed' PROVE Undisturbed'
    OBVIOUS
  <2>1. Undisturbed
    BY <1>1 DEF NetworkInv
  <2>2. PICK o : o = out'
    OBVIOUS
  <2>3. /\ \A n \in Nodes : o[n] \in Seq(Frames)
        /\ \A n \in Nodes : IF alias[n] # NoAlias THEN o[n] = out[n] \o Answers(n, f) ELSE o[n] = out[n]
        /\ \A kind, to : AsksFor(out[Tool], kind, to) => (f = Frame(kind, NoAlias, to) \/ AsksFor(o[Tool], kind, to))
    BY <1>1, <2>2
  <2>4. AllPaired(o) /\ AllRx(table, o) /\ AllSeen(table, alias, new, o)
    BY ONLY NetworkInv, Askable(f), <2>1, <2>3, AnsweredSeen
  <2> QED BY <2>1, <2>2, <2>4 DEF Undisturbed
<1>4. out'[Tool] \in Seq(Asks)
  BY <1>1
<1> QED BY <1>1, <1>2, <1>3, <1>4 DEF NetworkInv, DistinctIn, Listed

LEMMA ToolSendsKeeps ==
  ASSUME NetworkInv, ToolSends
  PROVE  NetworkInv'
<1> DEFINE f == Head(out[Tool])
           asks == Tail(out[Tool])
           before == [out EXCEPT ![Tool] = Tail(@)]
<1>1. /\ out[Tool] # <<>> /\ Answered(f, before)
      /\ UNCHANGED <<alias, list, open, wanted, table, graph, graphOpen, new, left>>
  BY DEF ToolSends, deviceVars, toolVars
<1>2. out[Tool] \in Seq(Asks) /\ out[Tool] \in Seq(Frames) /\ out \in [Nodes \cup {Tool} -> Seq(Frames)]
  BY AsksTyped DEF NetworkInv, NetworkTypeOK
<1>3. asks \in Seq(Asks) /\ asks \in Seq(Frames) /\ f = out[Tool][1] /\ f \in Asks
  <2>1. asks \in Seq(Asks) /\ f = out[Tool][1] /\ out[Tool][1] \in Asks
    BY <1>1, <1>2, TailIs
  <2> QED BY <2>1, AsksTyped
<1>4. Askable(f)
  BY <1>3 DEF Askable, Asks
<1>5. \A kind, to : AsksFor(out[Tool], kind, to) => (f = Frame(kind, NoAlias, to) \/ AsksFor(asks, kind, to))
  BY <1>1, <1>2, <1>3, ShrunkIs
<1>6. before \in [Nodes \cup {Tool} -> Seq(Frames)] /\ before[Tool] = asks /\ \A n \in Nodes : before[n] = out[n]
  BY <1>2, <1>3, ConstantsAre
<1>7. left' \in 0..MaxExternal /\ UNCHANGED <<alias, list, open, wanted, table, graph, graphOpen, new>>
  BY <1>1 DEF NetworkInv, NetworkTypeOK
<1> HIDE DEF f, asks, before
<1>8. PICK g, q, b : g = f /\ q = asks /\ b = before
  OBVIOUS
<1>9. /\ Askable(g) /\ q \in Seq(Asks) /\ b \in [Nodes \cup {Tool} -> Seq(Frames)] /\ b[Tool] = q
      /\ \A n \in Nodes : b[n] = out[n]
      /\ \A kind, to : AsksFor(out[Tool], kind, to) => (g = Frame(kind, NoAlias, to) \/ AsksFor(q, kind, to))
      /\ Answered(g, b)
  BY <1>1, <1>3, <1>4, <1>5, <1>6, <1>8
<1> QED BY ONLY NetworkInv, <1>7, <1>9, AnsweredKeeps

LEMMA QuestionsAre ==
  ASSUME NEW f \in Questions \cup QuietQuestions
  PROVE  Askable(f)
<1>1. \A a \in Aliases \cup {NoAlias}, kind \in FrameKinds : Frame(kind, NoAlias, a) \in Frames /\ Frame(kind, NoAlias, a).kind = kind
  BY FrameIs
<1>2. \A k \in {"verify", "verify addressed", "info?", "identify", "produced?", "consumed?", "report"} : k \in FrameKinds
  BY DEF FrameKinds, Kinds
<1>3. NoAlias \in Aliases \cup {NoAlias} /\ Events \subseteq Int
  BY ConstantsAre
<1>4. CASE \E a \in Aliases \cup {NoAlias}, k \in {"verify", "verify addressed", "info?", "identify"} :
             f = Frame(k, NoAlias, a)
  <2>1. PICK a \in Aliases \cup {NoAlias}, k \in {"verify", "verify addressed", "info?", "identify"} :
          f = Frame(k, NoAlias, a)
    BY <1>4
  <2>2. f \in Frames /\ f.kind = k
    BY <1>1, <1>2, <2>1
  <2> QED BY <2>2 DEF Askable
<1>5. CASE \E n \in Nodes : f = [Frame("verify", NoAlias, NoAlias) EXCEPT !.id = n]
  <2>1. PICK n \in Nodes : f = [Frame("verify", NoAlias, NoAlias) EXCEPT !.id = n]
    BY <1>5
  <2>2. PICK g \in Frames : g = Frame("verify", NoAlias, NoAlias)
    BY <1>1, <1>2, <1>3
  <2>3. f \in Frames
    BY <2>1, <2>2, KnownFrame
  <2>4. f.kind = "verify"
    BY <2>1 DEF Frame
  <2> QED BY <2>3, <2>4 DEF Askable
<1>6. CASE \E k \in {"produced?", "consumed?", "report"}, e \in Events :
             f = [Frame(k, NoAlias, NoAlias) EXCEPT !.event = e]
  <2>1. PICK k \in {"produced?", "consumed?", "report"}, e \in Events :
          f = [Frame(k, NoAlias, NoAlias) EXCEPT !.event = e]
    BY <1>6
  <2>2. PICK g \in Frames : g = Frame(k, NoAlias, NoAlias)
    BY <1>1, <1>2, <1>3
  <2>3. f \in Frames /\ f.event = e
    <3>1. e \in Int
      BY <1>3
    <3>2. [g EXCEPT !.event = e] \in Frames /\ [g EXCEPT !.event = e].event = e
      BY <3>1 DEF Frames
    <3> QED BY <2>1, <2>2, <3>2
  <2> QED BY <2>3 DEF Askable
<1>7. f \in Questions => \E a \in Aliases \cup {NoAlias}, k \in {"verify", "verify addressed", "info?", "identify"} :
                           f = Frame(k, NoAlias, a)
  BY <1>3 DEF Questions, AskedOf
<1>8. f \in QuietQuestions =>
        \/ \E a \in Aliases \cup {NoAlias}, k \in {"verify", "verify addressed", "info?", "identify"} :
             f = Frame(k, NoAlias, a)
        \/ \E n \in Nodes : f = [Frame("verify", NoAlias, NoAlias) EXCEPT !.id = n]
        \/ \E k \in {"produced?", "consumed?", "report"}, e \in Events :
             f = [Frame(k, NoAlias, NoAlias) EXCEPT !.event = e]
  BY <1>3 DEF QuietQuestions, AskedOf, AskedAbout
<1> QED BY <1>4, <1>5, <1>6, <1>7, <1>8

LEMMA OtherSendsKeeps ==
  ASSUME NetworkInv, NEW f \in Questions \cup QuietQuestions, OtherSends(f)
  PROVE  NetworkInv'
<1>1. /\ Answered(f, out) /\ UNCHANGED <<alias, list, open, wanted, table, graph, graphOpen, new>>
      /\ (left >= 2 /\ left' = left - 2) \/ (left >= 1 /\ left' = left - 1)
  BY DEF OtherSends, Budget, deviceVars, toolVars
<1>2. left' \in 0..MaxExternal
  BY <1>1, ConstantsAre DEF NetworkInv, NetworkTypeOK
<1>3. Askable(f)
  BY QuestionsAre
<1>4. PICK asks \in Seq(Asks) : asks = out[Tool]
  BY DEF NetworkInv
<1>5. out \in [Nodes \cup {Tool} -> Seq(Frames)] /\ out[Tool] = asks /\ \A n \in Nodes : out[n] = out[n]
  BY <1>4 DEF NetworkInv, NetworkTypeOK
<1>6. \A kind, to : AsksFor(out[Tool], kind, to) => (f = Frame(kind, NoAlias, to) \/ AsksFor(asks, kind, to))
  BY <1>4
<1> QED BY ONLY NetworkInv, <1>1, <1>2, <1>3, <1>5, <1>6, asks \in Seq(Asks), AnsweredKeeps

-------------------------------------------------------------------------------
(* The GUI asks again. *)

LEMMA RefreshKeeps ==
  ASSUME NetworkInv, NEW asked \in Seq(Asks), RefreshNodes(asked), UNCHANGED <<alias, list, open, wanted>>,
         graph' \in SUBSET Nodes, graphOpen' \in BOOLEAN, told' = {}, left' \in 0..MaxExternal
  PROVE  NetworkInv'
<1>1. /\ table' = <<>> /\ new' = {} /\ disturbed' = (disturbed /\ ~Quiet)
      /\ out' = [out EXCEPT ![Tool] = @ \o asked \o <<Frame("verify", NoAlias, NoAlias)>>]
  BY DEF RefreshNodes
<1>2. /\ out \in [Nodes \cup {Tool} -> Seq(Frames)] /\ out[Tool] \in Seq(Asks) /\ NetworkTypeOK
      /\ \A n \in Nodes : n # Tool /\ n \in Nodes \cup {Tool}
  BY ConstantsAre DEF NetworkInv, NetworkTypeOK
<1>3. PICK verify \in Asks : verify = Frame("verify", NoAlias, NoAlias)
  BY AskFrame
<1>4. PICK p \in Seq(Asks) : p = out[Tool] \o asked
  <2>1. out[Tool] \o asked \in Seq(Asks)
    BY <1>2
  <2> QED BY <2>1
<1>5. PICK v \in Seq(Asks) : v = <<verify>> /\ DOMAIN v = 1..1 /\ v[1] = verify
  <2>1. <<verify>> \in Seq(Asks) /\ DOMAIN <<verify>> = 1..1 /\ <<verify>>[1] = verify
    OBVIOUS
  <2> QED BY <2>1
<1>6. PICK q \in Seq(Asks) : q = p \o v
  <2>1. p \o v \in Seq(Asks)
    OBVIOUS
  <2> QED BY <2>1
<1>7. p \in Seq(Frames) /\ v \in Seq(Frames) /\ q \in Seq(Frames)
  BY AsksTyped
<1>8. out' = [out EXCEPT ![Tool] = q]
  BY <1>1, <1>3, <1>4, <1>5, <1>6
<1>9. out' \in [Nodes \cup {Tool} -> Seq(Frames)] /\ out'[Tool] = q /\ \A n \in Nodes : out'[n] = out[n]
  BY <1>2, <1>7, <1>8
<1>10. AsksFor(q, "verify", NoAlias)
  <2>1. AsksFor(v, "verify", NoAlias)
    <3>1. 1 \in 1..1
      OBVIOUS
    <3> QED BY <1>3, <1>5, <3>1 DEF AsksFor
  <2> QED BY <1>6, <1>7, <2>1, GrownIs
<1>11. table' \in Seq(Entry) /\ DOMAIN table' = {}
  <2>1. <<>> \in Seq(Entry) /\ DOMAIN <<>> = {}
    OBVIOUS
  <2> QED BY <1>1, <2>1
<1>12. ~disturbed' => Undisturbed'
  <2> SUFFICES ASSUME ~disturbed' PROVE Undisturbed'
    OBVIOUS
  <2>1. AllPaired(out)
    <3>1. CASE ~disturbed
      BY <3>1 DEF NetworkInv, Undisturbed
    <3>2. CASE Quiet
      <4>1. \A n \in Nodes : DOMAIN out[n] = {}
        BY <3>2 DEF Quiet
      <4> QED BY <4>1 DEF AllPaired, Paired
    <3> QED BY <1>1, <3>1, <3>2
  <2>2. AllPaired(out')
    BY <1>9, <2>1 DEF AllPaired
  <2>3. AllRx(table', out') /\ OwnInfo(table') /\ MatchingIn(table', alias')
    BY <1>11 DEF AllRx, OwnInfo, MatchingIn
  <2>4. AllSeen(table', alias', new', out')
    BY <1>9, <1>10, <1>11 DEF AllSeen, Seen
  <2> QED BY <2>2, <2>3, <2>4 DEF Undisturbed
<1>13. NetworkTypeOK'
  BY <1>1, <1>2, <1>9, <1>11 DEF NetworkTypeOK
<1>14. OwnFrames'
  BY <1>9 DEF OwnFrames, NetworkInv
<1> QED BY <1>9, <1>12, <1>13, <1>14 DEF NetworkInv, DistinctIn, Listed

LEMMA BudgetIs ==
  ASSUME NetworkTypeOK, NEW cost \in {1, 2}, Budget(cost)
  PROVE  left' \in 0..MaxExternal
  BY ConstantsAre DEF NetworkTypeOK, Budget

LEMMA QueryNetworkKeeps ==
  ASSUME NetworkInv, QueryNetwork
  PROVE  NetworkInv'
<1>1. /\ Budget(2) /\ told' = {} /\ RefreshNodes(<<>>)
      /\ UNCHANGED <<alias, list, open, wanted>> /\ UNCHANGED <<graph, graphOpen>>
  BY DEF QueryNetwork, External, deviceVars
<1>2. left' \in 0..MaxExternal
  BY <1>1, BudgetIs DEF NetworkInv
<1>3. graph' \in SUBSET Nodes /\ graphOpen' \in BOOLEAN
  BY <1>1 DEF NetworkInv, NetworkTypeOK
<1>4. PICK asked : asked = <<>> /\ asked \in Seq(Asks)
  <2>1. <<>> \in Seq(Asks)
    OBVIOUS
  <2> QED BY <2>1
<1>5. RefreshNodes(asked)
  BY <1>1, <1>4
<1> QED BY ONLY NetworkInv, <1>1, <1>2, <1>3, <1>4, <1>5, RefreshKeeps

LEMMA StartGraphKeeps ==
  ASSUME NetworkInv, StartGraph
  PROVE  NetworkInv'
<1> DEFINE asked == [k \in 1..(2 * Len(table)) |-> GraphAsks(table[(k + 1) \div 2].alias)[2 - (k % 2)]]
<1>1. /\ Budget(2) /\ told' = {} /\ RefreshNodes(asked)
      /\ UNCHANGED <<alias, list, open, wanted>> /\ graphOpen' = TRUE
      /\ graph' = {table[i].id : i \in DOMAIN table}
  BY DEF StartGraph, External, deviceVars
<1>2. TableOK(table)
  BY DEF NetworkInv, NetworkTypeOK, TableOK
<1>3. Len(table) \in Nat /\ DOMAIN table = 1..Len(table) /\ \A i \in 1..Len(table) : table[i] \in Entry /\ table[i].id \in Nodes
  <2>1. table \in Seq(Entry)
    BY <1>2 DEF TableOK
  <2>2. Len(table) \in Nat /\ DOMAIN table = 1..Len(table)
    BY <2>1
  <2> QED BY <1>2, <2>2, EntriesAre
<1>4. \A k \in 1..(2 * Len(table)) : asked[k] \in Asks
  <2> SUFFICES ASSUME NEW k \in 1..(2 * Len(table))
               PROVE  GraphAsks(table[(k + 1) \div 2].alias)[2 - (k % 2)] \in Asks
    OBVIOUS
  <2>1. (k + 1) \div 2 \in 1..Len(table)
    BY <1>3
  <2>2. 2 - (k % 2) \in 1..2
    OBVIOUS
  <2>3. PICK i \in 1..Len(table) : i = (k + 1) \div 2
    BY <2>1
  <2>4. table[i].alias \in Aliases \cup {NoAlias}
    <3>1. \A e \in Entry : e.alias \in Aliases
      BY DEF Entry
    <3> QED BY <1>3, <3>1
  <2>5. PICK g \in Seq(Asks) : g = GraphAsks(table[i].alias) /\ Len(g) = 2
    BY <2>4, TwoAsked
  <2>6. PICK j \in 1..2 : j = 2 - (k % 2)
    BY <2>2
  <2>7. g[j] \in Asks
    BY <2>5
  <2> QED BY <2>3, <2>5, <2>6, <2>7
<1>5. asked \in [1..(2 * Len(table)) -> Asks]
  BY <1>4
<1>6. 2 * Len(table) \in Nat
  BY <1>3
<1> HIDE DEF asked
<1>7. asked \in Seq(Asks)
  BY <1>5, <1>6, SeqIs
<1>8. graph' \in SUBSET Nodes /\ graphOpen' \in BOOLEAN
  BY <1>1, <1>3
<1>9. left' \in 0..MaxExternal
  BY <1>1, BudgetIs DEF NetworkInv
<1>10. PICK q \in Seq(Asks) : q = asked
  BY <1>7
<1>11. RefreshNodes(q)
  BY <1>1, <1>10
<1> QED BY ONLY NetworkInv, q \in Seq(Asks), <1>1, <1>8, <1>9, <1>11, RefreshKeeps

\* The queues of devices, or of the GUI, only grow by what is whole and their own.
LEMMA QueryNodeKeeps ==
  ASSUME NetworkInv, NEW i \in DOMAIN table, QueryNode(i)
  PROVE  NetworkInv'
<1>1. /\ told' = {} /\ out' = [out EXCEPT ![Tool] = @ \o GraphAsks(table[i].alias)]
      /\ UNCHANGED <<alias, list, open, wanted, table, graph, graphOpen, new, disturbed>>
      /\ \E cost \in {1, 2} : Budget(cost)
  BY DEF QueryNode, deviceVars, toolVars
<1>2. /\ out \in [Nodes \cup {Tool} -> Seq(Frames)] /\ out[Tool] \in Seq(Asks) /\ NetworkTypeOK
      /\ \A n \in Nodes : n # Tool /\ n \in Nodes \cup {Tool}
  BY ConstantsAre DEF NetworkInv, NetworkTypeOK
<1>3. table[i].alias \in Aliases \cup {NoAlias}
  <2>1. \A e \in Entry : e.alias \in Aliases
    BY DEF Entry
  <2>2. table[i] \in Entry
    BY <1>2 DEF NetworkTypeOK
  <2> QED BY <2>1, <2>2
<1>4. PICK g \in Seq(Asks) : g = GraphAsks(table[i].alias)
  BY <1>3, TwoAsked
<1>5. PICK q \in Seq(Asks) : q = out[Tool] \o g
  <2>1. out[Tool] \o g \in Seq(Asks)
    BY <1>2
  <2> QED BY <2>1
<1>6. g \in Seq(Frames) /\ q \in Seq(Frames) /\ out[Tool] \in Seq(Frames)
  BY <1>2, AsksTyped
<1>7. out' = [out EXCEPT ![Tool] = q]
  BY <1>1, <1>4, <1>5
<1>8. out' \in [Nodes \cup {Tool} -> Seq(Frames)] /\ out'[Tool] = q /\ \A n \in Nodes : out'[n] = out[n]
  BY <1>2, <1>6, <1>7
<1>9. \A kind, to : AsksFor(out[Tool], kind, to) => AsksFor(out'[Tool], kind, to)
  BY <1>5, <1>6, <1>8, GrownIs
<1>10. left' \in 0..MaxExternal
  BY <1>1, <1>2, BudgetIs
<1>11. NetworkTypeOK'
  BY <1>1, <1>2, <1>8, <1>10 DEF NetworkTypeOK
<1>12. OwnFrames'
  BY <1>1, <1>8 DEF OwnFrames, NetworkInv
<1>13. Undisturbed => Undisturbed'
  <2> SUFFICES ASSUME Undisturbed PROVE Undisturbed'
    OBVIOUS
  <2>1. \A j \in DOMAIN table : table[j].id \in Nodes
    BY <1>2, EntriesAre DEF NetworkTypeOK, TableOK
  <2>2. MatchingIn(table, alias)' /\ AllPaired(out') /\ OwnInfo(table')
    <3>1. MatchingIn(table, alias) /\ OwnInfo(table) /\ AllPaired(out)
      BY DEF Undisturbed
    <3>2. MatchingIn(table, alias)' /\ OwnInfo(table')
      BY <1>1, <3>1 DEF MatchingIn, OwnInfo
    <3>3. AllPaired(out')
      BY <1>8, <3>1 DEF AllPaired
    <3> QED BY <3>2, <3>3
  <2>3. AllRx(table', out')
    BY <1>1, <1>8, <2>1 DEF Undisturbed, AllRx
  <2>4. AllSeen(table', alias', new', out')
    <3> SUFFICES ASSUME NEW n \in Nodes, alias[n] # NoAlias, n \notin new
                 PROVE  Seen(table, n, alias[n], out'[Tool], out'[n])
      BY <1>1 DEF AllSeen
    <3>1. Seen(table, n, alias[n], out[Tool], out[n])
      BY DEF Undisturbed, AllSeen
    <3>2. \A e : Enters(e, alias[n], out[Tool], out[n]) => Enters(e, alias[n], out'[Tool], out'[n])
      BY <1>8, <1>9 DEF Enters
    <3> QED BY <1>8, <1>9, <3>1, <3>2 DEF Seen
  <2> QED BY <2>2, <2>3, <2>4 DEF Undisturbed
<1>14. disturbed' \/ Undisturbed'
  BY <1>1, <1>13 DEF NetworkInv
<1> QED BY <1>1, <1>8, <1>11, <1>12, <1>14 DEF NetworkInv, DistinctIn, Listed

-------------------------------------------------------------------------------
(* The devices and their applications. *)

LEMMA PlainWritten ==
  ASSUME NEW n, NEW a, NEW frames \in Seq(Frames), OwnAll(n, a, frames), Plain(frames),
         Len(out[n]) \in Nat, Len(out[n]) <= TxSize
  PROVE  /\ Written(n, frames) \in Seq(Frames) /\ Len(out[n]) + Len(Written(n, frames)) <= TxSize
         /\ OwnAll(n, a, Written(n, frames)) /\ Plain(Written(n, frames))
<1>1. /\ Written(n, frames) \in Seq(Frames)
      /\ Len(out[n]) + Len(Written(n, frames)) <= TxSize
      /\ \A k \in DOMAIN Written(n, frames) : k \in DOMAIN frames /\ Written(n, frames)[k] = frames[k]
  BY ONLY frames \in Seq(Frames), Len(out[n]) \in Nat, Len(out[n]) <= TxSize, WrittenIs
<1>2. OwnAll(n, a, Written(n, frames))
  BY <1>1 DEF OwnAll
<1>3. Plain(Written(n, frames))
  BY <1>1 DEF Plain
<1> QED BY <1>1, <1>2, <1>3

LEMMA ClaimKeeps ==
  ASSUME NetworkInv, NEW n \in Nodes, NEW a \in Aliases, Claim(n, a)
  PROVE  NetworkInv'
<1> DEFINE frames == <<Frame("initialized", a, NoAlias)>>
                        \o EventsOf(n, a, "produced") \o EventsOf(n, a, "consumed")
<1>1. /\ Budget(2) /\ told' = {} /\ alias[n] = NoAlias /\ \A m \in Nodes : alias[m] # a
      /\ alias' = [alias EXCEPT ![n] = a] /\ out' = [out EXCEPT ![n] = Written(n, frames)]
      /\ new' = new \cup {n}
      /\ disturbed' = (disturbed \/ \E i \in DOMAIN table : (table[i].id = n) # (table[i].alias = a))
      /\ UNCHANGED <<list, open, wanted, table, graph, graphOpen>>
  BY DEF Claim, External, toolVars
<1>2. /\ out \in [Nodes \cup {Tool} -> Seq(Frames)] /\ out[Tool] \in Seq(Asks) /\ NetworkTypeOK
      /\ alias \in [Nodes -> Aliases \cup {NoAlias}] /\ a # NoAlias
      /\ \A m \in Nodes : m # Tool /\ m \in Nodes \cup {Tool}
  BY ConstantsAre DEF NetworkInv, NetworkTypeOK
<1>3. out[n] = <<>> /\ Len(out[n]) \in Nat /\ Len(out[n]) <= TxSize
  BY <1>1, ConstantsAre, QueuesAre
<1>4. frames \in Seq(Frames) /\ OwnAll(n, a, frames) /\ Plain(frames)
  <2>1. PICK f : f = Frame("initialized", a, NoAlias)
    OBVIOUS
  <2>2. f \in Frames /\ f.kind = "initialized" /\ f.src = a /\ f.part = "only"
    <3>1. "initialized" \in FrameKinds /\ NoAlias \in Aliases \cup {NoAlias}
      BY DEF FrameKinds
    <3> QED BY <2>1, <3>1, FrameIs
  <2>3. OwnFrame(n, a, f)
    BY <1>2, <2>2 DEF OwnFrame, Kinds
  <2>4. PICK i \in Seq(Frames) : i = <<f>> /\ OwnAll(n, a, i) /\ Plain(i)
    BY <2>2, <2>3, SingleIs
  <2>5. PICK p \in Seq(Frames) : p = EventsOf(n, a, "produced") /\ OwnAll(n, a, p) /\ Plain(p)
    BY <1>2, EventsOfIs DEF Kinds
  <2>6. PICK c \in Seq(Frames) : c = EventsOf(n, a, "consumed") /\ OwnAll(n, a, c) /\ Plain(c)
    BY <1>2, EventsOfIs DEF Kinds
  <2>7. i \o p \in Seq(Frames) /\ OwnAll(n, a, i \o p) /\ Plain(i \o p)
    BY <2>4, <2>5, OwnConcat
  <2>8. PICK q \in Seq(Frames) : q = i \o p /\ OwnAll(n, a, q) /\ Plain(q)
    BY <2>7
  <2>9. q \o c \in Seq(Frames) /\ OwnAll(n, a, q \o c) /\ Plain(q \o c)
    BY <2>6, <2>8, OwnConcat
  <2> QED BY <2>1, <2>4, <2>5, <2>6, <2>8, <2>9
<1> HIDE DEF frames
<1>5. PICK w \in Seq(Frames) : w = Written(n, frames) /\ Len(out[n]) + Len(w) <= TxSize
                               /\ OwnAll(n, a, w) /\ Plain(w)
  BY <1>3, <1>4, PlainWritten
<1>6. Len(w) <= TxSize
  <2>1. Len(w) \in Nat /\ Len(<<>>) = 0
    OBVIOUS
  <2> QED BY <1>3, <1>5, <2>1
<1>7. out' = [out EXCEPT ![n] = w]
  BY <1>1, <1>5
<1>8. /\ out' \in [Nodes \cup {Tool} -> Seq(Frames)] /\ out'[Tool] = out[Tool] /\ out'[n] = w
      /\ \A m \in Nodes \ {n} : out'[m] = out[m]
  BY <1>2, <1>7
<1>9. alias' \in [Nodes -> Aliases \cup {NoAlias}] /\ alias'[n] = a /\ \A m \in Nodes \ {n} : alias'[m] = alias[m]
  BY <1>1, <1>2
<1>10. left' \in 0..MaxExternal
  BY <1>1, <1>2, BudgetIs
<1>11. NetworkTypeOK'
  <2>1. \A m \in Nodes : Len(out'[m]) <= TxSize
    BY <1>2, <1>6, <1>8 DEF NetworkTypeOK
  <2>2. disturbed' \in BOOLEAN /\ new' \in SUBSET Nodes
    BY <1>1, <1>2 DEF NetworkTypeOK
  <2> QED BY <1>1, <1>2, <1>8, <1>9, <1>10, <2>1, <2>2 DEF NetworkTypeOK
<1>12. OwnFrames'
  BY <1>5, <1>8, <1>9 DEF OwnFrames, NetworkInv
<1>13. DistinctIn(alias')
  BY <1>1, <1>9 DEF DistinctIn, NetworkInv
<1>14. ~disturbed' => Undisturbed'
  <2> SUFFICES ASSUME ~disturbed' PROVE Undisturbed'
    OBVIOUS
  <2>1. Undisturbed /\ \A i \in DOMAIN table : table[i].id = n <=> table[i].alias = a
    BY <1>1 DEF NetworkInv
  <2>2. Paired(w) /\ ~Half(w)
    <3>1. Complete(w)
      BY <1>5 DEF Complete
    <3> QED BY <3>1, CompleteIs DEF Half
  <2>3. ~Half(out[n])
    BY <1>3 DEF Half
  <2>4. MatchingIn(table', alias')
    <3>1. MatchingIn(table, alias)
      BY <2>1 DEF Undisturbed
    <3> QED BY <1>1, <1>9, <2>1, <3>1 DEF MatchingIn
  <2>5. AllPaired(out')
    BY <1>8, <2>1, <2>2 DEF Undisturbed, AllPaired
  <2>6. \A i \in DOMAIN table : table[i].id \in Nodes
    BY <1>2, EntriesAre DEF NetworkTypeOK, TableOK
  <2>7. AllRx(table', out')
    <3> SUFFICES ASSUME NEW i \in DOMAIN table PROVE RxOf(table[i], out'[table[i].id])
      BY <1>1 DEF AllRx
    <3>1. RxOf(table[i], out[table[i].id])
      BY <2>1 DEF Undisturbed, AllRx
    <3>2. CASE table[i].id = n
      BY <1>8, <2>2, <2>3, <3>1, <3>2 DEF RxOf
    <3>3. CASE table[i].id # n
      BY <1>8, <2>6, <3>1, <3>3
    <3> QED BY <3>2, <3>3
  <2>8. OwnInfo(table')
    BY <1>1, <2>1 DEF Undisturbed, OwnInfo
  <2>9. AllSeen(table', alias', new', out')
    <3> SUFFICES ASSUME NEW m \in Nodes, alias'[m] # NoAlias, m \notin new'
                 PROVE  Seen(table', m, alias'[m], out'[Tool], out'[m])
      BY DEF AllSeen
    <3>1. m \in Nodes \ {n} /\ m \notin new
      BY <1>1
    <3>2. Seen(table, m, alias[m], out[Tool], out[m])
      BY <1>9, <2>1, <3>1 DEF Undisturbed, AllSeen
    <3> QED BY <1>1, <1>8, <1>9, <3>1, <3>2
  <2> QED BY <2>4, <2>5, <2>7, <2>8, <2>9 DEF Undisturbed
<1>15. Listed'
  BY <1>1 DEF NetworkInv, Listed
<1> QED BY <1>2, <1>8, <1>11, <1>12, <1>13, <1>14, <1>15 DEF NetworkInv

LEMMA SwitchOffKeeps ==
  ASSUME NetworkInv, NEW n \in Nodes, SwitchOff(n)
  PROVE  NetworkInv'
<1>1. /\ Budget(2) /\ told' = {}
      /\ alias' = [alias EXCEPT ![n] = NoAlias] /\ out' = [out EXCEPT ![n] = <<>>]
      /\ open' = [open EXCEPT ![n] = [k \in Kinds |-> FALSE]]
      /\ list' = [list EXCEPT ![n] = [k \in Kinds |-> <<>>]]
      /\ wanted' = [wanted EXCEPT ![n] = [k \in Kinds |-> {}]]
      /\ disturbed' = (disturbed \/ out[n] # <<>>)
      /\ UNCHANGED <<table, graph, graphOpen, new>>
  BY DEF SwitchOff, External, toolVars
<1>2. /\ out \in [Nodes \cup {Tool} -> Seq(Frames)] /\ out[Tool] \in Seq(Asks) /\ NetworkTypeOK
      /\ alias \in [Nodes -> Aliases \cup {NoAlias}]
      /\ list \in [Nodes -> [Kinds -> Seq(Events)]] /\ open \in [Nodes -> [Kinds -> BOOLEAN]]
      /\ wanted \in [Nodes -> [Kinds -> SUBSET Events]]
      /\ \A m \in Nodes : m # Tool /\ m \in Nodes \cup {Tool}
  BY ConstantsAre DEF NetworkInv, NetworkTypeOK
<1>3. <<>> \in Seq(Frames) /\ Len(<<>>) = 0 /\ 0 <= TxSize /\ <<>> \in Seq(Events) /\ DOMAIN <<>> = {}
  BY ConstantsAre
<1>4. /\ out' \in [Nodes \cup {Tool} -> Seq(Frames)] /\ out'[Tool] = out[Tool] /\ out'[n] = <<>>
      /\ \A m \in Nodes \ {n} : out'[m] = out[m]
  BY <1>1, <1>2, <1>3
<1>5. alias' \in [Nodes -> Aliases \cup {NoAlias}] /\ alias'[n] = NoAlias /\ \A m \in Nodes \ {n} : alias'[m] = alias[m]
  BY <1>1, <1>2
<1>6. left' \in 0..MaxExternal
  BY <1>1, <1>2, BudgetIs
<1>7. /\ list' \in [Nodes -> [Kinds -> Seq(Events)]] /\ open' \in [Nodes -> [Kinds -> BOOLEAN]]
      /\ wanted' \in [Nodes -> [Kinds -> SUBSET Events]]
      /\ \A k \in Kinds : list'[n][k] = <<>> /\ wanted'[n][k] = {}
      /\ \A m \in Nodes \ {n} : list'[m] = list[m] /\ wanted'[m] = wanted[m] /\ open'[m] = open[m]
  <2>1. [k \in Kinds |-> <<>>] \in [Kinds -> Seq(Events)] /\ \A k \in Kinds : [x \in Kinds |-> <<>>][k] = <<>>
    BY <1>3
  <2>2. [k \in Kinds |-> FALSE] \in [Kinds -> BOOLEAN]
    OBVIOUS
  <2>3. [k \in Kinds |-> {}] \in [Kinds -> SUBSET Events] /\ \A k \in Kinds : [x \in Kinds |-> {}][k] = {}
    OBVIOUS
  <2>4. list' \in [Nodes -> [Kinds -> Seq(Events)]] /\ list'[n] = [k \in Kinds |-> <<>>]
        /\ \A m \in Nodes \ {n} : list'[m] = list[m]
    BY <1>1, <1>2, <2>1
  <2>5. open' \in [Nodes -> [Kinds -> BOOLEAN]] /\ \A m \in Nodes \ {n} : open'[m] = open[m]
    BY <1>1, <1>2, <2>2
  <2>6. wanted' \in [Nodes -> [Kinds -> SUBSET Events]] /\ wanted'[n] = [k \in Kinds |-> {}]
        /\ \A m \in Nodes \ {n} : wanted'[m] = wanted[m]
    BY <1>1, <1>2, <2>3
  <2> QED BY <2>1, <2>3, <2>4, <2>5, <2>6
<1>8. NetworkTypeOK'
  <2>1. \A m \in Nodes : Len(out'[m]) <= TxSize
    BY <1>2, <1>3, <1>4 DEF NetworkTypeOK
  <2>2. disturbed' \in BOOLEAN /\ told' \in SUBSET Nodes
    BY <1>1, <1>2 DEF NetworkTypeOK
  <2> QED BY <1>1, <1>2, <1>4, <1>5, <1>6, <1>7, <2>1, <2>2 DEF NetworkTypeOK
<1>9. OwnFrames'
  BY <1>3, <1>4, <1>5 DEF OwnFrames, OwnAll, NetworkInv
<1>10. DistinctIn(alias')
  BY <1>5 DEF DistinctIn, NetworkInv
<1>11. ~disturbed' => Undisturbed'
  <2> SUFFICES ASSUME ~disturbed' PROVE Undisturbed'
    OBVIOUS
  <2>1. Undisturbed /\ \A m \in Nodes : out'[m] = out[m]
    BY <1>1, <1>4 DEF NetworkInv
  <2>2. MatchingIn(table', alias')
    BY <1>1, <1>5, <2>1 DEF Undisturbed, MatchingIn
  <2>3. AllPaired(out') /\ OwnInfo(table')
    BY <1>1, <2>1 DEF Undisturbed, AllPaired, OwnInfo
  <2>4. \A i \in DOMAIN table : table[i].id \in Nodes
    BY <1>2, EntriesAre DEF NetworkTypeOK, TableOK
  <2>5. AllRx(table', out')
    BY <1>1, <2>1, <2>4 DEF Undisturbed, AllRx
  <2>6. AllSeen(table', alias', new', out')
    <3> SUFFICES ASSUME NEW m \in Nodes, alias'[m] # NoAlias, m \notin new'
                 PROVE  Seen(table', m, alias'[m], out'[Tool], out'[m])
      BY DEF AllSeen
    <3>1. m \in Nodes \ {n} /\ m \notin new
      BY <1>1, <1>5
    <3>2. Seen(table, m, alias[m], out[Tool], out[m])
      BY <1>5, <2>1, <3>1 DEF Undisturbed, AllSeen
    <3> QED BY <1>1, <1>4, <1>5, <2>1, <3>1, <3>2
  <2> QED BY <2>2, <2>3, <2>5, <2>6 DEF Undisturbed
<1>12. Listed'
  <2> SUFFICES ASSUME NEW m \in Nodes, NEW k \in Kinds
               PROVE  /\ \A e \in wanted'[m][k] : Has(list'[m][k], e)
                      /\ open'[m][k] \/ Sorted(list'[m][k])
    BY DEF Listed
  <2>1. CASE m = n
    <3>1. Sorted(<<>>)
      BY <1>3 DEF Sorted
    <3> QED BY <1>7, <2>1, <3>1
  <2>2. CASE m # n
    <3>1. list'[m] = list[m] /\ wanted'[m] = wanted[m] /\ open'[m] = open[m]
      BY <1>7, <2>2
    <3> QED BY <3>1 DEF NetworkInv, Listed
  <2> QED BY <2>1, <2>2
<1> QED BY <1>2, <1>4, <1>8, <1>9, <1>10, <1>11, <1>12 DEF NetworkInv

\* A list is changed: it has what is wanted of it, and is sorted unless it is open.
LEMMA NewListKeeps ==
  ASSUME NetworkInv, NEW n \in Nodes, NEW k \in Kinds, NEW l \in Seq(Events), NEW w \in SUBSET Events,
         NewList(n, k, l, w), open' \in [Nodes -> [Kinds -> BOOLEAN]],
         \A m \in Nodes, j \in Kinds : <<m, j>> # <<n, k>> => open'[m][j] = open[m][j],
         \A e \in w : Has(l, e), open'[n][k] \/ Sorted(l)
  PROVE  NetworkInv'
<1>1. /\ Budget(1) /\ told' = {}
      /\ list' = [list EXCEPT ![n][k] = l] /\ wanted' = [wanted EXCEPT ![n][k] = w]
      /\ UNCHANGED <<alias, out, table, graph, graphOpen, new, disturbed>>
  BY DEF NewList, toolVars
<1>2. NetworkTypeOK /\ list \in [Nodes -> [Kinds -> Seq(Events)]] /\ wanted \in [Nodes -> [Kinds -> SUBSET Events]]
  BY DEF NetworkInv, NetworkTypeOK
<1>3. left' \in 0..MaxExternal
  BY <1>1, <1>2, BudgetIs
<1>4. /\ list' \in [Nodes -> [Kinds -> Seq(Events)]] /\ list'[n][k] = l
      /\ \A m \in Nodes, j \in Kinds : <<m, j>> # <<n, k>> => list'[m][j] = list[m][j]
  BY <1>1, <1>2
<1>5. /\ wanted' \in [Nodes -> [Kinds -> SUBSET Events]] /\ wanted'[n][k] = w
      /\ \A m \in Nodes, j \in Kinds : <<m, j>> # <<n, k>> => wanted'[m][j] = wanted[m][j]
  BY <1>1, <1>2
<1>6. NetworkTypeOK'
  BY <1>1, <1>2, <1>3, <1>4, <1>5 DEF NetworkTypeOK
<1>7. Listed'
  <2> SUFFICES ASSUME NEW m \in Nodes, NEW j \in Kinds
               PROVE  /\ \A e \in wanted'[m][j] : Has(list'[m][j], e)
                      /\ open'[m][j] \/ Sorted(list'[m][j])
    BY DEF Listed
  <2>1. CASE <<m, j>> = <<n, k>>
    <3>1. m = n /\ j = k
      BY <2>1
    <3> QED BY <1>4, <1>5, <3>1
  <2>2. CASE <<m, j>> # <<n, k>>
    <3>1. list'[m][j] = list[m][j] /\ wanted'[m][j] = wanted[m][j] /\ open'[m][j] = open[m][j]
      BY <1>4, <1>5, <2>2
    <3> QED BY <3>1 DEF NetworkInv, Listed
  <2> QED BY <2>1, <2>2
<1>8. OwnFrames' /\ (disturbed \/ Undisturbed)' /\ out'[Tool] \in Seq(Asks) /\ DistinctIn(alias')
  BY <1>1 DEF NetworkInv, OwnFrames, Undisturbed, DistinctIn
<1> QED BY <1>6, <1>7, <1>8 DEF NetworkInv

LEMMA ListsAre ==
  ASSUME NetworkInv, NEW n \in Nodes, NEW k \in Kinds
  PROVE  /\ list[n][k] \in Seq(Events) /\ wanted[n][k] \in SUBSET Events /\ Events \in SUBSET Int
         /\ open[n][k] \in BOOLEAN /\ open \in [Nodes -> [Kinds -> BOOLEAN]]
         /\ \A e \in wanted[n][k] : Has(list[n][k], e)
         /\ open[n][k] \/ Sorted(list[n][k])
<1>1. list \in [Nodes -> [Kinds -> Seq(Events)]] /\ wanted \in [Nodes -> [Kinds -> SUBSET Events]]
      /\ open \in [Nodes -> [Kinds -> BOOLEAN]]
  BY DEF NetworkInv, NetworkTypeOK
<1>2. (\A e \in wanted[n][k] : Has(list[n][k], e)) /\ (open[n][k] \/ Sorted(list[n][k]))
  BY DEF NetworkInv, Listed
<1> QED BY <1>1, <1>2, ConstantsAre

LEMMA AddToListKeeps ==
  ASSUME NetworkInv, NEW n \in Nodes, NEW k \in Kinds, NEW e \in Events, AddToList(n, k, e)
  PROVE  NetworkInv'
<1>1. /\ NewList(n, k, AddEvent(list[n][k], e, ~open[n][k]), wanted[n][k] \cup {e}) /\ open' = open
  BY DEF AddToList
<1>2. /\ list[n][k] \in Seq(Events) /\ wanted[n][k] \in SUBSET Events /\ Events \in SUBSET Int
      /\ open[n][k] \in BOOLEAN /\ open \in [Nodes -> [Kinds -> BOOLEAN]]
      /\ \A x \in wanted[n][k] : Has(list[n][k], x)
  BY ListsAre
<1>3. PICK sort \in BOOLEAN : sort <=> ~open[n][k]
  BY <1>2
<1>4. sort = ~open[n][k]
  BY <1>2, <1>3
<1>5. /\ AddEvent(list[n][k], e, sort) \in Seq(Events)
      /\ \A x : Has(AddEvent(list[n][k], e, sort), x) <=> (Has(list[n][k], x) \/ x = e)
      /\ sort => Sorted(AddEvent(list[n][k], e, sort))
  BY <1>2, AddEventIs
<1>6. PICK l, w : l = AddEvent(list[n][k], e, sort) /\ w = wanted[n][k] \cup {e}
  OBVIOUS
<1>7. /\ l \in Seq(Events) /\ w \in SUBSET Events /\ \A x \in w : Has(l, x)
  BY <1>2, <1>5, <1>6
<1>8. NewList(n, k, l, w)
  BY <1>1, <1>4, <1>6
<1>9. open' \in [Nodes -> [Kinds -> BOOLEAN]]
      /\ \A m \in Nodes, j \in Kinds : <<m, j>> # <<n, k>> => open'[m][j] = open[m][j]
  BY <1>1, <1>2
<1>10. open'[n][k] \/ Sorted(l)
  <2>1. open'[n][k] = open[n][k]
    BY <1>1
  <2> QED BY <1>3, <1>5, <1>6, <2>1
<1> QED BY ONLY NetworkInv, n \in Nodes, k \in Kinds, <1>7, <1>8, <1>9, <1>10, NewListKeeps

LEMMA RemoveFromListKeeps ==
  ASSUME NetworkInv, NEW n \in Nodes, NEW e \in Events, RemoveFromList(n, e)
  PROVE  NetworkInv'
<1>1. PICK k \in Kinds : k = "consumed"
  BY DEF Kinds
<1>2. NewList(n, k, RemoveEvent(list[n][k], e), wanted[n][k] \ {e}) /\ open' = open
  BY <1>1 DEF RemoveFromList
<1>3. /\ list[n][k] \in Seq(Events) /\ wanted[n][k] \in SUBSET Events /\ Events \in SUBSET Int
      /\ open \in [Nodes -> [Kinds -> BOOLEAN]]
      /\ \A x \in wanted[n][k] : Has(list[n][k], x)
      /\ open[n][k] \/ Sorted(list[n][k])
  BY ListsAre
<1>4. PICK l, w : l = RemoveEvent(list[n][k], e) /\ w = wanted[n][k] \ {e}
  OBVIOUS
<1>5. /\ l \in Seq(Events)
      /\ \A x : Has(list[n][k], x) /\ x # e => Has(l, x)
      /\ Sorted(list[n][k]) => Sorted(l)
  <2>1. /\ RemoveEvent(list[n][k], e) \in Seq(Events)
        /\ \A x : Has(list[n][k], x) /\ x # e => Has(RemoveEvent(list[n][k], e), x)
        /\ Sorted(list[n][k]) => Sorted(RemoveEvent(list[n][k], e))
    BY ONLY <1>3, RemoveEventIs
  <2> QED BY <1>4, <2>1
<1>6. w \in SUBSET Events /\ \A x \in w : Has(l, x)
  BY <1>3, <1>4, <1>5
<1>7. NewList(n, k, l, w)
  BY <1>2, <1>4
<1>8. open' \in [Nodes -> [Kinds -> BOOLEAN]]
      /\ \A m \in Nodes, j \in Kinds : <<m, j>> # <<n, k>> => open'[m][j] = open[m][j]
  BY <1>2, <1>3
<1>9. open'[n][k] \/ Sorted(l)
  <2>1. open'[n][k] = open[n][k]
    BY <1>2
  <2> QED BY <1>3, <1>5, <2>1
<1> QED BY ONLY NetworkInv, n \in Nodes, k \in Kinds, <1>5, <1>6, <1>7, <1>8, <1>9, NewListKeeps

LEMMA ClearListKeeps ==
  ASSUME NetworkInv, NEW n \in Nodes, NEW k \in Kinds, ClearList(n, k)
  PROVE  NetworkInv'
<1>1. NewList(n, k, <<>>, {}) /\ open' = open
  BY DEF ClearList
<1>2. open \in [Nodes -> [Kinds -> BOOLEAN]]
  BY ListsAre
<1>3. PICK l, w : l = <<>> /\ w = {}
  OBVIOUS
<1>4. l \in Seq(Events) /\ w \in SUBSET Events /\ Sorted(l) /\ \A x \in w : Has(l, x)
  <2>1. l \in Seq(Events) /\ DOMAIN l = {}
    BY <1>3
  <2> QED BY <1>3, <2>1 DEF Sorted
<1>5. NewList(n, k, l, w)
  BY <1>1, <1>3
<1>6. open' \in [Nodes -> [Kinds -> BOOLEAN]] /\ (open'[n][k] \/ Sorted(l))
      /\ \A m \in Nodes, j \in Kinds : <<m, j>> # <<n, k>> => open'[m][j] = open[m][j]
  BY <1>1, <1>2, <1>4
<1> QED BY ONLY NetworkInv, n \in Nodes, k \in Kinds, <1>4, <1>5, <1>6, NewListKeeps

LEMMA StartTransactionKeeps ==
  ASSUME NetworkInv, NEW n \in Nodes, NEW k \in Kinds, StartTransaction(n, k)
  PROVE  NetworkInv'
<1>1. NewList(n, k, list[n][k], wanted[n][k]) /\ open' = [open EXCEPT ![n][k] = TRUE]
  BY DEF StartTransaction
<1>2. PICK l, w : l = list[n][k] /\ w = wanted[n][k]
  OBVIOUS
<1>3. l \in Seq(Events) /\ w \in SUBSET Events /\ (\A x \in w : Has(l, x)) /\ open \in [Nodes -> [Kinds -> BOOLEAN]]
  BY <1>2, ListsAre
<1>4. NewList(n, k, l, w)
  BY <1>1, <1>2
<1>5. open' \in [Nodes -> [Kinds -> BOOLEAN]] /\ open'[n][k] = TRUE
      /\ \A m \in Nodes, j \in Kinds : <<m, j>> # <<n, k>> => open'[m][j] = open[m][j]
  BY <1>1, <1>3
<1>6. open'[n][k] \/ Sorted(l)
  BY <1>5
<1> QED BY ONLY NetworkInv, n \in Nodes, k \in Kinds, <1>3, <1>4, <1>5, <1>6, NewListKeeps

LEMMA EndTransactionKeeps ==
  ASSUME NetworkInv, NEW n \in Nodes, NEW k \in Kinds, EndTransaction(n, k)
  PROVE  NetworkInv'
<1>1. NewList(n, k, SortedList(list[n][k]), wanted[n][k]) /\ open' = [open EXCEPT ![n][k] = FALSE]
  BY DEF EndTransaction
<1>2. PICK old : old = list[n][k]
  OBVIOUS
<1>3. PICK l, w : l = SortedList(old) /\ w = wanted[n][k]
  OBVIOUS
<1>4. /\ old \in Seq(Events) /\ w \in SUBSET Events /\ (\A x \in w : Has(old, x))
      /\ open \in [Nodes -> [Kinds -> BOOLEAN]] /\ Events \in SUBSET Int
  BY <1>2, <1>3, ListsAre
<1>5. old \in Seq(Int) /\ \A i \in DOMAIN old : old[i] \in Events
  <2>1. old \in Seq(Int)
    BY <1>4, SeqInt
  <2>2. \A i \in DOMAIN old : old[i] \in Events
    BY <1>4
  <2> QED BY <2>1, <2>2
<1>6. /\ l \in Seq(Int) /\ Sorted(l) /\ DOMAIN l = DOMAIN old
      /\ \A p \in DOMAIN old : \E i \in DOMAIN old : l[p] = old[i]
      /\ \A i \in DOMAIN old : \E p \in DOMAIN old : l[p] = old[i]
  BY <1>3, <1>5, SortedListIs
<1>7. l \in Seq(Events)
  <2>1. \A i \in DOMAIN l : l[i] \in Events
    BY <1>5, <1>6
  <2> QED BY <1>6, <2>1, SeqMadeOf
<1>8. \A x \in w : Has(l, x)
  BY <1>4, <1>6 DEF Has
<1>9. NewList(n, k, l, w)
  BY <1>1, <1>2, <1>3
<1>10. open' \in [Nodes -> [Kinds -> BOOLEAN]]
      /\ \A m \in Nodes, j \in Kinds : <<m, j>> # <<n, k>> => open'[m][j] = open[m][j]
  BY <1>1, <1>4
<1>11. open'[n][k] \/ Sorted(l)
  BY <1>6
<1>12. w \in SUBSET Events
  BY <1>4
<1> QED BY ONLY NetworkInv, n \in Nodes, k \in Kinds, <1>7, <1>8, <1>9, <1>10, <1>11, <1>12, NewListKeeps

\* An event report that finds no room is lost, and nothing of the table depends on it.
LEMMA ProduceEventKeeps ==
  ASSUME NetworkInv, NEW n \in Nodes, NEW e \in Events, ProduceEvent(n, e)
  PROVE  NetworkInv'
<1>1. /\ Budget(2) /\ told' = {} /\ alias[n] # NoAlias
      /\ out' = [out EXCEPT ![n] = @ \o Written(n, <<Identified(alias[n], "report", e)>>)]
      /\ UNCHANGED <<alias, list, open, wanted, table, graph, graphOpen, new, disturbed>>
  BY DEF ProduceEvent, External, deviceVars, toolVars, Permitted
<1>2. /\ out \in [Nodes \cup {Tool} -> Seq(Frames)] /\ out[Tool] \in Seq(Asks) /\ NetworkTypeOK
      /\ \A m \in Nodes : m # Tool /\ m \in Nodes \cup {Tool}
  BY ConstantsAre DEF NetworkInv, NetworkTypeOK
<1>3. /\ out[n] \in Seq(Frames) /\ Len(out[n]) \in Nat /\ Len(out[n]) <= TxSize
      /\ OwnAll(n, alias[n], out[n]) /\ alias[n] \in Aliases
  BY <1>1, QueuesAre
<1>4. PICK r \in Seq(Frames) : r = <<Identified(alias[n], "report", e)>> /\ OwnAll(n, alias[n], r) /\ Plain(r)
  <2>1. PICK f : f = Identified(alias[n], "report", e)
    OBVIOUS
  <2>2. f \in Frames /\ OwnFrame(n, alias[n], f) /\ f.part = "only"
    <3>1. "report" \in Kinds \cup {"report"}
      OBVIOUS
    <3> QED BY ZenonT(60), <1>3, <2>1, <3>1, IdentifiedIs
  <2> QED BY <2>1, <2>2, SingleIs
<1>5. PICK w \in Seq(Frames) : w = Written(n, r) /\ Len(out[n]) + Len(w) <= TxSize
                               /\ OwnAll(n, alias[n], w) /\ Plain(w)
  BY <1>3, <1>4, PlainWritten
<1>6. PICK q \in Seq(Frames) : q = out[n] \o w /\ OwnAll(n, alias[n], q) /\ Len(q) <= TxSize
  <2>1. out[n] \o w \in Seq(Frames) /\ OwnAll(n, alias[n], out[n] \o w)
    BY <1>3, <1>5, OwnConcat
  <2>2. Len(out[n] \o w) = Len(out[n]) + Len(w)
    BY <1>3, <1>5, ConcatIs
  <2> QED BY <1>5, <2>1, <2>2
<1>7. out' = [out EXCEPT ![n] = q]
  BY <1>1, <1>4, <1>5, <1>6
<1>8. /\ out' \in [Nodes \cup {Tool} -> Seq(Frames)] /\ out'[Tool] = out[Tool] /\ out'[n] = q
      /\ \A m \in Nodes \ {n} : out'[m] = out[m]
  BY <1>2, <1>7
<1>9. left' \in 0..MaxExternal
  BY <1>1, <1>2, BudgetIs
<1>10. NetworkTypeOK'
  <2>1. \A m \in Nodes : Len(out'[m]) <= TxSize
    BY <1>2, <1>6, <1>8 DEF NetworkTypeOK
  <2> QED BY <1>1, <1>2, <1>8, <1>9, <2>1 DEF NetworkTypeOK
<1>11. OwnFrames'
  BY <1>1, <1>6, <1>8 DEF OwnFrames, NetworkInv
<1>12. Undisturbed => Undisturbed'
  <2> SUFFICES ASSUME Undisturbed PROVE Undisturbed'
    OBVIOUS
  <2>1. AllPaired(out) /\ AllRx(table, out) /\ AllSeen(table, alias, new, out) /\ MatchingIn(table, alias) /\ OwnInfo(table)
    BY DEF Undisturbed
  <2>2. Complete(w)
    BY <1>5 DEF Complete
  <2>3. Paired(q)
    BY <1>3, <1>6, <2>1, <2>2, PairedGrows DEF AllPaired
  <2>4. /\ Half(out[n] \o w) <=> Half(out[n])
        /\ \A kind : (HasKind(out[n], kind) \/ HasKind(w, kind)) => HasKind(out[n] \o w, kind)
        /\ (HasLast(out[n]) \/ HasLast(w)) => HasLast(out[n] \o w)
    BY <1>3, <2>2, GrownIs
  <2>5. \A m \in Nodes : /\ Half(out'[m]) <=> Half(out[m])
                         /\ \A kind : HasKind(out[m], kind) => HasKind(out'[m], kind)
                         /\ HasLast(out[m]) => HasLast(out'[m])
    <3> SUFFICES ASSUME NEW m \in Nodes
                 PROVE  /\ Half(out'[m]) <=> Half(out[m])
                        /\ \A kind : HasKind(out[m], kind) => HasKind(out'[m], kind)
                        /\ HasLast(out[m]) => HasLast(out'[m])
      OBVIOUS
    <3>1. CASE m = n
      BY <1>6, <1>8, <2>4, <3>1
    <3>2. CASE m # n
      BY <1>8, <3>2
    <3> QED BY <3>1, <3>2
  <2>6. AllPaired(out')
    BY <1>8, <2>1, <2>3 DEF AllPaired
  <2>7. \A i \in DOMAIN table : table[i].id \in Nodes
    BY <1>2, EntriesAre DEF NetworkTypeOK, TableOK
  <2>8. AllRx(table', out')
    BY <1>1, <2>1, <2>5, <2>7 DEF AllRx, RxOf
  <2>9. AllSeen(table', alias', new', out')
    <3> SUFFICES ASSUME NEW m \in Nodes, alias[m] # NoAlias, m \notin new
                 PROVE  Seen(table, m, alias[m], out'[Tool], out'[m])
      BY <1>1 DEF AllSeen
    <3>1. Seen(table, m, alias[m], out[Tool], out[m])
      BY <2>1 DEF AllSeen
    <3>2. \A x : Enters(x, alias[m], out[Tool], out[m]) => Enters(x, alias[m], out'[Tool], out'[m])
      BY <1>8, <2>5 DEF Enters
    <3> QED BY <1>8, <2>5, <3>1, <3>2 DEF Seen
  <2>10. MatchingIn(table', alias') /\ OwnInfo(table')
    BY <1>1, <2>1 DEF MatchingIn, OwnInfo
  <2> QED BY <2>6, <2>8, <2>9, <2>10 DEF Undisturbed
<1>13. disturbed' \/ Undisturbed'
  BY <1>1, <1>12 DEF NetworkInv
<1> QED BY <1>1, <1>2, <1>8, <1>10, <1>11, <1>13 DEF NetworkInv, DistinctIn, Listed

-------------------------------------------------------------------------------
(* The specification. *)

LEMMA NetworkStarts ==
  ASSUME NetworkInit
  PROVE  NetworkInv
<1>1. /\ alias \in InitialAliases /\ list \in InitialLists
      /\ open = [n \in Nodes |-> [k \in Kinds |-> FALSE]]
      /\ wanted = [n \in Nodes |-> [k \in Kinds |-> ToSet(list[n][k])]]
      /\ out = [s \in Nodes \cup {Tool} |-> IF s = Tool THEN <<Frame("verify", NoAlias, NoAlias)>> ELSE <<>>]
      /\ table = <<>> /\ graph = {} /\ graphOpen = FALSE
      /\ told = {} /\ new = {} /\ disturbed = FALSE /\ left = MaxExternal
  BY DEF NetworkInit
<1>2. alias \in [Nodes -> Aliases \cup {NoAlias}] /\ DistinctIn(alias)
  BY <1>1, StartAssumption DEF DistinctIn
<1>3. list \in [Nodes -> [Kinds -> Seq(Events)]] /\ \A n \in Nodes, k \in Kinds : Sorted(list[n][k])
  BY <1>1, StartAssumption DEF Sorted
<1>4. open \in [Nodes -> [Kinds -> BOOLEAN]]
  BY <1>1
<1>5. ASSUME NEW n \in Nodes, NEW k \in Kinds
      PROVE  wanted[n][k] \in SUBSET Events /\ \A e \in wanted[n][k] : Has(list[n][k], e)
  <2>1. wanted[n][k] = ToSet(list[n][k])
    BY <1>1
  <2>2. PICK l \in Seq(Events) : l = list[n][k]
    BY <1>3
  <2>3. \A i \in DOMAIN l : l[i] \in Events
    OBVIOUS
  <2> QED BY <2>1, <2>2, <2>3 DEF ToSet, Has
<1>6. wanted \in [Nodes -> [Kinds -> SUBSET Events]]
  <2>1. wanted = [n \in Nodes |-> [k \in Kinds |-> wanted[n][k]]]
    BY <1>1
  <2> QED BY <1>5, <2>1
<1>7. PICK q \in Seq(Asks) : q = <<Frame("verify", NoAlias, NoAlias)>> /\ DOMAIN q = 1..1 /\ q[1] = Frame("verify", NoAlias, NoAlias)
  <2>1. PICK f \in Asks : f = Frame("verify", NoAlias, NoAlias)
    BY AskFrame
  <2>2. <<f>> \in Seq(Asks) /\ DOMAIN <<f>> = 1..1 /\ <<f>>[1] = f
    OBVIOUS
  <2> QED BY <2>1, <2>2
<1>8. q \in Seq(Frames) /\ <<>> \in Seq(Frames) /\ DOMAIN <<>> = {} /\ Len(<<>>) = 0 /\ 0 <= TxSize
  BY AsksTyped, ConstantsAre
<1>9. out \in [Nodes \cup {Tool} -> Seq(Frames)] /\ out[Tool] = q /\ \A n \in Nodes : out[n] = <<>>
  BY <1>1, <1>7, <1>8, ConstantsAre
<1>10. table \in Seq(Entry) /\ DOMAIN table = {}
  <2>1. <<>> \in Seq(Entry)
    OBVIOUS
  <2> QED BY <1>1, <1>8, <2>1
<1>11. left \in 0..MaxExternal
  BY <1>1, ConstantsAre
<1>12. NetworkTypeOK
  <2>1. \A n \in Nodes : Len(out[n]) <= TxSize
    BY <1>8, <1>9
  <2> QED BY <1>1, <1>2, <1>3, <1>4, <1>6, <1>9, <1>10, <1>11, <2>1 DEF NetworkTypeOK
<1>13. OwnFrames
  BY <1>8, <1>9 DEF OwnFrames, OwnAll
<1>14. Undisturbed
  <2>1. MatchingIn(table, alias) /\ AllRx(table, out) /\ OwnInfo(table)
    BY <1>10 DEF MatchingIn, AllRx, OwnInfo
  <2>2. AllPaired(out)
    BY <1>8, <1>9 DEF AllPaired, Paired
  <2>3. AsksFor(out[Tool], "verify", NoAlias)
    <3>1. 1 \in 1..1
      OBVIOUS
    <3> QED BY <1>7, <1>9, <3>1 DEF AsksFor
  <2>4. AllSeen(table, alias, new, out)
    BY <1>10, <2>3 DEF AllSeen, Seen
  <2> QED BY <2>1, <2>2, <2>4 DEF Undisturbed
<1>15. Listed
  BY <1>3, <1>5 DEF Listed
<1> QED BY <1>2, <1>9, <1>12, <1>13, <1>14, <1>15 DEF NetworkInv

LEMMA NetworkSteps ==
  ASSUME NetworkInv, [NetworkNext]_networkVars
  PROVE  NetworkInv'
<1>1. ASSUME NEW n \in Nodes, DeviceSends(n) PROVE NetworkInv'
  BY <1>1, DeviceSendsKeeps
<1>2. ASSUME NEW n \in Nodes, ToolMisses(n) PROVE NetworkInv'
  BY <1>2, ToolMissesKeeps
<1>3. ASSUME NEW n \in Nodes, Application(n) PROVE NetworkInv'
  <2>1. ASSUME NEW a \in Aliases, Claim(n, a) PROVE NetworkInv'
    BY <2>1, ClaimKeeps
  <2>2. CASE SwitchOff(n)
    BY <2>2, SwitchOffKeeps
  <2>3. ASSUME NEW e \in Events, RemoveFromList(n, e) PROVE NetworkInv'
    BY <2>3, RemoveFromListKeeps
  <2>4. ASSUME NEW e \in Events, ProduceEvent(n, e) PROVE NetworkInv'
    BY <2>4, ProduceEventKeeps
  <2>5. ASSUME NEW k \in Kinds, NEW e \in Events, AddToList(n, k, e) PROVE NetworkInv'
    BY <2>5, AddToListKeeps
  <2>6. ASSUME NEW k \in Kinds, ClearList(n, k) PROVE NetworkInv'
    BY <2>6, ClearListKeeps
  <2>7. ASSUME NEW k \in Kinds, StartTransaction(n, k) PROVE NetworkInv'
    BY <2>7, StartTransactionKeeps
  <2>8. ASSUME NEW k \in Kinds, EndTransaction(n, k) PROVE NetworkInv'
    BY <2>8, EndTransactionKeeps
  <2> QED BY <1>3, <2>1, <2>2, <2>3, <2>4, <2>5, <2>6, <2>7, <2>8 DEF Application
<1>4. ASSUME NEW f \in Questions \cup QuietQuestions, OtherSends(f) PROVE NetworkInv'
  BY <1>4, OtherSendsKeeps
<1>5. CASE ToolSends
  BY <1>5, ToolSendsKeeps
<1>6. CASE QueryNetwork
  BY <1>6, QueryNetworkKeeps
<1>7. CASE StartGraph
  BY <1>7, StartGraphKeeps
<1>8. ASSUME NEW i \in DOMAIN table, QueryNode(i) PROVE NetworkInv'
  BY <1>8, QueryNodeKeeps
<1>9. CASE UNCHANGED networkVars
  <2>1. UNCHANGED <<alias, list, open, wanted, out, table, graph, graphOpen, told, new, disturbed, left>>
    BY <1>9 DEF networkVars, deviceVars, toolVars
  <2>2. NetworkTypeOK'
    BY <2>1 DEF NetworkInv, NetworkTypeOK
  <2>3. OwnFrames' /\ DistinctIn(alias)' /\ Undisturbed' = Undisturbed /\ Listed'
    BY <2>1 DEF NetworkInv, OwnFrames, DistinctIn, Undisturbed, Listed
  <2> QED BY <2>1, <2>2, <2>3 DEF NetworkInv
<1> QED BY <1>1, <1>2, <1>3, <1>4, <1>5, <1>6, <1>7, <1>8, <1>9 DEF NetworkNext

LEMMA NetworkInvariant == NetworkSpec => []NetworkInv
<1>1. NetworkInit => NetworkInv
  BY NetworkStarts
<1>2. NetworkInv /\ [NetworkNext]_networkVars => NetworkInv'
  BY NetworkSteps
<1> QED BY <1>1, <1>2, PTL DEF NetworkSpec

(* What the devices and the GUI keep has its type, no node is entered twice and no     *)
(* device's transmit queue is overrun. An entry's rx_buffer is overrun by one at most: *)
(* its bound lets one more be written behind its end, and never another one            *)
(* (lcc_network_handle_simple_node_reply).                                             *)
THEOREM NetworkTypeCorrect == NetworkSpec => []NetworkTypeOK
<1>1. NetworkInv => NetworkTypeOK
  BY DEF NetworkInv
<1> QED BY <1>1, NetworkInvariant, PTL

(* However many devices, views, questions and restarts there are: when the bus is     *)
(* silent, the table of nodes has every node that was there at the last refresh, by   *)
(* its alias and with its own name and protocols, unless a frame was lost or an alias *)
(* handed on (lcc_network_incoming_frame and the handlers it calls).                  *)
THEOREM TableTrue == NetworkSpec => []TableIsTrue
<1>1. NetworkInv => TableIsTrue
  <2> SUFFICES ASSUME NetworkInv, ~disturbed PROVE AllAreKnown /\ InfoIsOwn
    BY DEF TableIsTrue
  <2>1. MatchingIn(table, alias) /\ AllSeen(table, alias, new, out) /\ OwnInfo(table)
    BY DEF NetworkInv, Undisturbed
  <2>2. InfoIsOwn
    BY <2>1 DEF OwnInfo, InfoIsOwn
  <2>3. ASSUME Quiet, NEW n \in Permitted \ new
        PROVE  \E i \in DOMAIN table :
                 table[i].id = n /\ table[i].alias = alias[n] /\ table[i].protocols /\ table[i].info = "own"
    <3>1. n \in Nodes /\ alias[n] # NoAlias /\ Seen(table, n, alias[n], out[Tool], out[n])
      BY <2>1, <2>3 DEF Permitted, AllSeen
    <3>2. out[n] = <<>> /\ out[Tool] = <<>> /\ DOMAIN <<>> = {}
      BY <2>3, <3>1 DEF Quiet
    <3>3. /\ \A kind, to : ~AsksFor(out[Tool], kind, to)
          /\ \A kind : ~HasKind(out[n], kind)
          /\ ~HasLast(out[n])
      BY <3>2 DEF AsksFor, HasKind, HasLast
    <3>4. PICK i \in DOMAIN table : table[i].id = n
      BY <3>1, <3>3 DEF Seen
    <3>5. Enters(table[i], alias[n], out[Tool], out[n])
      BY <3>1, <3>4 DEF Seen
    <3>6. table[i].alias = alias[n]
      BY <2>1, <3>1, <3>4 DEF MatchingIn
    <3> QED BY <3>3, <3>4, <3>5, <3>6 DEF Enters
  <2> QED BY <2>2, <2>3 DEF AllAreKnown
<1> QED BY <1>1, NetworkInvariant, PTL

(* For event lists of every length, whatever was added to them, removed and sorted:   *)
(* the bisection of lcc_event_list_has_event finds the event that a device consumes,  *)
(* so its application is told of the report.                                          *)
THEOREM ConsumersTold == NetworkSpec => ConsumersAreTold
<1> DEFINE Heard == \A f \in {g \in QuietQuestions : g.kind = "report"} :
                      OtherSends(f) => \A n \in Permitted :
                        (f.event \in wanted[n]["consumed"] /\ ~open[n]["consumed"]) => n \in told'
<1>1. NetworkInv /\ [NetworkNext]_networkVars => [Heard]_networkVars
  <2> SUFFICES ASSUME NetworkInv, NEW f \in QuietQuestions, f.kind = "report", OtherSends(f),
                      NEW n \in Permitted, f.event \in wanted[n]["consumed"], ~open[n]["consumed"]
               PROVE  n \in told'
    OBVIOUS
  <2>1. told' = Told(f, Tool)
    BY DEF OtherSends, Answered
  <2>2. n \in Nodes /\ n # Tool /\ "consumed" \in Kinds
    BY ConstantsAre DEF Permitted, Kinds
  <2>3. PICK l, e : l = list[n]["consumed"] /\ e = f.event
    OBVIOUS
  <2>4. l \in Seq(Events) /\ Events \in SUBSET Int /\ e \in Events /\ Has(l, e) /\ Sorted(l)
    BY <2>2, <2>3, ListsAre
  <2>5. l \in Seq(Int) /\ e \in Int
    BY <2>4, SeqInt
  <2>6. HasEvent(l, e)
    BY <2>4, <2>5, HasEventIs
  <2> QED BY <2>1, <2>2, <2>3, <2>6 DEF Told, IsTold
<1> QED BY <1>1, NetworkInvariant, PTL DEF NetworkSpec, ConsumersAreTold
=============================================================================
