------------------------ MODULE EventGraphWritesProof ------------------------
(***************************************************************************)
(* Proofs about EventGraphWrites, for every node and every bound.          *)
(***************************************************************************)
EXTENDS EventGraphWrites, EventPins, FiniteSetTheorems, SequenceTheorems,
        WellFoundedInduction, NaturalsInduction, TLAPS

IsRead(r) == r.kind \in {"info", "read"}

SpaceOf(r) == IF r.kind = "info" THEN r.at ELSE r.at[1]

\* r is the next request of the read of its space, with the states rs and copies d.
InOrder(r, rs, d) ==
  /\ r.kind = "info" => rs[r.at] = "Read_Space_Info"
  /\ r.kind = "read" =>
       /\ rs[r.at[1]] = "Reading_Memory"
       /\ r.at[2] = Len(d[r.at[1]]) + 1
       /\ r.at[1] \notin BadSpaces

\* Every space is read by one request at a time.
OneReader(q) ==
  \A i, j \in DOMAIN q :
    IsRead(q[i]) /\ IsRead(q[j]) /\ SpaceOf(q[i]) = SpaceOf(q[j]) => i = j

Lined(q, rs, d) == OneReader(q) /\ \A i \in DOMAIN q : InOrder(q[i], rs, d)

ReadsInOrder == Lined(queue, readState, data)

FrontIsWrite ==
  written => /\ queue # <<>>
             /\ Head(queue).kind = "write"
             /\ mem[Head(queue).at] = Head(queue).val

BadSpacesUnread == \A s \in BadSpaces : ~HasMemory(s)

\* The inductive invariant.
IInv ==
  TypeOK /\ ReadsInOrder /\ FrontIsWrite /\ BadSpacesUnread /\ CopyIsTrue
    /\ GraphShowsCopy

USE SpacesAssumption, ValuesAssumption, BoundsAssumption

-----------------------------------------------------------------------------
(***************************************************************************)
(* Pins, requests and queues.                                              *)
(***************************************************************************)

\* A function on the numbers up to n is a sequence.
LEMMA FunctionSeq ==
  ASSUME NEW S, NEW n \in Nat, NEW f \in [1..n -> S]
  PROVE  f \in Seq(S) /\ Len(f) = n
<1>1. f \in Seq(S)
  BY SeqDef
<1>2. Len(f) \in Nat /\ DOMAIN f = 1..Len(f) /\ DOMAIN f = 1..n
  BY <1>1, LenProperties
<1> QED BY <1>1, <1>2

\* A pin is a space and a place in it.
LEMMA PinFacts ==
  /\ \A p \in Pin : p[1] \in Spaces /\ p[2] \in 1..Size[p[1]] /\ p = <<p[1], p[2]>>
  /\ \A s \in Spaces : \A i \in 1..Size[s] : <<s, i>> \in Pin
<1>1. ASSUME NEW p \in Pin
      PROVE  p[1] \in Spaces /\ p[2] \in 1..Size[p[1]] /\ p = <<p[1], p[2]>>
  <2>1. PICK s \in Spaces : p \in {s} \X (1..Size[s])
    BY DEF Pin
  <2> QED BY <2>1
<1>2. ASSUME NEW s \in Spaces, NEW i \in 1..Size[s] PROVE <<s, i>> \in Pin
  BY DEF Pin
<1> QED BY <1>1, <1>2

\* What a request is about.
LEMMA RequestFacts ==
  /\ \A r \in Request :
       /\ r.kind \in {"cdi", "update", "info", "read", "range", "write"}
       /\ r.kind = "info" => r.at \in Spaces
       /\ r.kind \in {"read", "range", "write"} => r.at \in Pin
       /\ r.kind = "write" => r.val \in Values
       /\ IsRead(r) => SpaceOf(r) \in Spaces
  /\ Ask("cdi", NoPin) \in Request /\ Ask("update", NoPin) \in Request
  /\ \A s \in Spaces : Ask("info", s) \in Request
  /\ \A p \in Pin : Ask("read", p) \in Request /\ Ask("range", p) \in Request
  /\ \A p \in Pin, v \in Values, g \in BOOLEAN : Write(p, v, g) \in Request
<1>1. ASSUME NEW r \in Request
      PROVE  /\ r.kind \in {"cdi", "update", "info", "read", "range", "write"}
             /\ r.kind = "info" => r.at \in Spaces
             /\ r.kind \in {"read", "range", "write"} => r.at \in Pin
             /\ r.kind = "write" => r.val \in Values
  BY DEF Request
<1>2. ASSUME NEW r \in Request, IsRead(r) PROVE SpaceOf(r) \in Spaces
  BY <1>1, <1>2, PinFacts DEF IsRead, SpaceOf
<1>3. /\ Ask("cdi", NoPin) \in Request /\ Ask("update", NoPin) \in Request
      /\ \A s \in Spaces : Ask("info", s) \in Request
      /\ \A p \in Pin : Ask("read", p) \in Request /\ Ask("range", p) \in Request
  BY DEF Request, Ask
<1>4. \A p \in Pin, v \in Values, g \in BOOLEAN : Write(p, v, g) \in Request
  BY DEF Request, Write
<1> QED BY <1>1, <1>2, <1>3, <1>4

\* A write is what it was made of.
LEMMA WriteFields ==
  ASSUME NEW p, NEW v, NEW g
  PROVE  /\ Write(p, v, g).kind = "write" /\ ~IsRead(Write(p, v, g))
         /\ Write(p, v, g).at = p /\ Write(p, v, g).val = v
         /\ Write(p, v, g).graph = g
  BY DEF Write, IsRead

\* One request, and two.
LEMMA FewRequests ==
  ASSUME NEW r \in Request, NEW u \in Request
  PROVE  /\ <<r>> \in Seq(Request) /\ Len(<<r>>) = 1 /\ <<r>>[1] = r
         /\ Append(<<r>>, u) \in Seq(Request) /\ Len(Append(<<r>>, u)) = 2
         /\ Append(<<r>>, u)[1] = r /\ Append(<<r>>, u)[2] = u
  OBVIOUS

\* What is heard of some requests is a suffix of them.
LEMMA HeardFacts ==
  ASSUME NEW rs \in Seq(Request), NEW idle, NEW hs \in Heard(rs, idle)
  PROVE  /\ hs \in Seq(Request)
         /\ Len(hs) \in Nat /\ Len(rs) \in Nat /\ Len(hs) <= Len(rs)
         /\ \A i \in 1..Len(hs) : hs[i] = rs[i + (Len(rs) - Len(hs))]
         /\ ~Refusals => hs = rs
<1>1. Len(rs) \in Nat /\ \A i \in 1..Len(rs) : rs[i] \in Request
  BY LenProperties, ElementOfSeq
<1>2. CASE hs = rs
  BY <1>1, <1>2
<1>3. ASSUME NEW k \in 2..(Len(rs) + 1), hs = SubSeq(rs, k, Len(rs)), Refusals
      PROVE  /\ hs \in Seq(Request)
             /\ Len(hs) = Len(rs) - k + 1
             /\ \A i \in 1..Len(hs) : hs[i] = rs[i + (k - 1)]
  <2>1. /\ SubSeq(rs, k, Len(rs)) \in Seq(Request)
        /\ Len(SubSeq(rs, k, Len(rs))) = IF k <= Len(rs) THEN Len(rs) - k + 1 ELSE 0
        /\ \A i \in 1..(Len(rs) - k + 1) : SubSeq(rs, k, Len(rs))[i] = rs[k + i - 1]
    BY <1>1, SubSeqProperties
  <2> QED BY <1>1, <1>3, <2>1
<1>4. CASE Refusals /\ idle /\ hs # rs
  <2>1. PICK k \in 2..(Len(rs) + 1) : hs = SubSeq(rs, k, Len(rs))
    BY <1>4 DEF Heard
  <2>2. /\ hs \in Seq(Request)
        /\ Len(hs) = Len(rs) - k + 1
        /\ \A i \in 1..Len(hs) : hs[i] = rs[i + (k - 1)]
    BY <1>3, <1>4, <2>1
  <2>3. Len(rs) - Len(hs) = k - 1
    BY <1>1, <2>2
  <2> QED BY <1>1, <1>4, <2>2, <2>3
<1> QED BY <1>2, <1>4 DEF Heard

\* An order of a finite set is a sequence of its elements, each in it once.
LEMMA OrdersFacts ==
  ASSUME NEW S, IsFiniteSet(S), NEW order \in Orders(S)
  PROVE  /\ Cardinality(S) \in Nat
         /\ order \in [1..Cardinality(S) -> S] /\ DOMAIN order = 1..Cardinality(S)
         /\ \A i, j \in 1..Cardinality(S) : order[i] = order[j] => i = j
         /\ \A x \in S : \E i \in 1..Cardinality(S) : order[i] = x
<1>1. Cardinality(S) \in Nat
  BY FS_CardinalityType
<1>2. /\ order \in Injection(1..Cardinality(S), S)
      /\ order \in Surjection(1..Cardinality(S), S)
  BY DEF Orders, Bijection
<1> QED BY <1>1, <1>2 DEF Injection, Surjection, IsInjective

\* What is behind the front.
LEMMA TailFacts ==
  ASSUME queue \in Seq(Request), queue # <<>>
  PROVE  /\ Head(queue) = queue[1] /\ Head(queue) \in Request
         /\ 1 \in 1..Len(queue) /\ DOMAIN queue = 1..Len(queue)
         /\ Tail(queue) \in Seq(Request) /\ Len(Tail(queue)) = Len(queue) - 1
         /\ DOMAIN Tail(queue) = 1..(Len(queue) - 1)
         /\ \A i \in 1..(Len(queue) - 1) : Tail(queue)[i] = queue[i + 1]
<1>1. Len(queue) \in Nat \ {0} /\ DOMAIN queue = 1..Len(queue)
  BY EmptySeq, LenProperties
<1>2. /\ Head(queue) \in Request
      /\ Tail(queue) \in Seq(Request) /\ Len(Tail(queue)) = Len(queue) - 1
      /\ \A i \in 1..Len(Tail(queue)) : Tail(queue)[i] = queue[i + 1]
  BY HeadTailProperties
<1>3. DOMAIN Tail(queue) = 1..Len(Tail(queue))
  BY <1>2, LenProperties
<1> QED BY <1>1, <1>2, <1>3

-----------------------------------------------------------------------------
(***************************************************************************)
(* How queues stay in order.                                               *)
(***************************************************************************)

\* Requests that read nothing are in order.
LEMMA NoReadsLined ==
  ASSUME NEW q, NEW rs, NEW d, \A i \in DOMAIN q : ~IsRead(q[i])
  PROVE  Lined(q, rs, d)
  BY DEF Lined, OneReader, InOrder, IsRead

\* The queue stays in order as long as nothing happens to the spaces it reads.
LEMMA StillLined ==
  ASSUME NEW q \in Seq(Request), NEW rs, NEW d, NEW rs2, NEW d2, Lined(q, rs, d),
         \A i \in 1..Len(q) : IsRead(q[i]) =>
           /\ rs2[SpaceOf(q[i])] = rs[SpaceOf(q[i])]
           /\ Len(d2[SpaceOf(q[i])]) = Len(d[SpaceOf(q[i])])
  PROVE  Lined(q, rs2, d2)
<1>1. DOMAIN q = 1..Len(q)
  BY LenProperties
<1>2. ASSUME NEW i \in DOMAIN q PROVE InOrder(q[i], rs2, d2)
  <2>1. InOrder(q[i], rs, d)
    BY DEF Lined
  <2>2. CASE q[i].kind = "info"
    BY <1>1, <2>1, <2>2 DEF InOrder, IsRead, SpaceOf
  <2>3. CASE q[i].kind = "read"
    BY <1>1, <2>1, <2>3 DEF InOrder, IsRead, SpaceOf
  <2> QED BY <2>2, <2>3 DEF InOrder
<1> QED BY <1>2 DEF Lined

\* Requests that are put behind a queue must not read what is read in it.
LEMMA JoinedLined ==
  ASSUME NEW q \in Seq(Request), NEW hs \in Seq(Request), NEW rs, NEW d,
         Lined(q, rs, d), Lined(hs, rs, d),
         \A i \in 1..Len(q), j \in 1..Len(hs) :
           IsRead(q[i]) /\ IsRead(hs[j]) => SpaceOf(q[i]) # SpaceOf(hs[j])
  PROVE  q \o hs \in Seq(Request) /\ Lined(q \o hs, rs, d)
<1> DEFINE j == q \o hs
           m == Len(q)
           n == Len(hs)
<1>1. m \in Nat /\ n \in Nat /\ DOMAIN q = 1..m /\ DOMAIN hs = 1..n
  BY LenProperties
<1>2. /\ j \in Seq(Request) /\ Len(j) = m + n
      /\ \A i \in 1..(m + n) : j[i] = IF i <= m THEN q[i] ELSE hs[i - m]
  BY ConcatProperties
<1>3. DOMAIN j = 1..(m + n)
  BY <1>2, LenProperties
<1> HIDE DEF j, m, n
<1>4. \A i \in DOMAIN j : InOrder(j[i], rs, d)
  <2> TAKE i \in DOMAIN j
  <2>1. CASE i <= m
    BY <1>1, <1>2, <1>3, <2>1 DEF Lined
  <2>2. CASE ~(i <= m)
    <3>1. (i - m) \in DOMAIN hs /\ j[i] = hs[i - m]
      BY <1>1, <1>2, <1>3, <2>2
    <3> QED BY <3>1 DEF Lined
  <2> QED BY <2>1, <2>2
<1>5. ASSUME NEW a \in DOMAIN j, NEW b \in DOMAIN j,
             IsRead(j[a]), IsRead(j[b]), SpaceOf(j[a]) = SpaceOf(j[b])
      PROVE  a = b
  <2>1. CASE a <= m /\ b <= m
    <3>1. a \in DOMAIN q /\ b \in DOMAIN q /\ j[a] = q[a] /\ j[b] = q[b]
      BY <1>1, <1>2, <1>3, <2>1
    <3> QED BY <1>5, <3>1 DEF Lined, OneReader
  <2>2. CASE ~(a <= m) /\ ~(b <= m)
    <3>1. /\ (a - m) \in DOMAIN hs /\ (b - m) \in DOMAIN hs
          /\ j[a] = hs[a - m] /\ j[b] = hs[b - m]
      BY <1>1, <1>2, <1>3, <2>2
    <3>2. a - m = b - m
      BY <1>5, <3>1 DEF Lined, OneReader
    <3> QED BY <1>1, <1>3, <3>2
  <2>3. CASE a <= m /\ ~(b <= m)
    <3>1. a \in 1..m /\ (b - m) \in 1..n /\ j[a] = q[a] /\ j[b] = hs[b - m]
      BY <1>1, <1>2, <1>3, <2>3
    <3> QED BY <1>5, <3>1 DEF m, n
  <2>4. CASE ~(a <= m) /\ b <= m
    <3>1. b \in 1..m /\ (a - m) \in 1..n /\ j[b] = q[b] /\ j[a] = hs[a - m]
      BY <1>1, <1>2, <1>3, <2>4
    <3> QED BY <1>5, <3>1 DEF m, n
  <2> QED BY <2>1, <2>2, <2>3, <2>4
<1>6. OneReader(j)
  BY <1>5 DEF OneReader
<1> QED BY <1>2, <1>4, <1>6 DEF j, Lined

\* Once its front is answered, the queue is in order, and what is left reads
\* other spaces than the front did.
LEMMA TailLined ==
  ASSUME queue \in Seq(Request), queue # <<>>, ReadsInOrder
  PROVE  /\ Lined(Tail(queue), readState, data)
         /\ InOrder(Head(queue), readState, data)
         /\ \A i \in 1..Len(Tail(queue)) :
              IsRead(Tail(queue)[i]) /\ IsRead(Head(queue))
                => SpaceOf(Tail(queue)[i]) # SpaceOf(Head(queue))
<1> DEFINE t == Tail(queue)
<1>1. /\ Head(queue) = queue[1] /\ 1 \in DOMAIN queue
      /\ Len(t) = Len(queue) - 1 /\ Len(queue) \in Nat
      /\ DOMAIN t = 1..(Len(queue) - 1)
      /\ \A i \in DOMAIN t : t[i] = queue[i + 1] /\ (i + 1) \in DOMAIN queue
                             /\ i + 1 # 1
  BY TailFacts, LenProperties
<1> HIDE DEF t
<1>2. \A i \in DOMAIN t : InOrder(t[i], readState, data)
  BY <1>1 DEF ReadsInOrder, Lined
<1>3. ASSUME NEW i \in DOMAIN t, NEW j \in DOMAIN t,
             IsRead(t[i]), IsRead(t[j]), SpaceOf(t[i]) = SpaceOf(t[j])
      PROVE  i = j
  <2>1. i + 1 = j + 1
    BY <1>1, <1>3 DEF ReadsInOrder, Lined, OneReader
  <2> QED BY <1>1, <2>1
<1>4. \A i \in DOMAIN t :
        IsRead(t[i]) /\ IsRead(Head(queue)) => SpaceOf(t[i]) # SpaceOf(Head(queue))
  BY <1>1 DEF ReadsInOrder, Lined, OneReader
<1>5. OneReader(t)
  BY <1>3 DEF OneReader
<1>6. InOrder(Head(queue), readState, data) /\ DOMAIN t = 1..Len(t)
  BY <1>1 DEF ReadsInOrder, Lined
<1> QED BY <1>2, <1>4, <1>5, <1>6 DEF Lined, t

\* A space that is read is in process.
LEMMA ReaderInProcess ==
  ASSUME NEW r \in Request, IsRead(r), InOrder(r, readState, data)
  PROVE  InProcess(SpaceOf(r)) /\ SpaceOf(r) \in Spaces /\ ~HasMemory(SpaceOf(r))
<1>1. SpaceOf(r) \in Spaces
  BY RequestFacts
<1> QED BY <1>1 DEF InProcess, InOrder, IsRead, SpaceOf, HasMemory

\* The questions about some spaces that are not being read, each asked once, are
\* in order once the spaces are being asked about.
LEMMA InfosLined ==
  ASSUME NEW S \in SUBSET Spaces, NEW order \in Orders(S), NEW idle,
         NEW hs \in Heard([i \in DOMAIN order |-> Ask("info", order[i])], idle),
         NEW rs, NEW d, \A s \in S : rs[s] = "Read_Space_Info"
  PROVE  /\ hs \in Seq(Request) /\ Lined(hs, rs, d)
         /\ \A i \in 1..Len(hs) : hs[i].kind = "info" /\ SpaceOf(hs[i]) \in S
<1> DEFINE infos == [i \in DOMAIN order |-> Ask("info", order[i])]
           n == Cardinality(S)
<1>1. IsFiniteSet(S)
  BY FS_Subset
<1>2. /\ n \in Nat /\ order \in [1..n -> S] /\ DOMAIN order = 1..n
      /\ \A i, j \in 1..n : order[i] = order[j] => i = j
  BY <1>1, OrdersFacts
<1>3. /\ infos \in [1..n -> Request] /\ DOMAIN infos = 1..n
      /\ \A i \in 1..n : /\ infos[i] = Ask("info", order[i])
                         /\ infos[i].kind = "info" /\ infos[i].at = order[i]
  BY <1>2, RequestFacts DEF Ask
<1>4. infos \in Seq(Request) /\ Len(infos) = n
  <2>1. infos \in Seq(Request)
    BY <1>2, <1>3, SeqDef
  <2> QED BY <1>2, <1>3, <2>1, LenProperties
<1> HIDE DEF infos, n
<1>5. /\ hs \in Seq(Request) /\ Len(hs) \in Nat /\ Len(hs) <= n
      /\ \A i \in 1..Len(hs) : hs[i] = infos[i + (n - Len(hs))]
  <2>1. hs \in Heard(infos, idle)
    BY DEF infos
  <2> QED BY SMTT(30), <1>4, <2>1, HeardFacts
<1>6. DOMAIN hs = 1..Len(hs)
  BY <1>5, LenProperties
<1>7. ASSUME NEW i \in 1..Len(hs)
      PROVE  /\ (i + (n - Len(hs))) \in 1..n
             /\ hs[i].kind = "info" /\ hs[i].at = order[i + (n - Len(hs))]
             /\ SpaceOf(hs[i]) = order[i + (n - Len(hs))] /\ SpaceOf(hs[i]) \in S
  <2>1. (i + (n - Len(hs))) \in 1..n
    BY <1>2, <1>5
  <2>2. hs[i].kind = "info" /\ hs[i].at = order[i + (n - Len(hs))]
    BY <1>3, <1>5, <2>1
  <2> QED BY <1>2, <2>1, <2>2 DEF SpaceOf
<1>8. ASSUME NEW i \in 1..Len(hs), NEW j \in 1..Len(hs), SpaceOf(hs[i]) = SpaceOf(hs[j])
      PROVE  i = j
  <2>1. i + (n - Len(hs)) = j + (n - Len(hs))
    BY <1>2, <1>7, <1>8
  <2> QED BY <1>2, <1>5, <2>1
<1>9. \A i \in 1..Len(hs) : InOrder(hs[i], rs, d)
  BY <1>7 DEF InOrder, SpaceOf
<1> QED BY <1>5, <1>6, <1>7, <1>8, <1>9 DEF Lined, OneReader

-----------------------------------------------------------------------------
(***************************************************************************)
(* The operations of the graph and of the CDI editor.                      *)
(***************************************************************************)

\* What the graph shows and what is staged keep their types.
LEMMA ShowTypes ==
  ASSUME NEW d \in [Spaces -> Seq(Values)], NEW S
  PROVE  /\ \A ps \in [Pin -> Values \cup {Unknown}] :
              ShowPins(ps, S, d) \in [Pin -> Values \cup {Unknown}]
         /\ \A st \in [Pin -> Values \cup {Unknown}] :
              ShowStaged(st, S, d) \in [Pin -> Values \cup {Unknown}]
<1>1. ASSUME NEW p \in Pin, Covered(p, S, d) PROVE d[p[1]][p[2]] \in Values
  <2>1. /\ p[1] \in Spaces /\ p[2] \in Nat /\ p[2] >= 1
        /\ Size[p[1]] \in Nat
    BY PinFacts
  <2>2. d[p[1]] \in Seq(Values) /\ Len(d[p[1]]) \in Nat
    BY <2>1, LenProperties
  <2>3. p[2] \in 1..Len(d[p[1]])
    BY <1>1, <2>1, <2>2 DEF Covered
  <2> QED BY <2>2, <2>3, ElementOfSeq
<1>2. \A ps \in [Pin -> Values \cup {Unknown}] :
        ShowPins(ps, S, d) \in [Pin -> Values \cup {Unknown}]
  BY <1>1 DEF ShowPins
<1>3. \A st \in [Pin -> Values \cup {Unknown}] :
        ShowStaged(st, S, d) \in [Pin -> Values \cup {Unknown}]
  BY DEF ShowStaged
<1> QED BY <1>2, <1>3

\* Requests that are put behind the front do not change it.
LEMMA SameFront ==
  ASSUME queue \in Seq(Request), NEW hs \in Seq(Request), queue' = queue \o hs,
         queue # <<>>
  PROVE  queue' # <<>> /\ Head(queue') = Head(queue)
<1>1. /\ queue' \in Seq(Request) /\ Len(queue') = Len(queue) + Len(hs)
      /\ Len(queue) \in Nat \ {0} /\ Len(hs) \in Nat
      /\ queue'[1] = queue[1]
  BY ConcatProperties, EmptySeq, LenProperties
<1>2. queue' # <<>>
  BY <1>1, EmptySeq
<1> QED BY <1>1, <1>2, TailFacts

\* Requests that are behind the front: the copies are what they were.
LEMMA BehindInv ==
  ASSUME IInv, NEW hs \in Seq(Request), queue' = queue \o hs,
         UNCHANGED <<mem, written, unsure>>,
         \A p \in Pin : Covered(p, Spaces, data') =>
           Covered(p, Spaces, data) /\ data'[p[1]][p[2]] = data[p[1]][p[2]]
  PROVE  FrontIsWrite' /\ CopyIsTrue'
<1>0. queue \in Seq(Request) /\ FrontIsWrite /\ CopyIsTrue
  BY DEF IInv, TypeOK
<1>1. queue # <<>> => queue' # <<>> /\ Head(queue') = Head(queue)
  BY <1>0, SameFront
<1>2. written => Head(queue') = Head(queue) /\ queue' # <<>>
  BY <1>0, <1>1 DEF FrontIsWrite
<1>3. FrontIsWrite'
  BY <1>0, <1>2 DEF FrontIsWrite
<1>4. CopyIsTrue'
  BY <1>0, <1>2 DEF CopyIsTrue, Written
<1> QED BY <1>3, <1>4

\* Requests that read nothing are made.
LEMMA SubmitInv ==
  ASSUME IInv, NEW rs \in Seq(Request), \A i \in 1..Len(rs) : ~IsRead(rs[i]),
         Submit(rs),
         UNCHANGED <<mem, written, unsure, data, readState, listening, pins>>
  PROVE  /\ queue' \in Seq(Request)
         /\ ReadsInOrder' /\ FrontIsWrite' /\ BadSpacesUnread' /\ CopyIsTrue'
         /\ GraphShowsCopy'
<1>0. /\ queue \in Seq(Request) /\ ReadsInOrder /\ BadSpacesUnread
      /\ GraphShowsCopy
  BY DEF IInv, TypeOK
<1>1. PICK hs \in Heard(rs, queue = <<>>) : queue' = queue \o hs
  BY DEF Submit
<1>2. /\ hs \in Seq(Request) /\ Len(hs) \in Nat /\ Len(rs) \in Nat
      /\ Len(hs) <= Len(rs)
      /\ \A i \in 1..Len(hs) : hs[i] = rs[i + (Len(rs) - Len(hs))]
  BY HeardFacts
<1>3. \A i \in 1..Len(hs) : ~IsRead(hs[i])
  BY <1>2
<1>4. Lined(hs, readState, data)
  <2>1. DOMAIN hs = 1..Len(hs)
    BY <1>2, LenProperties
  <2> QED BY <1>3, <2>1, NoReadsLined
<1>5. queue' \in Seq(Request) /\ Lined(queue', readState, data)
  BY <1>0, <1>1, <1>2, <1>3, <1>4, JoinedLined DEF ReadsInOrder
<1>6. ReadsInOrder'
  BY <1>5 DEF ReadsInOrder
<1>7. FrontIsWrite' /\ CopyIsTrue'
  BY <1>1, <1>2, BehindInv
<1>8. BadSpacesUnread' /\ GraphShowsCopy'
  BY <1>0 DEF BadSpacesUnread, GraphShowsCopy, HasMemory
<1> QED BY <1>5, <1>6, <1>7, <1>8

\* Nothing is made.
LEMMA NothingMade ==
  ASSUME IInv,
         UNCHANGED <<queue, mem, written, unsure, data, readState, listening, pins>>
  PROVE  /\ queue' \in Seq(Request)
         /\ ReadsInOrder' /\ FrontIsWrite' /\ BadSpacesUnread' /\ CopyIsTrue'
         /\ GraphShowsCopy'
<1>1. queue' \in Seq(Request)
  BY DEF IInv, TypeOK
<1>2. ReadsInOrder'
  BY DEF IInv, ReadsInOrder
<1>3. FrontIsWrite' /\ BadSpacesUnread'
  BY DEF IInv, FrontIsWrite, BadSpacesUnread, HasMemory
<1>4. CopyIsTrue'
  BY DEF IInv, CopyIsTrue, Written
<1>5. GraphShowsCopy'
  BY DEF IInv, GraphShowsCopy, HasMemory
<1> QED BY <1>1, <1>2, <1>3, <1>4, <1>5

\* Reading the CDI.
LEMMA ReadCdiInv ==
  ASSUME IInv, ReadCdi,
         UNCHANGED <<mem, written, unsure, data, readState, listening, pins>>
  PROVE  /\ queue' \in Seq(Request) /\ reading' \in BOOLEAN
         /\ ReadsInOrder' /\ FrontIsWrite' /\ BadSpacesUnread' /\ CopyIsTrue'
         /\ GraphShowsCopy'
<1>1. CASE UNCHANGED queue
  BY <1>1, NothingMade DEF ReadCdi
<1>2. CASE Submit(<<Ask("cdi", NoPin)>>)
  <2> DEFINE rs == <<Ask("cdi", NoPin)>>
  <2>1. rs \in Seq(Request) /\ \A i \in 1..Len(rs) : ~IsRead(rs[i])
    BY RequestFacts DEF Ask, IsRead
  <2>2. Submit(rs)
    BY <1>2
  <2> HIDE DEF rs
  <2> QED BY <2>1, <2>2, SubmitInv DEF ReadCdi
<1> QED BY <1>1, <1>2 DEF ReadCdi

\* Reading the event IDs with the requests rest in the queue.
LEMMA ReadEventIdsInv ==
  ASSUME IInv, NEW rest \in Seq(Request), Lined(rest, readState, data), NEW idle,
         ReadEventIds(rest, idle), UNCHANGED <<mem, unsure>>
  PROVE  /\ \E hs \in Seq(Request) :
              /\ queue' = rest \o hs
              /\ \A i \in 1..Len(hs) : hs[i].kind = "info"
         /\ queue' \in Seq(Request)
         /\ data' \in [Spaces -> Seq(Values)]
         /\ readState' \in [Spaces -> {"Not_Read_Yet", "Read_Space_Info",
                                       "Reading_Memory", "Memory_Complete"}]
         /\ invalid' \subseteq BadSpaces
         /\ pins' \in [Pin -> Values \cup {Unknown}]
         /\ staged' \in [Pin -> Values \cup {Unknown}]
         /\ spacesToRead' \subseteq Spaces
         /\ forceRead' \in BOOLEAN /\ listening' \in BOOLEAN /\ error' \in BOOLEAN
         /\ status' \in {"WaitingForInfo", "ReadingCdi", "ReadingMemory", "Ready",
                         "Failed"}
         /\ ReadsInOrder' /\ BadSpacesUnread' /\ GraphShowsCopy'
         /\ \A p \in Pin : Covered(p, Spaces, data') =>
              Covered(p, Spaces, data) /\ data'[p[1]][p[2]] = data[p[1]][p[2]]
         /\ \E S \in SUBSET Spaces : staged' = ShowStaged(staged, S, data)
<1> DEFINE again == {s \in Spaces : forceRead \/ ~HasMemory(s)}
           bad == again \cap invalid
           starts == {s \in again \ bad : ~InProcess(s)}
           blank == [p \in Pin |-> Unknown]
<1>0. /\ data \in [Spaces -> Seq(Values)]
      /\ readState \in [Spaces -> {"Not_Read_Yet", "Read_Space_Info",
                                   "Reading_Memory", "Memory_Complete"}]
      /\ invalid \subseteq BadSpaces
      /\ pins \in [Pin -> Values \cup {Unknown}]
      /\ staged \in [Pin -> Values \cup {Unknown}]
      /\ BadSpacesUnread
  BY DEF IInv, TypeOK
<1>1. /\ pins' = ShowPins(blank, Spaces \ again, data)
      /\ staged' = ShowStaged(staged, Spaces \ again, data)
      /\ \E order \in Orders(starts) :
           \E hs \in Heard([i \in DOMAIN order |-> Ask("info", order[i])], idle) :
             queue' = rest \o hs
      /\ readState' = [s \in Spaces |->
                         IF s \in starts THEN "Read_Space_Info" ELSE readState[s]]
      /\ data' = [s \in Spaces |-> IF s \in starts THEN <<>> ELSE data[s]]
      /\ invalid' = invalid
      /\ spacesToRead' = again \ bad
      /\ forceRead' = FALSE /\ listening' = TRUE /\ error' = (bad # {})
      /\ status' \in {"Ready", "ReadingMemory", "Failed"}
  BY DEF ReadEventIds
<1>2. PICK order \in Orders(starts) :
        \E hs \in Heard([i \in DOMAIN order |-> Ask("info", order[i])], idle) :
          queue' = rest \o hs
  BY <1>1
<1>3. PICK hs \in Heard([i \in DOMAIN order |-> Ask("info", order[i])], idle) :
        queue' = rest \o hs
  BY <1>2
<1>4. starts \in SUBSET Spaces /\ \A s \in starts : ~InProcess(s)
  OBVIOUS
<1>5. \A s \in Spaces : /\ s \in starts => /\ readState'[s] = "Read_Space_Info"
                                           /\ data'[s] = <<>>
                        /\ s \notin starts => /\ readState'[s] = readState[s]
                                              /\ data'[s] = data[s]
  BY <1>1
<1>6. /\ data' \in [Spaces -> Seq(Values)]
      /\ readState' \in [Spaces -> {"Not_Read_Yet", "Read_Space_Info",
                                    "Reading_Memory", "Memory_Complete"}]
  <2>1. \A s \in Spaces : data'[s] \in Seq(Values)
    BY <1>0, <1>5, EmptySeq
  <2>2. \A s \in Spaces : readState'[s] \in {"Not_Read_Yet", "Read_Space_Info",
                                             "Reading_Memory", "Memory_Complete"}
    BY <1>0, <1>5
  <2> HIDE DEF starts
  <2> QED BY <1>1, <2>1, <2>2
<1>7. /\ pins' \in [Pin -> Values \cup {Unknown}]
      /\ staged' \in [Pin -> Values \cup {Unknown}]
  <2>1. blank \in [Pin -> Values \cup {Unknown}]
    OBVIOUS
  <2> HIDE DEF blank, again
  <2> QED BY <1>0, <1>1, <2>1, ShowTypes
<1>8. BadSpacesUnread'
  BY <1>0, <1>5 DEF BadSpacesUnread, HasMemory
<1>9. GraphShowsCopy'
  <2> SUFFICES ASSUME NEW p \in Pin, HasMemory(p[1])', Covered(p, Spaces, data')
               PROVE  pins'[p] = data'[p[1]][p[2]]
    BY DEF GraphShowsCopy
  <2>1. p[1] \in Spaces
    BY PinFacts
  <2>2. p[1] \notin starts /\ HasMemory(p[1]) /\ data'[p[1]] = data[p[1]]
    BY <1>5, <2>1 DEF HasMemory
  <2>3. ~InProcess(p[1]) /\ p[1] \notin BadSpaces
    BY <1>0, <2>1, <2>2 DEF InProcess, HasMemory, BadSpacesUnread
  <2>4. p[1] \notin again
    BY <1>0, <2>2, <2>3
  <2>5. Covered(p, Spaces \ again, data)
    BY <2>1, <2>2, <2>4 DEF Covered
  <2> HIDE DEF again
  <2> QED BY <1>1, <2>2, <2>5 DEF ShowPins
<1> HIDE DEF starts
<1>10. /\ hs \in Seq(Request) /\ Lined(hs, readState', data')
       /\ \A i \in 1..Len(hs) : hs[i].kind = "info" /\ SpaceOf(hs[i]) \in starts
  <2>1. \A s \in starts : readState'[s] = "Read_Space_Info"
    BY <1>4, <1>5
  <2>2. starts \in SUBSET Spaces
    BY <1>4
  <2> HIDE DEF again, bad, blank
  <2> QED BY ONLY <2>1, <2>2, InfosLined, SpacesAssumption
<1>11. ASSUME NEW i \in 1..Len(rest), IsRead(rest[i])
       PROVE  SpaceOf(rest[i]) \in Spaces /\ SpaceOf(rest[i]) \notin starts
  <2>1. rest[i] \in Request
    BY ElementOfSeq
  <2>2. InOrder(rest[i], readState, data)
    <3>1. DOMAIN rest = 1..Len(rest)
      BY LenProperties
    <3> QED BY <3>1 DEF Lined
  <2>3. InProcess(SpaceOf(rest[i])) /\ SpaceOf(rest[i]) \in Spaces
    BY <1>11, <2>1, <2>2, ReaderInProcess
  <2> QED BY <1>4, <2>3
<1>12. Lined(rest, readState', data')
  <2>1. \A i \in 1..Len(rest) : IsRead(rest[i]) =>
          /\ readState'[SpaceOf(rest[i])] = readState[SpaceOf(rest[i])]
          /\ Len(data'[SpaceOf(rest[i])]) = Len(data[SpaceOf(rest[i])])
    BY <1>5, <1>11
  <2> QED BY <2>1, StillLined
<1>13. queue' \in Seq(Request) /\ ReadsInOrder'
  <2>1. \A i \in 1..Len(rest), j \in 1..Len(hs) :
          IsRead(rest[i]) /\ IsRead(hs[j]) => SpaceOf(rest[i]) # SpaceOf(hs[j])
    BY <1>10, <1>11
  <2>2. queue' \in Seq(Request) /\ Lined(queue', readState', data')
    BY <1>3, <1>10, <1>12, <2>1, JoinedLined
  <2> QED BY <2>2 DEF ReadsInOrder
<1>14. \A p \in Pin : Covered(p, Spaces, data') =>
         Covered(p, Spaces, data) /\ data'[p[1]][p[2]] = data[p[1]][p[2]]
  <2> SUFFICES ASSUME NEW p \in Pin, Covered(p, Spaces, data')
               PROVE  Covered(p, Spaces, data) /\ data'[p[1]][p[2]] = data[p[1]][p[2]]
    OBVIOUS
  <2>1. p[1] \in Spaces /\ p[2] \in 1..Size[p[1]] /\ Size[p[1]] \in Nat
    BY PinFacts
  <2>2. p[1] \notin starts
    BY <1>5, <2>1, EmptySeq DEF Covered
  <2> QED BY <1>5, <2>1, <2>2 DEF Covered
<1>15. spacesToRead' \subseteq Spaces
  BY <1>1
<1>16. \E S \in SUBSET Spaces : staged' = ShowStaged(staged, S, data)
  <2>1. Spaces \ again \in SUBSET Spaces
    OBVIOUS
  <2> QED BY <1>1, <2>1
<1> HIDE DEF again, bad
<1> QED BY <1>0, <1>1, <1>3, <1>6, <1>7, <1>8, <1>9, <1>10, <1>13, <1>14, <1>15, <1>16

LEMMA NodeKnownInv == IInv /\ NodeKnown => IInv'
<1> SUFFICES ASSUME IInv, NodeKnown PROVE IInv'
  OBVIOUS
<1>0. TypeOK /\ ReadsInOrder /\ queue \in Seq(Request)
  BY DEF IInv, TypeOK
<1>1. CASE ReadEventIds(queue, queue = <<>>) /\ hasCdi' = TRUE /\ UNCHANGED reading
  <2>1. UNCHANGED <<mem, written, unsure, pending>>
    BY DEF NodeKnown, connVars
  <2>2. PICK hs \in Seq(Request) : queue' = queue \o hs
    BY <1>0, <1>1, <2>1, ReadEventIdsInv DEF ReadsInOrder
  <2>3. \A p \in Pin : Covered(p, Spaces, data') =>
          Covered(p, Spaces, data) /\ data'[p[1]][p[2]] = data[p[1]][p[2]]
    BY <1>0, <1>1, <2>1, ReadEventIdsInv DEF ReadsInOrder
  <2>4. FrontIsWrite' /\ CopyIsTrue'
    BY <2>1, <2>2, <2>3, BehindInv
  <2>5. ReadsInOrder' /\ BadSpacesUnread' /\ GraphShowsCopy'
    BY <1>0, <1>1, <2>1, ReadEventIdsInv DEF ReadsInOrder
  <2>6. TypeOK'
    BY <1>0, <1>1, <2>1, ReadEventIdsInv DEF ReadsInOrder, TypeOK
  <2> QED BY <2>4, <2>5, <2>6 DEF IInv
<1>2. CASE /\ ReadCdi
           /\ status' = "ReadingCdi"
           /\ UNCHANGED <<memoryVars, modelVars, hasCdi, spacesToRead, forceRead,
                          listening, error>>
  <2>1. UNCHANGED <<mem, written, unsure, pending, data, readState, invalid, pins,
                    staged, hasCdi, spacesToRead, forceRead, listening, error>>
    BY <1>2 DEF NodeKnown, connVars, memoryVars, modelVars
  <2>2. TypeOK'
    BY <1>0, <1>2, <2>1, ReadCdiInv DEF TypeOK
  <2> QED BY <1>2, <2>1, <2>2, ReadCdiInv DEF IInv
<1> QED BY <1>1, <1>2 DEF NodeKnown

LEMMA CdiInv == IInv /\ (ReloadNode \/ OtherReadsCdi) => IInv'
<1> SUFFICES ASSUME IInv, ReloadNode \/ OtherReadsCdi PROVE IInv'
  OBVIOUS
<1>1. /\ ReadCdi
      /\ UNCHANGED <<mem, written, unsure, pending, data, readState, invalid, pins,
                     staged, hasCdi, spacesToRead, listening, error>>
      /\ forceRead' \in {TRUE, forceRead}
      /\ status' \in {"ReadingCdi", status}
  BY DEF ReloadNode, OtherReadsCdi, connVars, memoryVars, modelVars
<1>2. TypeOK'
  <2>1. TypeOK /\ queue' \in Seq(Request) /\ reading' \in BOOLEAN
    BY <1>1, ReadCdiInv DEF IInv
  <2> QED BY <1>1, <2>1 DEF TypeOK
<1> QED BY <1>1, <1>2, ReadCdiInv DEF IInv

LEMMA StagingInv ==
  ASSUME IInv,
         \/ \E p \in Pin, v \in Values : Stage(p, v)
         \/ \E p \in Pin : Unstage(p)
         \/ DiscardChanges
  PROVE  IInv'
<1>1. /\ UNCHANGED <<connVars, queue, memoryVars, pins, loadVars, pending>>
      /\ staged' \in [Pin -> Values \cup {Unknown}]
  BY DEF IInv, TypeOK, Stage, Unstage, DiscardChanges
<1>2. UNCHANGED <<mem, written, unsure, queue, pending, data, readState, invalid, pins,
                  reading, hasCdi, spacesToRead, forceRead, listening, status, error>>
  BY <1>1 DEF connVars, memoryVars, loadVars
<1>3. TypeOK'
  BY <1>1, <1>2 DEF IInv, TypeOK
<1> QED BY <1>2, <1>3, NothingMade DEF IInv

\* The writes of applyChanges and the update complete behind them.
LEMMA WritesFacts ==
  ASSUME TypeOK, NEW order \in Orders(ToWrite)
  PROVE  LET n == Cardinality(ToWrite)
             writes == [i \in DOMAIN order |-> Write(order[i], staged[order[i]], TRUE)]
             rs == WritesAndUpdate(writes) IN
         /\ n \in Nat /\ rs \in Seq(Request) /\ Len(rs) = n + 1
         /\ \A i \in 1..n : /\ rs[i] = Write(order[i], staged[order[i]], TRUE)
                            /\ rs[i].kind = "write" /\ rs[i].at = order[i]
                            /\ rs[i].graph
         /\ rs[n + 1] = Ask("update", NoPin)
         /\ \A p \in ToWrite : \E i \in 1..n : order[i] = p
<1> DEFINE n == Cardinality(ToWrite)
           writes == [i \in DOMAIN order |-> Write(order[i], staged[order[i]], TRUE)]
<1>1. ToWrite \in SUBSET Pin /\ IsFiniteSet(ToWrite)
  <2>1. ToWrite \in SUBSET Pin
    BY DEF ToWrite
  <2> QED BY <2>1, FS_Subset
<1>2. /\ n \in Nat /\ order \in [1..n -> ToWrite] /\ DOMAIN order = 1..n
      /\ \A p \in ToWrite : \E i \in 1..n : order[i] = p
  BY <1>1, OrdersFacts
<1>3. \A i \in 1..n : Write(order[i], staged[order[i]], TRUE) \in Request
  <2> TAKE i \in 1..n
  <2>1. order[i] \in ToWrite /\ order[i] \in Pin
    BY <1>1, <1>2
  <2>2. staged[order[i]] \in Values
    BY <2>1 DEF TypeOK, ToWrite
  <2> QED BY <2>1, <2>2, RequestFacts
<1> HIDE DEF n
<1>4. writes \in Seq(Request) /\ Len(writes) = n
  <2>1. writes \in [1..n -> Request]
    BY <1>2, <1>3
  <2> HIDE DEF writes
  <2> QED BY <1>2, <2>1, FunctionSeq
<1>5. \A i \in 1..n :
        /\ writes[i] = Write(order[i], staged[order[i]], TRUE)
        /\ writes[i].kind = "write" /\ writes[i].at = order[i] /\ writes[i].graph
  <2>1. \A i \in 1..n : writes[i] = Write(order[i], staged[order[i]], TRUE)
    BY <1>2
  <2>2. \A i \in 1..n : /\ writes[i].kind = "write" /\ writes[i].at = order[i]
                       /\ writes[i].graph
    BY <1>2 DEF Write
  <2> QED BY <2>1, <2>2
<1> HIDE DEF writes
<1>6. /\ Append(writes, Ask("update", NoPin)) \in Seq(Request)
      /\ Len(Append(writes, Ask("update", NoPin))) = n + 1
      /\ \A i \in 1..n : Append(writes, Ask("update", NoPin))[i] = writes[i]
      /\ Append(writes, Ask("update", NoPin))[n + 1] = Ask("update", NoPin)
  BY <1>4, RequestFacts, AppendProperties
<1> QED BY ZenonT(60), <1>2, <1>5, <1>6 DEF WritesAndUpdate, n, writes

LEMMA ApplyChangesInv == IInv /\ ApplyChanges => IInv'
<1> SUFFICES ASSUME IInv, ApplyChanges PROVE IInv'
  OBVIOUS
<1>0. TypeOK
  BY DEF IInv
<1>1. PICK order \in Orders(ToWrite) :
        Submit(WritesAndUpdate(
          [i \in DOMAIN order |-> Write(order[i], staged[order[i]], TRUE)]))
  BY DEF ApplyChanges
<1> DEFINE n == Cardinality(ToWrite)
           rs == WritesAndUpdate(
                   [i \in DOMAIN order |-> Write(order[i], staged[order[i]], TRUE)])
<1>2. /\ n \in Nat /\ rs \in Seq(Request) /\ Len(rs) = n + 1
      /\ \A i \in 1..n : /\ rs[i] = Write(order[i], staged[order[i]], TRUE)
                         /\ rs[i].kind = "write" /\ rs[i].at = order[i]
                         /\ rs[i].graph
      /\ rs[n + 1] = Ask("update", NoPin)
  BY ZenonT(60), <1>0, WritesFacts
<1>3. Submit(rs)
  BY <1>1
<1> HIDE DEF n, rs
<1>4. \A i \in 1..Len(rs) : ~IsRead(rs[i])
  <2> TAKE i \in 1..Len(rs)
  <2>1. CASE i = n + 1
    BY <1>2, <2>1 DEF IsRead, Ask
  <2>2. CASE i # n + 1
    <3>1. i \in 1..n
      BY <1>2, <2>2
    <3> QED BY <1>2, <3>1 DEF IsRead
  <2> QED BY <2>1, <2>2
<1>5. /\ UNCHANGED <<mem, written, unsure, data, readState, invalid, pins, staged,
                     reading, hasCdi, spacesToRead, forceRead, listening, status, error>>
      /\ pending' = pending \cup ToWrite
  BY DEF ApplyChanges, connVars, memoryVars, modelVars, loadVars
<1>6. /\ queue' \in Seq(Request)
      /\ ReadsInOrder' /\ FrontIsWrite' /\ BadSpacesUnread' /\ CopyIsTrue'
      /\ GraphShowsCopy'
  BY <1>2, <1>3, <1>4, <1>5, SubmitInv
<1>7. TypeOK'
  <2>1. pending' \subseteq Pin
    BY <1>0, <1>5 DEF TypeOK, ToWrite
  <2> QED BY <1>0, <1>5, <1>6, <2>1 DEF TypeOK
<1> QED BY <1>6, <1>7 DEF IInv

\* What the CDI editor makes of a write.
LEMMA OtherWriteFacts ==
  ASSUME NEW p \in Pin, NEW v \in Values
  PROVE  LET rs == WritesAndUpdate(<<Write(p, v, FALSE)>>) IN
         /\ rs \in Seq(Request) /\ Len(rs) = 2
         /\ rs[1] = Write(p, v, FALSE) /\ rs[2] = Ask("update", NoPin)
<1>1. Write(p, v, FALSE) \in Request /\ Ask("update", NoPin) \in Request
  BY RequestFacts
<1> QED BY ZenonT(60), <1>1, FewRequests DEF WritesAndUpdate

LEMMA OtherInv ==
  ASSUME IInv,
         \/ \E p \in Fields, v \in Values : OtherWrites(p, v)
         \/ \E p \in Fields : OtherReads(p)
  PROVE  IInv'
<1>1. /\ UNCHANGED <<mem, written, unsure, data, readState, invalid, pins, staged,
                     reading, hasCdi, spacesToRead, forceRead, listening, status,
                     error, pending>>
  BY DEF OtherWrites, OtherReads, connVars, memoryVars, modelVars, loadVars
<1>2. PICK rs \in Seq(Request) :
        (\A i \in 1..Len(rs) : ~IsRead(rs[i])) /\ Submit(rs)
  <2>1. ASSUME NEW p \in Fields, NEW v \in Values, OtherWrites(p, v)
        PROVE  \E rs \in Seq(Request) :
                 (\A i \in 1..Len(rs) : ~IsRead(rs[i])) /\ Submit(rs)
    <3> DEFINE rs == WritesAndUpdate(<<Write(p, v, FALSE)>>)
    <3>1. /\ rs \in Seq(Request) /\ Len(rs) = 2
          /\ rs[1] = Write(p, v, FALSE) /\ rs[2] = Ask("update", NoPin)
      BY OtherWriteFacts
    <3>2. Submit(rs)
      BY <2>1 DEF OtherWrites
    <3> HIDE DEF rs
    <3>3. \A i \in 1..Len(rs) : ~IsRead(rs[i])
      BY <3>1 DEF IsRead, Write, Ask
    <3> QED BY <3>1, <3>2, <3>3
  <2>2. ASSUME NEW p \in Fields, OtherReads(p)
        PROVE  \E rs \in Seq(Request) :
                 (\A i \in 1..Len(rs) : ~IsRead(rs[i])) /\ Submit(rs)
    <3> DEFINE rs == <<Ask("range", p)>>
    <3>1. rs \in Seq(Request) /\ \A i \in 1..Len(rs) : ~IsRead(rs[i])
      <4>1. Ask("range", p) \in Request /\ ~IsRead(Ask("range", p))
        BY RequestFacts DEF Ask, IsRead
      <4> QED BY <4>1
    <3>2. Submit(rs)
      BY <2>2 DEF OtherReads
    <3> QED BY <3>1, <3>2
  <2> QED BY <2>1, <2>2
<1>3. /\ queue' \in Seq(Request)
      /\ ReadsInOrder' /\ FrontIsWrite' /\ BadSpacesUnread' /\ CopyIsTrue'
      /\ GraphShowsCopy'
  BY <1>1, <1>2, SubmitInv
<1>4. TypeOK'
  BY <1>1, <1>3 DEF IInv, TypeOK
<1> QED BY <1>3, <1>4 DEF IInv

\* The progress of the load keeps its type.
LEMMA SpaceReadTypes ==
  ASSUME TypeOK, NEW s, NEW failed \in BOOLEAN, SpaceRead(s, failed)
  PROVE  /\ spacesToRead' \subseteq Spaces /\ error' \in BOOLEAN
         /\ status' \in {"WaitingForInfo", "ReadingCdi", "ReadingMemory", "Ready",
                         "Failed"}
<1>0. /\ spacesToRead \subseteq Spaces /\ error \in BOOLEAN
      /\ status \in {"WaitingForInfo", "ReadingCdi", "ReadingMemory", "Ready", "Failed"}
  BY DEF TypeOK
<1>1. CASE s \in spacesToRead
  <2>1. /\ spacesToRead' = spacesToRead \ {s} /\ error' = (error \/ failed)
        /\ status' = IF spacesToRead' # {} THEN status
                     ELSE IF error' THEN "Failed" ELSE "Ready"
    BY <1>1 DEF SpaceRead
  <2> QED BY <1>0, <2>1
<1>2. CASE s \notin spacesToRead
  BY <1>0, <1>2 DEF SpaceRead
<1> QED BY <1>1, <1>2

LEMMA OtherReadsAllInv ==
  ASSUME IInv, NEW s \in Spaces, OtherReadsAll(s)
  PROVE  IInv'
<1>0. TypeOK /\ ReadsInOrder /\ BadSpacesUnread /\ GraphShowsCopy
  BY DEF IInv
<1>1. UNCHANGED <<mem, written, unsure, invalid, pins, staged, reading, hasCdi, forceRead,
                  listening, pending>>
  BY DEF OtherReadsAll, connVars, modelVars
<1>2. CASE SpaceRead(s, TRUE) /\ UNCHANGED <<queue, data, readState>>
  <2>1. TypeOK'
    BY <1>0, <1>1, <1>2, SpaceReadTypes DEF TypeOK
  <2> QED BY <1>1, <1>2, <2>1, NothingMade DEF IInv
<1>3. CASE /\ Submit(<<Ask("info", s)>>)
           /\ readState' = [readState EXCEPT ![s] = "Read_Space_Info"]
           /\ data' = [data EXCEPT ![s] = <<>>]
           /\ UNCHANGED <<spacesToRead, error, status>>
  <2>1. /\ queue \in Seq(Request) /\ Ask("info", s) \in Request
        /\ data \in [Spaces -> Seq(Values)]
        /\ readState \in [Spaces -> {"Not_Read_Yet", "Read_Space_Info",
                                     "Reading_Memory", "Memory_Complete"}]
    BY <1>0, RequestFacts DEF TypeOK
  <2>2. /\ data'[s] = <<>> /\ readState'[s] = "Read_Space_Info"
        /\ \A x \in Spaces \ {s} : data'[x] = data[x] /\ readState'[x] = readState[x]
        /\ data' \in [Spaces -> Seq(Values)]
        /\ readState' \in [Spaces -> {"Not_Read_Yet", "Read_Space_Info",
                                      "Reading_Memory", "Memory_Complete"}]
    BY <1>3, <2>1
  <2>3. PICK hs \in Heard(<<Ask("info", s)>>, queue = <<>>) : queue' = queue \o hs
    BY <1>3 DEF Submit
  <2>4. /\ hs \in Seq(Request) /\ Len(hs) \in Nat
        /\ \A i \in 1..Len(hs) : i = 1 /\ Len(hs) = 1 /\ hs[i] = Ask("info", s)
    <3>1. <<Ask("info", s)>> \in Seq(Request) /\ Len(<<Ask("info", s)>>) = 1
          /\ <<Ask("info", s)>>[1] = Ask("info", s)
      BY <2>1
    <3> DEFINE rs == <<Ask("info", s)>>
    <3>2. /\ hs \in Heard(rs, queue = <<>>)
          /\ rs \in Seq(Request) /\ Len(rs) = 1 /\ rs[1] = Ask("info", s)
      BY <3>1
    <3> HIDE DEF rs
    <3>3. /\ hs \in Seq(Request) /\ Len(hs) \in Nat /\ Len(hs) <= 1
          /\ \A i \in 1..Len(hs) : hs[i] = rs[i + (1 - Len(hs))]
      BY <3>2, HeardFacts
    <3> QED BY <3>2, <3>3
  <2>5. \A i \in 1..Len(hs) : hs[i].kind = "info" /\ hs[i].at = s /\ SpaceOf(hs[i]) = s
    BY <2>4 DEF Ask, SpaceOf
  <2>6. Lined(hs, readState', data')
    <3>1. DOMAIN hs = 1..Len(hs)
      BY <2>4, LenProperties
    <3> QED BY <2>2, <2>4, <2>5, <3>1 DEF Lined, OneReader, InOrder
  <2>7. ASSUME NEW i \in 1..Len(queue), IsRead(queue[i])
        PROVE  SpaceOf(queue[i]) \in Spaces \ {s}
    <3>1. queue[i] \in Request /\ i \in DOMAIN queue
      BY <2>1, ElementOfSeq, LenProperties
    <3>2. InOrder(queue[i], readState, data)
      BY <1>0, <3>1 DEF ReadsInOrder, Lined
    <3>3. InProcess(SpaceOf(queue[i])) /\ SpaceOf(queue[i]) \in Spaces
      BY <2>7, <3>1, <3>2, ReaderInProcess
    <3>4. ~InProcess(s)
      BY DEF OtherReadsAll
    <3> QED BY <3>3, <3>4
  <2>8. Lined(queue, readState', data')
    <3>1. \A i \in 1..Len(queue) : IsRead(queue[i]) =>
            /\ readState'[SpaceOf(queue[i])] = readState[SpaceOf(queue[i])]
            /\ Len(data'[SpaceOf(queue[i])]) = Len(data[SpaceOf(queue[i])])
      BY <2>2, <2>7
    <3> QED BY <1>0, <2>1, <3>1, StillLined DEF ReadsInOrder
  <2>9. queue' \in Seq(Request) /\ ReadsInOrder'
    <3>1. \A i \in 1..Len(queue), j \in 1..Len(hs) :
            IsRead(queue[i]) /\ IsRead(hs[j]) => SpaceOf(queue[i]) # SpaceOf(hs[j])
      BY <2>5, <2>7
    <3>2. queue' \in Seq(Request) /\ Lined(queue', readState', data')
      BY <2>1, <2>3, <2>4, <2>6, <2>8, <3>1, JoinedLined
    <3> QED BY <3>2 DEF ReadsInOrder
  <2>10. \A p \in Pin : Covered(p, Spaces, data') =>
           p[1] # s /\ Covered(p, Spaces, data) /\ data'[p[1]][p[2]] = data[p[1]][p[2]]
    <3> SUFFICES ASSUME NEW p \in Pin, Covered(p, Spaces, data')
                 PROVE  /\ p[1] # s /\ Covered(p, Spaces, data)
                        /\ data'[p[1]][p[2]] = data[p[1]][p[2]]
      OBVIOUS
    <3>1. p[1] \in Spaces /\ p[2] \in 1..Size[p[1]] /\ Size[p[1]] \in Nat
      BY PinFacts
    <3>2. p[1] # s
      BY <2>2, <3>1, EmptySeq DEF Covered
    <3> QED BY <2>2, <3>1, <3>2 DEF Covered
  <2>11. FrontIsWrite' /\ CopyIsTrue'
    BY <1>1, <2>3, <2>4, <2>10, BehindInv
  <2>12. BadSpacesUnread'
    BY <1>0, <2>2 DEF BadSpacesUnread, HasMemory
  <2>13. GraphShowsCopy'
    <3> SUFFICES ASSUME NEW p \in Pin, listening', HasMemory(p[1])',
                        Covered(p, Spaces, data')
                 PROVE  pins'[p] = data'[p[1]][p[2]]
      BY DEF GraphShowsCopy
    <3>1. HasMemory(p[1]) /\ Covered(p, Spaces, data)
      BY <2>2, <2>10, PinFacts DEF HasMemory
    <3> QED BY <1>0, <1>1, <2>10, <3>1 DEF GraphShowsCopy
  <2>14. TypeOK'
    BY <1>0, <1>1, <1>3, <2>2, <2>9 DEF TypeOK
  <2> QED BY <2>9, <2>11, <2>12, <2>13, <2>14 DEF IInv
<1> QED BY <1>2, <1>3 DEF OtherReadsAll

LEMMA NodeWritesInv == IInv /\ NodeWrites => IInv'
<1> SUFFICES ASSUME IInv, NodeWrites PROVE IInv'
  OBVIOUS
<1> DEFINE r == Head(queue)
<1>0. TypeOK /\ CopyIsTrue /\ queue \in Seq(Request) /\ mem \in [Pin -> Values]
  BY DEF IInv, TypeOK
<1>1. /\ queue # <<>> /\ ~written /\ r.kind = "write" /\ written'
      /\ mem' = [mem EXCEPT ![r.at] = r.val]
      /\ UNCHANGED <<queue, data, readState, invalid, pins, staged, reading, hasCdi,
                     spacesToRead, forceRead, listening, status, error, pending, unsure>>
  BY DEF NodeWrites, memoryVars, modelVars, loadVars
<1>2. r.at \in Pin /\ r.val \in Values
  BY <1>0, <1>1, TailFacts, RequestFacts
<1>3. /\ mem' \in [Pin -> Values] /\ mem'[r.at] = r.val
      /\ \A p \in Pin \ {r.at} : mem'[p] = mem[p]
  BY <1>0, <1>1, <1>2
<1>4. TypeOK'
  <2> HIDE DEF r
  <2>1. written' \in BOOLEAN
    BY DEF NodeWrites
  <2> QED BY <1>0, <1>1, <1>3, <2>1 DEF TypeOK
<1>5. FrontIsWrite'
  BY <1>1, <1>3 DEF FrontIsWrite
<1>6. CopyIsTrue'
  BY <1>0, <1>1, <1>3 DEF CopyIsTrue, Written
<1>7. ReadsInOrder' /\ BadSpacesUnread' /\ GraphShowsCopy'
  BY <1>1 DEF IInv, ReadsInOrder, BadSpacesUnread, GraphShowsCopy, HasMemory
<1> QED BY <1>4, <1>5, <1>6, <1>7 DEF IInv

-----------------------------------------------------------------------------
(***************************************************************************)
(* The reply handlers.                                                     *)
(***************************************************************************)

\* What a reply leaves: a staged change is only taken away if the node has it.
Kept ==
  \A p \in Pin : staged[p] # Unknown /\ staged'[p] # staged[p] =>
    staged[p] = mem[p] \/ p \in unsure

\* Changes are kept when the graph shows a true copy.
LEMMA KeptByShow ==
  ASSUME TypeOK, NEW S \in SUBSET Spaces, NEW d, staged' = ShowStaged(staged, S, d),
         \A p \in Pin : Covered(p, Spaces, d) =>
           d[p[1]][p[2]] = mem[p] \/ p \in unsure
  PROVE  Kept
<1> SUFFICES ASSUME NEW p \in Pin, staged'[p] # staged[p]
             PROVE  staged[p] = mem[p] \/ p \in unsure
  BY DEF Kept
<1>1. Covered(p, S, d) /\ ~StillStaged(staged, p, d[p[1]][p[2]])
  BY DEF ShowStaged
<1>2. Covered(p, Spaces, d) /\ staged[p] = d[p[1]][p[2]]
  BY <1>1 DEF Covered, StillStaged
<1> QED BY <1>2

\* While the front is not a write, every copy is true.
LEMMA CopiesTrue ==
  ASSUME IInv, queue # <<>>, Head(queue).kind # "write"
  PROVE  /\ ~written
         /\ \A p \in Pin : Covered(p, Spaces, data) =>
              data[p[1]][p[2]] = mem[p] \/ p \in unsure
<1>1. ~written
  BY DEF IInv, FrontIsWrite
<1> QED BY <1>1 DEF IInv, CopyIsTrue, Written

\* The read of the space s fails.
LEMMA ReadFailsInv ==
  ASSUME IInv, queue # <<>>, IsRead(Head(queue)), NEW s, s = SpaceOf(Head(queue)),
         ReadFails(s), UNCHANGED <<data, listening>>
  PROVE  /\ queue' \in Seq(Request) /\ ReadsInOrder'
         /\ readState' \in [Spaces -> {"Not_Read_Yet", "Read_Space_Info",
                                       "Reading_Memory", "Memory_Complete"}]
         /\ UNCHANGED <<pins, staged>>
         /\ spacesToRead' \subseteq Spaces /\ error' \in BOOLEAN
         /\ status' \in {"WaitingForInfo", "ReadingCdi", "ReadingMemory", "Ready",
                         "Failed"}
         /\ BadSpacesUnread' /\ GraphShowsCopy'
<1>0. TypeOK /\ ReadsInOrder /\ BadSpacesUnread /\ GraphShowsCopy
      /\ queue \in Seq(Request)
  BY DEF IInv, TypeOK
<1>1. /\ queue' = Tail(queue)
      /\ readState' = [readState EXCEPT ![s] = "Not_Read_Yet"]
      /\ UNCHANGED <<pins, staged>>
  BY DEF ReadFails, Pop, modelVars
<1>2. s \in Spaces
  BY <1>0, TailFacts, RequestFacts
<1>3. /\ readState' \in [Spaces -> {"Not_Read_Yet", "Read_Space_Info",
                                    "Reading_Memory", "Memory_Complete"}]
      /\ readState'[s] = "Not_Read_Yet"
      /\ \A x \in Spaces \ {s} : readState'[x] = readState[x]
  BY <1>0, <1>1, <1>2 DEF TypeOK
<1>4. queue' \in Seq(Request) /\ ReadsInOrder'
  <2> DEFINE t == Tail(queue)
  <2>1. /\ t \in Seq(Request) /\ Lined(t, readState, data)
        /\ \A i \in 1..Len(t) : IsRead(t[i]) => SpaceOf(t[i]) # s
    BY <1>0, TailFacts, TailLined
  <2>2. \A i \in 1..Len(t) : t[i] \in Request
    BY <2>1, ElementOfSeq
  <2>3. queue' = t
    BY <1>1
  <2> HIDE DEF t
  <2>4. \A i \in 1..Len(t) : IsRead(t[i]) =>
          /\ readState'[SpaceOf(t[i])] = readState[SpaceOf(t[i])]
          /\ Len(data'[SpaceOf(t[i])]) = Len(data[SpaceOf(t[i])])
    BY <1>3, <2>1, <2>2, RequestFacts
  <2>5. Lined(t, readState', data')
    BY <2>1, <2>4, StillLined
  <2> QED BY <2>1, <2>3, <2>5 DEF ReadsInOrder
<1>5. /\ spacesToRead' \subseteq Spaces /\ error' \in BOOLEAN
      /\ status' \in {"WaitingForInfo", "ReadingCdi", "ReadingMemory", "Ready",
                      "Failed"}
  <2>1. CASE listening
    BY <1>0, <2>1, SpaceReadTypes DEF ReadFails
  <2>2. CASE ~listening
    BY <1>0, <2>2 DEF ReadFails, TypeOK
  <2> QED BY <2>1, <2>2
<1>6. BadSpacesUnread'
  BY <1>0, <1>3 DEF BadSpacesUnread, HasMemory
<1>7. GraphShowsCopy'
  BY <1>0, <1>1, <1>3, PinFacts DEF GraphShowsCopy, HasMemory
<1> QED BY <1>1, <1>3, <1>4, <1>5, <1>6, <1>7

\* What a block of the read of the space s leaves.
ReadResult(s) ==
  /\ queue' \in Seq(Request) /\ ReadsInOrder'
  /\ readState' \in [Spaces -> {"Not_Read_Yet", "Read_Space_Info",
                                "Reading_Memory", "Memory_Complete"}]
  /\ data' \in [Spaces -> Seq(Values)]
  /\ pins' \in [Pin -> Values \cup {Unknown}]
  /\ staged' \in [Pin -> Values \cup {Unknown}]
  /\ spacesToRead' \subseteq Spaces /\ error' \in BOOLEAN
  /\ status' \in {"WaitingForInfo", "ReadingCdi", "ReadingMemory", "Ready",
                  "Failed"}
  /\ BadSpacesUnread' /\ GraphShowsCopy'
  /\ staged' = staged \/ staged' = ShowStaged(staged, {s}, data')

\* The read of the space s goes on, or ends, with the copy d.
LEMMA ReadNextBlockInv ==
  ASSUME IInv, queue # <<>>, IsRead(Head(queue)), NEW s, s = SpaceOf(Head(queue)),
         s \notin BadSpaces, NEW d \in Seq(Values), NEW last \in BOOLEAN,
         ReadNextBlock(s, d, last), data' = [data EXCEPT ![s] = d],
         UNCHANGED listening
  PROVE  ReadResult(s)
<1> DEFINE t == Tail(queue)
<1>0. /\ TypeOK /\ ReadsInOrder /\ BadSpacesUnread /\ GraphShowsCopy
      /\ queue \in Seq(Request)
      /\ data \in [Spaces -> Seq(Values)]
      /\ pins \in [Pin -> Values \cup {Unknown}]
      /\ staged \in [Pin -> Values \cup {Unknown}]
      /\ readState \in [Spaces -> {"Not_Read_Yet", "Read_Space_Info",
                                   "Reading_Memory", "Memory_Complete"}]
  BY DEF IInv, TypeOK
<1>1. s \in Spaces
  BY <1>0, TailFacts, RequestFacts
<1>2. /\ data' \in [Spaces -> Seq(Values)] /\ data'[s] = d
      /\ \A x \in Spaces \ {s} : data'[x] = data[x]
  BY <1>0, <1>1
<1>3. /\ t \in Seq(Request) /\ Lined(t, readState, data)
      /\ \A i \in 1..Len(t) : IsRead(t[i]) => SpaceOf(t[i]) \in Spaces \ {s}
  <2>1. /\ t \in Seq(Request) /\ Lined(t, readState, data)
        /\ \A i \in 1..Len(t) : IsRead(t[i]) => SpaceOf(t[i]) # s
    BY <1>0, TailFacts, TailLined
  <2>2. \A i \in 1..Len(t) : t[i] \in Request
    BY <2>1, ElementOfSeq
  <2> HIDE DEF t
  <2> QED BY <2>1, <2>2, RequestFacts
<1>4. CASE /\ queue' = t
           /\ readState' = [readState EXCEPT ![s] = "Memory_Complete"]
           /\ IF listening
              THEN /\ pins' = ShowPins(pins, {s}, [data EXCEPT ![s] = d])
                   /\ staged' = ShowStaged(staged, {s}, [data EXCEPT ![s] = d])
                   /\ SpaceRead(s, FALSE)
              ELSE UNCHANGED <<modelVars, spacesToRead, error, status>>
  <2> HIDE DEF t
  <2>1. /\ readState' \in [Spaces -> {"Not_Read_Yet", "Read_Space_Info",
                                      "Reading_Memory", "Memory_Complete"}]
        /\ \A x \in Spaces \ {s} : readState'[x] = readState[x]
    BY <1>0, <1>1, <1>4
  <2>2. queue' \in Seq(Request) /\ ReadsInOrder'
    <3>1. \A i \in 1..Len(t) : IsRead(t[i]) =>
            /\ readState'[SpaceOf(t[i])] = readState[SpaceOf(t[i])]
            /\ Len(data'[SpaceOf(t[i])]) = Len(data[SpaceOf(t[i])])
      BY <1>2, <1>3, <2>1
    <3>2. Lined(t, readState', data')
      BY <1>3, <3>1, StillLined
    <3> QED BY <1>3, <1>4, <3>2 DEF ReadsInOrder
  <2>3. BadSpacesUnread'
    BY <1>0, <2>1 DEF BadSpacesUnread, HasMemory
  <2>4. CASE listening
    <3>1. /\ pins' = ShowPins(pins, {s}, data')
          /\ staged' = ShowStaged(staged, {s}, data')
          /\ SpaceRead(s, FALSE)
      BY <1>4, <2>4
    <3>2. /\ pins' \in [Pin -> Values \cup {Unknown}]
          /\ staged' \in [Pin -> Values \cup {Unknown}]
      BY <1>0, <1>2, <3>1, ShowTypes
    <3>3. GraphShowsCopy'
      <4> SUFFICES ASSUME NEW p \in Pin, HasMemory(p[1])', Covered(p, Spaces, data')
                   PROVE  pins'[p] = data'[p[1]][p[2]]
        BY DEF GraphShowsCopy
      <4>1. CASE p[1] = s
        BY <3>1, <4>1 DEF ShowPins, Covered
      <4>2. CASE p[1] # s
        <5>1. p[1] \in Spaces \ {s}
          BY <4>2, PinFacts
        <5>2. HasMemory(p[1]) /\ Covered(p, Spaces, data) /\ pins'[p] = pins[p]
          BY <1>2, <2>1, <3>1, <5>1 DEF HasMemory, Covered, ShowPins
        <5> QED BY <1>0, <1>2, <2>4, <5>1, <5>2 DEF GraphShowsCopy
      <4> QED BY <4>1, <4>2
    <3>4. /\ spacesToRead' \subseteq Spaces /\ error' \in BOOLEAN
          /\ status' \in {"WaitingForInfo", "ReadingCdi", "ReadingMemory", "Ready",
                          "Failed"}
      BY <1>0, <3>1, SpaceReadTypes
    <3> QED BY <1>2, <2>1, <2>2, <2>3, <3>1, <3>2, <3>3, <3>4 DEF ReadResult
  <2>5. CASE ~listening
    <3>1. UNCHANGED <<pins, staged, spacesToRead, error, status>>
      BY <1>4, <2>5 DEF modelVars
    <3>2. GraphShowsCopy'
      BY <2>5 DEF GraphShowsCopy
    <3> QED BY <1>0, <1>2, <2>1, <2>2, <2>3, <3>1, <3>2 DEF TypeOK, ReadResult
  <2> QED BY <2>4, <2>5
<1>5. CASE /\ ~last /\ ~IsComplete(s, d)
           /\ queue' = Append(t, Ask("read", <<s, Len(d) + 1>>))
           /\ readState' = [readState EXCEPT ![s] = "Reading_Memory"]
           /\ UNCHANGED <<modelVars, spacesToRead, error, status>>
  <2> DEFINE p1 == <<s, Len(d) + 1>>
             hs == <<Ask("read", p1)>>
  <2>1. p1 \in Pin
    <3>1. Len(d) \in Nat /\ Size[s] \in Nat /\ Len(d) < Size[s]
      BY <1>1, <1>5, LenProperties DEF IsComplete
    <3>2. (Len(d) + 1) \in 1..Size[s]
      BY <3>1
    <3> QED BY <1>1, <3>2, PinFacts
  <2>2. Ask("read", p1) \in Request
    BY <2>1, RequestFacts
  <2>3. /\ readState' \in [Spaces -> {"Not_Read_Yet", "Read_Space_Info",
                                      "Reading_Memory", "Memory_Complete"}]
        /\ readState'[s] = "Reading_Memory"
        /\ \A x \in Spaces \ {s} : readState'[x] = readState[x]
    BY <1>0, <1>1, <1>5
  <2>4. Ask("read", p1).kind = "read" /\ Ask("read", p1).at = p1
        /\ p1[1] = s /\ p1[2] = Len(d) + 1
    BY DEF Ask
  <2>5. /\ hs \in Seq(Request) /\ DOMAIN hs = 1..Len(hs)
        /\ \A i \in 1..Len(hs) : i = 1 /\ hs[i] = Ask("read", p1)
    BY <2>2
  <2>6. queue' = t \o hs
    <3>1. Append(t, Ask("read", p1)) = t \o hs
      BY <1>3, <2>2, AppendIsConcat
    <3> QED BY <1>5, <3>1
  <2> HIDE DEF hs, p1, t
  <2>7. Lined(hs, readState', data')
    <3>1. InOrder(Ask("read", p1), readState', data')
      BY <1>2, <2>3, <2>4 DEF InOrder
    <3> QED BY <2>5, <3>1 DEF Lined, OneReader
  <2>8. Lined(t, readState', data')
    <3>1. \A i \in 1..Len(t) : IsRead(t[i]) =>
            /\ readState'[SpaceOf(t[i])] = readState[SpaceOf(t[i])]
            /\ Len(data'[SpaceOf(t[i])]) = Len(data[SpaceOf(t[i])])
      BY <1>2, <1>3, <2>3
    <3> QED BY <1>3, <3>1, StillLined
  <2>9. queue' \in Seq(Request) /\ ReadsInOrder'
    <3>1. SpaceOf(Ask("read", p1)) = s
      BY <2>4 DEF SpaceOf
    <3>2. \A i \in 1..Len(t), j \in 1..Len(hs) :
            IsRead(t[i]) /\ IsRead(hs[j]) => SpaceOf(t[i]) # SpaceOf(hs[j])
      BY <1>3, <2>5, <3>1
    <3>3. queue' \in Seq(Request) /\ Lined(queue', readState', data')
      BY <1>3, <2>5, <2>6, <2>7, <2>8, <3>2, JoinedLined
    <3> QED BY <3>3 DEF ReadsInOrder
  <2>10. UNCHANGED <<pins, staged, spacesToRead, error, status>>
    BY <1>5 DEF modelVars
  <2>11. BadSpacesUnread'
    BY <1>0, <2>3 DEF BadSpacesUnread, HasMemory
  <2>12. GraphShowsCopy'
    <3> SUFFICES ASSUME NEW p \in Pin, listening', HasMemory(p[1])',
                        Covered(p, Spaces, data')
                 PROVE  pins'[p] = data'[p[1]][p[2]]
      BY DEF GraphShowsCopy
    <3>1. p[1] \in Spaces \ {s}
      BY <2>3, PinFacts DEF HasMemory
    <3>2. HasMemory(p[1]) /\ Covered(p, Spaces, data)
      BY <1>2, <2>3, <3>1 DEF HasMemory, Covered
    <3> QED BY <1>0, <1>2, <2>10, <3>1, <3>2 DEF GraphShowsCopy
  <2> QED BY <1>0, <1>2, <2>3, <2>9, <2>10, <2>11, <2>12 DEF TypeOK, ReadResult
<1> QED BY <1>4, <1>5 DEF ReadNextBlock, Pop

\* The request r at the front is answered.
Answered(r, ok) ==
  /\ queue # <<>> /\ r = Head(queue) /\ ok \in BOOLEAN
  /\ (ok /\ r.kind = "write") => written
  /\ written' = FALSE /\ UNCHANGED mem

LEMMA AddressSpaceFinishedInv ==
  ASSUME IInv, NEW r, NEW ok, Answered(r, ok), AddressSpaceFinished(r, ok)
  PROVE  IInv' /\ Kept
<1>0. /\ TypeOK /\ r = Head(queue) /\ queue # <<>> /\ written' = FALSE /\ mem' = mem
      /\ r.kind = "info"
      /\ UNCHANGED <<data, reading, hasCdi, forceRead, listening, pending, unsure>>
  BY DEF IInv, Answered, AddressSpaceFinished
<1>1. r \in Request /\ r.at \in Spaces /\ IsRead(r) /\ SpaceOf(r) = r.at
  BY <1>0, TailFacts, RequestFacts DEF TypeOK, IsRead, SpaceOf
<1>2. \A p \in Pin : Covered(p, Spaces, data) =>
        data[p[1]][p[2]] = mem[p] \/ p \in unsure
  BY <1>0, CopiesTrue
<1>3. FrontIsWrite' /\ CopyIsTrue'
  BY <1>0, <1>2 DEF FrontIsWrite, CopyIsTrue
<1>4. CASE ReadFails(r.at) /\ invalid' \in SUBSET BadSpaces
  <2>1. TypeOK'
    BY <1>0, <1>1, <1>4, ReadFailsInv DEF TypeOK
  <2>2. ReadsInOrder' /\ BadSpacesUnread' /\ GraphShowsCopy' /\ staged' = staged
    BY <1>0, <1>1, <1>4, ReadFailsInv
  <2> QED BY <1>3, <2>1, <2>2 DEF IInv, Kept
<1>5. CASE /\ r.at \notin BadSpaces /\ UNCHANGED invalid
           /\ \E last \in BOOLEAN : ReadNextBlock(r.at, data[r.at], last)
  <2>1. PICK last \in BOOLEAN : ReadNextBlock(r.at, data[r.at], last)
    BY <1>5
  <2>2. /\ data[r.at] \in Seq(Values)
        /\ data' = [data EXCEPT ![r.at] = data[r.at]]
    BY <1>0, <1>1 DEF TypeOK
  <2>3. ReadResult(r.at)
    <3> DEFINE s == r.at
               d == data[s]
    <3>1. /\ IInv /\ queue # <<>> /\ IsRead(Head(queue)) /\ s = SpaceOf(Head(queue))
          /\ s \notin BadSpaces /\ d \in Seq(Values) /\ last \in BOOLEAN
          /\ ReadNextBlock(s, d, last) /\ data' = [data EXCEPT ![s] = d]
          /\ UNCHANGED listening
      BY <1>0, <1>1, <1>5, <2>1, <2>2
    <3> HIDE DEF s, d
    <3>2. ReadResult(s)
      BY ONLY <3>1, ReadNextBlockInv
    <3> QED BY <3>2 DEF s
  <2>4. TypeOK'
    BY <1>0, <1>5, <2>3 DEF TypeOK, ReadResult
  <2>5. Kept
    <3>1. CASE staged' = staged
      BY <3>1 DEF Kept
    <3>2. CASE staged' = ShowStaged(staged, {r.at}, data)
      BY <1>0, <1>1, <1>2, <3>2, KeptByShow
    <3> QED BY <1>0, <2>3, <3>1, <3>2 DEF ReadResult
  <2> QED BY <1>3, <2>3, <2>4, <2>5 DEF IInv, ReadResult
<1> QED
  <2>1. invalid \in SUBSET BadSpaces
    BY <1>0 DEF TypeOK
  <2> QED BY <1>4, <1>5, <2>1 DEF AddressSpaceFinished

LEMMA AddressSpaceReadInv ==
  ASSUME IInv, NEW r, NEW ok, Answered(r, ok), AddressSpaceRead(r, ok)
  PROVE  IInv' /\ Kept
<1> DEFINE s == r.at[1]
           d == Append(data[s], mem[r.at])
<1>0. /\ TypeOK /\ ReadsInOrder /\ r = Head(queue) /\ queue # <<>>
      /\ queue \in Seq(Request)
      /\ written' = FALSE /\ mem' = mem /\ r.kind = "read"
      /\ UNCHANGED <<invalid, reading, hasCdi, forceRead, listening, pending>>
  BY DEF IInv, TypeOK, Answered, AddressSpaceRead
<1>1. r \in Request /\ r.at \in Pin /\ IsRead(r) /\ SpaceOf(r) = s
  BY <1>0, TailFacts, RequestFacts DEF IsRead, SpaceOf
<1>2. s \in Spaces /\ s \notin BadSpaces /\ r.at[2] = Len(data[s]) + 1
  <2>1. InOrder(r, readState, data)
    BY <1>0, TailLined
  <2> QED BY <1>0, <1>1, <2>1, PinFacts DEF InOrder
<1>3. \A p \in Pin : Covered(p, Spaces, data) =>
        data[p[1]][p[2]] = mem[p] \/ p \in unsure
  BY <1>0, CopiesTrue
<1>4. FrontIsWrite'
  BY <1>0 DEF FrontIsWrite
<1>5. data[s] \in Seq(Values) /\ mem[r.at] \in Values
  BY <1>0, <1>1, <1>2 DEF TypeOK
<1>6. CASE ReadFails(s) /\ UNCHANGED <<data, unsure>>
  <2>1. TypeOK'
    BY <1>0, <1>1, <1>6, ReadFailsInv DEF TypeOK
  <2>2. ReadsInOrder' /\ BadSpacesUnread' /\ GraphShowsCopy' /\ staged' = staged
    BY <1>0, <1>1, <1>6, ReadFailsInv
  <2>3. CopyIsTrue'
    BY <1>0, <1>3, <1>6 DEF CopyIsTrue
  <2> QED BY <1>4, <2>1, <2>2, <2>3 DEF IInv, Kept
<1>7. ASSUME NEW d2 \in Seq(Values), NEW last \in BOOLEAN, ReadNextBlock(s, d2, last),
             data' = [data EXCEPT ![s] = d2], unsure' \subseteq unsure, CopyIsTrue'
      PROVE  IInv' /\ Kept
  <2>0. /\ IInv /\ queue # <<>> /\ IsRead(Head(queue)) /\ s = SpaceOf(Head(queue))
        /\ s \notin BadSpaces /\ d2 \in Seq(Values) /\ last \in BOOLEAN
        /\ ReadNextBlock(s, d2, last) /\ data' = [data EXCEPT ![s] = d2]
        /\ UNCHANGED listening
    BY <1>0, <1>1, <1>2, <1>7
  <2>1. ReadResult(s)
    <3> HIDE DEF s
    <3> QED BY ONLY <2>0, ReadNextBlockInv
  <2>2. TypeOK'
    <3>1. unsure' \subseteq Pin
      BY <1>0, <1>7 DEF TypeOK
    <3> QED BY <1>0, <2>1, <3>1 DEF TypeOK, ReadResult
  <2>3. Kept
    <3>1. CASE staged' = staged
      BY <3>1 DEF Kept
    <3>2. CASE staged' = ShowStaged(staged, {s}, data')
      <4>1. \A p \in Pin : Covered(p, Spaces, data') =>
              data'[p[1]][p[2]] = mem[p] \/ p \in unsure
        BY <1>0, <1>7 DEF CopyIsTrue, Written
      <4>2. {s} \in SUBSET Spaces
        BY <1>2
      <4> DEFINE e == data'
      <4>3. /\ staged' = ShowStaged(staged, {s}, e)
            /\ \A p \in Pin : Covered(p, Spaces, e) =>
                 e[p[1]][p[2]] = mem[p] \/ p \in unsure
        BY <3>2, <4>1
      <4> HIDE DEF e, s
      <4> QED BY <1>0, <4>2, <4>3, KeptByShow
    <3> QED BY <2>1, <3>1, <3>2 DEF ReadResult
  <2> QED BY <1>4, <1>7, <2>1, <2>2, <2>3 DEF IInv, ReadResult
<1>8. CASE ReadNextBlock(s, data[s], TRUE) /\ UNCHANGED <<data, unsure>>
  <2>1. data' = [data EXCEPT ![s] = data[s]]
    BY <1>0, <1>2, <1>8 DEF TypeOK
  <2>2. CopyIsTrue'
    BY <1>0, <1>3, <1>8 DEF CopyIsTrue
  <2>3. unsure' \subseteq unsure /\ TRUE \in BOOLEAN
    BY <1>8
  <2> QED BY <1>5, <1>7, <1>8, <2>1, <2>2, <2>3
<1>9. CASE /\ \E last \in BOOLEAN : ReadNextBlock(s, d, last)
           /\ data' = [data EXCEPT ![s] = d]
           /\ unsure' = unsure \ {r.at}
  <2>1. PICK last \in BOOLEAN : ReadNextBlock(s, d, last)
    BY <1>9
  <2>2. /\ d \in Seq(Values) /\ Len(d) = Len(data[s]) + 1
        /\ \A i \in 1..Len(data[s]) : d[i] = data[s][i]
        /\ d[Len(data[s]) + 1] = mem[r.at] /\ Len(data[s]) \in Nat
    BY <1>5, AppendProperties, LenProperties
  <2>3. data'[s] = d /\ \A x \in Spaces \ {s} : data'[x] = data[x]
    BY <1>0, <1>2, <1>9 DEF TypeOK
  <2>4. CopyIsTrue'
    <3> SUFFICES ASSUME NEW p \in Pin, Covered(p, Spaces, data')
                 PROVE  data'[p[1]][p[2]] = mem'[p] \/ p \in unsure'
      BY DEF CopyIsTrue
    <3>1. p[1] \in Spaces /\ p[2] \in 1..Size[p[1]] /\ Size[p[1]] \in Nat
          /\ p = <<p[1], p[2]>> /\ r.at = <<r.at[1], r.at[2]>>
      BY <1>1, PinFacts
    <3> HIDE DEF d, s
    <3>2. CASE p[1] # s
      BY <1>0, <1>3, <1>9, <2>3, <3>1, <3>2 DEF Covered, s
    <3>3. CASE p[1] = s /\ p[2] = r.at[2]
      <4>1. p = r.at
        BY <3>1, <3>3 DEF s
      <4> QED BY <1>0, <1>2, <2>2, <2>3, <3>3, <4>1
    <3>4. CASE p[1] = s /\ p[2] # r.at[2]
      <4>1. p[2] \in 1..Len(data[s]) /\ p # r.at
        BY <1>2, <2>2, <2>3, <3>1, <3>4 DEF Covered
      <4>2. Covered(p, Spaces, data) /\ data'[p[1]][p[2]] = data[p[1]][p[2]]
        BY <1>2, <2>2, <2>3, <3>4, <4>1 DEF Covered
      <4> QED BY <1>0, <1>3, <1>9, <4>1, <4>2
    <3> QED BY <3>2, <3>3, <3>4
  <2>5. unsure' \subseteq unsure
    BY <1>9
  <2> HIDE DEF d
  <2> QED BY <1>7, <1>9, <2>1, <2>2, <2>4, <2>5
<1> QED BY <1>6, <1>8, <1>9 DEF AddressSpaceRead

\* A request that reads no space is answered: what is left is in order.
LEMMA TailStillInOrder ==
  ASSUME IInv, queue # <<>>, queue' = Tail(queue), UNCHANGED readState,
         data' \in [Spaces -> Seq(Values)],
         \A s \in Spaces : Len(data'[s]) = Len(data[s])
  PROVE  queue' \in Seq(Request) /\ ReadsInOrder'
<1> DEFINE t == Tail(queue)
<1>1. queue \in Seq(Request) /\ ReadsInOrder
  BY DEF IInv, TypeOK
<1>2. t \in Seq(Request) /\ Lined(t, readState, data)
  BY <1>1, TailFacts, TailLined
<1>3. \A i \in 1..Len(t) : t[i] \in Request
  BY <1>2, ElementOfSeq
<1>4. queue' = t
  OBVIOUS
<1> HIDE DEF t
<1>5. \A i \in 1..Len(t) : IsRead(t[i]) =>
        /\ readState'[SpaceOf(t[i])] = readState[SpaceOf(t[i])]
        /\ Len(data'[SpaceOf(t[i])]) = Len(data[SpaceOf(t[i])])
  BY <1>3, RequestFacts
<1>6. Lined(t, readState', data')
  BY <1>2, <1>5, StillLined
<1> QED BY <1>2, <1>4, <1>6 DEF ReadsInOrder

\* The copy is updated with what the node has at p: it and the graph stay true.
LEMMA UpdateDataInv ==
  ASSUME IInv, NEW p \in Pin, NEW v \in Values, UpdateData(p, v),
         UNCHANGED <<readState, listening>>
  PROVE  /\ data' \in [Spaces -> Seq(Values)]
         /\ \A s \in Spaces : Len(data'[s]) = Len(data[s])
         /\ \A x \in Pin : Covered(x, Spaces, data') =>
              /\ Covered(x, Spaces, data)
              /\ data'[x[1]][x[2]] = IF x = p THEN v ELSE data[x[1]][x[2]]
         /\ pins' \in [Pin -> Values \cup {Unknown}]
         /\ staged' \in [Pin -> Values \cup {Unknown}]
         /\ GraphShowsCopy'
         /\ staged' = staged \/ staged' = ShowStaged(staged, {p[1]}, data')
<1>0. /\ data \in [Spaces -> Seq(Values)] /\ GraphShowsCopy
      /\ pins \in [Pin -> Values \cup {Unknown}]
      /\ staged \in [Pin -> Values \cup {Unknown}]
  BY DEF IInv, TypeOK
<1>1. p[1] \in Spaces /\ p[2] \in 1..Size[p[1]] /\ Size[p[1]] \in Nat
  BY PinFacts
<1>2. data[p[1]] \in Seq(Values) /\ Len(data[p[1]]) \in Nat
  BY <1>0, <1>1, LenProperties
<1>3. CASE Covered(p, {p[1]}, data)
  <2> DEFINE e == [data[p[1]] EXCEPT ![p[2]] = v]
  <2>1. data' = [data EXCEPT ![p[1]] = e]
    BY <1>3 DEF UpdateData
  <2>2. /\ e \in Seq(Values) /\ Len(e) = Len(data[p[1]])
        /\ \A i \in 1..Len(data[p[1]]) :
             e[i] = IF i = p[2] THEN v ELSE data[p[1]][i]
    <3>1. p[2] \in 1..Len(data[p[1]])
      BY <1>1, <1>2, <1>3 DEF Covered
    <3> QED BY <1>2, <3>1, ExceptSeq
  <2> HIDE DEF e
  <2>3. /\ data' \in [Spaces -> Seq(Values)] /\ data'[p[1]] = e
        /\ \A x \in Spaces \ {p[1]} : data'[x] = data[x]
    BY <1>0, <1>1, <2>1, <2>2
  <2>4. \A s \in Spaces : Len(data'[s]) = Len(data[s])
    BY <2>2, <2>3
  <2>5. ASSUME NEW x \in Pin, Covered(x, Spaces, data')
        PROVE  /\ Covered(x, Spaces, data)
               /\ data'[x[1]][x[2]] = IF x = p THEN v ELSE data[x[1]][x[2]]
    <3>1. /\ x[1] \in Spaces /\ x[2] \in 1..Size[x[1]] /\ Size[x[1]] \in Nat
          /\ x = <<x[1], x[2]>> /\ p = <<p[1], p[2]>>
      BY PinFacts
    <3>2. Covered(x, Spaces, data)
      BY <2>4, <2>5, <3>1 DEF Covered
    <3>3. CASE x[1] = p[1]
      <4>1. x[2] \in 1..Len(data[p[1]])
        BY <1>2, <3>1, <3>2, <3>3 DEF Covered
      <4>2. x = p <=> x[2] = p[2]
        BY <3>1, <3>3
      <4> QED BY <2>2, <2>3, <3>2, <3>3, <4>1, <4>2
    <3>4. CASE x[1] # p[1]
      BY <2>3, <3>1, <3>2, <3>4
    <3> QED BY <3>3, <3>4
  <2>6. CASE listening /\ HasMemory(p[1])
    <3>1. /\ pins' = ShowPins(pins, {p[1]}, data')
          /\ staged' = ShowStaged(staged, {p[1]}, data')
      BY <1>3, <2>6 DEF UpdateData
    <3>2. /\ pins' \in [Pin -> Values \cup {Unknown}]
          /\ staged' \in [Pin -> Values \cup {Unknown}]
      BY <1>0, <2>3, <3>1, ShowTypes
    <3>3. GraphShowsCopy'
      <4> SUFFICES ASSUME NEW x \in Pin, HasMemory(x[1])', Covered(x, Spaces, data')
                   PROVE  pins'[x] = data'[x[1]][x[2]]
        BY DEF GraphShowsCopy
      <4>1. CASE x[1] = p[1]
        BY <3>1, <4>1 DEF ShowPins, Covered
      <4>2. CASE x[1] # p[1]
        <5>1. x[1] \in Spaces \ {p[1]}
          BY <4>2, PinFacts
        <5>2. HasMemory(x[1]) /\ Covered(x, Spaces, data) /\ pins'[x] = pins[x]
          BY <2>3, <3>1, <5>1 DEF HasMemory, Covered, ShowPins
        <5> QED BY <1>0, <2>3, <2>6, <5>1, <5>2 DEF GraphShowsCopy
      <4> QED BY <4>1, <4>2
    <3> QED BY <2>3, <2>4, <2>5, <3>1, <3>2, <3>3
  <2>7. CASE ~(listening /\ HasMemory(p[1]))
    <3>1. UNCHANGED <<pins, staged>>
      BY <2>7 DEF UpdateData, modelVars
    <3>2. GraphShowsCopy'
      <4> SUFFICES ASSUME NEW x \in Pin, listening', HasMemory(x[1])',
                          Covered(x, Spaces, data')
                   PROVE  pins'[x] = data'[x[1]][x[2]]
        BY DEF GraphShowsCopy
      <4>1. listening /\ HasMemory(x[1])
        BY DEF HasMemory
      <4>2. x # p
        BY <2>7, <4>1
      <4> QED BY <1>0, <2>5, <3>1, <4>1, <4>2 DEF GraphShowsCopy
    <3> QED BY <1>0, <2>3, <2>4, <2>5, <3>1, <3>2
  <2> QED BY <2>6, <2>7
<1>4. CASE ~Covered(p, {p[1]}, data)
  <2>1. UNCHANGED <<data, pins, staged>>
    BY <1>4 DEF UpdateData, modelVars
  <2>2. ~Covered(p, Spaces, data)
    BY <1>4 DEF Covered
  <2>3. GraphShowsCopy'
    BY <1>0, <2>1 DEF GraphShowsCopy, HasMemory
  <2> QED BY <1>0, <2>1, <2>2, <2>3
<1> QED BY <1>3, <1>4

LEMMA RangeFinishedInv ==
  ASSUME IInv, NEW r, NEW ok, Answered(r, ok), RangeFinished(r, ok)
  PROVE  IInv' /\ Kept
<1> DEFINE v == IF r.kind = "write" THEN r.val ELSE mem[r.at]
<1>0. /\ TypeOK /\ r = Head(queue) /\ queue # <<>> /\ queue \in Seq(Request)
      /\ written' = FALSE /\ mem' = mem
      /\ r.kind \in {"write", "range"} /\ queue' = Tail(queue)
      /\ UNCHANGED <<readState, invalid, reading, hasCdi, spacesToRead, forceRead,
                     listening, status, error>>
      /\ unsure' = IF ok THEN unsure \ {r.at}
                   ELSE IF written THEN unsure \cup {r.at} ELSE unsure
  BY DEF IInv, TypeOK, Answered, RangeFinished, Pop, loadVars
<1>1. r \in Request /\ r.at \in Pin /\ v \in Values
  BY <1>0, TailFacts, RequestFacts DEF TypeOK
<1>2. /\ ok => v = mem[r.at]
      /\ \A p \in Pin : Covered(p, Spaces, data) =>
           data[p[1]][p[2]] = mem[p] \/ p \in unsure \/ (written /\ p = r.at)
  BY <1>0 DEF IInv, FrontIsWrite, CopyIsTrue, Written, Answered
<1>3. FrontIsWrite' /\ BadSpacesUnread'
  BY <1>0 DEF IInv, FrontIsWrite, BadSpacesUnread, HasMemory
<1>4. pending' \subseteq Pin /\ unsure' \subseteq Pin
  <2>1. pending' \subseteq pending
    BY DEF RangeFinished, WriteFinished
  <2> QED BY <1>0, <1>1, <2>1 DEF TypeOK
<1>5. CASE ~ok /\ UNCHANGED <<data, pins, staged>>
  <2>1. data' \in [Spaces -> Seq(Values)]
    BY <1>0, <1>5 DEF TypeOK
  <2>2. queue' \in Seq(Request) /\ ReadsInOrder'
    BY <1>0, <1>5, <2>1, TailStillInOrder
  <2>3. TypeOK'
    BY <1>0, <1>4, <1>5, <2>1, <2>2 DEF TypeOK
  <2>4. CopyIsTrue'
    BY <1>0, <1>2, <1>5 DEF CopyIsTrue
  <2>5. GraphShowsCopy'
    BY <1>0, <1>5 DEF IInv, GraphShowsCopy, HasMemory
  <2> QED BY <1>3, <1>5, <2>2, <2>3, <2>4, <2>5 DEF IInv, Kept
<1>6. CASE ok /\ UpdateData(r.at, v)
  <2> HIDE DEF v
  <2>1. /\ data' \in [Spaces -> Seq(Values)]
        /\ \A s \in Spaces : Len(data'[s]) = Len(data[s])
        /\ \A x \in Pin : Covered(x, Spaces, data') =>
             /\ Covered(x, Spaces, data)
             /\ data'[x[1]][x[2]] = IF x = r.at THEN v ELSE data[x[1]][x[2]]
        /\ pins' \in [Pin -> Values \cup {Unknown}]
        /\ staged' \in [Pin -> Values \cup {Unknown}]
        /\ GraphShowsCopy'
        /\ staged' = staged \/ staged' = ShowStaged(staged, {r.at[1]}, data')
    <3> DEFINE p == r.at
    <3>1. p \in Pin /\ v \in Values /\ UpdateData(p, v) /\ UNCHANGED <<readState, listening>>
      BY <1>0, <1>1, <1>6
    <3>2. p = r.at
      OBVIOUS
    <3> HIDE DEF p
    <3> QED BY <3>1, <3>2, UpdateDataInv
  <2>2. queue' \in Seq(Request) /\ ReadsInOrder'
    BY <1>0, <2>1, TailStillInOrder
  <2>3. TypeOK'
    BY <1>0, <1>4, <2>1, <2>2 DEF TypeOK
  <2>4. \A p \in Pin : Covered(p, Spaces, data') =>
          data'[p[1]][p[2]] = mem[p] \/ p \in unsure'
    BY <1>0, <1>2, <1>6, <2>1
  <2>5. CopyIsTrue'
    BY <1>0, <2>4 DEF CopyIsTrue
  <2>6. Kept
    <3>1. CASE staged' = staged
      BY <3>1 DEF Kept
    <3>2. CASE staged' = ShowStaged(staged, {r.at[1]}, data')
      <4> DEFINE e == data'
                 S == {r.at[1]}
      <4>1. unsure' \subseteq unsure
        BY <1>0, <1>6
      <4>2. /\ staged' = ShowStaged(staged, S, e)
            /\ \A p \in Pin : Covered(p, Spaces, e) =>
                 e[p[1]][p[2]] = mem[p] \/ p \in unsure
        BY <2>4, <3>2, <4>1
      <4>3. S \in SUBSET Spaces
        BY <1>1, PinFacts
      <4> HIDE DEF e, S
      <4> QED BY <1>0, <4>2, <4>3, KeptByShow
    <3> QED BY <2>1, <3>1, <3>2
  <2> QED BY <1>3, <2>1, <2>2, <2>3, <2>5, <2>6 DEF IInv
<1> QED BY <1>0, <1>5, <1>6 DEF RangeFinished, modelVars

LEMMA UpdateCompleteFinishedInv ==
  ASSUME IInv, NEW r, NEW ok, Answered(r, ok), UpdateCompleteFinished(r, ok)
  PROVE  IInv' /\ Kept
<1>0. /\ TypeOK /\ r = Head(queue) /\ queue # <<>> /\ r.kind = "update"
      /\ written' = FALSE /\ mem' = mem /\ queue' = Tail(queue)
      /\ UNCHANGED <<data, readState, invalid, pins, staged, reading, hasCdi,
                     spacesToRead, forceRead, listening, status, error, pending, unsure>>
  BY DEF IInv, Answered, UpdateCompleteFinished, Pop, memoryVars, modelVars, loadVars
<1>1. queue' \in Seq(Request) /\ ReadsInOrder'
  <2>1. data' \in [Spaces -> Seq(Values)]
    BY <1>0 DEF TypeOK
  <2> QED BY <1>0, <2>1, TailStillInOrder
<1>2. TypeOK'
  BY <1>0, <1>1 DEF TypeOK
<1>3. \A p \in Pin : Covered(p, Spaces, data) =>
        data[p[1]][p[2]] = mem[p] \/ p \in unsure
  BY <1>0, CopiesTrue
<1>4. FrontIsWrite' /\ CopyIsTrue'
  BY <1>0, <1>3 DEF FrontIsWrite, CopyIsTrue
<1>5. BadSpacesUnread' /\ GraphShowsCopy'
  BY <1>0 DEF IInv, BadSpacesUnread, GraphShowsCopy, HasMemory
<1> QED BY <1>0, <1>1, <1>2, <1>4, <1>5 DEF IInv, Kept

LEMMA CdiAnsweredInv ==
  ASSUME IInv, NEW r, NEW ok, Answered(r, ok), CdiAnswered(r, ok)
  PROVE  IInv' /\ Kept
<1>0. /\ TypeOK /\ ReadsInOrder /\ r = Head(queue) /\ queue # <<>>
      /\ queue \in Seq(Request) /\ r.kind = "cdi" /\ ok \in BOOLEAN
      /\ written' = FALSE /\ mem' = mem /\ reading' = FALSE
      /\ hasCdi' = (hasCdi \/ ok) /\ UNCHANGED <<pending, unsure>>
  BY DEF IInv, TypeOK, Answered, CdiAnswered
<1>1. hasCdi' \in BOOLEAN /\ reading' \in BOOLEAN
  BY <1>0 DEF TypeOK
<1>2. \A p \in Pin : Covered(p, Spaces, data) =>
        data[p[1]][p[2]] = mem[p] \/ p \in unsure
  BY <1>0, CopiesTrue
<1>3. CASE ReadEventIds(Tail(queue), FALSE)
  <2> DEFINE rest == Tail(queue)
  <2>1. rest \in Seq(Request) /\ Lined(rest, readState, data)
    BY <1>0, TailFacts, TailLined
  <2>2. ReadEventIds(rest, FALSE) /\ UNCHANGED <<mem, unsure>>
    BY <1>0, <1>3
  <2> HIDE DEF rest
  <2>3. /\ queue' \in Seq(Request)
        /\ data' \in [Spaces -> Seq(Values)]
        /\ readState' \in [Spaces -> {"Not_Read_Yet", "Read_Space_Info",
                                      "Reading_Memory", "Memory_Complete"}]
        /\ invalid' \subseteq BadSpaces
        /\ pins' \in [Pin -> Values \cup {Unknown}]
        /\ staged' \in [Pin -> Values \cup {Unknown}]
        /\ spacesToRead' \subseteq Spaces
        /\ forceRead' \in BOOLEAN /\ listening' \in BOOLEAN /\ error' \in BOOLEAN
        /\ status' \in {"WaitingForInfo", "ReadingCdi", "ReadingMemory", "Ready",
                        "Failed"}
        /\ ReadsInOrder' /\ BadSpacesUnread' /\ GraphShowsCopy'
        /\ \A p \in Pin : Covered(p, Spaces, data') =>
             Covered(p, Spaces, data) /\ data'[p[1]][p[2]] = data[p[1]][p[2]]
        /\ \E S \in SUBSET Spaces : staged' = ShowStaged(staged, S, data)
    BY <2>1, <2>2, ReadEventIdsInv
  <2>4. TypeOK'
    BY <1>0, <1>1, <2>3 DEF TypeOK
  <2>5. FrontIsWrite' /\ CopyIsTrue'
    BY <1>0, <1>2, <2>3 DEF FrontIsWrite, CopyIsTrue
  <2>6. Kept
    BY <1>0, <1>2, <2>3, KeptByShow
  <2> QED BY <2>3, <2>4, <2>5, <2>6 DEF IInv
<1>4. CASE /\ queue' = Tail(queue)
           /\ UNCHANGED <<memoryVars, modelVars, spacesToRead, forceRead, listening>>
           /\ status' \in {"Failed", status} /\ error' \in {TRUE, error}
  <2>1. UNCHANGED <<data, readState, invalid, pins, staged, spacesToRead, forceRead,
                    listening>>
    BY <1>4 DEF memoryVars, modelVars
  <2>2. queue' \in Seq(Request) /\ ReadsInOrder'
    <3>1. data' \in [Spaces -> Seq(Values)]
      BY <1>0, <2>1 DEF TypeOK
    <3> QED BY <1>0, <1>4, <2>1, <3>1, TailStillInOrder
  <2>3. TypeOK'
    BY <1>0, <1>1, <1>4, <2>1, <2>2 DEF TypeOK
  <2>4. FrontIsWrite' /\ CopyIsTrue'
    BY <1>0, <1>2, <2>1 DEF FrontIsWrite, CopyIsTrue
  <2>5. BadSpacesUnread' /\ GraphShowsCopy'
    BY <2>1 DEF IInv, BadSpacesUnread, GraphShowsCopy, HasMemory
  <2> QED BY <2>1, <2>2, <2>3, <2>4, <2>5 DEF IInv, Kept
<1> QED BY <1>3, <1>4 DEF CdiAnswered, Pop

\* Every reply keeps the invariant, and the changes that it must not take away.
LEMMA AnswerInv == IInv /\ Answer => IInv' /\ Kept
<1> SUFFICES ASSUME IInv, Answer PROVE IInv' /\ Kept
  OBVIOUS
<1> DEFINE r == Head(queue)
<1>1. PICK ok \in BOOLEAN :
        /\ (ok /\ r.kind = "write") => written
        /\ \/ CdiAnswered(r, ok)
           \/ AddressSpaceFinished(r, ok)
           \/ AddressSpaceRead(r, ok)
           \/ RangeFinished(r, ok)
           \/ UpdateCompleteFinished(r, ok)
  BY DEF Answer
<1>2. Answered(r, ok)
  BY <1>1 DEF Answer, Answered
<1> HIDE DEF r
<1> QED BY <1>1, <1>2, CdiAnsweredInv, AddressSpaceFinishedInv, AddressSpaceReadInv,
        RangeFinishedInv, UpdateCompleteFinishedInv

-----------------------------------------------------------------------------
(***************************************************************************)
(* The invariant.                                                          *)
(***************************************************************************)

LEMMA InitInv == Init => IInv
<1> SUFFICES ASSUME Init PROVE IInv
  OBVIOUS
<1>1. /\ mem \in [Pin -> Values] /\ queue = <<>> /\ written = FALSE
      /\ data = [s \in Spaces |-> <<>>]
      /\ readState = [s \in Spaces |-> "Not_Read_Yet"]
      /\ invalid = {} /\ reading = FALSE /\ hasCdi = FALSE
      /\ pins = [p \in Pin |-> Unknown] /\ staged = [p \in Pin |-> Unknown]
      /\ pending = {} /\ spacesToRead = {} /\ forceRead = FALSE /\ listening = FALSE
      /\ status = "WaitingForInfo" /\ error = FALSE /\ unsure = {}
  BY DEF Init
<1>2. TypeOK
  <2>1. <<>> \in Seq(Request) /\ <<>> \in Seq(Values)
    BY EmptySeq
  <2>2. data \in [Spaces -> Seq(Values)]
    BY <1>1, <2>1
  <2> QED BY <1>1, <2>1, <2>2 DEF TypeOK
<1>3. ReadsInOrder
  <2>1. DOMAIN queue = {}
    BY <1>1
  <2> QED BY <2>1 DEF ReadsInOrder, Lined, OneReader
<1>4. FrontIsWrite /\ BadSpacesUnread /\ GraphShowsCopy
  BY <1>1 DEF FrontIsWrite, BadSpacesUnread, GraphShowsCopy, HasMemory
<1>5. CopyIsTrue
  <2> SUFFICES ASSUME NEW p \in Pin, Covered(p, Spaces, data) PROVE FALSE
    BY DEF CopyIsTrue
  <2>1. p[1] \in Spaces /\ p[2] \in 1..Size[p[1]] /\ Size[p[1]] \in Nat
    BY PinFacts
  <2>2. Len(data[p[1]]) = 0
    BY <1>1, <2>1, EmptySeq
  <2> QED BY <2>1, <2>2 DEF Covered
<1> QED BY <1>2, <1>3, <1>4, <1>5 DEF IInv

LEMMA NextInv == IInv /\ [Next]_vars => IInv'
<1> SUFFICES ASSUME IInv, [Next]_vars PROVE IInv'
  OBVIOUS
<1>1. CASE NodeKnown
  BY <1>1, NodeKnownInv
<1>2. CASE ReloadNode \/ OtherReadsCdi
  BY <1>2, CdiInv
<1>3. CASE \/ \E p \in Pin, v \in Values : Stage(p, v)
           \/ \E p \in Pin : Unstage(p)
           \/ DiscardChanges
  BY <1>3, StagingInv
<1>4. CASE \/ \E p \in Fields, v \in Values : OtherWrites(p, v)
           \/ \E p \in Fields : OtherReads(p)
  BY <1>4, OtherInv
<1>5. CASE ApplyChanges
  BY <1>5, ApplyChangesInv
<1>6. CASE \E s \in Spaces : OtherReadsAll(s)
  BY <1>6, OtherReadsAllInv
<1>7. CASE NodeWrites
  BY <1>7, NodeWritesInv
<1>8. CASE Answer
  BY <1>8, AnswerInv
<1>9. CASE UNCHANGED vars
  <2>1. UNCHANGED <<mem, queue, written, data, readState, invalid, reading, hasCdi, pins,
                    staged, pending, spacesToRead, forceRead, listening, status, error,
                    unsure>>
    BY <1>9 DEF vars
  <2>2. TypeOK'
    BY <2>1 DEF IInv, TypeOK
  <2> QED BY <2>1, <2>2, NothingMade DEF IInv
<1> QED BY <1>1, <1>2, <1>3, <1>4, <1>5, <1>6, <1>7, <1>8, <1>9 DEF Next

\* The invariant that the properties below rest on: the reads of a space go one
\* block after the other, so that a copy is only ever extended by what it lacks.
THEOREM Invariance == Spec => []IInv
<1>1. Init => IInv
  BY InitInv
<1>2. IInv /\ [Next]_vars => IInv'
  BY NextInv
<1> QED BY <1>1, <1>2, PTL DEF Spec

\* The state keeps its type, whatever the node, the user and the editor do.
THEOREM TypeCorrect == Spec => []TypeOK
<1>1. IInv => TypeOK
  BY DEF IInv
<1> QED BY <1>1, Invariance, PTL

\* The copy of the memory (SegmentMemory) is what the node has.
THEOREM CopyTrue == Spec => []CopyIsTrue
<1>1. IInv => CopyIsTrue
  BY DEF IInv
<1> QED BY <1>1, Invariance, PTL

\* The graph shows the copy that it shares with the CDI editor.
THEOREM GraphShows == Spec => []GraphShowsCopy
<1>1. IInv => GraphShowsCopy
  BY DEF IInv
<1> QED BY <1>1, Invariance, PTL

\* An event ID that the graph shows is what the node has.
THEOREM GraphTrue == Spec => []GraphIsTrue
<1>1. IInv => GraphIsTrue
  BY DEF IInv, CopyIsTrue, GraphShowsCopy, GraphIsTrue
<1> QED BY <1>1, Invariance, PTL

\* A reply takes a staged change away only if the node has it.
THEOREM ChangesKept == Spec => ChangesAreKept
<1>1. IInv /\ [Next]_vars =>
        [Answer => \A p \in Pin :
           staged[p] # Unknown /\ staged'[p] # staged[p] =>
             staged[p] = mem[p] \/ p \in unsure]_vars
  BY AnswerInv DEF Kept
<1> QED BY <1>1, Invariance, PTL DEF Spec, ChangesAreKept

-----------------------------------------------------------------------------
(***************************************************************************)
(* Writes take effect.                                                     *)
(***************************************************************************)

\* Behind every write of q there is an update complete.
Effect(q) ==
  \A i \in DOMAIN q : q[i].kind = "write" =>
    \E j \in DOMAIN q : j > i /\ q[j].kind = "update"

LEMMA EffectJoined ==
  ASSUME NEW q \in Seq(Request), NEW hs \in Seq(Request), Effect(q), Effect(hs)
  PROVE  Effect(q \o hs)
<1> DEFINE j == q \o hs
           m == Len(q)
           n == Len(hs)
<1>1. m \in Nat /\ n \in Nat /\ DOMAIN q = 1..m /\ DOMAIN hs = 1..n
  BY LenProperties
<1>2. /\ j \in Seq(Request) /\ Len(j) = m + n
      /\ \A i \in 1..(m + n) : j[i] = IF i <= m THEN q[i] ELSE hs[i - m]
  BY ConcatProperties
<1>3. DOMAIN j = 1..(m + n)
  BY <1>2, LenProperties
<1> HIDE DEF j, m, n
<1>4. ASSUME NEW i \in DOMAIN j, j[i].kind = "write"
      PROVE  \E k \in DOMAIN j : k > i /\ j[k].kind = "update"
  <2>1. CASE i <= m
    <3>1. i \in DOMAIN q /\ j[i] = q[i]
      BY <1>1, <1>2, <1>3, <2>1
    <3>2. PICK k \in DOMAIN q : k > i /\ q[k].kind = "update"
      BY <1>4, <3>1 DEF Effect
    <3>3. k \in DOMAIN j /\ j[k] = q[k]
      BY <1>1, <1>2, <1>3
    <3> QED BY <3>2, <3>3
  <2>2. CASE ~(i <= m)
    <3>1. (i - m) \in DOMAIN hs /\ j[i] = hs[i - m]
      BY <1>1, <1>2, <1>3, <2>2
    <3>2. PICK k \in DOMAIN hs : k > i - m /\ hs[k].kind = "update"
      BY <1>4, <3>1 DEF Effect
    <3>3. (k + m) \in DOMAIN j /\ j[k + m] = hs[k] /\ k + m > i
      BY <1>1, <1>2, <1>3, <3>2
    <3> QED BY <3>2, <3>3
  <2> QED BY <2>1, <2>2
<1> QED BY <1>4 DEF Effect, j

\* Requests of which none is a write.
NoWrites(rs) == \A i \in 1..Len(rs) : rs[i].kind # "write"

LEMMA EffectWithoutWrites ==
  ASSUME NEW rs \in Seq(Request), NoWrites(rs) PROVE Effect(rs)
<1>1. DOMAIN rs = 1..Len(rs)
  BY LenProperties
<1> QED BY <1>1 DEF Effect, NoWrites

\* Whatever the connection refuses of some requests, it refuses the first.
LEMMA EffectSubmitted ==
  ASSUME queue \in Seq(Request), NEW rs \in Seq(Request), Effect(queue), Effect(rs),
         Submit(rs)
  PROVE  Effect(queue')
<1>1. PICK hs \in Heard(rs, queue = <<>>) : queue' = queue \o hs
  BY DEF Submit
<1> DEFINE k == Len(rs) - Len(hs)
<1>2. /\ hs \in Seq(Request) /\ Len(hs) \in Nat /\ Len(rs) \in Nat /\ Len(hs) <= Len(rs)
      /\ \A i \in 1..Len(hs) : hs[i] = rs[i + k]
  BY HeardFacts
<1>3. DOMAIN hs = 1..Len(hs) /\ DOMAIN rs = 1..Len(rs) /\ k \in Nat
  BY <1>2, LenProperties
<1>4. ASSUME NEW i \in DOMAIN hs, hs[i].kind = "write"
      PROVE  \E j \in DOMAIN hs : j > i /\ hs[j].kind = "update"
  <2>1. (i + k) \in DOMAIN rs /\ hs[i] = rs[i + k]
    BY <1>2, <1>3
  <2>2. PICK j \in DOMAIN rs : j > i + k /\ rs[j].kind = "update"
    BY <1>4, <2>1 DEF Effect
  <2>3. (j - k) \in DOMAIN hs /\ j - k > i
    BY <1>2, <1>3, <2>2
  <2>4. hs[j - k] = rs[j]
    BY <1>2, <1>3, <2>3
  <2> QED BY <2>2, <2>3, <2>4
<1>5. Effect(hs)
  BY <1>4 DEF Effect
<1> QED BY <1>1, <1>2, <1>5, EffectJoined

\* The front is answered.
LEMMA EffectAnswered ==
  ASSUME queue \in Seq(Request), queue # <<>>, Effect(queue)
  PROVE  Tail(queue) \in Seq(Request) /\ Effect(Tail(queue))
<1> DEFINE t == Tail(queue)
<1>1. /\ t \in Seq(Request) /\ Len(queue) \in Nat
      /\ DOMAIN queue = 1..Len(queue) /\ DOMAIN t = 1..(Len(queue) - 1)
      /\ \A i \in DOMAIN t : t[i] = queue[i + 1]
  BY TailFacts, LenProperties
<1> HIDE DEF t
<1>2. ASSUME NEW i \in DOMAIN t, t[i].kind = "write"
      PROVE  \E j \in DOMAIN t : j > i /\ t[j].kind = "update"
  <2>1. (i + 1) \in DOMAIN queue /\ queue[i + 1] = t[i]
    BY <1>1
  <2>2. PICK j \in DOMAIN queue : j > i + 1 /\ queue[j].kind = "update"
    BY <1>2, <2>1 DEF Effect
  <2>3. (j - 1) \in DOMAIN t /\ j - 1 > i
    BY <1>1, <2>2
  <2>4. t[j - 1] = queue[j]
    <3>1. t[j - 1] = queue[(j - 1) + 1] /\ (j - 1) + 1 = j
      BY <1>1, <2>2, <2>3
    <3> QED BY <3>1
  <2> QED BY <2>2, <2>3, <2>4
<1>3. Effect(t)
  BY <1>2 DEF Effect
<1> QED BY <1>1, <1>3 DEF t

\* The next block is asked for.
LEMMA EffectAppended ==
  ASSUME NEW q \in Seq(Request), Effect(q), NEW p
  PROVE  Effect(Append(q, Ask("read", p)))
<1> DEFINE x == Ask("read", p)
           S == Request \cup {x}
           a == Append(q, x)
<1>1. x.kind = "read"
  BY DEF Ask
<1>2. Len(q) \in Nat /\ DOMAIN q = 1..Len(q) /\ \A i \in 1..Len(q) : q[i] \in Request
  BY LenProperties, ElementOfSeq
<1> HIDE DEF x
<1>3. q \in Seq(S)
  <2>1. q \in [1..Len(q) -> Request]
    BY <1>2, LenProperties
  <2>2. q \in [1..Len(q) -> S]
    BY <2>1
  <2> QED BY <1>2, <2>2, SeqDef
<1>4. /\ a \in Seq(S) /\ Len(a) = Len(q) + 1
      /\ \A i \in 1..Len(q) : a[i] = q[i]
      /\ a[Len(q) + 1] = x
  <2>1. x \in S
    OBVIOUS
  <2> HIDE DEF S
  <2> QED BY <1>3, <2>1, AppendProperties
<1>5. DOMAIN a = 1..(Len(q) + 1)
  BY <1>4, LenProperties
<1> HIDE DEF a, S
<1>6. ASSUME NEW i \in DOMAIN a, a[i].kind = "write"
      PROVE  \E j \in DOMAIN a : j > i /\ a[j].kind = "update"
  <2>1. i \in DOMAIN q /\ a[i] = q[i]
    BY <1>1, <1>2, <1>4, <1>5, <1>6
  <2>2. PICK j \in DOMAIN q : j > i /\ q[j].kind = "update"
    BY <1>6, <2>1 DEF Effect
  <2>3. j \in DOMAIN a /\ a[j] = q[j]
    BY <1>2, <1>4, <1>5
  <2> QED BY <2>2, <2>3
<1> QED BY <1>6 DEF Effect, a, x

LEMMA EffectInv == IInv /\ WritesTakeEffect /\ [Next]_vars => WritesTakeEffect'
<1> SUFFICES ASSUME IInv, Effect(queue), [Next]_vars PROVE Effect(queue')
  BY DEF WritesTakeEffect, Effect
<1>0. TypeOK /\ ReadsInOrder /\ queue \in Seq(Request)
  BY DEF IInv, TypeOK
<1>1. ASSUME ReadCdi PROVE Effect(queue')
  <2>1. CASE Submit(<<Ask("cdi", NoPin)>>)
    <3> DEFINE rs == <<Ask("cdi", NoPin)>>
    <3>1. rs \in Seq(Request) /\ NoWrites(rs)
      BY RequestFacts DEF Ask, NoWrites
    <3>2. Submit(rs)
      BY <2>1
    <3> HIDE DEF rs
    <3> QED BY <1>0, <3>1, <3>2, EffectWithoutWrites, EffectSubmitted
  <2> QED BY <1>1, <2>1 DEF ReadCdi
<1>2. CASE NodeKnown
  <2>1. CASE ReadEventIds(queue, queue = <<>>)
    <3>1. UNCHANGED <<mem, unsure>>
      BY <1>2 DEF NodeKnown, connVars
    <3>2. PICK hs \in Seq(Request) : /\ queue' = queue \o hs
                                     /\ \A i \in 1..Len(hs) : hs[i].kind = "info"
      BY <1>0, <2>1, <3>1, ReadEventIdsInv DEF ReadsInOrder
    <3>3. NoWrites(hs)
      BY <3>2 DEF NoWrites
    <3> QED BY <1>0, <3>2, <3>3, EffectWithoutWrites, EffectJoined
  <2> QED BY <1>1, <1>2, <2>1 DEF NodeKnown
<1>3. CASE ReloadNode \/ OtherReadsCdi
  BY <1>1, <1>3 DEF ReloadNode, OtherReadsCdi
<1>4. CASE ApplyChanges
  <2>1. PICK order \in Orders(ToWrite) :
          Submit(WritesAndUpdate(
            [i \in DOMAIN order |-> Write(order[i], staged[order[i]], TRUE)]))
    BY <1>4 DEF ApplyChanges
  <2> DEFINE n == Cardinality(ToWrite)
             rs == WritesAndUpdate(
                     [i \in DOMAIN order |-> Write(order[i], staged[order[i]], TRUE)])
  <2>2. /\ n \in Nat /\ rs \in Seq(Request) /\ Len(rs) = n + 1
        /\ \A i \in 1..n : /\ rs[i] = Write(order[i], staged[order[i]], TRUE)
                           /\ rs[i].kind = "write" /\ rs[i].at = order[i]
                           /\ rs[i].graph
        /\ rs[n + 1] = Ask("update", NoPin)
    BY ZenonT(60), <1>0, WritesFacts
  <2>3. Submit(rs)
    BY <2>1
  <2> HIDE DEF n, rs
  <2>4. Effect(rs)
    <3>1. DOMAIN rs = 1..(n + 1) /\ (n + 1) \in DOMAIN rs
      BY <2>2, LenProperties
    <3>2. rs[n + 1].kind = "update"
      BY <2>2 DEF Ask
    <3>3. ASSUME NEW i \in DOMAIN rs, rs[i].kind = "write"
          PROVE  n + 1 > i
      BY <2>2, <3>1, <3>2, <3>3
    <3> QED BY <3>1, <3>2, <3>3 DEF Effect
  <2> QED BY <1>0, <2>2, <2>3, <2>4, EffectSubmitted
<1>5. ASSUME NEW p \in Fields, NEW v \in Values, OtherWrites(p, v)
      PROVE  Effect(queue')
  <2> DEFINE rs == WritesAndUpdate(<<Write(p, v, FALSE)>>)
  <2>1. /\ rs \in Seq(Request) /\ Len(rs) = 2
        /\ rs[1] = Write(p, v, FALSE) /\ rs[2] = Ask("update", NoPin)
    BY OtherWriteFacts
  <2>2. Submit(rs)
    BY <1>5 DEF OtherWrites
  <2> HIDE DEF rs
  <2>3. Effect(rs)
    <3>1. DOMAIN rs = 1..2
      BY <2>1, LenProperties
    <3> QED BY <2>1, <3>1 DEF Effect, Ask
  <2> QED BY <1>0, <2>1, <2>2, <2>3, EffectSubmitted
<1>6. ASSUME NEW p \in Fields, OtherReads(p)
      PROVE  Effect(queue')
  <2> DEFINE rs == <<Ask("range", p)>>
  <2>1. rs \in Seq(Request) /\ NoWrites(rs)
    <3>1. Ask("range", p) \in Request /\ Ask("range", p).kind = "range"
      BY RequestFacts DEF Ask
    <3> QED BY <3>1 DEF NoWrites
  <2>2. Submit(rs)
    BY <1>6 DEF OtherReads
  <2> HIDE DEF rs
  <2> QED BY <1>0, <2>1, <2>2, EffectWithoutWrites, EffectSubmitted
<1>7. ASSUME NEW s \in Spaces, OtherReadsAll(s)
      PROVE  Effect(queue')
  <2>1. CASE Submit(<<Ask("info", s)>>)
    <3> DEFINE rs == <<Ask("info", s)>>
    <3>1. rs \in Seq(Request) /\ NoWrites(rs)
      <4>1. Ask("info", s) \in Request /\ Ask("info", s).kind = "info"
        BY RequestFacts DEF Ask
      <4> QED BY <4>1 DEF NoWrites
    <3>2. Submit(rs)
      BY <2>1
    <3> HIDE DEF rs
    <3> QED BY <1>0, <3>1, <3>2, EffectWithoutWrites, EffectSubmitted
  <2> QED BY <1>7, <2>1 DEF OtherReadsAll
<1>8. CASE Answer
  <2>1. queue # <<>> /\ Tail(queue) \in Seq(Request) /\ Effect(Tail(queue))
    BY <1>0, <1>8, EffectAnswered DEF Answer
  <2>2. PICK ok \in BOOLEAN :
          LET r == Head(queue) IN
          /\ (ok /\ r.kind = "write") => written
          /\ \/ CdiAnswered(r, ok)
             \/ AddressSpaceFinished(r, ok)
             \/ AddressSpaceRead(r, ok)
             \/ RangeFinished(r, ok)
             \/ UpdateCompleteFinished(r, ok)
    BY <1>8 DEF Answer
  <2> DEFINE r == Head(queue)
  <2>3. ASSUME NEW s, NEW d, NEW last, ReadNextBlock(s, d, last) PROVE Effect(queue')
    BY <2>1, <2>3, EffectAppended DEF ReadNextBlock, Pop
  <2>4. ASSUME NEW s, ReadFails(s) PROVE Effect(queue')
    BY <2>1, <2>4 DEF ReadFails, Pop
  <2>5. CASE CdiAnswered(r, ok)
    <3>1. CASE ReadEventIds(Tail(queue), FALSE)
      <4> DEFINE t == Tail(queue)
      <4>1. t \in Seq(Request) /\ Effect(t) /\ Lined(t, readState, data)
        BY <1>0, <2>1, TailLined
      <4>2. ReadEventIds(t, FALSE) /\ UNCHANGED <<mem, unsure>>
        BY <1>8, <2>5, <3>1 DEF Answer, CdiAnswered
      <4> HIDE DEF t
      <4>3. PICK hs \in Seq(Request) : /\ queue' = t \o hs
                                       /\ \A i \in 1..Len(hs) : hs[i].kind = "info"
        BY <4>1, <4>2, ReadEventIdsInv
      <4>4. NoWrites(hs)
        BY <4>3 DEF NoWrites
      <4> QED BY <4>1, <4>3, <4>4, EffectWithoutWrites, EffectJoined
    <3> QED BY <2>1, <2>5, <3>1 DEF CdiAnswered, Pop
  <2>6. CASE AddressSpaceFinished(r, ok)
    BY <2>3, <2>4, <2>6 DEF AddressSpaceFinished
  <2>7. CASE AddressSpaceRead(r, ok)
    BY <2>3, <2>4, <2>7 DEF AddressSpaceRead
  <2>8. CASE RangeFinished(r, ok) \/ UpdateCompleteFinished(r, ok)
    BY <2>1, <2>8 DEF RangeFinished, UpdateCompleteFinished, Pop
  <2> QED BY <2>2, <2>5, <2>6, <2>7, <2>8
<1> QED BY <1>2, <1>3, <1>4, <1>5, <1>6, <1>7, <1>8
        DEF Next, Stage, Unstage, DiscardChanges, NodeWrites, vars

\* Behind every write there is an update complete, so the node uses what is
\* written, also when the connection refuses a part of what was asked.
THEOREM TakesEffect == Spec => []WritesTakeEffect
<1>1. Init => WritesTakeEffect
  <2>1. ASSUME Init PROVE DOMAIN queue = {}
    BY <2>1 DEF Init
  <2> QED BY <2>1 DEF WritesTakeEffect
<1> QED BY <1>1, EffectInv, Invariance, PTL DEF Spec

-----------------------------------------------------------------------------
(***************************************************************************)
(* What is pending stays in the queue, also when requests are refused.     *)
(***************************************************************************)

\* Before the signals are connected the graph shows nothing and changes nothing.
Deaf == ~listening => pending = {} /\ \A p \in Pin : pins[p] = Unknown /\ staged[p] = Unknown

LEMMA QueuedJoined ==
  ASSUME NEW q \in Seq(Request), NEW hs \in Seq(Request), NEW p,
         Queued(p, q) \/ Queued(p, hs)
  PROVE  Queued(p, q \o hs)
<1> DEFINE j == q \o hs
           m == Len(q)
           n == Len(hs)
<1>1. m \in Nat /\ n \in Nat /\ DOMAIN q = 1..m /\ DOMAIN hs = 1..n
  BY LenProperties
<1>2. /\ j \in Seq(Request) /\ Len(j) = m + n
      /\ \A i \in 1..(m + n) : j[i] = IF i <= m THEN q[i] ELSE hs[i - m]
  BY ConcatProperties
<1>3. DOMAIN j = 1..(m + n)
  BY <1>2, LenProperties
<1> HIDE DEF j, m, n
<1>4. CASE Queued(p, q)
  <2>1. PICK i \in DOMAIN q : q[i].kind = "write" /\ q[i].at = p /\ q[i].graph
    BY <1>4 DEF Queued
  <2>2. i \in DOMAIN j /\ j[i] = q[i]
    BY <1>1, <1>2, <1>3
  <2> QED BY <2>1, <2>2 DEF Queued, j
<1>5. CASE Queued(p, hs)
  <2>1. PICK i \in DOMAIN hs : hs[i].kind = "write" /\ hs[i].at = p /\ hs[i].graph
    BY <1>5 DEF Queued
  <2>2. (i + m) \in DOMAIN j /\ j[i + m] = hs[(i + m) - m] /\ (i + m) - m = i
    BY <1>1, <1>2, <1>3
  <2> QED BY <2>1, <2>2 DEF Queued, j
<1> QED BY <1>4, <1>5

\* The front is answered: the writes of other pins are still in the queue.
LEMMA QueuedBehind ==
  ASSUME queue \in Seq(Request), queue # <<>>, NEW p, Queued(p, queue),
         ~(Head(queue).kind = "write" /\ Head(queue).at = p)
  PROVE  Queued(p, Tail(queue))
<1> DEFINE t == Tail(queue)
<1>1. /\ Len(queue) \in Nat /\ Head(queue) = queue[1]
      /\ DOMAIN queue = 1..Len(queue) /\ DOMAIN t = 1..(Len(queue) - 1)
      /\ \A i \in DOMAIN t : t[i] = queue[i + 1]
  BY TailFacts, LenProperties
<1> HIDE DEF t
<1>2. PICK i \in DOMAIN queue :
        queue[i].kind = "write" /\ queue[i].at = p /\ queue[i].graph
  BY DEF Queued
<1>3. i # 1
  BY <1>1, <1>2
<1>4. (i - 1) \in DOMAIN t /\ t[i - 1] = queue[(i - 1) + 1] /\ (i - 1) + 1 = i
  BY <1>1, <1>2, <1>3
<1> QED BY <1>2, <1>4 DEF Queued, t

\* The next block is asked for: what was in the queue still is.
LEMMA QueuedAppended ==
  ASSUME NEW q \in Seq(Request), NEW p, Queued(p, q), NEW x
  PROVE  Queued(p, Append(q, x))
<1> DEFINE S == Request \cup {x}
           a == Append(q, x)
<1>1. Len(q) \in Nat /\ DOMAIN q = 1..Len(q) /\ \A i \in 1..Len(q) : q[i] \in Request
  BY LenProperties, ElementOfSeq
<1>2. q \in Seq(S)
  <2>1. q \in [1..Len(q) -> Request]
    BY <1>1, LenProperties
  <2>2. q \in [1..Len(q) -> S]
    BY <2>1
  <2> QED BY <1>1, <2>2, SeqDef
<1>3. a \in Seq(S) /\ Len(a) = Len(q) + 1 /\ \A i \in 1..Len(q) : a[i] = q[i]
  <2>1. x \in S
    OBVIOUS
  <2> HIDE DEF S
  <2> QED BY <1>2, <2>1, AppendProperties
<1>4. DOMAIN a = 1..(Len(q) + 1)
  BY <1>3, LenProperties
<1> HIDE DEF a, S
<1>5. PICK i \in DOMAIN q : q[i].kind = "write" /\ q[i].at = p /\ q[i].graph
  BY DEF Queued
<1>6. i \in DOMAIN a /\ a[i] = q[i]
  BY <1>1, <1>3, <1>4
<1> QED BY <1>5, <1>6 DEF Queued, a

\* Making requests leaves what is in the queue, and on a busy connection they join it.
LEMMA QueuedSubmitted ==
  ASSUME queue \in Seq(Request), NEW rs \in Seq(Request), Submit(rs), NEW p,
         Queued(p, queue) \/ (queue # <<>> /\ Queued(p, rs))
  PROVE  Queued(p, queue')
<1>1. PICK hs \in Heard(rs, queue = <<>>) : queue' = queue \o hs
  BY DEF Submit
<1>2. hs \in Seq(Request)
  BY HeardFacts
<1>3. queue # <<>> => hs = rs
  BY DEF Heard
<1> QED BY <1>1, <1>2, <1>3, QueuedJoined

LEMMA DeafInv == IInv /\ Deaf /\ [Next]_vars => Deaf'
<1> SUFFICES ASSUME IInv, Deaf, [Next]_vars, ~listening'
             PROVE  pending' = {} /\ \A p \in Pin : pins'[p] = Unknown /\ staged'[p] = Unknown
  BY DEF Deaf
<1> DEFINE Still == UNCHANGED <<pins, staged, pending, listening>>
<1>0. Still => pending' = {} /\ \A p \in Pin : pins'[p] = Unknown /\ staged'[p] = Unknown
  BY DEF Deaf
<1>1. CASE NodeKnown
  <2>1. ~ReadEventIds(queue, queue = <<>>)
    BY DEF ReadEventIds
  <2>2. Still
    BY <1>1, <2>1 DEF NodeKnown, modelVars
  <2> QED BY <1>0, <2>2
<1>2. CASE ReloadNode \/ OtherReadsCdi
  BY <1>0, <1>2 DEF ReloadNode, OtherReadsCdi, modelVars
<1>3. CASE \/ \E p \in Pin, v \in Values : Stage(p, v)
           \/ \E p \in Pin : Unstage(p)
           \/ DiscardChanges
  <2>1. UNCHANGED listening
    BY <1>3 DEF Stage, Unstage, DiscardChanges, loadVars
  <2> QED BY <1>3, <2>1 DEF Deaf, Stage, Unstage, DiscardChanges
<1>4. CASE \/ \E p \in Fields, v \in Values : OtherWrites(p, v)
           \/ \E p \in Fields : OtherReads(p)
  BY <1>0, <1>4 DEF OtherWrites, OtherReads, modelVars, loadVars
<1>5. CASE ApplyChanges
  <2>1. UNCHANGED listening /\ ToWrite # {}
    BY <1>5 DEF ApplyChanges, loadVars
  <2>2. PICK p \in Pin : staged[p] # Unknown
    BY <2>1 DEF ToWrite
  <2> QED BY <2>1, <2>2 DEF Deaf
<1>6. CASE \E s \in Spaces : OtherReadsAll(s)
  BY <1>0, <1>6 DEF OtherReadsAll, modelVars
<1>7. CASE NodeWrites
  BY <1>0, <1>7 DEF NodeWrites, modelVars, loadVars
<1>8. CASE Answer
  <2>1. PICK ok \in BOOLEAN :
          LET r == Head(queue) IN
          \/ CdiAnswered(r, ok)
          \/ AddressSpaceFinished(r, ok)
          \/ AddressSpaceRead(r, ok)
          \/ RangeFinished(r, ok)
          \/ UpdateCompleteFinished(r, ok)
    BY <1>8 DEF Answer
  <2> DEFINE r == Head(queue)
  <2>2. CASE CdiAnswered(r, ok)
    <3>1. ~ReadEventIds(Tail(queue), FALSE)
      BY DEF ReadEventIds
    <3> QED BY <1>0, <2>2, <3>1 DEF CdiAnswered, modelVars
  <2>3. ASSUME NEW s, UNCHANGED <<listening, pending>>,
               ReadFails(s) \/ \E d, last : ReadNextBlock(s, d, last)
        PROVE  Still
    <3>1. ~listening
      BY <2>3
    <3> QED BY <2>3, <3>1 DEF ReadFails, ReadNextBlock, modelVars
  <2>4. CASE AddressSpaceFinished(r, ok)
    <3>1. UNCHANGED <<listening, pending>>
      BY <2>4 DEF AddressSpaceFinished
    <3>2. \E s : ReadFails(s) \/ \E d, last : ReadNextBlock(s, d, last)
      BY <2>4 DEF AddressSpaceFinished
    <3> QED BY <1>0, <2>3, <3>1, <3>2
  <2>5. CASE AddressSpaceRead(r, ok)
    <3>1. UNCHANGED <<listening, pending>>
      BY <2>5 DEF AddressSpaceRead
    <3>2. \E s : ReadFails(s) \/ \E d, last : ReadNextBlock(s, d, last)
      BY <2>5 DEF AddressSpaceRead
    <3> QED BY <1>0, <2>3, <3>1, <3>2
  <2>6. CASE RangeFinished(r, ok)
    <3>1. UNCHANGED listening /\ ~listening
      BY <2>6 DEF RangeFinished, loadVars
    <3>2. UNCHANGED <<pins, staged, pending>>
      BY <2>6, <3>1 DEF RangeFinished, UpdateData, WriteFinished, modelVars
    <3> QED BY <1>0, <3>1, <3>2
  <2>7. CASE UpdateCompleteFinished(r, ok)
    BY <1>0, <2>7 DEF UpdateCompleteFinished, modelVars, loadVars
  <2> QED BY <2>1, <2>2, <2>4, <2>5, <2>6, <2>7
<1>9. CASE UNCHANGED vars
  BY <1>0, <1>9 DEF vars
<1> QED BY <1>1, <1>2, <1>3, <1>4, <1>5, <1>6, <1>7, <1>8, <1>9 DEF Next

\* What a reply takes off the queue is not pending any more.
LEMMA AnswerQueued ==
  ASSUME IInv, Deaf, Answer, NEW p \in Pin, p \in pending', Queued(p, queue)
  PROVE  Queued(p, queue')
<1> DEFINE t == Tail(queue)
           r == Head(queue)
<1>0. ReadsInOrder /\ queue \in Seq(Request) /\ queue # <<>>
  BY DEF IInv, TypeOK, Answer
<1>1. PICK ok \in BOOLEAN :
        \/ CdiAnswered(r, ok)
        \/ AddressSpaceFinished(r, ok)
        \/ AddressSpaceRead(r, ok)
        \/ RangeFinished(r, ok)
        \/ UpdateCompleteFinished(r, ok)
  BY DEF Answer
<1>2. ~(r.kind = "write" /\ r.at = p)
  <2> SUFFICES ASSUME r.kind = "write", r.at = p PROVE FALSE
    OBVIOUS
  <2>1. RangeFinished(r, ok)
    BY <1>1 DEF CdiAnswered, AddressSpaceFinished, AddressSpaceRead,
                UpdateCompleteFinished
  <2>2. pending' = IF listening THEN pending \ {p} ELSE pending
    BY <2>1 DEF RangeFinished, WriteFinished
  <2> QED BY <2>2 DEF Deaf
<1>3. t \in Seq(Request) /\ Queued(p, t) /\ Lined(t, readState, data)
  BY <1>0, <1>2, QueuedBehind, TailFacts, TailLined
<1>4. CASE ReadEventIds(t, FALSE) /\ UNCHANGED <<mem, unsure>>
  <2> HIDE DEF t
  <2>1. PICK hs \in Seq(Request) : queue' = t \o hs
    BY <1>3, <1>4, ReadEventIdsInv
  <2> QED BY <1>3, <2>1, QueuedJoined
<1>5. CASE queue' = t
  BY <1>3, <1>5
<1>6. CASE \E x : queue' = Append(t, x)
  <2> HIDE DEF t
  <2> QED BY <1>3, <1>6, QueuedAppended
<1>7. CASE CdiAnswered(r, ok)
  BY <1>4, <1>5, <1>7 DEF CdiAnswered, Pop, Answer
<1>8. ASSUME NEW s, ReadFails(s) \/ \E d, last : ReadNextBlock(s, d, last)
      PROVE  queue' = t \/ \E x : queue' = Append(t, x)
  BY <1>8 DEF ReadFails, ReadNextBlock, Pop
<1>9. CASE AddressSpaceFinished(r, ok) \/ AddressSpaceRead(r, ok)
  <2>1. \E s : ReadFails(s) \/ \E d, last : ReadNextBlock(s, d, last)
    BY <1>9 DEF AddressSpaceFinished, AddressSpaceRead
  <2> QED BY <1>5, <1>6, <1>8, <2>1
<1>10. CASE RangeFinished(r, ok) \/ UpdateCompleteFinished(r, ok)
  BY <1>5, <1>10 DEF RangeFinished, UpdateCompleteFinished, Pop
<1> QED BY <1>1, <1>7, <1>9, <1>10

\* The write of p is in the queue, or the connection is busy and p is written now.
Expected(p) == Queued(p, queue) \/ (p \notin pending /\ queue # <<>>)

LEMMA PendingStep ==
  ASSUME IInv, Deaf, [Next]_vars, NEW p \in pending', Expected(p)
  PROVE  Queued(p, queue')
<1>0. TypeOK /\ ReadsInOrder /\ queue \in Seq(Request)
  BY DEF IInv, TypeOK
<1>1. p \in pending => p \in Pin /\ Queued(p, queue)
  BY <1>0 DEF Expected, TypeOK
<1>2. ASSUME p \in pending, NEW rs \in Seq(Request), Submit(rs) PROVE Queued(p, queue')
  BY <1>0, <1>1, <1>2, QueuedSubmitted
<1>3. ASSUME p \in pending, ReadCdi PROVE Queued(p, queue')
  <2>1. <<Ask("cdi", NoPin)>> \in Seq(Request)
    BY RequestFacts
  <2> QED BY <1>1, <1>2, <1>3, <2>1 DEF ReadCdi
<1>4. CASE NodeKnown
  <2>1. p \in pending
    BY <1>4 DEF NodeKnown
  <2>2. CASE ReadEventIds(queue, queue = <<>>)
    <3>1. UNCHANGED <<mem, unsure>>
      BY <1>4 DEF NodeKnown, connVars
    <3>2. PICK hs \in Seq(Request) : queue' = queue \o hs
      BY <1>0, <2>2, <3>1, ReadEventIdsInv DEF ReadsInOrder
    <3> QED BY <1>0, <1>1, <2>1, <3>2, QueuedJoined
  <2> QED BY <1>3, <1>4, <2>1, <2>2 DEF NodeKnown
<1>5. CASE ReloadNode \/ OtherReadsCdi
  BY <1>3, <1>5 DEF ReloadNode, OtherReadsCdi
<1>6. CASE ApplyChanges
  <2>1. PICK order \in Orders(ToWrite) :
          Submit(WritesAndUpdate(
            [i \in DOMAIN order |-> Write(order[i], staged[order[i]], TRUE)]))
    BY <1>6 DEF ApplyChanges
  <2> DEFINE n == Cardinality(ToWrite)
             rs == WritesAndUpdate(
                     [i \in DOMAIN order |-> Write(order[i], staged[order[i]], TRUE)])
  <2>2. /\ n \in Nat /\ rs \in Seq(Request) /\ Len(rs) = n + 1
        /\ \A i \in 1..n : /\ rs[i] = Write(order[i], staged[order[i]], TRUE)
                           /\ rs[i].kind = "write" /\ rs[i].at = order[i]
                           /\ rs[i].graph
        /\ rs[n + 1] = Ask("update", NoPin)
        /\ \A x \in ToWrite : \E i \in 1..n : order[i] = x
    BY <1>0, WritesFacts
  <2>3. Submit(rs)
    BY <2>1
  <2> HIDE DEF n, rs
  <2>4. CASE p \in pending
    BY <1>2, <2>2, <2>3, <2>4
  <2>5. CASE p \in ToWrite /\ p \notin pending
    <3>1. PICK i \in 1..n : order[i] = p
      BY <2>2, <2>5
    <3>2. i \in DOMAIN rs /\ rs[i].kind = "write" /\ rs[i].at = p /\ rs[i].graph
      <4>1. i \in DOMAIN rs
        BY <2>2, <3>1, LenProperties
      <4>2. rs[i].kind = "write" /\ rs[i].at = p /\ rs[i].graph
        BY <2>2, <3>1, Zenon
      <4> QED BY <4>1, <4>2
    <3>3. Queued(p, rs)
      BY <3>2 DEF Queued
    <3>4. Queued(p, queue) \/ queue # <<>>
      BY DEF Expected
    <3> QED BY <1>0, <2>2, <2>3, <3>3, <3>4, QueuedSubmitted
  <2> QED BY <1>6, <2>4, <2>5 DEF ApplyChanges
<1>7. ASSUME NEW x \in Fields, NEW v \in Values, OtherWrites(x, v)
      PROVE  Queued(p, queue')
  <2>1. WritesAndUpdate(<<Write(x, v, FALSE)>>) \in Seq(Request)
    BY OtherWriteFacts
  <2> QED BY <1>2, <1>7, <2>1 DEF OtherWrites
<1>8. ASSUME NEW x \in Fields, OtherReads(x)
      PROVE  Queued(p, queue')
  <2>1. <<Ask("range", x)>> \in Seq(Request)
    BY RequestFacts
  <2> QED BY <1>2, <1>8, <2>1 DEF OtherReads
<1>9. ASSUME NEW s \in Spaces, OtherReadsAll(s)
      PROVE  Queued(p, queue')
  <2>1. <<Ask("info", s)>> \in Seq(Request)
    BY RequestFacts
  <2> QED BY <1>1, <1>2, <1>9, <2>1 DEF OtherReadsAll
<1>10. CASE Answer
  <2>1. pending' \subseteq pending
    BY <1>10 DEF Answer, CdiAnswered, AddressSpaceFinished, AddressSpaceRead,
                 RangeFinished, WriteFinished, UpdateCompleteFinished
  <2> QED BY <1>1, <1>10, <2>1, AnswerQueued
<1>11. CASE UNCHANGED <<queue, pending>>
  BY <1>1, <1>11
<1> QED BY <1>4, <1>5, <1>6, <1>7, <1>8, <1>9, <1>10, <1>11
        DEF Next, Stage, Unstage, DiscardChanges, NodeWrites, vars

\* The write of a change that is pending stays in the queue until the change is not
\* pending any more, and a change that is applied to a busy connection has its write
\* queued, also where requests may be refused within the call
\* (EventGraphController::applyChanges, ::writeFinished).
THEOREM PendingQueued == Spec => PendingStaysQueued
<1>1. Init => Deaf
  BY DEF Init, Deaf
<1>2. IInv /\ Deaf /\ [Next]_vars => Deaf'
  BY DeafInv
<1>3. IInv /\ Deaf /\ [Next]_vars =>
        [\A p \in pending' :
           Queued(p, queue) \/ (p \notin pending /\ queue # <<>>) => Queued(p, queue')]_vars
  BY PendingStep DEF Expected
<1> QED BY <1>1, <1>2, <1>3, Invariance, PTL DEF Spec, PendingStaysQueued

-------------------------------------------------------------------------------
(* What EventPins says of every graph: the links join pins with the same event ID *)
(* and all of them, connecting and disconnecting change one pin, and no operation *)
(* forgets how reliably a direction is known.                                     *)

-------------------------------------------------------------------------------
(* The first of some pins. *)

Less == {ss \in Nat \X Nat : ss[1] < ss[2]}

LEMMA LeastNat ==
    ASSUME NEW T \in SUBSET Nat, T # {}
    PROVE  \E x \in T : \A y \in T : x <= y
<1>1. IsWellFoundedOn(Less, Nat)
  BY NatLessThanWellFounded DEF OpToRel, Less
<1>2. PICK x \in T : \A y \in T : <<y, x>> \notin Less
  BY <1>1, WFMin
<1>3. ASSUME NEW y \in T PROVE x <= y
  <2>1. ~(y < x)
    <3>1. <<y, x>> \in Nat \X Nat /\ <<y, x>>[1] = y /\ <<y, x>>[2] = x
      OBVIOUS
    <3>2. <<y, x>> \notin Less
      BY <1>2
    <3>. QED BY <3>1, <3>2 DEF Less
  <2>2. x \in Nat /\ y \in Nat
    OBVIOUS
  <2>. QED BY <2>1, <2>2
<1>. QED BY <1>3

LEMMA FirstExists ==
    ASSUME NEW S, S # {}, \A p \in S : p = <<p[1], p[2]>> /\ p[1] \in Nat /\ p[2] \in Nat
    PROVE  IsFirst(First(S), S)
<1>1. PICK n \in {p[1] : p \in S} : \A m \in {p[1] : p \in S} : n <= m
  <2>1. {p[1] : p \in S} \in SUBSET Nat /\ {p[1] : p \in S} # {}
    OBVIOUS
  <2>. QED BY <2>1, LeastNat
<1>2. PICK f \in {p[2] : p \in {q \in S : q[1] = n}} :
        \A h \in {p[2] : p \in {q \in S : q[1] = n}} : f <= h
  <2>1. {p[2] : p \in {q \in S : q[1] = n}} \in SUBSET Nat /\ {p[2] : p \in {q \in S : q[1] = n}} # {}
    BY <1>1
  <2>. QED BY <2>1, LeastNat
<1>3. PICK p \in S : p = <<n, f>>
  BY <1>2
<1>4. IsFirst(p, S)
  <2>. SUFFICES ASSUME NEW q \in S PROVE p = q \/ Before(p, q)
    BY DEF IsFirst
  <2>1. n <= q[1] /\ n \in Nat /\ f \in Nat /\ q[1] \in Nat /\ q[2] \in Nat /\ q = <<q[1], q[2]>>
    BY <1>1, <1>2
  <2>2. CASE q[1] = n
    <3>1. f <= q[2]
      BY <1>2, <2>2
    <3>. QED BY <1>3, <2>1, <2>2, <3>1 DEF Before
  <2>3. CASE q[1] # n
    BY <1>3, <2>1, <2>3 DEF Before
  <2>. QED BY <2>2, <2>3
<1>. QED BY <1>4 DEF First
-------------------------------------------------------------------------------
(* Links. *)

LEMMA PinsArePairs ==
    ASSUME NEW g, Typed(g)
    PROVE  \A p \in AllPins(g) : p = <<p[1], p[2]>> /\ p[1] \in Nat /\ p[2] \in Nat /\ IsPin(g, p)
<1>. SUFFICES ASSUME NEW p \in AllPins(g)
              PROVE  p = <<p[1], p[2]>> /\ p[1] \in Nat /\ p[2] \in Nat /\ IsPin(g, p)
  OBVIOUS
<1>1. PICK n \in DOMAIN g.nodes : p \in {<<n, f>> : f \in DOMAIN g.nodes[n].pins}
  BY DEF AllPins
<1>2. PICK f \in DOMAIN g.nodes[n].pins : p = <<n, f>>
  BY <1>1
<1>3. n \in Nat /\ f \in Nat
  BY DEF Typed, IsNode
<1>. QED BY <1>2, <1>3 DEF IsPin

LEMMA DirectedGroup ==
    ASSUME NEW g, NEW e, NEW p \in ProducersOf(g, Group(g, e)),
           NEW q \in Group(g, e) \ ProducersOf(g, Group(g, e))
    PROVE  Link(g, e, p, q, TRUE) \in GroupLinks(g, e)
<1>1. ProducersOf(g, Group(g, e)) \notin {{}, Group(g, e)}
  OBVIOUS
<1>2. GroupLinks(g, e) = DirectedLinks(g, e, ProducersOf(g, Group(g, e)), Group(g, e) \ ProducersOf(g, Group(g, e)))
  BY <1>1 DEF GroupLinks
<1>3. Link(g, e, p, q, TRUE) \in {Link(g, e, p, y, TRUE) : y \in Group(g, e) \ ProducersOf(g, Group(g, e))}
  OBVIOUS
<1>. DEFINE Of(x) == {Link(g, e, x, y, TRUE) : y \in Group(g, e) \ ProducersOf(g, Group(g, e))}
<1>4. GroupLinks(g, e) = UNION {Of(x) : x \in ProducersOf(g, Group(g, e))}
  BY <1>2 DEF DirectedLinks
<1>5. Link(g, e, p, q, TRUE) \in Of(p)
  BY <1>3
<1>. HIDE DEF Of
<1>. QED BY <1>4, <1>5

LEMMA HubGroup ==
    ASSUME NEW g, NEW e, NEW q \in Group(g, e) \ {First(Group(g, e))},
           ProducersOf(g, Group(g, e)) \in {{}, Group(g, e)}
    PROVE  Link(g, e, First(Group(g, e)), q, FALSE) \in GroupLinks(g, e)
<1>1. GroupLinks(g, e) = HubLinks(g, e, First(Group(g, e)), Group(g, e))
  BY DEF GroupLinks
<1>. QED BY <1>1 DEF HubLinks

LEMMA GroupLinksJoin ==
    ASSUME NEW g, NEW e, First(Group(g, e)) \in Group(g, e), NEW l \in GroupLinks(g, e)
    PROVE  \E p \in Group(g, e), q \in Group(g, e), d \in BOOLEAN : p # q /\ l = Link(g, e, p, q, d)
<1>. DEFINE S == Group(g, e)
            R == ProducersOf(g, S)
<1>1. R \subseteq S
  BY DEF ProducersOf
<1>2. CASE R \notin {{}, S}
  <2>1. l \in DirectedLinks(g, e, R, S \ R)
    BY <1>2 DEF GroupLinks
  <2>2. PICK x \in R : l \in {Link(g, e, x, y, TRUE) : y \in S \ R}
    BY <2>1 DEF DirectedLinks
  <2>3. PICK y \in S \ R : l = Link(g, e, x, y, TRUE)
    BY <2>2
  <2>. QED BY <1>1, <2>3
<1>3. CASE R \in {{}, S}
  <2>1. l \in HubLinks(g, e, First(S), S)
    BY <1>3 DEF GroupLinks
  <2>2. PICK y \in S \ {First(S)} : l = Link(g, e, First(S), y, FALSE)
    BY <2>1 DEF HubLinks
  <2>. QED BY <2>2
<1>. QED BY <1>2, <1>3

LEMMA FirstOfGroup ==
    ASSUME NEW g, Typed(g), NEW e \in ShownEvents(g)
    PROVE  First(Group(g, e)) \in Group(g, e)
<1>1. Group(g, e) # {} /\ Group(g, e) \subseteq AllPins(g)
  BY DEF ShownEvents, Group
<1>2. \A p \in Group(g, e) : p = <<p[1], p[2]>> /\ p[1] \in Nat /\ p[2] \in Nat
  BY <1>1, PinsArePairs
<1>. QED BY <1>1, <1>2, FirstExists DEF IsFirst

(* EventGraphModel::links: a link joins two pins that show its event ID, which is *)
(* not the null event ID.                                                          *)
THEOREM LinksShareTheirEvent ==
    ASSUME NEW g, Typed(g), NEW l \in Links(g)
    PROVE  /\ l.from \in AllPins(g) /\ l.to \in AllPins(g) /\ l.from # l.to
           /\ EventId(g, l.from) = l.event /\ EventId(g, l.to) = l.event
           /\ l.event \notin {NoValue, NullEvent}
<1>1. PICK e \in ShownEvents(g) : l \in GroupLinks(g, e)
  BY DEF Links
<1>2. First(Group(g, e)) \in Group(g, e)
  BY FirstOfGroup
<1>3. \E p \in Group(g, e), q \in Group(g, e), d \in BOOLEAN : p # q /\ l = Link(g, e, p, q, d)
  BY <1>1, <1>2, GroupLinksJoin
<1>. QED BY <1>3 DEF Link, Group, ShownEvents

(* Two pins of one event ID are always joined, directly or through a third one, *)
(* so that the graph never hides that one pin's event reaches another.          *)
THEOREM SharedEventsAreJoined ==
    ASSUME NEW g, Typed(g), NEW p \in AllPins(g), NEW q \in AllPins(g), p # q,
           EventId(g, p) = EventId(g, q), EventId(g, p) \notin {NoValue, NullEvent}
    PROVE  Joined(g, p, q)
<1>. DEFINE e == EventId(g, p)
            S == Group(g, e)
            R == ProducersOf(g, S)
<1>1. e \in ShownEvents(g) /\ p \in S /\ q \in S
  BY DEF ShownEvents, Group
<1>2. First(S) \in S
  BY <1>1, FirstOfGroup
<1>3. R \subseteq S /\ S \subseteq AllPins(g)
  BY DEF ProducersOf, Group
<1>4. \A l \in GroupLinks(g, e) : Linked(g, l.from, l.to) /\ Linked(g, l.to, l.from)
  BY <1>1 DEF Links, Linked
<1>5. CASE R \notin {{}, S}
  <2>1. \A x \in R, y \in S \ R : Linked(g, x, y) /\ Linked(g, y, x)
    <3>. SUFFICES ASSUME NEW x \in R, NEW y \in S \ R PROVE Linked(g, x, y) /\ Linked(g, y, x)
      OBVIOUS
    <3>1. Link(g, e, x, y, TRUE) \in GroupLinks(g, e)
      BY DirectedGroup
    <3>. QED BY <1>4, <3>1 DEF Link
  <2>2. PICK x \in R, y \in S \ R : TRUE
    BY <1>3, <1>5
  <2>3. (p \in R \/ p \in S \ R) /\ (q \in R \/ q \in S \ R)
    BY <1>1
  <2>. HIDE DEF R, S, e
  <2>. QED BY <1>1, <1>3, <2>1, <2>2, <2>3 DEF Joined
<1>6. CASE R \in {{}, S}
  <2>1. \A y \in S \ {First(S)} : Linked(g, First(S), y) /\ Linked(g, y, First(S))
    <3>. SUFFICES ASSUME NEW y \in S \ {First(S)} PROVE Linked(g, First(S), y) /\ Linked(g, y, First(S))
      OBVIOUS
    <3>1. Link(g, e, First(S), y, FALSE) \in GroupLinks(g, e)
      BY <1>6, HubGroup
    <3>. QED BY <1>4, <3>1 DEF Link
  <2>. HIDE DEF S, e, R
  <2>. QED BY <1>1, <1>2, <1>3, <2>1 DEF Joined
<1>. QED BY <1>5, <1>6
-------------------------------------------------------------------------------
(* Connecting and disconnecting. *)

LEMMA StagingShows ==
    ASSUME NEW g, Typed(g), NEW p, IsPin(g, p), NEW e
    PROVE  /\ EventId(StageEventId(g, p, e), p) = e
           /\ \A q : q # p => EventId(StageEventId(g, p, e), q) = EventId(g, q)
           /\ StageEventId(g, p, e).nodes = g.nodes
<1>1. CASE PinOf(g, p).value = e
  <2>1. StageEventId(g, p, e) = WithStaged(g, Only(g.staged, DOMAIN g.staged \ {p}))
    BY <1>1 DEF StageEventId, Unstaged
  <2>. QED BY <1>1, <2>1 DEF WithStaged, Graph, EventId, IsPin, PinOf, Only
<1>2. CASE PinOf(g, p).value # e
  <2>1. StageEventId(g, p, e) = WithStaged(g, Put(g.staged, p, e))
    BY <1>2 DEF StageEventId
  <2>. QED BY <2>1 DEF WithStaged, Graph, EventId, IsPin, PinOf, Put
<1>. QED BY <1>1, <1>2

(* EventGraphModel::connect: when the write is staged, both pins show the same    *)
(* event ID, which one of them had; only one of them changes, and no other pin.   *)
(* The event ID of a producer is kept, unless it is the null event ID or the other *)
(* one is a producer too and has one.                                              *)
THEOREM ConnectConnects ==
    ASSUME NEW g, Typed(g), NEW p, NEW q, Refusal(g, p, q) = "Ok"
    PROVE  LET w == Connect(g, p, q)
               h == StageWrite(g, w)
           IN  /\ w.pin \in {p, q} /\ w.event \in {EventId(g, p), EventId(g, q)}
               /\ w.event \notin {NoValue, NullEvent}
               /\ EventId(h, p) = w.event /\ EventId(h, q) = w.event
               /\ \A r : r # w.pin => EventId(h, r) = EventId(g, r)
               /\ PinOf(g, w.pin).direction = "Producer" =>
                     \/ EventId(g, w.pin) = NullEvent
                     \/ w.pin = q /\ PinOf(g, p).direction = "Producer"
<1>. DEFINE w == Connect(g, p, q)
<1>1. /\ IsPin(g, p) /\ IsPin(g, q) /\ p # q
      /\ EventId(g, p) # NoValue /\ EventId(g, q) # NoValue /\ EventId(g, p) # EventId(g, q)
  BY DEF Refusal
<1>2. CASE CopyFromTo(g, p, q)
  <2>1. w = [pin |-> p, event |-> EventId(g, q)]
    BY <1>2 DEF Connect
  <2>2. EventId(g, q) # NullEvent
    BY <1>1, <1>2 DEF CopyFromTo
  <2>. QED BY <1>1, <1>2, <2>1, <2>2, StagingShows DEF StageWrite, CopyFromTo
<1>3. CASE ~CopyFromTo(g, p, q)
  <2>1. w = [pin |-> q, event |-> EventId(g, p)]
    BY <1>3 DEF Connect
  <2>2. EventId(g, p) # NullEvent
    BY <1>3 DEF CopyFromTo
  <2>. QED BY <1>1, <1>3, <2>1, <2>2, StagingShows DEF StageWrite, CopyFromTo
<1>. QED BY <1>2, <1>3

(* EventGraphModel::disconnect: the pin loses all its links when the write is *)
(* staged, and no other pin changes its event ID.                             *)
THEOREM DisconnectFrees ==
    ASSUME NEW g, Typed(g), NEW p, IsPin(g, p)
    PROVE  LET h == StageWrite(g, Disconnect(p))
           IN  /\ \A l \in Links(h) : p \notin {l.from, l.to}
               /\ \A r : r # p => EventId(h, r) = EventId(g, r)
<1>. DEFINE h == StageEventId(g, p, NullEvent)
<1>1. EventId(h, p) = NullEvent /\ \A r : r # p => EventId(h, r) = EventId(g, r)
  BY StagingShows
<1>2. Typed(h)
  BY DEF Typed, StageEventId, Unstaged, WithStaged, Graph, Put, Only, Events, NullEvent
<1>3. \A l \in Links(h) : p \notin {l.from, l.to}
  <2>. HIDE DEF h
  <2>. QED BY <1>1, <1>2, LinksShareTheirEvent
<1>. QED BY <1>1, <1>3 DEF StageWrite, Disconnect
-------------------------------------------------------------------------------
(* Directions. *)

(* What a direction may be that comes from a source. *)
Fitting(node, dirs, source) ==
    /\ DOMAIN dirs \subseteq DOMAIN node.pins
    /\ \A f \in DOMAIN dirs : dirs[f] \in {"Producer", "Consumer"}
    /\ source \in {Learned, Identified, Observed}
    /\ source = Observed => \A f \in DOMAIN dirs : dirs[f] = "Producer"

(* A node that is like another one, but knows more of its directions. *)
Better(node, new) ==
    /\ new.model = node.model /\ DOMAIN new.pins = DOMAIN node.pins
    /\ \A f \in DOMAIN node.pins :
         /\ new.pins[f].value = node.pins[f].value
         /\ new.pins[f].source >= node.pins[f].source
         /\ node.pins[f].source = Observed => new.pins[f].direction = node.pins[f].direction

LEMMA DirectedIsBetter ==
    ASSUME NEW node, IsNode(node), HasSources(node), NEW dirs, NEW source, Fitting(node, dirs, source)
    PROVE  LET new == Directed(node, dirs, source)
           IN  IsNode(new) /\ HasSources(new) /\ Better(node, new)
<1>. DEFINE new == Directed(node, dirs, source)
<1>1. new.model = node.model /\ DOMAIN new.pins = DOMAIN node.pins
  BY DEF Directed, Node
<1>2. ASSUME NEW f \in DOMAIN node.pins
      PROVE  new.pins[f] = IF f \in DOMAIN dirs /\ source >= node.pins[f].source
                           THEN PinIs(node.pins[f].value, dirs[f], source)
                           ELSE node.pins[f]
  BY DEF Directed, Node
<1>3. \A f \in DOMAIN node.pins : node.pins[f] \in PinRecord
  BY DEF IsNode
<1>4. DOMAIN node.pins \subseteq Nat
  BY DEF IsNode
<1>. HIDE DEF new
<1>5. ASSUME NEW f \in DOMAIN node.pins
      PROVE  /\ new.pins[f] \in PinRecord
             /\ new.pins[f].direction = "Unknown" <=> new.pins[f].source = None
             /\ new.pins[f].source = Observed => new.pins[f].direction = "Producer"
             /\ new.pins[f].value = node.pins[f].value
             /\ new.pins[f].source >= node.pins[f].source
             /\ node.pins[f].source = Observed => new.pins[f].direction = node.pins[f].direction
  <2>1. CASE f \in DOMAIN dirs /\ source >= node.pins[f].source
    <3>1. /\ new.pins[f].value = node.pins[f].value /\ new.pins[f].direction = dirs[f]
          /\ new.pins[f].source = source
          /\ new.pins[f] = [value |-> node.pins[f].value, direction |-> dirs[f], source |-> source]
      BY <1>2, <2>1 DEF PinIs
    <3>2. source \in 1..3 /\ dirs[f] \in {"Producer", "Consumer"} /\ (source = 3 => dirs[f] = "Producer")
      BY <2>1 DEF Fitting, Learned, Identified, Observed
    <3>3. node.pins[f].value \in Events \cup {NoValue} /\ node.pins[f].source \in 0..3
      BY <1>3 DEF PinRecord, None, Observed
    <3>4. node.pins[f].source = 3 => node.pins[f].direction = "Producer"
      BY DEF HasSources, Observed
    <3>5. new.pins[f] \in PinRecord
      BY <3>1, <3>2, <3>3 DEF PinRecord, Directions, None, Observed
    <3>. QED BY <2>1, <3>1, <3>2, <3>3, <3>4, <3>5 DEF None, Observed
  <2>2. CASE ~(f \in DOMAIN dirs /\ source >= node.pins[f].source)
    <3>1. new.pins[f] = node.pins[f]
      BY <1>2, <2>2
    <3>. QED BY <1>3, <3>1 DEF HasSources, PinRecord, None, Observed
  <2>. QED BY <2>1, <2>2
<1>6. IsNode(new)
  BY <1>1, <1>4, <1>5 DEF IsNode
<1>7. HasSources(new)
  BY <1>1, <1>5 DEF HasSources
<1>8. Better(node, new)
  BY <1>1, <1>5 DEF Better
<1>. QED BY <1>6, <1>7, <1>8 DEF new

LEMMA RememberedIsKnown ==
    ASSUME NEW learned, \A k \in DOMAIN learned : learned[k] \in {"Producer", "Consumer"},
           NEW node, NEW dirs, NEW source, Fitting(node, dirs, source)
    PROVE  LET new == Remembered(learned, node, dirs, source)
           IN  \A k \in DOMAIN new : new[k] \in {"Producer", "Consumer"}
BY DEF Remembered, Taken, Fitting

LEMMA IdentifiedFits ==
    ASSUME NEW node, NEW lists
    PROVE  Fitting(node, IdentifiedDirs(lists, node), Identified)
BY DEF Fitting, IdentifiedDirs, Identified, Observed

LEMMA ObservedFits ==
    ASSUME NEW node, NEW e
    PROVE  Fitting(node, ObservedDirs(node, e), Observed)
BY DEF Fitting, ObservedDirs

LEMMA LearnedFits ==
    ASSUME NEW node, NEW learned, \A k \in DOMAIN learned : learned[k] \in {"Producer", "Consumer"}
    PROVE  Fitting(node, LearnedDirs(learned, node), Learned)
BY DEF Fitting, LearnedDirs, Learned, Observed
-------------------------------------------------------------------------------
(* What every operation does but those that replace or remove a node. *)

Keeps(g, h) == Sound(h) /\ KnowsMore(g, h) /\ (StagedDiffer(g) => StagedDiffer(h))

LEMMA BetterKeeps ==
    ASSUME NEW g, Sound(g), NEW h, Typed(h), Sourced(h), LearnedAreKnown(h), h.staged = g.staged,
           DOMAIN h.nodes = DOMAIN g.nodes, \A n \in DOMAIN g.nodes : Better(g.nodes[n], h.nodes[n])
    PROVE  Keeps(g, h)
<1>1. \A p : IsPin(h, p) <=> IsPin(g, p)
  BY DEF IsPin, Better
<1>2. \A p : IsPin(g, p) => PinOf(h, p).value = PinOf(g, p).value
  BY DEF IsPin, PinOf, Better
<1>3. KnowsMore(g, h)
  BY DEF KnowsMore, Better
<1>4. StagedArePins(h)
  BY <1>1 DEF Sound, StagedArePins
<1>5. StagedDiffer(g) => StagedDiffer(h)
  BY <1>1, <1>2 DEF StagedDiffer
<1>. QED BY <1>3, <1>4, <1>5 DEF Keeps, Sound

LEMMA BetterIsReflexive ==
    ASSUME NEW node, IsNode(node)
    PROVE  Better(node, node)
BY DEF Better, IsNode, PinRecord, None, Observed

(* One node gets directions. *)
LEMMA DirectingKeeps ==
    ASSUME NEW g, Sound(g), NEW n \in DOMAIN g.nodes, NEW dirs, NEW source, Fitting(g.nodes[n], dirs, source)
    PROVE  Keeps(g, WithDirs(g, n, dirs, source))
<1>. DEFINE new == Directed(g.nodes[n], dirs, source)
            rem == Remembered(g.learned, g.nodes[n], dirs, source)
            h == Graph(Put(g.nodes, n, new), g.identified, rem, g.staged)
<1>1. IsNode(new) /\ HasSources(new) /\ Better(g.nodes[n], new)
  BY DirectedIsBetter DEF Sound, Typed, Sourced
<1>2. \A k \in DOMAIN rem : rem[k] \in {"Producer", "Consumer"}
  BY RememberedIsKnown DEF Sound, LearnedAreKnown
<1>. HIDE DEF new, rem
<1>3. h.nodes = Put(g.nodes, n, new) /\ h.learned = rem /\ h.staged = g.staged
  BY DEF Graph
<1>4. DOMAIN h.nodes = DOMAIN g.nodes /\ \A m \in DOMAIN g.nodes : h.nodes[m] = IF m = n THEN new ELSE g.nodes[m]
  BY <1>3 DEF Put
<1>. HIDE DEF h
<1>5. Typed(h)
  BY <1>1, <1>3, <1>4 DEF Sound, Typed
<1>6. Sourced(h)
  BY <1>1, <1>4 DEF Sound, Sourced
<1>7. LearnedAreKnown(h)
  BY <1>2, <1>3 DEF LearnedAreKnown
<1>8. \A m \in DOMAIN g.nodes : Better(g.nodes[m], h.nodes[m])
  BY <1>1, <1>4, BetterIsReflexive DEF Sound, Typed
<1>9. Keeps(g, h)
  BY <1>3, <1>4, <1>5, <1>6, <1>7, <1>8, BetterKeeps
<1>. QED BY <1>9 DEF h, new, rem, WithDirs

LEMMA NothingKeeps ==
    ASSUME NEW g, Sound(g)
    PROVE  Keeps(g, g)
BY BetterKeeps, BetterIsReflexive DEF Sound, Typed

LEMMA ApplyIdentifiedKeeps ==
    ASSUME NEW g, Sound(g), NEW n
    PROVE  Keeps(g, ApplyIdentified(g, n))
<1>1. CASE n \in DOMAIN g.identified /\ n \in DOMAIN g.nodes
  BY <1>1, IdentifiedFits, DirectingKeeps DEF ApplyIdentified
<1>2. CASE ~(n \in DOMAIN g.identified /\ n \in DOMAIN g.nodes)
  BY <1>2, NothingKeeps DEF ApplyIdentified
<1>. QED BY <1>1, <1>2

LEMMA KeepsIsTransitive ==
    ASSUME NEW g, NEW h, NEW i, Sound(g), Keeps(g, h), Keeps(h, i),
           DOMAIN g.nodes = DOMAIN h.nodes,
           \A n \in DOMAIN g.nodes : DOMAIN g.nodes[n].pins = DOMAIN h.nodes[n].pins
    PROVE  Keeps(g, i)
<1>1. Typed(g) /\ Typed(h) /\ Typed(i)
  BY DEF Keeps, Sound
<1>2. ASSUME NEW n \in DOMAIN g.nodes \cap DOMAIN i.nodes,
             NEW f \in DOMAIN g.nodes[n].pins \cap DOMAIN i.nodes[n].pins
      PROVE  LET old == g.nodes[n].pins[f]
                 new == i.nodes[n].pins[f]
             IN  new.source >= old.source /\ (old.source = Observed => new.direction = old.direction)
  <2>1. n \in DOMAIN h.nodes /\ f \in DOMAIN h.nodes[n].pins
    OBVIOUS
  <2>2. /\ g.nodes[n].pins[f].source \in None..Observed
        /\ h.nodes[n].pins[f].source \in None..Observed
        /\ i.nodes[n].pins[f].source \in None..Observed
    BY <1>1, <2>1 DEF Typed, IsNode, PinRecord
  <2>3. /\ h.nodes[n].pins[f].source >= g.nodes[n].pins[f].source
        /\ g.nodes[n].pins[f].source = Observed => h.nodes[n].pins[f].direction = g.nodes[n].pins[f].direction
    BY <2>1 DEF Keeps, KnowsMore
  <2>4. /\ i.nodes[n].pins[f].source >= h.nodes[n].pins[f].source
        /\ h.nodes[n].pins[f].source = Observed => i.nodes[n].pins[f].direction = h.nodes[n].pins[f].direction
    BY <2>1 DEF Keeps, KnowsMore
  <2>. QED BY <2>2, <2>3, <2>4 DEF None, Observed
<1>3. KnowsMore(g, i)
  BY <1>2 DEF KnowsMore
<1>. QED BY <1>3 DEF Keeps
LEMMA StagingKeeps ==
    ASSUME NEW g, Sound(g), NEW kept,
           \A p \in DOMAIN kept : kept[p] \in Events /\ p = <<p[1], p[2]>> /\ IsPin(g, p),
           StagedDiffer(g) => \A p \in DOMAIN kept : kept[p] # PinOf(g, p).value
    PROVE  Keeps(g, WithStaged(g, kept))
<1>. DEFINE h == WithStaged(g, kept)
<1>1. h.nodes = g.nodes /\ h.learned = g.learned /\ h.staged = kept
  BY DEF WithStaged, Graph
<1>. HIDE DEF h
<1>2. Typed(h)
  BY <1>1 DEF Sound, Typed
<1>3. Sourced(h) /\ LearnedAreKnown(h)
  BY <1>1 DEF Sound, Sourced, LearnedAreKnown
<1>4. StagedArePins(h)
  BY <1>1 DEF StagedArePins, IsPin
<1>5. KnowsMore(g, h)
  BY <1>1, NothingKeeps DEF Keeps, KnowsMore
<1>6. StagedDiffer(g) => StagedDiffer(h)
  BY <1>1 DEF StagedDiffer, PinOf
<1>7. Keeps(g, h)
  BY <1>2, <1>3, <1>4, <1>5, <1>6 DEF Keeps, Sound
<1>. QED BY <1>7 DEF h

LEMMA UnstagedKeeps ==
    ASSUME NEW g, Sound(g), NEW S
    PROVE  Keeps(g, WithStaged(g, Only(g.staged, S)))
<1>. DEFINE kept == Only(g.staged, S)
<1>1. \A p \in DOMAIN kept : p \in DOMAIN g.staged /\ kept[p] = g.staged[p]
  BY DEF Only
<1>. HIDE DEF kept
<1>2. \A p \in DOMAIN kept : kept[p] \in Events /\ p = <<p[1], p[2]>> /\ IsPin(g, p)
  BY <1>1 DEF Sound, Typed, StagedArePins
<1>3. StagedDiffer(g) => \A p \in DOMAIN kept : kept[p] # PinOf(g, p).value
  BY <1>1, <1>2 DEF StagedDiffer
<1>4. Keeps(g, WithStaged(g, kept))
  BY <1>2, <1>3, StagingKeeps
<1>. QED BY <1>4 DEF kept

(* EventGraphModel::stageEventId *)
LEMMA StageEventIdKeeps ==
    ASSUME NEW g, Sound(g), NEW p \in Nat \X Nat, NEW e \in Events
    PROVE  Keeps(g, StageEventId(g, p, e))
<1>1. CASE ~IsPin(g, p)
  BY <1>1, NothingKeeps DEF StageEventId
<1>2. CASE IsPin(g, p) /\ PinOf(g, p).value = e
  <2>1. StageEventId(g, p, e) = WithStaged(g, Only(g.staged, DOMAIN g.staged \ {p}))
    BY <1>2 DEF StageEventId, Unstaged
  <2>. QED BY <2>1, UnstagedKeeps
<1>3. CASE IsPin(g, p) /\ PinOf(g, p).value # e
  <2>. DEFINE kept == Put(g.staged, p, e)
  <2>1. DOMAIN kept = DOMAIN g.staged \cup {p}
        /\ \A q \in DOMAIN kept : kept[q] = IF q = p THEN e ELSE g.staged[q]
    BY DEF Put
  <2>2. StageEventId(g, p, e) = WithStaged(g, kept)
    BY <1>3 DEF StageEventId
  <2>. HIDE DEF kept
  <2>3. \A q \in DOMAIN kept : kept[q] \in Events /\ q = <<q[1], q[2]>> /\ IsPin(g, q)
    BY <1>3, <2>1 DEF Sound, Typed, StagedArePins
  <2>4. StagedDiffer(g) => \A q \in DOMAIN kept : kept[q] # PinOf(g, q).value
    BY <1>3, <2>1, <2>3 DEF StagedDiffer
  <2>. QED BY <2>2, <2>3, <2>4, StagingKeeps
<1>. QED BY <1>1, <1>2, <1>3

(* EventGraphModel::eventObserved *)
LEMMA EventObservedKeeps ==
    ASSUME NEW g, Sound(g), NEW n, NEW e
    PROVE  Keeps(g, EventObserved(g, n, e))
<1>1. CASE n \in DOMAIN g.nodes /\ e # NullEvent
  <2>1. Keeps(g, WithDirs(g, n, ObservedDirs(g.nodes[n], e), Observed))
    BY <1>1, ObservedFits, DirectingKeeps
  <2>. QED BY <1>1, <2>1 DEF EventObserved
<1>2. CASE ~(n \in DOMAIN g.nodes /\ e # NullEvent)
  BY <1>2, NothingKeeps DEF EventObserved
<1>. QED BY <1>1, <1>2

(* EventGraphModel::setIdentifiedEvents *)
LEMMA SetIdentifiedEventsKeeps ==
    ASSUME NEW g, Sound(g), NEW n, NEW lists
    PROVE  Keeps(g, SetIdentifiedEvents(g, n, lists))
<1>. DEFINE k == Graph(g.nodes, Put(g.identified, n, lists), g.learned, g.staged)
<1>1. k.nodes = g.nodes /\ k.learned = g.learned /\ k.staged = g.staged
  BY DEF Graph
<1>. HIDE DEF k
<1>2. Typed(k) /\ Sourced(k) /\ LearnedAreKnown(k)
  BY <1>1 DEF Sound, Typed, Sourced, LearnedAreKnown
<1>3. \A m \in DOMAIN g.nodes : Better(g.nodes[m], k.nodes[m])
  BY <1>1, BetterIsReflexive DEF Sound, Typed
<1>4. Keeps(g, k)
  BY <1>1, <1>2, <1>3, BetterKeeps
<1>5. Sound(k)
  BY <1>4 DEF Keeps
<1>6. Keeps(k, ApplyIdentified(k, n))
  BY <1>5, ApplyIdentifiedKeeps
<1>7. Keeps(g, ApplyIdentified(k, n))
  BY <1>1, <1>4, <1>6, KeepsIsTransitive
<1>. QED BY <1>7 DEF k, SetIdentifiedEvents

(* EventGraphModel::setLearnedDirections *)
LEMMA SetLearnedDirectionsKeeps ==
    ASSUME NEW g, Sound(g), NEW learned, \A k \in DOMAIN learned : learned[k] \in {"Producer", "Consumer"}
    PROVE  Keeps(g, SetLearnedDirections(g, learned))
<1>. DEFINE h == SetLearnedDirections(g, learned)
<1>1. /\ h.learned = learned /\ h.staged = g.staged /\ DOMAIN h.nodes = DOMAIN g.nodes
      /\ \A n \in DOMAIN g.nodes : h.nodes[n] = ApplyLearned(learned, g.nodes[n])
  BY DEF SetLearnedDirections, Graph
<1>. HIDE DEF h
<1>2. ASSUME NEW n \in DOMAIN g.nodes
      PROVE  IsNode(h.nodes[n]) /\ HasSources(h.nodes[n]) /\ Better(g.nodes[n], h.nodes[n])
  <2>1. IsNode(g.nodes[n]) /\ HasSources(g.nodes[n])
    BY DEF Sound, Typed, Sourced
  <2>2. Fitting(g.nodes[n], LearnedDirs(learned, g.nodes[n]), Learned)
    BY LearnedFits
  <2>. QED BY <1>1, <2>1, <2>2, DirectedIsBetter DEF ApplyLearned
<1>3. Typed(h) /\ Sourced(h) /\ LearnedAreKnown(h)
  BY <1>1, <1>2 DEF Sound, Typed, Sourced, LearnedAreKnown
<1>4. Keeps(g, h)
  BY <1>1, <1>2, <1>3, BetterKeeps
<1>. QED BY <1>4 DEF h

(* EventGraphModel::setPinEventId *)
LEMMA SetPinEventIdKeeps ==
    ASSUME NEW g, Sound(g), NEW p \in Nat \X Nat, NEW e \in Events
    PROVE  Keeps(g, SetPinEventId(g, p, e))
<1>1. CASE ~IsPin(g, p)
  BY <1>1, NothingKeeps DEF SetPinEventId
<1>2. CASE IsPin(g, p)
  <2>. DEFINE node == g.nodes[p[1]]
              pin == PinIs(e, PinOf(g, p).direction, PinOf(g, p).source)
              newPins == Put(node.pins, p[2], pin)
              kept == Only(g.staged, {q \in DOMAIN g.staged : q # p \/ g.staged[q] # e})
              k == Graph(Put(g.nodes, p[1], Node(node.model, newPins)), g.identified, g.learned, kept)
  <2>1. p[1] \in DOMAIN g.nodes /\ p[2] \in DOMAIN node.pins
    BY <1>2 DEF IsPin
  <2>2. IsNode(node) /\ HasSources(node)
    BY <2>1 DEF Sound, Typed, Sourced
  <2>3. /\ pin.value = e /\ pin.direction = node.pins[p[2]].direction
        /\ pin.source = node.pins[p[2]].source /\ pin \in PinRecord
    BY <2>1, <2>2 DEF PinIs, PinOf, IsNode, PinRecord
  <2>4. /\ DOMAIN newPins = DOMAIN node.pins
        /\ \A f \in DOMAIN node.pins : newPins[f] = IF f = p[2] THEN pin ELSE node.pins[f]
    BY <2>1 DEF Put
  <2>. HIDE DEF pin
  <2>5. /\ \A q \in DOMAIN kept : q \in DOMAIN g.staged /\ kept[q] = g.staged[q]
                                    /\ (q # p \/ kept[q] # e)
    BY DEF Only
  <2>. HIDE DEF newPins, kept
  <2>6. /\ k.learned = g.learned /\ k.staged = kept /\ DOMAIN k.nodes = DOMAIN g.nodes
        /\ \A n \in DOMAIN g.nodes : k.nodes[n] = IF n = p[1] THEN Node(node.model, newPins) ELSE g.nodes[n]
    BY <2>1 DEF Graph, Put
  <2>. HIDE DEF k
  <2>7. k.nodes[p[1]].model = node.model /\ k.nodes[p[1]].pins = newPins
    BY <2>1, <2>6 DEF Node
  <2>8. IsNode(k.nodes[p[1]])
    BY <2>2, <2>3, <2>4, <2>7 DEF IsNode
  <2>9. HasSources(k.nodes[p[1]])
    BY SMTT(30), <2>1, <2>2, <2>3, <2>4, <2>7 DEF HasSources
  <2>10. Typed(k) /\ Sourced(k) /\ LearnedAreKnown(k)
    BY <2>5, <2>6, <2>8, <2>9 DEF Sound, Typed, Sourced, LearnedAreKnown
  <2>11. \A n \in DOMAIN g.nodes : DOMAIN k.nodes[n].pins = DOMAIN g.nodes[n].pins
    BY <2>4, <2>6, <2>7
  <2>12. StagedArePins(k)
    <3>1. \A q : IsPin(k, q) <=> IsPin(g, q)
      BY <2>6, <2>11 DEF IsPin
    <3>. QED BY <2>5, <2>6, <3>1 DEF Sound, StagedArePins
  <2>13. ASSUME NEW n \in DOMAIN g.nodes, NEW f \in DOMAIN g.nodes[n].pins
         PROVE  /\ k.nodes[n].pins[f].source = g.nodes[n].pins[f].source
                /\ k.nodes[n].pins[f].direction = g.nodes[n].pins[f].direction
                /\ k.nodes[n].pins[f].value = IF n = p[1] /\ f = p[2] THEN e ELSE g.nodes[n].pins[f].value
    BY <2>3, <2>4, <2>6, <2>7
  <2>14. KnowsMore(g, k)
    BY <2>13, NothingKeeps DEF Keeps, KnowsMore
  <2>15. StagedDiffer(g) => StagedDiffer(k)
    <3>. SUFFICES ASSUME StagedDiffer(g), NEW q \in DOMAIN k.staged, IsPin(k, q)
                  PROVE  k.staged[q] # PinOf(k, q).value
      BY DEF StagedDiffer
    <3>1. q \in DOMAIN g.staged /\ k.staged[q] = g.staged[q] /\ (q # p \/ k.staged[q] # e)
      BY <2>5, <2>6
    <3>2. q = <<q[1], q[2]>> /\ IsPin(g, q)
      BY <3>1 DEF Sound, StagedArePins
    <3>3. PinOf(k, q).value = IF q[1] = p[1] /\ q[2] = p[2] THEN e ELSE PinOf(g, q).value
      BY <2>13, <3>2 DEF IsPin, PinOf
    <3>4. (q[1] = p[1] /\ q[2] = p[2]) => q = p
      BY <3>2
    <3>5. g.staged[q] # PinOf(g, q).value
      BY <3>1, <3>2 DEF StagedDiffer
    <3>. QED BY <3>1, <3>3, <3>4, <3>5
  <2>16. Sound(k) /\ Keeps(g, k)
    BY <2>10, <2>12, <2>14, <2>15 DEF Keeps, Sound
  <2>17. Keeps(k, ApplyIdentified(k, p[1]))
    BY <2>16, ApplyIdentifiedKeeps
  <2>18. Keeps(g, ApplyIdentified(k, p[1]))
    BY <2>6, <2>11, <2>16, <2>17, KeepsIsTransitive
  <2>19. SetPinEventId(g, p, e) = ApplyIdentified(k, p[1])
    BY <1>2 DEF SetPinEventId, k, kept, newPins, pin
  <2>. QED BY <2>18, <2>19
<1>. QED BY <1>1, <1>2

(* EventGraphModel::removeNode *)
LEMMA RemoveNodeKeeps ==
    ASSUME NEW g, Sound(g), NEW n
    PROVE  Keeps(g, RemoveNode(g, n))
<1>. DEFINE h == RemoveNode(g, n)
<1>1. /\ h.learned = g.learned /\ DOMAIN h.nodes = DOMAIN g.nodes \ {n}
      /\ \A m \in DOMAIN h.nodes : h.nodes[m] = g.nodes[m]
  BY DEF RemoveNode, Graph, Only
<1>2. \A p \in DOMAIN h.staged : p \in DOMAIN g.staged /\ h.staged[p] = g.staged[p] /\ p[1] # n
  BY DEF RemoveNode, Graph, Only
<1>. HIDE DEF h
<1>3. Typed(h) /\ Sourced(h) /\ LearnedAreKnown(h)
  BY <1>1, <1>2 DEF Sound, Typed, Sourced, LearnedAreKnown
<1>4. \A p : IsPin(h, p) <=> IsPin(g, p) /\ p[1] # n
  BY <1>1 DEF IsPin
<1>5. StagedArePins(h)
  BY <1>2, <1>4 DEF Sound, StagedArePins
<1>6. KnowsMore(g, h)
  <2>1. KnowsMore(g, g)
    BY NothingKeeps DEF Keeps
  <2>. QED BY <1>1, <2>1 DEF KnowsMore
<1>7. StagedDiffer(g) => StagedDiffer(h)
  BY <1>1, <1>2, <1>4 DEF StagedDiffer, PinOf, IsPin
<1>8. Keeps(g, h)
  BY <1>3, <1>5, <1>6, <1>7 DEF Keeps, Sound
<1>. QED BY <1>8 DEF h

(* The operations that the controller has keep a graph sound, never exchange a   *)
(* direction for one from a less reliable source, and never leave a change staged *)
(* that the node's memory has already.                                            *)
THEOREM OperationsKeep ==
    ASSUME NEW g, Sound(g), NEW n, NEW p \in Nat \X Nat, NEW e \in Events, NEW lists,
           NEW learned, \A k \in DOMAIN learned : learned[k] \in {"Producer", "Consumer"}
    PROVE  /\ Keeps(g, SetPinEventId(g, p, e)) /\ Keeps(g, SetIdentifiedEvents(g, n, lists))
           /\ Keeps(g, EventObserved(g, n, e)) /\ Keeps(g, SetLearnedDirections(g, learned))
           /\ Keeps(g, StageEventId(g, p, e)) /\ Keeps(g, Unstaged(g, p)) /\ Keeps(g, ClearStaged(g))
           /\ Keeps(g, RemoveNode(g, n))
<1>1. Keeps(g, Unstaged(g, p)) /\ Keeps(g, ClearStaged(g))
  BY UnstagedKeeps DEF Unstaged, ClearStaged
<1>. QED BY <1>1, SetPinEventIdKeeps, SetIdentifiedEventsKeeps, EventObservedKeeps,
            SetLearnedDirectionsKeeps, StageEventIdKeeps, RemoveNodeKeeps

(* EventGraphModel::setNode keeps the graph sound too. (It does forget directions: *)
(* a node's pins begin anew with what the saved layout says.)                       *)
THEOREM SetNodeIsSound ==
    ASSUME NEW g, Sound(g), NEW n \in Nat, NEW node, IsNode(node), HasSources(node)
    PROVE  Sound(SetNode(g, n, node))
<1>. DEFINE new == ApplyLearned(g.learned, node)
            kept == Only(g.staged, {p \in DOMAIN g.staged : p[1] = n => p[2] \in DOMAIN node.pins})
            k == Graph(Put(g.nodes, n, new), g.identified, g.learned, kept)
<1>1. IsNode(new) /\ HasSources(new) /\ Better(node, new)
  <2>1. Fitting(node, LearnedDirs(g.learned, node), Learned)
    BY LearnedFits DEF Sound, LearnedAreKnown
  <2>. QED BY <2>1, DirectedIsBetter DEF ApplyLearned
<1>. HIDE DEF new
<1>2. \A p \in DOMAIN kept : /\ p \in DOMAIN g.staged /\ kept[p] = g.staged[p]
                               /\ (p[1] = n => p[2] \in DOMAIN node.pins)
  BY DEF Only
<1>. HIDE DEF kept
<1>3. /\ k.learned = g.learned /\ k.staged = kept /\ DOMAIN k.nodes = DOMAIN g.nodes \cup {n}
      /\ \A m \in DOMAIN k.nodes : k.nodes[m] = IF m = n THEN new ELSE g.nodes[m]
  BY DEF Graph, Put
<1>. HIDE DEF k
<1>4. Typed(k) /\ Sourced(k) /\ LearnedAreKnown(k)
  BY <1>1, <1>2, <1>3 DEF Sound, Typed, Sourced, LearnedAreKnown
<1>5. StagedArePins(k)
  BY <1>1, <1>2, <1>3 DEF Sound, StagedArePins, IsPin, Better
<1>6. Sound(k)
  BY <1>4, <1>5 DEF Sound
<1>7. Sound(ApplyIdentified(k, n))
  BY <1>6, ApplyIdentifiedKeeps DEF Keeps
<1>. QED BY <1>7 DEF k, new, kept, SetNode
=============================================================================
