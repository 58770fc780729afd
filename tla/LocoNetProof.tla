------------------------------ MODULE LocoNetProof ------------------------------
(* The proofs about the two programs of the LocoNet library that wait for bytes    *)
(* and messages of others: the buffer (its types, so that the place of the next    *)
(* byte is always inside it, although process removes messages whose last bytes    *)
(* have not come; and that what it delivers is what was written, because an opcode *)
(* at the beginning of the buffer is always that of a frame which is whole in the  *)
(* buffer and on the line), and the programmer (its types, the order of the outcomes, that  *)
(* an outcome stays, and that a lone programmer takes no reply to another request  *)
(* for its own).                                                                   *)
EXTENDS LocoNetBuffer, LoconetProgrammer, TLAPS

(***************************************************************************)
(* The buffer.                                                             *)
(***************************************************************************)

LEMMA XorByte == ASSUME NEW s PROVE Xor(s) \in Byte
    BY DEF Xor, Byte

LEMMA SumByte == ASSUME NEW a \in Byte, NEW b \in Byte PROVE a \oplus b \in Byte
    BY DEF \oplus, Byte

LEMMA OnesByte == Ones \in Byte
    BY DEF Ones, Byte

LEMMA IndexFacts ==
    /\ LN_BUFFER_LEN \in Nat /\ LN_BUFFER_LEN >= 16
    /\ \A i : i \in Index <=> (i \in Nat /\ i < LN_BUFFER_LEN)
    BY BufferAssumption DEF Index

(* What is looked at is a sequence of bytes, in use or not. *)
LEMMA BytesAreBytes ==
    ASSUME BufferTypeOK, NEW n \in Nat
    PROVE  Bytes(n) \in Seq(Byte)
<1>1. ASSUME NEW i \in 1..n
      PROVE  (IF i <= LN_BUFFER_LEN THEN lnBuffer[i - 1] ELSE {}) \in Byte
  <2>1. CASE i <= LN_BUFFER_LEN
    <3>1. i - 1 \in Index
      BY <2>1, IndexFacts
    <3> QED
      BY <2>1, <3>1 DEF BufferTypeOK
  <2>2. CASE ~(i <= LN_BUFFER_LEN)
    BY <2>2 DEF Byte
  <2> QED
    BY <2>1, <2>2
<1>2. Bytes(n) \in [1..n -> Byte]
  BY <1>1 DEF Bytes
<1> QED
  BY <1>2

(* The part of the state that a turn of process changes keeps its type. *)
BufferTypes ==
    /\ lnBuffer \in [Index -> Byte]
    /\ lnBufferLocation \in Index

LEMMA RemoveTypes ==
    ASSUME BufferTypeOK, NEW n \in Nat, ln_remove_bytes(n)
    PROVE  BufferTypes'
<1>1. CASE n > lnBufferLocation
  <2>1. lnBufferLocation' = 0 /\ lnBuffer' = lnBuffer
    BY <1>1 DEF ln_remove_bytes
  <2>2. 0 \in Index
    BY IndexFacts
  <2> QED
    BY <2>1, <2>2 DEF BufferTypes, BufferTypeOK
<1>2. CASE ~(n > lnBufferLocation)
  <2>1. lnBufferLocation \in Nat /\ lnBufferLocation < LN_BUFFER_LEN /\ n <= lnBufferLocation
    BY <1>2, IndexFacts DEF BufferTypeOK
  <2>2. lnBufferLocation' = lnBufferLocation - n
    BY <1>2 DEF ln_remove_bytes
  <2>3. lnBufferLocation' \in Index
    BY <2>1, <2>2, IndexFacts
  <2>4. ASSUME NEW i \in Index
        PROVE  (IF i < lnBufferLocation - n THEN lnBuffer[i + n] ELSE lnBuffer[i]) \in Byte
    <3>1. CASE i < lnBufferLocation - n
      <4>1. i + n \in Index
        BY <2>1, <3>1, IndexFacts
      <4> QED
        BY <3>1, <4>1 DEF BufferTypeOK
    <3>2. CASE ~(i < lnBufferLocation - n)
      BY <3>2 DEF BufferTypeOK
    <3> QED
      BY <3>1, <3>2
  <2>5. lnBuffer' \in [Index -> Byte]
    BY <1>2, <2>4 DEF ln_remove_bytes
  <2> QED
    BY <2>3, <2>5 DEF BufferTypes
<1> QED
  BY <1>1, <1>2

LEMMA AcceptTypes ==
    ASSUME BufferTypeOK, NEW n \in Nat, NEW good, Accept(good, n)
    PROVE  BufferTypes' /\ delivered' \in Seq(Seq(Byte))
<1>1. CASE ln_remove_bytes(n) /\ delivered' = Append(delivered, Bytes(n))
  <2>1. BufferTypes'
    BY <1>1, RemoveTypes
  <2>2. Bytes(n) \in Seq(Byte) /\ delivered \in Seq(Seq(Byte))
    BY BytesAreBytes DEF BufferTypeOK
  <2> HIDE DEF Bytes
  <2>3. delivered' \in Seq(Seq(Byte))
    BY <1>1, <2>2
  <2> QED
    BY <2>1, <2>3
<1>2. CASE ln_remove_bytes(1) /\ delivered' = delivered
  <2>1. BufferTypes'
    BY <1>2, RemoveTypes
  <2> QED
    BY <1>2, <2>1 DEF BufferTypeOK
<1> QED
  BY <1>1, <1>2 DEF Accept, Deliver

LEMMA ReturnTypes ==
    ASSUME BufferTypeOK, Return, UNCHANGED traffic
    PROVE  BufferTypeOK'
    BY OnesByte DEF Return, BufferTypeOK, traffic, buffer

(* A turn that looks at a message: the checksum goes on with what it saw. *)
LEMMA LookTypes ==
    ASSUME BufferTypeOK, NEW n \in Nat, NEW good, Accept(good, n),
           checksum' \in Byte, UNCHANGED pc, UNCHANGED traffic
    PROVE  BufferTypeOK'
<1>1. BufferTypes' /\ delivered' \in Seq(Seq(Byte))
  BY AcceptTypes
<1> QED
  BY <1>1 DEF BufferTypeOK, BufferTypes, traffic

LEMMA InitTypes == BufferInit => BufferTypeOK
<1> SUFFICES ASSUME BufferInit PROVE BufferTypeOK
  OBVIOUS
<1>1. 0 \in Index /\ {} \in Byte
  BY IndexFacts DEF Byte
<1>2. lnBuffer \in [Index -> Byte]
  BY <1>1 DEF BufferInit
<1> QED
  BY <1>1, <1>2, OnesByte, TrafficAssumption DEF BufferInit, BufferTypeOK

LEMMA PutTypes ==
    ASSUME BufferTypeOK, NEW frame \in Seq(Byte), Put(frame)
    PROVE  BufferTypeOK'
<1>1. line' \in Seq(Byte)
  BY DEF Put, BufferTypeOK
<1>2. written' \in Seq(Seq(Byte)) /\ Len(written') <= MaxWritten
  BY TrafficAssumption DEF Put, BufferTypeOK
<1> QED
  BY <1>1, <1>2 DEF Put, BufferTypeOK, buffer

LEMMA IncomingByteTypes == ASSUME BufferTypeOK, IncomingByte PROVE BufferTypeOK'
<1>1. Head(line) \in Byte /\ Tail(line) \in Seq(Byte)
  BY DEF BufferTypeOK, IncomingByte
<1>2. lnBuffer' \in [Index -> Byte]
  BY <1>1 DEF BufferTypeOK, IncomingByte
<1>3. lnBufferLocation' \in Index
  <2>1. lnBufferLocation \in Nat /\ lnBufferLocation < LN_BUFFER_LEN
    BY IndexFacts DEF BufferTypeOK
  <2>2. (lnBufferLocation + 1) % LN_BUFFER_LEN \in Nat
        /\ (lnBufferLocation + 1) % LN_BUFFER_LEN < LN_BUFFER_LEN
    BY <2>1, IndexFacts
  <2> QED
    BY <2>2, IndexFacts DEF IncomingByte
<1> QED
  BY <1>1, <1>2, <1>3 DEF BufferTypeOK, IncomingByte

LEMMA TurnTypes == ASSUME BufferTypeOK, Turn PROVE BufferTypeOK'
<1>1. CASE LoopEnds
  BY <1>1, ReturnTypes DEF LoopEnds
<1>2. CASE TwoBytes
  <2>1. checksum' \in Byte
    BY <1>2, XorByte, SumByte DEF TwoBytes, BufferTypeOK
  <2>2. UNCHANGED pc /\ UNCHANGED traffic /\ Accept(checksum' = lnBuffer[1], 2)
    BY <1>2 DEF TwoBytes, First, InLoop
  <2> QED
    BY <2>1, <2>2, LookTypes
<1>3. CASE FourBytes
  <2>1. UNCHANGED traffic
    BY <1>3 DEF FourBytes, First, InLoop
  <2>2. CASE Return
    BY <2>1, <2>2, ReturnTypes
  <2>3. CASE ~Return
    <3>1. /\ checksum' = checksum \oplus Xor(Bytes(3))
          /\ Accept(checksum' = lnBuffer[3], 4) /\ UNCHANGED pc
      BY <1>3, <2>3 DEF FourBytes
    <3>2. checksum' \in Byte
      BY <3>1, XorByte, SumByte DEF BufferTypeOK
    <3> QED
      BY <2>1, <3>1, <3>2, LookTypes
  <2> QED
    BY <2>2, <2>3
<1>4. CASE SixBytes
  <2>1. UNCHANGED traffic
    BY <1>4 DEF SixBytes, First, InLoop
  <2>2. CASE Return
    BY <2>1, <2>2, ReturnTypes
  <2>3. CASE ~Return
    <3>1. PICK unset \in UnsetBytes, good \in BOOLEAN :
              /\ checksum' = checksum \oplus Xor(Bytes(6)) \oplus unset
              /\ Accept(good, 6) /\ UNCHANGED pc
      BY <1>4, <2>3 DEF SixBytes
    <3>2. checksum \oplus Xor(Bytes(6)) \in Byte /\ unset \in Byte
      BY XorByte, SumByte, TrafficAssumption DEF BufferTypeOK
    <3>3. checksum' \in Byte
      BY <3>1, <3>2, SumByte
    <3> QED
      BY <2>1, <3>1, <3>3, LookTypes
  <2> QED
    BY <2>2, <2>3
<1>5. CASE SlotData
  <2>1. UNCHANGED traffic
    BY <1>5 DEF SlotData, First, InLoop
  <2>2. CASE Return
    BY <2>1, <2>2, ReturnTypes
  <2>3. CASE ~Return
    <3>1. /\ Accept(Ones \oplus Xor(Bytes(13)) = lnBuffer[13], 14)
          /\ UNCHANGED pc /\ checksum' \in Byte
      BY <1>5, <2>3 DEF SlotData, BufferTypeOK
    <3> QED
      BY <2>1, <3>1, LookTypes
  <2> QED
    BY <2>2, <2>3
<1>6. CASE VariableLength
  <2> DEFINE n == Num(lnBuffer[1])
             good == Ones \oplus Xor(Bytes(n + 1)) = Bytes(n + 2)[n + 2]
  <2>1. UNCHANGED traffic
    BY <1>6 DEF VariableLength, First, InLoop
  <2>2. CASE Return
    BY <2>1, <2>2, ReturnTypes
  <2>3. CASE ~Return
    <3>1. Accept(good, n) /\ UNCHANGED pc /\ checksum' \in Byte
      BY <1>6, <2>3 DEF VariableLength, BufferTypeOK
    <3>2. n \in Nat
      BY DEF Num
    <3> HIDE DEF n, good
    <3> QED
      BY <2>1, <3>1, <3>2, LookTypes
  <2> QED
    BY <2>2, <2>3
<1>7. CASE Garbage
  <2>1. BufferTypes'
    BY <1>7, RemoveTypes DEF Garbage
  <2> QED
    BY <1>7, <2>1 DEF Garbage, InLoop, BufferTypes, BufferTypeOK, traffic
<1>8. CASE GarbageEnds
  BY <1>8 DEF GarbageEnds, BufferTypeOK, traffic, buffer
<1> QED
  BY <1>1, <1>2, <1>3, <1>4, <1>5, <1>6, <1>7, <1>8 DEF Turn

LEMMA StepTypes == BufferTypeOK /\ [BufferNext]_bufferVars => BufferTypeOK'
<1> SUFFICES ASSUME BufferTypeOK, [BufferNext]_bufferVars PROVE BufferTypeOK'
  OBVIOUS
<1>1. CASE UNCHANGED bufferVars
  BY <1>1 DEF BufferTypeOK, bufferVars
<1>2. ASSUME NEW m \in Messages, WriteMessage(m) PROVE BufferTypeOK'
  BY <1>2, TrafficAssumption, PutTypes DEF WriteMessage
<1>3. ASSUME NEW f \in Frames, OtherSends(f) PROVE BufferTypeOK'
  BY <1>3, TrafficAssumption, PutTypes DEF OtherSends
<1>4. ASSUME NEW b \in NoiseBytes, SpuriousByte(b) PROVE BufferTypeOK'
  BY <1>4, TrafficAssumption DEF SpuriousByte, BufferTypeOK, buffer
<1>5. CASE IncomingByte
  BY <1>5, IncomingByteTypes
<1>6. CASE Process
  BY <1>6 DEF Process, BufferTypeOK, traffic, buffer
<1>7. CASE Turn
  BY <1>7, TurnTypes
<1> QED
  BY <1>1, <1>2, <1>3, <1>4, <1>5, <1>6, <1>7 DEF BufferNext

(* Every reachable state has its type; a byte that arrives has a place in the  *)
(* buffer, whatever process removed (ln_remove_bytes, l.63).                   *)
THEOREM BufferTypeCorrect == BufferSpec => []BufferTypeOK
<1>1. BufferInit => BufferTypeOK
  BY InitTypes
<1>2. BufferTypeOK /\ [BufferNext]_bufferVars => BufferTypeOK'
  BY StepTypes
<1> QED
  BY <1>1, <1>2, PTL DEF BufferSpec

-------------------------------------------------------------------------------
(* What is delivered was written.                                              *)

\* The bytes that were not looked at yet: those in the buffer, and those on the line.
Unparsed ==
    [i \in 1..(lnBufferLocation + Len(line)) |->
        IF i <= lnBufferLocation THEN lnBuffer[i - 1] ELSE line[i - lnBufferLocation]]

\* f is in the bytes s, from place a on.
LiesAt(f, s, n, a) == a + Len(f) - 1 <= n /\ \A t \in 1..Len(f) : s[a + t - 1] = f[t]

\* The frames w[j] of J, the last of all, are whole in the n bytes s and in their order,
\* and nothing else in s looks like an opcode.
Whole(s, n, w, J, at) ==
    /\ at \in [J -> 1..n]
    /\ \A i, j \in J : i < j => at[i] < at[j]
    /\ \A j \in J : LiesAt(w[j], s, n, at[j])
    /\ \A p \in 1..n : IsOpcode(s[p]) => \E j \in J : at[j] = p
LastOf(w, J) == J \subseteq DOMAIN w /\ \A i \in J, j \in DOMAIN w : i < j => j \in J

\* What was delivered is what was written before the frames of J.
DeliveredBefore(d, w, J) ==
    \E place \in [Ordinary(d) -> Ordinary(w)] :
        /\ \A i, j \in Ordinary(d) : i < j => place[i] < place[j]
        /\ \A i \in Ordinary(d) : d[i] = w[place[i]] /\ place[i] \notin J

Stream(s, n, w, d) ==
    \E J : LastOf(w, J) /\ DeliveredBefore(d, w, J) /\ \E at : Whole(s, n, w, J, at)

Remaining == lnBufferLocation + Len(line)
StreamInv ==
    /\ BufferTypeOK
    /\ \A j \in DOMAIN written : WellFormed(written[j])
    /\ Stream(Unparsed, Remaining, written, delivered)

LEMMA LengthFacts ==
    ASSUME NEW f, WellFormed(f), f \in Seq(Byte)
    PROVE  Len(f) \in Nat /\ Len(f) >= 2 /\ IsOpcode(f[1])
    BY DEF WellFormed

(* Bytes at the beginning are forgotten, with the frames that begin there. *)
LEMMA DropKeepsWhole ==
    ASSUME NEW w \in Seq(Seq(Byte)), NEW n \in Nat, NEW m \in 0..n, NEW s, NEW s2, NEW J, NEW at,
           \A j \in DOMAIN w : WellFormed(w[j]),
           LastOf(w, J), Whole(s, n, w, J, at), \A i \in 1..(n - m) : s2[i] = s[i + m],
           NEW K, \A j : j \in K <=> j \in J /\ at[j] > m
    PROVE  LastOf(w, K) /\ \E b : Whole(s2, n - m, w, K, b)
<1> DEFINE b == [j \in K |-> at[j] - m]
<1>1. /\ at \in [J -> 1..n] /\ \A i, j \in J : i < j => at[i] < at[j]
      /\ J \subseteq DOMAIN w /\ \A i \in J, j \in DOMAIN w : i < j => j \in J
  BY DEF Whole, LastOf
<1>2. DOMAIN w \subseteq Nat /\ m \in Nat
  OBVIOUS
<1>3. LastOf(w, K)
  <2> SUFFICES ASSUME NEW i \in K, NEW j \in DOMAIN w, i < j PROVE j \in K
    BY <1>1 DEF LastOf
  <2>1. j \in J /\ at[i] < at[j] /\ at[i] > m /\ at[i] \in 1..n /\ at[j] \in 1..n
    BY <1>1
  <2> QED
    BY <2>1
<1>4. \A j \in K : at[j] \in 1..n /\ at[j] > m /\ b[j] = at[j] - m /\ b[j] \in 1..(n - m)
  BY <1>1
<1>5. b \in [K -> 1..(n - m)]
  BY <1>4
<1> HIDE DEF b
<1>6. \A i, j \in K : i < j => b[i] < b[j]
  <2> SUFFICES ASSUME NEW i \in K, NEW j \in K, i < j PROVE b[i] < b[j]
    OBVIOUS
  <2>1. at[i] < at[j]
    BY <1>1
  <2> QED
    BY <2>1, <1>4
<1>7. ASSUME NEW j \in K PROVE LiesAt(w[j], s2, n - m, b[j])
  <2>1. LiesAt(w[j], s, n, at[j]) /\ w[j] \in Seq(Byte)
    BY <1>1 DEF Whole
  <2>2. Len(w[j]) \in Nat /\ Len(w[j]) >= 2
    BY <2>1, <1>1, LengthFacts
  <2>a. at[j] + Len(w[j]) - 1 <= n /\ b[j] = at[j] - m /\ at[j] \in Nat /\ m \in Nat /\ n \in Nat
    BY <2>1, <1>4 DEF LiesAt
  <2>3. b[j] + Len(w[j]) - 1 <= n - m
    BY ONLY <2>a, <2>2
  <2>4. ASSUME NEW t \in 1..Len(w[j]) PROVE s2[b[j] + t - 1] = w[j][t]
    <3>1. b[j] + t - 1 \in 1..(n - m) /\ (b[j] + t - 1) + m = at[j] + t - 1
      <4>1. b[j] \in Nat /\ b[j] >= 1 /\ n - m \in Nat /\ t \in Nat /\ t >= 1 /\ t <= Len(w[j])
        BY <2>2, <1>4
      <4> QED
        <5>1. b[j] + t - 1 \in Nat /\ b[j] + t - 1 >= 1 /\ b[j] + t - 1 <= n - m
          BY ONLY SMTT(30), <4>1, <2>3, <2>2
        <5>2. (b[j] + t - 1) + m = at[j] + t - 1
          BY ONLY <4>1, <2>a
        <5> QED
          BY ONLY <5>1, <5>2, <4>1
    <3>2. s[at[j] + t - 1] = w[j][t]
      BY <2>1 DEF LiesAt
    <3>3. s2[b[j] + t - 1] = s[(b[j] + t - 1) + m]
      BY <3>1
    <3> QED
      BY <3>1, <3>2, <3>3
  <2> QED
    BY <2>3, <2>4 DEF LiesAt
<1>8. ASSUME NEW p \in 1..(n - m), IsOpcode(s2[p]) PROVE \E j \in K : b[j] = p
  <2>1. p + m \in 1..n /\ IsOpcode(s[p + m])
    BY <1>8
  <2>2. PICK j \in J : at[j] = p + m
    BY <2>1 DEF Whole
  <2> QED
    BY <2>2, <1>4
<1>9. Whole(s2, n - m, w, K, b)
  BY <1>5, <1>6, <1>7, <1>8 DEF Whole
<1> QED
  BY <1>3, <1>9

LEMMA DropKeepsStream ==
    ASSUME NEW w \in Seq(Seq(Byte)), NEW n \in Nat, NEW m \in 0..n, NEW s, NEW s2, NEW d,
           \A j \in DOMAIN w : WellFormed(w[j]),
           Stream(s, n, w, d), \A i \in 1..(n - m) : s2[i] = s[i + m]
    PROVE  Stream(s2, n - m, w, d)
<1>1. PICK J : LastOf(w, J) /\ DeliveredBefore(d, w, J) /\ \E at : Whole(s, n, w, J, at)
  BY DEF Stream
<1>2. PICK at : Whole(s, n, w, J, at)
  BY <1>1
<1> DEFINE K == {j \in J : at[j] > m}
<1>a. \A j : j \in K <=> j \in J /\ at[j] > m
  OBVIOUS
<1> HIDE DEF K
<1>3. LastOf(w, K) /\ \E b : Whole(s2, n - m, w, K, b)
  <2>1. /\ w \in Seq(Seq(Byte)) /\ n \in Nat /\ m \in 0..n
        /\ \A j \in DOMAIN w : WellFormed(w[j])
        /\ \A i \in 1..(n - m) : s2[i] = s[i + m]
    OBVIOUS
  <2> QED
    BY ONLY <2>1, <1>a, <1>1, <1>2, DropKeepsWhole
<1>4. K \subseteq J
  BY <1>a
<1>5. DeliveredBefore(d, w, K)
  BY <1>1, <1>4 DEF DeliveredBefore
<1> QED
  BY <1>3, <1>5 DEF Stream

(* A frame that is delivered was the next one; then its bytes are forgotten.   *)
LEMMA HeadIsDelivered ==
    ASSUME NEW w \in Seq(Seq(Byte)), NEW n \in Nat, NEW m \in 1..n, NEW s, NEW s2, NEW f, NEW d \in Seq(Seq(Byte)),
           \A j \in DOMAIN w : WellFormed(w[j]), IsOpcode(s[1]), ~IsSlotData(s[1]),
           \A g \in Seq(Byte) : WellFormed(g) /\ LiesAt(g, s, n, 1) => Len(g) = m /\ g = f,
           Stream(s, n, w, d), \A i \in 1..(n - m) : s2[i] = s[i + m]
    PROVE  Stream(s2, n - m, w, Append(d, f))
<1>1. PICK J : LastOf(w, J) /\ DeliveredBefore(d, w, J) /\ \E at : Whole(s, n, w, J, at)
  BY DEF Stream
<1>2. PICK at : Whole(s, n, w, J, at)
  BY <1>1
<1> DEFINE K == {j \in J : at[j] > m}
<1>a. \A j : j \in K <=> j \in J /\ at[j] > m
  OBVIOUS
<1> HIDE DEF K
<1>3. LastOf(w, K) /\ \E b : Whole(s2, n - m, w, K, b)
  <2>1. /\ w \in Seq(Seq(Byte)) /\ n \in Nat /\ m \in 0..n
        /\ \A j \in DOMAIN w : WellFormed(w[j])
        /\ \A i \in 1..(n - m) : s2[i] = s[i + m]
    OBVIOUS
  <2> QED
    BY ONLY <2>1, <1>a, <1>1, <1>2, DropKeepsWhole
<1>4. 1 \in 1..n
  OBVIOUS
<1>5. PICK q \in J : at[q] = 1
  BY <1>2, <1>4 DEF Whole
<1>6. q \in DOMAIN w /\ J \subseteq DOMAIN w /\ \A i \in J, j \in DOMAIN w : i < j => j \in J
  BY <1>1, <1>5 DEF LastOf
<1>7. w[q] \in Seq(Byte) /\ WellFormed(w[q]) /\ LiesAt(w[q], s, n, 1)
  BY <1>2, <1>5, <1>6 DEF Whole
<1>8. f = w[q] /\ f \in Seq(Byte)
  BY <1>7
<1>9. w[q][1] = s[1]
  <2>1. Len(w[q]) \in Nat /\ Len(w[q]) >= 2
    BY <1>7, LengthFacts
  <2>2. 1 \in 1..Len(w[q])
    BY <2>1
  <2>3. s[1 + 1 - 1] = w[q][1]
    BY <2>2, <1>7 DEF LiesAt
  <2> QED
    BY <2>3
<1>10. q \in Ordinary(w) /\ q \notin K /\ K \subseteq J
  BY <1>a, <1>5, <1>6, <1>9 DEF Ordinary
<1> DEFINE e == Append(d, f)
           z == Len(d) + 1
<1>11. /\ DOMAIN d \subseteq Nat /\ z \in Nat /\ z \notin DOMAIN d /\ \A i \in DOMAIN d : i < z
       /\ DOMAIN e = DOMAIN d \cup {z} /\ e[z] = f /\ \A i \in DOMAIN d : e[i] = d[i]
  BY SMTT(30), <1>8
<1>12. Ordinary(e) = Ordinary(d) \cup {z} /\ z \notin Ordinary(d) /\ Ordinary(d) \subseteq DOMAIN d
  BY <1>11, <1>8, <1>9 DEF Ordinary
<1>13. PICK place \in [Ordinary(d) -> Ordinary(w)] :
           /\ \A i, j \in Ordinary(d) : i < j => place[i] < place[j]
           /\ \A i \in Ordinary(d) : d[i] = w[place[i]] /\ place[i] \notin J
  BY <1>1 DEF DeliveredBefore
<1> DEFINE longer == [i \in Ordinary(e) |-> IF i = z THEN q ELSE place[i]]
<1>14. longer[z] = q /\ \A i \in Ordinary(d) : longer[i] = place[i] /\ place[i] \in Ordinary(w)
  BY <1>12
<1>15. longer \in [Ordinary(e) -> Ordinary(w)]
  BY <1>10, <1>12, <1>13
<1>16. \A i \in Ordinary(d) : place[i] \in DOMAIN w /\ place[i] < q
  <2> SUFFICES ASSUME NEW i \in Ordinary(d) PROVE place[i] \in DOMAIN w /\ place[i] < q
    OBVIOUS
  <2>1. place[i] \in DOMAIN w /\ place[i] \notin J
    BY <1>13 DEF Ordinary
  <2>2. place[i] # q /\ ~(q < place[i])
    BY <2>1, <1>5, <1>6
  <2>3. DOMAIN w \subseteq Nat
    OBVIOUS
  <2> QED
    BY <2>1, <2>2, <2>3, <1>6
<1> HIDE DEF longer, e, z
<1>17. ASSUME NEW i \in Ordinary(e), NEW j \in Ordinary(e), i < j PROVE longer[i] < longer[j]
  <2>1. i # z
    BY <1>17, <1>11, <1>12
  <2>2. i \in Ordinary(d)
    BY <2>1, <1>12
  <2>3. CASE j = z
    BY <2>2, <2>3, <1>14, <1>16
  <2>4. CASE j # z
    <3>1. j \in Ordinary(d)
      BY <2>4, <1>12
    <3> QED
      BY <3>1, <2>2, <1>13, <1>14, <1>17
  <2> QED
    BY <2>3, <2>4
<1>18. ASSUME NEW i \in Ordinary(e) PROVE e[i] = w[longer[i]] /\ longer[i] \notin K
  <2>1. CASE i = z
    BY <2>1, <1>8, <1>10, <1>11, <1>14
  <2>2. CASE i # z
    <3>1. i \in Ordinary(d) /\ i \in DOMAIN d
      BY <2>2, <1>12
    <3> QED
      BY <3>1, <1>10, <1>11, <1>13, <1>14
  <2> QED
    BY <2>1, <2>2
<1>19. DeliveredBefore(e, w, K)
  BY <1>15, <1>17, <1>18 DEF DeliveredBefore
<1>20. Stream(s2, n - m, w, e)
  BY <1>3, <1>19 DEF Stream
<1> QED
  BY <1>20 DEF e

(* A frame that is put on the line comes behind all others.                    *)
LEMMA PutKeepsStream ==
    ASSUME NEW w \in Seq(Seq(Byte)), NEW n \in Nat, NEW s, NEW s2, NEW d, NEW f \in Seq(Byte),
           \A j \in DOMAIN w : WellFormed(w[j]), WellFormed(f), Stream(s, n, w, d),
           \A i \in 1..n : s2[i] = s[i], \A t \in 1..Len(f) : s2[n + t] = f[t]
    PROVE  Stream(s2, n + Len(f), Append(w, f), d)
<1>1. PICK J : LastOf(w, J) /\ DeliveredBefore(d, w, J) /\ \E at : Whole(s, n, w, J, at)
  BY DEF Stream
<1>2. PICK at : Whole(s, n, w, J, at)
  BY <1>1
<1> DEFINE v == Append(w, f)
           z == Len(w) + 1
           K == J \cup {z}
           b == [j \in K |-> IF j = z THEN n + 1 ELSE at[j]]
<1>3. Len(f) \in Nat /\ Len(f) >= 2
  BY LengthFacts
<1>4. /\ z \in Nat /\ z \notin DOMAIN w /\ DOMAIN w \subseteq Nat /\ \A j \in DOMAIN w : j < z
      /\ DOMAIN v = DOMAIN w \cup {z} /\ v[z] = f /\ \A j \in DOMAIN w : v[j] = w[j]
  OBVIOUS
<1>5. /\ J \subseteq DOMAIN w /\ \A i \in J, j \in DOMAIN w : i < j => j \in J
      /\ at \in [J -> 1..n] /\ \A i, j \in J : i < j => at[i] < at[j]
  BY <1>1, <1>2 DEF LastOf, Whole
<1>6. b[z] = n + 1 /\ b[z] \in 1..(n + Len(f))
  BY <1>3
<1>7. \A j \in J : b[j] = at[j] /\ at[j] \in 1..n /\ at[j] \in 1..(n + Len(f)) /\ j # z /\ j \in DOMAIN w
  BY <1>3, <1>4, <1>5
<1>8. b \in [K -> 1..(n + Len(f))]
  BY <1>6, <1>7
<1> HIDE DEF b, v, z
<1>9. LastOf(v, K)
  BY <1>4, <1>5 DEF LastOf
<1>10. ASSUME NEW i \in K, NEW j \in K, i < j PROVE b[i] < b[j]
  <2>1. i # z
    BY <1>10, <1>4, <1>7
  <2>2. i \in J /\ b[i] = at[i] /\ at[i] \in 1..n
    BY <2>1, <1>7
  <2>3. CASE j = z
    BY <2>2, <2>3, <1>6
  <2>4. CASE j # z
    BY <2>2, <2>4, <1>5, <1>7, <1>10
  <2> QED
    BY <2>3, <2>4
<1>11. ASSUME NEW j \in K PROVE LiesAt(v[j], s2, n + Len(f), b[j])
  <2>1. CASE j = z
    <3>1. b[j] + Len(v[j]) - 1 <= n + Len(f)
      BY <2>1, <1>3, <1>4, <1>6
    <3>2. ASSUME NEW t \in 1..Len(v[j]) PROVE s2[b[j] + t - 1] = v[j][t]
      <4>1. t \in 1..Len(f) /\ v[j][t] = f[t] /\ b[j] + t - 1 = n + t
        BY <2>1, <1>3, <1>4, <1>6
      <4> QED
        BY <4>1
    <3> QED
      BY <3>1, <3>2 DEF LiesAt
  <2>2. CASE j # z
    <3>1. j \in J /\ v[j] = w[j] /\ b[j] = at[j] /\ at[j] \in 1..n /\ w[j] \in Seq(Byte) /\ WellFormed(w[j])
      BY <2>2, <1>4, <1>7
    <3>2. LiesAt(w[j], s, n, at[j]) /\ Len(w[j]) \in Nat
      BY <3>1, <1>2 DEF Whole
    <3>a. at[j] + Len(w[j]) - 1 <= n /\ at[j] \in Nat /\ at[j] >= 1
      BY <3>1, <3>2 DEF LiesAt
    <3>3. at[j] + Len(w[j]) - 1 <= n + Len(f)
      BY ONLY <3>a, <3>2, <1>3, n \in Nat
    <3>4. ASSUME NEW t \in 1..Len(w[j]) PROVE s2[at[j] + t - 1] = w[j][t]
      <4>1. at[j] + t - 1 \in 1..n
        BY SMTT(30), <3>2, <3>a
      <4>2. s[at[j] + t - 1] = w[j][t]
        BY <3>2 DEF LiesAt
      <4> QED
        BY <4>1, <4>2
    <3> QED
      BY <3>1, <3>3, <3>4 DEF LiesAt
  <2> QED
    BY <2>1, <2>2
<1>12. ASSUME NEW p \in 1..(n + Len(f)), IsOpcode(s2[p]) PROVE \E j \in K : b[j] = p
  <2>1. CASE p <= n
    <3>1. p \in 1..n /\ IsOpcode(s[p])
      BY <2>1, <1>12
    <3>2. PICK j \in J : at[j] = p
      BY <3>1, <1>2 DEF Whole
    <3> QED
      BY <3>2, <1>7
  <2>2. CASE p = n + 1
    BY <2>2, <1>6
  <2>3. CASE p > n + 1
    <3> DEFINE t == p - n
    <3>1. t \in 2..Len(f) /\ p = n + t
      BY <2>3, <1>3
    <3>2. s2[p] = f[t] /\ ~IsOpcode(f[t])
      BY <3>1 DEF WellFormed
    <3> QED
      BY <3>2, <1>12
  <2> QED
    BY <2>1, <2>2, <2>3
<1>13. Whole(s2, n + Len(f), v, K, b)
  BY <1>8, <1>10, <1>11, <1>12 DEF Whole
<1>14. PICK place \in [Ordinary(d) -> Ordinary(w)] :
           /\ \A i, j \in Ordinary(d) : i < j => place[i] < place[j]
           /\ \A i \in Ordinary(d) : d[i] = w[place[i]] /\ place[i] \notin J
  BY <1>1 DEF DeliveredBefore
<1>15. Ordinary(w) \subseteq Ordinary(v) /\ Ordinary(w) \subseteq DOMAIN w
  BY <1>4 DEF Ordinary
<1>16. place \in [Ordinary(d) -> Ordinary(v)]
  BY <1>14, <1>15
<1>17. \A i \in Ordinary(d) : d[i] = v[place[i]] /\ place[i] \notin K
  BY <1>14, <1>15, <1>4
<1>18. DeliveredBefore(d, v, K)
  BY <1>14, <1>16, <1>17 DEF DeliveredBefore
<1>19. Stream(s2, n + Len(f), v, d)
  BY <1>9, <1>13, <1>18 DEF Stream
<1> QED
  BY <1>19 DEF v

LEMMA NoiseKeepsStream ==
    ASSUME NEW w \in Seq(Seq(Byte)), NEW n \in Nat, NEW s, NEW s2, NEW d,
           Stream(s, n, w, d), \A i \in 1..n : s2[i] = s[i], ~IsOpcode(s2[n + 1])
    PROVE  Stream(s2, n + 1, w, d)
<1>1. PICK J : LastOf(w, J) /\ DeliveredBefore(d, w, J) /\ \E at : Whole(s, n, w, J, at)
  BY DEF Stream
<1>2. PICK at : Whole(s, n, w, J, at)
  BY <1>1
<1>3. at \in [J -> 1..(n + 1)] /\ \A j \in J : at[j] \in 1..n /\ w[j] \in Seq(Byte)
  BY <1>1, <1>2 DEF Whole, LastOf
<1>4. ASSUME NEW j \in J PROVE LiesAt(w[j], s2, n + 1, at[j])
  <2>1. LiesAt(w[j], s, n, at[j]) /\ Len(w[j]) \in Nat /\ at[j] \in 1..n
    BY <1>2, <1>3 DEF Whole
  <2>2. at[j] + Len(w[j]) - 1 <= n /\ at[j] + Len(w[j]) - 1 <= n + 1
    BY <2>1 DEF LiesAt
  <2>3. ASSUME NEW t \in 1..Len(w[j]) PROVE s2[at[j] + t - 1] = w[j][t]
    <3>1. at[j] + t - 1 \in 1..n
      BY SMTT(30), <2>1, <2>2
    <3>2. s[at[j] + t - 1] = w[j][t]
      BY <2>1 DEF LiesAt
    <3> QED
      BY <3>1, <3>2
  <2> QED
    BY <2>2, <2>3 DEF LiesAt
<1>5. ASSUME NEW p \in 1..(n + 1), IsOpcode(s2[p]) PROVE \E j \in J : at[j] = p
  <2>1. p # n + 1
    BY <1>5
  <2>2. p \in 1..n /\ IsOpcode(s[p])
    BY <2>1, <1>5
  <2> QED
    BY <2>2, <1>2 DEF Whole
<1>6. Whole(s2, n + 1, w, J, at)
  BY <1>2, <1>3, <1>4, <1>5 DEF Whole
<1> QED
  BY <1>1, <1>6 DEF Stream

StreamNow == Stream(Unparsed, Remaining, written, delivered)

LEMMA SizesAre ==
    ASSUME BufferTypeOK
    PROVE  /\ lnBufferLocation \in Nat /\ lnBufferLocation < LN_BUFFER_LEN /\ LN_BUFFER_LEN \in Nat
           /\ Len(line) \in Nat /\ Remaining \in Nat /\ Remaining = lnBufferLocation + Len(line)
           /\ written \in Seq(Seq(Byte)) /\ delivered \in Seq(Seq(Byte)) /\ line \in Seq(Byte)
<1>1. lnBufferLocation \in Nat /\ lnBufferLocation < LN_BUFFER_LEN /\ LN_BUFFER_LEN \in Nat
  BY IndexFacts DEF BufferTypeOK
<1>2. Len(line) \in Nat
  BY DEF BufferTypeOK
<1> QED
  BY <1>1, <1>2 DEF BufferTypeOK, Remaining

LEMMA UnparsedIs ==
    ASSUME BufferTypeOK, NEW i \in 1..Remaining
    PROVE  Unparsed[i] = IF i <= lnBufferLocation THEN lnBuffer[i - 1] ELSE line[i - lnBufferLocation]
    BY SizesAre DEF Unparsed

LEMMA UnparsedIsThen ==
    ASSUME BufferTypeOK', NEW i \in 1..Remaining'
    PROVE  Unparsed'[i] = IF i <= lnBufferLocation' THEN lnBuffer'[i - 1] ELSE line'[i - lnBufferLocation']
<1>1. lnBufferLocation' \in Nat /\ Len(line') \in Nat
  BY IndexFacts DEF BufferTypeOK
<1> QED
  BY <1>1 DEF Unparsed, Remaining

(* ln_remove_bytes takes bytes from the beginning, and no byte of the line.    *)
LEMMA RemoveDrops ==
    ASSUME BufferTypeOK, BufferTypeOK', NEW n \in Nat, ln_remove_bytes(n), line' = line
    PROVE  LET m == IF n > lnBufferLocation THEN lnBufferLocation ELSE n
           IN  /\ m \in 0..Remaining /\ Remaining' = Remaining - m
               /\ \A i \in 1..(Remaining - m) : Unparsed'[i] = Unparsed[i + m]
<1> DEFINE m == IF n > lnBufferLocation THEN lnBufferLocation ELSE n
<1>1. lnBufferLocation \in Nat /\ lnBufferLocation < LN_BUFFER_LEN /\ Len(line) \in Nat
      /\ Remaining = lnBufferLocation + Len(line) /\ Remaining \in Nat
  BY SizesAre
<1>2. m \in Nat /\ m <= lnBufferLocation /\ lnBufferLocation' = lnBufferLocation - m
  BY <1>1 DEF ln_remove_bytes
<1>3. \A i \in Index : i < lnBufferLocation - m => lnBuffer'[i] = lnBuffer[i + m]
  <2>1. CASE n > lnBufferLocation
    BY <2>1, <1>1, IndexFacts
  <2>2. CASE ~(n > lnBufferLocation)
    BY <2>2 DEF ln_remove_bytes
  <2> QED
    BY <2>1, <2>2
<1> HIDE DEF m
<1>4. m \in 0..Remaining /\ Remaining' = Remaining - m
  BY <1>1, <1>2 DEF Remaining
<1>5. ASSUME NEW i \in 1..(Remaining - m) PROVE Unparsed'[i] = Unparsed[i + m]
  <2>1. i + m \in 1..Remaining /\ i \in 1..Remaining' /\ i \in Nat /\ i >= 1
    BY <1>1, <1>2, <1>4
  <2>2. CASE i <= lnBufferLocation - m
    <3>1. i - 1 \in Index /\ i - 1 < lnBufferLocation - m /\ (i - 1) + m = (i + m) - 1
      BY <2>1, <2>2, <1>1, <1>2, IndexFacts
    <3>2. lnBuffer'[i - 1] = lnBuffer[(i + m) - 1]
      BY <3>1, <1>3
    <3>3. Unparsed'[i] = lnBuffer'[i - 1]
      BY <2>1, <2>2, <1>2, UnparsedIsThen
    <3>4. i + m <= lnBufferLocation
      BY <2>1, <2>2, <1>1, <1>2
    <3>5. Unparsed[i + m] = lnBuffer[(i + m) - 1]
      BY <2>1, <3>4, UnparsedIs
    <3> QED
      BY <3>2, <3>3, <3>5
  <2>3. CASE ~(i <= lnBufferLocation - m)
    <3>1. Unparsed'[i] = line'[i - lnBufferLocation']
      BY <2>1, <2>3, <1>2, UnparsedIsThen
    <3>2. ~(i + m <= lnBufferLocation) /\ i - lnBufferLocation' = (i + m) - lnBufferLocation
      BY <2>1, <2>3, <1>1, <1>2
    <3>3. Unparsed[i + m] = line[(i + m) - lnBufferLocation]
      BY <2>1, <3>2, UnparsedIs
    <3> QED
      BY <3>1, <3>2, <3>3
  <2> QED
    BY <2>2, <2>3
<1> QED
  BY <1>4, <1>5 DEF m

LEMMA RemoveKeepsStream ==
    ASSUME StreamInv, BufferTypeOK', NEW n \in Nat, ln_remove_bytes(n), UNCHANGED <<line, written, delivered>>
    PROVE  StreamNow'
<1> DEFINE m == IF n > lnBufferLocation THEN lnBufferLocation ELSE n
<1>1. BufferTypeOK /\ (\A j \in DOMAIN written : WellFormed(written[j]))
      /\ Stream(Unparsed, Remaining, written, delivered)
  BY DEF StreamInv
<1>2. /\ m \in 0..Remaining /\ Remaining' = Remaining - m
      /\ \A i \in 1..(Remaining - m) : Unparsed'[i] = Unparsed[i + m]
  BY <1>1, RemoveDrops
<1>3. written \in Seq(Seq(Byte)) /\ Remaining \in Nat
  BY <1>1, SizesAre
<1> HIDE DEF m
<1>4. Stream(Unparsed', Remaining - m, written, delivered)
  BY ONLY <1>1, <1>2, <1>3, DropKeepsStream
<1>5. written' = written /\ delivered' = delivered
  OBVIOUS
<1> QED
  BY ONLY <1>2, <1>4, <1>5 DEF StreamNow

(* What Bytes(n) shows of n bytes that are in use.                             *)
LEMMA BytesAre ==
    ASSUME BufferTypeOK, NEW n \in Nat, n <= lnBufferLocation
    PROVE  /\ Len(Bytes(n)) = n /\ DOMAIN Bytes(n) = 1..n
           /\ \A i \in 1..n : Bytes(n)[i] = Unparsed[i] /\ Unparsed[i] = lnBuffer[i - 1]
<1>1. lnBufferLocation \in Nat /\ lnBufferLocation < LN_BUFFER_LEN /\ LN_BUFFER_LEN \in Nat
      /\ Len(line) \in Nat /\ Remaining = lnBufferLocation + Len(line)
  BY SizesAre
<1>2. ASSUME NEW i \in 1..n PROVE Bytes(n)[i] = lnBuffer[i - 1] /\ Unparsed[i] = lnBuffer[i - 1]
  <2>1. i \in 1..Remaining /\ i <= lnBufferLocation /\ i <= LN_BUFFER_LEN
    BY <1>1
  <2> QED
    BY <2>1, UnparsedIs DEF Bytes
<1>3. DOMAIN Bytes(n) = 1..n /\ Bytes(n) \in Seq(Byte)
  BY BytesAreBytes DEF Bytes
<1>4. Len(Bytes(n)) = n
  BY <1>3
<1> QED
  BY <1>2, <1>3, <1>4

LEMMA SlotDataKeepsStream ==
    ASSUME NEW w, NEW n, NEW s, NEW d \in Seq(Seq(Byte)), NEW f \in Seq(Byte),
           Stream(s, n, w, d), IsSlotData(f[1])
    PROVE  Stream(s, n, w, Append(d, f))
<1>1. PICK J : LastOf(w, J) /\ DeliveredBefore(d, w, J) /\ \E at : Whole(s, n, w, J, at)
  BY DEF Stream
<1> DEFINE e == Append(d, f)
<1>2. DOMAIN e = DOMAIN d \cup {Len(d) + 1} /\ e[Len(d) + 1] = f /\ \A i \in DOMAIN d : e[i] = d[i]
  OBVIOUS
<1> HIDE DEF e
<1>3. Ordinary(e) = Ordinary(d) /\ Ordinary(d) \subseteq DOMAIN d
  BY <1>2 DEF Ordinary
<1>4. PICK place \in [Ordinary(d) -> Ordinary(w)] :
           /\ \A i, j \in Ordinary(d) : i < j => place[i] < place[j]
           /\ \A i \in Ordinary(d) : d[i] = w[place[i]] /\ place[i] \notin J
  BY <1>1 DEF DeliveredBefore
<1>5. \A i \in Ordinary(e) : e[i] = w[place[i]] /\ place[i] \notin J
  BY <1>2, <1>3, <1>4
<1>6. DeliveredBefore(e, w, J)
  BY <1>3, <1>4, <1>5 DEF DeliveredBefore
<1>7. Stream(s, n, w, e)
  BY <1>1, <1>6 DEF Stream
<1> QED
  BY <1>7 DEF e

(* Slot data is delivered, with bytes of an earlier one or not.                *)
LEMMA SlotDataDelivered ==
    ASSUME StreamInv, BufferTypeOK', NEW n \in Nat, n >= 1, Deliver(n), IsSlotData(lnBuffer[0]), UNCHANGED <<line, written>>
    PROVE  StreamNow'
<1> DEFINE m == IF n > lnBufferLocation THEN lnBufferLocation ELSE n
<1>1. BufferTypeOK /\ (\A j \in DOMAIN written : WellFormed(written[j]))
      /\ Stream(Unparsed, Remaining, written, delivered)
  BY DEF StreamInv
<1>2. ln_remove_bytes(n) /\ delivered' = Append(delivered, Bytes(n))
  BY DEF Deliver
<1>3. /\ m \in 0..Remaining /\ Remaining' = Remaining - m
      /\ \A i \in 1..(Remaining - m) : Unparsed'[i] = Unparsed[i + m]
  BY <1>1, <1>2, RemoveDrops
<1>4. written \in Seq(Seq(Byte)) /\ delivered \in Seq(Seq(Byte)) /\ Remaining \in Nat
  BY <1>1, SizesAre
<1> HIDE DEF m
<1>5. Stream(Unparsed', Remaining - m, written, delivered)
  BY ONLY <1>1, <1>3, <1>4, DropKeepsStream
<1>6. Bytes(n) \in Seq(Byte)
  BY <1>1, BytesAreBytes
<1>7. IsSlotData(Bytes(n)[1])
  BY IndexFacts DEF Bytes
<1> HIDE DEF Bytes
<1>8. Stream(Unparsed', Remaining - m, written, Append(delivered, Bytes(n)))
  BY ONLY <1>4, <1>5, <1>6, <1>7, SlotDataKeepsStream
<1>9. written' = written
  OBVIOUS
<1> QED
  BY ONLY <1>2, <1>3, <1>8, <1>9 DEF StreamNow

(* Another message is delivered when it is there as a whole: the frame that    *)
(* begins with its opcode is as long as its first two bytes tell.              *)
LEMMA MessageDelivered ==
    ASSUME StreamInv, BufferTypeOK', NEW n \in Nat, n >= 1, n <= lnBufferLocation, lnBufferLocation > 2,
           Deliver(n), IsOpcode(lnBuffer[0]), ~IsSlotData(lnBuffer[0]), UNCHANGED <<line, written>>,
           \A g \in Seq(Byte) : WellFormed(g) /\ g[1] = lnBuffer[0] /\ g[2] = lnBuffer[1] => Len(g) = n
    PROVE  StreamNow'
<1>1. BufferTypeOK /\ (\A j \in DOMAIN written : WellFormed(written[j]))
      /\ Stream(Unparsed, Remaining, written, delivered)
  BY DEF StreamInv
<1>2. ln_remove_bytes(n) /\ delivered' = Append(delivered, Bytes(n))
  BY DEF Deliver
<1>3. written \in Seq(Seq(Byte)) /\ delivered \in Seq(Seq(Byte)) /\ Remaining \in Nat
      /\ lnBufferLocation \in Nat /\ Remaining >= lnBufferLocation
  BY <1>1, SizesAre
<1>4. /\ n \in 1..Remaining /\ Remaining' = Remaining - n
      /\ \A i \in 1..(Remaining - n) : Unparsed'[i] = Unparsed[i + n]
  <2>1. ~(n > lnBufferLocation)
    BY <1>3
  <2>2. LET m == IF n > lnBufferLocation THEN lnBufferLocation ELSE n
        IN  /\ m \in 0..Remaining /\ Remaining' = Remaining - m
            /\ \A i \in 1..(Remaining - m) : Unparsed'[i] = Unparsed[i + m]
    BY <1>1, <1>2, RemoveDrops
  <2> QED
    BY <2>1, <2>2
<1>5. Unparsed[1] = lnBuffer[0] /\ Unparsed[2] = lnBuffer[1]
  <2>1. 1 \in 1..Remaining /\ 2 \in 1..Remaining /\ 1 <= lnBufferLocation /\ 2 <= lnBufferLocation
    BY <1>3
  <2>2. Unparsed[1] = lnBuffer[1 - 1] /\ Unparsed[2] = lnBuffer[2 - 1]
    BY ONLY <2>1, <1>1, UnparsedIs
  <2>3. 1 - 1 = 0 /\ 2 - 1 = 1
    OBVIOUS
  <2> QED
    BY ONLY <2>2, <2>3
<1>6. ASSUME NEW g \in Seq(Byte), WellFormed(g), LiesAt(g, Unparsed, Remaining, 1)
      PROVE  Len(g) = n /\ g = Bytes(n)
  <2>1. Len(g) \in Nat /\ Len(g) >= 2
    BY <1>6, LengthFacts
  <2>2. \A t \in 1..Len(g) : Unparsed[t] = g[t]
    <3> SUFFICES ASSUME NEW t \in 1..Len(g) PROVE Unparsed[t] = g[t]
      OBVIOUS
    <3>1. 1 + t - 1 = t
      BY <2>1
    <3> QED
      BY <3>1, <1>6 DEF LiesAt
  <2>3. g[1] = lnBuffer[0] /\ g[2] = lnBuffer[1]
    BY <2>1, <2>2, <1>5
  <2>4. Len(g) = n
    BY <2>3, <1>6
  <2>5. Bytes(n) \in Seq(Byte) /\ Len(Bytes(n)) = n /\ \A i \in 1..n : Bytes(n)[i] = Unparsed[i]
    BY <1>1, BytesAre, BytesAreBytes
  <2> HIDE DEF Bytes
  <2> QED
    BY <2>2, <2>4, <2>5
<1> HIDE DEF Bytes
<1>7. Stream(Unparsed', Remaining - n, written, Append(delivered, Bytes(n)))
  <2>1. IsOpcode(Unparsed[1]) /\ ~IsSlotData(Unparsed[1])
    BY <1>5
  <2> QED
    BY ONLY <1>1, <1>3, <1>4, <1>6, <2>1, HeadIsDelivered
<1>8. written' = written
  OBVIOUS
<1> QED
  BY ONLY <1>2, <1>4, <1>7, <1>8 DEF StreamNow

(* Nothing but the frames on the line changes what was read. *)
LEMMA QuietKeepsStream ==
    ASSUME StreamInv, UNCHANGED <<line, buffer, written, delivered>>
    PROVE  StreamNow'
<1>1. /\ line' = line /\ lnBuffer' = lnBuffer /\ lnBufferLocation' = lnBufferLocation
      /\ written' = written /\ delivered' = delivered
  BY DEF buffer
<1>2. StreamNow
  BY DEF StreamInv, StreamNow
<1>3. Unparsed' = Unparsed /\ Remaining' = Remaining
  BY <1>1 DEF Unparsed, Remaining
<1> QED
  BY <1>1, <1>2, <1>3 DEF StreamNow

LEMMA LongerLine ==
    ASSUME BufferTypeOK, BufferTypeOK', NEW more \in Seq(Byte), line' = line \o more, UNCHANGED buffer
    PROVE  /\ Remaining' = Remaining + Len(more)
           /\ \A i \in 1..Remaining : Unparsed'[i] = Unparsed[i]
           /\ \A t \in 1..Len(more) : Unparsed'[Remaining + t] = more[t]
<1>1. /\ lnBufferLocation \in Nat /\ Len(line) \in Nat /\ Remaining = lnBufferLocation + Len(line)
      /\ Remaining \in Nat /\ line \in Seq(Byte)
  BY SizesAre
<1>2. /\ lnBuffer' = lnBuffer /\ lnBufferLocation' = lnBufferLocation
      /\ Len(line') = Len(line) + Len(more) /\ Len(more) \in Nat
      /\ \A i \in 1..Len(line) : line'[i] = line[i]
      /\ \A t \in 1..Len(more) : line'[Len(line) + t] = more[t]
  BY <1>1 DEF buffer
<1>3. Remaining' = Remaining + Len(more)
  BY <1>1, <1>2 DEF Remaining
<1>4. ASSUME NEW i \in 1..Remaining PROVE Unparsed'[i] = Unparsed[i]
  <2>1. i \in 1..Remaining'
    BY <1>1, <1>2, <1>3
  <2>2. Unparsed'[i] = IF i <= lnBufferLocation THEN lnBuffer[i - 1] ELSE line'[i - lnBufferLocation]
    BY <2>1, <1>2, UnparsedIsThen
  <2>3. ~(i <= lnBufferLocation) => i - lnBufferLocation \in 1..Len(line)
    BY <1>1
  <2> QED
    BY <2>2, <2>3, <1>2, UnparsedIs
<1>5. ASSUME NEW t \in 1..Len(more) PROVE Unparsed'[Remaining + t] = more[t]
  <2>1. Remaining + t \in 1..Remaining' /\ ~(Remaining + t <= lnBufferLocation)
        /\ (Remaining + t) - lnBufferLocation = Len(line) + t
    BY <1>1, <1>2, <1>3
  <2>2. Unparsed'[Remaining + t] = line'[(Remaining + t) - lnBufferLocation]
    BY <2>1, <1>2, UnparsedIsThen
  <2> QED
    BY <2>1, <2>2, <1>2
<1> QED
  BY <1>3, <1>4, <1>5

LEMMA PutKeeps ==
    ASSUME StreamInv, BufferTypeOK', NEW frame \in Seq(Byte), WellFormed(frame), Put(frame)
    PROVE  StreamInv'
<1>1. BufferTypeOK /\ (\A j \in DOMAIN written : WellFormed(written[j]))
      /\ Stream(Unparsed, Remaining, written, delivered)
  BY DEF StreamInv
<1>2. written \in Seq(Seq(Byte)) /\ Remaining \in Nat
  BY <1>1, SizesAre
<1>3. /\ line' = line \o frame /\ written' = Append(written, frame)
      /\ UNCHANGED buffer /\ delivered' = delivered
  BY DEF Put
<1>4. /\ Remaining' = Remaining + Len(frame)
      /\ \A i \in 1..Remaining : Unparsed'[i] = Unparsed[i]
      /\ \A t \in 1..Len(frame) : Unparsed'[Remaining + t] = frame[t]
  BY <1>1, <1>3, LongerLine
<1>5. Stream(Unparsed', Remaining + Len(frame), Append(written, frame), delivered)
  BY ONLY <1>1, <1>2, <1>4, WellFormed(frame), frame \in Seq(Byte), PutKeepsStream
<1>6. \A j \in DOMAIN written' : WellFormed(written'[j])
  BY <1>1, <1>2, <1>3
<1>7. Stream(Unparsed', Remaining', written', delivered')
  BY ONLY <1>3, <1>4, <1>5
<1> QED
  BY <1>6, <1>7 DEF StreamInv

LEMMA SpuriousKeeps ==
    ASSUME StreamInv, BufferTypeOK', NEW b \in NoiseBytes, SpuriousByte(b)
    PROVE  StreamNow'
<1>1. BufferTypeOK /\ (\A j \in DOMAIN written : WellFormed(written[j]))
      /\ Stream(Unparsed, Remaining, written, delivered)
  BY DEF StreamInv
<1>2. written \in Seq(Seq(Byte)) /\ Remaining \in Nat /\ line \in Seq(Byte)
  BY <1>1, SizesAre
<1>3. b \in Byte /\ ~IsOpcode(b)
  BY TrafficAssumption, FormatAssumption
<1>4. /\ line' = line \o <<b>> /\ UNCHANGED buffer /\ UNCHANGED <<written, delivered>>
      /\ <<b>> \in Seq(Byte) /\ Len(<<b>>) = 1 /\ <<b>>[1] = b
  BY <1>2, <1>3 DEF SpuriousByte
<1>5. /\ Remaining' = Remaining + 1
      /\ \A i \in 1..Remaining : Unparsed'[i] = Unparsed[i]
      /\ Unparsed'[Remaining + 1] = b
  <2> DEFINE more == <<b>>
  <2>1. more \in Seq(Byte) /\ line' = line \o more /\ UNCHANGED buffer /\ Len(more) = 1 /\ more[1] = b
    BY <1>4
  <2> HIDE DEF more
  <2>2. /\ Remaining' = Remaining + Len(more)
        /\ \A i \in 1..Remaining : Unparsed'[i] = Unparsed[i]
        /\ \A t \in 1..Len(more) : Unparsed'[Remaining + t] = more[t]
    BY ONLY <1>1, <2>1, BufferTypeOK', LongerLine
  <2>3. 1 \in 1..Len(more)
    BY <2>1
  <2> QED
    BY ONLY <2>1, <2>2, <2>3
<1>6. Stream(Unparsed', Remaining + 1, written, delivered)
  BY ONLY <1>1, <1>2, <1>3, <1>5, NoiseKeepsStream
<1> QED
  BY ONLY <1>4, <1>5, <1>6 DEF StreamNow

LEMMA SmallMod == ASSUME NEW x \in Nat, NEW n \in Nat, x < n PROVE x % n = x
OBVIOUS

(* A byte that is read leaves the line for the buffer; a buffer that is full   *)
(* is forgotten.                                                               *)
LEMMA IncomingByteKeeps ==
    ASSUME StreamInv, BufferTypeOK', IncomingByte
    PROVE  StreamNow'
<1> DEFINE m == IF lnBufferLocation + 1 < LN_BUFFER_LEN THEN 0 ELSE lnBufferLocation + 1
<1>1. BufferTypeOK /\ (\A j \in DOMAIN written : WellFormed(written[j]))
      /\ Stream(Unparsed, Remaining, written, delivered)
  BY DEF StreamInv
<1>2. /\ lnBufferLocation \in Nat /\ lnBufferLocation < LN_BUFFER_LEN /\ LN_BUFFER_LEN \in Nat
      /\ Len(line) \in Nat /\ Remaining \in Nat /\ Remaining = lnBufferLocation + Len(line)
      /\ written \in Seq(Seq(Byte)) /\ line \in Seq(Byte)
  BY <1>1, SizesAre
<1>3. /\ line # <<>> /\ line' = Tail(line) /\ written' = written /\ delivered' = delivered
      /\ lnBuffer' = [lnBuffer EXCEPT ![lnBufferLocation] = Head(line)]
      /\ lnBufferLocation' = (lnBufferLocation + 1) % LN_BUFFER_LEN
  BY DEF IncomingByte
<1>4. /\ Len(line) >= 1 /\ Len(line') = Len(line) - 1 /\ Head(line) = line[1]
      /\ \A i \in 1..(Len(line) - 1) : line'[i] = line[i + 1]
  BY <1>2, <1>3
<1>5. lnBufferLocation' = IF lnBufferLocation + 1 < LN_BUFFER_LEN THEN lnBufferLocation + 1 ELSE 0
  <2>1. CASE lnBufferLocation + 1 < LN_BUFFER_LEN
    <3>1. lnBufferLocation + 1 \in Nat
      BY ONLY <1>2
    <3>2. (lnBufferLocation + 1) % LN_BUFFER_LEN = lnBufferLocation + 1
      BY ONLY <3>1, <2>1, <1>2, SmallMod
    <3> QED
      BY ONLY <2>1, <3>2, <1>3
  <2>2. CASE ~(lnBufferLocation + 1 < LN_BUFFER_LEN)
    <3>1. lnBufferLocation + 1 = LN_BUFFER_LEN
      BY <2>2, <1>2
    <3>2. LN_BUFFER_LEN % LN_BUFFER_LEN = 0
      BY ONLY <1>2
    <3> QED
      BY ONLY <2>2, <3>1, <3>2, <1>3
  <2> QED
    BY <2>1, <2>2
<1>6. lnBuffer \in [Index -> Byte] /\ \A i : i \in Index <=> (i \in Nat /\ i < LN_BUFFER_LEN)
  BY <1>1, IndexFacts DEF BufferTypeOK
<1>7. m \in 0..Remaining /\ Remaining' = Remaining - m
  BY <1>2, <1>4, <1>5 DEF Remaining
<1>8. ASSUME NEW i \in 1..(Remaining - m) PROVE Unparsed'[i] = Unparsed[i + m]
  <2>1. i \in 1..Remaining' /\ i + m \in 1..Remaining
    BY <1>2, <1>7
  <2>2. CASE lnBufferLocation + 1 < LN_BUFFER_LEN
    <3>1. m = 0 /\ i + m = i /\ lnBufferLocation' = lnBufferLocation + 1 /\ i \in 1..Remaining
      BY <2>1, <2>2, <1>5
    <3>2. Unparsed'[i] = IF i <= lnBufferLocation + 1 THEN lnBuffer'[i - 1]
                         ELSE line'[i - (lnBufferLocation + 1)]
      BY <2>1, <3>1, UnparsedIsThen
    <3>3. Unparsed[i] = IF i <= lnBufferLocation THEN lnBuffer[i - 1] ELSE line[i - lnBufferLocation]
      BY <3>1, <1>1, UnparsedIs
    <3>4. CASE i <= lnBufferLocation
      <4>1. i - 1 \in Index /\ i - 1 # lnBufferLocation
        BY <3>4, <1>2, <1>6
      <4>2. lnBuffer'[i - 1] = lnBuffer[i - 1] /\ i <= lnBufferLocation + 1
        BY <4>1, <3>4, <1>2, <1>3, <1>6
      <4> QED
        BY <3>1, <3>2, <3>3, <3>4, <4>2
    <3>5. CASE i = lnBufferLocation + 1
      <4>1. i - 1 = lnBufferLocation /\ i - lnBufferLocation = 1 /\ ~(i <= lnBufferLocation)
            /\ i <= lnBufferLocation + 1
        BY <3>5, <1>2
      <4>2. lnBuffer'[lnBufferLocation] = line[1]
        BY <1>2, <1>3, <1>4, <1>6
      <4> QED
        BY <3>1, <3>2, <3>3, <4>1, <4>2
    <3>6. CASE i > lnBufferLocation + 1
      <4>1. i - (lnBufferLocation + 1) \in 1..(Len(line) - 1) /\ ~(i <= lnBufferLocation + 1)
            /\ ~(i <= lnBufferLocation) /\ (i - (lnBufferLocation + 1)) + 1 = i - lnBufferLocation
        BY <3>1, <3>6, <1>2, <1>4
      <4>2. line'[i - (lnBufferLocation + 1)] = line[i - lnBufferLocation]
        BY <4>1, <1>4
      <4> QED
        BY <3>1, <3>2, <3>3, <4>1, <4>2
    <3> QED
      BY <3>4, <3>5, <3>6, <1>2
  <2>3. CASE ~(lnBufferLocation + 1 < LN_BUFFER_LEN)
    <3>1. m = lnBufferLocation + 1 /\ lnBufferLocation' = 0
      BY <2>3, <1>5
    <3> HIDE DEF m
    <3>2. Unparsed'[i] = line'[i]
      <4>1. ~(i <= lnBufferLocation') /\ i - lnBufferLocation' = i
        BY <3>1
      <4> QED
        BY <2>1, <4>1, UnparsedIsThen
    <3>3. ~(i + m <= lnBufferLocation) /\ (i + m) - lnBufferLocation = i + 1 /\ i \in 1..(Len(line) - 1)
      BY <3>1, <1>2
    <3>4. Unparsed[i + m] = line[(i + m) - lnBufferLocation]
      BY <2>1, <3>3, <1>1, UnparsedIs
    <3> QED
      BY <3>2, <3>3, <3>4, <1>4
  <2> QED
    BY <2>2, <2>3
<1> HIDE DEF m
<1>9. Stream(Unparsed', Remaining - m, written, delivered)
  BY ONLY <1>1, <1>2, <1>7, <1>8, DropKeepsStream
<1> QED
  BY ONLY <1>3, <1>7, <1>9 DEF StreamNow

LEMMA NotOpcodes ==
    /\ \A b : ~IsOpcode(b) => ~(Type(b) = Two) /\ ~(Type(b) = Four) /\ ~(Type(b) = Six) /\ ~(Type(b) = Variable)
    /\ \A b : (Type(b) = Two \/ Type(b) = Four \/ Type(b) = Six \/ Type(b) = Variable) => IsOpcode(b)
    /\ Two # Four /\ Two # Six /\ Two # Variable /\ Four # Six /\ Four # Variable /\ Six # Variable
    BY DEF IsOpcode, Two, Four, Six, Variable

\* A message of n bytes is delivered, or its opcode is dropped.
Taken(n) == Deliver(n) \/ (ln_remove_bytes(1) /\ UNCHANGED delivered)

(* A turn of process that looks at a message keeps the stream, whether it      *)
(* delivers the message or drops its opcode.                                   *)
LEMMA AcceptKeepsStream ==
    ASSUME StreamInv, BufferTypeOK', NEW n \in Nat, n >= 1, n <= lnBufferLocation, lnBufferLocation > 2,
           Taken(n), IsOpcode(lnBuffer[0]), UNCHANGED <<line, written>>,
           \A g \in Seq(Byte) : WellFormed(g) /\ g[1] = lnBuffer[0] /\ g[2] = lnBuffer[1]
                                 /\ ~IsSlotData(g[1]) => Len(g) = n
    PROVE  StreamNow'
<1>1. CASE Deliver(n)
  <2>1. CASE IsSlotData(lnBuffer[0])
    BY <1>1, <2>1, SlotDataDelivered
  <2>2. CASE ~IsSlotData(lnBuffer[0])
    <3>1. \A g \in Seq(Byte) : WellFormed(g) /\ g[1] = lnBuffer[0] /\ g[2] = lnBuffer[1] => Len(g) = n
      BY <2>2
    <3> QED
      BY <1>1, <2>2, <3>1, MessageDelivered
  <2> QED
    BY <2>1, <2>2
<1>2. CASE ln_remove_bytes(1) /\ UNCHANGED delivered
  BY <1>2, RemoveKeepsStream
<1> QED
  BY <1>1, <1>2 DEF Taken

LEMMA FrameLength ==
    ASSUME NEW g, WellFormed(g)
    PROVE  /\ Type(g[1]) = Two => Len(g) = 2
           /\ Type(g[1]) = Four => Len(g) = 4
           /\ Type(g[1]) = Six => Len(g) = 6
           /\ Type(g[1]) = Variable /\ ~IsSlotData(g[1]) => Len(g) = Num(g[2])
<1>1. Len(g) = loconet_message_length(g)
  BY DEF WellFormed
<1> HIDE DEF Type
<1>2. Type(g[1]) = Two => loconet_message_length(g) = 2
  BY NotOpcodes DEF loconet_message_length
<1>3. Type(g[1]) = Four => loconet_message_length(g) = 4
  BY NotOpcodes DEF loconet_message_length
<1>4. Type(g[1]) = Six => loconet_message_length(g) = 6
  BY NotOpcodes DEF loconet_message_length
<1>5. Type(g[1]) = Variable /\ ~IsSlotData(g[1]) => loconet_message_length(g) = Num(g[2])
  BY NotOpcodes DEF loconet_message_length
<1> QED
  BY <1>1, <1>2, <1>3, <1>4, <1>5

(* An opcode at the beginning of the buffer is that of a frame.                *)
LEMMA NextFrame ==
    ASSUME StreamInv, lnBufferLocation > 2, IsOpcode(lnBuffer[0])
    PROVE  \E g \in Seq(Byte) : WellFormed(g) /\ g[1] = lnBuffer[0] /\ g[2] = lnBuffer[1]
<1>1. BufferTypeOK /\ (\A j \in DOMAIN written : WellFormed(written[j]))
      /\ Stream(Unparsed, Remaining, written, delivered)
  BY DEF StreamInv
<1>2. written \in Seq(Seq(Byte)) /\ Remaining \in Nat /\ Remaining > 2
  BY <1>1, SizesAre
<1>3. Unparsed[1] = lnBuffer[0] /\ Unparsed[2] = lnBuffer[1]
  <2>1. 1 \in 1..Remaining /\ 2 \in 1..Remaining /\ 1 <= lnBufferLocation /\ 2 <= lnBufferLocation
    BY <1>1, <1>2, SizesAre
  <2>2. Unparsed[1] = lnBuffer[1 - 1] /\ Unparsed[2] = lnBuffer[2 - 1]
    BY ONLY <2>1, <1>1, UnparsedIs
  <2>3. 1 - 1 = 0 /\ 2 - 1 = 1
    OBVIOUS
  <2> QED
    BY ONLY <2>2, <2>3
<1>4. PICK J, at : LastOf(written, J) /\ Whole(Unparsed, Remaining, written, J, at)
  BY <1>1 DEF Stream
<1>5. IsOpcode(Unparsed[1]) /\ 1 \in 1..Remaining
  BY <1>2, <1>3
<1>6. PICK q \in J : at[q] = 1
  BY <1>4, <1>5 DEF Whole
<1>7. q \in DOMAIN written /\ LiesAt(written[q], Unparsed, Remaining, 1)
  BY <1>4, <1>6 DEF Whole, LastOf
<1>8. written[q] \in Seq(Byte) /\ WellFormed(written[q])
  BY <1>1, <1>2, <1>7
<1>9. 1 \in 1..Len(written[q]) /\ 2 \in 1..Len(written[q])
  BY <1>8, LengthFacts
<1>10. Unparsed[1 + 1 - 1] = written[q][1] /\ Unparsed[1 + 2 - 1] = written[q][2]
  BY ONLY <1>7, <1>9 DEF LiesAt
<1>11. written[q][1] = lnBuffer[0] /\ written[q][2] = lnBuffer[1]
  <2>1. 1 + 1 - 1 = 1 /\ 1 + 2 - 1 = 2
    OBVIOUS
  <2> QED
    BY ONLY <1>3, <1>10, <2>1
<1> QED
  BY <1>8, <1>11

LEMMA TurnKeepsStream ==
    ASSUME StreamInv, BufferTypeOK', Turn
    PROVE  StreamNow'
<1>0. BufferTypeOK /\ lnBufferLocation \in Nat
  BY SizesAre DEF StreamInv
<1>1. CASE LoopEnds \/ GarbageEnds
  <2>1. UNCHANGED <<line, buffer, written, delivered>>
    BY <1>1 DEF LoopEnds, GarbageEnds, Return, traffic
  <2> QED
    BY <2>1, QuietKeepsStream
<1>2. CASE TwoBytes
  <2>1. /\ Type(lnBuffer[0]) = Two /\ lnBufferLocation > 2 /\ UNCHANGED <<line, written>>
        /\ Taken(2)
    BY <1>2 DEF TwoBytes, First, InLoop, traffic, Accept, Taken
  <2>2. IsOpcode(lnBuffer[0]) /\ 2 <= lnBufferLocation
    BY <2>1, <1>0, NotOpcodes
  <2> DEFINE n == 2
  <2>3. /\ n \in Nat /\ n >= 1 /\ n <= lnBufferLocation /\ Taken(n)
        /\ \A g \in Seq(Byte) : WellFormed(g) /\ g[1] = lnBuffer[0] /\ g[2] = lnBuffer[1]
                                /\ ~IsSlotData(g[1]) => Len(g) = n
    BY <2>1, <2>2, FrameLength
  <2> HIDE DEF n
  <2> QED
    BY ONLY StreamInv, BufferTypeOK', <2>1, <2>2, <2>3, AcceptKeepsStream
<1>3. CASE FourBytes
  <2>1. /\ Type(lnBuffer[0]) = Four /\ lnBufferLocation > 2 /\ UNCHANGED <<line, written>>
    BY <1>3 DEF FourBytes, First, InLoop, traffic
  <2>2. CASE Return
    BY <2>1, <2>2, QuietKeepsStream DEF Return
  <2>3. CASE lnBufferLocation >= 4 /\ Taken(4)
    <3>1. IsOpcode(lnBuffer[0]) /\ 4 <= lnBufferLocation
      BY <2>1, <2>3, <1>0, NotOpcodes
    <3> DEFINE n == 4
    <3>2. /\ n \in Nat /\ n >= 1 /\ n <= lnBufferLocation /\ Taken(n)
          /\ \A g \in Seq(Byte) : WellFormed(g) /\ g[1] = lnBuffer[0] /\ g[2] = lnBuffer[1]
                                  /\ ~IsSlotData(g[1]) => Len(g) = n
      BY <2>1, <2>3, <3>1, FrameLength
    <3> HIDE DEF n
    <3> QED
      BY ONLY StreamInv, BufferTypeOK', <2>1, <3>1, <3>2, AcceptKeepsStream
  <2> QED
    BY <1>3, <2>2, <2>3 DEF FourBytes, Accept, Taken
<1>4. CASE SixBytes
  <2>1. /\ Type(lnBuffer[0]) = Six /\ lnBufferLocation > 2 /\ UNCHANGED <<line, written>>
    BY <1>4 DEF SixBytes, First, InLoop, traffic
  <2>2. CASE Return
    BY <2>1, <2>2, QuietKeepsStream DEF Return
  <2>3. CASE lnBufferLocation >= 6 /\ Taken(6)
    <3>1. IsOpcode(lnBuffer[0]) /\ 6 <= lnBufferLocation
      BY <2>1, <2>3, <1>0, NotOpcodes
    <3> DEFINE n == 6
    <3>2. /\ n \in Nat /\ n >= 1 /\ n <= lnBufferLocation /\ Taken(n)
          /\ \A g \in Seq(Byte) : WellFormed(g) /\ g[1] = lnBuffer[0] /\ g[2] = lnBuffer[1]
                                  /\ ~IsSlotData(g[1]) => Len(g) = n
      BY <2>1, <2>3, <3>1, FrameLength
    <3> HIDE DEF n
    <3> QED
      BY ONLY StreamInv, BufferTypeOK', <2>1, <3>1, <3>2, AcceptKeepsStream
  <2> QED
    BY <1>4, <2>2, <2>3 DEF SixBytes, Accept, Taken
<1>5. CASE SlotData
  <2>1. /\ Type(lnBuffer[0]) = Variable /\ IsSlotData(lnBuffer[0]) /\ UNCHANGED <<line, written>>
    BY <1>5 DEF SlotData, First, InLoop, traffic
  <2>2. CASE Return
    BY <2>1, <2>2, QuietKeepsStream DEF Return
  <2>3. CASE Deliver(14)
    BY <2>1, <2>3, SlotDataDelivered
  <2>4. CASE ln_remove_bytes(1) /\ UNCHANGED delivered
    BY <2>1, <2>4, RemoveKeepsStream
  <2> QED
    BY <1>5, <2>2, <2>3, <2>4 DEF SlotData, Accept
<1>6. CASE VariableLength
  <2> DEFINE n == Num(lnBuffer[1])
  <2>1. /\ Type(lnBuffer[0]) = Variable /\ ~IsSlotData(lnBuffer[0]) /\ lnBufferLocation > 2
        /\ UNCHANGED <<line, written>>
    BY <1>6 DEF VariableLength, First, InLoop, traffic
  <2>2. CASE Return
    BY <2>1, <2>2, QuietKeepsStream DEF Return
  <2>3. CASE lnBufferLocation >= n /\ Taken(n)
    <3>1. IsOpcode(lnBuffer[0]) /\ n <= lnBufferLocation /\ n \in Nat
      <4>1. n \in Nat
        BY DEF Num
      <4> HIDE DEF n
      <4> QED
        BY <4>1, <2>1, <2>3, <1>0, NotOpcodes
    <3>2. \A g \in Seq(Byte) : WellFormed(g) /\ g[1] = lnBuffer[0] /\ g[2] = lnBuffer[1] => Len(g) = n
      BY <2>1, FrameLength
        <3>3. n >= 1
      <4>1. PICK g \in Seq(Byte) : WellFormed(g) /\ g[1] = lnBuffer[0] /\ g[2] = lnBuffer[1]
        BY <2>1, <3>1, NextFrame
      <4>2. Len(g) = n /\ Len(g) >= 2
        BY <4>1, <3>2, LengthFacts
      <4> QED
        BY <4>2, <3>1
    <3> HIDE DEF n
    <3> QED
      BY <2>1, <2>3, <3>1, <3>2, <3>3, AcceptKeepsStream
  <2> QED
    BY <1>6, <2>2, <2>3 DEF VariableLength, Accept, Taken
<1>7. CASE Garbage
  <2>1. ln_remove_bytes(1) /\ UNCHANGED <<line, written, delivered>>
    BY <1>7 DEF Garbage, InLoop, traffic
  <2> QED
    BY <2>1, RemoveKeepsStream
<1> QED
  BY <1>1, <1>2, <1>3, <1>4, <1>5, <1>6, <1>7 DEF Turn

LEMMA StreamInit == BufferInit => StreamInv
<1> SUFFICES ASSUME BufferInit PROVE StreamInv
  OBVIOUS
<1>1. BufferTypeOK
  BY InitTypes
<1>2. Remaining = 0 /\ written = <<>> /\ delivered = <<>>
  BY DEF BufferInit, Remaining
<1>3. LastOf(written, {}) /\ Ordinary(delivered) = {}
  BY <1>2 DEF LastOf, Ordinary
<1>4. DeliveredBefore(delivered, written, {})
  <2>1. [i \in {} |-> 1] \in [Ordinary(delivered) -> Ordinary(written)]
    BY <1>3
  <2> QED
    BY <1>3, <2>1 DEF DeliveredBefore
<1>5. Whole(Unparsed, Remaining, written, {}, [j \in {} |-> 1])
  BY <1>2 DEF Whole
<1> QED
  BY <1>1, <1>2, <1>3, <1>4, <1>5 DEF StreamInv, Stream

LEMMA StreamStep == StreamInv /\ [BufferNext]_bufferVars => StreamInv'
<1> SUFFICES ASSUME StreamInv, [BufferNext]_bufferVars PROVE StreamInv'
  OBVIOUS
<1>0. BufferTypeOK /\ BufferTypeOK'
  BY StepTypes DEF StreamInv
<1>1. ASSUME StreamNow', written' = written PROVE StreamInv'
  BY <1>0, <1>1 DEF StreamInv, StreamNow
<1>2. CASE UNCHANGED bufferVars
  BY <1>1, <1>2, QuietKeepsStream DEF bufferVars, buffer
<1>3. ASSUME NEW m \in Messages, WriteMessage(m) PROVE StreamInv'
  <2>1. OnTheWire(m) \in OnTheLine \ {<<>>} /\ OnTheWire(m) \in Seq(Byte) /\ Put(OnTheWire(m))
    BY <1>3, TrafficAssumption DEF WriteMessage, OnTheLine
  <2>2. WellFormed(OnTheWire(m))
    BY <2>1, FormatAssumption
  <2> QED
    BY <1>0, <2>1, <2>2, PutKeeps
<1>4. ASSUME NEW f \in Frames, OtherSends(f) PROVE StreamInv'
  <2>1. f \in OnTheLine \ {<<>>} /\ f \in Seq(Byte) /\ Put(f)
    BY <1>4, TrafficAssumption, FormatAssumption DEF OtherSends, OnTheLine
  <2>2. WellFormed(f)
    BY <2>1, FormatAssumption
  <2> QED
    BY <1>0, <2>1, <2>2, PutKeeps
<1>5. ASSUME NEW b \in NoiseBytes, SpuriousByte(b) PROVE StreamInv'
  BY <1>0, <1>1, <1>5, SpuriousKeeps DEF SpuriousByte
<1>6. CASE IncomingByte
  BY <1>0, <1>1, <1>6, IncomingByteKeeps DEF IncomingByte
<1>7. CASE Process
  BY <1>1, <1>7, QuietKeepsStream DEF Process, traffic, buffer
<1>8. CASE Turn
  <2>1. written' = written
    BY <1>8 DEF Turn, LoopEnds, TwoBytes, FourBytes, SixBytes, SlotData, VariableLength, Garbage,
                GarbageEnds, First, InLoop, traffic
  <2> QED
    BY <1>0, <1>1, <1>8, <2>1, TurnKeepsStream
<1> QED
  BY <1>2, <1>3, <1>4, <1>5, <1>6, <1>7, <1>8 DEF BufferNext

(* However what arrives is split into reads, whatever garbage comes between    *)
(* the frames, and whatever a full buffer or a wrong checksum loses: the       *)
(* callback of process only gets frames that were sent, once and in order.     *)
THEOREM NothingIsInvented == BufferSpec => []OnlyWhatWasWritten
<1>1. StreamInv => OnlyWhatWasWritten
  <2> SUFFICES ASSUME StreamInv PROVE OnlyWhatWasWritten
    OBVIOUS
  <2>1. PICK J : DeliveredBefore(delivered, written, J)
    BY DEF StreamInv, Stream
  <2> QED
    BY <2>1 DEF DeliveredBefore, OnlyWhatWasWritten
<1> QED
  BY <1>1, StreamInit, StreamStep, PTL DEF BufferSpec

(***************************************************************************)
(* The programmer.                                                         *)
(***************************************************************************)

LEMMA ElementType ==
    ASSUME NEW S, NEW s \in Seq(S)
    PROVE  \A i \in 1..Len(s) : s[i] \in S
OBVIOUS

LEMMA LastTail ==
    ASSUME NEW S, NEW s \in Seq(S), Len(s) = 1
    PROVE  Tail(s) = <<>>
<1>1. Tail(s) \in Seq(S) /\ Len(Tail(s)) = 0
  OBVIOUS
<1>2. \A t \in Seq(S) : Len(t) = 0 => t = <<>>
  OBVIOUS
<1>. QED BY <1>1, <1>2

(* The parts of TypeOK, as the proofs use them. *)
Typed(n) ==
    /\ n = Len(requests) /\ n \in Nat /\ MaxRequests \in Nat /\ n <= MaxRequests
    /\ \A r \in 1..n : requests[r].by \in Programmers /\ requests[r].mode \in Modes
    /\ state \in [Programmers -> States]
    /\ queue \in [Programmers -> Seq(1..n)]
    /\ \A p \in Programmers : state[p] = "Idle" => queue[p] = <<>>
    /\ current \in [Programmers -> 0..n]
    /\ sendQueue \in Seq(1..n)
    /\ task.of \in 0..n /\ task.replies \in Seq(Replies)
    /\ task = [of |-> task.of, replies |-> task.replies]
    /\ incoming \in Seq(Reply)
    /\ heard \subseteq Programmers
    /\ outcome \in [1..MaxRequests -> Outcome]

LEMMA Types == TypeOK => Typed(Len(requests))
<1>. SUFFICES ASSUME TypeOK PROVE Typed(Len(requests))
  OBVIOUS
<1>1. requests \in Seq([by : Programmers, mode : Modes]) /\ Len(requests) \in Nat
      /\ Len(requests) <= MaxRequests /\ MaxRequests \in Nat
  BY ProgrammerAssumption DEF TypeOK
<1>2. \A r \in 1..Len(requests) : requests[r].by \in Programmers /\ requests[r].mode \in Modes
  <2>1. \A r \in 1..Len(requests) : requests[r] \in [by : Programmers, mode : Modes]
    BY ONLY <1>1, ElementType
  <2>. QED BY <2>1
<1>3. task.of \in 0..Len(requests) /\ task.replies \in Seq(Replies)
      /\ task = [of |-> task.of, replies |-> task.replies]
  BY DEF TypeOK
<1>4. /\ state \in [Programmers -> States]
      /\ queue \in [Programmers -> Seq(1..Len(requests))]
      /\ \A p \in Programmers : state[p] = "Idle" => queue[p] = <<>>
      /\ current \in [Programmers -> 0..Len(requests)]
      /\ sendQueue \in Seq(1..Len(requests))
      /\ incoming \in Seq(Reply)
      /\ heard \subseteq Programmers
      /\ outcome \in [1..MaxRequests -> Outcome]
  BY DEF TypeOK, Requests
<1>. QED BY <1>1, <1>2, <1>3, <1>4 DEF Typed

(* What a reply ends is one of the reasons, and what it leads to a state. *)
LEMMA EndsType ==
    ASSUME NEW s, NEW mode, NEW what
    PROVE  Ends(s, mode, what) \in Reasons \cup {None}
BY DEF Ends, Acknowledged, Reasons

LEMMA GoesToType ==
    ASSUME NEW s \in States, s # "Idle", NEW what
    PROVE  GoesTo(s, what) \in States /\ GoesTo(s, what) # "Idle"
BY DEF GoesTo, States

(* The queue, the request and the state that sendCurrentRequest leaves. *)
Fits(n, st, q, cur) ==
    /\ st \in States
    /\ q \in Seq(1..n)
    /\ cur \in 0..n
    /\ st = "Idle" => q = <<>>

LEMMA SeqGrows ==
    ASSUME NEW n \in Nat, NEW q \in Seq(1..n)
    PROVE  q \in Seq(1..(n + 1)) /\ Append(q, n + 1) \in Seq(1..(n + 1))
<1>1. \A i \in 1..Len(q) : q[i] \in 1..(n + 1)
  OBVIOUS
<1>2. q \in Seq(1..(n + 1))
  BY <1>1
<1>. QED BY <1>2

LEMMA SendType ==
    ASSUME NEW p \in Programmers, NEW n \in Nat, NEW q \in Seq(1..n),
           state \in [Programmers -> States],
           queue \in [Programmers -> Seq(1..n)],
           current \in [Programmers -> 0..n],
           sendQueue \in Seq(1..n),
           \A o \in Programmers \ {p} : state[o] = "Idle" => queue[o] = <<>>,
           SendCurrentRequest(p, q)
    PROVE  /\ state' \in [Programmers -> States]
           /\ queue' \in [Programmers -> Seq(1..n)]
           /\ current' \in [Programmers -> 0..n]
           /\ sendQueue' \in Seq(1..n)
           /\ \A o \in Programmers : state'[o] = "Idle" => queue'[o] = <<>>
<1>1. CASE q = <<>>
  BY <1>1 DEF SendCurrentRequest, States
<1>2. CASE q # <<>>
  <2>1. Head(q) \in 1..n /\ Tail(q) \in Seq(1..n)
    BY <1>2
  <2>2. state' = [state EXCEPT ![p] = "WaitingForSubmitLack"]
        /\ queue' = [queue EXCEPT ![p] = Tail(q)]
        /\ current' = [current EXCEPT ![p] = Head(q)]
        /\ sendQueue' = Append(sendQueue, Head(q))
    BY <1>2 DEF SendCurrentRequest
  <2>3. state' \in [Programmers -> States]
    BY <2>2 DEF States
  <2>4. queue' \in [Programmers -> Seq(1..n)]
    BY <2>1, <2>2
  <2>5. current' \in [Programmers -> 0..n]
    BY <2>1, <2>2
  <2>6. sendQueue' \in Seq(1..n)
    BY <2>1, <2>2
  <2>7. \A o \in Programmers : state'[o] = "Idle" => queue'[o] = <<>>
    BY <2>2
  <2>. QED BY <2>3, <2>4, <2>5, <2>6, <2>7
<1>. QED BY <1>1, <1>2

-----------------------------------------------------------------------------
(* Every step keeps the types. *)
LEMMA InitType == Init => TypeOK
<1>. SUFFICES ASSUME Init PROVE TypeOK
  OBVIOUS
<1>1. requests \in Seq([by : Programmers, mode : Modes]) /\ Len(requests) = 0
  BY DEF Init
<1>2. /\ state \in [Programmers -> States]
      /\ queue \in [Programmers -> Seq(Requests)]
      /\ \A p \in Programmers : state[p] = "Idle" => queue[p] = <<>>
      /\ current \in [Programmers -> 0..Len(requests)]
      /\ sendQueue \in Seq(Requests)
  BY <1>1 DEF Init, States
<1>3. task \in [of : 0..Len(requests), replies : Seq(Replies)] /\ incoming \in Seq(Reply)
  BY <1>1 DEF Init
<1>4. outcome \in [1..MaxRequests -> Outcome]
  BY ProgrammerAssumption DEF Init, Outcome, NoOutcome
<1>5. heard \subseteq Programmers
  BY DEF Init
<1>6. clash \in BOOLEAN
  BY DEF Init
<1>7. Len(requests) <= MaxRequests
  BY <1>1, ProgrammerAssumption
<1>. QED BY <1>1, <1>2, <1>3, <1>4, <1>5, <1>6, <1>7 DEF TypeOK

LEMMA SubmitType ==
    ASSUME TypeOK, NEW p \in Programmers, NEW mode \in Modes, Submit(p, mode)
    PROVE  TypeOK'
<1>. DEFINE n == Len(requests)
            r == n + 1
<1>1. n \in Nat /\ r <= MaxRequests /\ requests' = Append(requests, [by |-> p, mode |-> mode])
  BY DEF TypeOK, Submit
<1>2. requests' \in Seq([by : Programmers, mode : Modes]) /\ Len(requests') = r
      /\ Requests' = 1..r
  BY <1>1 DEF TypeOK, Requests
<1>3. /\ \A o \in Programmers : queue[o] \in Seq(1..r)
      /\ Append(queue[p], r) \in Seq(1..r)
      /\ sendQueue \in Seq(1..r)
  BY <1>1, SeqGrows DEF TypeOK, Requests
<1>4. /\ state \in [Programmers -> States]
      /\ queue \in [Programmers -> Seq(1..r)]
      /\ current \in [Programmers -> 0..r]
      /\ \A o \in Programmers : state[o] = "Idle" => queue[o] = <<>>
  BY <1>1, <1>3 DEF TypeOK, Requests
<1>5. /\ state' \in [Programmers -> States]
      /\ queue' \in [Programmers -> Seq(1..r)]
      /\ current' \in [Programmers -> 0..r]
      /\ sendQueue' \in Seq(1..r)
      /\ \A o \in Programmers : state'[o] = "Idle" => queue'[o] = <<>>
  <2>1. CASE state[p] = "Idle"
    <3>1. SendCurrentRequest(p, Append(queue[p], r))
      BY <2>1 DEF Submit
    <3>2. r \in Nat
      BY <1>1
    <3>. QED BY ONLY <3>1, <3>2, <1>3, <1>4, SendType, p \in Programmers
  <2>2. CASE state[p] # "Idle"
    BY <1>3, <1>4, <2>2 DEF Submit
  <2>. QED BY <2>1, <2>2
<1>6. task' \in [of : 0..r, replies : Seq(Replies)]
  BY <1>1 DEF TypeOK, Submit
<1>7. clash' \in BOOLEAN /\ UNCHANGED <<incoming, heard, outcome>>
  BY DEF TypeOK, Submit
<1>. QED BY <1>1, <1>2, <1>5, <1>6, <1>7 DEF TypeOK

LEMMA SendNextType ==
    ASSUME TypeOK, SendNextMessage
    PROVE  TypeOK'
<1>. Typed(Len(requests))
  BY Types
<1>1. Head(sendQueue) \in Requests /\ sendQueue' \in Seq(Requests)
  BY SMTT(30) DEF Typed, Requests, SendNextMessage
<1>2. UNCHANGED <<requests, state, queue, current, heard, outcome, clash>>
  BY DEF SendNextMessage
<1>3. incoming' \in Seq(Reply)
  <2>. DEFINE busy == [what |-> "00", of |-> Head(sendQueue)]
  <2>1. busy \in Reply
    BY <1>1 DEF Typed, Reply, Replies, Requests
  <2>2. incoming' = incoming \/ incoming' = Append(incoming, busy)
    BY DEF SendNextMessage
  <2>3. incoming \in Seq(Reply)
    BY DEF Typed
  <2>. HIDE DEF busy
  <2>. QED BY <2>1, <2>2, <2>3
<1>4. task' \in [of : 0..Len(requests), replies : Seq(Replies)]
  <2>1. \A script \in Scripts[requests[Head(sendQueue)].mode] : script \in Seq(Replies)
    <3>1. requests[Head(sendQueue)].mode \in Modes
      BY <1>1 DEF Typed, Requests
    <3>. QED BY <3>1, ProgrammerAssumption
  <2>2. Head(sendQueue) \in 0..Len(requests)
    BY <1>1 DEF Requests
  <2>3. UNCHANGED task
        \/ \E script \in Scripts[requests[Head(sendQueue)].mode] :
              task' = [of |-> Head(sendQueue), replies |-> script]
    BY DEF SendNextMessage
  <2>. QED BY <2>1, <2>2, <2>3 DEF TypeOK
<1>. QED BY <1>1, <1>2, <1>3, <1>4 DEF TypeOK, Requests

LEMMA RepliesType ==
    ASSUME TypeOK, StationReplies, task.replies # <<>> => task.of # 0
    PROVE  TypeOK'
<1>1. Head(task.replies) \in Replies /\ Tail(task.replies) \in Seq(Replies)
      /\ task.of \in 1..MaxRequests
  BY Types DEF Typed, StationReplies
<1>2. incoming' \in Seq(Reply)
  <2>1. [what |-> Head(task.replies), of |-> task.of] \in Reply
    BY <1>1 DEF Reply
  <2>. QED BY <2>1 DEF TypeOK, StationReplies
<1>3. task' \in [of : 0..Len(requests), replies : Seq(Replies)]
  BY <1>1 DEF TypeOK, StationReplies
<1>. QED BY <1>2, <1>3 DEF TypeOK, StationReplies, Requests

LEMMA IncomingType ==
    ASSUME TypeOK, NEW p \in Programmers, IncomingMessage(p),
           state[p] # "Idle" => current[p] # 0
    PROVE  TypeOK'
<1>. DEFINE message == Head(incoming)
            reason  == Ends(state[p], requests[current[p]].mode, message.what)
<1>. Typed(Len(requests))
  BY Types
<1>1. message \in Reply /\ incoming' \in Seq(Reply) /\ heard' \subseteq Programmers
  <2>1. incoming \in Seq(Reply) /\ incoming # <<>> /\ heard \subseteq Programmers
    BY DEF Typed, IncomingMessage
  <2>2. \/ heard' = {} /\ incoming' = Tail(incoming)
        \/ heard' = heard \cup {p} /\ incoming' = incoming
    BY DEF IncomingMessage
  <2>. QED BY <2>1, <2>2
<1>2. UNCHANGED <<requests, task, clash>>
  BY DEF IncomingMessage
<1>3. \/ UNCHANGED <<state, queue, current, sendQueue, outcome>>
      \/ /\ Waiting(p)
         /\ state' = [state EXCEPT ![p] = GoesTo(@, message.what)]
         /\ UNCHANGED <<queue, current, sendQueue, outcome>>
      \/ /\ Waiting(p) /\ reason # None
         /\ CompleteCurrentRequest(p, reason, message.of)
  BY DEF IncomingMessage
<1>. HIDE DEF message, reason
<1>4. CASE UNCHANGED <<state, queue, current, sendQueue, outcome>>
  BY <1>1, <1>2, <1>4 DEF TypeOK, Requests
<1>5. CASE /\ Waiting(p)
           /\ state' = [state EXCEPT ![p] = GoesTo(@, message.what)]
           /\ UNCHANGED <<queue, current, sendQueue, outcome>>
  <2>1. GoesTo(state[p], message.what) \in States /\ GoesTo(state[p], message.what) # "Idle"
    BY <1>5, GoesToType DEF TypeOK, Waiting
  <2>2. state' \in [Programmers -> States]
        /\ \A o \in Programmers : state'[o] = "Idle" => queue'[o] = <<>>
    BY <1>5, <2>1 DEF TypeOK
  <2>. QED BY <1>1, <1>2, <1>5, <2>2 DEF TypeOK, Requests
<1>6. CASE /\ Waiting(p)
           /\ CompleteCurrentRequest(p, reason, message.of)
  <2>1. /\ state' \in [Programmers -> States]
        /\ queue' \in [Programmers -> Seq(1..Len(requests))]
        /\ current' \in [Programmers -> 0..Len(requests)]
        /\ sendQueue' \in Seq(1..Len(requests))
        /\ \A o \in Programmers : state'[o] = "Idle" => queue'[o] = <<>>
    <3>1. SendCurrentRequest(p, queue[p])
      BY <1>6 DEF CompleteCurrentRequest
    <3>2. /\ Len(requests) \in Nat
          /\ state \in [Programmers -> States]
          /\ queue \in [Programmers -> Seq(1..Len(requests))]
          /\ queue[p] \in Seq(1..Len(requests))
          /\ current \in [Programmers -> 0..Len(requests)]
          /\ sendQueue \in Seq(1..Len(requests))
          /\ \A o \in Programmers \ {p} : state[o] = "Idle" => queue[o] = <<>>
      BY DEF TypeOK, Requests
    <3>. QED BY ONLY <3>1, <3>2, SendType, p \in Programmers
  <2>2. outcome' \in [1..MaxRequests -> Outcome]
    <3>1. current[p] \in 1..MaxRequests
      BY <1>6 DEF Typed, Waiting
    <3>2. reason \in Reasons \cup {None}
      BY EndsType DEF reason
    <3>3. message.of \in 0..MaxRequests
      BY <1>1, ProgrammerAssumption DEF Reply
    <3>4. [reason |-> reason, of |-> message.of] \in Outcome
      BY <3>2, <3>3 DEF Outcome
    <3>5. outcome' = [outcome EXCEPT ![current[p]] = [reason |-> reason, of |-> message.of]]
      BY <1>6 DEF CompleteCurrentRequest
    <3>6. outcome \in [1..MaxRequests -> Outcome]
      BY DEF TypeOK
    <3>. QED BY ONLY <3>1, <3>4, <3>5, <3>6
  <2>. QED BY <1>1, <1>2, <2>1, <2>2 DEF TypeOK, Requests
<1>. QED BY <1>3, <1>4, <1>5, <1>6

-----------------------------------------------------------------------------
(* The order of the requests of programmer p, with the values that it has in a *)
(* state: its queue q is increasing, the current request cur is before it, and *)
(* what is before the current request has ended.                               *)
Increasing(q) == \A i, j \in 1..Len(q) : i < j => q[i] < q[j]
In(r, q)      == \E i \in 1..Len(q) : q[i] = r

Ordered(p, q, cur, reqs) ==
    /\ Increasing(q)
    /\ \A r \in 1..Len(reqs) : In(r, q) <=> (reqs[r].by = p /\ r > cur)
    /\ cur # 0 => reqs[cur].by = p

Ended(r, out) == out[r].reason # None

Progress(p, st, cur, reqs, out) ==
    /\ \A r \in 1..Len(reqs) :
          reqs[r].by = p => (Ended(r, out) <=> (r < cur \/ (r = cur /\ st = "Idle")))
    /\ st # "Idle" => cur # 0

OrderInv ==
    \A p \in Programmers :
        /\ Ordered(p, queue[p], current[p], requests)
        /\ Progress(p, state[p], current[p], requests, outcome)

FreshInv == \A r \in 1..MaxRequests : r > Len(requests) => ~Ended(r, outcome)

TaskInv == task.replies # <<>> => task.of # 0

TurnInv == TypeOK /\ TaskInv /\ FreshInv /\ OrderInv

(* The next request of an ordered queue, in an ordered queue. *)
LEMMA TailOrdered ==
    ASSUME NEW p, NEW reqs, Len(reqs) \in Nat,
           NEW q \in Seq(1..Len(reqs)), q # <<>>, NEW cur \in 0..Len(reqs),
           Ordered(p, q, cur, reqs)
    PROVE  /\ Ordered(p, Tail(q), Head(q), reqs)
           /\ Head(q) > cur
           /\ \A r \in 1..Len(reqs) : (reqs[r].by = p /\ r > cur) => r >= Head(q)
<1>1. /\ Head(q) = q[1] /\ 1 \in 1..Len(q) /\ Head(q) \in 1..Len(reqs)
      /\ Len(q) \in Nat /\ Len(Tail(q)) = Len(q) - 1
      /\ \A i \in 1..Len(Tail(q)) : Tail(q)[i] = q[i + 1]
      /\ \A i \in 1..Len(q) : q[i] \in 1..Len(reqs)
  OBVIOUS
<1>2. /\ \A i, j \in 1..Len(q) : i < j => q[i] < q[j]
      /\ \A r \in 1..Len(reqs) : In(r, q) <=> (reqs[r].by = p /\ r > cur)
  BY DEF Ordered, Increasing
<1>3. In(Head(q), q)
  BY <1>1 DEF In
<1>4. reqs[Head(q)].by = p /\ Head(q) > cur
  BY <1>1, <1>2, <1>3
<1>5. \A i \in 1..Len(q) : q[i] >= Head(q)
  BY <1>1, <1>2
<1>6. Increasing(Tail(q))
  <2>. SUFFICES ASSUME NEW i \in 1..Len(Tail(q)), NEW j \in 1..Len(Tail(q)), i < j
                PROVE  Tail(q)[i] < Tail(q)[j]
    BY DEF Increasing
  <2>1. i + 1 \in 1..Len(q) /\ j + 1 \in 1..Len(q) /\ i + 1 < j + 1
    BY <1>1
  <2>. QED BY <1>1, <1>2, <2>1
<1>7. ASSUME NEW r \in 1..Len(reqs)
      PROVE  In(r, Tail(q)) <=> (reqs[r].by = p /\ r > Head(q))
  <2>1. ASSUME In(r, Tail(q)) PROVE reqs[r].by = p /\ r > Head(q)
    <3>1. PICK i \in 1..Len(Tail(q)) : Tail(q)[i] = r
      BY <2>1 DEF In
    <3>2. i + 1 \in 1..Len(q) /\ q[i + 1] = r /\ 1 < i + 1
      BY <1>1, <3>1
    <3>3. In(r, q)
      BY <3>2 DEF In
    <3>. QED BY <1>1, <1>2, <3>2, <3>3
  <2>2. ASSUME reqs[r].by = p, r > Head(q) PROVE In(r, Tail(q))
    <3>1. In(r, q)
      BY <1>1, <1>2, <1>4, <2>2
    <3>2. PICK i \in 1..Len(q) : q[i] = r
      BY <3>1 DEF In
    <3>3. i # 1 /\ i - 1 \in 1..Len(Tail(q)) /\ Tail(q)[i - 1] = q[i]
      BY <1>1, <2>2, <3>2
    <3>. QED BY <3>2, <3>3 DEF In
  <2>. QED BY <2>1, <2>2
<1>8. \A r \in 1..Len(reqs) : (reqs[r].by = p /\ r > cur) => r >= Head(q)
  BY <1>2, <1>5 DEF In
<1>. QED BY <1>1, <1>4, <1>6, <1>7, <1>8 DEF Ordered

(* An ordered queue to which a new request is added. *)
LEMMA AppendOrdered ==
    ASSUME NEW p, NEW reqs, NEW n \in Nat, n = Len(reqs),
           NEW q \in Seq(1..n), NEW cur \in 0..n, NEW more,
           Len(more) = n + 1, \A r \in 1..n : more[r] = reqs[r], more[n + 1].by = p,
           Ordered(p, q, cur, reqs)
    PROVE  Ordered(p, Append(q, n + 1), cur, more)
<1>. DEFINE longer == Append(q, n + 1)
<1>1. /\ Len(q) \in Nat /\ Len(longer) = Len(q) + 1
      /\ \A i \in 1..Len(q) : longer[i] = q[i] /\ q[i] \in 1..n
      /\ longer[Len(q) + 1] = n + 1
  OBVIOUS
<1>2. /\ \A i, j \in 1..Len(q) : i < j => q[i] < q[j]
      /\ \A r \in 1..n : In(r, q) <=> (reqs[r].by = p /\ r > cur)
      /\ cur # 0 => reqs[cur].by = p
  BY DEF Ordered, Increasing
<1>. HIDE DEF longer
<1>3. Increasing(longer)
  <2>. SUFFICES ASSUME NEW i \in 1..Len(longer), NEW j \in 1..Len(longer), i < j
                PROVE  longer[i] < longer[j]
    BY DEF Increasing
  <2>1. CASE j = Len(q) + 1
    <3>1. i \in 1..Len(q)
      BY <1>1, <2>1
    <3>2. longer[i] \in 1..n
      BY <1>1, <3>1
    <3>. QED BY <1>1, <2>1, <3>2
  <2>2. CASE j # Len(q) + 1
    <3>1. i \in 1..Len(q) /\ j \in 1..Len(q)
      <4>1. Len(q) \in Nat /\ Len(longer) = Len(q) + 1
        BY <1>1
      <4>2. i \in 1..(Len(q) + 1) /\ j \in 1..(Len(q) + 1) /\ i < j
        BY <4>1
      <4>. QED BY ONLY <2>2, <4>1, <4>2
    <3>. QED BY <1>1, <1>2, <3>1
  <2>. QED BY <2>1, <2>2
<1>4. ASSUME NEW r \in 1..Len(more)
      PROVE  In(r, longer) <=> (more[r].by = p /\ r > cur)
  <2>1. CASE r = n + 1
    <3>1. In(r, longer)
      BY SMTT(30), <1>1, <2>1 DEF In
    <3>. QED BY <2>1, <3>1
  <2>2. CASE r # n + 1
    <3>1. r \in 1..n /\ more[r] = reqs[r]
      BY <2>2
    <3>2. In(r, longer) <=> In(r, q)
      BY SMTT(30), <1>1, <3>1 DEF In
    <3>. QED BY <1>2, <3>1, <3>2
  <2>. QED BY <2>1, <2>2
<1>5. cur # 0 => more[cur].by = p
  BY <1>2
<1>. QED BY <1>3, <1>4, <1>5 DEF Ordered, longer

(* A request of another programmer changes nothing. *)
LEMMA OtherOrdered ==
    ASSUME NEW p, NEW reqs, NEW n \in Nat, n = Len(reqs),
           NEW q \in Seq(1..n), NEW cur \in 0..n, NEW more,
           Len(more) = n + 1, \A r \in 1..n : more[r] = reqs[r], more[n + 1].by # p,
           Ordered(p, q, cur, reqs)
    PROVE  Ordered(p, q, cur, more)
<1>1. /\ Increasing(q)
      /\ \A r \in 1..n : In(r, q) <=> (reqs[r].by = p /\ r > cur)
      /\ cur # 0 => reqs[cur].by = p
  BY DEF Ordered
<1>2. ~In(n + 1, q)
  BY DEF In
<1>3. ASSUME NEW r \in 1..Len(more)
      PROVE  In(r, q) <=> (more[r].by = p /\ r > cur)
  <2>1. CASE r = n + 1
    BY <1>2, <2>1
  <2>2. CASE r # n + 1
    BY <1>1, <2>2
  <2>. QED BY <2>1, <2>2
<1>4. cur # 0 => more[cur].by = p
  BY <1>1
<1>. QED BY <1>1, <1>3, <1>4 DEF Ordered

-----------------------------------------------------------------------------
(* sendCurrentRequest keeps the order, when the current request has ended. *)
LEMMA SendInTurn ==
    ASSUME NEW p \in Programmers, NEW reqs, NEW n \in Nat, n = Len(reqs), NEW out,
           NEW q \in Seq(1..n),
           state \in [Programmers -> States],
           queue \in [Programmers -> Seq(1..n)],
           current \in [Programmers -> 0..n],
           Ordered(p, q, current[p], reqs),
           Progress(p, "Idle", current[p], reqs, out),
           SendCurrentRequest(p, q)
    PROVE  /\ Ordered(p, queue'[p], current'[p], reqs)
           /\ Progress(p, state'[p], current'[p], reqs, out)
           /\ \A o \in Programmers \ {p} :
                 queue'[o] = queue[o] /\ current'[o] = current[o] /\ state'[o] = state[o]
<1>1. CASE q = <<>>
  <2>1. queue'[p] = q /\ current'[p] = current[p] /\ state'[p] = "Idle"
    BY <1>1 DEF SendCurrentRequest
  <2>2. \A o \in Programmers \ {p} :
            queue'[o] = queue[o] /\ current'[o] = current[o] /\ state'[o] = state[o]
    BY <1>1 DEF SendCurrentRequest
  <2>. QED BY <2>1, <2>2
<1>2. CASE q # <<>>
  <2>1. /\ Ordered(p, Tail(q), Head(q), reqs)
        /\ Head(q) > current[p]
        /\ \A r \in 1..Len(reqs) : (reqs[r].by = p /\ r > current[p]) => r >= Head(q)
    BY <1>2, TailOrdered
  <2>2. /\ queue'[p] = Tail(q) /\ current'[p] = Head(q)
        /\ state'[p] = "WaitingForSubmitLack"
        /\ \A o \in Programmers \ {p} :
              queue'[o] = queue[o] /\ current'[o] = current[o] /\ state'[o] = state[o]
    BY <1>2 DEF SendCurrentRequest
  <2>3. Head(q) \in 1..n /\ current[p] \in 0..n
    BY <1>2
  <2>4. Progress(p, state'[p], current'[p], reqs, out)
    <3>1. \A r \in 1..Len(reqs) :
              reqs[r].by = p => (Ended(r, out) <=> r < Head(q))
      <4>. SUFFICES ASSUME NEW r \in 1..Len(reqs), reqs[r].by = p
                    PROVE  Ended(r, out) <=> r < Head(q)
        OBVIOUS
      <4>1. Ended(r, out) <=> r <= current[p]
        BY <2>3 DEF Progress
      <4>2. r <= current[p] <=> r < Head(q)
        <5>1. r \in Nat /\ current[p] \in Nat /\ Head(q) \in Nat
          BY <2>3
        <5>2. Head(q) > current[p] /\ (r > current[p] => r >= Head(q))
          BY <2>1
        <5>. QED BY ONLY <5>1, <5>2
      <4>. QED BY <4>1, <4>2
    <3>. QED BY <2>2, <2>3, <3>1 DEF Progress
  <2>. QED BY <2>1, <2>2, <2>4
<1>. QED BY <1>1, <1>2

LEMMA SubmitInTurn ==
    ASSUME TurnInv, NEW p \in Programmers, NEW mode \in Modes, Submit(p, mode)
    PROVE  FreshInv' /\ OrderInv' /\ TaskInv'
<1>. DEFINE n == Len(requests)
<1>1. Typed(n)
  BY Types DEF TurnInv
<1>2. /\ Len(requests') = n + 1 /\ n + 1 <= MaxRequests /\ n \in Nat
      /\ \A r \in 1..n : requests'[r] = requests[r]
      /\ requests'[n + 1].by = p
  BY DEF Submit, TurnInv, TypeOK
<1>3. UNCHANGED <<outcome, task>>
  BY DEF Submit
<1>4. FreshInv' /\ TaskInv'
  BY <1>2, <1>3 DEF FreshInv, TaskInv, TurnInv, Ended
<1>. HIDE DEF n
<1>5. ~Ended(n + 1, outcome)
  BY <1>2 DEF TurnInv, FreshInv, n
<1>6. ASSUME NEW o \in Programmers,
             queue'[o] = queue[o], current'[o] = current[o], state'[o] = state[o], o # p
      PROVE  /\ Ordered(o, queue'[o], current'[o], requests')
             /\ Progress(o, state'[o], current'[o], requests', outcome')
  <2>1. /\ Ordered(o, queue[o], current[o], requests)
        /\ Progress(o, state[o], current[o], requests, outcome)
        /\ queue[o] \in Seq(1..n) /\ current[o] \in 0..n
    BY <1>1 DEF TurnInv, OrderInv, Typed
  <2>2. Ordered(o, queue[o], current[o], requests')
    <3>1. n = Len(requests) /\ requests'[n + 1].by # o /\ Len(requests') = n + 1
          /\ n \in Nat /\ \A r \in 1..n : requests'[r] = requests[r]
      BY <1>2, <1>6 DEF n
    <3>. QED BY ONLY <2>1, <3>1, OtherOrdered
  <2>3. Progress(o, state[o], current[o], requests', outcome)
    BY SMTT(30), <1>2, <1>6, <2>1 DEF Progress, n
  <2>. QED BY <1>3, <1>6, <2>2, <2>3
<1>7. /\ Ordered(p, queue[p], current[p], requests)
      /\ Progress(p, state[p], current[p], requests, outcome)
      /\ queue[p] \in Seq(1..n) /\ current[p] \in 0..n /\ n = Len(requests)
  BY <1>1 DEF TurnInv, OrderInv, Typed, n
<1>8. Ordered(p, Append(queue[p], n + 1), current[p], requests')
  BY ONLY <1>2, <1>7, AppendOrdered
<1>9. Progress(p, state[p], current[p], requests', outcome)
  <2>1. \A r \in 1..n :
            requests'[r].by = p
              => (Ended(r, outcome) <=> (r < current[p] \/ (r = current[p] /\ state[p] = "Idle")))
    BY <1>2, <1>7 DEF Progress
  <2>2. ~(n + 1 <= current[p])
    BY <1>2, <1>7
  <2>3. \A r \in 1..Len(requests') :
            requests'[r].by = p
              => (Ended(r, outcome) <=> (r < current[p] \/ (r = current[p] /\ state[p] = "Idle")))
    <3>. SUFFICES ASSUME NEW r \in 1..Len(requests'), requests'[r].by = p
                  PROVE  Ended(r, outcome)
                           <=> (r < current[p] \/ (r = current[p] /\ state[p] = "Idle"))
      OBVIOUS
    <3>1. CASE r = n + 1
      BY <1>2, <1>5, <1>7, <2>2, <3>1
    <3>2. CASE r # n + 1
      BY <1>2, <2>1, <3>2
    <3>. QED BY <3>1, <3>2
  <2>. QED BY <1>7, <2>3 DEF Progress
<1>10. CASE state[p] = "Idle"
  <2>1. SendCurrentRequest(p, Append(queue[p], n + 1))
    BY <1>10 DEF Submit, n
  <2>2. /\ n + 1 \in Nat /\ n + 1 = Len(requests')
        /\ Append(queue[p], n + 1) \in Seq(1..(n + 1))
        /\ state \in [Programmers -> States]
        /\ current \in [Programmers -> 0..(n + 1)]
    BY <1>1, <1>2, <1>7, SeqGrows DEF Typed
  <2>3. queue \in [Programmers -> Seq(1..(n + 1))]
    BY <1>1, <1>2, SeqGrows DEF Typed
  <2>4. Progress(p, "Idle", current[p], requests', outcome)
    BY <1>9, <1>10
  <2>5. /\ Ordered(p, queue'[p], current'[p], requests')
        /\ Progress(p, state'[p], current'[p], requests', outcome)
        /\ \A o \in Programmers \ {p} :
              queue'[o] = queue[o] /\ current'[o] = current[o] /\ state'[o] = state[o]
    BY ONLY <2>1, <2>2, <2>3, <2>4, <1>8, SendInTurn, p \in Programmers
  <2>6. \A o \in Programmers \ {p} :
            /\ Ordered(o, queue'[o], current'[o], requests')
            /\ Progress(o, state'[o], current'[o], requests', outcome')
    BY <1>6, <2>5
  <2>7. OrderInv'
    BY <1>3, <2>5, <2>6 DEF OrderInv
  <2>. QED BY <1>4, <2>7
<1>11. CASE state[p] # "Idle"
  <2>1. /\ queue'[p] = Append(queue[p], n + 1)
        /\ \A o \in Programmers \ {p} : queue'[o] = queue[o]
        /\ UNCHANGED <<state, current>>
    BY <1>1, <1>11 DEF Submit, Typed, n
  <2>2. \A o \in Programmers \ {p} :
            /\ Ordered(o, queue'[o], current'[o], requests')
            /\ Progress(o, state'[o], current'[o], requests', outcome')
    BY <1>6, <2>1
  <2>3. OrderInv'
    BY <1>3, <1>8, <1>9, <2>1, <2>2 DEF OrderInv
  <2>. QED BY <1>4, <2>3
<1>. QED BY <1>10, <1>11

(* A request that is completed is the current one, which has not ended. *)
LEMMA CompletedIsCurrent ==
    ASSUME TurnInv, NEW p \in Programmers, Waiting(p)
    PROVE  /\ current[p] \in 1..Len(requests) /\ requests[current[p]].by = p
           /\ ~Ended(current[p], outcome)
           /\ Progress(p, state[p], current[p], requests, outcome)
           /\ Ordered(p, queue[p], current[p], requests)
<1>1. /\ Ordered(p, queue[p], current[p], requests)
      /\ Progress(p, state[p], current[p], requests, outcome)
      /\ current[p] \in 0..Len(requests) /\ Len(requests) \in Nat
  BY Types DEF TurnInv, OrderInv, Typed
<1>2. current[p] \in 1..Len(requests) /\ requests[current[p]].by = p
  BY <1>1 DEF Ordered, Progress, Waiting
<1>. QED BY <1>1, <1>2 DEF Progress, Waiting

(* The three things that a programmer may do about a message. *)
IncomingCase(p, message, reason) ==
    \/ ~Waiting(p) /\ UNCHANGED <<state, queue, current, sendQueue, outcome>>
    \/ /\ Waiting(p) /\ reason = None
       /\ state' = [state EXCEPT ![p] = GoesTo(@, message.what)]
       /\ UNCHANGED <<queue, current, sendQueue, outcome>>
    \/ /\ Waiting(p) /\ reason # None
       /\ CompleteCurrentRequest(p, reason, message.of)

LEMMA IncomingInTurn ==
    ASSUME TurnInv, NEW p \in Programmers, NEW message, NEW reason,
           UNCHANGED <<requests, task>>,
           IncomingCase(p, message, reason)
    PROVE  FreshInv' /\ OrderInv' /\ TaskInv'
<1>1. Typed(Len(requests))
  BY Types DEF TurnInv
<1>2. TaskInv'
  BY DEF TurnInv, TaskInv
<1>3. CASE UNCHANGED <<state, queue, current, sendQueue, outcome>>
  BY <1>2, <1>3 DEF TurnInv, FreshInv, OrderInv
<1>4. CASE /\ Waiting(p)
           /\ state' = [state EXCEPT ![p] = GoesTo(@, message.what)]
           /\ UNCHANGED <<queue, current, sendQueue, outcome>>
  <2>1. \A o \in Programmers : state'[o] = "Idle" <=> state[o] = "Idle"
    BY <1>1, <1>4, GoesToType DEF Typed, Waiting
  <2>2. \A o \in Programmers : Progress(o, state'[o], current[o], requests, outcome)
    BY <2>1 DEF TurnInv, OrderInv, Progress
  <2>. QED BY <1>2, <1>4, <2>2 DEF TurnInv, FreshInv, OrderInv
<1>5. CASE Waiting(p) /\ reason # None /\ CompleteCurrentRequest(p, reason, message.of)
  <2>. DEFINE n == Len(requests)
              result == [reason |-> reason, of |-> message.of]
  <2>1. /\ current[p] \in 1..n /\ requests[current[p]].by = p
        /\ ~Ended(current[p], outcome)
        /\ Progress(p, state[p], current[p], requests, outcome)
        /\ Ordered(p, queue[p], current[p], requests)
    BY <1>5, CompletedIsCurrent
  <2>2. outcome' = [outcome EXCEPT ![current[p]] = result] /\ SendCurrentRequest(p, queue[p])
    BY <1>5 DEF CompleteCurrentRequest
  <2>3. result.reason # None
    BY <1>5
  <2>. HIDE DEF result
  <2>4. /\ outcome'[current[p]].reason # None
        /\ \A r \in 1..MaxRequests : r # current[p] => outcome'[r] = outcome[r]
        /\ n <= MaxRequests /\ n \in Nat /\ MaxRequests \in Nat
    BY <1>1, <2>1, <2>2, <2>3 DEF Typed
  <2>. HIDE DEF n
  <2>5. FreshInv'
    <3>1. \A r \in 1..MaxRequests : r > n => ~Ended(r, outcome)
      BY DEF TurnInv, FreshInv, n
    <3>2. \A r \in 1..MaxRequests : r > n => r # current[p]
      BY <2>1, <2>4
    <3>. QED BY <2>4, <3>1, <3>2 DEF FreshInv, Ended, n
  <2>6. Progress(p, "Idle", current[p], requests, outcome')
    <3>. SUFFICES ASSUME NEW r \in 1..n, requests[r].by = p
                  PROVE  Ended(r, outcome') <=> (r < current[p] \/ r = current[p])
      BY DEF Progress, n
    <3>1. CASE r = current[p]
      BY <2>4, <3>1 DEF Ended
    <3>2. CASE r # current[p]
      <4>1. r \in 1..MaxRequests /\ outcome'[r] = outcome[r]
        BY <2>4, <3>2
      <4>2. Ended(r, outcome) <=> r < current[p]
        BY <2>1, <3>2 DEF Progress, n
      <4>. QED BY <3>2, <4>1, <4>2 DEF Ended
    <3>. QED BY <3>1, <3>2
  <2>7. /\ Ordered(p, queue'[p], current'[p], requests)
        /\ Progress(p, state'[p], current'[p], requests, outcome')
        /\ \A o \in Programmers \ {p} :
              queue'[o] = queue[o] /\ current'[o] = current[o] /\ state'[o] = state[o]
    <3>1. /\ n = Len(requests) /\ queue[p] \in Seq(1..n)
          /\ state \in [Programmers -> States]
          /\ queue \in [Programmers -> Seq(1..n)]
          /\ current \in [Programmers -> 0..n]
      BY <1>1 DEF Typed, n
    <3>. QED BY ONLY <2>1, <2>2, <2>4, <2>6, <3>1, SendInTurn, p \in Programmers
  <2>8. ASSUME NEW o \in Programmers \ {p}
        PROVE  Progress(o, state[o], current[o], requests, outcome')
    <3>1. Progress(o, state[o], current[o], requests, outcome)
      BY DEF TurnInv, OrderInv
    <3>2. \A r \in 1..n : requests[r].by = o => (Ended(r, outcome') <=> Ended(r, outcome))
      BY <2>1, <2>4 DEF Ended
    <3>. QED BY <3>1, <3>2 DEF Progress, n
  <2>9. OrderInv'
    <3>1. \A o \in Programmers : Ordered(o, queue[o], current[o], requests)
      BY DEF TurnInv, OrderInv
    <3>. QED BY <2>7, <2>8, <3>1 DEF OrderInv
  <2>. QED BY <1>2, <2>5, <2>9
<1>. QED BY <1>3, <1>4, <1>5 DEF IncomingCase

LEMMA IncomingCases ==
    ASSUME NEW p, IncomingMessage(p)
    PROVE  IncomingCase(p, Head(incoming),
                        Ends(state[p], requests[current[p]].mode, Head(incoming).what))
BY DEF IncomingMessage, IncomingCase

LEMMA TurnInit == Init => TurnInv
<1>. SUFFICES ASSUME Init PROVE TurnInv
  OBVIOUS
<1>1. TypeOK
  BY InitType
<1>2. TaskInv
  BY DEF Init, TaskInv
<1>3. \A r \in 1..MaxRequests : ~Ended(r, outcome)
  BY DEF Init, NoOutcome, Ended
<1>4. OrderInv
  <2>. SUFFICES ASSUME NEW p \in Programmers
                PROVE  /\ Ordered(p, queue[p], current[p], requests)
                       /\ Progress(p, state[p], current[p], requests, outcome)
    BY DEF OrderInv
  <2>1. queue[p] = <<>> /\ current[p] = 0 /\ state[p] = "Idle" /\ Len(requests) = 0
    BY DEF Init
  <2>2. 1..Len(queue[p]) = {} /\ 1..Len(requests) = {}
    BY <2>1
  <2>. QED BY <2>1, <2>2 DEF Ordered, Progress, Increasing, In
<1>. QED BY <1>1, <1>2, <1>3, <1>4 DEF TurnInv, FreshInv

LEMMA TurnStep == TurnInv /\ [Next]_vars => TurnInv'
<1>. SUFFICES ASSUME TurnInv, [Next]_vars PROVE TurnInv'
  OBVIOUS
<1>1. ASSUME NEW p \in Programmers, NEW mode \in Modes, Submit(p, mode) PROVE TurnInv'
  BY <1>1, SubmitType, SubmitInTurn DEF TurnInv
<1>2. CASE SendNextMessage
  <2>1. TypeOK'
    BY <1>2, SendNextType DEF TurnInv
  <2>2. UNCHANGED <<requests, state, queue, current, outcome>>
    BY <1>2 DEF SendNextMessage
  <2>3. Head(sendQueue) # 0
    BY <1>2, Types DEF SendNextMessage, TurnInv, Typed
  <2>4. TaskInv'
    BY <1>2, <2>3 DEF SendNextMessage, TurnInv, TaskInv
  <2>. QED BY <2>1, <2>2, <2>4 DEF TurnInv, FreshInv, OrderInv
<1>3. CASE StationReplies
  <2>1. TypeOK'
    BY <1>3, RepliesType DEF TurnInv, TaskInv
  <2>2. UNCHANGED <<requests, state, queue, current, outcome>>
    BY <1>3 DEF StationReplies
  <2>3. task'.of = task.of /\ task.of # 0
    BY <1>3, Types DEF StationReplies, TurnInv, TaskInv, Typed
  <2>. QED BY <2>1, <2>2, <2>3 DEF TurnInv, FreshInv, OrderInv, TaskInv
<1>4. ASSUME NEW p \in Programmers, IncomingMessage(p) PROVE TurnInv'
  <2>1. UNCHANGED <<requests, task>>
    BY <1>4 DEF IncomingMessage
  <2>2. FreshInv' /\ OrderInv' /\ TaskInv'
    BY <1>4, <2>1, IncomingInTurn, IncomingCases
  <2>3. state[p] # "Idle" => current[p] # 0
    BY DEF TurnInv, OrderInv, Progress
  <2>4. TypeOK'
    BY <1>4, <2>3, IncomingType DEF TurnInv
  <2>. QED BY <2>2, <2>4 DEF TurnInv
<1>5. CASE UNCHANGED vars
  BY <1>5 DEF vars, TurnInv, TypeOK, Requests, FreshInv, OrderInv, TaskInv
<1>. QED BY <1>1, <1>2, <1>3, <1>4, <1>5 DEF Next

(* Every reachable state is well typed: no request that does not exist is      *)
(* waited for, sent or answered, and a programmer that is idle has nothing in  *)
(* its queue. For any number of programmers, modes and requests.               *)
THEOREM TypeCorrect == Spec => []TypeOK
<1>1. TurnInv => TypeOK
  BY DEF TurnInv
<1>. QED BY TurnInit, TurnStep, <1>1, PTL DEF Spec

(* The requests of a programmer end in the order of their submission, for any  *)
(* number of programmers that get each other's replies.                        *)
THEOREM InTurn == Spec => []EachInTurn
<1>1. TurnInv => EachInTurn
  <2>. SUFFICES ASSUME TurnInv, NEW r \in 1..Len(requests), NEW s \in 1..Len(requests),
                       requests[r].by = requests[s].by, r < s, Ended(s, outcome)
                PROVE  Ended(r, outcome)
    BY DEF EachInTurn, Requests, Done, Ended
  <2>. DEFINE p == requests[r].by
  <2>1. p \in Programmers /\ current[p] \in 0..Len(requests)
        /\ Progress(p, state[p], current[p], requests, outcome) /\ Len(requests) \in Nat
    BY Types DEF TurnInv, Typed, OrderInv
  <2>2. s <= current[p]
    BY <2>1 DEF Progress
  <2>3. r < current[p]
    BY <2>1, <2>2
  <2>. QED BY <2>1, <2>3 DEF Progress
<1>. QED BY TurnInit, TurnStep, <1>1, PTL DEF Spec

(* No later message, of whomever, replaces a result that was given.            *)
THEOREM Stays == Spec => OutcomeStays
<1>1. TurnInv /\ [Next]_vars => [\A r \in Requests : Done(r) => outcome'[r] = outcome[r]]_vars
  <2>. SUFFICES ASSUME TurnInv, Next, NEW r \in Requests, Done(r)
                PROVE  outcome'[r] = outcome[r]
    OBVIOUS
  <2>1. ASSUME NEW p \in Programmers, NEW mode \in Modes, Submit(p, mode)
        PROVE  outcome'[r] = outcome[r]
    BY <2>1 DEF Submit
  <2>2. CASE SendNextMessage \/ StationReplies
    BY <2>2 DEF SendNextMessage, StationReplies
  <2>3. ASSUME NEW p \in Programmers, IncomingMessage(p)
        PROVE  outcome'[r] = outcome[r]
    <3>. DEFINE message == Head(incoming)
                reason  == Ends(state[p], requests[current[p]].mode, message.what)
    <3>1. IncomingCase(p, message, reason)
      BY <2>3, IncomingCases
    <3>. HIDE DEF message, reason
    <3>2. CASE Waiting(p) /\ CompleteCurrentRequest(p, reason, message.of)
      <4>1. r # current[p]
        BY <3>2, CompletedIsCurrent DEF Done, Ended
      <4>2. outcome' = [outcome EXCEPT ![current[p]] = [reason |-> reason, of |-> message.of]]
        BY <3>2 DEF CompleteCurrentRequest
      <4>3. r \in 1..MaxRequests /\ outcome \in [1..MaxRequests -> Outcome]
        BY Types DEF TurnInv, Typed, Requests
      <4>. QED BY <4>1, <4>2, <4>3
    <3>. QED BY <3>1, <3>2 DEF IncomingCase
  <2>. QED BY <2>1, <2>2, <2>3 DEF Next
<1>. QED BY TurnInit, TurnStep, <1>1, PTL DEF Spec, OutcomeStays

-----------------------------------------------------------------------------
(* The replies that a lone programmer has not looked at yet take its request   *)
(* to its end.                                                                 *)
Unread(p, inc, hrd) == IF p \in hrd THEN Tail(inc) ELSE inc

(* What is still to come: the unread messages and the rest of the task. *)
ToCome(unread, replies) ==
    [i \in 1..(Len(unread) + Len(replies)) |->
        IF i <= Len(unread) THEN unread[i].what ELSE replies[i - Len(unread)]]

(* Settles, for n replies that are given by a function. *)
SettlesIn(s, mode, f, n) ==
    \E path \in [0..n -> States \cup {"done"}] :
        /\ path[0] = s
        /\ path[n] = "done"
        /\ \A i \in 1..n : path[i - 1] # "done" /\ path[i] = After(path[i - 1], mode, f[i])

(* Its request r is still to be sent, ... *)
ToSend(p, r, st, sq, tsk, inc, hrd) ==
    /\ sq = <<r>>
    /\ st = "WaitingForSubmitLack"
    /\ tsk.replies = <<>>
    /\ Unread(p, inc, hrd) = <<>>

(* ... or it is being worked on. *)
WorkedOn(p, r, mode, st, sq, tsk, inc, hrd) ==
    /\ sq = <<>>
    /\ tsk.of = r
    /\ \A i \in 1..Len(Unread(p, inc, hrd)) : Unread(p, inc, hrd)[i].of = r
    /\ SettlesIn(st, mode, ToCome(Unread(p, inc, hrd), tsk.replies),
                 Len(Unread(p, inc, hrd)) + Len(tsk.replies))

Quiet(sq, tsk, inc, hrd) ==
    /\ sq = <<>>
    /\ tsk.replies = <<>>
    /\ IF hrd = {} THEN inc = <<>> ELSE Len(inc) = 1

Served(p) ==
    \/ ToSend(p, current[p], state[p], sendQueue, task, incoming, heard)
    \/ WorkedOn(p, current[p], requests[current[p]].mode, state[p],
                sendQueue, task, incoming, heard)

Alone(p) == Waiting(p) /\ \A o \in Programmers : Waiting(o) => o = p

Lone ==
    \/ /\ \A p \in Programmers : ~Waiting(p)
       /\ Quiet(sendQueue, task, incoming, heard)
    \/ \E p \in Programmers : Alone(p) /\ Served(p)

OwnInv ==
    /\ TurnInv
    /\ heard # {} => incoming # <<>>
    /\ clash \/ Lone
    /\ OutcomeIsOwn

(* The station replies: what is to come stays the same. *)
LEMMA ReplyMoves ==
    ASSUME NEW u \in Seq(Reply), NEW replies \in Seq(Replies), replies # <<>>, NEW m, m \in Reply,
           m.what = Head(replies)
    PROVE  /\ Len(Append(u, m)) + Len(Tail(replies)) = Len(u) + Len(replies)
           /\ \A i \in 1..(Len(u) + Len(replies)) :
                 ToCome(Append(u, m), Tail(replies))[i] = ToCome(u, replies)[i]
<1>. DEFINE longer == Append(u, m)
            rest   == Tail(replies)
<1>1. /\ Len(u) \in Nat /\ Len(replies) \in Nat \ {0} /\ Len(longer) = Len(u) + 1
      /\ Len(rest) = Len(replies) - 1
      /\ \A i \in 1..Len(u) : longer[i] = u[i]
      /\ longer[Len(u) + 1] = m
      /\ \A i \in 1..Len(rest) : rest[i] = replies[i + 1]
      /\ Head(replies) = replies[1]
  OBVIOUS
<1>. HIDE DEF longer, rest
<1>2. Len(longer) + Len(rest) = Len(u) + Len(replies)
  BY <1>1
<1>3. ASSUME NEW i \in 1..(Len(u) + Len(replies))
      PROVE  ToCome(longer, rest)[i] = ToCome(u, replies)[i]
  <2>1. ToCome(longer, rest)[i] = IF i <= Len(longer) THEN longer[i].what ELSE rest[i - Len(longer)]
    BY <1>2 DEF ToCome
  <2>2. ToCome(u, replies)[i] = IF i <= Len(u) THEN u[i].what ELSE replies[i - Len(u)]
    BY DEF ToCome
  <2>3. CASE i <= Len(u)
    BY <1>1, <2>1, <2>2, <2>3
  <2>4. CASE i = Len(u) + 1
    BY <1>1, <2>1, <2>2, <2>4
  <2>5. CASE i > Len(u) + 1
    <3>1. i - Len(longer) \in 1..Len(rest) /\ (i - Len(longer)) + 1 = i - Len(u)
          /\ ~(i <= Len(longer)) /\ ~(i <= Len(u))
      BY <1>1, <2>5
    <3>. QED BY <1>1, <2>1, <2>2, <3>1
  <2>. QED BY <1>1, <2>3, <2>4, <2>5
<1>. QED BY <1>2, <1>3 DEF longer, rest

LEMMA SettlesSame ==
    ASSUME NEW s, NEW mode, NEW n \in Nat, NEW f, NEW g, \A i \in 1..n : f[i] = g[i],
           SettlesIn(s, mode, f, n)
    PROVE  SettlesIn(s, mode, g, n)
BY DEF SettlesIn

(* One reply is read: either it ends the request and is the last one, or the   *)
(* others settle the rest.                                                     *)
LEMMA SettlesStep ==
    ASSUME NEW s \in States, NEW mode, NEW n \in Nat, NEW f, SettlesIn(s, mode, f, n)
    PROVE  /\ n # 0
           /\ Ends(s, mode, f[1]) # None => n = 1
           /\ Ends(s, mode, f[1]) = None
                => SettlesIn(GoesTo(s, f[1]), mode, [i \in 1..(n - 1) |-> f[i + 1]], n - 1)
<1>1. PICK path \in [0..n -> States \cup {"done"}] :
        /\ path[0] = s
        /\ path[n] = "done"
        /\ \A i \in 1..n : path[i - 1] # "done" /\ path[i] = After(path[i - 1], mode, f[i])
  BY DEF SettlesIn
<1>2. n # 0
  BY <1>1 DEF States
<1>3. 1 \in 1..n /\ path[1] = After(s, mode, f[1])
  <2>1. 1 \in 1..n /\ 1 - 1 = 0
    BY <1>2
  <2>. QED BY <1>1, <2>1
<1>4. ASSUME Ends(s, mode, f[1]) # None PROVE n = 1
  <2>1. path[1] = "done"
    BY <1>3, <1>4 DEF After
  <2>2. 2 \notin 1..n
    <3>1. 2 \in 1..n => path[2 - 1] # "done"
      BY <1>1
    <3>. QED BY <2>1, <3>1
  <2>. QED BY <1>2, <2>2
<1>5. ASSUME Ends(s, mode, f[1]) = None
      PROVE  SettlesIn(GoesTo(s, f[1]), mode, [i \in 1..(n - 1) |-> f[i + 1]], n - 1)
  <2>. DEFINE rest == [i \in 0..(n - 1) |-> path[i + 1]]
              g    == [i \in 1..(n - 1) |-> f[i + 1]]
  <2>1. n - 1 \in Nat /\ rest \in [0..(n - 1) -> States \cup {"done"}]
    BY <1>2
  <2>2. rest[0] = GoesTo(s, f[1])
    <3>1. rest[0] = path[1]
      BY <1>2
    <3>. QED BY <1>3, <1>5, <3>1 DEF After
  <2>3. rest[n - 1] = "done"
    BY <1>1, <1>2
  <2>4. ASSUME NEW i \in 1..(n - 1)
        PROVE  rest[i - 1] # "done" /\ rest[i] = After(rest[i - 1], mode, g[i])
    <3>1. i + 1 \in 1..n /\ (i + 1) - 1 = i /\ (i - 1) + 1 = i
          /\ i - 1 \in 0..(n - 1) /\ i \in 0..(n - 1)
      BY <1>2
    <3>2. rest[i - 1] = path[i] /\ rest[i] = path[i + 1] /\ g[i] = f[i + 1]
      BY <3>1
    <3>3. path[i] # "done" /\ path[i + 1] = After(path[i], mode, f[i + 1])
      BY <1>1, <3>1
    <3>. QED BY ONLY <3>2, <3>3
  <2>. HIDE DEF rest, g
  <2>5. SettlesIn(GoesTo(s, f[1]), mode, g, n - 1)
    BY <2>1, <2>2, <2>3, <2>4 DEF SettlesIn
  <2>. QED BY <2>5 DEF g
<1>. QED BY <1>2, <1>4, <1>5

(* The same for the messages of a programmer. *)
LEMMA ReadNext ==
    ASSUME NEW s \in States, NEW mode, NEW inc \in Seq(Reply), NEW replies \in Seq(Replies),
           inc # <<>>, SettlesIn(s, mode, ToCome(inc, replies), Len(inc) + Len(replies))
    PROVE  /\ Ends(s, mode, Head(inc).what) # None => Len(inc) = 1 /\ replies = <<>>
           /\ Ends(s, mode, Head(inc).what) = None
                => SettlesIn(GoesTo(s, Head(inc).what), mode, ToCome(Tail(inc), replies),
                             Len(Tail(inc)) + Len(replies))
<1>. DEFINE n    == Len(inc) + Len(replies)
            f    == ToCome(inc, replies)
            rest == Tail(inc)
            g    == [i \in 1..(n - 1) |-> f[i + 1]]
<1>1. /\ Len(inc) \in Nat \ {0} /\ Len(replies) \in Nat /\ Len(rest) = Len(inc) - 1
      /\ Head(inc) = inc[1]
      /\ \A i \in 1..Len(rest) : rest[i] = inc[i + 1]
      /\ Len(replies) = 0 => replies = <<>>
  OBVIOUS
<1>2. n \in Nat /\ n - 1 \in Nat /\ n - 1 = Len(rest) + Len(replies)
  BY <1>1
<1>3. f[1] = Head(inc).what
  BY <1>1 DEF ToCome
<1>4. \A i \in 1..(n - 1) : g[i] = ToCome(rest, replies)[i]
  <2>. SUFFICES ASSUME NEW i \in 1..(n - 1) PROVE f[i + 1] = ToCome(rest, replies)[i]
    OBVIOUS
  <2>. HIDE DEF rest
  <2>1. i \in 1..(Len(rest) + Len(replies)) /\ i + 1 \in 1..(Len(inc) + Len(replies))
    BY <1>1
  <2>2. f[i + 1] = IF i + 1 <= Len(inc) THEN inc[i + 1].what ELSE replies[(i + 1) - Len(inc)]
    BY <2>1 DEF ToCome
  <2>3. ToCome(rest, replies)[i] = IF i <= Len(rest) THEN rest[i].what ELSE replies[i - Len(rest)]
    BY <2>1 DEF ToCome
  <2>4. CASE i <= Len(rest)
    BY <1>1, <2>2, <2>3, <2>4
  <2>5. CASE i > Len(rest)
    <3>1. ~(i <= Len(rest)) /\ ~(i + 1 <= Len(inc)) /\ (i + 1) - Len(inc) = i - Len(rest)
      BY <1>1, <2>5
    <3>. QED BY <2>2, <2>3, <3>1
  <2>. QED BY <1>1, <2>4, <2>5
<1>. HIDE DEF f, n, rest
<1>5. /\ Ends(s, mode, f[1]) # None => n = 1
      /\ Ends(s, mode, f[1]) = None => SettlesIn(GoesTo(s, f[1]), mode, g, n - 1)
  <2>1. SettlesIn(s, mode, f, n)
    BY DEF f, n
  <2>. QED BY ONLY <1>2, <2>1, SettlesStep, s \in States
<1>6. n = 1 => Len(inc) = 1 /\ replies = <<>>
  BY <1>1 DEF n
<1>. HIDE DEF g
<1>7. ASSUME Ends(s, mode, f[1]) = None
      PROVE  SettlesIn(GoesTo(s, f[1]), mode, ToCome(rest, replies), n - 1)
  BY <1>2, <1>4, <1>5, <1>7, SettlesSame
<1>. QED BY <1>2, <1>3, <1>5, <1>6, <1>7 DEF rest

(* Hearing a message: what the others have not read stays. *)
Hears(p) ==
    /\ incoming # <<>> /\ p \notin heard
    /\ IF heard \cup {p} = Programmers
       THEN heard' = {} /\ incoming' = Tail(incoming)
       ELSE heard' = heard \cup {p} /\ UNCHANGED incoming

LEMMA HearsUnread ==
    ASSUME NEW p \in Programmers, Hears(p), heard \subseteq Programmers
    PROVE  /\ Unread(p, incoming, heard) = incoming
           /\ Unread(p, incoming', heard') = Tail(incoming)
           /\ \A o \in Programmers \ {p} :
                 Unread(o, incoming', heard') = Unread(o, incoming, heard)
           /\ heard' # {} => incoming' # <<>>
BY DEF Hears, Unread

LEMMA HearsQuiet ==
    ASSUME NEW p \in Programmers, Hears(p), incoming \in Seq(Reply), Len(incoming) = 1
    PROVE  IF heard' = {} THEN incoming' = <<>> ELSE Len(incoming') = 1
<1>1. Tail(incoming) = <<>>
  BY LastTail
<1>. QED BY <1>1 DEF Hears

-----------------------------------------------------------------------------
(* The steps of a lone programmer. *)

(* A message that is no one's. *)
LEMMA QuietHears ==
    ASSUME NEW p \in Programmers, Hears(p), Typed(Len(requests)),
           \A o \in Programmers : ~Waiting(o),
           Quiet(sendQueue, task, incoming, heard),
           UNCHANGED <<state, sendQueue, task>>
    PROVE  Lone'
<1>1. Len(incoming) = 1
  BY DEF Hears, Quiet
<1>2. Quiet(sendQueue', task', incoming', heard')
  BY <1>1, HearsQuiet DEF Quiet, Typed
<1>3. \A o \in Programmers : state'[o] = "Idle"
  BY DEF Waiting
<1>. QED BY <1>2, <1>3 DEF Lone, Waiting

(* A message that the programmer does not hear in this step. *)
LEMMA OtherHears ==
    ASSUME NEW p \in Programmers, Hears(p), heard \subseteq Programmers,
           NEW w \in Programmers \ {p}, Alone(w), Served(w),
           UNCHANGED <<requests, state, current, sendQueue, task>>
    PROVE  Lone'
<1>1. Unread(w, incoming', heard') = Unread(w, incoming, heard)
  BY HearsUnread
<1>2. Served(w)'
  BY <1>1 DEF Served, ToSend, WorkedOn
<1>3. Alone(w)'
  BY DEF Alone, Waiting
<1>. QED BY <1>2, <1>3 DEF Lone

(* A message that it hears is a reply to its request, ... *)
LEMMA HeardIsOwn ==
    ASSUME NEW p \in Programmers, Hears(p), Typed(Len(requests)), Served(p)
    PROVE  /\ sendQueue = <<>> /\ task.of = current[p]
           /\ \A i \in 1..Len(incoming) : incoming[i].of = current[p]
           /\ Head(incoming).of = current[p]
           /\ SettlesIn(state[p], requests[current[p]].mode, ToCome(incoming, task.replies),
                        Len(incoming) + Len(task.replies))
<1>1. Unread(p, incoming, heard) = incoming /\ incoming # <<>> /\ incoming \in Seq(Reply)
  BY DEF Hears, Unread, Typed
<1>2. WorkedOn(p, current[p], requests[current[p]].mode, state[p],
               sendQueue, task, incoming, heard)
  BY <1>1 DEF Served, ToSend
<1>3. \A i \in 1..Len(incoming) : incoming[i].of = current[p]
  BY <1>1, <1>2 DEF WorkedOn
<1>4. Head(incoming) = incoming[1] /\ 1 \in 1..Len(incoming)
  BY <1>1
<1>. QED BY <1>1, <1>2, <1>3, <1>4 DEF WorkedOn

(* ... that leads it on, ... *)
LEMMA AloneGoesOn ==
    ASSUME NEW p \in Programmers, Hears(p), Typed(Len(requests)), Alone(p), Served(p),
           Ends(state[p], requests[current[p]].mode, Head(incoming).what) = None,
           state' = [state EXCEPT ![p] = GoesTo(@, Head(incoming).what)],
           UNCHANGED <<requests, current, sendQueue, task>>
    PROVE  Lone'
<1>. DEFINE r == current[p]
            rest == Tail(incoming)
            goes == GoesTo(state[p], Head(incoming).what)
            mode == requests[r].mode
<1>1. /\ sendQueue = <<>> /\ task.of = r
      /\ \A i \in 1..Len(incoming) : incoming[i].of = r
      /\ SettlesIn(state[p], mode, ToCome(incoming, task.replies),
                   Len(incoming) + Len(task.replies))
  BY HeardIsOwn
<1>2. /\ incoming \in Seq(Reply) /\ incoming # <<>>
      /\ task.replies \in Seq(Replies) /\ state[p] \in States
  BY DEF Typed, Hears
<1>3. SettlesIn(goes, mode, ToCome(rest, task.replies), Len(rest) + Len(task.replies))
  BY <1>1, <1>2, ReadNext
<1>4. \A i \in 1..Len(rest) : rest[i].of = r
  <2>1. Len(rest) = Len(incoming) - 1 /\ Len(incoming) \in Nat
        /\ \A i \in 1..Len(rest) : rest[i] = incoming[i + 1]
    BY <1>2
  <2>. HIDE DEF rest
  <2>2. \A i \in 1..Len(rest) : i + 1 \in 1..Len(incoming)
    BY <2>1
  <2>. QED BY <1>1, <2>1, <2>2
<1>5. Unread(p, incoming', heard') = rest
  BY HearsUnread DEF Typed
<1>6. state'[p] = goes /\ goes # "Idle"
      /\ \A o \in Programmers \ {p} : state'[o] = state[o]
  BY GoesToType DEF Typed, Alone, Waiting
<1>. HIDE DEF r, rest, goes, mode
<1>7. current'[p] = r /\ requests'[r].mode = mode
  BY DEF r, mode
<1>8. WorkedOn(p, r, mode, goes, sendQueue', task', incoming', heard')
  BY <1>1, <1>3, <1>4, <1>5 DEF WorkedOn
<1>9. Served(p)'
  BY <1>6, <1>7, <1>8 DEF Served
<1>10. Alone(p)'
  BY <1>6 DEF Alone, Waiting
<1>. QED BY <1>9, <1>10 DEF Lone

(* ... or ends it, with nothing left to come. *)
LEMMA AloneCompletes ==
    ASSUME NEW p \in Programmers, Hears(p), Typed(Len(requests)), Alone(p), Served(p),
           Ends(state[p], requests[current[p]].mode, Head(incoming).what) # None,
           SendCurrentRequest(p, queue[p]),
           UNCHANGED <<requests, task>>
    PROVE  Lone'
<1>1. /\ sendQueue = <<>> /\ task.of = current[p]
      /\ SettlesIn(state[p], requests[current[p]].mode, ToCome(incoming, task.replies),
                   Len(incoming) + Len(task.replies))
  BY HeardIsOwn
<1>2. /\ incoming \in Seq(Reply) /\ incoming # <<>>
      /\ task.replies \in Seq(Replies) /\ state[p] \in States
      /\ queue[p] \in Seq(1..Len(requests))
  BY DEF Typed, Hears
<1>3. Len(incoming) = 1 /\ task.replies = <<>>
  BY <1>1, <1>2, ReadNext
<1>4. Tail(incoming) = <<>>
  BY ONLY <1>2, <1>3, LastTail
<1>5. Unread(p, incoming', heard') = <<>>
  BY <1>4, HearsUnread DEF Typed
<1>6. \A o \in Programmers \ {p} : state'[o] = state[o] /\ state[o] = "Idle"
  BY DEF SendCurrentRequest, Alone, Waiting, Typed
<1>7. CASE queue[p] = <<>>
  <2>1. state'[p] = "Idle" /\ sendQueue' = <<>>
    BY <1>1, <1>7 DEF SendCurrentRequest, Typed
  <2>2. Quiet(sendQueue', task', incoming', heard')
    BY <1>2, <1>3, <2>1, HearsQuiet DEF Quiet
  <2>. QED BY <1>6, <2>1, <2>2 DEF Lone, Waiting
<1>8. CASE queue[p] # <<>>
  <2>1. /\ state'[p] = "WaitingForSubmitLack" /\ current'[p] = Head(queue[p])
        /\ sendQueue' = Append(sendQueue, Head(queue[p]))
    BY <1>8 DEF SendCurrentRequest, Typed
  <2>2. sendQueue' = <<current'[p]>>
    BY <1>1, <2>1
  <2>3. Served(p)'
    BY <1>3, <1>5, <2>1, <2>2 DEF Served, ToSend
  <2>4. Alone(p)'
    BY <1>6, <2>1 DEF Alone, Waiting
  <2>. QED BY <2>3, <2>4 DEF Lone
<1>. QED BY <1>7, <1>8

LEMMA IncomingLone ==
    ASSUME OwnInv, NEW p \in Programmers, IncomingMessage(p), ~clash
    PROVE  Lone' /\ OutcomeIsOwn'
<1>. DEFINE message == Head(incoming)
            reason  == Ends(state[p], requests[current[p]].mode, message.what)
<1>1. Typed(Len(requests)) /\ Lone
  BY Types DEF OwnInv, TurnInv
<1>2. Hears(p) /\ UNCHANGED <<requests, task, clash>>
  BY DEF IncomingMessage, Hears
<1>3. IncomingCase(p, message, reason)
  BY IncomingCases
<1>4. \A r \in 1..Len(requests) : Done(r) => outcome[r].of = r
  BY DEF OwnInv, OutcomeIsOwn, Requests
<1>5. CASE ~Waiting(p)
  <2>1. UNCHANGED <<state, queue, current, sendQueue, outcome>>
    BY <1>3, <1>5 DEF IncomingCase
  <2>2. Lone'
    <3>1. CASE (\A o \in Programmers : ~Waiting(o)) /\ Quiet(sendQueue, task, incoming, heard)
      BY <1>1, <1>2, <2>1, <3>1, QuietHears
    <3>2. ASSUME NEW w \in Programmers, Alone(w), Served(w) PROVE Lone'
      <4>1. w # p
        BY <1>5, <3>2 DEF Alone
      <4>2. heard \subseteq Programmers
        BY <1>1 DEF Typed
      <4>. QED BY <1>2, <2>1, <3>2, <4>1, <4>2, OtherHears
    <3>. QED BY <1>1, <3>1, <3>2 DEF Lone
  <2>3. OutcomeIsOwn'
    BY <1>2, <1>4, <2>1 DEF OutcomeIsOwn, Requests, Done
  <2>. QED BY <2>2, <2>3
<1>6. CASE Waiting(p)
  <2>1. Alone(p) /\ Served(p)
    BY <1>1, <1>6 DEF Lone, Alone
  <2>2. CASE reason = None
    <3>1. state' = [state EXCEPT ![p] = GoesTo(@, message.what)]
          /\ UNCHANGED <<queue, current, sendQueue, outcome>>
      BY <1>3, <1>6, <2>2 DEF IncomingCase
    <3>2. Lone'
      BY <1>1, <1>2, <2>1, <2>2, <3>1, AloneGoesOn
    <3>3. OutcomeIsOwn'
      BY <1>2, <1>4, <3>1 DEF OutcomeIsOwn, Requests, Done
    <3>. QED BY <3>2, <3>3
  <2>3. CASE reason # None
    <3>1. SendCurrentRequest(p, queue[p])
          /\ outcome' = [outcome EXCEPT ![current[p]] = [reason |-> reason, of |-> message.of]]
      BY <1>3, <1>6, <2>3 DEF IncomingCase, CompleteCurrentRequest
    <3>2. Lone'
      BY <1>1, <1>2, <2>1, <2>3, <3>1, AloneCompletes
    <3>3. message.of = current[p]
      BY <1>1, <1>2, <2>1, HeardIsOwn
    <3>4. \A r \in 1..MaxRequests :
              outcome'[r] = outcome[r] \/ (r = current[p] /\ outcome'[r].of = message.of)
      BY <1>1, <3>1 DEF Typed
    <3>5. \A r \in 1..Len(requests) : outcome'[r].reason # None => outcome'[r].of = r
      <4>1. \A r \in 1..Len(requests) : r \in 1..MaxRequests
        BY <1>1 DEF Typed
      <4>. HIDE DEF message
      <4>. QED BY <1>4, <3>3, <3>4, <4>1 DEF Done
    <3>6. OutcomeIsOwn'
      BY <1>2, <3>5 DEF OutcomeIsOwn, Requests, Done
    <3>. QED BY <3>2, <3>6
  <2>. QED BY <2>2, <2>3
<1>. QED BY <1>5, <1>6

LEMMA SubmitLone ==
    ASSUME OwnInv, NEW p \in Programmers, NEW mode \in Modes, Submit(p, mode), ~clash'
    PROVE  Lone' /\ OutcomeIsOwn'
<1>. DEFINE n == Len(requests)
<1>1. /\ Typed(n) /\ TurnInv /\ ~clash /\ Lone /\ heard = {}
      /\ \A o \in Programmers \ {p} : ~Waiting(o)
  BY Types DEF OwnInv, Submit, TurnInv
<1>2. /\ Len(requests') = n + 1 /\ n + 1 <= MaxRequests /\ n \in Nat
      /\ \A r \in 1..n : requests'[r] = requests[r]
  BY DEF Submit, OwnInv, TurnInv, TypeOK
<1>3. UNCHANGED <<task, incoming, heard, outcome>>
  BY DEF Submit
<1>4. OutcomeIsOwn'
  <2>1. ~Done(n + 1)
    BY <1>1, <1>2 DEF TurnInv, FreshInv, Done, Ended
  <2>2. \A r \in 1..n : Done(r) => outcome[r].of = r
    BY <1>1 DEF OwnInv, OutcomeIsOwn, Requests
  <2>3. \A r \in 1..(n + 1) : Done(r) => outcome[r].of = r
    <3>. SUFFICES ASSUME NEW r \in 1..(n + 1), Done(r) PROVE outcome[r].of = r
      OBVIOUS
    <3>1. r \in 1..n
      BY <1>2, <2>1
    <3>. QED BY <2>2, <3>1
  <2>. QED BY <1>2, <1>3, <2>3 DEF OutcomeIsOwn, Requests, Done
<1>5. CASE state[p] = "Idle"
  <2>1. Quiet(sendQueue, task, incoming, heard)
    BY <1>1, <1>5 DEF Lone, Alone, Waiting
  <2>2. queue[p] = <<>> /\ sendQueue = <<>> /\ task.replies = <<>> /\ incoming = <<>>
    BY <1>1, <1>5, <2>1 DEF Quiet, Typed
  <2>3. SendCurrentRequest(p, <<n + 1>>)
    BY <1>5, <2>2 DEF Submit
  <2>4. /\ state'[p] = "WaitingForSubmitLack" /\ current'[p] = n + 1
        /\ sendQueue' = <<n + 1>>
        /\ \A o \in Programmers \ {p} : state'[o] = state[o]
    <3>1. Head(<<n + 1>>) = n + 1 /\ <<n + 1>> # <<>> /\ Append(<<>>, n + 1) = <<n + 1>>
      OBVIOUS
    <3>. QED BY <1>1, <2>2, <2>3, <3>1 DEF SendCurrentRequest, Typed
  <2>5. Unread(p, incoming', heard') = <<>>
    BY <1>1, <1>3, <2>2 DEF Unread
  <2>6. Served(p)'
    BY <1>3, <2>2, <2>4, <2>5 DEF Served, ToSend
  <2>7. Alone(p)'
    BY <1>1, <2>4 DEF Alone, Waiting
  <2>. QED BY <1>4, <2>6, <2>7 DEF Lone
<1>6. CASE state[p] # "Idle"
  <2>1. UNCHANGED <<state, current, sendQueue>>
    BY <1>6 DEF Submit
  <2>2. Served(p) /\ Alone(p)
    BY <1>1, <1>6 DEF Lone, Alone, Waiting
  <2>3. requests'[current[p]] = requests[current[p]]
    BY <1>1, <1>2, <1>6, CompletedIsCurrent DEF Waiting
  <2>4. Served(p)'
    BY <1>3, <2>1, <2>2, <2>3 DEF Served
  <2>5. Alone(p)'
    BY <2>1, <2>2 DEF Alone, Waiting
  <2>. QED BY <1>4, <2>4, <2>5 DEF Lone
<1>. QED BY <1>5, <1>6

LEMMA SendNextLone ==
    ASSUME OwnInv, SendNextMessage, ~clash
    PROVE  Lone'
<1>1. Typed(Len(requests)) /\ TurnInv /\ Lone
  BY Types DEF OwnInv, TurnInv
<1>2. PICK p \in Programmers : Alone(p) /\ Served(p)
  BY <1>1 DEF Lone, Quiet, SendNextMessage
<1>. DEFINE r == current[p]
            mode == requests[r].mode
<1>3. ToSend(p, r, state[p], sendQueue, task, incoming, heard)
  BY <1>2 DEF Served, WorkedOn, SendNextMessage
<1>4. /\ sendQueue = <<r>> /\ task.replies = <<>> /\ incoming = <<>>
      /\ state[p] = "WaitingForSubmitLack" /\ heard = {}
  BY <1>3 DEF ToSend, Unread, SendNextMessage
<1>5. mode \in Modes
  BY <1>1, <1>2, CompletedIsCurrent DEF Alone, Typed
<1>6. PICK script \in Scripts[mode] : task' = [of |-> r, replies |-> script]
  BY <1>4 DEF SendNextMessage
<1>7. /\ sendQueue' = <<>>
      /\ UNCHANGED <<requests, state, current, heard, incoming>>
  BY <1>4 DEF SendNextMessage
<1>8. script \in Seq(Replies) /\ Settles("WaitingForSubmitLack", mode, script)
  BY <1>5, ProgrammerAssumption, StationAssumption
<1>9. /\ task'.of = r /\ task'.replies = script
      /\ Unread(p, incoming', heard') = <<>>
  BY <1>4, <1>6, <1>7 DEF Unread
<1>10. SettlesIn("WaitingForSubmitLack", mode, ToCome(<<>>, script), 0 + Len(script))
  <2>1. Len(script) \in Nat /\ 0 + Len(script) = Len(script)
    BY <1>8
  <2>2. SettlesIn("WaitingForSubmitLack", mode, script, Len(script))
    BY <1>8 DEF Settles, SettlesIn
  <2>3. \A i \in 1..Len(script) : script[i] = ToCome(<<>>, script)[i]
    BY <2>1 DEF ToCome
  <2>4. SettlesIn("WaitingForSubmitLack", mode, ToCome(<<>>, script), Len(script))
    BY ONLY <2>1, <2>2, <2>3, SettlesSame
  <2>. QED BY <2>1, <2>4
<1>. HIDE DEF r, mode
<1>11. WorkedOn(p, r, mode, "WaitingForSubmitLack", sendQueue', task', incoming', heard')
  BY <1>7, <1>9, <1>10 DEF WorkedOn
<1>12. Served(p)'
  BY <1>4, <1>7, <1>11 DEF Served, r, mode
<1>13. Alone(p)'
  BY <1>2, <1>7 DEF Alone, Waiting
<1>. QED BY <1>12, <1>13 DEF Lone

LEMMA RepliesLone ==
    ASSUME OwnInv, StationReplies, ~clash
    PROVE  Lone'
<1>1. Typed(Len(requests)) /\ TurnInv /\ Lone
  BY Types DEF OwnInv, TurnInv
<1>2. PICK p \in Programmers : Alone(p) /\ Served(p)
  BY <1>1 DEF Lone, Quiet, StationReplies
<1>. DEFINE r == current[p]
            mode == requests[r].mode
            u == Unread(p, incoming, heard)
            m == [what |-> Head(task.replies), of |-> r]
<1>3. WorkedOn(p, r, mode, state[p], sendQueue, task, incoming, heard)
  BY <1>2 DEF Served, ToSend, StationReplies
<1>4. /\ incoming \in Seq(Reply) /\ task.replies \in Seq(Replies) /\ task.replies # <<>>
      /\ task.of = r
      /\ heard # {} => incoming # <<>>
  BY <1>1, <1>3 DEF Typed, StationReplies, OwnInv, WorkedOn
<1>5. m \in Reply /\ m.what = Head(task.replies) /\ m.of = r
  <2>1. r \in 1..MaxRequests
    BY <1>1, <1>2, CompletedIsCurrent DEF Alone, Typed
  <2>2. Head(task.replies) \in Replies
    BY <1>4
  <2>. QED BY <2>1, <2>2 DEF Reply
<1>6. u \in Seq(Reply)
  BY <1>4 DEF Unread
<1>7. /\ UNCHANGED <<requests, state, current, sendQueue, heard>>
      /\ incoming' = Append(incoming, m)
      /\ task'.of = r /\ task'.replies = Tail(task.replies)
  BY <1>1, <1>4 DEF StationReplies, Typed
<1>. HIDE DEF m
<1>8. Unread(p, incoming', heard') = Append(u, m)
  <2>1. CASE p \in heard
    <3>1. incoming # <<>>
      BY <1>4, <2>1
    <3>2. Tail(Append(incoming, m)) = Append(Tail(incoming), m)
      BY <1>4, <1>5, <3>1
    <3>. QED BY <1>7, <2>1, <3>2 DEF Unread
  <2>2. CASE p \notin heard
    BY <1>7, <2>2 DEF Unread
  <2>. QED BY <2>1, <2>2
<1>. HIDE DEF u, r, mode
<1>9. /\ Len(Append(u, m)) + Len(Tail(task.replies)) = Len(u) + Len(task.replies)
      /\ \A i \in 1..(Len(u) + Len(task.replies)) :
            ToCome(Append(u, m), Tail(task.replies))[i] = ToCome(u, task.replies)[i]
  BY ONLY <1>4, <1>5, <1>6, ReplyMoves
<1>10. /\ sendQueue = <<>>
       /\ \A i \in 1..Len(u) : u[i].of = r
       /\ SettlesIn(state[p], mode, ToCome(u, task.replies), Len(u) + Len(task.replies))
  BY <1>3 DEF WorkedOn, u
<1>11. SettlesIn(state[p], mode, ToCome(Append(u, m), Tail(task.replies)),
                 Len(Append(u, m)) + Len(Tail(task.replies)))
  <2>1. Len(u) + Len(task.replies) \in Nat
    BY <1>4, <1>6
  <2>2. \A i \in 1..(Len(u) + Len(task.replies)) :
            ToCome(u, task.replies)[i] = ToCome(Append(u, m), Tail(task.replies))[i]
    BY <1>9
  <2>3. SettlesIn(state[p], mode, ToCome(u, task.replies), Len(u) + Len(task.replies))
    BY <1>10
  <2>4. SettlesIn(state[p], mode, ToCome(Append(u, m), Tail(task.replies)), Len(u) + Len(task.replies))
    BY ONLY <2>1, <2>2, <2>3, SettlesSame
  <2>5. Len(Append(u, m)) + Len(Tail(task.replies)) = Len(u) + Len(task.replies)
    BY <1>9
  <2>. QED BY ONLY <2>4, <2>5
<1>12. \A i \in 1..Len(Append(u, m)) : Append(u, m)[i].of = r
  BY <1>5, <1>6, <1>10
<1>13. WorkedOn(p, r, mode, state[p], sendQueue', task', incoming', heard')
  BY <1>7, <1>8, <1>10, <1>11, <1>12 DEF WorkedOn
<1>14. Served(p)'
  BY <1>7, <1>13 DEF Served, r, mode
<1>15. Alone(p)'
  BY <1>2, <1>7 DEF Alone, Waiting
<1>. QED BY <1>14, <1>15 DEF Lone

LEMMA OwnInit == Init => OwnInv
<1>. SUFFICES ASSUME Init PROVE OwnInv
  OBVIOUS
<1>1. Lone
  BY DEF Init, Lone, Waiting, Quiet
<1>2. OutcomeIsOwn
  BY DEF Init, OutcomeIsOwn, Done, NoOutcome, Requests
<1>. QED BY <1>1, <1>2, TurnInit DEF OwnInv, Init

LEMMA OwnStep == OwnInv /\ [Next]_vars => OwnInv'
<1>. SUFFICES ASSUME OwnInv, [Next]_vars PROVE OwnInv'
  OBVIOUS
<1>1. TurnInv' /\ TurnInv /\ Typed(Len(requests))
  BY TurnStep, Types DEF OwnInv, TurnInv
<1>2. ASSUME clash'
      PROVE  OutcomeIsOwn' /\ (clash \/ Lone)'
  BY <1>2 DEF OutcomeIsOwn
<1>3. ASSUME NEW p \in Programmers, NEW mode \in Modes, Submit(p, mode) PROVE OwnInv'
  <2>1. heard' # {} => incoming' # <<>>
    BY <1>3 DEF Submit
  <2>2. ~clash' => Lone' /\ OutcomeIsOwn'
    BY <1>3, SubmitLone
  <2>. QED BY <1>1, <1>2, <2>1, <2>2 DEF OwnInv
<1>4. CASE SendNextMessage
  <2>1. heard' # {} => incoming' # <<>>
    BY <1>4 DEF SendNextMessage
  <2>2. UNCHANGED <<requests, outcome, clash>>
    BY <1>4 DEF SendNextMessage
  <2>3. OutcomeIsOwn'
    BY <2>2 DEF OwnInv, OutcomeIsOwn, Requests, Done
  <2>4. ~clash' => Lone'
    BY <1>4, <2>2, SendNextLone
  <2>. QED BY <1>1, <2>1, <2>3, <2>4 DEF OwnInv
<1>5. CASE StationReplies
  <2>1. incoming' # <<>>
    <3>. DEFINE m == [what |-> Head(task.replies), of |-> task.of]
    <3>1. incoming' = Append(incoming, m) /\ incoming \in Seq(Reply)
      BY <1>1, <1>5 DEF StationReplies, Typed
    <3>. HIDE DEF m
    <3>. QED BY <3>1
  <2>2. UNCHANGED <<requests, outcome, clash>>
    BY <1>5 DEF StationReplies
  <2>3. OutcomeIsOwn'
    BY <2>2 DEF OwnInv, OutcomeIsOwn, Requests, Done
  <2>4. ~clash' => Lone'
    BY <1>5, <2>2, RepliesLone
  <2>. QED BY <1>1, <2>1, <2>3, <2>4 DEF OwnInv
<1>6. ASSUME NEW p \in Programmers, IncomingMessage(p) PROVE OwnInv'
  <2>1. Hears(p) /\ clash' = clash
    BY <1>6 DEF IncomingMessage, Hears
  <2>2. heard' # {} => incoming' # <<>>
    BY <1>1, <2>1, HearsUnread DEF Typed
  <2>3. ~clash' => Lone' /\ OutcomeIsOwn'
    BY <1>6, <2>1, IncomingLone
  <2>. QED BY <1>1, <1>2, <2>2, <2>3 DEF OwnInv
<1>7. CASE UNCHANGED vars
  <2>1. UNCHANGED <<requests, state, current, sendQueue, task, incoming, heard, outcome, clash>>
    BY <1>7 DEF vars
  <2>2. OutcomeIsOwn'
    BY <2>1 DEF OwnInv, OutcomeIsOwn, Requests, Done
  <2>3. (clash \/ Lone)'
    BY <2>1 DEF OwnInv, Lone, Waiting, Alone, Served
  <2>. QED BY <1>1, <2>1, <2>2, <2>3 DEF OwnInv
<1>. QED BY <1>3, <1>4, <1>5, <1>6, <1>7 DEF Next

(* A programmer that no other one disturbs gives every request the result that *)
(* a reply to it brought: for any number of requests and any command station   *)
(* whose replies take every request to its end.                                *)
THEOREM Own == Spec => []OutcomeIsOwn
<1>1. OwnInv => OutcomeIsOwn
  BY DEF OwnInv
<1>. QED BY OwnInit, OwnStep, <1>1, PTL DEF Spec
===========================================================================
