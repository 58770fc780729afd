---------------------------- MODULE LocoNetBuffer ----------------------------
(* loconet_buffer.c: the bytes that a LocoNet interface brings, and the        *)
(* messages that loconet_context_process finds in them.                        *)
(*                                                                             *)
(* The context is used the way the GUI uses it: interlocked, by one thread     *)
(* that puts what it has read into the buffer, byte by byte, and then calls    *)
(* process. Where a read ends is arbitrary: in the middle of a message, behind *)
(* it, or after several. process is one step for each turn of its loops, as    *)
(* its callback may write a message.                                           *)
(*                                                                             *)
(* A byte is the set of its bits, so ^ is the symmetric difference. A message  *)
(* is the sequence of its bytes, opcode first; a frame is the message with its *)
(* checksum, as it is on the wire. Not modelled: the fast clock, and the stack *)
(* behind `message', which a message of 16 bytes and more overwrites.          *)
EXTENDS Naturals, Sequences, FiniteSets

CONSTANTS
    LN_BUFFER_LEN,  \* how many bytes the buffer holds
    Messages,       \* what this program writes with loconet_context_write_message
    Frames,         \* what other devices on the bus send
    NoiseBytes,     \* the spurious bytes that may come between two frames
    UnsetBytes,     \* what a byte of `message' that was never set may be
    MaxWritten,     \* bound: frames in a behaviour
    MaxNoise,       \* bound: spurious bytes in a behaviour
    MaxUnread       \* bound: bytes still on the line when others follow them

Bits == 0..7
Byte == SUBSET Bits

(* 0xFF *)
Ones == Bits

(* The byte of a number, and the number of a byte. *)
Hex(n) == {k \in Bits : (n \div 2^k) % 2 = 1}
Num(b) ==
    LET bit(k) == IF k \in b THEN 2^k ELSE 0
    IN  bit(0) + bit(1) + bit(2) + bit(3) + bit(4) + bit(5) + bit(6) + bit(7)

a \oplus b == (a \ b) \cup (b \ a)

(* All bytes of s, combined with ^. *)
Xor(s) == {k \in Bits : Cardinality({i \in DOMAIN s : k \in s[i]}) % 2 = 1}

(* opcode & 0xE0 *)
Type(b) == b \cap {5, 6, 7}
Two      == {7}
Four     == {5, 7}
Six      == {6, 7}
Variable == {5, 6, 7}

IsOpcode(b) == Type(b) \in {Two, Four, Six, Variable}

LN_OPC_SLOT_WRITE_DATA == Hex(239)
LN_OPC_SLOT_READ_DATA  == Hex(231)
IsSlotData(opcode) == opcode \in {LN_OPC_SLOT_WRITE_DATA, LN_OPC_SLOT_READ_DATA}

loconet_message_length(m) ==
    CASE Type(m[1]) = Two      -> 2
      [] Type(m[1]) = Four     -> 4
      [] Type(m[1]) = Six      -> 6
      [] Type(m[1]) = Variable -> IF IsSlotData(m[1]) THEN 14 ELSE Num(m[2])

(* The bytes that write_message writes for m: the checksum is appended to the  *)
(* short ones, is the caller's in the variable ones, and a message of six      *)
(* bytes is not written at all.                                                *)
OnTheWire(m) ==
    CASE Type(m[1]) = Two      -> <<m[1], Ones \oplus m[1]>>
      [] Type(m[1]) = Four     -> SubSeq(m, 1, 3) \o <<Ones \oplus Xor(SubSeq(m, 1, 3))>>
      [] Type(m[1]) = Variable -> SubSeq(m, 1, loconet_message_length(m))
      [] OTHER                 -> <<>>

ASSUME BufferAssumption == LN_BUFFER_LEN \in Nat /\ LN_BUFFER_LEN >= 16
ASSUME TrafficAssumption ==
    /\ Messages \subseteq Seq(Byte) /\ Frames \subseteq Seq(Byte)
    /\ \A m \in Messages : Len(m) >= 1 /\ OnTheWire(m) \in Seq(Byte)
    /\ NoiseBytes \subseteq Byte /\ UnsetBytes \subseteq Byte
    /\ MaxWritten \in Nat /\ MaxNoise \in Nat /\ MaxUnread \in Nat

(* The LocoNet format: a frame has the length that its first bytes tell, and   *)
(* bit 7 only in its opcode. A spurious byte is none: see README.md, 5.        *)
OnTheLine == Frames \cup {OnTheWire(m) : m \in Messages}
WellFormed(f) ==
    /\ Len(f) >= 2 /\ Len(f) = loconet_message_length(f)
    /\ IsOpcode(f[1]) /\ \A i \in 2..Len(f) : ~IsOpcode(f[i])
ASSUME FormatAssumption ==
    /\ \A f \in OnTheLine \ {<<>>} : WellFormed(f)
    /\ <<>> \notin Frames
    /\ \A b \in NoiseBytes : ~IsOpcode(b)

VARIABLES
    line,             \* the bytes that are on the way to this program
    lnBuffer,         \* the buffer, with what is left in it of earlier bytes
    lnBufferLocation, \* how many bytes of it are in use
    pc,               \* "idle", "reading" bytes, in process's "loop", or dropping "garbage"
    checksum,         \* process's checksum, 0xFF when it is called
    written,          \* history: the frames put on the line
    noise,            \* history: how many spurious bytes were
    delivered         \* history: the frames handed to the callback

buffer == <<lnBuffer, lnBufferLocation>>
traffic == <<line, written, noise>>
bufferVars == <<line, lnBuffer, lnBufferLocation, pc, checksum, written, noise, delivered>>

Index == 0..(LN_BUFFER_LEN - 1)

BufferTypeOK ==
    /\ line \in Seq(Byte)
    /\ lnBuffer \in [Index -> Byte]
    /\ lnBufferLocation \in Index
    /\ pc \in {"idle", "reading", "loop", "garbage"}
    /\ checksum \in Byte
    /\ written \in Seq(Seq(Byte)) /\ Len(written) <= MaxWritten
    /\ noise \in 0..MaxNoise
    /\ delivered \in Seq(Seq(Byte))

BufferInit ==
    /\ line = <<>>
    /\ lnBuffer = [i \in Index |-> {}]
    /\ lnBufferLocation = 0
    /\ pc = "idle"
    /\ checksum = Ones
    /\ written = <<>>
    /\ noise = 0
    /\ delivered = <<>>

-------------------------------------------------------------------------------
(* The bus. Everything that is written comes back, as every device hears       *)
(* everything.                                                                 *)

Put(frame) ==
    /\ Len(written) < MaxWritten /\ Len(line) <= MaxUnread
    /\ line' = line \o frame
    /\ written' = Append(written, frame)
    /\ UNCHANGED <<buffer, pc, checksum, noise, delivered>>

(* loconet_context_write_message, with an interlocked writer *)
WriteMessage(m) == OnTheWire(m) # <<>> /\ Put(OnTheWire(m))

(* Another device sends. *)
OtherSends(frame) == Put(frame)

SpuriousByte(b) ==
    /\ noise < MaxNoise /\ Len(line) <= MaxUnread
    /\ line' = Append(line, b)
    /\ noise' = noise + 1
    /\ UNCHANGED <<buffer, pc, checksum, written, delivered>>

-------------------------------------------------------------------------------
(* loconet_context_incoming_byte: a full buffer is forgotten. *)
IncomingByte ==
    /\ pc \in {"idle", "reading"}
    /\ line # <<>>
    /\ line' = Tail(line)
    /\ lnBuffer' = [lnBuffer EXCEPT ![lnBufferLocation] = Head(line)]
    /\ lnBufferLocation' = (lnBufferLocation + 1) % LN_BUFFER_LEN
    /\ pc' = "reading"
    /\ UNCHANGED <<checksum, written, noise, delivered>>

(* process is called *)
Process ==
    /\ pc = "reading"
    /\ pc' = IF lnBufferLocation < 2 THEN "idle" ELSE "loop"
    /\ UNCHANGED <<traffic, buffer, checksum, delivered>>

-------------------------------------------------------------------------------
(* One turn of its loop. *)

(* The first n bytes from the start of the buffer, in use or not; the one      *)
(* behind its end is padding.                                                  *)
Bytes(n) == [i \in 1..n |-> IF i <= LN_BUFFER_LEN THEN lnBuffer[i - 1] ELSE {}]

(* Mutation: more bytes are removed than there are. *)
RemoveUnchecked(numBytes) ==
    /\ lnBufferLocation' = lnBufferLocation - numBytes
    /\ UNCHANGED lnBuffer

(* Mutation: the bytes are moved, and the length is kept. *)
RemoveKeepsLength(numBytes) ==
    /\ UNCHANGED lnBufferLocation
    /\ lnBuffer' = [i \in Index |-> IF i + numBytes < lnBufferLocation
                                    THEN lnBuffer[i + numBytes]
                                    ELSE lnBuffer[i]]

ln_remove_bytes(numBytes) ==
    IF numBytes > lnBufferLocation
    THEN lnBufferLocation' = 0 /\ UNCHANGED lnBuffer
    ELSE /\ lnBufferLocation' = lnBufferLocation - numBytes
         /\ lnBuffer' = [i \in Index |-> IF i < lnBufferLocation - numBytes
                                         THEN lnBuffer[i + numBytes]
                                         ELSE lnBuffer[i]]

Return == pc' = "idle" /\ checksum' = Ones /\ UNCHANGED <<buffer, delivered>>

(* The message at the start is handed over and removed, or its opcode is. *)
Deliver(n) ==
    /\ ln_remove_bytes(n)
    /\ delivered' = Append(delivered, Bytes(n))

Accept(good, n) ==
    \/ good  /\ Deliver(n)
    \/ ~good /\ ln_remove_bytes(1) /\ UNCHANGED delivered

InLoop == pc = "loop" /\ lnBufferLocation > 2 /\ UNCHANGED traffic
First(type) == InLoop /\ Type(lnBuffer[0]) = type

LoopEnds == pc = "loop" /\ lnBufferLocation <= 2 /\ UNCHANGED traffic /\ Return

(* checksum is that of all the short messages which this call has looked at *)
TwoBytes ==
    /\ First(Two)
    /\ checksum' = checksum \oplus Xor(Bytes(1))
    /\ Accept(checksum' = lnBuffer[1], 2)
    /\ UNCHANGED pc

(* Mutation: a message waits for the first byte of the next one. *)
FourBytesWaits ==
    /\ First(Four)
    /\ \/ lnBufferLocation < 5 /\ Return
       \/ /\ lnBufferLocation >= 5
          /\ checksum' = checksum \oplus Xor(Bytes(3))
          /\ Accept(checksum' = lnBuffer[3], 4)
          /\ UNCHANGED pc

FourBytes ==
    /\ First(Four)
    /\ \/ lnBufferLocation < 4 /\ Return
       \/ /\ lnBufferLocation >= 4
          /\ checksum' = checksum \oplus Xor(Bytes(3))
          /\ Accept(checksum' = lnBuffer[3], 4)
          /\ UNCHANGED pc

(* Compares bytes of `message' that were never set. *)
SixBytes ==
    /\ First(Six)
    /\ \/ lnBufferLocation < 6 /\ Return
       \/ /\ lnBufferLocation >= 6
          /\ \E unset \in UnsetBytes : checksum' = checksum \oplus Xor(Bytes(6)) \oplus unset
          /\ \E good \in BOOLEAN : Accept(good, 6)
          /\ UNCHANGED pc

(* Fourteen bytes, looked at when there are twelve. *)
SlotData ==
    /\ First(Variable) /\ IsSlotData(lnBuffer[0])
    /\ \/ lnBufferLocation < 12 /\ Return
       \/ /\ lnBufferLocation >= 12
          /\ Accept(Ones \oplus Xor(Bytes(13)) = lnBuffer[13], 14)
          /\ UNCHANGED <<pc, checksum>>

(* Sums up one byte more than the message has, and takes the next one for its  *)
(* checksum.                                                                   *)
VariableLength ==
    /\ First(Variable) /\ ~IsSlotData(lnBuffer[0])
    /\ LET numBytes == Num(lnBuffer[1])
       IN  \/ lnBufferLocation < numBytes /\ Return
           \/ /\ lnBufferLocation >= numBytes
              /\ Accept(Ones \oplus Xor(Bytes(numBytes + 1)) = Bytes(numBytes + 2)[numBytes + 2],
                        numBytes)
              /\ UNCHANGED <<pc, checksum>>

(* Bytes that no message starts with: removed until there is none left, also   *)
(* the last two.                                                               *)
Garbage ==
    /\ \/ InLoop
       \/ pc = "garbage" /\ UNCHANGED traffic
    /\ ~IsOpcode(lnBuffer[0])
    /\ ln_remove_bytes(1)
    /\ pc' = IF lnBufferLocation' = 0 THEN "loop" ELSE "garbage"
    /\ UNCHANGED <<checksum, delivered>>

GarbageEnds ==
    /\ pc = "garbage"
    /\ IsOpcode(lnBuffer[0])
    /\ pc' = "loop"
    /\ UNCHANGED <<traffic, buffer, checksum, delivered>>

Turn ==
    \/ LoopEnds \/ TwoBytes \/ FourBytes \/ SixBytes
    \/ SlotData \/ VariableLength \/ Garbage \/ GarbageEnds

BufferNext ==
    \/ \E m \in Messages : WriteMessage(m)
    \/ \E f \in Frames : OtherSends(f)
    \/ \E b \in NoiseBytes : SpuriousByte(b)
    \/ IncomingByte \/ Process \/ Turn

(* What was read is processed, and what has come is read. *)
BufferSpec ==
    /\ BufferInit /\ [][BufferNext]_bufferVars
    /\ WF_bufferVars(IncomingByte) /\ WF_bufferVars(Process) /\ WF_bufferVars(Turn)

-------------------------------------------------------------------------------
(* The properties. *)

(* The places in s of what is not slot data. *)
Ordinary(s) == {i \in DOMAIN s : ~IsSlotData(s[i][1])}

(* Whatever the reads, the garbage between the frames, and the frames that a   *)
(* full buffer or the running checksum lose: the callback gets frames that     *)
(* were sent, each at most once, in the order they were sent. (Slot data is    *)
(* excepted: it may be put together with two bytes of an earlier one, l.219.)  *)
OnlyWhatWasWritten ==
    \E place \in [Ordinary(delivered) -> Ordinary(written)] :
        /\ \A i, j \in Ordinary(delivered) : i < j => place[i] < place[j]
        /\ \A i \in Ordinary(delivered) : delivered[i] = written[place[i]]

(* The reader is done with all frames but the last, a new one of four bytes    *)
(* that comes behind the bytes of `ahead', without filling the buffer.         *)
LastFrame(ahead) ==
    /\ Len(written) = MaxWritten
    /\ LET frame == written[MaxWritten]
       IN  /\ Type(frame[1]) = Four
           /\ \A i \in 1..Len(delivered) : delivered[i] # frame
           /\ line = ahead \o frame
    /\ pc = "idle"
    /\ \A i \in 1..lnBufferLocation : ~IsOpcode(lnBuffer[i - 1])
    /\ lnBufferLocation + Len(line) + MaxNoise < LN_BUFFER_LEN

LastDelivered ==
    Len(written) = MaxWritten /\ \E i \in 1..Len(delivered) : delivered[i] = written[MaxWritten]

(* Garbage delays the frame behind it and does not lose it: a frame that finds *)
(* a reader without an unfinished message is delivered, whatever part of it    *)
(* each read brings.                                                           *)
LastFrameArrives ==
    (\E ahead \in {<<>>} \cup {<<b>> : b \in {c \in NoiseBytes : ~IsOpcode(c)}} :
        LastFrame(ahead)) ~> LastDelivered
=============================================================================
