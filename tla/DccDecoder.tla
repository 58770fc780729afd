------------------------------ MODULE DccDecoder ------------------------------
(* dcc-decoder.c: an interrupt puts the half bits of the track together to      *)
(* packets, and the main program takes the last packet, checks it and hands it  *)
(* on. Nothing keeps the interrupt from coming while the main program reads.    *)
EXTENDS Integers, Sequences, FiniteSets

CONSTANTS
    BYTE_BITS,      \* bits of a byte, 8
    PACKET_BYTES,   \* bytes that packet_data holds, 6
    MIN_PREAMBLE,   \* ones before a packet, 10
    ONES,           \* num_1_bits counts modulo ONES, 256
    Preambles,      \* the lengths of the preambles on the track
    DataBytes,      \* how many bytes the packets on the track have before the last one
    Data,           \* the values of these bytes
    MaxNoise        \* bound: half bits that are lost or come out of nothing

(* A byte is the set of its bits that are 1. *)
Byte == SUBSET (0..(BYTE_BITS - 1))

ASSUME BitsAssumption == BYTE_BITS \in Nat \ {0} /\ PACKET_BYTES \in Nat \ {0, 1}
(* A byte of ones is no preamble, and a preamble after such a byte can be counted. *)
ASSUME PreambleAssumption ==
    /\ MIN_PREAMBLE \in Nat /\ MIN_PREAMBLE > BYTE_BITS + 1
    /\ ONES \in Nat /\ ONES > MIN_PREAMBLE
    /\ \A n \in Preambles : n \in Nat /\ n >= MIN_PREAMBLE /\ n + BYTE_BITS + 1 < ONES
ASSUME TrackAssumption ==
    DataBytes \subseteq 1..(PACKET_BYTES - 1) /\ Data \subseteq Byte /\ MaxNoise \in Nat

Xor(a, b) == (a \ b) \cup (b \ a)
Index == 1..PACKET_BYTES

VARIABLES
    decoding_scheme,   \* an edge for every half bit, or one for every bit
    num_1_bits, parse_state, packet_data, packet_data_pos, working_byte, working_byte_bit,
    previous_timing,   \* the kind of half bit that it was, or "none"
    last_packet, last_packet_len, last_packet_valid,
    pc, len, x, xor_data,   \* the main program in pump_packet
    rest,      \* the half bits or bits of the packet on the track that did not come yet
    packet,    \* the packet on the track
    noise,     \* bound
    clean,     \* history: packets in a row, up to this one, that came without noise
    found,     \* history: what was found since the packet on the track began
    overtaken  \* history: another packet came while it was looking

edges == <<decoding_scheme, previous_timing>>
parse == <<num_1_bits, parse_state, packet_data, packet_data_pos, working_byte, working_byte_bit>>
last == <<last_packet, last_packet_len, last_packet_valid>>
main == <<pc, len, x, xor_data>>
track == <<rest, packet, noise, clean>>
decoderVars == <<edges, parse, last, main, track, found, overtaken>>

ParseStates == {"PREAMBLE", "DATA_BYTE", "BYTE_START_BIT"}
Halves == {"one", "zero", "bad"}
Zeroes == [i \in Index |-> {}]

DecoderTypeOK ==
    /\ decoding_scheme \in {"IRQ_BOTH", "IRQ_RISING_OR_FALLING"}
    /\ num_1_bits \in 0..(ONES - 1)
    /\ parse_state \in ParseStates
    /\ packet_data \in [Index -> Byte]
    /\ packet_data_pos \in 0..PACKET_BYTES
    /\ parse_state = "DATA_BYTE" => packet_data_pos < PACKET_BYTES
    /\ working_byte \in Byte
    /\ working_byte_bit \in 0..(BYTE_BITS - 1)
    /\ previous_timing \in Halves \cup {"none"}
    /\ last_packet \in [Index -> Byte]
    /\ last_packet_len \in 0..PACKET_BYTES
    /\ last_packet_valid \in BOOLEAN /\ overtaken \in BOOLEAN
    /\ pc \in {"idle", "checking", "handing"}
    /\ len \in 0..PACKET_BYTES /\ x \in 0..PACKET_BYTES /\ xor_data \in Byte
    /\ rest \in Seq({"one", "zero"})
    /\ packet \in Seq(Byte)
    /\ noise \in 0..MaxNoise /\ clean \in 0..2
    /\ found \in Seq(Byte)

(* dcc_decoder_new: zeroes. *)
DecoderInit ==
    /\ decoding_scheme \in {"IRQ_BOTH", "IRQ_RISING_OR_FALLING"}
    /\ num_1_bits = 0 /\ parse_state = "PREAMBLE" /\ packet_data = Zeroes /\ packet_data_pos = 0
    /\ working_byte = {} /\ working_byte_bit = 0 /\ previous_timing = "none"
    /\ last_packet = Zeroes /\ last_packet_len = 0 /\ last_packet_valid = FALSE
    /\ pc = "idle" /\ len = 0 /\ x = 0 /\ xor_data = {}
    /\ rest = <<>> /\ packet = <<>> /\ noise = 0 /\ clean = 0
    /\ found = <<>> /\ overtaken = FALSE

-------------------------------------------------------------------------------
(* dcc_decoder_process_whole_bit. *)

NoPacket == UNCHANGED <<last, found, overtaken>>

(* A preamble is counted in eight bits. *)
PreambleOne ==
    /\ num_1_bits' = (num_1_bits + 1) % ONES
    /\ UNCHANGED <<parse_state, packet_data, packet_data_pos, working_byte, working_byte_bit>>
    /\ NoPacket

PreambleZero ==
    /\ IF num_1_bits >= MIN_PREAMBLE
       THEN /\ parse_state' = "DATA_BYTE"
            /\ working_byte' = {} /\ working_byte_bit' = BYTE_BITS - 1 /\ packet_data_pos' = 0
            /\ UNCHANGED <<num_1_bits, packet_data>>
       ELSE /\ num_1_bits' = 0
            /\ UNCHANGED <<parse_state, packet_data, packet_data_pos, working_byte, working_byte_bit>>
    /\ NoPacket

(* The last bit of a byte; a packet that fills packet_data is given up. *)
ByteFull(byte) ==
    /\ packet_data' = [packet_data EXCEPT ![packet_data_pos + 1] = byte]
    /\ packet_data_pos' = packet_data_pos + 1
    /\ working_byte' = {} /\ working_byte_bit' = BYTE_BITS - 1
    /\ IF packet_data_pos' > PACKET_BYTES - 1
       THEN parse_state' = "PREAMBLE" /\ num_1_bits' = 0
       ELSE parse_state' = "BYTE_START_BIT" /\ num_1_bits' = num_1_bits

DataBit(one) ==
    LET byte == IF one THEN working_byte \cup {working_byte_bit} ELSE working_byte
    IN  /\ IF working_byte_bit = 0
           THEN ByteFull(byte)
           ELSE /\ working_byte' = byte /\ working_byte_bit' = working_byte_bit - 1
                /\ UNCHANGED <<num_1_bits, parse_state, packet_data, packet_data_pos>>
        /\ NoPacket

NextByte ==
    /\ parse_state' = "DATA_BYTE"
    /\ UNCHANGED <<num_1_bits, packet_data, packet_data_pos, working_byte, working_byte_bit>>
    /\ NoPacket

PacketDone ==
    /\ last_packet' = packet_data /\ last_packet_len' = packet_data_pos /\ last_packet_valid' = TRUE
    /\ packet_data' = Zeroes
    /\ parse_state' = "PREAMBLE" /\ num_1_bits' = 0
    /\ found' = SubSeq(packet_data, 1, packet_data_pos)
    /\ overtaken' = (pc # "idle")
    /\ UNCHANGED <<packet_data_pos, working_byte, working_byte_bit>>

WholeBit(one) ==
    \/ parse_state = "PREAMBLE" /\ one /\ PreambleOne
    \/ parse_state = "PREAMBLE" /\ ~one /\ PreambleZero
    \/ parse_state = "DATA_BYTE" /\ DataBit(one)
    \/ parse_state = "BYTE_START_BIT" /\ ~one /\ NextByte
    \/ parse_state = "BYTE_START_BIT" /\ one /\ PacketDone

(* Half a bit off, or noise: it only ends a preamble. *)
InvalidBit ==
    /\ num_1_bits' = IF parse_state = "PREAMBLE" THEN 0 ELSE num_1_bits
    /\ UNCHANGED <<parse_state, packet_data, packet_data_pos, working_byte, working_byte_bit>>
    /\ NoPacket

-------------------------------------------------------------------------------
(* dcc_decoder_polarity_changed *)

(* Mutation: after two halves that are no bit, it begins with a new one. *)
polarity_changedFromNew(half) ==
    IF previous_timing = "none"
    THEN previous_timing' = half /\ UNCHANGED parse /\ NoPacket
    ELSE IF half = previous_timing /\ half # "bad"
    THEN previous_timing' = "none" /\ WholeBit(half = "one")
    ELSE previous_timing' = "none" /\ InvalidBit

(* Two halves of one kind are a bit; otherwise the second may be the first of the next. *)
polarity_changed(half) ==
    IF previous_timing = "none"
    THEN previous_timing' = half /\ UNCHANGED parse /\ NoPacket
    ELSE IF half = previous_timing /\ half # "bad"
    THEN previous_timing' = "none" /\ WholeBit(half = "one")
    ELSE previous_timing' = half /\ InvalidBit

(* No time since the last edge: the first one. The half bit before it is kept. *)
FirstEdge ==
    /\ num_1_bits' = 0 /\ parse_state' = "PREAMBLE"
    /\ UNCHANGED <<packet_data, packet_data_pos, working_byte, working_byte_bit, previous_timing>>
    /\ NoPacket

(* dcc_decoder_rising_or_falling: a time that is no bit is passed over. *)
rising_or_falling(bit) ==
    IF bit = "bad"
    THEN UNCHANGED parse /\ NoPacket
    ELSE WholeBit(bit = "one")

EdgeOf(kind) ==
    \/ decoding_scheme = "IRQ_BOTH" /\ polarity_changed(kind)
    \/ /\ decoding_scheme = "IRQ_RISING_OR_FALLING" /\ rising_or_falling(kind)
       /\ UNCHANGED previous_timing

-------------------------------------------------------------------------------
(* The track. *)

(* What the decoder is told of bits: their halves, or the whole bits. *)
EdgesOf(bits) ==
    LET each == IF decoding_scheme = "IRQ_BOTH" THEN 2 ELSE 1
    IN  [i \in 1..(each * Len(bits)) |-> IF bits[(i - 1) \div each + 1] THEN "one" ELSE "zero"]

(* A preamble of n ones; each byte with a start bit 0, the highest bit first; a 1. *)
BitsOfPacket(p, n) ==
    LET width == BYTE_BITS + 1
        data  == n + width * Len(p)
    IN  [i \in 1..(data + 1) |->
            \/ i <= n
            \/ i = data + 1
            \/ LET place == (i - n - 1) % width
               IN  place # 0 /\ (BYTE_BITS - place) \in p[(i - n - 1) \div width + 1]]

(* The exclusive or of the first n bytes: the bits that an odd number of them has. *)
XorOfFirst(p, n) ==
    {b \in 0..(BYTE_BITS - 1) : Cardinality({i \in 1..n : b \in p[i]}) % 2 = 1}
XorOf(p) == XorOfFirst(p, Len(p))

(* The last byte of a packet is the exclusive or of the others. *)
StartPacket ==
    /\ rest = <<>>
    /\ \E k \in DataBytes, n \in Preambles : \E data \in [1..k -> Data] :
         LET p == data \o <<XorOf(data)>>
         IN  packet' = p /\ rest' = EdgesOf(BitsOfPacket(p, n))
    /\ clean' = IF clean < 2 THEN clean + 1 ELSE clean
    /\ found' = <<>>
    /\ UNCHANGED <<edges, parse, last, main, noise, overtaken>>

Edge ==
    /\ rest # <<>>
    /\ EdgeOf(Head(rest))
    /\ rest' = Tail(rest)
    /\ UNCHANGED <<decoding_scheme, main, packet, noise, clean>>

Noise ==
    /\ noise < MaxNoise /\ noise' = noise + 1
    /\ \/ \E half \in Halves : EdgeOf(half) /\ rest' = rest
       \/ FirstEdge /\ rest' = rest
       \/ /\ rest # <<>> /\ rest' = Tail(rest)
          /\ UNCHANGED <<parse, previous_timing, last, found, overtaken>>
    /\ clean' = 0
    /\ UNCHANGED <<decoding_scheme, main, packet>>

-------------------------------------------------------------------------------
(* dcc_decoder_pump_packet, in the main program *)

pump_packet ==
    /\ pc = "idle" /\ last_packet_valid
    /\ last_packet_valid' = FALSE
    /\ pc' = "checking" /\ len' = last_packet_len /\ x' = 0 /\ xor_data' = {}
    /\ overtaken' = FALSE
    /\ UNCHANGED <<edges, parse, last_packet, last_packet_len, track, found>>

(* is_packet_valid reads one byte after the other. *)
ReadByte ==
    /\ pc = "checking" /\ x < len - 1
    /\ xor_data' = Xor(xor_data, last_packet[x + 1])
    /\ x' = x + 1
    /\ UNCHANGED <<edges, parse, last, pc, len, track, found, overtaken>>

(* Mutation: the byte before the last one is taken for the last. *)
ReadLastByteOff ==
    /\ pc = "checking" /\ x >= len - 1
    /\ pc' = IF len < 2 \/ xor_data = last_packet[len - 1] THEN "handing" ELSE "idle"
    /\ len' = 0 /\ x' = 0 /\ xor_data' = {}
    /\ UNCHANGED <<edges, parse, last, track, found, overtaken>>

ReadLastByte ==
    /\ pc = "checking" /\ x >= len - 1
    /\ pc' = IF xor_data = last_packet[len] THEN "handing" ELSE "idle"
    /\ len' = 0 /\ x' = 0 /\ xor_data' = {}
    /\ UNCHANGED <<edges, parse, last, track, found, overtaken>>

(* The callback and the parser read last_packet again. *)
HandOn ==
    /\ pc = "handing"
    /\ pc' = "idle"
    /\ UNCHANGED <<edges, parse, last, len, x, xor_data, track, found, overtaken>>

-------------------------------------------------------------------------------
DecoderNext ==
    \/ StartPacket \/ Edge \/ Noise
    \/ pump_packet \/ ReadByte \/ ReadLastByte \/ HandOn

DecoderSpec == DecoderInit /\ [][DecoderNext]_decoderVars

-------------------------------------------------------------------------------
(* Properties. *)

(* However the decoder was put out of step, the second packet that comes without  *)
(* noise is found as it was sent, unless it has as many bytes as packet_data.     *)
SecondIsFound ==
    (rest = <<>> /\ clean = 2 /\ Len(packet) < PACKET_BYTES) => found = packet

(* A packet that is handed on has passed the check, unless another packet came *)
(* while it was checked.                                                       *)
HandedIsChecked ==
    (pc = "handing" /\ ~overtaken) => XorOfFirst(last_packet, last_packet_len) = {}
=============================================================================
