--------------------------- MODULE AccessoryEvents ---------------------------
(* Event IDs that stand for commands to DCC accessory decoders (LCC/lcc-event.c): *)
(* what an address becomes as an event ID and what is read from an event ID. An   *)
(* event ID is what follows 0x01.01.02.00.00, three bytes as an integer.          *)
EXTENDS Integers

Bits16(x) == x % 2^16

(* lcc_event_id_is_accessory_address: the bits of 0xFF0000 are all set. *)
IsAccessoryAddress(event) == event \div 2^16 = 255

(* lcc_event_id_to_accessory_decoder: bit 3 tells whether the output is active; *)
(* the upper bits are the constant 0xFF0 >> 1, whatever the event ID.           *)
ToDecoder(event) ==
    [address |-> 2040 + (event % 8), active |-> (event \div 8) % 2 = 1]

(* lcc_event_id_to_accessory_decoder_2040: twelve bits of addresses that begin at 8; *)
(* addr is a uint16_t, and goes below zero for the last eight events.                *)
ToDecoder2040(event) ==
    [address |-> Bits16(Bits16((event % 2^12) - 8) \div 2 + 1), active |-> event % 2 = 1]

(* lcc_accessory_decoder_to_event_id_2040 *)
Valid2040(decoder) == decoder.address \in 1..2048

FromDecoder2040(decoder) ==
    LET addr == IF decoder.address < 2044 THEN 2 * decoder.address + 6
                ELSE Bits16(2 * (decoder.address - 1 - 2044))
    IN  255 * 2^16 + addr + (IF decoder.active THEN 1 ELSE 0)

Decoders(addresses) == [address : addresses, active : BOOLEAN]

(* The addresses that lcc-event.h documents, 1 to 2040, and three more come back as *)
(* they were, each from an event ID of its own that is one of an accessory decoder. *)
ASSUME AccessoryRoundTrip ==
    \A d \in Decoders(1..2043) :
        /\ Valid2040(d) /\ IsAccessoryAddress(FromDecoder2040(d))
        /\ ToDecoder2040(FromDecoder2040(d)) = d

(* Event IDs of this kind count up as the table of test-events.c has them. *)
ASSUME AccessoryKnown ==
    /\ ToDecoder2040(255 * 2^16 + 14) = [address |-> 4, active |-> FALSE]
    /\ ToDecoder2040(255 * 2^16 + 37) = [address |-> 15, active |-> TRUE]
==============================================================================
