SPECIFICATION DecoderSpec
CONSTANTS
    BYTE_BITS = 2
    PACKET_BYTES = 3
    MIN_PREAMBLE = 4
    ONES = 16
    Preambles <- TwoPreambles
    DataBytes = {1, 2}
    Data <- TwoData
    MaxNoise = 1
INVARIANTS SecondIsFound HandedIsChecked
