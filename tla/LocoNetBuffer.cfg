SPECIFICATION BufferSpec
CONSTANTS
    LN_BUFFER_LEN = 16
    Messages <- MCMessages
    Frames <- MCFrames
    NoiseBytes <- MCNoise
    UnsetBytes <- MCUnset
    MaxWritten = 3
    MaxNoise = 1
    MaxUnread = 1
INVARIANTS BufferTypeOK OnlyWhatWasWritten
PROPERTIES LastFrameArrives
CHECK_DEADLOCK FALSE
