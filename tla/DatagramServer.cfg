SPECIFICATION ServerSpec
CONSTANTS
    c1 = c1
    c2 = c2
    Clients = {c1, c2}
    Datagrams <- SomeDatagrams
    BufferFrames = 3
    Firmware = "set"
    HasRead = TRUE
    HasWrite = FALSE
    Received = "none"
    MaxDatagrams = 3
    MaxTrouble = 1
INVARIANTS ServerTypeOK WholeDatagrams OneAnswer
PROPERTIES EventuallyAnswered
CHECK_DEADLOCK FALSE
