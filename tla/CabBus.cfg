SPECIFICATION Spec
CONSTANTS
    TopSpeed = 7
    FastStep = 5
    MaxNumber = 1
    NumCabs = 5
    CABBUS_NO_PING_TIMES = 2
    Keys <- SomeKeys
    Pluggable = {4}
    Numbers = {1234}
    Texts = {"STEAL"}
    Set = {1}
    MaxKeys <- SomeEvents
INVARIANTS TypeOK OwnKeys CleanIsShown SwitchAsEntered
PROPERTIES AllAreAsked
