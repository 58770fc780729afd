SPECIFICATION NetworkSpec
CONSTANTS
    a = a
    b = b
    Nodes = {a, b}
    Tool = Tool
    NoNode = NoNode
    Aliases = {1, 2}
    Events = {1, 2}
    InitialAliases <- SomeAliases
    InitialLists <- SomeLists
    Changing = {a}
    TxSize = 4
    RxParts = 2
    MaxExternal = 5
INVARIANTS NetworkTypeOK TableIsTrue
PROPERTIES ConsumersAreTold
CHECK_DEADLOCK FALSE
