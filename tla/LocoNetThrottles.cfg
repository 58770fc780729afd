SPECIFICATION Spec
CONSTANTS
    NumThrottles = 2
    AutoSteal <- Stealers
    l1 = l1
    l2 = l2
    Locos = {l1, l2}
    Slots = {1}
    Speeds = {2}
    TopSpeed = 3
    NoLoco = NoLoco
    MaxSteps = 4
    MaxForeign = 1
INVARIANTS ControlUntilDispatched
PROPERTIES ControlSpec
CHECK_DEADLOCK FALSE
