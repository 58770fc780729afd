SPECIFICATION Spec
CONSTANTS
    NUM_STEPS = 2
    STABLE_REQUIRED = 2
    STABLE_TOLERANCE = 2
    MAX_WAIT_TICKS = 3
    Kph <- SomeKph
    MaxKph = 50
    MaxRuns = 3
INVARIANTS TypeOK AtRest MeasuredAtItsStep
PROPERTIES RunEnds
CHECK_DEADLOCK FALSE
