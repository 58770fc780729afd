SPECIFICATION FairSpec
CONSTANTS
    Programmers = {window, matcher}
    Modes <- MCModes
    Scripts <- MCScripts
    None = None
    MaxRequests = 3
INVARIANTS OutcomeIsOwn
PROPERTIES EveryRequestEnds
CHECK_DEADLOCK FALSE
