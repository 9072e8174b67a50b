CONSTANTS
    MaxRequests = 3
    Steps = 1
SPECIFICATION FairSpec
INVARIANTS
    LoneRequestWins
    StaleWritesBounded
    NoPanicWhenCalm
PROPERTIES
    ControlFxReturns
CHECK_DEADLOCK FALSE
