CONSTANTS
    Size = 2
    Kinds = {"audio"}
    MaxPeers = 3
    MaxSignalings = 2
    MaxRestarts = 0
    MaxLeaves = 1
SPECIFICATION Spec
INVARIANTS
    IndexIsStable
    OneOfferAtATime
    NoDoubleSend
    EveryoneIsOffered
CHECK_DEADLOCK FALSE
