CONSTANTS
    MaxOffers = 2
    MaxCandidates = 1
    Steps = 1
SPECIFICATION FairSpec
INVARIANTS
    OneNegotiation
    CandidatesReachPlayer
    NothingOutlivesPlayer
PROPERTIES
    ImplementsNegotiation
    OffersAreAnswered
    JoinIsSettled
    StopEndsPeerServer
CHECK_DEADLOCK FALSE
