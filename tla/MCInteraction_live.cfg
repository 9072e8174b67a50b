CONSTANTS
    Users = {u1, u2}
    Size = 2
    AudioOnly = TRUE
    MaxRooms = 2
    MaxSessions = 2
    MaxLateCloses = 1
    MaxSignalings = 2
SPECIFICATION FairSpec
PROPERTIES
    ImplementsLifecycle
    DeletionJustified
    FrozenForever
    JoinAnsweredUnlessFrozen
    EndedRoomsAreEmptied
    RoomsAreReclaimed
    RunningSlicesEnd
CHECK_DEADLOCK FALSE
