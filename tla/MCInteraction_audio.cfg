CONSTANTS
    Users = {u1, u2, u3}
    Size = 2
    AudioOnly = TRUE
    MaxRooms = 1
    MaxSessions = 3
    MaxLateCloses = 1
    MaxSignalings = 0
SPECIFICATION Spec
SYMMETRY Symmetry
INVARIANTS
    NoDoubleClose
    Capacity
    NoGhostUser
    DuplicatesNeedLateClose
    StartIsAnnounced
    OutTracksBalanced
CHECK_DEADLOCK FALSE
