CONSTANTS
    Users = {u1, u2}
    Size = 2
    AudioOnly = FALSE
    MaxRooms = 1
    MaxSessions = 3
    MaxLateCloses = 1
    MaxSignalings = 0
SPECIFICATION Spec
SYMMETRY Symmetry
INVARIANTS
    NoDuplicateSession
CHECK_DEADLOCK FALSE
