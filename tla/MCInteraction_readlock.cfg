CONSTANTS
    Users = {u1}
    Size = 1
    AudioOnly = FALSE
    MaxRooms = 1
    MaxSessions = 1
    MaxLateCloses = 0
    MaxSignalings = 1
SPECIFICATION FairSpec
PROPERTIES
    StartedPipelineStartsRoom
CHECK_DEADLOCK FALSE
