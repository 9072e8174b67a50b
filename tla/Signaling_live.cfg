CONSTANTS
    Size = 2
    Kinds = {"audio"}
    MaxPeers = 2
    MaxSignalings = 1
    MaxRestarts = 1
    MaxLeaves = 1
SPECIFICATION FairSpec
PROPERTIES
    DisconnectedUnlessFrozen
    SignalingIsComplete
CHECK_DEADLOCK FALSE
