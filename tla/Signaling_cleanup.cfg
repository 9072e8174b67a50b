CONSTANTS
    Size = 2
    Kinds = {"audio"}
    MaxPeers = 2
    MaxSignalings = 1
    MaxRestarts = 0
    MaxLeaves = 1
SPECIFICATION FairSpec
PROPERTIES CleanupAnyway
CHECK_DEADLOCK FALSE
