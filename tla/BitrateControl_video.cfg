CONSTANTS
    Slices = {s1}
    Users = {u1, u2}
    MaxReturns = 2
    MinBitrate = 200
    MaxBitrate = 205
    DefaultBitrate = 200
    Losses = {0, 30}
    Estimates = {0, 1000}
SPECIFICATION FairSpec
INVARIANTS
    TargetWithinLimits
PROPERTIES
    RatesNeverStall
    EncoderFollowsSlowest
CHECK_DEADLOCK FALSE
