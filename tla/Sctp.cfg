CONSTANTS
    Offerer = "S"
    MaxInits = 1
    MaxHeartbeats = 1
    MaxLoss = 1
    MayClose = TRUE
    MayCloseStream = TRUE
SPECIFICATION FairSpec
INVARIANTS
    ClientFollowsServer
    NothingDropped
    ChannelInStep
PROPERTIES
    ConnectSucceeds
CHECK_DEADLOCK FALSE
