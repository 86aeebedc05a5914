CONSTANTS
    Streams = {1}
    FragmentCounts = {1, 2}
    MaxMessages = 2
    MaxSent = 1
    MaxResends = 2
    MsgTimeout = 2
    MaxChunks = 3
    MaxLoss = 1
    Networks = {"lossy", "wild"}
SPECIFICATION FairSpec
INVARIANTS
    DeliveredIsPrefix
    NoSilentLoss
PROPERTIES
    EventuallyDelivered
CHECK_DEADLOCK FALSE
