CONSTANTS
    Streams = {1, 2}
    FragmentCounts = {1}
    MaxMessages = 2
    MaxSent = 1
    MaxResends = 2
    MsgTimeout = 1
    MaxChunks = 3
    MaxLoss = 0
    Networks = {"wild"}
SPECIFICATION Spec
INVARIANTS
    NoSilentLoss
CHECK_DEADLOCK FALSE
