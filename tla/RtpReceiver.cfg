CONSTANTS
    T = 32
    MaskBits = 4
    BufferSize = 8
    Networks <- AllNetworks
SPECIFICATION FairSpec
INVARIANTS
    DeliveredInOrder
    NothingSkipped
    OrderRecovered
    LossIsRequested
PROPERTIES
    EverythingPlayed
CHECK_DEADLOCK FALSE
