CONSTANTS
    T = 64
    MaskBits = 4
    BufferSize = 16
    Networks <- AllNetworks
SPECIFICATION Spec
INVARIANTS
    NalsWhole
    HandedInOrder
    NoBrokenReference
    EverythingShown
CHECK_DEADLOCK FALSE
