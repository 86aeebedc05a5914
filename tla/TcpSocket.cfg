CONSTANTS
    MaxQueue = 2
    Sizes = {0, 1, 2}
    MaxSends = 3
    MaxChunks = 2
    Loops = {l1}
SPECIFICATION FairSpec
INVARIANTS
    WriteOwnsFront
    OneWriteInFlight
PROPERTIES
    QueueDrains
    ImplementsStream
