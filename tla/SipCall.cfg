CONSTANTS
    Transports = {"tcp", "udp", "shared"}
    MaxByes = 2
    MaxLoss = 2
SPECIFICATION FairSpec
INVARIANTS CallerConnectsFirst ConnectedIsDecided HangupHasCause
PROPERTY HangupEndsCall
CHECK_DEADLOCK FALSE
