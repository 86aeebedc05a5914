CONSTANTS
    Ends = {a, b}
    Offerers = {a}
    MaxOffers = 2
    MaxLoss = 2
    MaxDup = 1
SPECIFICATION FairSpec
INVARIANTS
    RolesAgree
    KeysMatch
PROPERTIES
    KeysStay
    EventuallyConnected
