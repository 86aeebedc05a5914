CONSTANTS
    MaxQueue = 2
    MaxDatagrams = 4
    MaxReceived = 2
SPECIFICATION FairSpec
INVARIANTS
    PopsOwnDatagram
    OneSendInFlight
    SentInOrder
    DeliveredInOrder
PROPERTIES
    QueueDrains
