SPECIFICATION FairSpec
CONSTANTS
    MaxMessages = 1
    MaxSends = 2
    MaxFaults = 2
INVARIANTS
    TypeOK
    AbandonedTransportsAreSilent
    TimeoutsHitTheirOwn
    MessagesArriveInOrder
    IInv
PROPERTIES
    ImplementsChannel
    SendsArrive
    AttemptsEnd
CHECK_DEADLOCK FALSE
