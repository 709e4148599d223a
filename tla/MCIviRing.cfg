SPECIFICATION FairSpec
CONSTANTS
    Size = 5
    MaxRead = 3
    HeadLen = 2
    MagicLen = 1
    Payloads = {0, 1}
    Frames = 3
INVARIANTS
    TypeOK
    FillInRing
PROPERTIES
    RingIsQueue
    InOrder
    Delivered
CHECK_DEADLOCK FALSE
