SPECIFICATION FairSpec
CONSTANTS
    call = call
    Callbacks <- MCCallbacks
    Receiver = Receiver
    Source <- MCSource
    MaxRestarts = 1
INVARIANTS
    TypeOK
    GpioLockHeld
    HighLineIsAwake
PROPERTIES
    HighLineWakes
    LowLineReleases
