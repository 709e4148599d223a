SPECIFICATION FrameSpec
CONSTANTS
    Bodies <- SomeBodies
    Size = 5
    MaxFrames = 5
    MaxDamage = 3
INVARIANTS
    FrameTypeOK
    LossIsLocal
CHECK_DEADLOCK FALSE
