SPECIFICATION FairSpec
CONSTANTS
    Versions = {v1, v2, v3}
    First = v1
    Broken = {v3}
    Pieces = 2
    Tries = 2
    MaxImages = 2
    MaxDeaths = 3
    MaxTorn = 1
    BootOverlap = FALSE
    None = None
INVARIANTS
    WorkingCopyKept
    InstalledWhole
PROPERTIES
    ServiceResumes
    ImageTakesOver
