SPECIFICATION FairSpec
CONSTANTS
    SAVE_PERIOD = 2
    AlarmRows = 1
    AlarmReports = 2
    Frames = 5
    Restarts = 1
VIEW View
ACTION_CONSTRAINT WhilePacked
INVARIANTS
    HoldsLatest
    PackedIsMarked
    ReissuedOnce
PROPERTY BacklogDrains
