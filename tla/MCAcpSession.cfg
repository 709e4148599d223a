SPECIFICATION FairSpec
CONSTANTS
    Receivers = {r1, r2}
    LoginLimit = 2
    HeartBeats = 2
INVARIANT ConnectedIsHeard
PROPERTIES
    TriesAgain
    AsleepLetsGo
