SPECIFICATION FairSessionSpec
CONSTANTS
    Conns = {c1, c2}
    Receivers = {r1, r2}
    Closed = Closed
INVARIANTS
    SessionTypeOK
    ConnectedIsHeard
    LoginFirst
PROPERTIES
    LossIsNoticed
    ReportsResume
