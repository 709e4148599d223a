SPECIFICATION Spec
CONSTANTS
    RemoteCtrl = RemoteCtrl
    UpdateKey = UpdateKey
    Apps <- MCApps
    AppOrder <- MCAppOrder
    Receivers = {r1}
    Nodes = {n1, n2, n3}
    FirstTimeout = 1
    SecondTimeout = 1
    MaxCmds = 2
    None = None
    Freed = Freed
SYMMETRY NodeSymmetry
INVARIANTS
    TypeOK
    SendDisabledOnlyDuringKeyUpdate
    AtMostOneOutstanding
    PointersFollowList
CHECK_DEADLOCK FALSE
