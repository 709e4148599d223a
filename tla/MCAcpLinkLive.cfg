SPECIFICATION FairSpec
CONSTANTS
    RemoteCtrl = RemoteCtrl
    UpdateKey = UpdateKey
    Apps <- MCApps
    AppOrder <- MCAppOrder
    Receivers = {r1}
    Nodes = {n1, n2, n3}
    FirstTimeout = 1
    SecondTimeout = 1
    MaxCmds = 0
    None = None
    Freed = Freed
PROPERTY SendingResumes
CHECK_DEADLOCK FALSE
