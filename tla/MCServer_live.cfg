SPECIFICATION Spec
CONSTANTS
    c1 = c1
    c2 = c2
    n1 = n1
    n2 = n2
    NoConn = NoConn
    Conns <- MCOne
    Names <- MCOneName
    Addr <- MCOwnAddr
    SignalChan = 1
    ProcChan = 1
    MaxAuths = 3
    MaxSends = 1
    MaxSpawned = 0
CHECK_DEADLOCK FALSE
PROPERTIES EntryGone QuietPeerEnds CloseEnds
