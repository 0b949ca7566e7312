SPECIFICATION Spec
CONSTANTS
    c1 = c1
    c2 = c2
    n1 = n1
    n2 = n2
    NoConn = NoConn
    Conns <- MCOne
    Names <- MCTwoNames
    Addr <- MCOwnAddr
    SignalChan = 1
    ProcChan = 1
    MaxAuths = 2
    MaxSends = 3
    MaxSpawned = 1
CHECK_DEADLOCK FALSE
INVARIANTS RegisteredIsAccepted OrderedSends NoSilentGap CloseHasRoom
