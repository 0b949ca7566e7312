SPECIFICATION Spec
CONSTANTS
    SendChan = 1
    RecvChan = 1
    Subscribes = 1
    MaxRetry = 0
    MaxConns = 1
CHECK_DEADLOCK FALSE
INVARIANT NoSilentExit
