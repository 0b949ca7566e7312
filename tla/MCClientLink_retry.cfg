SPECIFICATION Spec
CONSTANTS
    SendChan = 1
    RecvChan = 1
    Subscribes = 0
    MaxRetry = 2
    MaxConns = 3
INVARIANTS TypeOK RetryBudget EventsTell
CHECK_DEADLOCK FALSE
