SPECIFICATION Spec
CONSTANTS
    c1 = c1
    c2 = c2
    NoCall = NoCall
    Calls <- MCCalls
    IdSpace = 4
    SendChan = 1
    ProcChan = 2
    Subscribes = 1
    MaxIds = 7
    MaxConns = 1
INVARIANTS TypeOK IdsSuffice WaiterRegistered
PROPERTIES ConnectedIsReported AnswerIsDelivered
CHECK_DEADLOCK FALSE
