SPECIFICATION Spec
CONSTANTS
    c1 = c1
    c2 = c2
    NoCall = NoCall
    Calls <- MCCalls
    IdSpace = 8
    SendChan = 1
    ProcChan = 2
    Subscribes = 1
    MaxIds = 6
    MaxConns = 2
INVARIANT AnswerMatches
CHECK_DEADLOCK FALSE
