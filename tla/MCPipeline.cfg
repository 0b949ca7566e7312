SPECIFICATION Spec
CONSTANTS
    SendChan = 1
    RecvChan = 1
    MaxUp = 4
    MaxDown = 4
CHECK_DEADLOCK FALSE
INVARIANT SafeLoad
PROPERTIES Pipes Drains
