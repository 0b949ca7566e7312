SPECIFICATION Spec
CONSTANTS
    a1 = a1
    a2 = a2
    s1 = s1
    s2 = s2
    NoSlot = NoSlot
    Addrs <- MCAddrs
    Slots <- MCSlots
    RecvChan = 1
    SignalChan = 1
    MaxClients = 2
    MaxFaults = 1
CHECK_DEADLOCK FALSE
INVARIANTS TypeOK OneReceiver
PROPERTIES EndedIsReleased AcceptReported AddressFreed
