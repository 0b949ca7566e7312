SPECIFICATION Spec
CONSTANTS
    Capacity = 15
    MaxChunk = 9
    RecvChan = 1
    MaxPackets = 3
    Streams <- MCStreams
INVARIANTS TypeOK InOrderDelivery NothingWithheld ErrorsAreReal SizedBufferFits
PROPERTY PipeSpec
CHECK_DEADLOCK FALSE
