SPECIFICATION Spec
CONSTANTS
    Messages <- Samples
    LengthBase = 8
    RecvBufferSize = 14
    MaxMessageSize = 17
    TornAfter = {1, 2, 5}
    MaxFrames = 3
INVARIANTS TypeOK StopsForAReason NothingHeldBack
PROPERTY ImplementsChannel
CHECK_DEADLOCK FALSE
