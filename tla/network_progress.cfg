SPECIFICATION FairSpec
CONSTANTS
    c1 = c1
    c2 = c2
    Conns = {c1, c2}
    Kinds = {"join", "input", "disconnect", "malformed"}
    ServerFd = 3
    ClientFds = {5}
    SlowReaders = TRUE
    MaxFrames = 2
    Asserts = FALSE
    MaxEvents = 1
INVARIANTS
    StreamIntact
    DeparturesComeLast
    TornStreamsAreClosing
PROPERTIES
    NothingStaysUnread
    GoneClientsAreClosed
CHECK_DEADLOCK FALSE
