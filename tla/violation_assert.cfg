SPECIFICATION Spec
CONSTANTS
    c1 = c1
    Conns = {c1}
    Kinds = {"join"}
    ServerFd = 3
    ClientFds = {5}
    SlowReaders = FALSE
    MaxFrames = 1
    Asserts = TRUE
    MaxEvents = 2
INVARIANTS
    ServerSurvives
CHECK_DEADLOCK FALSE
