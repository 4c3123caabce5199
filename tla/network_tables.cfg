SPECIFICATION Spec
CONSTANTS
    c1 = c1
    c2 = c2
    c3 = c3
    Conns = {c1, c2, c3}
    Kinds = {"join", "huge"}
    ServerFd = 3
    ClientFds = {5, 6}
    SlowReaders = FALSE
    MaxFrames = 2
    Asserts = TRUE
    MaxEvents = 2
SYMMETRY Symmetry
INVARIANTS
    TypeOK
    TablesAgree
    RightSender
    StreamIntact
    DeparturesComeLast
CHECK_DEADLOCK FALSE
