CONSTANTS
    NoConn = NoConn
    a = a
    b = b
    Clients = {a, b}
    Fds = {1, 2}
    Script <- WholeScript
    Malformed = {}
    RecvMax = 1
    SndCap = 2
    num = 1
    MaxIntr = 1
    Hasty = {}
    Resetting = {}
SPECIFICATION FairSpec
CHECK_DEADLOCK FALSE
INVARIANTS
    OnlyErrorsClose
PROPERTIES
    EveryRequestAnswered
    ConnectionsReclaimed
