CONSTANTS
    NoConn = NoConn
    a = a
    b = b
    Clients = {a}
    Fds = {1}
    Script <- WholeScript
    Malformed = {}
    RecvMax = 2
    SndCap = 1
    num = 2
    MaxIntr = 0
    Hasty = {}
    Resetting = {}
SPECIFICATION Spec
CHECK_DEADLOCK FALSE
INVARIANTS
    LeftoverIsWatched
