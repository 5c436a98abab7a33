CONSTANTS
    NoConn = NoConn
    a = a
    b = b
    Clients = {a, b}
    Fds = {1}
    Script <- OneRequest
    Malformed = {}
    RecvMax = 1
    SndCap = 4
    num = 2
    MaxIntr = 0
    Hasty = {}
    Resetting = {}
SPECIFICATION Spec
CHECK_DEADLOCK FALSE
INVARIANTS
    PendingConnectionsWake
