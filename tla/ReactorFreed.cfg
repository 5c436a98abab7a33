CONSTANTS
    NoConn = NoConn
    a = a
    b = b
    Clients = {a}
    Fds = {1}
    Script <- OneRequest
    Malformed = {}
    RecvMax = 1
    SndCap = 4
    num = 2
    MaxIntr = 0
    Hasty = {}
    Resetting = {a}
SPECIFICATION Spec
CHECK_DEADLOCK FALSE
INVARIANTS
    SurvivesReset
