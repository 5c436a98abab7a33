CONSTANTS
    NoConn = NoConn
    a = a
    b = b
    Clients = {a, b}
    Fds = {1, 2}
    Script <- MixedScript
    Malformed = {2}
    RecvMax = 2
    SndCap = 1
    num = 2
    MaxIntr = 1
    Hasty = {a}
    Resetting = {b}
SPECIFICATION Spec
CHECK_DEADLOCK FALSE
INVARIANTS
    TypeOK
    TablesAgree
    InputStream
    OutputStream
    NoLostEdge
    PendingConnectionsWake
    BatchIsCurrent
PROPERTIES
    ImplementsCalcService
