CONSTANTS
    ann = ann
    bob = bob
    cid = cid
    NoClient = NoClient
    NoThread = NoThread
    NoTask = NoTask
    Clients = {ann, bob, cid}
    Resetting = {bob}
    MaxSent <- NumSent
    SndCap = 1
    fd_num = 3
    nofile <- Limits
    FD_SETSIZE = 8
    num = 2
    Leaving = {ann, bob}
    Workers = {w1, w2}
    Callers = {main, other}
    Main = main
    Typed <- Calculations
    Visitors = {bob, cid}
    Url <- Urls
    LineIn <- Lines
    Suffixes <- Wwwroot
    Stuck = {bob}
    MaxForkFails = 1
SPECIFICATION ServersFairSpec
INVARIANTS
    ServersTypeOK
    TablesAgree
    ReadyWhenVisited
    OneInstance
    TasksHaveWorkers
    TasksRunOnce
    EchoesInOrder
    OneHolder
PROPERTIES
    NobodyForgotten
CHECK_DEADLOCK FALSE
