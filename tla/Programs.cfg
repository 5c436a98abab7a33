CONSTANTS
    ann = ann
    bob = bob
    Peers = {ann, bob}
    Lines <- Conversation
    MaxCopies = 1
    PROCESS_NUM = 3
    taskCnt = 3
    NumMessages = 4
    MessageSize = 2
    BufferSize = 3
    Servers = {s1, s2}
    Clients = {ann, bob}
    MaxLines = 2
    LineLength = 2
    Threads = {t1, t2, t3}
    Tickets = 3
    MaxRounds = 3
    Tasks <- SomeTasks
    gmax = 2
    MaxMade = 3
    NoThread = NoThread
    LinesTyped <- SomeLines
    MaxTyped = 3
    Found = {"ls"}
    Ends <- SomeEnds
    Present = {"old"}
    Creatable = {"new"}
    SIZE = 4
    MaxPiece = 2
    MaxPut = 5
    Rounds = 2
    MaxRaised = 3
    KidRounds = 2
    Kills <- SomeKills
SPECIFICATION FairSpec
INVARIANTS
    TypeOK
    ToldExactly
    NothingLost
    Exclusive
    LinesKeepApart
PROPERTIES
    ProgramsEnd
CHECK_DEADLOCK FALSE
