CONSTANTS
    Sessions <- AllSessions
    Servers = {"calServer", "Reactor"}
    Pipelining = {"Reactor"}
SPECIFICATION Spec
CHECK_DEADLOCK FALSE
INVARIANTS
    TypeOK
    AnswersAreExact
    NothingHeldBack
    NotBothWaiting
