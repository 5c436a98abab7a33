CONSTANTS
    Producers = {p1, p2, p3}
    Consumers = {c1, c2}
    maxcap = 2
    Items = {x, y}
    NoItem = NoItem
    NoThread = NoThread
SPECIFICATION FairSpec
INVARIANTS
    TypeOK
    MutualExclusion
    NoLostWakeup
PROPERTIES
    ImplementsFifo
    ItemsKeepMoving
