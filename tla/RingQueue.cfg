CONSTANTS
    Producers = {p1, p2, p3}
    Consumers = {c1, c2}
    Capacity = 2
    Items = {x, y}
    NoItem = NoItem
    NoThread = NoThread
SPECIFICATION FairSpec
INVARIANTS
    TypeOK
    SlotsAccounted
    NoDataRace
PROPERTIES
    ImplementsFifo
    ItemsKeepMoving
