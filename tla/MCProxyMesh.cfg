SPECIFICATION FairSpec
CONSTANTS
    p1 = p1
    p2 = p2
    p4 = p4
    Peers = {p1, p2, p4}
    Targets <- MCTargets
    Words = {"surya", "teja", "pala"}
    Text <- MCText
    Old <- MCOld
    Junk = "?"
    Block = 2
    MaxStops = 1
INVARIANTS
    TypeOK
    LostToOverlapOnly
    NothingStrange
    ClosedIsComplete
PROPERTIES
    AllArrive
    ReadersEnd
CHECK_DEADLOCK FALSE
