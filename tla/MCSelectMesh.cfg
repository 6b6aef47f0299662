SPECIFICATION Spec
CONSTANT MaxKills = 3
INVARIANTS
    TypeOK
    NothingArrives
    OneAtATime
    FirstTwoListen
PROPERTIES
    ComesToRest
    WearsOut
CHECK_DEADLOCK FALSE
