SPECIFICATION FairSpec
CONSTANTS
    p1 = p1
    p2 = p2
    p3 = p3
    Peers = {p1, p2, p3}
    Names = {"a", "c"}
    NoName = NoName
    NoPort = NoPort
    NoOne = NoOne
    Registration = Registration
    Port <- MCPort
    Listed <- MCListed
    MaxAsks <- MCMaxAsks
    MaxKills = 1
PROPERTY
    TransferEnds
CHECK_DEADLOCK FALSE
