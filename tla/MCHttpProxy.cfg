SPECIFICATION FairSpec
CONSTANTS
    Browsers = {b1, b2}
    NoOne = NoOne
    Chars = {"a", "b", "c"}
    Uris <- MCUris
    Word <- MCWord
    Addresses <- MCAddresses
    Bytes = {"0", "?", "p", "q", "r", "s", "x"}
    Reply <- MCReply
    Nul = "0"
    Junk = "?"
    Width = 2
INVARIANTS
    TypeOK
    CheckExact
    OneAfterLimit
    NothingLost
    ExactUnlessShorter
PROPERTY
    Answered
CHECK_DEADLOCK FALSE
