SPECIFICATION Spec
CONSTANTS
    Browsers = {b1, b2}
    NoOne = NoOne
    Chars = {"a", "b", "c"}
    Uris <- MCUris
    Word <- MCWord
    Addresses <- MCAddresses
    Bytes = {"0", "?", "p", "q", "r", "s", "x"}
    Reply <- MCReply
    Nul = "0"
    Junk = "?"
    Width = 2
INVARIANT
    OffenceHitsNobodyElse
CHECK_DEADLOCK FALSE
