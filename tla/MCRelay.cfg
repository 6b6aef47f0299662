SPECIFICATION Spec
CONSTANTS
    Browsers = {b1, b2}
    NoOne = NoOne
    Chars = {"a", "b", "c"}
    Uris <- MCUris
    Word <- MCWord
    Addresses <- MCAddresses
    Bytes = {"0", "?", "p", "q", "r", "s", "t", "x", "y"}
    Reply <- MCTextReply
    Nul = "0"
    Junk = "?"
    Width = 2
INVARIANT
    RelayExact
CHECK_DEADLOCK FALSE
