SPECIFICATION Spec
CONSTANTS
    Clients = {c1, c2}
    Server = Server
    Tld = Tld
    NoName = NoName
    NotFound = "not found"
    Unset = "?"
    Bit = "one byte"
    Names <- MCNames
    Strings <- MCStrings
    Over <- MCOver
    Words <- MCWords
    Dns <- MCDns
    Hdns <- MCHdns
INVARIANT
    CacheExact
