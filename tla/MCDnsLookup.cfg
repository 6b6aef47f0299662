SPECIFICATION FairSpec
CONSTANTS
    Clients = {c1}
    Server = Server
    Tld = Tld
    NoName = NoName
    NotFound = "not found"
    Unset = "?"
    Bit = "one byte"
    Names <- MCNames
    Strings <- MCStrings
    Over <- MCOver
    Words <- MCWords
    Dns <- MCDns
    Hdns <- MCHdns
INVARIANTS
    TypeOK
    CacheExact
PROPERTIES
    ImplementsResolver
    Answered
