SPECIFICATION Spec
CONSTANTS
    Client = Client
    Server = Server
    NoPack = NoPack
    Slots = 7
    ClientPkts = 1
    ServerPkts = 3
    ClientWindow = 2
    ServerWindow = 2
    SockBuf = 4
    NPkts <- MCNPkts
    Window <- MCWindow
INVARIANTS
    EOFAfterPacket
    OneCompletes
CHECK_DEADLOCK FALSE
