SPECIFICATION RecordSpec
CONSTANTS
    Client = Client
    Server = Server
    NoPack = NoPack
    Slots = 7
    ClientPkts = 5
    ServerPkts = 4
    ClientWindow = 2
    ServerWindow = 1
    SockBuf = 4
    NPkts <- MCNPkts
    Window <- MCWindow
INVARIANT
    WindowResent
CHECK_DEADLOCK FALSE
