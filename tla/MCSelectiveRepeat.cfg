SPECIFICATION FairSpec
CONSTANTS
    Client = Client
    Server = Server
    NoPack = NoPack
    Slots = 7
    ClientPkts = 5
    ServerPkts = 4
    ClientWindow = 2
    ServerWindow = 1
    SockBuf = 4
    NPkts <- MCNPkts
    Window <- MCWindow
INVARIANTS
    TypeOK
    IInv
    AckImpliesDelivered
    WindowExact
    NothingSkipped
    NoSendDeadlock
    Load
PROPERTIES
    ImplementsTransfer
    Termination
CHECK_DEADLOCK FALSE
