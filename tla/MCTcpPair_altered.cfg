SPECIFICATION FairSpec
CONSTANTS
    TicketLifetime = 2
    BufLen = 3
    MaxMsg = 4
    TxCells = 2
    EpochBound = 1
    Pieces = 2
    ClientConfigs <- Clients
    ServerConfigs <- Servers
    Rooms = {0, 1, 9}
    MaxAltered = 2
    Altered <- Replaced
INVARIANTS
    Agreement
    NoDowngrade
PROPERTIES
    HandshakeEnds
CHECK_DEADLOCK FALSE
