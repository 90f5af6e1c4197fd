SPECIFICATION Spec
CONSTANTS
    BufLen = 2
    MaxMsg = 3
    PnBase = 2
    PnLimit = 16
    ConfidentialityLimit = 2
    IntegrityLimit = 0
    EpochBound = 1
    TicketLifetime = 2
    TxCells = 1
    Configs <- ServerConfigs
    Rooms = {7}
    MaxUpdates = 1
    DeliveryCells = 3
    PeerMessages <- Messages
    PeerFollows <- Follows
INVARIANTS BitsNameKeys
CHECK_DEADLOCK FALSE
