SPECIFICATION Spec
CONSTANTS
    TicketLifetime = 2
    BufLen = 3
    MaxMsg = 4
    TxCells = 2
    Configs <- FullConfigs
    RecordCells = 3
    PeerAlerts = {"close_notify", "handshake_failure"}
    Rooms = {0, 1, 4, 9}
    PeerMessages <- Messages
INVARIANTS
    SelectionLegal
    ResumptionProved
    ConnectedIsProved
    RefusalKills
PROPERTIES
    KeyChangeEndsRecord
CHECK_DEADLOCK FALSE
