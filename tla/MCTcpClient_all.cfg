SPECIFICATION Spec
CONSTANTS
    EpochBound = 1
    BufLen = 3
    MaxMsg = 4
    Configs <- AllConfigs
    Pieces = 2
    RecordCells = 3
    PeerAlerts = {"close_notify", "handshake_failure"}
    PeerMessages <- Messages
    PeerFollows <- FewMessages
INVARIANTS
    CompleteIsAuthenticated
    ConnectedIsReady
    WholeRecordsOut
    SecretsDie
PROPERTIES
    EpochNeedsProof
CHECK_DEADLOCK FALSE
