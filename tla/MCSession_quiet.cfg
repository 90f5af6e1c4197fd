SPECIFICATION MCSpec
CONSTANTS
    AesGcm = TRUE
    RecordsMax = 3
    SeqMax = 20
    Server = FALSE
    Nonblocking = TRUE
    LimitSent = TRUE
    PlaintextMax = 1
    SendEpochsMax = 2
    RunMax = 2
    QuietCap = 3
    FillCap = 2
    PeerRuns <- KeyRuns
    PeerAlerts = {"internal_error"}
    PeerLen = 1
    MaxWrite = 1
    MaxOpened = 5
PROPERTIES
    QuietCapSparesData
CHECK_DEADLOCK FALSE
