SPECIFICATION Spec
CONSTANTS
    AesGcm = TRUE
    RecordsMax = 2
    SeqMax = 20
    Nonblocking = TRUE
    LimitSent = TRUE
    PlaintextMax = 1
    SendEpochsMax = 2
    RunMax = 1
    QuietCap = 3
    FillCap = 1
    PeerRuns <- OwnRuns
    PeerAlerts <- OwnAlerts
    PeerLen = 1
    MaxOpened = 20
    ClientMaxWrite = 2
    ServerMaxWrite = 2
INVARIANTS
    ReadersInStep
PROPERTIES
    StreamToClient
    StreamToServer
CHECK_DEADLOCK FALSE
