SPECIFICATION MCSpec
CONSTANTS
    AesGcm = TRUE
    RecordsMax = 3
    SeqMax = 20
    Server = FALSE
    Nonblocking = TRUE
    LimitSent = TRUE
    PlaintextMax = 1
    SendEpochsMax = 2
    RunMax = 2
    QuietCap = 3
    FillCap = 2
    PeerRuns <- AllRuns
    PeerAlerts = {"internal_error"}
    PeerLen = 2
    MaxWrite = 5
    MaxOpened = 5
INVARIANTS
    NonceFresh
    LastSequenceNumber
    PeerFollows
    KeysDie
    AlertEndsSession
    AnswerBeforeData
    KeyUpdateHasCause
    EpochsCapped
    InOrder
    RunsCostData
    QuietCapHolds
PROPERTIES
    DeadStaysDead
CHECK_DEADLOCK FALSE
