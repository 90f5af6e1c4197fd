SPECIFICATION Spec
CONSTANTS
    BufLen = 1
    MaxMsg = 2
    PnBase = 2
    PnLimit = 16
    ConfidentialityLimit = 3
    IntegrityLimit = 1
    Suites = {"aes128", "chacha"}
    PnLens = {1, 2}
    Starts = {0, 13}
    MaxPackets = 3
    MaxUpdates = 2
INVARIANTS AuthenticOpens PhasesInStep LimitsHold
CHECK_DEADLOCK FALSE
