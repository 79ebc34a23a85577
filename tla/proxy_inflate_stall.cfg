SPECIFICATION Spec
CONSTANTS
    Modes <- EnableModes
    Fallback = FALSE
    ImmediateIp = FALSE
    ReportVars <- IpVars
    BufSize = 2
    Messages <- StallMessages
    MaxCells <- StallCells
    MaxShort = 0
    MaxDry = 0
    MaxInitFail = 0
    MaxFaults = 0
    HangUps <- Nobody
    MayCoalesce = FALSE
    MayEnd = FALSE
INVARIANTS NothingStuckInZlib
