SPECIFICATION Spec
CONSTANTS
    Modes <- EnableModes
    Fallback = FALSE
    ImmediateIp = FALSE
    ReportVars <- IpVars
    BufSize = 6
    Messages <- EnableMessages
    MaxCells <- EnableCells
    MaxShort = 0
    MaxDry = 0
    MaxInitFail = 0
    MaxFaults = 0
    HangUps <- Nobody
    MayCoalesce = TRUE
    MayEnd = FALSE
INVARIANTS NoRawZlib
