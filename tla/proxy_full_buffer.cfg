SPECIFICATION Spec
CONSTANTS
    Modes <- DisableModes
    Fallback = FALSE
    ImmediateIp = FALSE
    ReportVars <- IpVars
    BufSize = 2
    Messages <- FullMessages
    MaxCells <- FullCells
    MaxShort = 0
    MaxDry = 0
    MaxInitFail = 0
    MaxFaults = 0
    HangUps <- Nobody
    MayCoalesce = TRUE
    MayEnd = FALSE
INVARIANTS HungUpMeansHungUp
