SPECIFICATION Spec
CONSTANTS
    Modes <- DecodeModes
    Fallback = FALSE
    ImmediateIp = FALSE
    ReportVars <- IpVars
    BufSize = 4
    Messages <- EnableMessages
    MaxCells <- DecodeCells
    MaxShort = 0
    MaxDry = 0
    MaxInitFail = 0
    MaxFaults = 0
    HangUps <- Nobody
    MayCoalesce = FALSE
    MayEnd = TRUE
INVARIANTS TypeOK HeldOnlyPartial NothingUnsaid WatchedStayWhole NoRawZlib HungUpOrFull
PROPERTIES RelaySpec
