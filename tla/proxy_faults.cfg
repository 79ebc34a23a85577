SPECIFICATION Spec
CONSTANTS
    Modes <- EnableModes
    Fallback = FALSE
    ImmediateIp = FALSE
    ReportVars <- IpVars
    BufSize = 6
    Messages <- FaultMessages
    MaxCells <- FaultCells
    MaxShort = 1
    MaxDry = 1
    MaxInitFail = 1
    MaxFaults = 1
    HangUps <- Nobody
    MayCoalesce = TRUE
    MayEnd = TRUE
INVARIANTS ToldIsTrue ClientCanInflate NothingQueuedTwice NegoMatchesDeflate OrderPreserved NoLeak BrokenZlibEnds
