SPECIFICATION FairSpec
CONSTANTS
    Modes <- OtherModes
    Fallback = TRUE
    ImmediateIp = TRUE
    ReportVars <- IpVars
    BufSize = 6
    Messages <- OtherMessages
    MaxCells <- OtherCells
    MaxShort = 0
    MaxDry = 0
    MaxInitFail = 0
    MaxFaults = 0
    HangUps <- Either
    MayCoalesce = TRUE
    MayEnd = FALSE
PROPERTIES RelaySpec FallbackOnlyIfSilent FallbackAnswers HangUpEnds InputTaken
