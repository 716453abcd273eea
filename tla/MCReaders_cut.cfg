SPECIFICATION MCSpec
CONSTANTS
    CR = CR
    LF = LF
    MaxLines = 2
    MaxLength = 2
    ChunkSize = 5
    NL = NL
    FileChunk = 4
    MaxText = 3
    MaxCircuits = 3
    LaunchTimes <- Times
    RecorderStart <- Start
    PlayerStart <- Restart
INVARIANT LinesAreWhole
CHECK_DEADLOCK FALSE
