SPECIFICATION MCSpec
CONSTANTS
    CR = CR
    LF = LF
    MaxLines = 4
    MaxLength = 3
    ChunkSize = 9
    NL = NL
    FileChunk = 4
    MaxText = 3
    MaxCircuits = 3
    LaunchTimes <- Times
    RecorderStart <- Start
    PlayerStart <- Restart
INVARIANTS ReadersTypeOK NothingLost WholeUnlessCut RestoredUnlessCut
CHECK_DEADLOCK FALSE
