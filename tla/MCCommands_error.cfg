SPECIFICATION FairSpec
CONSTANTS
    Length <- Lengths
    MaxIncoming = 1
    MaxErrors = 1
PROPERTY KeptUntilSent
CHECK_DEADLOCK FALSE
