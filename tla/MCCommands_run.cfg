SPECIFICATION FairSpec
CONSTANTS
    Length <- Lengths
    MaxIncoming = 3
    MaxErrors = 1
INVARIANTS TypeOK WatchFollowsQueue
PROPERTIES ImplementsChannel EverythingSent EverythingRead
CHECK_DEADLOCK FALSE
