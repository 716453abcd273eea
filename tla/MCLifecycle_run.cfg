SPECIFICATION FairSpec
CONSTANTS
    NoWatch = NoWatch
    Descriptors = {1, 2, 3, 4, 5, 6}
    Modes = {"record", "play", "log"}
    Bootstrapped = 2
    MaxLaunches = 2
    MaxTimers = 3
INVARIANTS TypeOK DispatchIsSafe EverythingWatched PlayGoesOn StateFollowsTor
PROPERTIES CleanupBeforeExit StopsInTime WatchedLeadsToRunning
CHECK_DEADLOCK FALSE
