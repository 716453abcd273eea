SPECIFICATION FairSpec
CONSTANTS
    NoWatch = NoWatch
    Descriptors = {1, 2, 3, 4, 5, 6}
    Modes = {"record"}
    Bootstrapped = 2
    MaxLaunches = 2
    MaxTimers = 3

PROPERTY EventuallyRunning
CHECK_DEADLOCK FALSE
