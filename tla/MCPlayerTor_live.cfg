SPECIFICATION FairSpec
CONSTANTS
    a = a
    b = b
    NoSession = NoSession
    NoCircuit = NoCircuit
    Sessions = {a, b}
    Streams = {1, 2}
    CircuitIDs = {1, 2, 3}
    Circuits = {1, 2}
    Trace <- TraceOfTwo
    User <- UserOf
    Lead = 1
    MaxTime = 1
    MaxRefused = 0
    MaxClosed = 1
    MaxDetached = 0
PROPERTY StreamsAssigned
CHECK_DEADLOCK FALSE
