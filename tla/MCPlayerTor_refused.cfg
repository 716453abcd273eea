SPECIFICATION FairSpec
CONSTANTS
    a = a
    b = b
    NoSession = NoSession
    NoCircuit = NoCircuit
    Sessions = {a, b}
    Streams = {1, 2}
    CircuitIDs = {1, 2, 3, 4}
    Circuits = {1, 2, 3}
    Trace <- TraceRotating
    User <- UserOf
    Lead = 1
    MaxTime = 1
    MaxRefused = 1
    MaxClosed = 0
    MaxDetached = 0
PROPERTY StreamsAssigned
CHECK_DEADLOCK FALSE
