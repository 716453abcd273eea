SPECIFICATION Spec
CONSTANTS
    a = a
    b = b
    NoSession = NoSession
    NoCircuit = NoCircuit
    Sessions = {a, b}
    Streams = {1, 2}
    CircuitIDs = {1, 2, 3, 4}
    Circuits = {1, 2, 3}
    Trace <- TraceRotating
    User <- UserOf
    Lead = 1
    MaxTime = 1
    MaxRefused = 1
    MaxClosed = 1
    MaxDetached = 1
INVARIANTS TorTypeOK SessionIsolation RepliesMatched ViewCatchesUp StreamInOnePlace AttachOnlyToBuilt BuildingCounted
PROPERTIES ImplementsPlayer
CHECK_DEADLOCK FALSE
