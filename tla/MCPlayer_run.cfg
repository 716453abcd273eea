SPECIFICATION MCSpec
CONSTANTS
    a = a
    b = b
    NoSession = NoSession
    NoCircuit = NoCircuit
    Sessions = {a, b}
    Streams = {7}
    CircuitIDs = {1, 2}
    Circuits = {1, 2, 3, 4}
    Trace <- TraceOfSession
    Lead = 1
    MaxTime = 1
    MaxWaiting = 2
    MaxFailures = 1
    MaxBuilding = 2
    MaxCommands = 1
INVARIANTS TypeOK OwnershipInv TableInv AwaitingInv BacklogInv WakeupInv OrderInv CounterInv
PROPERTY RotationInOrder
CHECK_DEADLOCK FALSE
