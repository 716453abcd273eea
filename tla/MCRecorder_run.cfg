SPECIFICATION MCSpec
CONSTANTS
    u = u
    v = v
    NoUser = NoUser
    NoCircuit = NoCircuit
    CircuitIDs = {1, 2}
    Users = {u, v}
    OneLineReplies = TRUE
    MaxEvents = 2
    MaxCommands = 2
INVARIANTS TypeOK ServedIsRecorded TableCatchesUp WrittenOnceUnlessSwept
PROPERTY CleanupLeavesNone
CHECK_DEADLOCK FALSE
