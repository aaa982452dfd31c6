CONSTANTS
    Sessions = {s1}
    Workers = {w1, w2}
    Reapers = {p1}
    MaxAttempts = 2
    QueueAttempts = 1
    MaxStalls = 0
    Faults = {"cancel", "escape", "claimFails", "noModel"}
    NoSession = NoSession
    NoWorker = NoWorker
    Direct = Direct
SYMMETRY ProcessSymmetry
SPECIFICATION Spec
CHECK_DEADLOCK FALSE
INVARIANTS
    OneDriver
    PROPERTIES
    NoRevival
