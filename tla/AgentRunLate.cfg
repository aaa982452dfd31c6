CONSTANTS
    Sessions = {s1}
    Workers = {w1, w2}
    Reapers = {p1}
    MaxAttempts = 2
    QueueAttempts = 1
    MaxStalls = 0
    Faults = {"late", "saveFails", "crashSettling", "lostSettle"}
    NoSession = NoSession
    NoWorker = NoWorker
    Direct = Direct
VIEW Unrecorded
SYMMETRY ProcessSymmetry
SPECIFICATION Spec
CHECK_DEADLOCK FALSE
INVARIANTS
    LatestClaimOwns
