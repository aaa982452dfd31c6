CONSTANTS
    Sessions = {s1}
    Workers = {w1, w2}
    Reapers = {p1}
    MaxAttempts = 2
    QueueAttempts = 2
    MaxStalls = 1
    Faults = {"lostReply", "forgotten"}
    NoSession = NoSession
    NoWorker = NoWorker
    Direct = Direct
SYMMETRY ProcessSymmetry
SPECIFICATION Spec
CHECK_DEADLOCK FALSE
INVARIANTS
    OneStory
PROPERTIES
    HoldSettlesOnce
