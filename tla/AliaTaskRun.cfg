CONSTANTS
    k1 = k1
    Runs = {r1, r2}
    Keys = {k1}
    KeyOf <- OneKey
    Workers = {w1, w2}
    Reapers = {p1}
    Attempts = 2
    MaxStalls = 1
    Faults = {"crashSettling", "crashHolding", "lostRefund"}
    NoRun = NoRun
    NoWorker = NoWorker
SYMMETRY ProcessSymmetry
SPECIFICATION Spec
CHECK_DEADLOCK FALSE
INVARIANTS
    OneStory
    OneRunPerOccurrence
PROPERTIES
    HoldSettlesOnce
