CONSTANTS
    a1 = a1  a2 = a2  o1 = o1  o2 = o2
    Calls = {1, 2, 3}
    NoCall = 0
    Actors = {a1}
    Ops = {o1, o2}
    NoOp = NoOp
    Scenarios <- OneComputer
    MaxRunning = 1
    MaxFaults = 1
    Faults = {"slow", "late", "stuck", "adrift"}
SPECIFICATION FairSpec
CHECK_DEADLOCK FALSE
INVARIANTS
    RunsOnce
    LeaseCovers
    AnswersAgree
    DrainedIsQuiet
PROPERTIES
    EveryReceiptEnds
