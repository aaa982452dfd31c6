CONSTANTS
    Agents = {a1, a2}
    Dispatchers = {d1, d2}
    MaxActions = 2
    MaxAttempts = 2
    FaultSets <- MCFaultSets
    NoHold = NoHold
SPECIFICATION FairSpec
CHECK_DEADLOCK FALSE
INVARIANTS
    StagesInOrder
    SucceededMeansDone
    OneStory
PROPERTIES
    HoldSettlesOnce
    EveryRunEnds
    EveryHoldSettles
