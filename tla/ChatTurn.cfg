\* One turn sent twice.
CONSTANTS
    w1 = w1  w2 = w2
    Turns = {t1}
    MaxRequests = 2
    Workers = {w1, w2}
    Tokens = {0, 25}
    SystemTokens = 4
    MaxSteps = 2
    MaxTries = 2
    FaultSets <- MCFaultSets
    NoJob = NoJob
    Holds = {1, 2}
    Tracked = {1, 2}
    FixedPriced = {}
    Grants = {}
    Included <- NoQuota
    FreeLimit = 3
    Amounts = {2}
    Usages = {}
    Prices = {}
    TokensPerCredit = 10
    MinCredits = 1
    Purchases = {}
    MaxPurchases = 0
    NoGrant = NoGrant
    NoUsage = NoUsage
SPECIFICATION ChatFairSpec
CHECK_DEADLOCK FALSE
INVARIANTS
    StopMeansUnsaved
    OneRunPerTurn
    UsedIsNotRefunded
    
    OpenHoldIsScheduled
PROPERTIES
    EveryHoldIsDecided
