CONSTANTS
    Inst = {i1, i2}
    None = None
    Heartbeat = 2
    TTL = 4
    Delay = 1
    MaxStarts = 2
    MaxFails = 2
    Faults = {"crash", "lostReply", "startFails", "releaseFails"}
SPECIFICATION FairSpec
INVARIANTS
    LeaderNearLease
    StopLeavesLittle
    LeaderHasScheduler
PROPERTIES
    SomebodySchedules
