SPECIFICATION FairSpec
CONSTANTS
    Replica = {r1}
    MaxId = 3
    MaxMsg = 3
    IngestBatch = 2
    ChanCap = 1
    BatchSize = 1
    MaxFaults = 1
    Faults = {"insert", "publish", "term", "crash", "projectorCrash"}
INVARIANTS ProjectedOnce
PROPERTIES WakeupDrains
CHECK_DEADLOCK FALSE
