SPECIFICATION Spec
CONSTANTS
    None = None
    Blank = Blank
    Stages <- CrashStages
    EventSet <- CrashEvents
    BatchSize = 2
    MaxLog = 4
    Faults = {"crash", "reset"}
    MaxFaults = 2
    UniqueRetention = 1
    BucketDur = 2
    RollupRetention = 0
    NeighborRetention = 0
    Drop <- DropRule
    Silent <- SilentRule
    Gap <- GapRule
    DedupWindow = 1
INVARIANTS ObservationsExact RollupCountsExact NeighborsExact AdvertsCounted AvgWithinBounds FloorFromBucket NodesPaged  
CHECK_DEADLOCK FALSE
