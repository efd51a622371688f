SPECIFICATION Spec
CONSTANTS
    None = None
    Blank = Blank
    Stages <- FaultStages
    EventSet <- FaultEvents
    BatchSize = 2
    MaxLog = 4
    Faults = {"fail", "lostAck", "crash"}
    MaxFaults = 2
    UniqueRetention = 1
    BucketDur = 2
    RollupRetention = 0
    NeighborRetention = 0
    Drop <- DropRule
    Silent <- SilentRule
    Gap <- GapRule
    DedupWindow = 1
INVARIANTS ObservationsComplete AnnouncedAreCommitted RollupSetsExact RollupCountsEnough FreshestAdvertWins
PROPERTIES ConsumesLog
CHECK_DEADLOCK FALSE
