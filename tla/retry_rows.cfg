SPECIFICATION Spec
CONSTANTS
    None = None
    Blank = Blank
    Stages <- RowStages
    EventSet <- RowEvents
    BatchSize = 2
    MaxLog = 2
    Faults = {"fail"}
    MaxFaults = 1
    UniqueRetention = 1
    BucketDur = 2
    RollupRetention = 0
    NeighborRetention = 0
    Drop <- DropRule
    Silent <- SilentRule
    Gap <- GapRule
    DedupWindow = 1
INVARIANTS ObservationsExact
CHECK_DEADLOCK FALSE
