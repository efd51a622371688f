SPECIFICATION Spec
CONSTANTS
    None = None
    Blank = Blank
    Stages <- UniqueStages
    EventSet <- UniqueEvents
    BatchSize = 2
    MaxLog = 4
    Faults = {"fail", "lostAck", "crash"}
    MaxFaults = 1
    UniqueRetention = 1
    BucketDur = 2
    RollupRetention = 0
    NeighborRetention = 0
    Drop <- DropRule
    Silent <- SilentRule
    Gap <- GapRule
    DedupWindow = 1
INVARIANTS ObserversExact StatusFirstWins StatusAccepted ObserverCountExact SeenBoundsExact FieldsExact
ACTION_CONSTRAINT GrowsBetweenBatches
CHECK_DEADLOCK FALSE
