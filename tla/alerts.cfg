SPECIFICATION Spec
CONSTANTS
    None = None
    Blank = Blank
    Stages <- AlarmStages
    EventSet <- AlarmEvents
    BatchSize = 3
    MaxLog = 5
    Faults = {"crash", "reset"}
    MaxFaults = 1
    UniqueRetention = 1
    BucketDur = 1
    RollupRetention = 0
    NeighborRetention = 0
    Drop <- DropRule
    Silent <- SilentRule
    Gap <- GapRule
    DedupWindow = 1
INVARIANTS AnnouncedAlarms
PROPERTIES AlarmsExact
ACTION_CONSTRAINT GrowsBetweenBatches
CHECK_DEADLOCK FALSE
