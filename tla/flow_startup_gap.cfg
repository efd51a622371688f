SPECIFICATION FairSpec
CONSTANTS
    Replica = {r1}
    MaxId = 3
    MaxMsg = 2
    IngestBatch = 2
    ChanCap = 1
    BatchSize = 2
    MaxFaults = 0
    Faults = {}
PROPERTIES AllProjected
CHECK_DEADLOCK FALSE
