SPECIFICATION Spec
CONSTANTS
    Replica = {r1, r2}
    MaxId = 3
    MaxMsg = 2
    IngestBatch = 2
    ChanCap = 1
    BatchSize = 2
    MaxFaults = 0
    Faults = {}
SYMMETRY Symmetry
INVARIANTS NoSkip
CHECK_DEADLOCK FALSE
