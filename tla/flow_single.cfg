SPECIFICATION Spec
CONSTANTS
    Replica = {r1}
    MaxId = 4
    MaxMsg = 4
    IngestBatch = 2
    ChanCap = 1
    BatchSize = 2
    MaxFaults = 3
    Faults = {"insert", "publish", "term", "crash", "load", "fetch", "process", "lostAck", "session", "projectorCrash", "reset"}
INVARIANTS TypeOK NoSkip AtMostOneRow LossBounded
PROPERTIES CursorAdvances ConsumesLog
CHECK_DEADLOCK FALSE
