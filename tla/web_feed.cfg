SPECIFICATION FairSpec
CONSTANTS
    Client = {"x", "y"}
    Topic <- Topics
    PageOf <- TwoPages
    Batches <- FewBatches
    BufferCap = 1
    MaxBatches = 2
    Limit = 1
    Faults = {"notify", "session", "query", "webCrash"}
    MaxFaults = 2
INVARIANTS TypeOK NoSendOnClosed DropsAreHarmless FeedOrdered 
PROPERTIES ShownInTheEnd
CHECK_DEADLOCK FALSE
