SPECIFICATION Spec
CONSTANTS
    Release = {"old", "new"}
    Latest <- LatestOf
    Proc = {"i1", "i2", "p1"}
    Table = {"ingest", "project"}
    TableOf <- Services
    MonthLength <- Calendar
    Moments <- Dates
    Start <- FirstDate
    MaxStarts = 2
    MaxFaults = 1
INVARIANTS RunsOnFullSchema RecordedExists RefusedOnlyAfterGap
CHECK_DEADLOCK FALSE
