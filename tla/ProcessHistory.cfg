SPECIFICATION HistorySpec
CONSTANTS
    Pids = {1, 2, 3}
    Period = 2
    Interval = 2
    TopCpu = 2
    TopNetwork = 1
    MaxSnapshot = 2
    Durations = {0, 1, 5}
    MaxDuration = 5
    MaxStarts = 1
    MaxBytes = 1
    Active = {2}
    MaxFailures = 1
    MaxTime = 7
    FreshFor = 4
    Prelude = 6
    EventTopN = 2
    MaxRows = 2
INVARIANTS
    HistoryTypeOK
    EventsAreExplained
    NewestEvidenceIsKept
PROPERTY
    DeltasBelongToTheirProcess
CHECK_DEADLOCK FALSE
