SPECIFICATION Spec
CONSTANTS
    MinuteWidth = 2
    QuarterWidth = 4
    Grace = 1
    MetricKeep <- ShortKeep
    ProcessKeep <- LongKeep
    ProcessInterval = 2
    RollupBatch = 2
    DeleteBatch = 2
    Capacity = 2
    MaxDelay = 1
    MaxTime = 9
    RawSpan = 2
    MinuteSpan = 4
    MaxChartPoints = 3
    MaxProcessPoints = 3
    MinProcessBucket = 2
    Durations = {2, 3, 6}
    Ages = {0, 3}
INVARIANTS
    TypeOK
    NothingDeletedUnprocessed
    RollupsAreComplete
PROPERTIES
    MetricReportsAreComplete
    ProcessReportsAreComplete
