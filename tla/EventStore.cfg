SPECIFICATION Spec
CONSTANTS
    RecoveryThreshold = 1
    WarningThreshold = 3
    CriticalThreshold = 4
    TriggerTime = 1
    MinSamples = 2
    CriticalTriggerTime = 0
    CriticalMinSamples = 1
    RecoveryTime = 0
    RecoveryMinSamples = 1
    MaxSampleGap = 1
    EvidenceInterval = 2
    busy = busy
    single = single
    Keys = {busy, single}
    Values <- KeyValues
    Configurations <- KeyConfigurations
    Prelude = 2
    PreludeLimit = 1
    EventKeep = 1
    DeleteBatch = 1
    MaxSamples <- KeySamples
    MaxTime = 5
    MaxStep = 2
INVARIANTS
    TypeOK
    EngineMatchesStore
    EventMatchesState
    SamplesAreCounted
    EvidenceTellsTheHistory
    PeakAndCheckpointsAreKept
PROPERTIES
    ClosedEventsAreFinal
