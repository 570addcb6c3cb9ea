SPECIFICATION Spec
CONSTANTS
    RecoveryThreshold = 1
    WarningThreshold = 3
    CriticalThreshold = 4
    TriggerTime = 2
    MinSamples = 2
    CriticalTriggerTime = 1
    CriticalMinSamples = 2
    RecoveryTime = 1
    RecoveryMinSamples = 2
    MaxSampleGap = 2
    EvidenceInterval = 3
    Values = {1, 2, 3, 4}
    MaxTime = 8
    MaxStep = 3
INVARIANTS
    TypeOK
    PhaseConsistent
    OpensExactlyWhenSustained
    ClosesExactlyWhenRecovered
    SustainedCriticalIsEscalated
    OpenEventIsFaithful
