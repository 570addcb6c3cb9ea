SPECIFICATION Spec
CONSTANTS
    Processes = {service, terminal}
    MaxBytes = 1
    RetainedFiles = 2
    Sizes = {1}
    MaxRecords = 4
    MaxLaunches = 3
    EarlyRecords = 0
    OldDatabases <- Databases0to8
    GpuRows = {"gpu"}
    UndatedRows = {"undated"}
    NewRows = {"new"}
CHECK_DEADLOCK FALSE
INVARIANTS
    TypeOK
    KeptRecordsAreNewest
    LogFilesAreBounded
PROPERTIES
    UpgradeIsAtomic
