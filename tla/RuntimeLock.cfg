SPECIFICATION Spec
CONSTANTS
    Processes = {p1, p2}
    NoProcess = NoProcess
    Capacity = 1
    SampleLimits = {0, 2}
    MaxBatches = 2
INVARIANT OneWriterPerDatabase
