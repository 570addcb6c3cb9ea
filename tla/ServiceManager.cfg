SPECIFICATION Spec
CONSTANTS
    MaxVersion = 2
    MaxCrashes = 2
INVARIANTS
    TypeOK
    AnswersAreTrue
PROPERTY
    StartedServiceRuns
