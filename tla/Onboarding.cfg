SPECIFICATION Spec
CONSTANTS
    N = 2
    MaxRetry = 2
    EnableService = TRUE
INVARIANTS
    TypeOK
    CountedAreReady
    NothingStale
PROPERTIES
    ForeignVmsUntouched
    EveryVmIsTried
\* The script ends.
CHECK_DEADLOCK FALSE
