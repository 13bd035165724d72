SPECIFICATION Spec
CONSTANTS
    N = 2
    MaxRetry = 2
    EnableService = TRUE
INVARIANTS
    CountedAreAttested
\* The script ends.
CHECK_DEADLOCK FALSE
