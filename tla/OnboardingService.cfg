SPECIFICATION Spec
CONSTANTS
    N = 2
    MaxRetry = 2
    EnableService = TRUE
INVARIANTS
    ServiceFindsVerifier
\* The script ends.
CHECK_DEADLOCK FALSE
