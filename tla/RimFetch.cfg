SPECIFICATION Spec
CONSTANTS
    Retries = 2
INVARIANTS
    TypeOK
    RimsAreTheirOwn
    ErrorMeansAllTried
PROPERTIES
    ImplementsFetch
    FetchEnds
\* The verifier goes on to its next step.
CHECK_DEADLOCK FALSE
