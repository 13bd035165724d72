SPECIFICATION Spec
CONSTANTS
    Retries = 1
    ChainLength <- MCChainLength
    Responses <- MCResponses
    NonceEnabled = FALSE
    AllowHold = TRUE
    ValidityExt = 2
    RevocationExt <- MCRevocationExt
INVARIANTS
    TypeOK
    ValidMeansChecked
    AskedInOrder
PROPERTIES
    ImplementsFetch
    CheckEnds
\* The function returns.
CHECK_DEADLOCK FALSE
