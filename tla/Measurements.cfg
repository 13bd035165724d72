SPECIFICATION Spec
CONSTANTS
    Values <- c_Values
    Reports <- c_Reports
    Rims <- c_Rims
    Nonce <- c_Nonce
    DriverVersion <- c_DriverVersion
    VbiosVersion <- c_VbiosVersion
    NvdecIndex = 1
INVARIANTS
    TypeOK
    RecordExact
    VerdictMeansMatch
    OneEntryPerIndex
    MatchMeansVerdict
PROPERTIES
    RunEnds
\* The verifier goes on to its next step.
CHECK_DEADLOCK FALSE
