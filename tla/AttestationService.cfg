SPECIFICATION Spec
CONSTANTS
    c1 = c1
    c2 = c2
    Clients = {c1, c2}
    None = None
    Via <- MCVia
    Requests <- AllRequests
    Outcomes <- MCOutcomes
    MaxAttempts = 1
    MaxProbes = 2
INVARIANTS
    TypeOK
    OneVerifier
    MutexNotLeaked
    NoFailingClaims
PROPERTIES
    ImplementsSerial
    RequestEnds
    FailureRestarts
\* The service stops for good when both of its servers fail: main returns.
CHECK_DEADLOCK FALSE
