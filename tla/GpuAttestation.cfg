SPECIFICATION Spec
CONSTANTS
    N = 2
    Options <- MCOptions
INVARIANTS
    TypeOK
    OverallSound
    ClaimsFaithful
    ExitZeroMeansReady
    FailureHasCause
PROPERTIES
    ReadyOnlyIfAttested
    RunEnds
\* The run ends.
CHECK_DEADLOCK FALSE
