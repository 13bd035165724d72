SPECIFICATION Spec
CONSTANTS
    N = 2
    Options <- MCOptions
PROPERTIES
    EveryGpuVerified
\* The run ends.
CHECK_DEADLOCK FALSE
