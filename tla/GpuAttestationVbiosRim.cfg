SPECIFICATION Spec
CONSTANTS
    N = 2
    Options <- MCOptions
INVARIANTS
    LocalVbiosRimWorks
\* The run ends.
CHECK_DEADLOCK FALSE
