SPECIFICATION Spec
CONSTANTS
    Faults <- MC_Crash
    Modes <- MC_Modes
    MaxStarts <- MC_MaxStarts
INVARIANT ConfigReadable
\* After the last start Zenmap stays down: the user never runs it again.
CHECK_DEADLOCK FALSE
