SPECIFICATION Spec
CONSTANTS
    Faults <- MC_AllFaults
    Modes <- MC_Modes
    MaxStarts <- MC_MaxStarts
INVARIANT TypeOK
INVARIANT UserProfileComplete
\* After the last start Zenmap stays down: the user never runs it again.
CHECK_DEADLOCK FALSE
