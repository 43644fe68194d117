CONSTANTS
    Empty = Empty
    InputTitles <- MC_InputTitles
    MaxPages <- MC_MaxPages
    MaxScanNum <- MC_MaxScanNum
SPECIFICATION Spec
CHECK_DEADLOCK FALSE
INVARIANT TypeOK
INVARIANT TitlesMatchTabs
PROPERTY TabNamesSpec
