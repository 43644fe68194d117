CONSTANTS
    n1 = n1
    n2 = n2
    c1 = c1
    c2 = c2
    e1 = e1
    e2 = e2
    pg1 = pg1
    pg2 = pg2
    t1 = t1
    NoTarget = NoTarget
    Placeholder = Placeholder
    Targets <- MC_Targets
    RandomTargets <- MC_RandomTargets
    Blank = Blank
    NoName = NoName
    Names <- MC_Names
    Contents <- MC_Contents
    Editors <- MC_Editors
    Pages <- MC_OnePage
    InitProfiles <- MC_InitProfiles
    SavedResults <- MC_SavedResults
SPECIFICATION Spec
PROPERTY ProfileScanTargetsEntry
\* After sys.exit nothing happens.
CHECK_DEADLOCK FALSE
