CONSTANTS
    MaxScans <- MC_MaxScans
    NoParse = NoParse
    FileResult = FileResult
SPECIFICATION Spec
INVARIANT RunningScanShownAsScanning
CHECK_DEADLOCK FALSE
