CONSTANTS
    MaxScans <- MC_MaxScans
    NoParse = NoParse
    FileResult = FileResult
SPECIFICATION Spec
INVARIANT TypeOK
INVARIANT AtMostOneScanRunning
INVARIANT RunningScanIsPolled
PROPERTY ResultsNeverRegress
 
PROPERTY ClosedTabTimersStop
PROPERTY FailedTabDisabled
\* The tab may idle forever waiting for the user once MaxScans scans ran.
CHECK_DEADLOCK FALSE
