CONSTANTS
    Jobs <- TwoSweeps
    NULL = NULL
    MaxCrashes = 0
SPECIFICATION FairSpec
PROPERTIES
    SweepsRun
