SPECIFICATION FairSpec
CONSTANTS
    Sessions = {s1}
    MaxConns = 3
    MaxInst = 3
    MaxCrash = 1
    MaxQueue = 0
    Faults = {"drop", "openFails", "timeout"}
    ExitReports = {TRUE}
    FastReconnect = FALSE
CHECK_DEADLOCK FALSE
INVARIANTS ConnectedMeansRunning 
PROPERTIES WaitsEnd EventuallyOnline
