SPECIFICATION Spec
CONSTANTS
    Sessions = {s1}
    MaxConns = 3
    MaxInst = 2
    MaxCrash = 0
    MaxQueue = 0
    Faults = {"drop"}
    ExitReports = {TRUE}
    FastReconnect = FALSE
CHECK_DEADLOCK FALSE
PROPERTIES RestoresOnlySurvivors
