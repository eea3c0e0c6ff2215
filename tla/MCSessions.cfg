SPECIFICATION Spec
CONSTANTS
    Sessions = {s1}
    MaxConns = 2
    MaxInst = 2
    MaxCrash = 1
    MaxQueue = 2
    Faults = {"drop", "exit", "openFails", "timeout", "storeFails"}
    ExitReports = {TRUE, FALSE}
    FastReconnect = TRUE
CHECK_DEADLOCK FALSE
INVARIANTS RegistryEntryOwned WaiterRegistered
PROPERTIES ImplementsRecord
