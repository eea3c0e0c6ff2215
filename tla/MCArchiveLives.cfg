SPECIFICATION FairSpec
CONSTANTS
    Sessions = {s1}
    Max = 3
    Cap = 2
    MaxOut = 2
    MaxOpens = 2
    MaxRuns = 2
    Faults = {"crash", "term", "saveFails", "loadFails"}
CHECK_DEADLOCK FALSE
INVARIANTS HistoryInOrder
PROPERTIES ShutdownEnds
