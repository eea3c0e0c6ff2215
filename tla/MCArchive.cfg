SPECIFICATION Spec
CONSTANTS
    Sessions = {s1, s2}
    Max = 2
    Cap = 1
    MaxOut = 1
    MaxOpens = 2
    MaxRuns = 1
    Faults = {"term"}
CHECK_DEADLOCK FALSE
SYMMETRY Symmetry
 
PROPERTIES CapEnforced
