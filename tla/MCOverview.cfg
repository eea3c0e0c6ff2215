SPECIFICATION FairSpec
CONSTANTS
    Viewers = {v1}
    Machines = {m1}
    Tiles = {t1}
    MaxConns = 2
    MaxRev = 1
    MaxFaults = 1
    Kept = {TRUE, FALSE}
    Faults = {"leave", "drop"}
CHECK_DEADLOCK FALSE
INVARIANTS GateFollowsViewers 
 
