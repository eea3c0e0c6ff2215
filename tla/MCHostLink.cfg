SPECIFICATION FairSpec
CONSTANTS
    Sessions = {s1}
    Openers = {o1, o2}
    MaxHosts = 2
    MaxConns = 3
    MaxReqs = 2
CHECK_DEADLOCK FALSE
INVARIANTS ServedHoldsLeaseAndSink OpenGetsItsReply 
PROPERTIES NobodyWaitsForever
