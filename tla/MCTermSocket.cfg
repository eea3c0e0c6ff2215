SPECIFICATION FairSpec
CONSTANTS
    Keepalive = 3
    PingTimeout = 2
    Buffer = 1
CHECK_DEADLOCK FALSE
INVARIANTS SilenceIsCut
PROPERTIES  DeadViewerReaped 
