SPECIFICATION Spec
CONSTANTS
    Addresses = {k1, k2}
    IPMax = 2
    GlobalMax = 3
    Window = 3
    EvictInterval = 3
    MaxTime = 6
    Requests = {p1, p2}
    Sids = {s1, s2}
    Keys = {c1}
    Adders = {add1}
    CodeCount = 2
    TTL = 2
    Skew = 1
    ChallengeTTL = 1
    MaxClock = 3
    Tokens = {k1, k2}
    Tries = {p1, p2}
    Machines = {m1, m2}
    Dials = {s1, s2}
    TokenTTL = 1
    SkewMax = 0
    MaxNow = 1
    none = none
SYMMETRY Symmetry
INVARIANTS
    
     CodesAccountedFor IdleSessionExpires
    TokenOnce RevokedStaysOut EnrolledCanDial
