---------------------------- MODULE LoginLimiter ----------------------------
(***************************************************************************)
(* The two fixed-window counters before a login: httpapi/ratelimit.go and  *)
(* checkLoginRateLimit of httpapi/auth.go.  Time is in half seconds, as    *)
(* Retry-After is in whole ones.                                           *)
(***************************************************************************)
EXTENDS Integers, FiniteSets

CONSTANTS
    Addresses,      \* clientIP
    IPMax,          \* loginIPMax
    GlobalMax,      \* loginGlobalMax
    Window,         \* loginWindow
    EvictInterval,  \* evictInterval
    MaxTime         \* bound: half seconds

ASSUME LimiterAssumption ==
    {IPMax, GlobalMax, Window, EvictInterval} \subseteq Nat \ {0} /\ MaxTime \in Nat

VARIABLES
    time,      \* now
    entries,   \* rateLimiter.entries of the limiters: key to count and windowEnd
    calls,     \* callCount, modulo evictInterval
    admitted,  \* logins let through within the last window: when, from where,
               \* the how-manieth of its moment
    told       \* clients told to come back: limiter, key, window, time to come back

limiterVars == <<time, entries, calls, admitted, told>>

Limiters  == {"global", "ip"}
Budget(l) == IF l = "global" THEN GlobalMax ELSE IPMax

LimiterInit ==
    /\ time = 0
    /\ entries = [l \in Limiters |-> <<>>]
    /\ calls = [l \in Limiters |-> 0]
    /\ admitted = {} /\ told = {}

\* now.After(windowEnd)
Over(e) == time > e.windowEnd

\* evict: every evictInterval calls the windows that are over are dropped.
SweptAll(l) ==                                     \* mutant: evicts the live windows too
    IF calls[l] + 1 = EvictInterval THEN <<>> ELSE entries[l]
Swept(l) ==
    LET es   == entries[l]
        live == {k \in DOMAIN es : ~Over(es[k])}
    IN  IF calls[l] + 1 = EvictInterval THEN [k \in live |-> es[k]] ELSE es

\* allow
Open(es, k) == k \notin DOMAIN es \/ Over(es[k])
Exhausted(l, k) == LET es == Swept(l) IN ~Open(es, k) /\ es[k].count >= Budget(l)
Allows(l, k) == ~Exhausted(l, k)
Counted(es, k) ==
    [j \in DOMAIN es \cup {k} |->
        IF j # k THEN es[j]
        ELSE IF Open(es, k) THEN [count |-> 1, windowEnd |-> time + Window]
        ELSE [es[k] EXCEPT !.count = @ + 1]]
After(l, k) == IF Allows(l, k) THEN Counted(Swept(l), k) ELSE Swept(l)
Called(n)   == (n + 1) % EvictInterval

\* Retry-After: the whole seconds of windowEnd - now, and one more.
Retry(left) == (left \div 2 + 1) * 2
Denied(l, k) ==
    LET end == Swept(l)[k].windowEnd
    IN  told' = told \cup {[l |-> l, k |-> k, windowEnd |-> end, at |-> time + Retry(end - time)]}

Moment == {x \in admitted : x[1] = time}

\* checkLoginRateLimit: the global budget first, then that of the address.  An
\* attempt its address is denied has used up the global budget all the same.
Attempt(a) ==
    LET all == "operator-login"
    IN  \/ /\ Exhausted("global", all)
           /\ entries' = [entries EXCEPT !["global"] = After("global", all)]
           /\ calls' = [calls EXCEPT !["global"] = Called(@)]
           /\ Denied("global", all)
           /\ UNCHANGED admitted
        \/ /\ Allows("global", all)
           /\ entries' = [global |-> After("global", all), ip |-> After("ip", a)]
           /\ calls' = [l \in Limiters |-> Called(calls[l])]
           /\ \/ /\ Allows("ip", a)
                 /\ admitted' = admitted \cup {<<time, a, Cardinality(Moment) + 1>>}
                 /\ UNCHANGED told
              \/ Exhausted("ip", a) /\ Denied("ip", a) /\ UNCHANGED admitted
LimiterStep == UNCHANGED time /\ \E a \in Addresses : Attempt(a)

\* Time passes; what is older than a window is forgotten.
LimiterTick ==
    /\ time < MaxTime
    /\ time' = time + 1
    /\ admitted' = {x \in admitted : x[1] + Window >= time + 1}
    /\ told' = {t \in told : t.at + 1 > time}
    /\ UNCHANGED <<entries, calls>>

LimiterNext == LimiterStep \/ LimiterTick

LimiterSpec == LimiterInit /\ [][LimiterNext]_limiterVars

-----------------------------------------------------------------------------
(* Properties. *)

LimiterTypeOK ==
    /\ time \in 0..MaxTime
    /\ \A l \in Limiters : /\ calls[l] \in 0..EvictInterval - 1
                           /\ \A k \in DOMAIN entries[l] : entries[l][k].count \in 1..Budget(l)

\* Whatever the arrivals, any stretch as long as a window sees at most two
\* windows' budgets, of an address and in all, although the sweep drops entries
\* while others are counted (ratelimit.go:46-81); and a client that comes back
\* when Retry-After said is not met by the window it was turned away from
\* (auth.go:120-136).
AttemptsAreMetered ==
    /\ LimiterTypeOK
    /\ Cardinality(admitted) <= 2 * GlobalMax
    /\ \A a \in Addresses : Cardinality({x \in admitted : x[2] = a}) <= 2 * IPMax
    /\ \A t \in told :
          time >= t.at /\ t.k \in DOMAIN entries[t.l] =>
              entries[t.l][t.k].windowEnd # t.windowEnd \/ Over(entries[t.l][t.k])
=============================================================================
