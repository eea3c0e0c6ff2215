---------------------------- MODULE AccessProofs ----------------------------
(***************************************************************************)
(* Proofs about access to the hub, one part after the other:               *)
(*   LoginLimiter: logins are metered, for any budgets and windows;        *)
(*   Operator: a logout is final, an idle session expires and a one-shot   *)
(*     credential opens one session, for any requests, sessions and runs   *)
(*     of `operator add`;                                                  *)
(*   Fleet: a token enrols once, an enrolment that reported success can    *)
(*     dial and a revoked machine stays out, for any tokens, machines and  *)
(*     dials.                                                              *)
(***************************************************************************)
EXTENDS LoginLimiter, Operator, Fleet, FiniteSetTheorems, TLAPS

-----------------------------------------------------------------------------
(* The login limiter: the inductive invariant. *)

KeysOf(l)    == IF l = "global" THEN {"operator-login"} ELSE Addresses
Seen(l, k) == IF l = "global" THEN admitted ELSE {x \in admitted : x[2] = k}
Live(l, k) == k \in DOMAIN entries[l] /\ ~Over(entries[l][k])
Start(l, k) == entries[l][k].windowEnd - Window

LimiterType ==
    /\ time \in 0..MaxTime
    /\ DOMAIN entries = Limiters /\ DOMAIN calls = Limiters
    /\ \A l \in Limiters :
          /\ calls[l] \in 0..EvictInterval - 1
          /\ \A k \in DOMAIN entries[l] :
                /\ DOMAIN entries[l][k] = {"count", "windowEnd"}
                /\ entries[l][k].count \in 1..Budget(l)
                /\ entries[l][k].windowEnd \in 0..time + Window
    /\ IsFiniteSet(admitted)
    /\ \A x \in admitted : x[1] \in 0..time /\ x[3] \in Nat

\* Logins of the same moment are numbered, so that none is taken for another.
NumberInv == \A x \in Moment : x[3] <= Cardinality(Moment)

\* In a live window no more logins were let through than were counted, and no
\* more than the budget before it.  Without one there was none at this moment.
Before(l, k) == {x \in Seen(l, k) : x[1] < Start(l, k)}
Since(l, k)  == {x \in Seen(l, k) : x[1] >= Start(l, k)}
MeterInv ==
    \A l \in Limiters : \A k \in KeysOf(l) :
        IF Live(l, k)
        THEN /\ Cardinality(Since(l, k)) <= entries[l][k].count
             /\ Cardinality(Before(l, k)) <= Budget(l)
        ELSE /\ Cardinality(Seen(l, k)) <= Budget(l)
             /\ \A x \in Seen(l, k) : x[1] < time

\* A client is told to come back after the end of its window.
ToldInv ==
    \A t \in told :
        t.l \in Limiters /\ t.windowEnd \in Nat /\ t.at \in Nat /\ t.at > t.windowEnd

LimiterInv == LimiterType /\ NumberInv /\ MeterInv /\ ToldInv

-----------------------------------------------------------------------------
(* What a call does to the windows of one limiter. *)

\* Each limiter lets at least one call through in a window.
LEMMA BudgetIsPositive == \A l \in Limiters : Budget(l) \in Nat \ {0}
  BY LimiterAssumption DEF Budget, Limiters

\* The sweep drops windows that are over and leaves the others alone.
LEMMA SweptKeepsLive ==
    ASSUME LimiterType, NEW l \in Limiters
    PROVE  /\ DOMAIN Swept(l) \subseteq DOMAIN entries[l]
           /\ \A k \in DOMAIN Swept(l) : Swept(l)[k] = entries[l][k]
           /\ \A k : Live(l, k) => k \in DOMAIN Swept(l)
           /\ \A k : Open(Swept(l), k) <=> ~Live(l, k)
<1>1. CASE calls[l] + 1 = EvictInterval
  BY <1>1 DEF Swept, Live, Open
<1>2. CASE calls[l] + 1 # EvictInterval
  BY <1>2 DEF Swept, Live, Open
<1> QED BY <1>1, <1>2

\* A call leaves the other keys alone, opens a window or counts in the live one,
\* and counts no further than the budget.
LEMMA AfterCall ==
    ASSUME LimiterType, UNCHANGED time, NEW l \in Limiters, NEW k,
           entries'[l] = After(l, k)
    PROVE  /\ \A j \in DOMAIN entries'[l] :
                 /\ DOMAIN entries'[l][j] = {"count", "windowEnd"}
                 /\ entries'[l][j].count \in 1..Budget(l)
                 /\ entries'[l][j].windowEnd \in 0..time + Window
           /\ \A j : j # k => /\ Live(l, j)' <=> Live(l, j)
                              /\ Live(l, j) => entries'[l][j] = entries[l][j]
           /\ Live(l, k)'
           /\ Live(l, k) =>
                 /\ entries'[l][k].windowEnd = entries[l][k].windowEnd
                 /\ entries'[l][k].count = IF Allows(l, k) THEN entries[l][k].count + 1
                                           ELSE entries[l][k].count
           /\ ~Live(l, k) =>
                 /\ Allows(l, k)
                 /\ entries'[l][k].windowEnd = time + Window
                 /\ entries'[l][k].count = 1
           /\ ~Allows(l, k) => k \in DOMAIN Swept(l) /\ ~Over(Swept(l)[k])
<1> DEFINE es == Swept(l)
<1>1. /\ DOMAIN es \subseteq DOMAIN entries[l]
      /\ \A j \in DOMAIN es : es[j] = entries[l][j]
      /\ \A j : Live(l, j) => j \in DOMAIN es
      /\ \A j : Open(es, j) <=> ~Live(l, j)
  BY SweptKeepsLive
<1>2. Budget(l) \in Nat \ {0} /\ Window \in Nat \ {0} /\ time \in Nat
  BY BudgetIsPositive, LimiterAssumption DEF LimiterType
<1>3. \A j \in DOMAIN es : /\ DOMAIN es[j] = {"count", "windowEnd"}
                           /\ es[j].count \in 1..Budget(l) /\ es[j].windowEnd \in 0..time + Window
  BY <1>1 DEF LimiterType
<1>4. Allows(l, k) <=> ~Live(l, k) \/ es[k].count < Budget(l)
  BY <1>1, <1>2, <1>3 DEF Allows, Exhausted, Live
<1> HIDE DEF es
<1>5. CASE ~Allows(l, k)
  <2>1. entries'[l] = es
    BY <1>5 DEF After, es
  <2> QED BY <2>1, <1>1, <1>2, <1>3, <1>4, <1>5 DEF Live, Over, es
<1>6. CASE Allows(l, k)
  <2>1. entries'[l] = Counted(es, k)
    BY <1>6 DEF After, es
  <2>2. /\ DOMAIN Counted(es, k) = DOMAIN es \cup {k}
        /\ \A j \in DOMAIN es : j # k => Counted(es, k)[j] = es[j]
        /\ ~Live(l, k) => Counted(es, k)[k] = [count |-> 1, windowEnd |-> time + Window]
        /\ Live(l, k) => Counted(es, k)[k] = [es[k] EXCEPT !.count = @ + 1]
    BY <1>1 DEF Counted
  <2>3. CASE Live(l, k)
    <3>1. /\ DOMAIN Counted(es, k)[k] = {"count", "windowEnd"}
          /\ Counted(es, k)[k].count = es[k].count + 1
          /\ Counted(es, k)[k].windowEnd = es[k].windowEnd
      BY <1>1, <1>3, <2>2, <2>3
    <3> HIDE DEF Counted
    <3> QED BY <3>1, <2>1, <2>2, <2>3, <1>1, <1>2, <1>3, <1>4, <1>6 DEF Live, Over
  <2>4. CASE ~Live(l, k)
    <3>1. /\ DOMAIN Counted(es, k)[k] = {"count", "windowEnd"}
          /\ Counted(es, k)[k].count = 1
          /\ Counted(es, k)[k].windowEnd = time + Window
      BY <2>2, <2>4
    <3> QED BY <3>1, <2>1, <2>2, <2>4, <1>1, <1>2, <1>3, <1>6 DEF Live, Over
  <2> QED BY <2>3, <2>4
<1> QED BY <1>5, <1>6

\* A login that is let through has a number of its own.
LEMMA Fresh ==
    ASSUME LimiterType, NumberInv, NEW a
    PROVE  /\ IsFiniteSet(Moment) /\ Cardinality(Moment) \in Nat
           /\ <<time, a, Cardinality(Moment) + 1>> \notin admitted
<1>1. IsFiniteSet(Moment) /\ Cardinality(Moment) \in Nat
  BY FS_Subset, FS_CardinalityType DEF LimiterType, Moment
<1>2. ASSUME <<time, a, Cardinality(Moment) + 1>> \in admitted PROVE FALSE
  <2>1. <<time, a, Cardinality(Moment) + 1>> \in Moment
    BY <1>2 DEF Moment
  <2> QED BY <2>1, <1>1 DEF NumberInv
<1> QED BY <1>1, <1>2

\* The cardinalities in MeterInv are numbers, and grow with their sets.
LEMMA Counts ==
    ASSUME LimiterType, NEW S \in SUBSET admitted
    PROVE  /\ IsFiniteSet(S) /\ Cardinality(S) \in Nat
           /\ \A T \in SUBSET S : Cardinality(T) \in Nat /\ Cardinality(T) <= Cardinality(S)
           /\ \A x : x \notin S => Cardinality(S \cup {x}) = Cardinality(S) + 1
  BY FS_Subset, FS_CardinalityType, FS_AddElement DEF LimiterType

\* One limiter after a call for key k, which was admitted as x or not at all.
LEMMA MeterAfterCall ==
    ASSUME LimiterType, MeterInv, UNCHANGED time, NEW l \in Limiters, NEW k \in KeysOf(l),
           entries'[l] = After(l, k),
           NEW j \in KeysOf(l),
           \/ Seen(l, j)' = Seen(l, j)
           \/ /\ j = k /\ Allows(l, k)
              /\ \E x : x \notin admitted /\ x[1] = time /\ Seen(l, j)' = Seen(l, j) \cup {x}
    PROVE  IF Live(l, j)'
           THEN /\ Cardinality(Since(l, j)') <= entries'[l][j].count
                /\ Cardinality(Before(l, j)') <= Budget(l)
           ELSE /\ Cardinality(Seen(l, j)') <= Budget(l)
                /\ \A x \in Seen(l, j)' : x[1] < time
<1>1. /\ \A i : i # k => /\ Live(l, i)' <=> Live(l, i)
                         /\ Live(l, i) => entries'[l][i] = entries[l][i]
      /\ Live(l, k)'
      /\ Live(l, k) =>
            /\ entries'[l][k].windowEnd = entries[l][k].windowEnd
            /\ entries'[l][k].count = IF Allows(l, k) THEN entries[l][k].count + 1
                                      ELSE entries[l][k].count
      /\ ~Live(l, k) =>
            /\ Allows(l, k)
            /\ entries'[l][k].windowEnd = time + Window
            /\ entries'[l][k].count = 1
  BY AfterCall
<1>2. /\ Seen(l, j) \subseteq admitted /\ Since(l, j) \subseteq Seen(l, j)
      /\ Before(l, j) \subseteq Seen(l, j)
      /\ \A y \in Seen(l, j) : y[1] \in 0..time
      /\ Window \in Nat \ {0} /\ time \in Nat /\ Budget(l) \in Nat \ {0}
      /\ Live(l, j) => entries[l][j].count \in Nat /\ entries[l][j].windowEnd \in 0..time + Window
  BY LimiterAssumption, BudgetIsPositive DEF LimiterType, Seen, Since, Before, Live
<1>3. /\ Cardinality(Seen(l, j)) \in Nat /\ Cardinality(Since(l, j)) \in Nat
      /\ Cardinality(Before(l, j)) \in Nat
  BY <1>2, Counts
<1>4. /\ Live(l, j) => /\ Cardinality(Since(l, j)) <= entries[l][j].count
                       /\ Cardinality(Before(l, j)) <= Budget(l)
      /\ ~Live(l, j) => /\ Cardinality(Seen(l, j)) <= Budget(l)
                        /\ \A y \in Seen(l, j) : y[1] < time
  BY DEF MeterInv
<1>5. /\ Since(l, j)' = {y \in Seen(l, j)' : y[1] >= entries'[l][j].windowEnd - Window}
      /\ Before(l, j)' = {y \in Seen(l, j)' : y[1] < entries'[l][j].windowEnd - Window}
      /\ Since(l, j) = {y \in Seen(l, j) : y[1] >= entries[l][j].windowEnd - Window}
      /\ Before(l, j) = {y \in Seen(l, j) : y[1] < entries[l][j].windowEnd - Window}
  BY DEF Since, Before, Start
<1>6. CASE Seen(l, j)' = Seen(l, j)
  <2>1. CASE j = k /\ ~Live(l, k)
    <3>1. Since(l, j)' = {} /\ Before(l, j)' = Seen(l, j)
      BY <1>1, <1>2, <1>4, <1>5, <1>6, <2>1
    <3> QED BY <3>1, <2>1, <1>1, <1>2, <1>4, FS_EmptySet
  <2>2. CASE ~(j = k /\ ~Live(l, k))
    <3>1. CASE Live(l, j)
      <4>1. Since(l, j)' = Since(l, j) /\ Before(l, j)' = Before(l, j)
        BY <1>1, <1>5, <1>6, <3>1
      <4> QED BY <4>1, <3>1, <1>1, <1>2, <1>3, <1>4
    <3>2. CASE ~Live(l, j)
      BY <3>2, <2>2, <1>1, <1>4, <1>6
    <3> QED BY <3>1, <3>2
  <2> QED BY <2>1, <2>2
<1>7. ASSUME j = k, Allows(l, k), NEW x, x \notin admitted, x[1] = time,
             Seen(l, j)' = Seen(l, j) \cup {x}
      PROVE  /\ Cardinality(Since(l, j)') <= entries'[l][j].count
             /\ Cardinality(Before(l, j)') <= Budget(l)
  <2>1. CASE Live(l, k)
    <3>1. time >= entries[l][j].windowEnd - Window
      BY <1>7, <2>1, <1>2 DEF Live, Over
    <3>2. Since(l, j)' = Since(l, j) \cup {x} /\ Before(l, j)' = Before(l, j)
      BY <3>1, <1>1, <1>2, <1>5, <1>7, <2>1
    <3>3. Cardinality(Since(l, j) \cup {x}) = Cardinality(Since(l, j)) + 1
      BY <1>2, <1>7, Counts
    <3> QED BY <3>2, <3>3, <2>1, <1>1, <1>2, <1>3, <1>4, <1>7
  <2>2. CASE ~Live(l, k)
    <3>1. Since(l, j)' = {x} /\ Before(l, j)' = Seen(l, j)
      BY <1>1, <1>2, <1>4, <1>5, <1>7, <2>2
    <3>2. Cardinality({x}) = 1
      BY FS_Singleton
    <3>3. entries'[l][j].count = 1 /\ Cardinality(Seen(l, j)) <= Budget(l)
      BY <1>1, <1>4, <1>7, <2>2
    <3> QED BY <3>1, <3>2, <3>3
  <2> QED BY <2>1, <2>2
<1> QED BY <1>6, <1>7, <1>1

\* Whoever is denied is told to come back after the end of the window.
LEMMA DeniedTold ==
    ASSUME LimiterType, ToldInv, UNCHANGED time, NEW l \in Limiters, NEW k,
           Exhausted(l, k), Denied(l, k)
    PROVE  ToldInv'
<1> DEFINE end == Swept(l)[k].windowEnd
           t   == [l |-> l, k |-> k, windowEnd |-> end, at |-> time + Retry(end - time)]
<1>1. end \in Nat /\ time \in Nat /\ end >= time
  BY SweptKeepsLive, LimiterAssumption DEF Exhausted, Open, Over, LimiterType
<1>2. \A n \in Nat : Retry(n) \in Nat /\ Retry(n) > n
  BY DEF Retry
<1>3. end - time \in Nat
  BY <1>1
<1>4. Retry(end - time) \in Nat /\ Retry(end - time) > end - time
  BY <1>2, <1>3
<1>5. told' = told \cup {t}
  BY DEF Denied
<1>6. t.l = l /\ t.windowEnd = end /\ t.at = time + Retry(end - time)
  OBVIOUS
<1> HIDE DEF end, t
<1>7. t.l \in Limiters /\ t.windowEnd \in Nat /\ t.at \in Nat /\ t.at > t.windowEnd
  BY <1>1, <1>4, <1>6
<1> QED BY <1>5, <1>7 DEF ToldInv

\* An attempt is a call of the global limiter and, unless denied there, of the
\* limiter of its address.
LEMMA AttemptStep ==
    ASSUME LimiterInv, UNCHANGED time, NEW a \in Addresses, Attempt(a)
    PROVE  LimiterInv'
<1> DEFINE all == "operator-login"
           x   == <<time, a, Cardinality(Moment) + 1>>
<1> USE DEF LimiterInv
<1>1. /\ DOMAIN entries = Limiters /\ DOMAIN calls = Limiters
      /\ \A l \in Limiters : calls[l] \in 0..EvictInterval - 1
      /\ \A n \in Nat : Called(n) \in 0..EvictInterval - 1
      /\ EvictInterval \in Nat \ {0}
      /\ Limiters = {"global", "ip"} /\ all \in KeysOf("global") /\ a \in KeysOf("ip")
      /\ KeysOf("global") = {all} /\ KeysOf("ip") = Addresses
  BY LimiterAssumption DEF LimiterType, KeysOf, Limiters, Called
<1>2. /\ IsFiniteSet(Moment) /\ Cardinality(Moment) \in Nat /\ x \notin admitted
      /\ time \in 0..MaxTime
      /\ x[1] = time /\ x[2] = a /\ x[3] = Cardinality(Moment) + 1
  BY Fresh DEF LimiterType
<1> HIDE DEF x
\* What the calls and the table are afterwards, whichever limiters were called.
<1>3. /\ entries'["global"] = After("global", all)
      /\ \/ /\ Exhausted("global", all) /\ Denied("global", all) /\ UNCHANGED admitted
            /\ entries'["ip"] = entries["ip"]
         \/ /\ Allows("global", all) /\ entries'["ip"] = After("ip", a)
            /\ \/ Allows("ip", a) /\ admitted' = admitted \cup {x} /\ UNCHANGED told
               \/ Exhausted("ip", a) /\ Denied("ip", a) /\ UNCHANGED admitted
      /\ DOMAIN entries' = Limiters /\ DOMAIN calls' = Limiters
      /\ \A l \in Limiters : calls'[l] \in 0..EvictInterval - 1
  BY <1>1 DEF Attempt, x
<1>4. /\ admitted' \in {admitted, admitted \cup {x}} 
      /\ IsFiniteSet(admitted')
      /\ \A y \in admitted' : y[1] \in 0..time /\ y[3] \in Nat
  BY <1>2, <1>3, FS_AddElement DEF LimiterType
<1>5. \A j \in DOMAIN entries'["global"] :
          /\ DOMAIN entries'["global"][j] = {"count", "windowEnd"}
          /\ entries'["global"][j].count \in 1..Budget("global")
          /\ entries'["global"][j].windowEnd \in 0..time + Window
  BY <1>1, <1>3, AfterCall
<1>6. \A j \in DOMAIN entries'["ip"] :
          /\ DOMAIN entries'["ip"][j] = {"count", "windowEnd"}
          /\ entries'["ip"][j].count \in 1..Budget("ip")
          /\ entries'["ip"][j].windowEnd \in 0..time + Window
  BY <1>1, <1>3, AfterCall DEF LimiterType
<1>7. LimiterType'
  BY <1>1, <1>2, <1>3, <1>4, <1>5, <1>6 DEF LimiterType
<1>8. NumberInv'
  <2>1. CASE UNCHANGED admitted
    BY <2>1 DEF NumberInv, Moment
  <2>2. CASE admitted' = admitted \cup {x}
    <3>1. Moment' = Moment \cup {x} /\ x \notin Moment
      BY <1>2, <2>2 DEF Moment
    <3>2. Cardinality(Moment \cup {x}) = Cardinality(Moment) + 1
      BY <1>2, <3>1, FS_AddElement
    <3>3. \A y \in Moment : y[3] \in Nat /\ y[3] <= Cardinality(Moment)
      BY DEF LimiterType, NumberInv, Moment
    <3> QED BY <1>2, <3>1, <3>2, <3>3 DEF NumberInv
  <2> QED BY <1>4, <2>1, <2>2
<1>9. ToldInv'
  BY <1>1, <1>3, DeniedTold DEF ToldInv
<1>10. MeterInv'
  <2> SUFFICES ASSUME NEW l \in Limiters, NEW j \in KeysOf(l)
               PROVE  IF Live(l, j)'
                      THEN /\ Cardinality(Since(l, j)') <= entries'[l][j].count
                           /\ Cardinality(Before(l, j)') <= Budget(l)
                      ELSE /\ Cardinality(Seen(l, j)') <= Budget(l)
                           /\ \A y \in Seen(l, j)' : y[1] < time
    BY DEF MeterInv
  <2>1. CASE l = "global"
    <3>1. j = all /\ Seen(l, j) = admitted /\ Seen(l, j)' = admitted'
      BY <1>1, <2>1 DEF Seen
    <3>2. \/ Seen(l, j)' = Seen(l, j)
          \/ Allows(l, j) /\ Seen(l, j)' = Seen(l, j) \cup {x}
      BY <1>3, <2>1, <3>1
    <3> QED BY <1>2, <1>3, <2>1, <3>1, <3>2, MeterAfterCall
  <2>2. CASE l = "ip" /\ entries'["ip"] = After("ip", a)
    <3>1. Seen(l, j) = {y \in admitted : y[2] = j} /\ Seen(l, j)' = {y \in admitted' : y[2] = j}
      BY <2>2 DEF Seen
    <3>2. \/ Seen(l, j)' = Seen(l, j)
          \/ j = a /\ Allows(l, a) /\ Seen(l, j)' = Seen(l, j) \cup {x}
      BY <1>2, <1>3, <2>2, <3>1
    <3> QED BY <1>1, <1>2, <2>2, <3>2, MeterAfterCall
  <2>3. CASE l = "ip" /\ entries'["ip"] = entries["ip"] /\ UNCHANGED admitted
    BY <2>3 DEF MeterInv, Live, Over, Since, Before, Start, Seen
  <2> QED BY <1>1, <1>3, <2>1, <2>2, <2>3
<1> QED BY <1>7, <1>8, <1>9, <1>10

\* As time passes, the logins of the moment become past ones, and what is left
\* when a window ends was let through in it.
LEMMA LimiterTickStep ==
    ASSUME LimiterInv, LimiterTick
    PROVE  LimiterInv'
<1> USE DEF LimiterInv
<1>1. /\ time \in Nat /\ Window \in Nat \ {0} /\ MaxTime \in Nat /\ time < MaxTime
      /\ time' = time + 1
      /\ admitted' = {y \in admitted : y[1] + Window >= time + 1}
      /\ UNCHANGED <<entries, calls>> /\ told' \subseteq told
  BY LimiterAssumption DEF LimiterTick, LimiterType
<1>2. admitted' \subseteq admitted /\ \A y \in admitted : y[1] \in 0..time /\ y[3] \in Nat
  BY <1>1 DEF LimiterType
<1>3. LimiterType'
  <2>1. IsFiniteSet(admitted')
    BY <1>2, Counts
  <2>2. \A l \in Limiters : \A k \in DOMAIN entries[l] :
            entries[l][k].windowEnd \in 0..time + Window =>
                  entries[l][k].windowEnd \in 0..time' + Window
    BY <1>1
  <2>3. time' \in 0..MaxTime /\ \A y \in admitted' : y[1] \in 0..time' /\ y[3] \in Nat
    BY <1>1, <1>2
  <2> QED BY <1>1, <2>1, <2>2, <2>3 DEF LimiterType
<1>4. NumberInv'
  BY <1>1, <1>2 DEF NumberInv, Moment
<1>5. ToldInv'
  BY <1>1 DEF ToldInv
<1>6. MeterInv'
  <2> SUFFICES ASSUME NEW l \in Limiters, NEW j \in KeysOf(l)
               PROVE  IF Live(l, j)'
                      THEN /\ Cardinality(Since(l, j)') <= entries'[l][j].count
                           /\ Cardinality(Before(l, j)') <= Budget(l)
                      ELSE /\ Cardinality(Seen(l, j)') <= Budget(l)
                           /\ \A y \in Seen(l, j)' : y[1] < time'
    BY DEF MeterInv
  <2>1. /\ Seen(l, j)' \subseteq Seen(l, j) /\ Seen(l, j) \subseteq admitted
        /\ Seen(l, j)' \subseteq admitted'
        /\ Since(l, j) \subseteq admitted /\ Before(l, j) \subseteq admitted
    BY <1>2 DEF Seen, Since, Before
  <2>2. \A y \in Seen(l, j)' : y[1] \in 0..time /\ y[1] < time' /\ y[1] + Window >= time'
    BY <1>1, <1>2, <2>1
  <2>3. CASE ~Live(l, j)
    <3>1. ~Live(l, j)'
      BY <1>1, <2>3 DEF Live, Over, LimiterType
    <3>2. Cardinality(Seen(l, j)') <= Cardinality(Seen(l, j))
      BY <2>1, Counts
    <3>3. Cardinality(Seen(l, j)) <= Budget(l) /\ Cardinality(Seen(l, j)) \in Nat
          /\ Cardinality(Seen(l, j)') \in Nat
      BY <2>1, <2>3, Counts DEF MeterInv
    <3> QED BY <2>2, <3>1, <3>2, <3>3, BudgetIsPositive
  <2>4. CASE Live(l, j)
    <3>1. /\ Cardinality(Since(l, j)) <= entries[l][j].count
          /\ Cardinality(Before(l, j)) <= Budget(l)
          /\ entries[l][j].count \in 1..Budget(l) /\ entries[l][j].windowEnd \in Nat
          /\ Cardinality(Since(l, j)) \in Nat /\ Cardinality(Before(l, j)) \in Nat
      BY <1>1, <2>1, <2>4, Counts DEF MeterInv, Live, LimiterType
    <3>2. CASE Live(l, j)'
      <4>1. Since(l, j)' \subseteq Since(l, j) /\ Before(l, j)' \subseteq Before(l, j)
        BY <1>1, <2>1 DEF Since, Before, Start
      <4>2. /\ Cardinality(Since(l, j)') \in Nat
            /\ Cardinality(Since(l, j)') <= Cardinality(Since(l, j))
            /\ Cardinality(Before(l, j)') \in Nat
            /\ Cardinality(Before(l, j)') <= Cardinality(Before(l, j))
        BY <2>1, <4>1, Counts
      <4> QED BY <1>1, <3>1, <3>2, <4>2, BudgetIsPositive
    <3>3. CASE ~Live(l, j)'
      <4>1. entries[l][j].windowEnd = time
        BY <1>1, <2>4, <3>1, <3>3 DEF Live, Over
      <4>2. Seen(l, j)' \subseteq Since(l, j)
        BY <1>1, <2>1, <2>2, <4>1 DEF Since, Start
      <4>3. Cardinality(Seen(l, j)') \in Nat /\ Cardinality(Seen(l, j)') <= Cardinality(Since(l, j))
        BY <2>1, <4>2, Counts
      <4> QED BY <2>2, <3>1, <3>3, <4>3, BudgetIsPositive
    <3> QED BY <3>2, <3>3
  <2> QED BY <2>3, <2>4
<1> QED BY <1>3, <1>4, <1>5, <1>6

\* What the counters and windows are at any time, for any budgets, window and
\* interval between sweeps (ratelimit.go:46-81).
THEOREM LimiterInvariant == LimiterSpec => []LimiterInv
<1>1. LimiterInit => LimiterInv
  <2> SUFFICES ASSUME LimiterInit PROVE LimiterInv
    OBVIOUS
  <2>1. /\ time = 0 /\ entries = [l \in Limiters |-> <<>>] /\ calls = [l \in Limiters |-> 0]
        /\ admitted = {} /\ told = {}
    BY DEF LimiterInit
  <2>2. LimiterType
    BY <2>1, LimiterAssumption, FS_EmptySet DEF LimiterType
  <2>3. NumberInv /\ ToldInv
    BY <2>1 DEF NumberInv, Moment, ToldInv
  <2>4. \A l \in Limiters : \A k : Seen(l, k) = {} /\ ~Live(l, k)
    BY <2>1 DEF Seen, Live
  <2>5. MeterInv
    BY <2>4, FS_EmptySet, BudgetIsPositive DEF MeterInv
  <2> QED BY <2>2, <2>3, <2>5 DEF LimiterInv
<1>2. LimiterInv /\ [LimiterNext]_limiterVars => LimiterInv'
  <2>1. CASE UNCHANGED limiterVars
    BY <2>1 DEF limiterVars, LimiterInv, LimiterType, NumberInv, Moment, MeterInv, ToldInv, Seen,
       Live,
       Over, Since, Before, Start
  <2>2. ASSUME LimiterInv, LimiterNext PROVE LimiterInv'
    BY <2>2, AttemptStep, LimiterTickStep DEF LimiterNext, LimiterStep
  <2> QED BY <2>1, <2>2
<1> QED BY <1>1, <1>2, PTL DEF LimiterSpec

\* At most two windows' budgets in any stretch of a window, and Retry-After is
\* after the end of the window it was given for (ratelimit.go:46-81,
\* auth.go:120-136).
THEOREM AttemptsMetered == LimiterSpec => []AttemptsAreMetered
<1>1. LimiterInv => AttemptsAreMetered
  <2> SUFFICES ASSUME LimiterInv PROVE AttemptsAreMetered
    OBVIOUS
  <2> USE DEF LimiterInv
  <2>1. LimiterTypeOK
    BY DEF LimiterType, LimiterTypeOK
  <2>2. ASSUME NEW l \in Limiters, NEW k \in KeysOf(l)
        PROVE  Cardinality(Seen(l, k)) <= 2 * Budget(l)
    <3>1. Seen(l, k) \subseteq admitted /\ Since(l, k) \subseteq admitted /\ Before(l, k) \subseteq admitted
      BY DEF Seen, Since, Before
    <3>2. /\ IsFiniteSet(Since(l, k)) /\ IsFiniteSet(Before(l, k)) /\ Budget(l) \in Nat
          /\ Cardinality(Seen(l, k)) \in Nat
          /\ Cardinality(Since(l, k)) \in Nat /\ Cardinality(Before(l, k)) \in Nat
      BY <3>1, Counts, BudgetIsPositive
    <3>3. CASE ~Live(l, k)
      BY <3>2, <3>3 DEF MeterInv
    <3>4. CASE Live(l, k)
      <4>1. Start(l, k) \in Int /\ \A y \in admitted : y[1] \in Int
        BY <3>4, LimiterAssumption DEF Start, Live, LimiterType
      <4>2. Seen(l, k) = Since(l, k) \cup Before(l, k) /\ Since(l, k) \cap Before(l, k) = {}
        BY <3>1, <4>1 DEF Since, Before
      <4>3. Cardinality(Seen(l, k)) = Cardinality(Since(l, k)) + Cardinality(Before(l, k))
        <5>1. Cardinality(Since(l, k) \cup Before(l, k))
                 = Cardinality(Since(l, k)) + Cardinality(Before(l, k))
                   - Cardinality(Since(l, k) \cap Before(l, k))
          BY <3>2, FS_Union
        <5>2. Cardinality(Since(l, k) \cap Before(l, k)) = 0
          BY <4>2, FS_EmptySet
        <5> QED BY <3>2, <4>2, <5>1, <5>2
      <4>4. Cardinality(Since(l, k)) <= Budget(l) /\ Cardinality(Before(l, k)) <= Budget(l)
        BY <3>2, <3>4 DEF MeterInv, Live, LimiterType
      <4> QED BY <3>2, <4>3, <4>4
    <3> QED BY <3>3, <3>4
  <2>3. Cardinality(admitted) <= 2 * GlobalMax
    BY <2>2 DEF Limiters, KeysOf, Seen, Budget
  <2>4. \A a \in Addresses : Cardinality({y \in admitted : y[2] = a}) <= 2 * IPMax
    BY <2>2 DEF Limiters, KeysOf, Seen, Budget
  <2>5. ASSUME NEW t \in told, time >= t.at, t.k \in DOMAIN entries[t.l],
               entries[t.l][t.k].windowEnd = t.windowEnd
        PROVE  Over(entries[t.l][t.k])
    <3>1. t.windowEnd \in Nat /\ t.at \in Nat /\ t.at > t.windowEnd /\ time \in Nat
      BY LimiterAssumption DEF ToldInv, LimiterType
    <3> QED BY <2>5, <3>1 DEF Over
  <2> QED BY <2>1, <2>3, <2>4, <2>5 DEF AttemptsAreMetered
<1> QED BY <1>1, LimiterInvariant, PTL

-----------------------------------------------------------------------------
(* The operator: the inductive invariant, in parts. *)

\* OperatorTypeOK, with what a request holds on its way.
TypeInv ==
    /\ clock \in 1..MaxClock
    /\ DOMAIN lastUse \subseteq Sids /\ DOMAIN source = DOMAIN lastUse
    /\ DOMAIN sessions \subseteq DOMAIN lastUse
    /\ totp \subseteq Adders /\ lastStep \in 0..clock + 1
    /\ codes \cup spent \subseteq Adders \X (1..CodeCount)
    /\ DOMAIN challenges \subseteq issued /\ issued \subseteq Keys
    /\ add \in [Adders -> -1..CodeCount + 2]
    /\ DOMAIN req = Requests
    /\ \A r \in Requests : Waiting(r, "record") => req[r].step \in 0..clock + 1

\* A logged-out session existed, and is in the table no more.
LogoutInv == loggedOut \subseteq DOMAIN lastUse /\ LogoutIsFinal

\* An expiry in the table, or on its way there, is within the lifetime of the
\* last use of its session.
ExpiryInv ==
    /\ \A s \in DOMAIN lastUse : lastUse[s] \in 1..clock
    /\ \A s \in DOMAIN sessions : sessions[s] \in Nat /\ sessions[s] <= lastUse[s] + TTL
    /\ \A r \in Requests : Waiting(r, "refresh") =>
          /\ req[r].sid \in DOMAIN lastUse
          /\ req[r].expiry \in Nat /\ req[r].expiry <= lastUse[req[r].sid] + TTL

\* One-shot credentials that can be presented no more, and those that a request
\* has taken and not yet opened a session with.
UsedUp  == spent \cup (issued \ DOMAIN challenges)
Taken(r) == IF req[r].at \in {"assert", "create"} THEN req[r].source ELSE {}

\* A credential is with one session or one request, and used up by then.
SourceInv ==
    /\ \A s \in DOMAIN source : source[s] \subseteq UsedUp
    /\ \A r \in Requests : Taken(r) \subseteq UsedUp
    /\ \A s, t \in DOMAIN source : source[s] \cap source[t] # {} => s = t
    /\ \A r, q \in Requests : Taken(r) \cap Taken(q) # {} => r = q
    /\ \A s \in DOMAIN source, r \in Requests : source[s] \cap Taken(r) = {}

\* The codes a run of `operator add` has saved are stored or spent, not both; no
\* other code is, and an operator has them all.
CodeInv ==
    /\ codes \cap spent = {}
    /\ \A a \in Adders, i \in 1..CodeCount :
          /\ <<a, i>> \in codes \cup spent => i <= add[a]
          /\ i <= add[a] /\ add[a] <= CodeCount + 1 => <<a, i>> \in codes \cup spent
    /\ \A a \in totp : add[a] = CodeCount + 1

OperatorInv == TypeInv /\ LogoutInv /\ ExpiryInv /\ SourceInv /\ CodeInv

-----------------------------------------------------------------------------
(* One lemma per part, one step per action. *)

\* The types are kept: a step read from a code is at most one ahead of the clock.
LEMMA TypeInvStep ==
    ASSUME OperatorInv, OperatorNext
    PROVE  TypeInv'
<1> USE OperatorAssumption DEF OperatorInv, TypeInv, Waiting, Moves, dbVars, ghostVars
<1>1. ASSUME NEW r \in Requests, NEW step \in StepsAround(clock), LoginTOTP(r, step) PROVE TypeInv'
  BY <1>1 DEF LoginTOTP, StepsAround
<1>2. ASSUME NEW r \in Requests, SetTOTPStep(r) PROVE TypeInv'
  BY <1>2 DEF SetTOTPStep
<1>3. ASSUME NEW r \in Requests, NEW c \in codes, LoginRecovery(r, c) PROVE TypeInv'
  BY <1>3 DEF LoginRecovery, Spent
<1>4. ASSUME NEW r \in Requests, NEW s \in Sids, NewSession(r, s) PROVE TypeInv'
  BY <1>4 DEF NewSession, With, Idle
<1>5. ASSUME NEW r \in Requests, NEW s \in DOMAIN sessions, Validate(r, s) PROVE TypeInv'
  BY <1>5 DEF Validate, Slid
<1>6. ASSUME NEW r \in Requests, Refresh(r) PROVE TypeInv'
  BY <1>6 DEF Refresh, UpdatedRow
<1>7. ASSUME NEW r \in Requests, Served(r) PROVE TypeInv'
  BY <1>7 DEF Served, Idle
<1>8. ASSUME NEW r \in Requests, NEW k \in Keys, BeginPasskey(r, k) PROVE TypeInv'
  BY <1>8 DEF BeginPasskey, With, Idle
<1>9. ASSUME NEW r \in Requests, NEW k \in Keys, FinishPasskeyLogin(r, k) PROVE TypeInv'
  BY <1>9 DEF FinishPasskeyLogin, Take, Without, Restrict, Idle
<1>10. ASSUME NEW r \in Requests, NEW k \in Keys, FinishPasskeyRegistration(r, k) PROVE TypeInv'
  BY <1>10 DEF FinishPasskeyRegistration, Take, Without, Restrict, Idle
<1>11. ASSUME NEW r \in Requests, Asserted(r) PROVE TypeInv'
  BY <1>11 DEF Asserted, Idle
<1>12. ASSUME NEW r \in Requests, Attested(r) PROVE TypeInv'
  BY <1>12 DEF Attested, Idle
<1>13. ASSUME NEW s \in DOMAIN lastUse, Logout(s) PROVE TypeInv'
  BY <1>13 DEF Logout, Without, Restrict
<1>14. ASSUME NEW a \in Adders, AddBegin(a) PROVE TypeInv'
  BY <1>14 DEF AddBegin
<1>15. ASSUME NEW a \in Adders, SaveRecoveryCode(a) PROVE TypeInv'
  BY <1>15 DEF SaveRecoveryCode
<1>16. ASSUME NEW a \in Adders, SaveTOTP(a) PROVE TypeInv'
  BY <1>16 DEF SaveTOTP, Ready
<1>17. ASSUME NEW a \in Adders, AddDies(a) PROVE TypeInv'
  BY <1>17 DEF AddDies
<1>18. ASSUME Restart PROVE TypeInv'
  BY <1>18 DEF Restart, Idle
<1>19. ASSUME Tick PROVE TypeInv'
  BY <1>19 DEF Tick
<1> QED
  BY <1>1, <1>2, <1>3, <1>4, <1>5, <1>6, <1>7, <1>8, <1>9, <1>10, <1>11, <1>12, <1>13, <1>14,
     <1>15, <1>16, <1>17, <1>18, <1>19 DEF OperatorNext

\* A refresh updates rows and inserts none, and a session id is not drawn twice.
LEMMA LogoutInvStep ==
    ASSUME OperatorInv, OperatorNext
    PROVE  LogoutInv'
<1> USE OperatorAssumption DEF OperatorInv, TypeInv, LogoutInv, LogoutIsFinal, Waiting, Moves,
        dbVars, ghostVars
<1>1. ASSUME NEW r \in Requests, NEW step \in StepsAround(clock), LoginTOTP(r, step)
      PROVE  LogoutInv'
  BY <1>1 DEF LoginTOTP, StepsAround
<1>2. ASSUME NEW r \in Requests, SetTOTPStep(r) PROVE LogoutInv'
  BY <1>2 DEF SetTOTPStep
<1>3. ASSUME NEW r \in Requests, NEW c \in codes, LoginRecovery(r, c) PROVE LogoutInv'
  BY <1>3 DEF LoginRecovery, Spent
<1>4. ASSUME NEW r \in Requests, NEW s \in Sids, NewSession(r, s) PROVE LogoutInv'
  BY <1>4 DEF NewSession, With, Idle
<1>5. ASSUME NEW r \in Requests, NEW s \in DOMAIN sessions, Validate(r, s) PROVE LogoutInv'
  BY <1>5 DEF Validate, Slid
<1>6. ASSUME NEW r \in Requests, Refresh(r) PROVE LogoutInv'
  BY <1>6 DEF Refresh, UpdatedRow
<1>7. ASSUME NEW r \in Requests, Served(r) PROVE LogoutInv'
  BY <1>7 DEF Served, Idle
<1>8. ASSUME NEW r \in Requests, NEW k \in Keys, BeginPasskey(r, k) PROVE LogoutInv'
  BY <1>8 DEF BeginPasskey, With, Idle
<1>9. ASSUME NEW r \in Requests, NEW k \in Keys, FinishPasskeyLogin(r, k) PROVE LogoutInv'
  BY <1>9 DEF FinishPasskeyLogin, Take, Without, Restrict, Idle
<1>10. ASSUME NEW r \in Requests, NEW k \in Keys, FinishPasskeyRegistration(r, k) PROVE LogoutInv'
  BY <1>10 DEF FinishPasskeyRegistration, Take, Without, Restrict, Idle
<1>11. ASSUME NEW r \in Requests, Asserted(r) PROVE LogoutInv'
  BY <1>11 DEF Asserted, Idle
<1>12. ASSUME NEW r \in Requests, Attested(r) PROVE LogoutInv'
  BY <1>12 DEF Attested, Idle
<1>13. ASSUME NEW s \in DOMAIN lastUse, Logout(s) PROVE LogoutInv'
  BY <1>13 DEF Logout, Without, Restrict
<1>14. ASSUME NEW a \in Adders, AddBegin(a) PROVE LogoutInv'
  BY <1>14 DEF AddBegin
<1>15. ASSUME NEW a \in Adders, SaveRecoveryCode(a) PROVE LogoutInv'
  BY <1>15 DEF SaveRecoveryCode
<1>16. ASSUME NEW a \in Adders, SaveTOTP(a) PROVE LogoutInv'
  BY <1>16 DEF SaveTOTP, Ready
<1>17. ASSUME NEW a \in Adders, AddDies(a) PROVE LogoutInv'
  BY <1>17 DEF AddDies
<1>18. ASSUME Restart PROVE LogoutInv'
  BY <1>18 DEF Restart, Idle
<1>19. ASSUME Tick PROVE LogoutInv'
  BY <1>19 DEF Tick
<1> QED
  BY <1>1, <1>2, <1>3, <1>4, <1>5, <1>6, <1>7, <1>8, <1>9, <1>10, <1>11, <1>12, <1>13, <1>14,
     <1>15, <1>16, <1>17, <1>18, <1>19 DEF OperatorNext

\* A use moves lastUse before the refresh it starts reaches the table, and a
\* refresh overtaken by a later use writes an expiry that is only too early.
LEMMA ExpiryInvStep ==
    ASSUME OperatorInv, OperatorNext
    PROVE  ExpiryInv'
<1> USE OperatorAssumption DEF OperatorInv, TypeInv, ExpiryInv, Waiting, Moves, dbVars, ghostVars
<1>1. ASSUME NEW r \in Requests, NEW step \in StepsAround(clock), LoginTOTP(r, step)
      PROVE  ExpiryInv'
  BY <1>1 DEF LoginTOTP, StepsAround
<1>2. ASSUME NEW r \in Requests, SetTOTPStep(r) PROVE ExpiryInv'
  BY <1>2 DEF SetTOTPStep
<1>3. ASSUME NEW r \in Requests, NEW c \in codes, LoginRecovery(r, c) PROVE ExpiryInv'
  BY <1>3 DEF LoginRecovery, Spent
<1>4. ASSUME NEW r \in Requests, NEW s \in Sids, NewSession(r, s) PROVE ExpiryInv'
  BY <1>4 DEF NewSession, With, Idle
<1>5. ASSUME NEW r \in Requests, NEW s \in DOMAIN sessions, Validate(r, s) PROVE ExpiryInv'
  BY <1>5 DEF Validate, Slid
<1>6. ASSUME NEW r \in Requests, Refresh(r) PROVE ExpiryInv'
  BY <1>6 DEF Refresh, UpdatedRow
<1>7. ASSUME NEW r \in Requests, Served(r) PROVE ExpiryInv'
  BY <1>7 DEF Served, Idle
<1>8. ASSUME NEW r \in Requests, NEW k \in Keys, BeginPasskey(r, k) PROVE ExpiryInv'
  BY <1>8 DEF BeginPasskey, With, Idle
<1>9. ASSUME NEW r \in Requests, NEW k \in Keys, FinishPasskeyLogin(r, k) PROVE ExpiryInv'
  BY <1>9 DEF FinishPasskeyLogin, Take, Without, Restrict, Idle
<1>10. ASSUME NEW r \in Requests, NEW k \in Keys, FinishPasskeyRegistration(r, k) PROVE ExpiryInv'
  BY <1>10 DEF FinishPasskeyRegistration, Take, Without, Restrict, Idle
<1>11. ASSUME NEW r \in Requests, Asserted(r) PROVE ExpiryInv'
  BY <1>11 DEF Asserted, Idle
<1>12. ASSUME NEW r \in Requests, Attested(r) PROVE ExpiryInv'
  BY <1>12 DEF Attested, Idle
<1>13. ASSUME NEW s \in DOMAIN lastUse, Logout(s) PROVE ExpiryInv'
  BY <1>13 DEF Logout, Without, Restrict
<1>14. ASSUME NEW a \in Adders, AddBegin(a) PROVE ExpiryInv'
  BY <1>14 DEF AddBegin
<1>15. ASSUME NEW a \in Adders, SaveRecoveryCode(a) PROVE ExpiryInv'
  BY <1>15 DEF SaveRecoveryCode
<1>16. ASSUME NEW a \in Adders, SaveTOTP(a) PROVE ExpiryInv'
  BY <1>16 DEF SaveTOTP, Ready
<1>17. ASSUME NEW a \in Adders, AddDies(a) PROVE ExpiryInv'
  BY <1>17 DEF AddDies
<1>18. ASSUME Restart PROVE ExpiryInv'
  BY <1>18 DEF Restart, Idle
<1>19. ASSUME Tick PROVE ExpiryInv'
  BY <1>19 DEF Tick
<1> QED
  BY <1>1, <1>2, <1>3, <1>4, <1>5, <1>6, <1>7, <1>8, <1>9, <1>10, <1>11, <1>12, <1>13, <1>14,
     <1>15, <1>16, <1>17, <1>18, <1>19 DEF OperatorNext

\* DELETE and Take hand a credential to one request, and the request hands it to
\* one session.
LEMMA SourceInvStep ==
    ASSUME OperatorInv, OperatorNext
    PROVE  SourceInv'
<1> USE OperatorAssumption DEF OperatorInv, TypeInv, CodeInv, SourceInv, UsedUp, Taken, Waiting,
        Moves, dbVars, ghostVars
<1>1. ASSUME NEW r \in Requests, NEW step \in StepsAround(clock), LoginTOTP(r, step)
      PROVE  SourceInv'
  BY <1>1 DEF LoginTOTP, StepsAround
<1>2. ASSUME NEW r \in Requests, SetTOTPStep(r) PROVE SourceInv'
  BY <1>2 DEF SetTOTPStep
<1>3. ASSUME NEW r \in Requests, NEW c \in codes, LoginRecovery(r, c) PROVE SourceInv'
  BY <1>3 DEF LoginRecovery, Spent
<1>4. ASSUME NEW r \in Requests, NEW s \in Sids, NewSession(r, s) PROVE SourceInv'
  <2>1. DOMAIN source' = DOMAIN source \cup {s} /\ s \notin DOMAIN source
    BY <1>4 DEF NewSession, With
  <2>2. source'[s] = Taken(r) /\ \A t \in DOMAIN source : source'[t] = source[t]
    BY <1>4 DEF NewSession, With
  <2>3. Taken(r)' = {} /\ \A q \in Requests : q # r => Taken(q)' = Taken(q)
    BY <1>4 DEF NewSession, Idle
  <2>4. UsedUp' = UsedUp
    BY <1>4 DEF NewSession
  <2> HIDE DEF Taken, UsedUp
  <2>5. \A q \in Requests : Taken(q)' = {} \/ (q # r /\ Taken(q)' = Taken(q))
    BY <2>3
  <2>6. \A t \in DOMAIN source' : source'[t] = IF t = s THEN Taken(r) ELSE source[t]
    BY <2>1, <2>2
  <2> QED BY <2>1, <2>4, <2>5, <2>6
<1>5. ASSUME NEW r \in Requests, NEW s \in DOMAIN sessions, Validate(r, s) PROVE SourceInv'
  BY <1>5 DEF Validate, Slid
<1>6. ASSUME NEW r \in Requests, Refresh(r) PROVE SourceInv'
  BY <1>6 DEF Refresh, UpdatedRow
<1>7. ASSUME NEW r \in Requests, Served(r) PROVE SourceInv'
  BY <1>7 DEF Served, Idle
<1>8. ASSUME NEW r \in Requests, NEW k \in Keys, BeginPasskey(r, k) PROVE SourceInv'
  BY <1>8 DEF BeginPasskey, With, Idle
<1>9. ASSUME NEW r \in Requests, NEW k \in Keys, FinishPasskeyLogin(r, k) PROVE SourceInv'
  BY <1>9 DEF FinishPasskeyLogin, Take, Without, Restrict, Idle
<1>10. ASSUME NEW r \in Requests, NEW k \in Keys, FinishPasskeyRegistration(r, k) PROVE SourceInv'
  BY <1>10 DEF FinishPasskeyRegistration, Take, Without, Restrict, Idle
<1>11. ASSUME NEW r \in Requests, Asserted(r) PROVE SourceInv'
  BY <1>11 DEF Asserted, Idle
<1>12. ASSUME NEW r \in Requests, Attested(r) PROVE SourceInv'
  BY <1>12 DEF Attested, Idle
<1>13. ASSUME NEW s \in DOMAIN lastUse, Logout(s) PROVE SourceInv'
  BY <1>13 DEF Logout, Without, Restrict
<1>14. ASSUME NEW a \in Adders, AddBegin(a) PROVE SourceInv'
  BY <1>14 DEF AddBegin
<1>15. ASSUME NEW a \in Adders, SaveRecoveryCode(a) PROVE SourceInv'
  BY <1>15 DEF SaveRecoveryCode
<1>16. ASSUME NEW a \in Adders, SaveTOTP(a) PROVE SourceInv'
  BY <1>16 DEF SaveTOTP, Ready
<1>17. ASSUME NEW a \in Adders, AddDies(a) PROVE SourceInv'
  BY <1>17 DEF AddDies
<1>18. ASSUME Restart PROVE SourceInv'
  BY <1>18 DEF Restart, Idle
<1>19. ASSUME Tick PROVE SourceInv'
  BY <1>19 DEF Tick
<1> QED
  BY <1>1, <1>2, <1>3, <1>4, <1>5, <1>6, <1>7, <1>8, <1>9, <1>10, <1>11, <1>12, <1>13, <1>14,
     <1>15, <1>16, <1>17, <1>18, <1>19 DEF OperatorNext

\* `operator add` saves its codes in order, and the secret last.
LEMMA CodeInvStep ==
    ASSUME OperatorInv, OperatorNext
    PROVE  CodeInv'
<1> USE OperatorAssumption DEF OperatorInv, TypeInv, CodeInv, Waiting, Moves, dbVars, ghostVars
<1>1. ASSUME NEW r \in Requests, NEW step \in StepsAround(clock), LoginTOTP(r, step) PROVE CodeInv'
  BY <1>1 DEF LoginTOTP, StepsAround
<1>2. ASSUME NEW r \in Requests, SetTOTPStep(r) PROVE CodeInv'
  BY <1>2 DEF SetTOTPStep
<1>3. ASSUME NEW r \in Requests, NEW c \in codes, LoginRecovery(r, c) PROVE CodeInv'
  BY <1>3 DEF LoginRecovery, Spent
<1>4. ASSUME NEW r \in Requests, NEW s \in Sids, NewSession(r, s) PROVE CodeInv'
  BY <1>4 DEF NewSession, With, Idle
<1>5. ASSUME NEW r \in Requests, NEW s \in DOMAIN sessions, Validate(r, s) PROVE CodeInv'
  BY <1>5 DEF Validate, Slid
<1>6. ASSUME NEW r \in Requests, Refresh(r) PROVE CodeInv'
  BY <1>6 DEF Refresh, UpdatedRow
<1>7. ASSUME NEW r \in Requests, Served(r) PROVE CodeInv'
  BY <1>7 DEF Served, Idle
<1>8. ASSUME NEW r \in Requests, NEW k \in Keys, BeginPasskey(r, k) PROVE CodeInv'
  BY <1>8 DEF BeginPasskey, With, Idle
<1>9. ASSUME NEW r \in Requests, NEW k \in Keys, FinishPasskeyLogin(r, k) PROVE CodeInv'
  BY <1>9 DEF FinishPasskeyLogin, Take, Without, Restrict, Idle
<1>10. ASSUME NEW r \in Requests, NEW k \in Keys, FinishPasskeyRegistration(r, k) PROVE CodeInv'
  BY <1>10 DEF FinishPasskeyRegistration, Take, Without, Restrict, Idle
<1>11. ASSUME NEW r \in Requests, Asserted(r) PROVE CodeInv'
  BY <1>11 DEF Asserted, Idle
<1>12. ASSUME NEW r \in Requests, Attested(r) PROVE CodeInv'
  BY <1>12 DEF Attested, Idle
<1>13. ASSUME NEW s \in DOMAIN lastUse, Logout(s) PROVE CodeInv'
  BY <1>13 DEF Logout, Without, Restrict
<1>14. ASSUME NEW a \in Adders, AddBegin(a) PROVE CodeInv'
  BY <1>14 DEF AddBegin
<1>15. ASSUME NEW a \in Adders, SaveRecoveryCode(a) PROVE CodeInv'
  BY <1>15 DEF SaveRecoveryCode
<1>16. ASSUME NEW a \in Adders, SaveTOTP(a) PROVE CodeInv'
  BY <1>16 DEF SaveTOTP, Ready
<1>17. ASSUME NEW a \in Adders, AddDies(a) PROVE CodeInv'
  BY <1>17 DEF AddDies
<1>18. ASSUME Restart PROVE CodeInv'
  BY <1>18 DEF Restart, Idle
<1>19. ASSUME Tick PROVE CodeInv'
  BY <1>19 DEF Tick
<1> QED
  BY <1>1, <1>2, <1>3, <1>4, <1>5, <1>6, <1>7, <1>8, <1>9, <1>10, <1>11, <1>12, <1>13, <1>14,
     <1>15, <1>16, <1>17, <1>18, <1>19 DEF OperatorNext

-----------------------------------------------------------------------------
(* The operator: the theorems. *)

\* The inductive invariant holds for any requests, session ids, challenge keys
\* and runs of `operator add`, and any lifetimes (app/auth/usecase.go).
THEOREM OperatorInvariant == OperatorSpec => []OperatorInv
<1>1. OperatorInit => OperatorInv
  BY OperatorAssumption DEF OperatorInit, OperatorInv, TypeInv, LogoutInv, LogoutIsFinal, ExpiryInv,
     SourceInv, UsedUp, Taken, CodeInv, Waiting, Idle
<1>2. OperatorInv /\ [OperatorNext]_operatorVars => OperatorInv'
  <2>1. CASE UNCHANGED operatorVars
    BY <2>1 DEF operatorVars, OperatorInv, TypeInv, LogoutInv, LogoutIsFinal, ExpiryInv, SourceInv,
       UsedUp, Taken, CodeInv, Waiting
  <2> QED
    BY <2>1, TypeInvStep, LogoutInvStep, ExpiryInvStep, SourceInvStep, CodeInvStep DEF OperatorInv
<1> QED BY <1>1, <1>2, PTL DEF OperatorSpec

\* No request that read a session as live brings it back after its logout
\* (usecase.go:164-187).
THEOREM LogoutHolds == OperatorSpec => []LogoutIsFinal
<1>1. OperatorInv => LogoutIsFinal
  BY DEF OperatorInv, LogoutInv
<1> QED BY <1>1, OperatorInvariant, PTL

\* A session expires a lifetime after its last use at the latest, in whatever
\* order the refreshes of concurrent requests reach the table (usecase.go:173-177).
THEOREM IdlenessExpires == OperatorSpec => []IdleSessionExpires
<1>1. OperatorInv => IdleSessionExpires
  BY DEF OperatorInv, ExpiryInv, IdleSessionExpires
<1> QED BY <1>1, OperatorInvariant, PTL

\* Whether a webauthn row is stored is a truth value throughout.
LEMMA PasskeyBoolean == OperatorSpec => [](passkey \in BOOLEAN)
<1>1. OperatorInit => passkey \in BOOLEAN
  BY DEF OperatorInit
<1>2. passkey \in BOOLEAN /\ [OperatorNext]_operatorVars => (passkey \in BOOLEAN)'
  <2> SUFFICES ASSUME passkey \in BOOLEAN, [OperatorNext]_operatorVars PROVE passkey' \in BOOLEAN
    OBVIOUS
  <2>1. passkey' \in {TRUE, passkey}
    BY DEF OperatorNext, operatorVars, dbVars, LoginTOTP, SetTOTPStep, LoginRecovery, NewSession,
       Validate, Refresh, Served, BeginPasskey, FinishPasskeyLogin, FinishPasskeyRegistration, Take,
       Asserted, Attested, Logout, AddBegin, SaveRecoveryCode, SaveTOTP, AddDies, Restart, Tick
  <2> QED BY <2>1, Zenon
<1> QED BY <1>1, <1>2, PTL DEF OperatorSpec

\* A recovery code and a passkey challenge open one session each, and an operator
\* that exists has all its codes, spent or stored (operator_store.go:75,
\* challenge_store.go:38, usecase.go:100-105).
THEOREM CredentialsAreOneShot == OperatorSpec => []CodesAccountedFor
<1>1. OperatorInv /\ passkey \in BOOLEAN => CodesAccountedFor
  <2> SUFFICES ASSUME OperatorInv, passkey \in BOOLEAN PROVE CodesAccountedFor
    OBVIOUS
  <2>1. OperatorTypeOK
    BY DEF OperatorInv, TypeInv, OperatorTypeOK
  <2>2. \A a \in totp : CodesOf(a) \subseteq codes \cup spent
    BY OperatorAssumption DEF OperatorInv, TypeInv, CodeInv, CodesOf
  <2>3. \A s, t \in DOMAIN source : source[s] \cap source[t] # {} => s = t
    BY DEF OperatorInv, SourceInv
  <2> QED BY <2>1, <2>2, <2>3 DEF CodesAccountedFor
<1> QED BY <1>1, OperatorInvariant, PasskeyBoolean, PTL

-----------------------------------------------------------------------------
(* The fleet: the inductive invariant, in parts. *)

TrySteps  == {"idle", "consumed", "upserted", "saved", "answered", "named", "done", "failed"}
DialSteps == {"closed", "asked", "key", "hello", "online"}

\* FleetTypeOK, with the shape of the records.
FleetType ==
    /\ now \in 0..MaxNow /\ DOMAIN token \subseteq Tokens
    /\ DOMAIN row \subseteq Machines /\ DOMAIN cred \subseteq DOMAIN row
    /\ try \in [Tries -> [at : TrySteps, token : Tokens \cup {none}, id : Machines \cup {none}]]
    /\ files \in [id : Machines \cup {none}, key : Tries \cup {none}]
    /\ held \in [id : Machines \cup {none}, key : Tries \cup {none}]
    /\ DOMAIN dial = Dials
    /\ \A d \in Dials : /\ DOMAIN dial[d] = {"at", "id", "key", "ts", "saved", "late"}
                        /\ dial[d].at # "closed" => dial[d].id \in Machines

\* A token that an enrolment holds is used up.
TokenInv ==
    /\ \A k \in DOMAIN token : DOMAIN token[k] = {"expires", "used"}
    /\ \A t \in Tries : /\ At(t, "idle") => try[t].token = none
                        /\ try[t].token # none =>
                                 try[t].token \in DOMAIN token /\ token[try[t].token].used
    /\ \A t, u \in Tries : try[t].token = try[u].token /\ try[t].token # none => t = u

\* The ids that were ever given out, each to one enrolment.
Given == {try[t].id : t \in Tries} \ {none}
IdInv ==
    /\ \A t \in Tries : At(t, "idle") \/ At(t, "consumed") => try[t].id = none
    /\ \A t \in Tries : try[t].at \in {"upserted", "saved", "answered", "named", "done"} =>
             try[t].id # none
    /\ \A t, u \in Tries : try[t].id = try[u].id /\ try[t].id # none => t = u

\* The credential of an enrolment stays until its machine is deleted, and the
\* files are those of the last run that wrote them.
Credited(t) == try[t].id \in everDeleted \/ (try[t].id \in DOMAIN cred /\ cred[try[t].id] = t)
FileInv ==
    /\ \A t \in Tries : try[t].at \in {"saved", "answered", "named", "done"} => Credited(t)
    /\ \A t \in Tries : At(t, "named") => writer = t /\ files.id = try[t].id
    /\ \A t \in Tries : At(t, "done") /\ writer = t => files = [id |-> try[t].id, key |-> t]

\* An id the agent knows was given out, and no Save for it is still to come.
Settled(m) == \A t \in Tries : try[t].id = m => ~At(t, "upserted")
Known(m)   == m = none \/ (m \in Given /\ Settled(m))
KnownInv ==
    /\ Known(files.id) /\ Known(held.id)
    /\ \A d \in Dials : Known(dial[d].id)
    /\ \A t \in Tries : try[t].at \in {"answered", "named"} => Known(try[t].id)
    /\ DOMAIN row \subseteq Given /\ barred \subseteq Given /\ everDeleted \subseteq Given
    /\ deleting \subseteq Given

\* A machine that is barred has a revoked row, or was deleted and has no
\* credential left.
BarredInv ==
    /\ \A m \in barred : (m \in DOMAIN row /\ row[m]) \/ (m \in everDeleted /\ m \notin DOMAIN cred)
    /\ \A m \in everDeleted : Settled(m) \/ m \notin DOMAIN row

\* A late dial is of a barred machine; once its key was found, the row is there
\* and revoked, and it never gets further.
LateInv ==
    \A d \in Dials : dial[d].late =>
        /\ dial[d].id \in barred /\ dial[d].at \in {"asked", "key"}
        /\ dial[d].at = "key" => dial[d].id \in DOMAIN row /\ row[dial[d].id]

FleetInv == FleetType /\ TokenInv /\ IdInv /\ FileInv /\ KnownInv /\ BarredInv /\ LateInv

-----------------------------------------------------------------------------
(* One lemma per part, one step per action. *)

\* Register's Upsert makes sure of the row and clears no revocation.
LEMMA UpsertedKeeps ==
    ASSUME NEW m
    PROVE  /\ DOMAIN Upserted(m) = DOMAIN row \cup {m}
           /\ \A x \in DOMAIN row : row[x] => Upserted(m)[x]
<1>1. DOMAIN Upserted(m) = DOMAIN row \cup {m}
  BY DEF Upserted, Put
<1>2. ASSUME NEW x \in DOMAIN row, row[x] PROVE Upserted(m)[x]
  <2>1. Upserted(m)[x] = IF x = m THEN m \in DOMAIN row /\ row[m] ELSE row[x]
    BY DEF Upserted, Put
  <2>2. CASE x = m
    <3>1. Upserted(m)[x] = (m \in DOMAIN row /\ row[m])
       BY <2>1, <2>2
    <3>2. m \in DOMAIN row /\ row[m]
       BY <1>2, <2>2
    <3> QED BY <3>1, <3>2, Zenon
  <2>3. CASE x # m
    BY <1>2, <2>1, <2>3
  <2> QED BY <2>2, <2>3
<1> QED BY <1>1, <1>2, Zenon

\* The types and the shapes of the records are kept.
LEMMA FleetTypeStep ==
    ASSUME FleetInv, FleetNext
    PROVE  FleetType'
<1> USE FleetAssumption DEF FleetInv, FleetType, TrySteps, DialSteps, TokenInv, At, tableVars,
        adminVars, agentVars
<1>1. ASSUME NEW k \in Tokens, MintToken(k) PROVE FleetType'
  BY <1>1 DEF MintToken, Put
<1>2. ASSUME NEW t \in Tries, NEW k \in DOMAIN token, Consume(t, k) PROVE FleetType'
  BY <1>2 DEF Consume, Valid
<1>3. ASSUME NEW t \in Tries, NEW m \in Machines, Enrolled(t, m) PROVE FleetType'
  BY <1>3 DEF Enrolled, Put
<1>4. ASSUME NEW t \in Tries, SaveCredential(t) PROVE FleetType'
  BY <1>4 DEF SaveCredential, Put, Advance, HasMachine
<1>5. ASSUME NEW t \in Tries, Answer(t) PROVE FleetType'
  BY <1>5 DEF Answer, Reply, Advance
<1>6. ASSUME NEW t \in Tries, WriteId(t) PROVE FleetType'
  BY <1>6 DEF WriteId, Advance
<1>7. ASSUME NEW t \in Tries, WriteKey(t) PROVE FleetType'
  BY <1>7 DEF WriteKey, Advance
<1>8. ASSUME NEW t \in Tries, EnrollDies(t) PROVE FleetType'
  BY <1>8 DEF EnrollDies, Advance
<1>9. ASSUME Reset PROVE FleetType'
  BY <1>9 DEF Reset, NoFiles
<1>10. ASSUME Connect PROVE FleetType'
  BY <1>10 DEF Connect
<1>11. ASSUME NEW d \in Dials, Dial(d) PROVE FleetType'
  BY <1>11 DEF Dial, Closed
<1>12. ASSUME NEW d \in Dials, PublicKey(d) PROVE FleetType'
  BY <1>12 DEF PublicKey, Closed
<1>13. ASSUME NEW d \in Dials, Authenticate(d) PROVE FleetType'
  BY <1>13 DEF Authenticate, Closed, Admitted
<1>14. ASSUME NEW d \in Dials, Register(d) PROVE FleetType'
  BY <1>14 DEF Register, Upserted, Put
<1>15. ASSUME NEW d \in Dials, HangUp(d) PROVE FleetType'
  BY <1>15 DEF HangUp, Closed
<1>16. ASSUME NEW m \in Machines, Revoke(m) PROVE FleetType'
  BY <1>16 DEF Revoke
<1>17. ASSUME NEW m \in Machines, Unrevoke(m) PROVE FleetType'
  BY <1>17 DEF Unrevoke, Pardoned
<1>18. ASSUME NEW m \in Machines, DeleteChecks(m) PROVE FleetType'
  BY <1>18 DEF DeleteChecks
<1>19. ASSUME NEW m \in Machines, DeleteMachine(m) PROVE FleetType'
  BY <1>19 DEF DeleteMachine, Drop, Restrict, Pardoned
<1>20. ASSUME FleetTick PROVE FleetType'
  BY <1>20 DEF FleetTick
<1> QED
  BY <1>1, <1>2, <1>3, <1>4, <1>5, <1>6, <1>7, <1>8, <1>9, <1>10, <1>11, <1>12, <1>13, <1>14,
     <1>15, <1>16, <1>17, <1>18, <1>19, <1>20 DEF FleetNext

\* Consume takes a token that is unused, and marks it.
LEMMA TokenInvStep ==
    ASSUME FleetInv, FleetNext
    PROVE  TokenInv'
<1> USE FleetAssumption DEF FleetInv, FleetType, TrySteps, DialSteps, TokenInv, At, tableVars,
        adminVars, agentVars
<1>1. ASSUME NEW k \in Tokens, MintToken(k) PROVE TokenInv'
  BY <1>1 DEF MintToken, Put
<1>2. ASSUME NEW t \in Tries, NEW k \in DOMAIN token, Consume(t, k) PROVE TokenInv'
  BY <1>2 DEF Consume, Valid
<1>3. ASSUME NEW t \in Tries, NEW m \in Machines, Enrolled(t, m) PROVE TokenInv'
  BY <1>3 DEF Enrolled, Put
<1>4. ASSUME NEW t \in Tries, SaveCredential(t) PROVE TokenInv'
  BY <1>4 DEF SaveCredential, Put, Advance, HasMachine
<1>5. ASSUME NEW t \in Tries, Answer(t) PROVE TokenInv'
  BY <1>5 DEF Answer, Reply, Advance
<1>6. ASSUME NEW t \in Tries, WriteId(t) PROVE TokenInv'
  BY <1>6 DEF WriteId, Advance
<1>7. ASSUME NEW t \in Tries, WriteKey(t) PROVE TokenInv'
  BY <1>7 DEF WriteKey, Advance
<1>8. ASSUME NEW t \in Tries, EnrollDies(t) PROVE TokenInv'
  BY <1>8 DEF EnrollDies, Advance
<1>9. ASSUME Reset PROVE TokenInv'
  BY <1>9 DEF Reset, NoFiles
<1>10. ASSUME Connect PROVE TokenInv'
  BY <1>10 DEF Connect
<1>11. ASSUME NEW d \in Dials, Dial(d) PROVE TokenInv'
  BY <1>11 DEF Dial, Closed
<1>12. ASSUME NEW d \in Dials, PublicKey(d) PROVE TokenInv'
  BY <1>12 DEF PublicKey, Closed
<1>13. ASSUME NEW d \in Dials, Authenticate(d) PROVE TokenInv'
  BY <1>13 DEF Authenticate, Closed, Admitted
<1>14. ASSUME NEW d \in Dials, Register(d) PROVE TokenInv'
  BY <1>14 DEF Register, Upserted, Put
<1>15. ASSUME NEW d \in Dials, HangUp(d) PROVE TokenInv'
  BY <1>15 DEF HangUp, Closed
<1>16. ASSUME NEW m \in Machines, Revoke(m) PROVE TokenInv'
  BY <1>16 DEF Revoke
<1>17. ASSUME NEW m \in Machines, Unrevoke(m) PROVE TokenInv'
  BY <1>17 DEF Unrevoke, Pardoned
<1>18. ASSUME NEW m \in Machines, DeleteChecks(m) PROVE TokenInv'
  BY <1>18 DEF DeleteChecks
<1>19. ASSUME NEW m \in Machines, DeleteMachine(m) PROVE TokenInv'
  BY <1>19 DEF DeleteMachine, Drop, Restrict, Pardoned
<1>20. ASSUME FleetTick PROVE TokenInv'
  BY <1>20 DEF FleetTick
<1> QED
  BY <1>1, <1>2, <1>3, <1>4, <1>5, <1>6, <1>7, <1>8, <1>9, <1>10, <1>11, <1>12, <1>13, <1>14,
     <1>15, <1>16, <1>17, <1>18, <1>19, <1>20 DEF FleetNext

\* newID returns an id that no enrolment has.
LEMMA IdInvStep ==
    ASSUME FleetInv, FleetNext
    PROVE  IdInv'
<1> USE FleetAssumption DEF FleetInv, FleetType, TrySteps, DialSteps, TokenInv, IdInv, At,
        tableVars, adminVars, agentVars
<1>1. ASSUME NEW k \in Tokens, MintToken(k) PROVE IdInv'
  BY <1>1 DEF MintToken, Put
<1>2. ASSUME NEW t \in Tries, NEW k \in DOMAIN token, Consume(t, k) PROVE IdInv'
  BY <1>2 DEF Consume, Valid
<1>3. ASSUME NEW t \in Tries, NEW m \in Machines, Enrolled(t, m) PROVE IdInv'
  BY <1>3 DEF Enrolled, Put
<1>4. ASSUME NEW t \in Tries, SaveCredential(t) PROVE IdInv'
  BY <1>4, SMTT(30) DEF SaveCredential, Put, Advance, HasMachine
<1>5. ASSUME NEW t \in Tries, Answer(t) PROVE IdInv'
  BY <1>5 DEF Answer, Reply, Advance
<1>6. ASSUME NEW t \in Tries, WriteId(t) PROVE IdInv'
  BY <1>6 DEF WriteId, Advance
<1>7. ASSUME NEW t \in Tries, WriteKey(t) PROVE IdInv'
  BY <1>7 DEF WriteKey, Advance
<1>8. ASSUME NEW t \in Tries, EnrollDies(t) PROVE IdInv'
  BY <1>8 DEF EnrollDies, Advance
<1>9. ASSUME Reset PROVE IdInv'
  BY <1>9 DEF Reset, NoFiles
<1>10. ASSUME Connect PROVE IdInv'
  BY <1>10 DEF Connect
<1>11. ASSUME NEW d \in Dials, Dial(d) PROVE IdInv'
  BY <1>11 DEF Dial, Closed
<1>12. ASSUME NEW d \in Dials, PublicKey(d) PROVE IdInv'
  BY <1>12 DEF PublicKey, Closed
<1>13. ASSUME NEW d \in Dials, Authenticate(d) PROVE IdInv'
  BY <1>13 DEF Authenticate, Closed, Admitted
<1>14. ASSUME NEW d \in Dials, Register(d) PROVE IdInv'
  BY <1>14 DEF Register, Upserted, Put
<1>15. ASSUME NEW d \in Dials, HangUp(d) PROVE IdInv'
  BY <1>15 DEF HangUp, Closed
<1>16. ASSUME NEW m \in Machines, Revoke(m) PROVE IdInv'
  BY <1>16 DEF Revoke
<1>17. ASSUME NEW m \in Machines, Unrevoke(m) PROVE IdInv'
  BY <1>17 DEF Unrevoke, Pardoned
<1>18. ASSUME NEW m \in Machines, DeleteChecks(m) PROVE IdInv'
  BY <1>18 DEF DeleteChecks
<1>19. ASSUME NEW m \in Machines, DeleteMachine(m) PROVE IdInv'
  BY <1>19 DEF DeleteMachine, Drop, Restrict, Pardoned
<1>20. ASSUME FleetTick PROVE IdInv'
  BY <1>20 DEF FleetTick
<1> QED
  BY <1>1, <1>2, <1>3, <1>4, <1>5, <1>6, <1>7, <1>8, <1>9, <1>10, <1>11, <1>12, <1>13, <1>14,
     <1>15, <1>16, <1>17, <1>18, <1>19, <1>20 DEF FleetNext

\* A credential is dropped by a deletion only, and one run at a time is between
\* its two files.
LEMMA FileInvStep ==
    ASSUME FleetInv, FleetNext
    PROVE  FileInv'
<1> USE FleetAssumption DEF FleetInv, FleetType, TrySteps, DialSteps, TokenInv, IdInv, FileInv,
        Credited, At, tableVars, adminVars, agentVars
<1>1. ASSUME NEW k \in Tokens, MintToken(k) PROVE FileInv'
  BY <1>1 DEF MintToken, Put
<1>2. ASSUME NEW t \in Tries, NEW k \in DOMAIN token, Consume(t, k) PROVE FileInv'
  BY <1>2 DEF Consume, Valid
<1>3. ASSUME NEW t \in Tries, NEW m \in Machines, Enrolled(t, m) PROVE FileInv'
  BY <1>3 DEF Enrolled, Put
<1>4. ASSUME NEW t \in Tries, SaveCredential(t) PROVE FileInv'
  <2>1. \A u \in Tries : u # t => try'[u] = try[u]
    BY <1>4 DEF SaveCredential, Advance
  <2>2. try'[t].id = try[t].id /\ try[t].id # none
    BY <1>4 DEF SaveCredential, Advance
  <2>3. CASE HasMachine(try[t].id) /\ cred' = Put(cred, try[t].id, t) /\ Advance(t, "saved")
    BY <1>4, <2>1, <2>2, <2>3 DEF SaveCredential, Put, Advance
  <2>4. CASE ~HasMachine(try[t].id) /\ Advance(t, "failed") /\ UNCHANGED cred
    BY <1>4, <2>1, <2>2, <2>4 DEF SaveCredential, Advance
  <2> QED BY <1>4, <2>3, <2>4 DEF SaveCredential
<1>5. ASSUME NEW t \in Tries, Answer(t) PROVE FileInv'
  BY <1>5 DEF Answer, Reply, Advance
<1>6. ASSUME NEW t \in Tries, WriteId(t) PROVE FileInv'
  BY <1>6 DEF WriteId, Advance
<1>7. ASSUME NEW t \in Tries, WriteKey(t) PROVE FileInv'
  BY <1>7 DEF WriteKey, Advance
<1>8. ASSUME NEW t \in Tries, EnrollDies(t) PROVE FileInv'
  BY <1>8 DEF EnrollDies, Advance
<1>9. ASSUME Reset PROVE FileInv'
  BY <1>9 DEF Reset, NoFiles
<1>10. ASSUME Connect PROVE FileInv'
  BY <1>10 DEF Connect
<1>11. ASSUME NEW d \in Dials, Dial(d) PROVE FileInv'
  BY <1>11 DEF Dial, Closed
<1>12. ASSUME NEW d \in Dials, PublicKey(d) PROVE FileInv'
  BY <1>12 DEF PublicKey, Closed
<1>13. ASSUME NEW d \in Dials, Authenticate(d) PROVE FileInv'
  BY <1>13 DEF Authenticate, Closed, Admitted
<1>14. ASSUME NEW d \in Dials, Register(d) PROVE FileInv'
  BY <1>14 DEF Register, Upserted, Put
<1>15. ASSUME NEW d \in Dials, HangUp(d) PROVE FileInv'
  BY <1>15 DEF HangUp, Closed
<1>16. ASSUME NEW m \in Machines, Revoke(m) PROVE FileInv'
  BY <1>16 DEF Revoke
<1>17. ASSUME NEW m \in Machines, Unrevoke(m) PROVE FileInv'
  BY <1>17 DEF Unrevoke, Pardoned
<1>18. ASSUME NEW m \in Machines, DeleteChecks(m) PROVE FileInv'
  BY <1>18 DEF DeleteChecks
<1>19. ASSUME NEW m \in Machines, DeleteMachine(m) PROVE FileInv'
  BY <1>19 DEF DeleteMachine, Drop, Restrict, Pardoned
<1>20. ASSUME FleetTick PROVE FileInv'
  BY <1>20 DEF FleetTick
<1> QED
  BY <1>1, <1>2, <1>3, <1>4, <1>5, <1>6, <1>7, <1>8, <1>9, <1>10, <1>11, <1>12, <1>13, <1>14,
     <1>15, <1>16, <1>17, <1>18, <1>19, <1>20 DEF FleetNext

\* The agent learns of an id from an answer, and the answer follows the Save.
LEMMA KnownInvStep ==
    ASSUME FleetInv, FleetNext
    PROVE  KnownInv'
<1> USE FleetAssumption DEF FleetInv, FleetType, TrySteps, DialSteps, TokenInv, IdInv, FileInv,
        Credited, KnownInv, Known, Given, Settled, At, tableVars, adminVars, agentVars
<1>1. ASSUME NEW k \in Tokens, MintToken(k) PROVE KnownInv'
  BY <1>1 DEF MintToken, Put
<1>2. ASSUME NEW t \in Tries, NEW k \in DOMAIN token, Consume(t, k) PROVE KnownInv'
  BY <1>2 DEF Consume, Valid
<1>3. ASSUME NEW t \in Tries, NEW m \in Machines, Enrolled(t, m) PROVE KnownInv'
  BY <1>3 DEF Enrolled, Put
<1>4. ASSUME NEW t \in Tries, SaveCredential(t) PROVE KnownInv'
  <2>1. \A u \in Tries : try'[u].id = try[u].id
    BY <1>4 DEF SaveCredential, Advance
  <2>2. \A u \in Tries : /\ try'[u].at \in {"upserted", "answered", "named"} =>
                             u # t /\ try'[u].at = try[u].at
    BY <1>4 DEF SaveCredential, Advance
  <2>3. files' = files /\ held' = held /\ dial' = dial
    BY <1>4 DEF SaveCredential
  <2>4. Known(files.id)' /\ Known(held.id)'
    BY <2>1, <2>2, <2>3
  <2>5. \A d \in Dials : Known(dial[d].id)'
    BY <2>1, <2>2, <2>3
  <2>6. \A u \in Tries : try'[u].at \in {"answered", "named"} => Known(try[u].id)'
    BY <2>1, <2>2
  <2>7. Given' = Given
    BY <2>1
  <2> QED BY <1>4, <2>4, <2>5, <2>6, <2>7 DEF SaveCredential
<1>5. ASSUME NEW t \in Tries, Answer(t) PROVE KnownInv'
  BY <1>5 DEF Answer, Reply, Advance
<1>6. ASSUME NEW t \in Tries, WriteId(t) PROVE KnownInv'
  BY <1>6 DEF WriteId, Advance
<1>7. ASSUME NEW t \in Tries, WriteKey(t) PROVE KnownInv'
  BY <1>7 DEF WriteKey, Advance
<1>8. ASSUME NEW t \in Tries, EnrollDies(t) PROVE KnownInv'
  BY <1>8 DEF EnrollDies, Advance
<1>9. ASSUME Reset PROVE KnownInv'
  BY <1>9 DEF Reset, NoFiles
<1>10. ASSUME Connect PROVE KnownInv'
  BY <1>10 DEF Connect
<1>11. ASSUME NEW d \in Dials, Dial(d) PROVE KnownInv'
  BY <1>11 DEF Dial, Closed
<1>12. ASSUME NEW d \in Dials, PublicKey(d) PROVE KnownInv'
  BY <1>12 DEF PublicKey, Closed
<1>13. ASSUME NEW d \in Dials, Authenticate(d) PROVE KnownInv'
  BY <1>13 DEF Authenticate, Closed, Admitted
<1>14. ASSUME NEW d \in Dials, Register(d) PROVE KnownInv'
  BY <1>14 DEF Register, Upserted, Put
<1>15. ASSUME NEW d \in Dials, HangUp(d) PROVE KnownInv'
  BY <1>15 DEF HangUp, Closed
<1>16. ASSUME NEW m \in Machines, Revoke(m) PROVE KnownInv'
  BY <1>16 DEF Revoke
<1>17. ASSUME NEW m \in Machines, Unrevoke(m) PROVE KnownInv'
  BY <1>17 DEF Unrevoke, Pardoned
<1>18. ASSUME NEW m \in Machines, DeleteChecks(m) PROVE KnownInv'
  BY <1>18 DEF DeleteChecks
<1>19. ASSUME NEW m \in Machines, DeleteMachine(m) PROVE KnownInv'
  BY <1>19 DEF DeleteMachine, Drop, Restrict, Pardoned
<1>20. ASSUME FleetTick PROVE KnownInv'
  BY <1>20 DEF FleetTick
<1> QED
  BY <1>1, <1>2, <1>3, <1>4, <1>5, <1>6, <1>7, <1>8, <1>9, <1>10, <1>11, <1>12, <1>13, <1>14,
     <1>15, <1>16, <1>17, <1>18, <1>19, <1>20 DEF FleetNext

\* A row brought back by Register is of a machine whose credential is gone for
\* good: no Save for it is to come.
LEMMA BarredInvStep ==
    ASSUME FleetInv, FleetNext
    PROVE  BarredInv'
<1> USE FleetAssumption DEF FleetInv, FleetType, TrySteps, DialSteps, TokenInv, IdInv, FileInv,
        Credited, KnownInv, Known, Given, Settled, BarredInv, At, tableVars, adminVars, agentVars
<1>1. ASSUME NEW k \in Tokens, MintToken(k) PROVE BarredInv'
  BY <1>1 DEF MintToken, Put
<1>2. ASSUME NEW t \in Tries, NEW k \in DOMAIN token, Consume(t, k) PROVE BarredInv'
  BY <1>2 DEF Consume, Valid
<1>3. ASSUME NEW t \in Tries, NEW m \in Machines, Enrolled(t, m) PROVE BarredInv'
  BY <1>3 DEF Enrolled, Put
<1>4. ASSUME NEW t \in Tries, SaveCredential(t) PROVE BarredInv'
  BY <1>4 DEF SaveCredential, Put, Advance, HasMachine
<1>5. ASSUME NEW t \in Tries, Answer(t) PROVE BarredInv'
  BY <1>5 DEF Answer, Reply, Advance
<1>6. ASSUME NEW t \in Tries, WriteId(t) PROVE BarredInv'
  BY <1>6 DEF WriteId, Advance
<1>7. ASSUME NEW t \in Tries, WriteKey(t) PROVE BarredInv'
  BY <1>7 DEF WriteKey, Advance
<1>8. ASSUME NEW t \in Tries, EnrollDies(t) PROVE BarredInv'
  BY <1>8 DEF EnrollDies, Advance
<1>9. ASSUME Reset PROVE BarredInv'
  BY <1>9 DEF Reset, NoFiles
<1>10. ASSUME Connect PROVE BarredInv'
  BY <1>10 DEF Connect
<1>11. ASSUME NEW d \in Dials, Dial(d) PROVE BarredInv'
  BY <1>11 DEF Dial, Closed
<1>12. ASSUME NEW d \in Dials, PublicKey(d) PROVE BarredInv'
  BY <1>12 DEF PublicKey, Closed
<1>13. ASSUME NEW d \in Dials, Authenticate(d) PROVE BarredInv'
  BY <1>13 DEF Authenticate, Closed, Admitted
<1>14. ASSUME NEW d \in Dials, Register(d) PROVE BarredInv'
  <2> DEFINE m == dial[d].id
  <2>1. m \in Machines /\ Known(m) /\ row' = Upserted(m)
    BY <1>14 DEF Register
  <2>2. DOMAIN row' = DOMAIN row \cup {m} /\ \A x \in DOMAIN row : row[x] => row'[x]
    BY <2>1, UpsertedKeeps, Zenon
  <2> QED BY <1>14, <2>1, <2>2 DEF Register
<1>15. ASSUME NEW d \in Dials, HangUp(d) PROVE BarredInv'
  BY <1>15 DEF HangUp, Closed
<1>16. ASSUME NEW m \in Machines, Revoke(m) PROVE BarredInv'
  BY <1>16 DEF Revoke
<1>17. ASSUME NEW m \in Machines, Unrevoke(m) PROVE BarredInv'
  BY <1>17 DEF Unrevoke, Pardoned
<1>18. ASSUME NEW m \in Machines, DeleteChecks(m) PROVE BarredInv'
  BY <1>18 DEF DeleteChecks
<1>19. ASSUME NEW m \in Machines, DeleteMachine(m) PROVE BarredInv'
  BY <1>19 DEF DeleteMachine, Drop, Restrict, Pardoned
<1>20. ASSUME FleetTick PROVE BarredInv'
  BY <1>20 DEF FleetTick
<1> QED
  BY <1>1, <1>2, <1>3, <1>4, <1>5, <1>6, <1>7, <1>8, <1>9, <1>10, <1>11, <1>12, <1>13, <1>14,
     <1>15, <1>16, <1>17, <1>18, <1>19, <1>20 DEF FleetNext

\* Between the key and the machine of one dial the row of a barred machine is
\* either still revoked or was deleted, which pardons the dial.
LEMMA LateInvStep ==
    ASSUME FleetInv, FleetNext
    PROVE  LateInv'
<1> USE FleetAssumption DEF FleetInv, FleetType, TrySteps, DialSteps, TokenInv, KnownInv, Known,
        Given, Settled, BarredInv, LateInv, At, tableVars, adminVars, agentVars
<1>1. ASSUME NEW k \in Tokens, MintToken(k) PROVE LateInv'
  BY <1>1 DEF MintToken, Put
<1>2. ASSUME NEW t \in Tries, NEW k \in DOMAIN token, Consume(t, k) PROVE LateInv'
  BY <1>2 DEF Consume, Valid
<1>3. ASSUME NEW t \in Tries, NEW m \in Machines, Enrolled(t, m) PROVE LateInv'
  BY <1>3 DEF Enrolled, Put
<1>4. ASSUME NEW t \in Tries, SaveCredential(t) PROVE LateInv'
  BY <1>4 DEF SaveCredential, Put, Advance, HasMachine
<1>5. ASSUME NEW t \in Tries, Answer(t) PROVE LateInv'
  BY <1>5 DEF Answer, Reply, Advance
<1>6. ASSUME NEW t \in Tries, WriteId(t) PROVE LateInv'
  BY <1>6 DEF WriteId, Advance
<1>7. ASSUME NEW t \in Tries, WriteKey(t) PROVE LateInv'
  BY <1>7 DEF WriteKey, Advance
<1>8. ASSUME NEW t \in Tries, EnrollDies(t) PROVE LateInv'
  BY <1>8 DEF EnrollDies, Advance
<1>9. ASSUME Reset PROVE LateInv'
  BY <1>9 DEF Reset, NoFiles
<1>10. ASSUME Connect PROVE LateInv'
  BY <1>10 DEF Connect
<1>11. ASSUME NEW d \in Dials, Dial(d) PROVE LateInv'
  BY <1>11 DEF Dial, Closed
<1>12. ASSUME NEW d \in Dials, PublicKey(d) PROVE LateInv'
  BY <1>12 DEF PublicKey, Closed
<1>13. ASSUME NEW d \in Dials, Authenticate(d) PROVE LateInv'
  BY <1>13 DEF Authenticate, Closed, Admitted
<1>14. ASSUME NEW d \in Dials, Register(d) PROVE LateInv'
  <2> DEFINE m == dial[d].id
  <2>1. m \in Machines /\ Known(m) /\ row' = Upserted(m)
    BY <1>14 DEF Register
  <2>2. DOMAIN row' = DOMAIN row \cup {m} /\ \A x \in DOMAIN row : row[x] => row'[x]
    BY <2>1, UpsertedKeeps, Zenon
  <2> QED BY <1>14, <2>1, <2>2 DEF Register
<1>15. ASSUME NEW d \in Dials, HangUp(d) PROVE LateInv'
  BY <1>15 DEF HangUp, Closed
<1>16. ASSUME NEW m \in Machines, Revoke(m) PROVE LateInv'
  BY <1>16 DEF Revoke
<1>17. ASSUME NEW m \in Machines, Unrevoke(m) PROVE LateInv'
  BY <1>17 DEF Unrevoke, Pardoned
<1>18. ASSUME NEW m \in Machines, DeleteChecks(m) PROVE LateInv'
  BY <1>18 DEF DeleteChecks
<1>19. ASSUME NEW m \in Machines, DeleteMachine(m) PROVE LateInv'
  BY <1>19 DEF DeleteMachine, Drop, Restrict, Pardoned
<1>20. ASSUME FleetTick PROVE LateInv'
  BY <1>20 DEF FleetTick
<1> QED
  BY <1>1, <1>2, <1>3, <1>4, <1>5, <1>6, <1>7, <1>8, <1>9, <1>10, <1>11, <1>12, <1>13, <1>14,
     <1>15, <1>16, <1>17, <1>18, <1>19, <1>20 DEF FleetNext

-----------------------------------------------------------------------------
(* The fleet: the theorems. *)

\* The inductive invariant holds for any tokens, enrolments, machines and dials,
\* whichever statements of the enrolments, dials and operator actions interleave
\* (app/enroll/usecase.go).
THEOREM FleetInvariant == FleetSpec => []FleetInv
<1>1. FleetInit => FleetInv
  BY FleetAssumption DEF FleetInit, FleetInv, FleetType, TokenInv, IdInv, FileInv, Credited,
     KnownInv,
     Known, Given, Settled, BarredInv, LateInv, TrySteps, Started, Closed, NoFiles, At
<1>2. FleetInv /\ [FleetNext]_fleetVars => FleetInv'
  <2>1. CASE UNCHANGED fleetVars
    BY <2>1 DEF fleetVars, FleetInv, FleetType, TokenInv, IdInv, FileInv, Credited, KnownInv, Known,
       Given, Settled, BarredInv, LateInv, At
  <2> QED
    BY <2>1, FleetTypeStep, TokenInvStep, IdInvStep, FileInvStep, KnownInvStep, BarredInvStep,
       LateInvStep DEF FleetInv
<1> QED BY <1>1, <1>2, PTL DEF FleetSpec

\* However many runs of `enroll` present a token at once, one of them gets it
\* (enroll_token_store.go:35).
THEOREM TokenEnrolsOnce == FleetSpec => []TokenOnce
<1>1. FleetInv => TokenOnce
  BY DEF FleetInv, FleetType, TokenInv, TokenOnce, FleetTypeOK
<1> QED BY <1>1, FleetInvariant, PTL

\* A machine that was barred before it dialled is not let in by that dial, unless
\* it was pardoned under way (usecase.go:115-181).
THEOREM RevocationHolds == FleetSpec => []RevokedStaysOut
<1>1. FleetInv => RevokedStaysOut
  BY DEF FleetInv, LateInv, RevokedStaysOut
<1> QED BY <1>1, FleetInvariant, PTL

\* What a successful `enroll` left on the agent's disk is a pair the hub accepts,
\* until the machine is deleted or the files are written anew (main.go:588-602).
THEOREM EnrolmentSuffices == FleetSpec => []EnrolledCanDial
<1>1. FleetInv => EnrolledCanDial
  BY DEF FleetInv, FileInv, Credited, EnrolledCanDial, At
<1> QED BY <1>1, FleetInvariant, PTL
=============================================================================
