--------------------------- MODULE OverviewProofs ---------------------------
(***************************************************************************)
(* Proofs about Overview, for any number of viewers, machines, sessions    *)
(* and connections: the gate follows the count of viewers, and the count   *)
(* never exceeds the subscribers that are left; one goroutine at a time    *)
(* tells the agents; whoever is there is given what the hub holds; and as  *)
(* long as nobody leaves and nothing is stored late, no screen gets stuck  *)
(* between the shell and a viewer.                                         *)
(***************************************************************************)
EXTENDS Overview, FiniteSetTheorems, TLAPS

\* The viewers a fan-out deals with are viewers.
FanType ==
    /\ DOMAIN fan = Conns
    /\ \A c \in Conns : fan[c].left \subseteq Viewers /\ fan[c].failed \subseteq Viewers

\* A subscriber is a viewer whose socket was accepted.
CountType ==
    /\ DOMAIN pc = Procs /\ DOMAIN web = Viewers
    /\ subs \subseteq Viewers /\ viewers \in Nat
    /\ \A v \in subs : web[v] # "new"

\* Whoever removes a subscriber counts it out at least once.
NeverTooMany == viewers <= Cardinality(subs)

CountInv == FanType /\ CountType /\ NeverTooMany /\ GateFollowsViewers

\* A step of a goroutine that is not about to apply the gate, and that leaves
\* the use case alone.
LEMMA Bystander ==
    ASSUME CountInv, FanType', DOMAIN pc' = Procs,
           \A g \in Procs : pc[g] = "gate" => pc'[g] = "gate",
           UNCHANGED <<subs, viewers, lastEnabled, web>>
    PROVE  CountInv'
<1>1. CountType' /\ NeverTooMany'
  BY DEF CountInv, CountType, NeverTooMany
<1>2. GateFollowsViewers'
  BY DEF CountInv, GateFollowsViewers
<1> QED BY <1>1, <1>2 DEF CountInv

\* A step of the machines, the connections or the network.
LEMMA Elsewhere ==
    ASSUME CountInv, UNCHANGED <<subs, viewers, lastEnabled, web, pc, fan>>
    PROVE  CountInv'
<1>1. FanType' /\ DOMAIN pc' = Procs
  BY DEF CountInv, FanType, CountType
<1> QED BY <1>1, Bystander

\* A step that changes the count goes on to the gate.
LEMMA Recount ==
    ASSUME CountInv, FanType', NEW g \in Procs, pc' = [pc EXCEPT ![g] = "gate"],
           subs' \subseteq Viewers, viewers' \in Nat, viewers' <= Cardinality(subs'),
           DOMAIN web' = Viewers, \A v \in subs' : web'[v] # "new"
    PROVE  CountInv'
<1>1. DOMAIN pc' = Procs /\ pc'[g] = "gate"
  BY DEF CountInv, CountType
<1>2. GateFollowsViewers'
  BY <1>1 DEF GateFollowsViewers
<1> QED BY <1>1, <1>2 DEF CountInv, CountType, NeverTooMany

\* Removing the viewers x from the subscribers and counting them out.
LEMMA FewerBounds ==
    ASSUME CountInv, NEW x \in SUBSET Viewers
    PROVE  /\ Fewer(Cardinality(x)) \in Nat
           /\ Fewer(Cardinality(x)) <= Cardinality(subs \ x)
<1>1. IsFiniteSet(Viewers)
  BY OverviewAssumption
<1>2. IsFiniteSet(subs) /\ IsFiniteSet(x)
  BY <1>1, FS_Subset DEF CountInv, CountType
<1>3. Cardinality(subs \ x) = Cardinality(subs) - Cardinality(subs \cap x)
      /\ IsFiniteSet(subs \ x)
  BY <1>2, FS_Difference
<1>4. subs \cap x \subseteq x
  OBVIOUS
<1>5. Cardinality(subs \cap x) <= Cardinality(x)
  BY <1>2, <1>4, FS_Subset
<1>6. Cardinality(subs) \in Nat /\ Cardinality(x) \in Nat /\ Cardinality(subs \ x) \in Nat
      /\ Cardinality(subs \cap x) \in Nat
  BY <1>2, <1>3, <1>4, FS_CardinalityType, FS_Subset
<1>7. viewers \in Nat /\ viewers <= Cardinality(subs)
  BY DEF CountInv, CountType, NeverTooMany
<1> QED BY <1>3, <1>5, <1>6, <1>7 DEF Fewer

\* One viewer counted out.
LEMMA FewerByOne ==
    ASSUME CountInv, NEW v \in Viewers
    PROVE  Fewer(1) \in Nat /\ Fewer(1) <= Cardinality(subs \ {v})
<1>1. Cardinality({v}) = 1
  BY FS_Singleton
<1> QED BY <1>1, FewerBounds

\* The initial states.
LEMMA CountInit == Init => CountInv
<1> SUFFICES ASSUME Init PROVE CountInv
  OBVIOUS
<1>1. FanType
  BY DEF Init, FanType, NoFan
<1>2. CountType
  BY DEF Init, CountType
<1>3. NeverTooMany
  BY FS_EmptySet DEF Init, NeverTooMany
<1>4. GateFollowsViewers
  BY DEF Init, GateFollowsViewers
<1> QED BY <1>1, <1>2, <1>3, <1>4 DEF CountInv

\* applyGate: entering it settles the decision for the count of that moment.
LEMMA GateKeeps ==
    ASSUME CountInv, NEW g \in Procs, Gate(g)
    PROVE  CountInv'
<1>1. CASE GateEnter(g)
  <2>1. UNCHANGED <<subs, viewers, fan, web>> /\ lastEnabled' = (viewers > 0)
    BY <1>1 DEF GateEnter, viewVars
  <2>2. DOMAIN pc' = Procs
    BY <1>1 DEF GateEnter, CountInv, CountType
  <2>3. FanType' /\ CountType' /\ NeverTooMany'
    BY <2>1, <2>2 DEF CountInv, FanType, CountType, NeverTooMany
  <2>4. GateFollowsViewers'
    BY <2>1 DEF GateFollowsViewers
  <2> QED BY <2>3, <2>4 DEF CountInv
<1>2. CASE GateList(g) \/ \E m \in Machines : GateTell(g, m)
  <2>1. UNCHANGED <<subs, viewers, lastEnabled, fan, web>>
        /\ pc[g] # "gate" /\ \E x : pc' = [pc EXCEPT ![g] = x]
    BY <1>2 DEF GateList, GateTell, Telling, hubVars, viewVars
  <2>2. FanType' /\ DOMAIN pc' = Procs
        /\ \A h \in Procs : pc[h] = "gate" => pc'[h] = "gate"
    BY <2>1 DEF CountInv, FanType, CountType
  <2> QED BY <2>1, <2>2, Bystander
<1> QED BY <1>1, <1>2 DEF Gate

\* A viewer subscribes, is replayed to, leaves.
LEMMA ViewerKeeps ==
    ASSUME CountInv, NEW v \in Viewers, Subscribe(v) \/ Viewer(v) \/ Leave(v)
    PROVE  CountInv'
<1> v \in Procs
  BY DEF Procs
<1>1. CASE Subscribe(v)
  <2>1. /\ UNCHANGED fan /\ pc' = [pc EXCEPT ![v] = "gate"]
        /\ subs' = subs \cup {v} /\ viewers' = viewers + 1
        /\ web[v] = "new" /\ web' = [web EXCEPT ![v] = "open"]
    BY <1>1 DEF Subscribe, GateNext
  <2>2. FanType'
    BY <2>1 DEF CountInv, FanType
  <2>3. v \notin subs
    BY <2>1 DEF CountInv, CountType
  <2>4. IsFiniteSet(subs)
    BY OverviewAssumption, FS_Subset DEF CountInv, CountType
  <2>5. Cardinality(subs) \in Nat /\ Cardinality(subs \cup {v}) = Cardinality(subs) + 1
    BY <2>3, <2>4, FS_CardinalityType, FS_AddElement
  <2>6. viewers' \in Nat /\ viewers' <= Cardinality(subs')
    BY <2>1, <2>5 DEF CountInv, CountType, NeverTooMany
  <2>7. DOMAIN web' = Viewers /\ subs' \subseteq Viewers /\ \A w \in subs' : web'[w] # "new"
    BY <2>1 DEF CountInv, CountType
  <2> QED BY <2>1, <2>2, <2>6, <2>7, Recount
<1>2. CASE ReplayFails(v) \/ (Unsubscribe(v) /\ v \in subs)
  <2>1. /\ UNCHANGED <<fan, web>> /\ pc' = [pc EXCEPT ![v] = "gate"]
        /\ subs' = subs \ {v} /\ viewers' = Fewer(1)
    BY <1>2 DEF ReplayFails, Unsubscribe, GateNext, viewVars
  <2>2. FanType'
    BY <2>1 DEF CountInv, FanType
  <2>3. viewers' \in Nat /\ viewers' <= Cardinality(subs')
    BY <2>1, FewerByOne
  <2>4. DOMAIN web' = Viewers /\ subs' \subseteq Viewers /\ \A w \in subs' : web'[w] # "new"
    BY <2>1 DEF CountInv, CountType
  <2> QED BY <2>1, <2>2, <2>3, <2>4, Recount
<1>3. CASE (\E snap \in replay[v] : Replay(v, snap)) \/ (Unsubscribe(v) /\ v \notin subs)
  <2>1. /\ UNCHANGED <<subs, viewers, lastEnabled, fan, web>>
        /\ pc[v] # "gate" /\ \E x : pc' = [pc EXCEPT ![v] = x]
    BY <1>3 DEF Replay, Unsubscribe, hubVars, viewVars
  <2>2. FanType' /\ DOMAIN pc' = Procs
        /\ \A h \in Procs : pc[h] = "gate" => pc'[h] = "gate"
    BY <2>1 DEF CountInv, FanType, CountType
  <2> QED BY <2>1, <2>2, Bystander
<1>4. CASE Leave(v)
  <2>1. UNCHANGED <<subs, viewers, lastEnabled, pc, fan>>
        /\ web' = [web EXCEPT ![v] = "broken"]
    BY <1>4 DEF Leave, hubVars, procVars
  <2>2. FanType' /\ CountType' /\ NeverTooMany' /\ GateFollowsViewers'
    BY <2>1 DEF CountInv, FanType, CountType, NeverTooMany, GateFollowsViewers
  <2> QED BY <2>2 DEF CountInv
<1> QED BY <1>1, <1>2, <1>3, <1>4 DEF Viewer

\* A snapshot is received, sent to the viewers, and the failed ones dropped.
LEMMA ReceiverKeeps ==
    ASSUME CountInv, NEW c \in Conns, Receiver(c)
    PROVE  CountInv'
<1> c \in Procs
  BY DEF Procs
<1>1. CASE Receive(c) \/ \E v \in Viewers : FanOut(c, v)
  <2>1. /\ UNCHANGED <<subs, viewers, lastEnabled, web>>
        /\ pc[c] # "gate" /\ \E x : pc' = [pc EXCEPT ![c] = x]
    BY <1>1 DEF Receive, FanOut, Fan, hubVars, viewVars
  <2>2. PICK left, failed, snap : Fan(c, snap, left, failed)
                                  /\ left \subseteq Viewers /\ failed \subseteq Viewers
    <3>1. CASE Receive(c)
      <4>1. Fan(c, Head(stream[c]), subs, {}) /\ subs \subseteq Viewers
        BY <3>1 DEF Receive, CountInv, CountType
      <4> QED BY <4>1
    <3>2. CASE \E v \in Viewers : FanOut(c, v)
      <4>1. PICK v \in Viewers : FanOut(c, v)
        BY <3>2
      <4>2. fan[c].left \subseteq Viewers /\ fan[c].failed \subseteq Viewers
        BY DEF CountInv, FanType
      <4>3. \/ Fan(c, fan[c].snap, fan[c].left \ {v}, fan[c].failed)
            \/ Fan(c, fan[c].snap, fan[c].left \ {v}, fan[c].failed \cup {v})
        BY <4>1 DEF FanOut
      <4> QED BY <4>2, <4>3
    <3> QED BY <1>1, <3>1, <3>2
  <2>3. FanType'
    BY <2>2 DEF Fan, NoFan, CountInv, FanType
  <2>4. DOMAIN pc' = Procs /\ \A h \in Procs : pc[h] = "gate" => pc'[h] = "gate"
    BY <2>1 DEF CountInv, CountType
  <2> QED BY <2>1, <2>3, <2>4, Bystander
<1>2. CASE DropFailed(c)
  <2> DEFINE x == fan[c].failed
  <2>1. /\ UNCHANGED web /\ pc' = [pc EXCEPT ![c] = "gate"]
        /\ subs' = subs \ x /\ viewers' = Fewer(Cardinality(x))
        /\ fan' = [fan EXCEPT ![c] = NoFan]
    BY <1>2 DEF DropFailed, GateNext, viewVars
  <2>2. FanType' /\ x \in SUBSET Viewers
    BY <2>1 DEF CountInv, FanType, NoFan
  <2>3. viewers' \in Nat /\ viewers' <= Cardinality(subs')
    <3> HIDE DEF x
    <3> QED BY <2>1, <2>2, FewerBounds
  <2>4. DOMAIN web' = Viewers /\ subs' \subseteq Viewers /\ \A w \in subs' : web'[w] # "new"
    BY <2>1 DEF CountInv, CountType
  <2> QED BY <2>1, <2>2, <2>3, <2>4, Recount
<1> QED BY <1>1, <1>2 DEF Receiver

\* The inductive invariant, for every behaviour.
THEOREM CountInvariant == Spec => []CountInv
<1>1. Init => CountInv
  BY CountInit
<1>2. CountInv /\ [Next]_vars => CountInv'
  <2> SUFFICES ASSUME CountInv, [Next]_vars PROVE CountInv'
    OBVIOUS
  <2>1. CASE \E g \in Procs : Gate(g)
    BY <2>1, GateKeeps
  <2>2. CASE \E v \in Viewers : Subscribe(v) \/ Viewer(v) \/ Leave(v)
    BY <2>2, ViewerKeeps
  <2>3. CASE \E c \in Conns : Receiver(c)
    BY <2>3, ReceiverKeeps
  <2>4. CASE \E c \in Conns : StreamEnds(c) \/ Handler(c)
    BY <2>4, Elsewhere DEF StreamEnds, Handler, Register, Check, Enable, Unregister,
       hubVars, viewVars, procVars
  <2>5. CASE \E m \in Machines : \/ Connect(m) \/ Drop(m) \/ Switch(m)
                                \/ Producer(m) \/ Relay(m)
    BY <2>5, Elsewhere DEF Connect, Drop, Switch, Producer, Tick, Render, Relay,
       hubVars, viewVars, procVars
  <2>6. CASE \E k \in Keys : Output(k)
    BY <2>6, Elsewhere DEF Output, hubVars, viewVars, procVars
  <2>7. CASE UNCHANGED vars
    BY <2>7, Elsewhere DEF vars, hubVars, viewVars, procVars
  <2> QED BY <2>1, <2>2, <2>3, <2>4, <2>5, <2>6, <2>7 DEF Next
<1> QED BY <1>1, <1>2, PTL DEF Spec

\* The gate's last decision is the one for the current number of viewers,
\* unless a goroutine is about to apply the gate (applyGate and its callers).
THEOREM GateSettles == Spec => []GateFollowsViewers
<1>1. CountInv => GateFollowsViewers
  BY DEF CountInv
<1> QED BY <1>1, CountInvariant, PTL

\* Without subscribers a settled gate is closed: however often Subscribe,
\* Unsubscribe and ReceiveSnapshot drop the same subscriber, none is kept in
\* the count.
THEOREM EveryViewerCountedOut == Spec => []NoPhantomViewer
<1>1. CountInv => NoPhantomViewer
  <2> SUFFICES ASSUME CountInv, \A g \in Procs : pc[g] # "gate", subs = {}
               PROVE  ~lastEnabled
    BY DEF NoPhantomViewer
  <2>1. Cardinality(subs) = 0
    BY FS_EmptySet
  <2>2. ~(viewers > 0)
    BY <2>1 DEF CountInv, CountType, NeverTooMany
  <2> QED BY <2>2 DEF CountInv, GateFollowsViewers
<1> QED BY <1>1, CountInvariant, PTL
-----------------------------------------------------------------------------
(* Types: what lies on the wires, in the cache and with the viewers.       *)

\* A connection that is not broken is the one its machine has.
LinkType ==
    /\ owner \in Seq(Machines) /\ Len(owner) <= MaxConns
    /\ conn \in [Machines -> Nat] /\ registry \in [Machines -> Nat]
    /\ handler \in [Conns -> {"none", "hello", "check", "enable", "serve", "gone", "failed"}]
    /\ \A m \in Machines : conn[m] # 0 => conn[m] \in up /\ owner[conn[m]] = m
    /\ \A c \in up : c \in 1 .. Len(owner) /\ conn[owner[c]] = c
    /\ \A c \in Conns : handler[c] # "none" => c \in 1 .. Len(owner)

\* The screens that the sessions of machine m have had.
Shots(m, x) == {snap \in Keys \X Int : snap[1][1] = m /\ snap[2] <= x[snap[1]]}

\* A screen that its session has had.
Fits(snap) == snap \in Keys \X Int /\ snap[2] <= scr[snap[1]]

\* A connection's stream carries screens of its machine.
WireType ==
    /\ ctl \in [Machines -> Seq(BOOLEAN)]
    /\ DOMAIN relay = Machines /\ \A m \in Machines : relay[m] \in Seq(Shots(m, scr))
    /\ DOMAIN stream = Conns
    /\ \A c \in Conns : \/ stream[c] = <<>>
                        \/ c \in 1 .. Len(owner) /\ stream[c] \in Seq(Shots(owner[c], scr))

\* Nobody is shown a screen that the session has not had.
ScreenType ==
    /\ scr \in [Keys -> Nat]
    /\ latest \in [Keys -> Int] /\ \A k \in Keys : latest[k] <= scr[k]
    /\ seen \in [Viewers -> [Keys -> Int]]
    /\ \A v \in Viewers, k \in Keys : seen[v][k] <= scr[k]
    /\ DOMAIN replay = Viewers /\ \A v \in Viewers : \A snap \in replay[v] : Fits(snap)
    /\ DOMAIN fan = Conns
    /\ \A c \in Conns : fan[c] = NoFan \/ (pc[c] = "fan" /\ Fits(fan[c].snap))

\* The states of a producer; it looks at sessions of its own machine only.
ProdSet == [pc : {"idle", "revs", "send"}, enabled : BOOLEAN,
            last : [Keys -> Int], revs : [Keys -> Int]]

\* The producers.
ProdType ==
    /\ prod \in [Machines -> ProdSet]
    /\ \A m \in Machines, k \in Keys : prod[m].revs[k] # None => k[1] = m

\* The types of Overview.
TypeInv ==
    /\ DOMAIN pc = Procs /\ lastEnabled \in BOOLEAN
    /\ LinkType /\ WireType /\ ScreenType /\ ProdType

\* The initial states.
LEMMA TypeInit == Init => TypeInv
<1> SUFFICES ASSUME Init PROVE TypeInv
  OBVIOUS
<1>1. DOMAIN pc = Procs /\ lastEnabled \in BOOLEAN
  BY DEF Init
<1>2. LinkType
  BY OverviewAssumption DEF Init, LinkType
<1>3. WireType
  <2>1. \A S : <<>> \in Seq(S) /\ Len(<<>>) = 0
    OBVIOUS
  <2> QED BY <2>1 DEF Init, WireType
<1>4. ScreenType
  BY DEF Init, ScreenType, Nothing, None, Fits
<1>5. ProdType
  BY DEF Init, ProdType, ProdSet, Nothing, None
<1> QED BY <1>1, <1>2, <1>3, <1>4, <1>5 DEF TypeInv

\* The connections.
LEMMA LinkKeeps ==
    ASSUME LinkType, [Next]_vars
    PROVE  LinkType'
<1>1. CASE UNCHANGED <<linkVars, hubLink>>
  BY <1>1 DEF LinkType, linkVars, hubLink
<1>2. ASSUME NEW c \in Conns, Handler(c) PROVE LinkType'
  <2> c \in Nat
    BY OverviewAssumption DEF Conns
  <2>1. UNCHANGED <<owner, up, conn>> /\ handler[c] # "none"
    BY <1>2 DEF Handler, Register, Check, Enable, Unregister, linkVars
  <2>2. handler' \in [Conns -> {"none", "hello", "check", "enable", "serve", "gone", "failed"}]
        /\ \A d \in Conns : handler'[d] # "none" => handler[d] # "none"
    BY <1>2, <2>1 DEF LinkType, Handler, Register, Check, Enable, Unregister
  <2>3. registry' = registry \/ \E n \in {0, c, registry[owner[c]]} :
           registry' = [registry EXCEPT ![owner[c]] = n]
    BY <1>2 DEF Handler, Register, Check, Enable, Unregister
  <2>4. c \in 1 .. Len(owner) /\ owner[c] \in Machines
    BY <2>1 DEF LinkType
  <2>5. {0, c, registry[owner[c]]} \subseteq Nat
    BY <2>4 DEF LinkType
  <2>6. registry' \in [Machines -> Nat]
    <3>1. registry \in [Machines -> Nat]
      BY DEF LinkType
    <3>2. CASE registry' = registry
      BY <3>1, <3>2
    <3>3. ASSUME NEW n \in {0, c, registry[owner[c]]}, registry' = [registry EXCEPT ![owner[c]] = n]
          PROVE  registry' \in [Machines -> Nat]
      <4>1. n \in Nat
        BY <2>5
      <4> QED BY <3>1, <3>3, <4>1
    <3> QED BY <2>3, <3>2, <3>3
  <2> QED BY <2>1, <2>2, <2>6 DEF LinkType
<1>3. ASSUME NEW m \in Machines, Connect(m) PROVE LinkType'
  <2> DEFINE c == Len(owner) + 1
  <2>1. Len(owner) \in Nat /\ c <= MaxConns /\ c \in Conns /\ c # 0 /\ c \notin up
    BY <1>3, OverviewAssumption DEF Connect, LinkType, Conns
  <2>2. owner' \in Seq(Machines) /\ Len(owner') = c /\ owner'[c] = m
        /\ \A d \in 1 .. Len(owner) : owner'[d] = owner[d]
    BY <1>3, <2>1 DEF Connect, LinkType
  <2>3. conn' = [conn EXCEPT ![m] = c] /\ up' = up \cup {c} /\ conn[m] = 0
        /\ handler' = [handler EXCEPT ![c] = "hello"] /\ registry' = registry
    BY <1>3 DEF Connect
  <2> HIDE DEF c
  <2>4. \A n \in Machines : conn'[n] # 0 => conn'[n] \in up' /\ owner'[conn'[n]] = n
    BY <2>1, <2>2, <2>3 DEF LinkType
  <2>5. \A d \in up' : d \in 1 .. Len(owner') /\ conn'[owner'[d]] = d
    <3> SUFFICES ASSUME NEW d \in up' PROVE d \in 1 .. Len(owner') /\ conn'[owner'[d]] = d
      OBVIOUS
    <3>1. CASE d = c
      BY <3>1, <2>1, <2>2, <2>3 DEF LinkType
    <3>2. CASE d \in up
      <4>1. d \in 1 .. Len(owner) /\ conn[owner[d]] = d /\ owner[d] \in Machines
        BY <3>2 DEF LinkType
      <4>2. owner[d] # m
        BY <4>1, <2>3
      <4>3. conn'[owner[d]] = d
        BY <4>1, <4>2, <2>3 DEF LinkType
      <4>4. d \in 1 .. Len(owner')
        BY <4>1, <2>1, <2>2 DEF c
      <4> QED BY <4>1, <4>3, <4>4, <2>2
    <3> QED BY <3>1, <3>2, <2>3
  <2>6. conn' \in [Machines -> Nat] /\ registry' \in [Machines -> Nat]
    BY <2>1, <2>3 DEF LinkType, c
  <2>7. handler' \in [Conns -> {"none", "hello", "check", "enable", "serve", "gone", "failed"}]
    BY <2>3 DEF LinkType
  <2>8. \A d \in Conns : handler'[d] # "none" => d \in 1 .. Len(owner')
    BY <2>1, <2>2, <2>3 DEF LinkType, c
  <2>9. Len(owner') <= MaxConns
    BY <2>1, <2>2
  <2> QED BY <2>2, <2>4, <2>5, <2>6, <2>7, <2>8, <2>9 DEF LinkType
<1>4. ASSUME NEW m \in Machines, Drop(m) PROVE LinkType'
  BY <1>4 DEF LinkType, Drop, hubLink
<1> QED
  <2>1. CASE \E g \in Procs : Gate(g)
    BY <2>1, <1>1 DEF Gate, GateEnter, GateList, GateTell
  <2>2. CASE \E v \in Viewers : Subscribe(v) \/ Viewer(v) \/ Leave(v)
    BY <2>2, <1>1 DEF Subscribe, Viewer, Leave, Replay, ReplayFails, Unsubscribe
  <2>3. CASE \E c \in Conns : Receiver(c) \/ StreamEnds(c)
    BY <2>3, <1>1 DEF Receiver, Receive, FanOut, DropFailed, StreamEnds
  <2>4. CASE \E m \in Machines : Switch(m) \/ Producer(m) \/ Relay(m)
    BY <2>4, <1>1 DEF Switch, Producer, Tick, Render, Relay
  <2>5. CASE \E k \in Keys : Output(k)
    BY <2>5, <1>1 DEF Output
  <2>6. CASE UNCHANGED vars
    BY <2>6, <1>1 DEF vars
  <2> QED BY <1>2, <1>3, <1>4, <2>1, <2>2, <2>3, <2>4, <2>5, <2>6 DEF Next
\* A larger set has the sequences of the smaller one.
LEMMA MoreSeq ==
    ASSUME NEW S, NEW T, S \subseteq T, NEW s \in Seq(S)
    PROVE  s \in Seq(T)
OBVIOUS

\* The steps that leave the wires alone.
LEMMA WiresAlone ==
    ASSUME LinkType, WireType, ScreenType, UNCHANGED wires,
           \A k \in Keys : scr'[k] >= scr[k], \A k \in Keys : scr'[k] \in Nat,
           \A c \in 1 .. Len(owner) : c \in 1 .. Len(owner') /\ owner'[c] = owner[c]
    PROVE  WireType'
<1>1. \A m : Shots(m, scr) \subseteq Shots(m, scr')
  BY DEF Shots, ScreenType
<1>2. \A m \in Machines : relay[m] \in Seq(Shots(m, scr'))
  BY <1>1, MoreSeq DEF WireType
<1>3. ASSUME NEW c \in Conns, stream[c] # <<>>
      PROVE  c \in 1 .. Len(owner') /\ stream[c] \in Seq(Shots(owner'[c], scr'))
  <2>1. c \in 1 .. Len(owner) /\ stream[c] \in Seq(Shots(owner[c], scr))
    BY <1>3 DEF WireType
  <2>2. c \in 1 .. Len(owner') /\ owner'[c] = owner[c]
    BY <2>1
  <2> QED BY <2>1, <2>2, <1>1, MoreSeq
<1>4. /\ ctl' = ctl /\ ctl \in [Machines -> Seq(BOOLEAN)]
      /\ relay' = relay /\ DOMAIN relay = Machines
      /\ stream' = stream /\ DOMAIN stream = Conns
  BY DEF WireType, wires
<1>5. \A c \in Conns : \/ stream'[c] = <<>>
                       \/ c \in 1 .. Len(owner') /\ stream'[c] \in Seq(Shots(owner'[c], scr'))
  BY <1>3, <1>4
<1>6. \A m \in Machines : relay'[m] \in Seq(Shots(m, scr'))
  BY <1>2, <1>4
<1> QED BY <1>4, <1>5, <1>6 DEF WireType

\* The wires.
LEMMA WireKeeps ==
    ASSUME TypeInv, [Next]_vars
    PROVE  WireType'
<1> USE DEF TypeInv
<1>1. ASSUME UNCHANGED <<scr, owner, relay, stream>>, ctl' \in [Machines -> Seq(BOOLEAN)]
      PROVE  WireType'
  BY <1>1 DEF WireType, Shots
<1>2. ASSUME UNCHANGED <<wires, scr, owner>> PROVE WireType'
  BY <1>1, <1>2 DEF wires, WireType
<1>3. ASSUME NEW c \in Nat, NEW e \in BOOLEAN, Tell(c, e)
      PROVE  ctl' \in [Machines -> Seq(BOOLEAN)]
  <2>1. CASE c \in up
    <3>1. owner[c] \in Machines
      BY <2>1 DEF LinkType
    <3>2. ctl[owner[c]] \in Seq(BOOLEAN)
      BY <3>1 DEF WireType
    <3>3. Append(ctl[owner[c]], e) \in Seq(BOOLEAN)
      BY <3>2
    <3> QED BY <1>3, <2>1, <3>1, <3>3 DEF Tell, WireType
  <2>2. CASE c \notin up
    BY <1>3, <2>2 DEF Tell, WireType
  <2> QED BY <2>1, <2>2
<1>4. ASSUME NEW m \in Machines, NEW g \in Procs, GateTell(g, m) PROVE WireType'
  <2>1. registry[m] \in Nat /\ Tell(registry[m], lastEnabled)
        /\ UNCHANGED <<scr, owner, relay, stream>>
    BY <1>4 DEF GateTell, LinkType, linkVars, agentVars
  <2> QED BY <2>1, <1>1, <1>3
<1>5. ASSUME NEW c \in Conns, Handler(c) PROVE WireType'
  <2>1. CASE Enable(c)
    <3>1. c \in Nat
      BY OverviewAssumption DEF Conns
    <3>2. Tell(c, TRUE) /\ UNCHANGED <<scr, owner, relay, stream>>
      BY <2>1 DEF Enable, linkVars, agentVars
    <3> QED BY <3>1, <3>2, <1>1, <1>3
  <2>2. CASE Register(c) \/ Check(c) \/ Unregister(c)
    BY <2>2, <1>2 DEF Register, Check, Unregister, wires, linkVars, agentVars
  <2> QED BY <1>5, <2>1, <2>2 DEF Handler
<1>6. ASSUME NEW c \in Conns, Receive(c) \/ StreamEnds(c) PROVE WireType'
  <2>1. UNCHANGED <<scr, owner, relay, ctl>> /\ stream[c] # <<>>
        /\ \/ stream' = [stream EXCEPT ![c] = Tail(@)]
           \/ stream' = [stream EXCEPT ![c] = <<>>]
    BY <1>6 DEF Receive, StreamEnds, linkVars, agentVars
  <2>2. c \in 1 .. Len(owner) /\ stream[c] \in Seq(Shots(owner[c], scr))
    BY <2>1 DEF WireType
  <2>3. \A S : \A q \in Seq(S) : q # <<>> => Tail(q) \in Seq(S)
    OBVIOUS
  <2>4. Tail(stream[c]) \in Seq(Shots(owner[c], scr))
    BY <2>1, <2>2, <2>3
  <2>5. scr' = scr
    BY <2>1
  <2> QED BY <2>1, <2>2, <2>4, <2>5 DEF WireType
<1>7. ASSUME NEW m \in Machines, Connect(m) PROVE WireType'
  <2>1. UNCHANGED <<wires, scr>> /\ owner' = Append(owner, m)
    BY <1>7 DEF Connect, agentVars
  <2>2. \A c \in 1 .. Len(owner) : c \in 1 .. Len(owner') /\ owner'[c] = owner[c]
    BY <2>1 DEF LinkType
  <2> QED BY <2>1, <2>2, WiresAlone DEF ScreenType
<1>8. ASSUME NEW m \in Machines, Drop(m) \/ Switch(m) PROVE WireType'
  <2>1. UNCHANGED <<scr, owner, relay, stream>>
    BY <1>8 DEF Drop, Switch, linkVars, agentVars
  <2>2. ctl' \in [Machines -> Seq(BOOLEAN)]
    <3>1. CASE Drop(m)
      <4>1. PICK n \in 0 .. Len(ctl[m]) : ctl' = [ctl EXCEPT ![m] = SubSeq(@, 1, n)]
        BY <3>1 DEF Drop
      <4>2. ctl[m] \in Seq(BOOLEAN)
        BY DEF WireType
      <4>3. SubSeq(ctl[m], 1, n) \in Seq(BOOLEAN)
        BY <4>2
      <4> QED BY <4>1, <4>3 DEF WireType
    <3>2. CASE Switch(m)
      BY <3>2 DEF Switch, WireType
    <3> QED BY <1>8, <3>1, <3>2
  <2> QED BY <2>1, <2>2, <1>1
<1>9. ASSUME NEW m \in Machines, NEW k \in Keys, Render(m, k) PROVE WireType'
  <2>1. UNCHANGED <<scr, owner, ctl, stream>> /\ prod[m].revs[k] # None
        /\ \/ UNCHANGED relay
           \/ relay' = [relay EXCEPT ![m] = Append(@, <<k, scr[k]>>)]
    BY <1>9 DEF Render, SendSnapshot, linkVars
  <2>2. <<k, scr[k]>> \in Shots(m, scr)
    BY <2>1 DEF ProdType, ProdSet, ScreenType, Shots
  <2>3. \A S : \A q \in Seq(S), e \in S : Append(q, e) \in Seq(S)
    OBVIOUS
  <2>4. Append(relay[m], <<k, scr[k]>>) \in Seq(Shots(m, scr))
    BY <2>2, <2>3 DEF WireType
  <2>5. scr' = scr
    BY <2>1
  <2> QED BY <2>1, <2>4, <2>5 DEF WireType
<1>10. ASSUME NEW m \in Machines, Relay(m) PROVE WireType'
  <2>1. /\ UNCHANGED <<scr, owner, ctl>> /\ relay[m] # <<>>
        /\ relay' = [relay EXCEPT ![m] = Tail(@)]
        /\ SendRawSnapshot(conn[m], Head(relay[m]))
    BY <1>10 DEF Relay, linkVars, agentVars
  <2>2. \A S : \A q \in Seq(S) : q # <<>> => Tail(q) \in Seq(S) /\ Head(q) \in S
    OBVIOUS
  <2>3. Tail(relay[m]) \in Seq(Shots(m, scr)) /\ Head(relay[m]) \in Shots(m, scr)
    BY <2>1, <2>2 DEF WireType
  <2>4. scr' = scr
    BY <2>1
  <2>5. CASE conn[m] = 0
    BY <2>1, <2>3, <2>4, <2>5 DEF WireType, SendRawSnapshot
  <2>6. CASE conn[m] # 0
    <3>1. conn[m] \in 1 .. Len(owner) /\ owner[conn[m]] = m
      BY <2>6 DEF LinkType
    <3>2. conn[m] \in Conns
      BY <3>1, OverviewAssumption DEF LinkType, Conns
    <3>3. stream[conn[m]] \in Seq(Shots(m, scr))
      <4>1. stream[conn[m]] = <<>> \/ stream[conn[m]] \in Seq(Shots(m, scr))
        BY <3>1, <3>2 DEF WireType
      <4>2. \A S : <<>> \in Seq(S)
        OBVIOUS
      <4> QED BY <4>1, <4>2
    <3>4. stream' = [stream EXCEPT ![conn[m]] = Append(stream[conn[m]], Head(relay[m]))]
      BY <2>1, <2>6 DEF SendRawSnapshot
    <3>5. \A S : \A q \in Seq(S), e \in S : Append(q, e) \in Seq(S)
      OBVIOUS
    <3>6. Append(stream[conn[m]], Head(relay[m])) \in Seq(Shots(m, scr))
      BY <3>3, <3>5, <2>3
    <3> QED BY <3>1, <3>2, <3>4, <3>6, <2>1, <2>3, <2>4 DEF WireType
  <2> QED BY <2>5, <2>6
<1>11. ASSUME NEW k \in Keys, Output(k) PROVE WireType'
  <2>1. UNCHANGED <<wires, owner>> /\ scr' = [scr EXCEPT ![k] = @ + 1]
    BY <1>11 DEF Output, linkVars
  <2> QED BY <2>1, WiresAlone DEF ScreenType
<1> QED
  <2>1. CASE \E g \in Procs : GateEnter(g) \/ GateList(g)
    BY <2>1, <1>2 DEF GateEnter, GateList, linkVars, agentVars
  <2>2. CASE \E v \in Viewers : Subscribe(v) \/ Viewer(v) \/ Leave(v)
    BY <2>2, <1>2 DEF Subscribe, Viewer, Leave, Replay, ReplayFails, Unsubscribe,
       linkVars, agentVars
  <2>3. CASE \E c \in Conns : DropFailed(c) \/ \E v \in Viewers : FanOut(c, v)
    BY <2>3, <1>2 DEF FanOut, DropFailed, linkVars, agentVars
  <2>4. CASE \E m \in Machines : Tick(m)
    BY <2>4, <1>2 DEF Tick, linkVars
  <2>5. CASE UNCHANGED vars
    BY <2>5, <1>2 DEF vars, linkVars, agentVars
  <2> QED BY <1>4, <1>5, <1>6, <1>7, <1>8, <1>9, <1>10, <1>11, <2>1, <2>2, <2>3, <2>4, <2>5
          DEF Next, Gate, Receiver, Producer

\* The steps that leave the screens alone.
LEMMA ScreensAlone ==
    ASSUME ScreenType, UNCHANGED <<scr, latest, seen, replay, fan>>,
           \A c \in Conns : pc[c] = "fan" => pc'[c] = "fan"
    PROVE  ScreenType'
BY DEF ScreenType, Fits

\* A Send keeps what was shown within what there is.
LEMMA SendTypes ==
    ASSUME ScreenType, NEW v \in Viewers, NEW snap, Fits(snap), Sends(v, snap), UNCHANGED scr
    PROVE  /\ seen' \in [Viewers -> [Keys -> Int]]
           /\ \A w \in Viewers, k \in Keys : seen'[w][k] <= scr'[k]
<1>1. snap[1] \in Keys /\ snap[2] \in Int /\ snap[2] <= scr[snap[1]]
  BY DEF Fits
<1> DEFINE old == seen[v][snap[1]]
           r   == IF snap[2] > old THEN snap[2] ELSE old
           row == [seen[v] EXCEPT ![snap[1]] = r]
<1>2. seen' = [seen EXCEPT ![v] = row]
  BY DEF Sends
<1>3. seen[v] \in [Keys -> Int] /\ old \in Int /\ old <= scr[snap[1]]
  BY <1>1 DEF ScreenType
<1>4. r \in Int /\ r <= scr[snap[1]]
  BY <1>1, <1>3
<1> HIDE DEF r
<1>5. row \in [Keys -> Int] /\ \A k \in Keys : row[k] <= scr[k]
  BY <1>1, <1>3, <1>4 DEF ScreenType
<1> HIDE DEF row
<1> QED BY <1>2, <1>5 DEF ScreenType

\* The screens, wherever they are.
LEMMA ScreenKeeps ==
    ASSUME TypeInv, [Next]_vars
    PROVE  ScreenType'
<1> USE DEF TypeInv
<1>0. Viewers \cap Conns = {} /\ Conns \subseteq Procs /\ Viewers \subseteq Procs
  BY OverviewAssumption DEF Conns, Procs
<1>1. ASSUME NEW g \in Procs, Gate(g) PROVE ScreenType'
  <2>1. UNCHANGED <<scr, latest, seen, replay, fan>>
    BY <1>1 DEF Gate, GateEnter, GateList, GateTell, hubVars, viewVars, agentVars
  <2>2. pc[g] \in {"gate", "list", "tell"} /\ \E x : pc' = [pc EXCEPT ![g] = x]
    BY <1>1 DEF Gate, GateEnter, GateList, GateTell, Telling
  <2> QED BY <2>1, <2>2, ScreensAlone
<1>2. ASSUME NEW v \in Viewers, Subscribe(v) PROVE ScreenType'
  <2>1. UNCHANGED <<scr, latest, seen, fan>> /\ pc' = [pc EXCEPT ![v] = "gate"]
        /\ replay' = [replay EXCEPT ![v] =
                         {<<k, latest[k]>> : k \in {j \in Keys : latest[j] # None}}]
    BY <1>2 DEF Subscribe, GateNext, agentVars
  <2>2. \A snap \in replay'[v] : Fits(snap)
    BY <2>1 DEF ScreenType, Fits
  <2>3. \A c \in Conns : pc'[c] = pc[c]
    BY <2>1, <1>0
  <2> QED BY <2>1, <2>2, <2>3 DEF ScreenType, Fits
<1>3. ASSUME NEW v \in Viewers, NEW snap \in replay[v], Replay(v, snap) PROVE ScreenType'
  <2>1. /\ UNCHANGED <<scr, latest, fan>> /\ Sends(v, snap)
        /\ replay' = [replay EXCEPT ![v] = @ \ {snap}]
        /\ \E x : pc' = [pc EXCEPT ![v] = x]
    BY <1>3 DEF Replay, hubVars, agentVars
  <2>2. Fits(snap)
    BY DEF ScreenType
  <2>3. seen' \in [Viewers -> [Keys -> Int]]
        /\ \A w \in Viewers, k \in Keys : seen'[w][k] <= scr'[k]
    BY <2>1, <2>2, SendTypes
  <2>4. \A c \in Conns : pc'[c] = pc[c]
    BY <2>1, <1>0
  <2>5. DOMAIN replay' = Viewers /\ \A w \in Viewers : replay'[w] \subseteq replay[w]
    BY <2>1 DEF ScreenType
  <2> QED BY <2>1, <2>3, <2>4, <2>5 DEF ScreenType, Fits
<1>4. ASSUME NEW v \in Viewers, ReplayFails(v) \/ Unsubscribe(v) \/ Leave(v) PROVE ScreenType'
  <2>1. UNCHANGED <<scr, latest, seen, fan>>
        /\ (pc' = pc \/ \E x : pc' = [pc EXCEPT ![v] = x])
    BY <1>4 DEF ReplayFails, Unsubscribe, Leave, GateNext, hubVars, viewVars, agentVars,
       procVars
  <2>2. replay' = replay \/ replay' = [replay EXCEPT ![v] = {}]
    BY <1>4 DEF ReplayFails, Unsubscribe, Leave, viewVars
  <2>3. \A c \in Conns : pc'[c] = pc[c]
    BY <2>1, <1>0
  <2> QED BY <2>1, <2>2, <2>3 DEF ScreenType, Fits
<1>5. ASSUME NEW c \in Conns, Receive(c) PROVE ScreenType'
  <2> DEFINE snap == Head(stream[c])
  <2>1. /\ UNCHANGED <<scr, seen, replay>> /\ stream[c] # <<>>
        /\ latest' = [latest EXCEPT ![snap[1]] = snap[2]]
        /\ Fan(c, snap, subs, {})
    BY <1>5 DEF Receive, viewVars, agentVars
  <2>2. stream[c] \in Seq(Shots(owner[c], scr))
    BY <2>1 DEF WireType
  <2>3. snap \in Shots(owner[c], scr)
    BY <2>1, <2>2
  <2> HIDE DEF snap
  <2>4. Fits(snap)
    BY <2>3 DEF Shots, Fits
  <2>5. latest' \in [Keys -> Int] /\ \A k \in Keys : latest'[k] <= scr'[k]
    BY <2>1, <2>4 DEF Fits, ScreenType
  <2>6. DOMAIN fan' = Conns
        /\ \A d \in Conns : fan'[d] = NoFan \/ (pc'[d] = "fan" /\ Fits(fan'[d].snap))
    BY <2>1, <2>4, <1>0 DEF Fan, ScreenType
  <2> QED BY <2>1, <2>5, <2>6 DEF ScreenType, Fits
<1>6. ASSUME NEW c \in Conns, NEW v \in Viewers, FanOut(c, v) PROVE ScreenType'
  <2> DEFINE snap == fan[c].snap
  <2>1. UNCHANGED <<scr, latest, replay>> /\ v \in fan[c].left
    BY <1>6 DEF FanOut, hubVars, agentVars
  <2>2. fan[c] # NoFan
    BY <2>1 DEF NoFan
  <2>3. Fits(snap)
    BY <2>2 DEF ScreenType
  <2>4. (Sends(v, snap) \/ UNCHANGED seen) /\ \E left, failed : Fan(c, snap, left, failed)
    BY <1>6 DEF FanOut
  <2> HIDE DEF snap
  <2>5. seen' \in [Viewers -> [Keys -> Int]]
        /\ \A w \in Viewers, k \in Keys : seen'[w][k] <= scr'[k]
    BY <2>1, <2>3, <2>4, SendTypes DEF ScreenType
  <2>6. DOMAIN fan' = Conns
        /\ \A d \in Conns : fan'[d] = NoFan \/ (pc'[d] = "fan" /\ Fits(fan'[d].snap))
    BY <2>3, <2>4, <1>0 DEF Fan, ScreenType
  <2> QED BY <2>1, <2>5, <2>6 DEF ScreenType, Fits
<1>7. ASSUME NEW c \in Conns, DropFailed(c) PROVE ScreenType'
  <2>1. UNCHANGED <<scr, latest, seen, replay>> /\ pc' = [pc EXCEPT ![c] = "gate"]
        /\ fan' = [fan EXCEPT ![c] = NoFan]
    BY <1>7 DEF DropFailed, GateNext, viewVars, agentVars
  <2> QED BY <2>1, <1>0 DEF ScreenType, Fits
<1>8. ASSUME NEW k \in Keys, Output(k) PROVE ScreenType'
  <2>1. UNCHANGED <<latest, seen, replay, fan, pc>> /\ scr' = [scr EXCEPT ![k] = @ + 1]
    BY <1>8 DEF Output, hubVars, viewVars, procVars
  <2>2. scr' \in [Keys -> Nat] /\ \A j \in Keys : scr[j] <= scr'[j] /\ scr[j] \in Nat
    BY <2>1 DEF ScreenType
  <2>3. \A snap : Fits(snap) => snap \in Keys \X Int /\ snap[2] <= scr'[snap[1]]
    BY <2>2 DEF Fits
  <2>4. \A j \in Keys : latest[j] <= scr'[j]
    BY <2>2 DEF ScreenType
  <2>5. \A v \in Viewers, j \in Keys : seen[v][j] <= scr'[j]
    BY <2>2 DEF ScreenType
  <2> QED BY <2>1, <2>2, <2>3, <2>4, <2>5 DEF ScreenType, Fits
<1> QED
  <2>1. CASE \E c \in Conns : StreamEnds(c) \/ Handler(c)
    BY <2>1, ScreensAlone DEF StreamEnds, Handler, Register, Check, Enable, Unregister,
       hubVars, viewVars, procVars, agentVars
  <2>2. CASE \E m \in Machines : \/ Connect(m) \/ Drop(m) \/ Switch(m)
                                \/ Producer(m) \/ Relay(m)
    BY <2>2, ScreensAlone DEF Connect, Drop, Switch, Producer, Tick, Render, Relay,
       hubVars, viewVars, procVars, agentVars
  <2>3. CASE UNCHANGED vars
    BY <2>3, ScreensAlone DEF vars, hubVars, viewVars, procVars, agentVars
  <2> QED BY <1>1, <1>2, <1>3, <1>4, <1>5, <1>6, <1>7, <1>8, <2>1, <2>2, <2>3
          DEF Next, Viewer, Receiver

\* The producers.
LEMMA ProdKeeps ==
    ASSUME TypeInv, [Next]_vars
    PROVE  ProdType'
<1> USE DEF TypeInv
<1>1. ASSUME UNCHANGED prod PROVE ProdType'
  BY <1>1 DEF ProdType
<1>2. ASSUME NEW m \in Machines, Switch(m) PROVE ProdType'
  <2>1. ctl[m] \in Seq(BOOLEAN) /\ ctl[m] # <<>>
    BY <1>2 DEF Switch, WireType
  <2>2. Head(ctl[m]) \in BOOLEAN
    BY <2>1
  <2>3. prod' = [prod EXCEPT ![m] = SetEnabled(@, Head(ctl[m]))]
    BY <1>2 DEF Switch
  <2>4. Nothing \in [Keys -> Int]
    BY DEF Nothing, None
  <2>5. SetEnabled(prod[m], Head(ctl[m])) \in ProdSet
        /\ SetEnabled(prod[m], Head(ctl[m])).revs = prod[m].revs
    BY <2>2, <2>4 DEF ProdType, ProdSet, SetEnabled
  <2> QED BY <2>3, <2>5 DEF ProdType
<1>3. ASSUME NEW m \in Machines, Tick(m) PROVE ProdType'
  <2> DEFINE revs == [k \in Keys |-> IF k[1] = m THEN scr[k] ELSE None]
             p    == [prod[m] EXCEPT !.pc = "revs", !.revs = revs]
  <2>1. prod' = [prod EXCEPT ![m] = p]
    BY <1>3 DEF Tick, ProdType, ProdSet
  <2>2. revs \in [Keys -> Int] /\ \A k \in Keys : revs[k] # None => k[1] = m
    BY DEF ScreenType, None
  <2> HIDE DEF revs
  <2>3. p \in ProdSet /\ p.revs = revs
    BY <2>2 DEF ProdType, ProdSet
  <2> HIDE DEF p
  <2> QED BY <2>1, <2>2, <2>3 DEF ProdType
<1>4. ASSUME NEW m \in Machines, NEW k \in Keys, Render(m, k) PROVE ProdType'
  <2> DEFINE last == [prod[m].last EXCEPT ![k] = scr[k]]
             left == [prod[m].revs EXCEPT ![k] = None]
  <2>1. last \in [Keys -> Int] /\ left \in [Keys -> Int]
        /\ \A j \in Keys : left[j] # None => j[1] = m
    BY DEF ProdType, ProdSet, ScreenType, None
  <2>2. \E x \in {"idle", "send"}, q \in {prod[m], [prod[m] EXCEPT !.last = last]} :
           prod' = [prod EXCEPT ![m] = [q EXCEPT !.revs = left, !.pc = x]]
    BY <1>4 DEF Render
  <2> HIDE DEF last, left
  <2>3. PICK x \in {"idle", "send"}, q \in {prod[m], [prod[m] EXCEPT !.last = last]} :
           prod' = [prod EXCEPT ![m] = [q EXCEPT !.revs = left, !.pc = x]]
    BY <2>2
  <2>4. q \in ProdSet
    <3>1. prod[m] \in ProdSet
      BY DEF ProdType
    <3>2. [prod[m] EXCEPT !.last = last] \in ProdSet
      BY <3>1, <2>1 DEF ProdSet
    <3> QED BY <3>1, <3>2
  <2>5. [q EXCEPT !.revs = left, !.pc = x] \in ProdSet
        /\ [q EXCEPT !.revs = left, !.pc = x].revs = left
    BY <2>1, <2>4 DEF ProdSet
  <2> QED BY <2>1, <2>3, <2>5 DEF ProdType
<1> QED
  <2>1. CASE \E g \in Procs : Gate(g)
    BY <2>1, <1>1 DEF Gate, GateEnter, GateList, GateTell, agentVars
  <2>2. CASE \E v \in Viewers : Subscribe(v) \/ Viewer(v) \/ Leave(v)
    BY <2>2, <1>1 DEF Subscribe, Viewer, Leave, Replay, ReplayFails, Unsubscribe, agentVars
  <2>3. CASE \E c \in Conns : Receiver(c) \/ StreamEnds(c) \/ Handler(c)
    BY <2>3, <1>1 DEF Receiver, Receive, FanOut, DropFailed, StreamEnds, Handler, Register,
       Check, Enable, Unregister, agentVars
  <2>4. CASE \E m \in Machines : Connect(m) \/ Drop(m) \/ Relay(m)
    BY <2>4, <1>1 DEF Connect, Drop, Relay, agentVars
  <2>5. CASE \E k \in Keys : Output(k)
    BY <2>5, <1>1 DEF Output
  <2>6. CASE UNCHANGED vars
    BY <2>6, <1>1 DEF vars, agentVars
  <2> QED BY <1>2, <1>3, <1>4, <2>1, <2>2, <2>3, <2>4, <2>5, <2>6 DEF Next, Producer

\* The types, for every behaviour.
THEOREM TypesHold == Spec => []TypeInv
<1>1. TypeInv /\ [Next]_vars => TypeInv'
  <2> SUFFICES ASSUME TypeInv, [Next]_vars PROVE TypeInv'
    OBVIOUS
  <2>1. LinkType'
    BY LinkKeeps DEF TypeInv
  <2>2. WireType' /\ ScreenType' /\ ProdType'
    BY WireKeeps, ScreenKeeps, ProdKeeps
  <2>3. lastEnabled' \in BOOLEAN
    <3>1. CASE \E g \in Procs : GateEnter(g)
      BY <3>1 DEF GateEnter
    <3>2. CASE UNCHANGED lastEnabled
      BY <3>2 DEF TypeInv
    <3>3. CASE \E g \in Procs : Gate(g)
      BY <3>3, <3>1, <3>2 DEF Gate, GateList, GateTell, hubVars
    <3>4. CASE \E v \in Viewers : Subscribe(v) \/ Viewer(v) \/ Leave(v)
      BY <3>4, <3>2 DEF Subscribe, Viewer, Leave, Replay, ReplayFails, Unsubscribe, hubVars
    <3>5. CASE \E c \in Conns : Receiver(c) \/ StreamEnds(c) \/ Handler(c)
      BY <3>5, <3>2 DEF Receiver, Receive, FanOut, DropFailed, StreamEnds, Handler, Register,
         Check, Enable, Unregister, hubVars
    <3>6. CASE \E m \in Machines : Connect(m) \/ Drop(m) \/ Switch(m) \/ Producer(m) \/ Relay(m)
      BY <3>6, <3>2 DEF Connect, Drop, Switch, Producer, Tick, Render, Relay, hubVars
    <3>7. CASE \E k \in Keys : Output(k)
      BY <3>7, <3>2 DEF Output, hubVars
    <3> QED BY <3>2, <3>3, <3>4, <3>5, <3>6, <3>7 DEF Next, vars, hubVars
  <2>4. DOMAIN pc' = Procs
    <3>1. CASE \E g, x : pc' = [pc EXCEPT ![g] = x]
      BY <3>1 DEF TypeInv
    <3>2. CASE UNCHANGED pc
      BY <3>2 DEF TypeInv
    <3>3. CASE \E g \in Procs : Gate(g)
      BY <3>3, <3>1 DEF Gate, GateEnter, GateList, GateTell, Telling
    <3>4. CASE \E v \in Viewers : Subscribe(v) \/ Viewer(v)
      BY <3>4, <3>1 DEF Subscribe, Viewer, Replay, ReplayFails, Unsubscribe, GateNext
    <3>5. ASSUME NEW c \in Conns, Receiver(c) PROVE \E g, x : pc' = [pc EXCEPT ![g] = x]
      <4>1. CASE Receive(c)
        BY <4>1 DEF Receive, Fan
      <4>2. CASE DropFailed(c)
        BY <4>2 DEF DropFailed, GateNext
      <4>3. ASSUME NEW v \in Viewers, FanOut(c, v) PROVE \E g, x : pc' = [pc EXCEPT ![g] = x]
        BY <4>3 DEF FanOut, Fan
      <4> QED BY <3>5, <4>1, <4>2, <4>3 DEF Receiver
    <3> QED BY <3>1, <3>2, <3>3, <3>4, <3>5 DEF Next, Leave, StreamEnds, Handler, Register, Check,
         Enable, Unregister, Connect, Drop, Switch, Producer, Tick, Render, Relay, Output,
         vars, procVars
  <2> QED BY <2>1, <2>2, <2>3, <2>4 DEF TypeInv
<1> QED BY <1>1, TypeInit, PTL DEF Spec

-----------------------------------------------------------------------------
\* Goroutine g is inside SetSnapshotsEnabled.
Inside(g) == pc[g] \in {"list", "tell"}

\* One goroutine at a time is inside, with machines to tell as long as it
\* tells: that is what holding controlMu is for ("concurrent
\* subscribe/unsubscribe cannot apply them out of order", overview.go:75-76).
OneTells ==
    /\ held <=> \E g \in Procs : Inside(g)
    /\ \A g, h \in Procs : Inside(g) /\ Inside(h) => g = h
    /\ (\E g \in Procs : pc[g] = "tell") <=> todo # {}
    /\ todo \subseteq Machines

\* A goroutine goes on after the gate to a place outside of it, and a viewer
\* that has not subscribed does nothing.
PlaceType ==
    /\ DOMAIN pc = Procs /\ DOMAIN ret = Procs
    /\ web \in [Viewers -> {"new", "open", "broken"}]
    /\ \A g \in Procs : ret[g] \in {"idle", "replay", "read", "done"}
    /\ \A v \in Viewers : web[v] = "new" => pc[v] = "idle"

TellsInv == PlaceType /\ OneTells

\* A step of a goroutine outside of it.
LEMMA OutsideKeeps ==
    ASSUME TellsInv, UNCHANGED gateVars, NEW g \in Procs, ~Inside(g),
           NEW x, pc' = [pc EXCEPT ![g] = x], x \notin {"list", "tell"},
           ret' = ret \/ \E y \in {"idle", "replay", "read", "done"} : ret' = [ret EXCEPT ![g] = y],
           web' \in [Viewers -> {"new", "open", "broken"}],
           \A v \in Viewers : web'[v] = "new" => web[v] = "new" /\ v # g
    PROVE  TellsInv'
<1>1. PlaceType'
  BY DEF TellsInv, PlaceType
<1>2. OneTells'
  BY DEF TellsInv, PlaceType, OneTells, Inside, gateVars
<1> QED BY <1>1, <1>2 DEF TellsInv

\* A step that moves no goroutine.
LEMMA NobodyMoves ==
    ASSUME TellsInv, UNCHANGED <<gateVars, procVars>>,
           web' \in [Viewers -> {"new", "open", "broken"}],
           \A v \in Viewers : web'[v] = "new" => web[v] = "new"
    PROVE  TellsInv'
<1>1. PlaceType'
  BY DEF TellsInv, PlaceType, procVars
<1>2. OneTells'
  BY DEF TellsInv, OneTells, Inside, gateVars, procVars
<1> QED BY <1>1, <1>2 DEF TellsInv

\* The gate.
LEMMA GateIsSerial ==
    ASSUME TellsInv, NEW g \in Procs, Gate(g)
    PROVE  TellsInv'
<1>1. CASE GateEnter(g)
  <2>1. pc[g] = "gate" /\ ~held /\ UNCHANGED <<todo, ret, web>>
        /\ \/ pc' = [pc EXCEPT ![g] = ret[g]] /\ UNCHANGED held
           \/ pc' = [pc EXCEPT ![g] = "list"] /\ held' = TRUE
    BY <1>1 DEF GateEnter, viewVars
  <2>2. PlaceType'
    BY <2>1 DEF TellsInv, PlaceType, Procs
  <2>3. OneTells'
    BY <2>1 DEF TellsInv, PlaceType, OneTells, Inside
  <2> QED BY <2>2, <2>3 DEF TellsInv
<1>2. CASE GateList(g) \/ \E m \in Machines : GateTell(g, m)
  <2>1. /\ Inside(g) /\ UNCHANGED <<ret, web>>
        /\ \E ms \in SUBSET Machines : Telling(g, ms)
    BY <1>2 DEF GateList, GateTell, Inside, TellsInv, OneTells, viewVars
  <2>2. PICK ms \in SUBSET Machines : Telling(g, ms)
    BY <2>1
  <2>3. PlaceType'
    BY <2>1, <2>2 DEF TellsInv, PlaceType, Inside, Telling
  <2>4. OneTells'
    BY <2>1, <2>2 DEF TellsInv, PlaceType, OneTells, Inside, Telling
  <2> QED BY <2>3, <2>4 DEF TellsInv
<1> QED BY <1>1, <1>2 DEF Gate

\* Viewers, and the receivers of snapshots.
LEMMA OthersStayOutside ==
    ASSUME TellsInv, Viewers \cap Conns = {},
           \/ \E v \in Viewers : Subscribe(v) \/ Viewer(v) \/ Leave(v)
           \/ \E c \in Conns : Receiver(c)
    PROVE  TellsInv'
<1>0. Conns \subseteq Procs /\ Viewers \subseteq Procs
  BY DEF Procs
<1>1. ASSUME NEW v \in Viewers, Subscribe(v) PROVE TellsInv'
  <2>1. /\ web[v] = "new" /\ web' = [web EXCEPT ![v] = "open"]
        /\ pc' = [pc EXCEPT ![v] = "gate"] /\ UNCHANGED gateVars
        /\ \E y \in {"replay", "read"} : ret' = [ret EXCEPT ![v] = y]
    BY <1>1 DEF Subscribe, GateNext
  <2>2. ~Inside(v)
    BY <2>1 DEF TellsInv, PlaceType, Inside
  <2>3. web' \in [Viewers -> {"new", "open", "broken"}]
        /\ \A w \in Viewers : web'[w] = "new" => web[w] = "new" /\ w # v
    BY <2>1 DEF TellsInv, PlaceType
  <2>4. v \in Procs /\ "gate" \notin {"list", "tell"}
        /\ \E y \in {"idle", "replay", "read", "done"} : ret' = [ret EXCEPT ![v] = y]
    BY <2>1, <1>0
  <2> QED BY <2>1, <2>2, <2>3, <2>4, OutsideKeeps
<1>2. ASSUME NEW v \in Viewers, Viewer(v) PROVE TellsInv'
  <2>1. /\ pc[v] \in {"replay", "read"} /\ UNCHANGED <<web, gateVars>>
        /\ \E x \in {"gate", "read", "done", "replay"} : pc' = [pc EXCEPT ![v] = x]
        /\ (ret' = ret \/ \E y \in {"read", "done"} : ret' = [ret EXCEPT ![v] = y])
    BY <1>2 DEF Viewer, Replay, ReplayFails, Unsubscribe, GateNext, viewVars, TellsInv, PlaceType
  <2>2. ~Inside(v) /\ web[v] # "new" /\ web \in [Viewers -> {"new", "open", "broken"}]
    BY <2>1 DEF TellsInv, PlaceType, Inside
  <2> QED BY <2>1, <2>2, <1>0, OutsideKeeps
<1>3. ASSUME NEW v \in Viewers, Leave(v) PROVE TellsInv'
  <2>1. web[v] = "open" /\ web' = [web EXCEPT ![v] = "broken"] /\ UNCHANGED <<gateVars, procVars>>
    BY <1>3 DEF Leave
  <2> QED BY <2>1, NobodyMoves DEF TellsInv, PlaceType
<1>4. ASSUME NEW c \in Conns, Receiver(c) PROVE TellsInv'
  <2>1. /\ pc[c] \in {"idle", "fan"} /\ UNCHANGED <<web, gateVars>>
        /\ \E x \in {"gate", "idle", "fan"} : pc' = [pc EXCEPT ![c] = x]
        /\ (ret' = ret \/ ret' = [ret EXCEPT ![c] = "idle"])
    BY <1>4 DEF Receiver, Receive, FanOut, DropFailed, Fan, GateNext, viewVars
  <2>2. ~Inside(c) /\ web \in [Viewers -> {"new", "open", "broken"}] /\ \A v \in Viewers : v # c
    BY <2>1 DEF TellsInv, PlaceType, Inside
  <2> QED BY <2>1, <2>2, <1>0, OutsideKeeps
<1> QED BY <1>1, <1>2, <1>3, <1>4

\* The gate's invariant, for every behaviour.
THEOREM TellsHold == Spec => []TellsInv
<1>1. Init => TellsInv
  <2>1. Init => PlaceType
    BY DEF Init, PlaceType, Procs
  <2>2. Init => OneTells
    BY DEF Init, OneTells, Inside
  <2> QED BY <2>1, <2>2 DEF TellsInv
<1>2. TellsInv /\ [Next]_vars => TellsInv'
  <2> SUFFICES ASSUME TellsInv, [Next]_vars PROVE TellsInv'
    OBVIOUS
  <2>0. Viewers \cap Conns = {}
    BY OverviewAssumption DEF Conns
  <2>1. CASE \E g \in Procs : Gate(g)
    BY <2>1, GateIsSerial
  <2>2. CASE \/ \E v \in Viewers : Subscribe(v) \/ Viewer(v) \/ Leave(v)
             \/ \E c \in Conns : Receiver(c)
    BY <2>0, <2>2, OthersStayOutside
  <2>3. CASE UNCHANGED <<gateVars, procVars, web>>
    BY <2>3, NobodyMoves DEF TellsInv, PlaceType
  <2> QED BY <2>1, <2>2, <2>3 DEF Next, StreamEnds, Handler, Register, Check, Enable,
       Unregister, Connect, Drop, Switch, Producer, Tick, Render, Relay, Output, vars, viewVars
<1> QED BY <1>1, <1>2, PTL DEF Spec

\* controlMu serializes the control calls (applyGate): one goroutine at a
\* time tells the agents, and it holds the mutex until all are told.
THEOREM OneGoroutineTells == Spec => []OneTells
<1>1. TellsInv => OneTells
  BY DEF TellsInv
<1> QED BY <1>1, TellsHold, PTL

-----------------------------------------------------------------------------
\* Viewer v has been sent the screen that the hub holds of k, or a newer one,
\* or it is about to be: by its replay or by a fan-out.
Given(v, k) ==
    \/ latest[k] = None
    \/ seen[v][k] >= latest[k]
    \/ <<k, latest[k]>> \in replay[v]
    \/ \E c \in Conns : v \in fan[c].left /\ fan[c].snap = <<k, latest[k]>>

\* Whoever is there is subscribed and is given what the hub holds.
ViewersAreServed == \A v \in Viewers : web[v] = "open" => v \in subs /\ \A k \in Keys : Given(v, k)

\* A replay is carried on with, and only viewers that are gone fail.
ServeInv ==
    /\ ViewersAreServed
    /\ \A v \in Viewers : replay[v] # {} =>
          pc[v] = "replay" \/ (pc[v] \in {"gate", "list", "tell"} /\ ret[v] = "replay")
    /\ \A c \in Conns : fan[c].failed \subseteq {v \in Viewers : web[v] = "broken"}

\* A Send brings its viewer up to the screen, and takes nothing back.
LEMMA SendServes ==
    ASSUME ScreenType, NEW v \in Viewers, NEW snap, Fits(snap), Sends(v, snap)
    PROVE  /\ seen'[v][snap[1]] >= snap[2]
           /\ \A w \in Viewers, k \in Keys : seen'[w][k] >= seen[w][k]
<1>1. snap[1] \in Keys /\ snap[2] \in Int
  BY DEF Fits
<1> DEFINE old == seen[v][snap[1]]
           r   == IF snap[2] > old THEN snap[2] ELSE old
           row == [seen[v] EXCEPT ![snap[1]] = r]
<1>2. seen' = [seen EXCEPT ![v] = row]
  BY DEF Sends
<1>3. seen[v] \in [Keys -> Int] /\ old \in Int
  BY <1>1 DEF ScreenType
<1>4. r \in Int /\ r >= snap[2] /\ r >= old
  BY <1>1, <1>3
<1> HIDE DEF r
<1>5. row[snap[1]] = r /\ \A k \in Keys : row[k] >= seen[v][k]
  BY <1>1, <1>3, <1>4
<1> HIDE DEF row, old
<1>6. \A w \in Viewers, k \in Keys : seen[w][k] \in Int
  BY DEF ScreenType
<1> QED BY <1>2, <1>4, <1>5, <1>6 DEF ScreenType

\* The steps that leave the viewers alone.
LEMMA ServedAlone ==
    ASSUME ServeInv, UNCHANGED <<latest, seen, replay, fan, web, subs>>,
           \A v \in Viewers : pc'[v] = pc[v] /\ ret'[v] = ret[v]
    PROVE  ServeInv'
BY DEF ServeInv, ViewersAreServed, Given

\* The gate.
LEMMA GateServes ==
    ASSUME ServeInv, PlaceType, NEW g \in Procs, Gate(g)
    PROVE  ServeInv'
<1>1. UNCHANGED <<latest, seen, replay, fan, web, subs, ret>>
      /\ pc[g] \in {"gate", "list", "tell"}
      /\ \E x \in {"list", "tell", ret[g]} : pc' = [pc EXCEPT ![g] = x]
  BY DEF Gate, GateEnter, GateList, GateTell, Telling, hubVars, viewVars
<1>2. ViewersAreServed'
      /\ \A c \in Conns : fan'[c].failed \subseteq {v \in Viewers : web'[v] = "broken"}
  BY <1>1 DEF ServeInv, ViewersAreServed, Given
<1>3. ASSUME NEW v \in Viewers, replay'[v] # {}
      PROVE  pc'[v] = "replay" \/ (pc'[v] \in {"gate", "list", "tell"} /\ ret'[v] = "replay")
  BY <1>1, <1>3 DEF ServeInv, PlaceType
<1> QED BY <1>2, <1>3 DEF ServeInv

\* A viewer subscribes and is replayed to, leaves, is counted out.
LEMMA ViewerServes ==
    ASSUME ServeInv, PlaceType, ScreenType, Viewers \cap Conns = {},
           NEW v \in Viewers, Subscribe(v) \/ Viewer(v) \/ Leave(v)
    PROVE  ServeInv'
<1>0. v \in Procs /\ Viewers \subseteq Procs
  BY DEF Procs
<1>1. CASE Subscribe(v)
  <2>1. /\ UNCHANGED <<latest, seen, fan>> /\ web[v] = "new"
        /\ web' = [web EXCEPT ![v] = "open"] /\ subs' = subs \cup {v}
        /\ pc' = [pc EXCEPT ![v] = "gate"]
    BY <1>1 DEF Subscribe, GateNext
  <2> DEFINE cached == {k \in Keys : latest[k] # None}
             shots  == {<<k, latest[k]>> : k \in cached}
  <2>2. /\ replay' = [replay EXCEPT ![v] = shots]
        /\ ret' = [ret EXCEPT ![v] = IF cached = {} THEN "read" ELSE "replay"]
    BY <1>1 DEF Subscribe, GateNext
  <2>3. \A k \in Keys : latest[k] = None \/ <<k, latest[k]>> \in shots
    OBVIOUS
  <2>4. shots # {} => cached # {}
    OBVIOUS
  <2> HIDE DEF shots, cached
  <2>5. ASSUME NEW w \in Viewers, web'[w] = "open"
        PROVE  w \in subs' /\ \A k \in Keys : Given(w, k)'
    <3>1. CASE w = v
      BY <3>1, <2>1, <2>2, <2>3 DEF Given, ScreenType
    <3>2. CASE w # v
      <4>1. web[w] = "open" /\ replay'[w] = replay[w]
        BY <3>2, <2>1, <2>2, <2>5 DEF PlaceType, ScreenType
      <4> QED BY <4>1, <2>1 DEF ServeInv, ViewersAreServed, Given
    <3> QED BY <3>1, <3>2
  <2>6. ASSUME NEW w \in Viewers, replay'[w] # {}
        PROVE  pc'[w] = "replay" \/ (pc'[w] \in {"gate", "list", "tell"} /\ ret'[w] = "replay")
    BY <2>1, <2>2, <2>4, <2>6, <1>0 DEF ServeInv, PlaceType, ScreenType
  <2>7. \A c \in Conns : fan'[c].failed \subseteq {w \in Viewers : web'[w] = "broken"}
    BY <2>1 DEF ServeInv, PlaceType
  <2> QED BY <2>5, <2>6, <2>7 DEF ServeInv, ViewersAreServed
<1>2. CASE \E snap \in replay[v] : Replay(v, snap)
  <2>1. PICK snap \in replay[v] : Replay(v, snap)
    BY <1>2
  <2>2. /\ UNCHANGED <<latest, fan, web, subs, ret, scr>>
        /\ Sends(v, snap) /\ pc[v] = "replay"
        /\ replay' = [replay EXCEPT ![v] = @ \ {snap}]
        /\ pc' = [pc EXCEPT ![v] = IF replay[v] = {snap} THEN "read" ELSE @]
    BY <2>1 DEF Replay, hubVars, agentVars
  <2>3. Fits(snap)
    BY DEF ScreenType
  <2>4. /\ seen'[v][snap[1]] >= snap[2]
        /\ \A w \in Viewers, k \in Keys : seen'[w][k] >= seen[w][k]
    BY <2>2, <2>3, SendServes
  <2>5. ASSUME NEW w \in Viewers, NEW k \in Keys, Given(w, k) PROVE Given(w, k)'
    <3>1. CASE latest[k] = None \/ \E c \in Conns : w \in fan[c].left
                                               /\ fan[c].snap = <<k, latest[k]>>
      BY <3>1, <2>2 DEF Given
    <3>2. CASE seen[w][k] >= latest[k]
      <4>1. seen[w][k] \in Int /\ latest[k] \in Int /\ seen'[w][k] \in Int
        <5>1. seen' \in [Viewers -> [Keys -> Int]]
          BY <2>2, <2>3, SendTypes
        <5> QED BY <5>1 DEF ScreenType
      <4> QED BY <3>2, <4>1, <2>2, <2>4 DEF Given
    <3>3. CASE <<k, latest[k]>> \in replay[w]
      <4>1. CASE w = v /\ <<k, latest[k]>> = snap
        BY <4>1, <2>2, <2>4 DEF Given
      <4>2. CASE ~(w = v /\ <<k, latest[k]>> = snap)
        BY <4>2, <3>3, <2>2 DEF Given, ScreenType
      <4> QED BY <4>1, <4>2
    <3> QED BY <2>5, <3>1, <3>2, <3>3 DEF Given
  <2>6. ViewersAreServed'
    BY <2>2, <2>5 DEF ServeInv, ViewersAreServed
  <2>7. ASSUME NEW w \in Viewers, replay'[w] # {}
        PROVE  pc'[w] = "replay" \/ (pc'[w] \in {"gate", "list", "tell"} /\ ret'[w] = "replay")
    BY <2>2, <2>7, <1>0 DEF ServeInv, PlaceType, ScreenType
  <2> QED BY <2>2, <2>6, <2>7 DEF ServeInv
<1>3. CASE ReplayFails(v) \/ Unsubscribe(v) \/ Leave(v)
  <2>1. /\ UNCHANGED <<latest, seen, fan>> /\ subs \ {v} \subseteq subs'
        /\ web'[v] = "broken" /\ \A w \in Viewers : w # v => web'[w] = web[w]
        /\ web' = web \/ web' = [web EXCEPT ![v] = "broken"]
    BY <1>3 DEF ReplayFails, Unsubscribe, Leave, hubVars, viewVars, PlaceType
  <2>4. \A c \in Conns : fan'[c].failed \subseteq {w \in Viewers : web'[w] = "broken"}
    BY <2>1 DEF ServeInv, PlaceType
  <2>2. ASSUME NEW w \in Viewers, web'[w] = "open"
        PROVE  w \in subs' /\ \A k \in Keys : Given(w, k)'
    <3>1. w # v /\ web[w] = "open"
      BY <2>1, <2>2
    <3>2. replay'[w] = replay[w]
      BY <1>3, <3>1 DEF ReplayFails, Unsubscribe, Leave, viewVars, ScreenType
    <3> QED BY <2>1, <3>1, <3>2 DEF ServeInv, ViewersAreServed, Given
  <2>3. ASSUME NEW w \in Viewers, replay'[w] # {}
        PROVE  pc'[w] = "replay" \/ (pc'[w] \in {"gate", "list", "tell"} /\ ret'[w] = "replay")
    <3>1. replay'[w] = replay[w]
      BY <1>3, <2>3 DEF ReplayFails, Unsubscribe, Leave, viewVars, ScreenType
    <3>2. w # v \/ Leave(v)
      BY <1>3, <2>3, <3>1 DEF ReplayFails, Unsubscribe, viewVars, ServeInv, ScreenType
    <3>3. pc'[w] = pc[w] /\ ret'[w] = ret[w]
      BY <1>0, <1>3, <3>2 DEF ReplayFails, Unsubscribe, Leave, GateNext, procVars, PlaceType
    <3> QED BY <2>3, <3>1, <3>3 DEF ServeInv
  <2> QED BY <2>2, <2>3, <2>4 DEF ServeInv, ViewersAreServed
<1> QED BY <1>1, <1>2, <1>3 DEF Viewer

\* A snapshot is received, sent to the viewers, and the failed ones dropped.
LEMMA ReceiverServes ==
    ASSUME ServeInv, PlaceType, TypeInv, Viewers \cap Conns = {}, NEW c \in Conns, Receiver(c)
    PROVE  ServeInv'
<1> USE DEF TypeInv
<1>0. c \in Procs /\ \A w \in Viewers : w \in Procs /\ w # c
  BY DEF Procs
<1>1. /\ UNCHANGED <<replay, web, scr>>
      /\ \A w \in Viewers : pc'[w] = pc[w] /\ ret'[w] = ret[w]
  BY <1>0 DEF agentVars, Receiver, Receive, FanOut, DropFailed, Fan, GateNext, viewVars, PlaceType
<1>2. \A w \in Viewers : replay'[w] # {} =>
         pc'[w] = "replay" \/ (pc'[w] \in {"gate", "list", "tell"} /\ ret'[w] = "replay")
  BY <1>1 DEF ServeInv
<1>3. CASE Receive(c)
  <2> DEFINE snap == Head(stream[c])
  <2>1. /\ UNCHANGED <<seen, subs>> /\ stream[c] # <<>> /\ pc[c] = "idle"
        /\ latest' = [latest EXCEPT ![snap[1]] = snap[2]]
        /\ Fan(c, snap, subs, {})
    BY <1>3 DEF Receive, viewVars
  <2>2. stream[c] \in Seq(Shots(owner[c], scr))
    BY <2>1 DEF WireType
  <2>3. snap \in Shots(owner[c], scr)
    BY <2>1, <2>2
  <2> HIDE DEF snap
  <2>4. snap \in Keys \X Int /\ snap = <<snap[1], snap[2]>>
    BY <2>3 DEF Shots
  <2>5. fan[c] = NoFan
    BY <2>1 DEF ScreenType
  <2>6. /\ \A d \in Conns : d # c => fan'[d] = fan[d]
        /\ fan'[c] = NoFan \/ fan'[c] = [snap |-> snap, left |-> subs, failed |-> {}]
        /\ subs # {} => fan'[c].left = subs /\ fan'[c].snap = snap
    BY <2>1 DEF Fan, ScreenType
  <2>7. ASSUME NEW w \in Viewers, NEW k \in Keys, w \in subs, Given(w, k) PROVE Given(w, k)'
    <3>1. CASE k = snap[1]
      <4>1. latest'[k] = snap[2]
        BY <3>1, <2>1 DEF ScreenType
      <4>2. w \in fan'[c].left /\ fan'[c].snap = <<k, latest'[k]>>
        BY <2>4, <2>6, <2>7, <3>1, <4>1
      <4> QED BY <4>2 DEF Given
    <3>2. CASE k # snap[1]
      <4>1. latest'[k] = latest[k]
        BY <3>2, <2>1 DEF ScreenType
      <4>2. \A d \in Conns : w \in fan[d].left => fan'[d] = fan[d]
        BY <2>5, <2>6 DEF NoFan
      <4> QED BY <2>7, <4>1, <4>2, <1>1, <2>1 DEF Given
    <3> QED BY <3>1, <3>2
  <2>8. ViewersAreServed'
    BY <2>1, <2>7, <1>1 DEF ServeInv, ViewersAreServed
  <2>9. \A d \in Conns : fan'[d].failed \subseteq {w \in Viewers : web'[w] = "broken"}
    BY <2>6, <1>1 DEF ServeInv, NoFan
  <2> QED BY <2>8, <2>9, <1>2 DEF ServeInv
<1>4. CASE \E v \in Viewers : FanOut(c, v)
  <2>1. PICK v \in Viewers : FanOut(c, v)
    BY <1>4
  <2> DEFINE snap == fan[c].snap
  <2>2. /\ UNCHANGED <<latest, subs>> /\ v \in fan[c].left
        /\ \/ Sends(v, snap) /\ Fan(c, snap, fan[c].left \ {v}, fan[c].failed)
           \/ /\ web[v] = "broken" /\ UNCHANGED seen
              /\ Fan(c, snap, fan[c].left \ {v}, fan[c].failed \cup {v})
    BY <2>1 DEF FanOut, hubVars
  <2>3. fan[c] # NoFan /\ Fits(snap)
    BY <2>2 DEF NoFan, ScreenType
  <2>4. /\ \A d \in Conns : d # c => fan'[d] = fan[d]
        /\ \A w : w \in fan[c].left /\ w # v => w \in fan'[c].left /\ fan'[c].snap = snap
        /\ \A w : w \in fan'[c].failed => w \in fan[c].failed \/ (w = v /\ web[v] = "broken")
    BY <2>2 DEF Fan, ScreenType, NoFan
  <2>5. /\ web[v] # "broken" => seen'[v][snap[1]] >= snap[2]
        /\ \A w \in Viewers, k \in Keys : seen'[w][k] >= seen[w][k]
        /\ seen' \in [Viewers -> [Keys -> Int]]
    <3>1. CASE Sends(v, snap)
      BY <3>1, <2>3, <1>1, SendServes, SendTypes
    <3>2. CASE web[v] = "broken" /\ UNCHANGED seen
      BY <3>2 DEF ScreenType
    <3> QED BY <2>2, <3>1, <3>2
  <2>6. ASSUME NEW w \in Viewers, NEW k \in Keys, web[w] = "open", Given(w, k)
        PROVE  Given(w, k)'
    <3>1. CASE latest[k] = None \/ <<k, latest[k]>> \in replay[w]
      BY <3>1, <2>2, <1>1 DEF Given
    <3>2. CASE seen[w][k] >= latest[k]
      <4>1. seen[w][k] \in Int /\ latest[k] \in Int /\ seen'[w][k] \in Int
        BY <2>5 DEF ScreenType
      <4> QED BY <3>2, <4>1, <2>2, <2>5 DEF Given
    <3>3. ASSUME NEW d \in Conns, w \in fan[d].left, fan[d].snap = <<k, latest[k]>>
          PROVE  Given(w, k)'
      <4>1. CASE d = c /\ w = v
        BY <4>1, <3>3, <2>2, <2>5, <2>6 DEF Given
      <4>2. CASE d # c \/ w # v
        BY <4>2, <3>3, <2>2, <2>4 DEF Given
      <4> QED BY <4>1, <4>2
    <3> QED BY <2>6, <3>1, <3>2, <3>3 DEF Given
  <2>7. ViewersAreServed'
    BY <2>2, <2>6, <1>1 DEF ServeInv, ViewersAreServed
  <2>8. \A d \in Conns : fan'[d].failed \subseteq {w \in Viewers : web'[w] = "broken"}
    BY <2>4, <1>1 DEF ServeInv
  <2> QED BY <2>7, <2>8, <1>2 DEF ServeInv
<1>5. CASE DropFailed(c)
  <2>1. /\ UNCHANGED <<latest, seen>> /\ fan[c].left = {}
        /\ subs' = subs \ fan[c].failed /\ fan' = [fan EXCEPT ![c] = NoFan]
    BY <1>5 DEF DropFailed, viewVars
  <2>2. \A d \in Conns : \A w : w \in fan[d].left => fan'[d] = fan[d]
    BY <2>1 DEF ScreenType
  <2>3. \A w \in Viewers, k \in Keys : Given(w, k) => Given(w, k)'
    BY <2>1, <2>2, <1>1 DEF Given
  <2>4. \A w \in Viewers : web[w] = "open" => w \notin fan[c].failed
    BY DEF ServeInv
  <2>5. ViewersAreServed'
    BY <2>1, <2>3, <2>4, <1>1 DEF ServeInv, ViewersAreServed
  <2>6. \A d \in Conns : fan'[d].failed \subseteq {w \in Viewers : web'[w] = "broken"}
    BY <2>1, <1>1 DEF ServeInv, ScreenType, NoFan
  <2> QED BY <2>5, <2>6, <1>2 DEF ServeInv
<1> QED BY <1>3, <1>4, <1>5 DEF Receiver

\* The viewers' invariant, for every behaviour.
THEOREM ServesHold == Spec => []ServeInv
<1>1. Init => ServeInv
  BY DEF Init, ServeInv, ViewersAreServed, NoFan
<1>2. TypeInv /\ TellsInv /\ ServeInv /\ [Next]_vars => ServeInv'
  <2> SUFFICES ASSUME TypeInv, PlaceType, ServeInv, [Next]_vars PROVE ServeInv'
    BY DEF TellsInv
  <2>0. Viewers \cap Conns = {} /\ ScreenType
    BY OverviewAssumption DEF Conns, TypeInv
  <2>1. CASE \E g \in Procs : Gate(g)
    BY <2>1, GateServes
  <2>2. CASE \E v \in Viewers : Subscribe(v) \/ Viewer(v) \/ Leave(v)
    BY <2>0, <2>2, ViewerServes
  <2>3. CASE \E c \in Conns : Receiver(c)
    BY <2>0, <2>3, ReceiverServes
  <2>4. CASE UNCHANGED <<hubVars, procVars, viewVars, fan>>
    BY <2>4, ServedAlone DEF hubVars, procVars, viewVars
  <2> QED BY <2>1, <2>2, <2>3, <2>4 DEF Next, StreamEnds, Handler, Register, Check, Enable,
       Unregister, Connect, Drop, Switch, Producer, Tick, Render, Relay, Output, vars
<1> QED BY <1>1, <1>2, TypesHold, TellsHold, PTL DEF Spec

\* What the hub holds of a screen has been sent to whoever is there, or is
\* about to be (Subscribe, ReceiveSnapshot): the copy of the subscribers and
\* the copy of the cache are taken under one lock, so that nobody who comes,
\* leaves or fails in between makes another one miss a screen.
THEOREM NobodyIsPassedOver == Spec => []ViewersAreServed
<1>1. ServeInv => ViewersAreServed
  BY DEF ServeInv
<1> QED BY <1>1, ServesHold, PTL

-----------------------------------------------------------------------------
\* As long as Hellos are handled in order, the connection that a machine has
\* is the one it is registered with, once its Hello is handled.
Registered ==
    /\ \A m \in Machines : conn[m] # 0 /\ handler[conn[m]] \in {"check", "enable", "serve"}
                              => registry[m] = conn[m]
    /\ \A c \in Conns : handler[c] = "hello" /\ conn[owner[c]] # 0 => conn[owner[c]] = c

\* A connection that is not broken is the one of its machine.
LEMMA OneConnection ==
    ASSUME LinkType, NEW m \in Machines, conn[m] # 0
    PROVE  /\ conn[m] \in up /\ owner[conn[m]] = m
           /\ conn[m] \in 1 .. Len(owner) /\ conn[m] \in Conns
BY OverviewAssumption DEF LinkType, Conns

\* The registry.
LEMMA RegistryKeeps ==
    ASSUME "lateHello" \notin Faults, LinkType, Registered, [Next]_vars
    PROVE  Registered'
<1>1. CASE UNCHANGED <<linkVars, hubLink>>
  BY <1>1 DEF Registered, linkVars, hubLink
<1>2. ASSUME NEW c \in Conns, Register(c) PROVE Registered'
  <2>1. /\ handler[c] = "hello" /\ UNCHANGED <<owner, conn>>
        /\ registry' = [registry EXCEPT ![owner[c]] = c]
        /\ handler' = [handler EXCEPT ![c] = "check"]
    BY <1>2 DEF Register, linkVars
  <2>2. owner[c] \in Machines /\ (conn[owner[c]] # 0 => conn[owner[c]] = c)
    <3>1. c \in 1 .. Len(owner)
      BY <2>1 DEF LinkType
    <3>2. owner[c] \in Machines
      BY <3>1 DEF LinkType
    <3> QED BY <2>1, <3>2 DEF Registered
  <2>3. ASSUME NEW m \in Machines, conn[m] # 0, handler'[conn[m]] \in {"check", "enable", "serve"}
        PROVE  registry'[m] = conn[m]
    <3>1. CASE m = owner[c]
      BY <3>1, <2>1, <2>2, <2>3 DEF LinkType
    <3>2. CASE m # owner[c]
      <4>1. conn[m] # c /\ conn[m] \in Conns
        BY <3>2, <2>3, OneConnection
      <4> QED BY <3>2, <4>1, <2>1, <2>3 DEF Registered, LinkType
    <3> QED BY <3>1, <3>2
  <2>4. ASSUME NEW d \in Conns, handler'[d] = "hello", conn'[owner'[d]] # 0
        PROVE  conn'[owner'[d]] = d
    BY <2>1, <2>4 DEF Registered, LinkType
  <2> QED BY <2>1, <2>3, <2>4 DEF Registered
<1>3. ASSUME NEW c \in Conns, Check(c) \/ Enable(c) PROVE Registered'
  <2>1. /\ handler[c] \in {"check", "enable"} /\ UNCHANGED <<owner, conn, registry>>
        /\ \E x \in {"enable", "serve"} : handler' = [handler EXCEPT ![c] = x]
    BY <1>3 DEF Check, Enable, linkVars
  <2> QED BY <2>1 DEF Registered, LinkType
<1>4. ASSUME NEW c \in Conns, Unregister(c) PROVE Registered'
  <2>1. /\ handler[c] # "none" /\ c \notin up /\ UNCHANGED <<owner, conn>>
        /\ registry' = [registry EXCEPT ![owner[c]] = IF @ = c THEN 0 ELSE @]
        /\ \E x \in {"gone", "failed"} : handler' = [handler EXCEPT ![c] = x]
    BY <1>4 DEF Unregister, linkVars
  <2>2. owner[c] \in Machines
    BY <2>1 DEF LinkType
  <2>3. ASSUME NEW m \in Machines, conn[m] # 0, handler'[conn[m]] \in {"check", "enable", "serve"}
        PROVE  registry'[m] = conn[m]
    <3>1. conn[m] # c /\ conn[m] \in Conns
      BY <2>1, <2>3, OneConnection
    <3> QED BY <3>1, <2>1, <2>2, <2>3 DEF Registered, LinkType
  <2>4. ASSUME NEW d \in Conns, handler'[d] = "hello", conn'[owner'[d]] # 0
        PROVE  conn'[owner'[d]] = d
    BY <2>1, <2>4 DEF Registered, LinkType
  <2> QED BY <2>1, <2>3, <2>4 DEF Registered
<1>5. ASSUME NEW m \in Machines, Connect(m) PROVE Registered'
  <2> DEFINE c == Len(owner) + 1
  <2>1. /\ conn[m] = 0 /\ c <= MaxConns /\ UNCHANGED registry
        /\ owner' = Append(owner, m) /\ conn' = [conn EXCEPT ![m] = c]
        /\ handler' = [handler EXCEPT ![c] = "hello"]
        /\ \A d \in DOMAIN owner : owner[d] = m => handler[d] # "hello"
    BY <1>5 DEF Connect, BacksOff
  <2>2. /\ c \in Conns /\ c \notin 1 .. Len(owner) /\ owner'[c] = m
        /\ \A d \in 1 .. Len(owner) : owner'[d] = owner[d] /\ d \in DOMAIN owner
    BY <2>1, OverviewAssumption DEF LinkType, Conns
  <2> HIDE DEF c
  <2>3. ASSUME NEW n \in Machines, conn'[n] # 0,
               handler'[conn'[n]] \in {"check", "enable", "serve"}
        PROVE  registry'[n] = conn'[n]
    <3>1. n # m
      BY <2>1, <2>2, <2>3 DEF LinkType
    <3>2. conn'[n] = conn[n] /\ conn[n] # c /\ conn[n] \in Conns
      BY <3>1, <2>1, <2>2, <2>3, OneConnection DEF LinkType
    <3> QED BY <3>2, <2>1, <2>3 DEF Registered, LinkType
  <2>4. ASSUME NEW d \in Conns, handler'[d] = "hello", conn'[owner'[d]] # 0
        PROVE  conn'[owner'[d]] = d
    <3>1. CASE d = c
      BY <3>1, <2>1, <2>2 DEF LinkType
    <3>2. CASE d # c
      <4>1. handler[d] = "hello" /\ d \in 1 .. Len(owner)
        BY <3>2, <2>1, <2>4 DEF LinkType
      <4>2. owner'[d] = owner[d] /\ owner[d] \in Machines /\ owner[d] # m
        BY <4>1, <2>1, <2>2 DEF LinkType
      <4> QED BY <4>1, <4>2, <2>1, <2>4 DEF Registered, LinkType
    <3> QED BY <3>1, <3>2
  <2> QED BY <2>3, <2>4 DEF Registered
<1>6. ASSUME NEW m \in Machines, Drop(m) PROVE Registered'
  <2>1. UNCHANGED <<owner, hubLink>> /\ conn' = [conn EXCEPT ![m] = 0]
    BY <1>6 DEF Drop
  <2> QED BY <2>1 DEF Registered, LinkType, hubLink
<1> QED
  <2>1. CASE \E g \in Procs : Gate(g)
    BY <2>1, <1>1 DEF Gate, GateEnter, GateList, GateTell
  <2>2. CASE \E v \in Viewers : Subscribe(v) \/ Viewer(v) \/ Leave(v)
    BY <2>2, <1>1 DEF Subscribe, Viewer, Leave, Replay, ReplayFails, Unsubscribe
  <2>3. CASE \E c \in Conns : Receiver(c) \/ StreamEnds(c)
    BY <2>3, <1>1 DEF Receiver, Receive, FanOut, DropFailed, StreamEnds
  <2>4. CASE \E m \in Machines : Switch(m) \/ Producer(m) \/ Relay(m)
    BY <2>4, <1>1 DEF Switch, Producer, Tick, Render, Relay
  <2>5. CASE \E k \in Keys : Output(k)
    BY <2>5, <1>1 DEF Output
  <2>6. CASE UNCHANGED vars
    BY <2>6, <1>1 DEF vars
  <2> QED BY <1>2, <1>3, <1>4, <1>5, <1>6, <2>1, <2>2, <2>3, <2>4, <2>5, <2>6 DEF Next, Handler

\* The newest screen of k in a stream is revision r; there is none.
EndsWith(s, k, r) ==
    \E i \in 1 .. Len(s) : s[i] = <<k, r>> /\ \A j \in 1 .. Len(s) : j > i => s[j][1] # k
Silent(s, k) == \A i \in 1 .. Len(s) : s[i][1] # k

\* What the producer noted as sent, r, is the newest screen of k between it
\* and the hub, where the local stream comes before the connection's and that
\* before the cache; or an enable made it forget.
Follows(k, r, local, remote, cached) ==
    \/ r = None
    \/ EndsWith(local, k, r)
    \/ Silent(local, k) /\ EndsWith(remote, k, r)
    \/ Silent(local, k) /\ Silent(remote, k) /\ cached = r

\* A screen is appended to a stream.
LEMMA AppendEnds ==
    ASSUME NEW S, NEW s \in Seq(S), NEW k, NEW r, NEW e \in S
    PROVE  /\ e = <<k, r>> => EndsWith(Append(s, e), k, r)
           /\ e[1] # k /\ EndsWith(s, k, r) => EndsWith(Append(s, e), k, r)
           /\ e[1] # k /\ Silent(s, k) => Silent(Append(s, e), k)
<1> DEFINE t == Append(s, e)
<1>1. /\ Len(s) \in Nat /\ Len(t) = Len(s) + 1 /\ t[Len(s) + 1] = e
      /\ \A i \in 1 .. Len(s) : t[i] = s[i]
  OBVIOUS
<1> HIDE DEF t
<1>2. e = <<k, r>> => EndsWith(t, k, r)
  BY <1>1 DEF EndsWith
<1>3. ASSUME e[1] # k, EndsWith(s, k, r) PROVE EndsWith(t, k, r)
  <2>1. PICK i \in 1 .. Len(s) : s[i] = <<k, r>> /\ \A j \in 1 .. Len(s) : j > i => s[j][1] # k
    BY <1>3 DEF EndsWith
  <2>2. i \in 1 .. Len(t) /\ t[i] = <<k, r>>
    BY <1>1, <2>1
  <2>3. \A j \in 1 .. Len(t) : j > i => t[j][1] # k
    BY <1>1, <1>3, <2>1
  <2> QED BY <2>2, <2>3 DEF EndsWith
<1>4. ASSUME e[1] # k, Silent(s, k) PROVE Silent(t, k)
  BY <1>1, <1>4 DEF Silent
<1> QED BY <1>2, <1>3, <1>4 DEF t

\* The first screen of a stream is taken.
LEMMA TailEnds ==
    ASSUME NEW S, NEW s \in Seq(S), s # <<>>, NEW k, NEW r
    PROVE  /\ Silent(s, k) => Silent(Tail(s), k) /\ Head(s)[1] # k
           /\ EndsWith(s, k, r) =>
                 EndsWith(Tail(s), k, r) \/ (Silent(Tail(s), k) /\ Head(s) = <<k, r>>)
<1> DEFINE t == Tail(s)
<1>1. /\ Len(s) \in Nat /\ Len(s) > 0 /\ Len(t) = Len(s) - 1 /\ Head(s) = s[1]
      /\ \A i \in 1 .. Len(t) : t[i] = s[i + 1]
  OBVIOUS
<1> HIDE DEF t
<1>2. ASSUME Silent(s, k) PROVE Silent(t, k) /\ Head(s)[1] # k
  BY <1>1, <1>2 DEF Silent
<1>3. ASSUME EndsWith(s, k, r)
      PROVE  EndsWith(t, k, r) \/ (Silent(t, k) /\ Head(s) = <<k, r>>)
  <2>1. PICK i \in 1 .. Len(s) : s[i] = <<k, r>> /\ \A j \in 1 .. Len(s) : j > i => s[j][1] # k
    BY <1>3 DEF EndsWith
  <2>2. CASE i = 1
    BY <1>1, <2>1, <2>2 DEF Silent
  <2>3. CASE i # 1
    <3>1. i - 1 \in 1 .. Len(t) /\ t[i - 1] = <<k, r>>
      <4>1. i \in Nat /\ i - 1 \in 1 .. Len(t) /\ (i - 1) + 1 = i
        BY <1>1, <2>1, <2>3
      <4>2. t[i - 1] = s[(i - 1) + 1]
        BY <1>1, <4>1
      <4> QED BY <2>1, <4>1, <4>2
    <3>2. \A j \in 1 .. Len(t) : j > i - 1 => t[j][1] # k
      BY <1>1, <2>1, <2>3
    <3> QED BY <3>1, <3>2 DEF EndsWith
  <2> QED BY <2>2, <2>3
<1> QED BY <1>2, <1>3 DEF t

\* A screen goes from the local stream to that of the connection.
LEMMA RelayFollows ==
    ASSUME NEW S, NEW q \in Seq(S), q # <<>>, NEW s \in Seq(S), NEW k, NEW r, NEW x,
           Follows(k, r, q, s, x)
    PROVE  Follows(k, r, Tail(q), Append(s, Head(q)), x)
<1> DEFINE e == Head(q)
<1>1. e \in S
  OBVIOUS
<1>2. /\ Silent(q, k) => Silent(Tail(q), k) /\ e[1] # k
      /\ EndsWith(q, k, r) => EndsWith(Tail(q), k, r) \/ (Silent(Tail(q), k) /\ e = <<k, r>>)
  BY TailEnds
<1>3. /\ e = <<k, r>> => EndsWith(Append(s, e), k, r)
      /\ e[1] # k /\ EndsWith(s, k, r) => EndsWith(Append(s, e), k, r)
      /\ e[1] # k /\ Silent(s, k) => Silent(Append(s, e), k)
  BY <1>1, AppendEnds
<1> HIDE DEF e
<1> QED BY <1>2, <1>3 DEF Follows, e

\* The hub receives the first screen of the connection's stream.
LEMMA ReceiveFollows ==
    ASSUME NEW S, NEW q, NEW s \in Seq(S), s # <<>>, NEW k, NEW r, NEW x, NEW y,
           Follows(k, r, q, s, x),
           Head(s)[1] # k => y = x, Head(s)[1] = k => y = Head(s)[2]
    PROVE  Follows(k, r, q, Tail(s), y)
<1>1. /\ Silent(s, k) => Silent(Tail(s), k) /\ Head(s)[1] # k
      /\ EndsWith(s, k, r) =>
            EndsWith(Tail(s), k, r) \/ (Silent(Tail(s), k) /\ Head(s) = <<k, r>>)
  BY TailEnds
<1>2. Head(s) = <<k, r>> => y = r
  OBVIOUS
<1> QED BY <1>1, <1>2 DEF Follows

\* No viewer has gone away.
NobodyLeft == \A v \in Viewers : web[v] # "broken"

\* The producer of m is on, and what it noted is on its way or has arrived.
Producing(m) ==
    /\ prod[m].enabled
    /\ \A t \in Tiles : Follows(<<m, t>>, prod[m].last[<<m, t>>], relay[m], stream[conn[m]],
                               latest[<<m, t>>])

\* m will be told, is being told, or was told to produce.
Told(m) ==
    \/ \E g \in Procs : \/ pc[g] = "list"
                        \/ pc[g] = "tell" /\ m \in todo
    \/ ctl[m] # <<>>
    \/ Producing(m)

\* As long as nobody left, the gate only opens, and every machine that is
\* served is told.
Steady ==
    /\ viewers \in Nat
    /\ lastEnabled \/ subs # {} => viewers > 0
    /\ (\E g \in Procs : Inside(g)) => lastEnabled
    /\ ctl \in [Machines -> Seq({TRUE})]
    /\ \A m \in Machines : lastEnabled /\ conn[m] # 0 /\ handler[conn[m]] = "serve" => Told(m)

\* Nobody stops telling m before it is told.
LEMMA ToldKept ==
    ASSUME NEW m \in Machines, Told(m),
           \A g \in Procs : /\ pc[g] = "list" => pc'[g] = "list"
                            /\ pc[g] = "tell" /\ m \in todo => pc'[g] = "tell" /\ m \in todo',
           ctl[m] # <<>> => ctl'[m] # <<>>,
           Producing(m) => Producing(m)'
    PROVE  Told(m)'
<1>1. CASE \E g \in Procs : pc[g] = "list" \/ (pc[g] = "tell" /\ m \in todo)
  BY <1>1 DEF Told
<1> QED BY <1>1 DEF Told

\* The steps that leave the producer of m and its wires alone.
LEMMA ToldAlone ==
    ASSUME NEW m \in Machines, Told(m),
           \A g \in Procs : /\ pc[g] = "list" => pc'[g] = "list"
                            /\ pc[g] = "tell" /\ m \in todo => pc'[g] = "tell" /\ m \in todo',
           ctl[m] # <<>> => ctl'[m] # <<>>,
           prod'[m] = prod[m], relay'[m] = relay[m], stream'[conn'[m]] = stream[conn[m]],
           \A t \in Tiles : latest'[<<m, t>>] = latest[<<m, t>>]
    PROVE  Told(m)'
<1>1. Producing(m) => Producing(m)'
  BY DEF Producing
<1> QED BY <1>1, ToldKept

\* What is told is an enable.
LEMMA TellsEnable ==
    ASSUME LinkType, ctl \in [Machines -> Seq({TRUE})], NEW c \in Nat, Tell(c, TRUE)
    PROVE  /\ ctl' \in [Machines -> Seq({TRUE})]
           /\ \A m \in Machines : ctl[m] # <<>> => ctl'[m] # <<>>
           /\ c \in up => ctl'[owner[c]] # <<>>
<1>1. CASE c \in up
  <2>1. owner[c] \in Machines
    BY <1>1 DEF LinkType
  <2>2. ctl[owner[c]] \in Seq({TRUE})
    BY <2>1
  <2>3. \A S : \A q \in Seq(S), e \in S : Append(q, e) \in Seq(S) /\ Append(q, e) # <<>>
    <3>1. \A S : \A q \in Seq(S), e \in S :
             Append(q, e) \in Seq(S) /\ Len(Append(q, e)) = Len(q) + 1 /\ Len(q) \in Nat
      OBVIOUS
    <3>2. Len(<<>>) = 0
      OBVIOUS
    <3> QED BY <3>1, <3>2
  <2>4. ctl' = [ctl EXCEPT ![owner[c]] = Append(ctl[owner[c]], TRUE)]
    BY <1>1 DEF Tell
  <2>5. Append(ctl[owner[c]], TRUE) \in Seq({TRUE}) /\ Append(ctl[owner[c]], TRUE) # <<>>
    BY <2>2, <2>3
  <2> QED BY <2>1, <2>4, <2>5
<1>2. CASE c \notin up
  BY <1>2 DEF Tell
<1> QED BY <1>1, <1>2

\* The gate: what is served is on its list, and what is told is told.
LEMMA GateTellsAll ==
    ASSUME Steady, TypeInv, PlaceType, Registered, NEW g \in Procs, Gate(g)
    PROVE  Steady'
<1> USE DEF TypeInv
<1>0. UNCHANGED <<subs, viewers, conn, handler, prod, relay, stream, latest>>
  BY DEF Gate, GateEnter, GateList, GateTell, hubVars, linkVars, hubLink, wires, agentVars
<1>1. CASE GateEnter(g)
  <2>1. /\ pc[g] = "gate" /\ UNCHANGED <<todo, ctl>> /\ lastEnabled' = (viewers > 0)
        /\ \/ lastEnabled' = lastEnabled /\ pc' = [pc EXCEPT ![g] = ret[g]]
           \/ lastEnabled' # lastEnabled /\ pc' = [pc EXCEPT ![g] = "list"]
    BY <1>1 DEF GateEnter, wires
  <2>2. CASE lastEnabled' = lastEnabled /\ pc' = [pc EXCEPT ![g] = ret[g]]
    <3>1. \A h \in Procs : /\ Inside(h)' => Inside(h)
                           /\ pc[h] = "list" => pc'[h] = "list"
                           /\ pc[h] = "tell" => pc'[h] = "tell"
      BY <2>1, <2>2 DEF PlaceType, Inside
    <3>2. \A m \in Machines : Told(m) => Told(m)'
      BY <3>1, <2>1, <1>0, ToldAlone
    <3> QED BY <3>1, <3>2, <2>1, <2>2, <1>0 DEF Steady
  <2>3. CASE lastEnabled' # lastEnabled /\ pc' = [pc EXCEPT ![g] = "list"]
    <3>1. lastEnabled'
      <4>1. viewers > 0 => lastEnabled' = TRUE
        BY <2>1
      <4>2. ~(viewers > 0) => lastEnabled' = FALSE /\ lastEnabled = FALSE
        BY <2>1 DEF Steady
      <4> QED BY <4>1, <4>2, <2>3
    <3>2. \A m \in Machines : Told(m)'
      BY <2>3 DEF PlaceType, Told
    <3> QED BY <3>1, <3>2, <2>1, <1>0 DEF Steady
  <2> QED BY <2>1, <2>2, <2>3
<1>2. CASE GateList(g)
  <2>1. /\ pc[g] = "list" /\ UNCHANGED <<ctl, lastEnabled>>
        /\ Telling(g, {m \in Machines : registry[m] # 0})
    BY <1>2 DEF GateList, wires, hubVars
  <2>2. lastEnabled
    BY <2>1 DEF Steady, Inside
  <2>3. ASSUME NEW m \in Machines, conn[m] # 0, handler[conn[m]] = "serve" PROVE Told(m)'
    <3>1. registry[m] # 0
      BY <2>3 DEF Registered
    <3>2. m \in todo' /\ pc'[g] = "tell"
      BY <3>1, <2>1 DEF Telling, PlaceType
    <3> QED BY <3>2 DEF Told
  <2> QED BY <2>1, <2>2, <2>3, <1>0 DEF Steady
<1>3. ASSUME NEW n \in Machines, GateTell(g, n) PROVE Steady'
  <2>1. /\ pc[g] = "tell" /\ n \in todo /\ UNCHANGED lastEnabled
        /\ Telling(g, todo \ {n}) /\ Tell(registry[n], lastEnabled)
    BY <1>3 DEF GateTell, hubVars
  <2>2. lastEnabled = TRUE /\ registry[n] \in Nat
    BY <2>1 DEF Steady, Inside, LinkType
  <2>3. /\ ctl' \in [Machines -> Seq({TRUE})]
        /\ \A m \in Machines : ctl[m] # <<>> => ctl'[m] # <<>>
        /\ registry[n] \in up => ctl'[owner[registry[n]]] # <<>>
    BY <2>1, <2>2, TellsEnable DEF Steady
  <2>4. ASSUME NEW m \in Machines, conn[m] # 0, handler[conn[m]] = "serve" PROVE Told(m)'
    <3>1. CASE m = n
      <4>1. registry[n] = conn[m] /\ conn[m] \in up /\ owner[conn[m]] = m
        BY <3>1, <2>4 DEF Registered, LinkType
      <4>2. ctl'[m] # <<>>
        BY <4>1, <2>3
      <4> QED BY <4>2 DEF Told
    <3>2. CASE m # n
      <4>1. Told(m)
        BY <2>2, <2>4 DEF Steady
      <4>2. \A h \in Procs : /\ pc[h] = "list" => pc'[h] = "list"
                             /\ pc[h] = "tell" /\ m \in todo => pc'[h] = "tell" /\ m \in todo'
        BY <3>2, <2>1 DEF Telling, PlaceType
      <4> QED BY <4>1, <4>2, <2>3, <1>0, ToldAlone
    <3> QED BY <3>1, <3>2
  <2> QED BY <2>1, <2>2, <2>3, <2>4, <1>0 DEF Steady
<1> QED BY <1>1, <1>2, <1>3 DEF Gate

\* Those who move outside the gate.
LEMMA OutsideTells ==
    ASSUME Steady, PlaceType, NEW p \in Procs, ~Inside(p), UNCHANGED <<todo, lastEnabled>>,
           NEW x, pc' = [pc EXCEPT ![p] = x], x \notin {"list", "tell"},
           viewers' \in Nat, viewers' >= viewers, subs' # {} => viewers' > 0,
           UNCHANGED <<conn, handler, ctl>>,
           \A m \in Machines : conn[m] # 0 /\ Producing(m) => Producing(m)'
    PROVE  Steady'
<1>1. \A g \in Procs : /\ Inside(g)' => Inside(g)
                       /\ pc[g] = "list" => pc'[g] = "list"
                       /\ pc[g] = "tell" => pc'[g] = "tell"
  BY DEF Inside, PlaceType
<1>2. lastEnabled => viewers' > 0
  BY DEF Steady
<1>3. ASSUME NEW m \in Machines, lastEnabled, conn[m] # 0, handler[conn[m]] = "serve"
      PROVE  Told(m)'
  <2>1. Told(m)
    BY <1>3 DEF Steady
  <2> QED BY <2>1, <1>1, <1>3, ToldKept
<1> QED BY <1>1, <1>2, <1>3 DEF Steady

\* A viewer comes and is replayed to.
LEMMA ViewerTells ==
    ASSUME Steady, PlaceType, NEW v \in Viewers,
           Subscribe(v) \/ \E snap \in replay[v] : Replay(v, snap)
    PROVE  Steady'
<1>1. v \in Procs
  BY DEF Procs
<1>2. /\ UNCHANGED <<todo, lastEnabled, conn, handler, ctl, prod, relay, stream, latest>>
      /\ pc[v] \in {"idle", "replay"}
      /\ \E x \in {"gate", "replay", "read"} : pc' = [pc EXCEPT ![v] = x]
      /\ (viewers' = viewers + 1 \/ UNCHANGED <<subs, viewers>>)
  BY DEF Subscribe, Replay, GateNext, gateVars, linkVars, hubLink, wires, agentVars, hubVars,
     PlaceType
<1>3. \A m \in Machines : Producing(m) => Producing(m)'
  BY <1>2 DEF Producing
<1>4. viewers' \in Nat /\ viewers' >= viewers /\ (subs' # {} => viewers' > 0)
  BY <1>2 DEF Steady
<1>5. ~Inside(v)
  BY <1>2 DEF Inside
<1> QED BY <1>1, <1>2, <1>3, <1>4, <1>5, OutsideTells

\* A connection that is not broken delivers a screen, and the screen is sent.
LEMMA ReceiverTells ==
    ASSUME Steady, PlaceType, TypeInv, ServeInv, NobodyLeft, NEW c \in Conns, Receiver(c),
           Receive(c) => c \in up
    PROVE  Steady'
<1> USE DEF TypeInv
<1>1. c \in Procs
  BY DEF Procs
<1>2. CASE Receive(c)
  <2> DEFINE e == Head(stream[c])
  <2>1. /\ UNCHANGED <<todo, lastEnabled, conn, handler, ctl, prod, relay, subs, viewers>>
        /\ pc[c] = "idle" /\ stream[c] # <<>> /\ c \in up
        /\ latest' = [latest EXCEPT ![e[1]] = e[2]]
        /\ stream' = [stream EXCEPT ![c] = Tail(@)]
        /\ \E x \in {"idle", "fan"} : pc' = [pc EXCEPT ![c] = x]
    BY <1>2 DEF Receive, Fan, gateVars, linkVars, hubLink, agentVars
  <2>2. c \in 1 .. Len(owner) /\ conn[owner[c]] = c /\ stream[c] \in Seq(Shots(owner[c], scr))
    BY <2>1 DEF LinkType, WireType
  <2>3. e \in Shots(owner[c], scr)
    BY <2>1, <2>2
  <2> HIDE DEF e
  <2>4. e[1] \in Keys /\ e[1][1] = owner[c]
    BY <2>3 DEF Shots
  <2>5. ASSUME NEW m \in Machines, conn[m] # 0, Producing(m) PROVE Producing(m)'
    <3>1. CASE m = owner[c]
      <4>1. ASSUME NEW t \in Tiles
            PROVE  Follows(<<m, t>>, prod[m].last[<<m, t>>], relay[m], Tail(stream[c]),
                           latest'[<<m, t>>])
        <5> DEFINE k == <<m, t>>
                   r == prod[m].last[k]
        <5>1. Follows(k, r, relay[m], stream[c], latest[k]) /\ k \in Keys
          BY <2>2, <2>5, <3>1 DEF Producing, Keys
        <5>2. (e[1] # k => latest'[k] = latest[k]) /\ (e[1] = k => latest'[k] = e[2])
          BY <2>1, <2>4, <5>1 DEF ScreenType
        <5> HIDE DEF k, r
        <5>3. Follows(k, r, relay[m], Tail(stream[c]), latest'[k])
          BY <2>1, <2>2, <5>1, <5>2, ReceiveFollows DEF e
        <5> QED BY <5>3 DEF k, r
      <4>2. stream'[conn'[m]] = Tail(stream[c]) /\ prod' = prod /\ relay' = relay
        BY <3>1, <2>1, <2>2 DEF WireType
      <4> QED BY <2>5, <4>1, <4>2 DEF Producing
    <3>2. CASE m # owner[c]
      <4>1. conn[m] # c
        BY <3>2, <2>5 DEF LinkType
      <4>2. stream'[conn'[m]] = stream[conn[m]]
        BY <4>1, <2>1, <2>5, OneConnection DEF WireType
      <4>3. \A t \in Tiles : latest'[<<m, t>>] = latest[<<m, t>>]
        BY <3>2, <2>1, <2>4 DEF ScreenType, Keys
      <4> QED BY <2>1, <2>5, <4>2, <4>3 DEF Producing
    <3> QED BY <3>1, <3>2
  <2>6. viewers' \in Nat /\ viewers' >= viewers /\ (subs' # {} => viewers' > 0)
    BY <2>1 DEF Steady
  <2>7. ~Inside(c) /\ "idle" \notin {"list", "tell"} /\ "fan" \notin {"list", "tell"}
    BY <2>1 DEF Inside
  <2> QED BY <1>1, <2>1, <2>5, <2>6, <2>7, OutsideTells
<1>3. CASE DropFailed(c) \/ \E v \in Viewers : FanOut(c, v)
  <2>1. fan[c].failed = {}
    BY DEF ServeInv, NobodyLeft
  <2>2. viewers \in Nat
    BY DEF Steady
  <2>3. Fewer(Cardinality(fan[c].failed)) = viewers
    BY <2>1, <2>2, FS_EmptySet DEF Fewer
  <2>4. /\ UNCHANGED <<todo, lastEnabled, conn, handler, ctl, prod, relay, stream, latest>>
        /\ UNCHANGED <<subs, viewers>> /\ pc[c] = "fan"
        /\ \E x \in {"gate", "idle", "fan"} : pc' = [pc EXCEPT ![c] = x]
    BY <1>3, <2>1, <2>3 DEF DropFailed, FanOut, Fan, GateNext, gateVars, linkVars, hubLink, wires,
       agentVars, hubVars
  <2>5. \A m \in Machines : Producing(m) => Producing(m)'
    BY <2>4 DEF Producing
  <2>6. viewers' \in Nat /\ viewers' >= viewers /\ (subs' # {} => viewers' > 0)
    BY <2>4 DEF Steady
  <2>7. ~Inside(c)
    BY <2>4 DEF Inside
  <2> QED BY <1>1, <2>4, <2>5, <2>6, <2>7, OutsideTells
<1> QED BY <1>2, <1>3 DEF Receiver

\* The steps of connections and machines.
LEMMA HubAlone ==
    ASSUME Steady, UNCHANGED <<pc, todo, subs, viewers, lastEnabled>>,
           ctl' \in [Machines -> Seq({TRUE})],
           \A m \in Machines :
              lastEnabled /\ conn'[m] # 0 /\ handler'[conn'[m]] = "serve" => Told(m)'
    PROVE  Steady'
BY DEF Steady, Inside

\* The connection of an agent on the hub: one that is served without an
\* enable came before the first viewer.
LEMMA HandlerTells ==
    ASSUME Steady, TypeInv, NEW c \in Conns, Handler(c) \/ StreamEnds(c)
    PROVE  Steady'
<1> USE DEF TypeInv
<1>0. c \in Nat
  BY OverviewAssumption DEF Conns
<1>1. UNCHANGED <<pc, todo, subs, viewers, lastEnabled, conn, owner, prod, relay, latest, up>>
  BY DEF Handler, Register, Check, Enable, Unregister, StreamEnds, procVars, gateVars, hubVars,
     linkVars, agentVars, wires
<1>2. ctl' \in [Machines -> Seq({TRUE})] /\ \A m \in Machines : ctl[m] # <<>> => ctl'[m] # <<>>
  <2>1. CASE Enable(c)
    <3>1. Tell(c, TRUE)
      BY <2>1 DEF Enable
    <3> QED BY <3>1, <1>0, TellsEnable DEF Steady
  <2>2. CASE UNCHANGED ctl
    BY <2>2 DEF Steady
  <2> QED BY <2>1, <2>2 DEF Handler, Register, Check, Unregister, StreamEnds, wires
<1>3. ASSUME NEW m \in Machines, lastEnabled, conn[m] # 0, handler'[conn[m]] = "serve"
      PROVE  Told(m)'
  <2>0. conn[m] \in up /\ owner[conn[m]] = m /\ conn[m] \in Conns
    BY <1>3, OneConnection
  <2>1. stream'[conn[m]] = stream[conn[m]]
    <3>1. CASE StreamEnds(c)
      BY <3>1, <2>0 DEF StreamEnds, WireType
    <3>2. CASE Handler(c)
      BY <3>2 DEF Handler, Register, Check, Enable, Unregister, wires
    <3> QED BY <3>1, <3>2
  <2>2. CASE handler[conn[m]] = "serve"
    <3>1. Told(m)
      BY <1>3, <2>2 DEF Steady
    <3> QED BY <3>1, <2>1, <1>1, <1>2, ToldAlone
  <2>3. CASE handler[conn[m]] # "serve"
    <3>1. conn[m] = c /\ Enable(c)
      <4>1. CASE Check(c)
        <5>1. handler' = [handler EXCEPT ![c] = "enable"]
          BY <1>3, <4>1 DEF Check, Steady
        <5> QED BY <5>1, <1>3, <2>0, <2>3 DEF LinkType
      <4>2. CASE Enable(c)
        BY <4>2, <1>3, <2>0, <2>3 DEF Enable, LinkType
      <4>3. CASE Register(c) \/ Unregister(c) \/ StreamEnds(c)
        BY <4>3, <1>3, <2>0, <2>3 DEF Register, Unregister, StreamEnds, hubLink, LinkType
      <4> QED BY <4>1, <4>2, <4>3 DEF Handler
    <3>2. Tell(c, TRUE)
      BY <3>1 DEF Enable
    <3>3. ctl'[m] # <<>>
      BY <3>1, <3>2, <2>0, <1>0, TellsEnable DEF Steady
    <3> QED BY <3>3 DEF Told
  <2> QED BY <2>2, <2>3
<1> QED BY <1>1, <1>2, <1>3, HubAlone

\* The machines.
LEMMA MachineTells ==
    ASSUME Steady, TypeInv, NEW m \in Machines,
           Connect(m) \/ Drop(m) \/ Switch(m) \/ Producer(m) \/ Relay(m)
    PROVE  Steady'
<1> USE DEF TypeInv
<1>0. UNCHANGED <<pc, todo, subs, viewers, lastEnabled, latest>>
  BY DEF Connect, Drop, Switch, Producer, Tick, Render, Relay, procVars, gateVars, hubVars
<1>1. CASE Connect(m)
  <2> DEFINE c == Len(owner) + 1
  <2>1. /\ UNCHANGED <<ctl, prod, relay, stream>> /\ c \in Conns
        /\ conn' = [conn EXCEPT ![m] = c] /\ handler' = [handler EXCEPT ![c] = "hello"]
    BY <1>1, OverviewAssumption DEF Connect, wires, agentVars, LinkType, Conns
  <2>2. \A n \in Machines : n # m => conn'[n] = conn[n] /\ conn[n] # c
    BY <2>1, OneConnection DEF LinkType
  <2> HIDE DEF c
  <2>3. ASSUME NEW n \in Machines, lastEnabled, conn'[n] # 0, handler'[conn'[n]] = "serve"
        PROVE  Told(n)'
    <3>1. n # m
      BY <2>1, <2>3 DEF LinkType
    <3>2. conn'[n] = conn[n] /\ handler[conn[n]] = "serve"
      BY <3>1, <2>1, <2>2, <2>3, OneConnection DEF LinkType
    <3>3. Told(n)
      BY <3>2, <2>3 DEF Steady
    <3> QED BY <3>2, <3>3, <2>1, <1>0, ToldAlone
  <2> QED BY <2>1, <2>3, <1>0, HubAlone DEF Steady
<1>2. CASE Drop(m)
  <2>1. /\ UNCHANGED <<handler, prod, relay, stream>> /\ conn' = [conn EXCEPT ![m] = 0]
        /\ \E i \in 0 .. Len(ctl[m]) : ctl' = [ctl EXCEPT ![m] = SubSeq(@, 1, i)]
    BY <1>2 DEF Drop, hubLink, agentVars
  <2>2. ctl' \in [Machines -> Seq({TRUE})] /\ \A n \in Machines : n # m => ctl'[n] = ctl[n]
    <3>1. PICK i \in 0 .. Len(ctl[m]) : ctl' = [ctl EXCEPT ![m] = SubSeq(@, 1, i)]
      BY <2>1
    <3>2. ctl[m] \in Seq({TRUE})
      BY DEF Steady
    <3>3. \A S : \A q \in Seq(S) : \A n \in 0 .. Len(q) : SubSeq(q, 1, n) \in Seq(S)
      OBVIOUS
    <3>4. SubSeq(ctl[m], 1, i) \in Seq({TRUE})
      BY <3>2, <3>3
    <3> QED BY <3>1, <3>4 DEF Steady
  <2>3. ASSUME NEW n \in Machines, lastEnabled, conn'[n] # 0, handler'[conn'[n]] = "serve"
        PROVE  Told(n)'
    <3>1. n # m /\ conn'[n] = conn[n]
      BY <2>1, <2>3 DEF LinkType
    <3>2. Told(n)
      BY <3>1, <2>1, <2>3 DEF Steady
    <3> QED BY <3>1, <3>2, <2>1, <2>2, <1>0, ToldAlone
  <2> QED BY <2>2, <2>3, <1>0, HubAlone
<1>3. CASE Switch(m)
  <2>1. /\ UNCHANGED <<handler, conn, relay, stream>> /\ ctl[m] # <<>>
        /\ prod' = [prod EXCEPT ![m] = SetEnabled(@, Head(ctl[m]))]
        /\ ctl' = [ctl EXCEPT ![m] = Tail(@)]
    BY <1>3 DEF Switch, hubLink, linkVars
  <2>2. ctl[m] \in Seq({TRUE})
    BY DEF Steady
  <2>3. Head(ctl[m]) = TRUE /\ Tail(ctl[m]) \in Seq({TRUE})
    <3>1. \A S : \A q \in Seq(S) : q # <<>> => Head(q) \in S /\ Tail(q) \in Seq(S)
      OBVIOUS
    <3>2. Head(ctl[m]) \in {TRUE} /\ Tail(ctl[m]) \in Seq({TRUE})
      BY <2>1, <2>2, <3>1
    <3> QED BY <3>2
  <2>4. prod'[m].enabled /\ prod'[m].last = Nothing
    BY <2>1, <2>3 DEF SetEnabled, ProdType, ProdSet
  <2>5. Producing(m)'
    BY <2>4 DEF Producing, Follows, Nothing, Keys
  <2>6. ctl' \in [Machines -> Seq({TRUE})] /\ \A n \in Machines : n # m => ctl'[n] = ctl[n]
    BY <2>1, <2>3 DEF Steady
  <2>7. ASSUME NEW n \in Machines, lastEnabled, conn'[n] # 0, handler'[conn'[n]] = "serve"
        PROVE  Told(n)'
    <3>1. CASE n = m
      BY <3>1, <2>5 DEF Told
    <3>2. CASE n # m
      <4>1. Told(n)
        BY <2>1, <2>7 DEF Steady
      <4> QED BY <3>2, <4>1, <2>1, <2>6, <1>0, ToldAlone
    <3> QED BY <3>1, <3>2
  <2> QED BY <2>6, <2>7, <1>0, HubAlone
<1>4. ASSUME UNCHANGED <<ctl, handler, conn>>,
             \A n \in Machines : conn[n] # 0 /\ Producing(n) => Producing(n)'
      PROVE  Steady'
  <2>1. ASSUME NEW n \in Machines, lastEnabled, conn[n] # 0, handler[conn[n]] = "serve"
        PROVE  Told(n)'
    <3>1. Told(n)
      BY <2>1 DEF Steady
    <3> QED BY <3>1, <2>1, <1>0, <1>4, ToldKept
  <2> QED BY <2>1, <1>0, <1>4, HubAlone DEF Steady
<1>5. CASE Tick(m)
  <2>1. UNCHANGED <<ctl, handler, conn, relay, stream>>
        /\ \A n \in Machines : prod'[n].enabled = prod[n].enabled /\ prod'[n].last = prod[n].last
    BY <1>5 DEF Tick, wires, hubLink, linkVars, ProdType, ProdSet
  <2>2. \A n \in Machines : Producing(n) => Producing(n)'
    BY <2>1, <1>0 DEF Producing
  <2> QED BY <2>1, <2>2, <1>4
<1>6. ASSUME NEW k \in Keys, Render(m, k) PROVE Steady'
  <2>1. UNCHANGED <<ctl, handler, conn, stream>> /\ prod[m].revs[k] # None
    BY <1>6 DEF Render, hubLink, linkVars
  <2>2. k[1] = m /\ k[2] \in Tiles /\ k = <<m, k[2]>>
    BY <2>1 DEF ProdType, Keys
  <2>3. /\ \A n \in Machines : prod'[n].enabled = prod[n].enabled
        /\ \A n \in Machines : n # m => prod'[n].last = prod[n].last
        /\ \/ UNCHANGED relay /\ prod'[m].last = prod[m].last
           \/ /\ relay' = [relay EXCEPT ![m] = Append(@, <<k, scr[k]>>)]
              /\ prod'[m].last = [prod[m].last EXCEPT ![k] = scr[k]]
    BY <1>6 DEF Render, SendSnapshot, ProdType, ProdSet
  <2>4. \A n \in Machines : n # m => relay'[n] = relay[n]
    BY <2>3 DEF WireType
  <2>5. ASSUME NEW n \in Machines, Producing(n) PROVE Producing(n)'
    <3>1. CASE prod'[n].last = prod[n].last /\ relay'[n] = relay[n]
      BY <3>1, <2>1, <2>3, <2>5, <1>0 DEF Producing
    <3>2. CASE n = m /\ relay' = [relay EXCEPT ![m] = Append(@, <<k, scr[k]>>)]
                    /\ prod'[m].last = [prod[m].last EXCEPT ![k] = scr[k]]
      <4> DEFINE e == <<k, scr[k]>>
      <4>1. relay'[m] = Append(relay[m], e) /\ relay[m] \in Seq(Shots(m, scr))
        BY <3>2 DEF WireType
      <4>2. e \in Shots(m, scr) /\ e[1] = k
        BY <2>2 DEF Shots, ScreenType
      <4>3. ASSUME NEW t \in Tiles
            PROVE  Follows(<<m, t>>, prod'[m].last[<<m, t>>], relay'[m], stream[conn[m]],
                           latest[<<m, t>>])
        <5> DEFINE j == <<m, t>>
        <5>0. j \in Keys
          BY DEF Keys
        <5>1. CASE j = k
          <6>1. prod'[m].last[j] = scr[k]
            BY <3>2, <5>1, <5>0 DEF ProdType, ProdSet
          <6>2. EndsWith(relay'[m], k, scr[k])
            BY <4>1, <4>2, AppendEnds
          <6> QED BY <5>1, <6>1, <6>2 DEF Follows
        <5>2. CASE j # k
          <6>1. prod'[m].last[j] = prod[m].last[j]
            BY <3>2, <5>2, <5>0 DEF ProdType, ProdSet
          <6> DEFINE r == prod[m].last[j]
          <6>2. Follows(j, r, relay[m], stream[conn[m]], latest[j])
            BY <2>5, <3>2 DEF Producing
          <6> HIDE DEF r, j, e
          <6>3. /\ EndsWith(relay[m], j, r) => EndsWith(relay'[m], j, r)
                /\ Silent(relay[m], j) => Silent(relay'[m], j)
            BY <4>1, <4>2, <5>2, AppendEnds
          <6>4. Follows(j, r, relay'[m], stream[conn[m]], latest[j])
            BY <6>2, <6>3 DEF Follows
          <6> QED BY <6>1, <6>4 DEF r, j
        <5> QED BY <5>1, <5>2
      <4> QED BY <3>2, <4>3, <2>1, <2>3, <2>5, <1>0 DEF Producing
    <3> QED BY <2>3, <2>4, <3>1, <3>2
  <2> QED BY <2>1, <2>5, <1>4
<1>7. CASE Relay(m)
  <2>1. /\ UNCHANGED <<ctl, handler, conn, prod>> /\ relay[m] # <<>>
        /\ relay' = [relay EXCEPT ![m] = Tail(@)]
        /\ SendRawSnapshot(conn[m], Head(relay[m]))
    BY <1>7 DEF Relay, hubLink, linkVars, agentVars
  <2>2. ASSUME NEW n \in Machines, conn[n] # 0, Producing(n) PROVE Producing(n)'
    <3>1. CASE n = m
      <4> DEFINE c == conn[m]
      <4>1. c \in Conns /\ owner[c] = m
        BY <3>1, <2>2, OneConnection
      <4>2. relay'[m] = Tail(relay[m]) /\ stream'[c] = Append(stream[c], Head(relay[m]))
        BY <4>1, <2>1, <2>2, <3>1 DEF SendRawSnapshot, WireType
      <4>3. relay[m] \in Seq(Shots(m, scr)) /\ stream[c] \in Seq(Shots(m, scr))
        <5>1. stream[c] = <<>> \/ stream[c] \in Seq(Shots(m, scr))
          BY <4>1 DEF WireType
        <5>2. \A S : <<>> \in Seq(S)
          OBVIOUS
        <5> QED BY <5>1, <5>2 DEF WireType
      <4> HIDE DEF c
      <4>4. \A k, r, x : Follows(k, r, relay[m], stream[c], x)
                          => Follows(k, r, relay'[m], stream'[c], x)
        BY <2>1, <4>2, <4>3, RelayFollows
      <4> QED BY <3>1, <4>4, <2>1, <2>2, <1>0 DEF Producing, c
    <3>2. CASE n # m
      <4>1. relay'[n] = relay[n]
        BY <3>2, <2>1 DEF WireType
      <4>2. conn[n] # conn[m] /\ conn[n] \in Conns
        BY <3>2, <2>2, OneConnection
      <4>3. stream'[conn[n]] = stream[conn[n]]
        BY <4>2, <2>1 DEF SendRawSnapshot, WireType
      <4> QED BY <4>1, <4>3, <2>1, <2>2, <1>0 DEF Producing
    <3> QED BY <3>1, <3>2
  <2> QED BY <2>1, <2>2, <1>4
<1> QED BY <1>1, <1>2, <1>3, <1>5, <1>6, <1>7 DEF Producer

\* The hub stores a screen that it reads from a connection that is broken.
StoresLate == \E c \in Conns : Receive(c) /\ c \notin up

\* Nobody of the hub is at work on a screen or on the gate.
HubIdle == \A g \in Procs : pc[g] \notin {"gate", "list", "tell", "replay", "fan"}

\* Machine m is served, nothing of it is under way, and its producer, if it
\* is on, has noted all screens as sent.
Idle(m) ==
    /\ conn[m] # 0 /\ handler[conn[m]] = "serve"
    /\ ctl[m] = <<>> /\ relay[m] = <<>> /\ stream[conn[m]] = <<>>
    /\ prod[m].enabled => \A t \in Tiles : prod[m].last[<<m, t>>] = scr[<<m, t>>]

\* Nothing is stuck: where nothing is under way, every subscriber is shown what
\* there is.
ScreensArrive ==
    NobodyLeft /\ HubIdle =>
        \A m \in Machines : Idle(m) =>
            \A v \in subs, t \in Tiles : seen[v][<<m, t>>] = scr[<<m, t>>]

\* The invariant of a hub that nobody leaves, for every behaviour.
LEMMA SteadyHolds ==
    ASSUME "lateHello" \notin Faults
    PROVE  Spec /\ [][~StoresLate]_vars => [](Registered /\ (NobodyLeft => Steady))
<1> DEFINE I == Registered /\ (NobodyLeft => Steady)
<1>1. Init => I
  <2> SUFFICES ASSUME Init PROVE I
    OBVIOUS
  <2>1. Registered
    BY DEF Init, Registered
  <2>2. Steady
    <3>1. <<>> \in Seq({TRUE})
      OBVIOUS
    <3> QED BY <3>1 DEF Init, Steady, Inside
  <2> QED BY <2>1, <2>2
<1>2. TypeInv /\ TellsInv /\ ServeInv /\ I /\ [Next]_vars /\ [~StoresLate]_vars => I'
  <2> SUFFICES ASSUME TypeInv, PlaceType, ServeInv, I, [Next]_vars, [~StoresLate]_vars
               PROVE  I'
    BY DEF TellsInv
  <2>1. Registered'
    BY RegistryKeeps DEF TypeInv
  <2>2. ASSUME NobodyLeft' PROVE Steady'
    <3>1. CASE \E v \in Viewers : ReplayFails(v) \/ Unsubscribe(v) \/ Leave(v)
      BY <3>1, <2>2 DEF ReplayFails, Unsubscribe, Leave, viewVars, NobodyLeft, PlaceType
    <3>2. CASE ~\E v \in Viewers : ReplayFails(v) \/ Unsubscribe(v) \/ Leave(v)
      <4>1. \A v \in Viewers : web[v] = "broken" => web'[v] = "broken"
        <5>1. CASE \E v \in Viewers : Subscribe(v)
          BY <5>1 DEF Subscribe, PlaceType
        <5>2. CASE UNCHANGED web
          BY <5>2
        <5> QED BY <3>2, <5>1, <5>2 DEF Next, Gate, GateEnter, GateList, GateTell, Viewer, Replay,
             Receiver, Receive, FanOut, DropFailed, StreamEnds, Handler, Register, Check, Enable,
             Unregister, Connect, Drop, Switch, Producer, Tick, Render, Relay, Output, vars,
             viewVars
      <4>2. NobodyLeft /\ Steady
        BY <2>2, <4>1 DEF NobodyLeft
      <4>3. CASE UNCHANGED vars
        BY <4>2, <4>3, HubAlone, ToldAlone DEF vars, procVars, gateVars, hubVars, linkVars,
           hubLink, wires, agentVars, Steady
      <4>4. CASE \E g \in Procs : Gate(g)
        BY <4>2, <4>4, GateTellsAll
      <4>5. CASE \E v \in Viewers : Subscribe(v) \/ Viewer(v) \/ Leave(v)
        BY <3>2, <4>2, <4>5, ViewerTells DEF Viewer
      <4>6. CASE \E c \in Conns : Receiver(c) \/ StreamEnds(c) \/ Handler(c)
        <5>1. CASE UNCHANGED vars
          BY <5>1, <4>3
        <5>2. CASE ~StoresLate
          BY <5>2, <4>2, <4>6, ReceiverTells, HandlerTells DEF StoresLate
        <5> QED BY <5>1, <5>2
      <4>7. CASE \E m \in Machines : \/ Connect(m) \/ Drop(m) \/ Switch(m)
                                    \/ Producer(m) \/ Relay(m)
        BY <4>2, <4>7, MachineTells
      <4>8. CASE \E k \in Keys : Output(k)
        <5>1. UNCHANGED <<procVars, gateVars, hubVars, linkVars, hubLink, wires, prod>>
          BY <4>8 DEF Output
        <5>2. \A m \in Machines : Told(m) => Told(m)'
          BY <5>1, ToldAlone DEF procVars, gateVars, hubVars, linkVars, hubLink, wires
        <5> QED BY <4>2, <5>1, <5>2, HubAlone DEF procVars, gateVars, hubVars, linkVars, hubLink,
             wires, Steady
      <4> QED BY <4>3, <4>4, <4>5, <4>6, <4>7, <4>8 DEF Next
    <3> QED BY <3>1, <3>2
  <2> QED BY <2>1, <2>2
<1> QED BY <1>1, <1>2, TypesHold, TellsHold, ServesHold, PTL DEF Spec

\* As long as no viewer leaves, Hellos are handled in order and the hub
\* stores nothing that it reads late, no screen gets stuck: when nothing of a
\* machine is under way, and its producer takes all screens for sent, every
\* subscriber has been sent every one of them, whoever came when and however
\* often the connection broke: SetEnabled makes the producer send all again.
THEOREM NothingGetsStuck ==
    ASSUME "lateHello" \notin Faults
    PROVE  Spec /\ [][~StoresLate]_vars => []ScreensArrive
<1>1. TypeInv /\ PlaceType /\ ServeInv /\ CountInv /\ Registered /\ (NobodyLeft => Steady)
         => ScreensArrive
  <2> SUFFICES ASSUME TypeInv, PlaceType, ServeInv, CountInv, Steady, NobodyLeft, HubIdle,
                      NEW m \in Machines, Idle(m), NEW v \in subs, NEW t \in Tiles
               PROVE  seen[v][<<m, t>>] = scr[<<m, t>>]
    BY DEF ScreensArrive
  <2> DEFINE k == <<m, t>>
  <2>0. k \in Keys /\ v \in Viewers /\ Viewers \subseteq Procs /\ Conns \subseteq Procs
    BY DEF Keys, CountInv, CountType, Procs
  <2>1. lastEnabled
    BY DEF CountInv, GateFollowsViewers, HubIdle, Steady
  <2>2. Producing(m)
    BY <2>1 DEF Steady, Told, Idle, HubIdle
  <2> HIDE DEF k
  <2>3. Follows(k, scr[k], <<>>, <<>>, latest[k])
    BY <2>2 DEF Producing, Idle, k
  <2>4. latest[k] = scr[k] /\ scr[k] \in Nat
    <3>1. \A r : ~EndsWith(<<>>, k, r)
      BY DEF EndsWith
    <3>2. scr[k] \in Nat
      BY <2>0 DEF TypeInv, ScreenType
    <3> QED BY <2>3, <3>1, <3>2 DEF Follows, None
  <2>5. web[v] = "open"
    BY <2>0 DEF CountInv, CountType, NobodyLeft, PlaceType
  <2>6. Given(v, k)
    BY <2>0, <2>5 DEF ServeInv, ViewersAreServed
  <2>7. replay[v] = {} /\ \A c \in Conns : fan[c].left = {}
    BY <2>0 DEF HubIdle, ServeInv, TypeInv, ScreenType, NoFan
  <2>8. seen[v][k] >= scr[k]
    BY <2>4, <2>6, <2>7 DEF Given, None
  <2>9. seen[v][k] \in Int /\ seen[v][k] <= scr[k]
    BY <2>0 DEF TypeInv, ScreenType
  <2> QED BY <2>4, <2>8, <2>9 DEF k
<1> QED BY <1>1, SteadyHolds, TypesHold, TellsHold, ServesHold, CountInvariant, PTL DEF TellsInv
=============================================================================
