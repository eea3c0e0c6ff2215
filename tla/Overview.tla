------------------------------ MODULE Overview ------------------------------
(***************************************************************************)
(* The live overview: browsers that watch the screens of all sessions.     *)
(* The hub's use case (internal/hub/app/overview/overview.go) counts the   *)
(* viewers, switches the agents' snapshot producers on and off through a   *)
(* gate, and fans snapshots out to the viewers; wsbrowser/overview.go is   *)
(* one goroutine per viewer, wsagent/inbound.go one per connection of an   *)
(* agent and one per snapshot stream, agent/app/snapshot/producer.go the   *)
(* producer of a machine.                                                  *)
(*                                                                         *)
(* Between them lie FIFO streams: ctl, the control stream from the hub     *)
(* through connect to the session-host; relay, the local snapshot stream;  *)
(* stream, the snapshot stream of a connection.  The local link does not   *)
(* break here; a connection breaks with what it carries.  A screen is its  *)
(* revision number, and sessions run on: the session-host reports no exit  *)
(* to the hub, so that DropSession is never called.                        *)
(***************************************************************************)
EXTENDS Integers, Sequences, FiniteSets

CONSTANTS
    Viewers,    \* subscribers: the browser connections to /ws/overview
    Machines,
    Tiles,      \* sessions of a machine
    MaxConns,   \* bound: connections of agents to the hub
    MaxRev,     \* bound: screen revisions of a session
    MaxFaults,  \* bound: viewers that leave and connections that drop
    Kept,       \* initially: TRUE, the hub kept the screens sent to earlier viewers
    Faults      \* what happens: "leave", "drop", "lateHello"

ASSUME OverviewAssumption ==
    /\ IsFiniteSet(Viewers)
    /\ MaxConns \in Nat /\ MaxRev \in Nat /\ MaxFaults \in Nat
    /\ Kept \subseteq BOOLEAN
    /\ Viewers \cap (1 .. MaxConns) = {}

VARIABLES
    subs,         \* UseCase.subs
    viewers,      \* UseCase.viewers
    latest,       \* UseCase.latest: session -> revision, None if absent
    lastEnabled,  \* what the gate told the agents last
    held,         \* controlMu is held
    todo,         \* machines its holder has still to tell
    pc,           \* what each goroutine does next
    ret,          \* where it goes on after applyGate
    web,          \* the socket of a viewer: "new", "open", "broken"
    seen,         \* session -> the newest revision a viewer was sent
    replay,       \* cached snapshots that Subscribe has still to send
    fan,          \* the ReceiveSnapshot of a connection: what it sends, to whom
    owner,        \* connections made so far: the machine of each
    up,           \* connections that are not broken
    registry,     \* agentlink.Registry: machine -> connection, 0 for none
    handler,      \* handleControl of a connection
    ctl, relay, stream,
    conn,         \* hubclient.muxSess: connection of the machine, 0 for none
    scr,          \* revision of a session's screen
    prod          \* the Producer of a machine

hubVars   == <<subs, viewers, latest, lastEnabled>>
gateVars  == <<held, todo>>
procVars  == <<pc, ret>>
viewVars  == <<web, seen, replay>>
linkVars  == <<owner, up, conn>>
hubLink   == <<registry, handler>>
agentVars == <<scr, prod>>
wires     == <<ctl, relay, stream>>
vars == <<hubVars, gateVars, procVars, viewVars, fan, linkVars, hubLink, wires, agentVars>>

Conns == 1 .. MaxConns
Procs == Viewers \cup Conns
Keys  == Machines \X Tiles
None  == -1
Nothing == [k \in Keys |-> None]
NoFan   == [snap |-> <<>>, left |-> {}, failed |-> {}]

\* No viewer and no agent yet, or all of them gone again: agents that were
\* told to stop still know what they sent.
Init ==
    /\ subs = {} /\ viewers = 0 /\ lastEnabled = FALSE
    /\ \E kept \in Kept : latest = [k \in Keys |-> IF kept THEN 0 ELSE None]
    /\ held = FALSE /\ todo = {}
    /\ pc = [g \in Procs |-> "idle"] /\ ret = [g \in Procs |-> "idle"]
    /\ web = [v \in Viewers |-> "new"]
    /\ seen = [v \in Viewers |-> Nothing]
    /\ replay = [v \in Viewers |-> {}]
    /\ fan = [c \in Conns |-> NoFan]
    /\ owner = <<>> /\ up = {}
    /\ registry = [m \in Machines |-> 0]
    /\ handler = [c \in Conns |-> "none"]
    /\ stream = [c \in Conns |-> <<>>]
    /\ ctl = [m \in Machines |-> <<>>] /\ relay = [m \in Machines |-> <<>>]
    /\ conn = [m \in Machines |-> 0]
    /\ scr = [k \in Keys |-> 0]
    /\ prod = [m \in Machines |->
                 [pc |-> "idle", enabled |-> FALSE, last |-> latest, revs |-> Nothing]]

\* Within the bound on faults.
MayFail(fault) ==
    /\ fault \in Faults
    /\ Cardinality({v \in Viewers : web[v] = "broken"} \cup (DOMAIN owner \ up)) < MaxFaults

-----------------------------------------------------------------------------
(* The gate: applyGate of goroutine g, wherever the count changed.         *)
(* pc "gate" waits for controlMu; the count is read once it is held.       *)

GateNext(g, next) == pc' = [pc EXCEPT ![g] = "gate"] /\ ret' = [ret EXCEPT ![g] = next]

GateEnter(g) ==
    /\ pc[g] = "gate" /\ ~held
    /\ lastEnabled' = (viewers > 0)
    /\ IF lastEnabled' = lastEnabled
       THEN pc' = [pc EXCEPT ![g] = ret[g]] /\ UNCHANGED held
       ELSE pc' = [pc EXCEPT ![g] = "list"] /\ held' = TRUE
    /\ UNCHANGED <<subs, viewers, latest, todo, ret, fan>>
    /\ UNCHANGED <<viewVars, linkVars, hubLink, wires, agentVars>>

\* SetSnapshotsEnabled goes on with the machines ms; after the last one
\* controlMu is released.
Telling(g, ms) ==
    /\ todo' = ms
    /\ held' = (ms # {})
    /\ pc' = [pc EXCEPT ![g] = IF ms = {} THEN ret[g] ELSE "tell"]

\* The machines that are online now.
GateList(g) ==
    /\ pc[g] = "list"
    /\ Telling(g, {m \in Machines : registry[m] # 0})
    /\ UNCHANGED <<ret, fan>>
    /\ UNCHANGED <<hubVars, viewVars, linkVars, hubLink, wires, agentVars>>

\* EnableSnaps on connection c, which may be broken, or 0 for none.
Tell(c, enabled) ==
    ctl' = IF c \in up THEN [ctl EXCEPT ![owner[c]] = Append(@, enabled)] ELSE ctl

\* The next machine, if it is still registered.
GateTell(g, m) ==
    /\ pc[g] = "tell" /\ m \in todo
    /\ Telling(g, todo \ {m})
    /\ Tell(registry[m], lastEnabled)
    /\ UNCHANGED <<ret, fan, relay, stream>>
    /\ UNCHANGED <<hubVars, viewVars, linkVars, hubLink, agentVars>>

-----------------------------------------------------------------------------
(* A viewer: ServeHTTP of wsbrowser/overview.go. *)

\* n subscribers fewer, never below zero.
Fewer(n) == IF viewers >= n THEN viewers - n ELSE 0

Subscribe(v) ==
    /\ web[v] = "new"
    /\ web' = [web EXCEPT ![v] = "open"]
    /\ subs' = subs \cup {v}
    /\ viewers' = viewers + 1
    /\ LET cached == {k \in Keys : latest[k] # None} IN
          /\ replay' = [replay EXCEPT ![v] = {<<k, latest[k]>> : k \in cached}]
          /\ GateNext(v, IF cached = {} THEN "read" ELSE "replay")
    /\ UNCHANGED <<latest, lastEnabled, seen, fan>>
    /\ UNCHANGED <<gateVars, linkVars, hubLink, wires, agentVars>>

\* What a Send to viewer v does: it fails when the socket is broken.
Sends(v, snap) ==
    /\ web[v] = "open"
    /\ seen' = [seen EXCEPT ![v][snap[1]] = IF snap[2] > @ THEN snap[2] ELSE @]

\* The cached snapshots, in the arbitrary order of the map.
Replay(v, snap) ==
    /\ pc[v] = "replay" /\ snap \in replay[v]
    /\ Sends(v, snap)
    /\ replay' = [replay EXCEPT ![v] = @ \ {snap}]
    /\ pc' = [pc EXCEPT ![v] = IF replay[v] = {snap} THEN "read" ELSE @]
    /\ UNCHANGED <<web, ret, fan>>
    /\ UNCHANGED <<hubVars, gateVars, linkVars, hubLink, wires, agentVars>>

ReplayFails(v) ==
    /\ pc[v] = "replay"
    /\ web[v] = "broken"
    /\ replay' = [replay EXCEPT ![v] = {}]
    /\ subs' = subs \ {v}
    /\ viewers' = Fewer(1)
    /\ GateNext(v, "read")
    /\ UNCHANGED <<latest, lastEnabled, web, seen, fan>>
    /\ UNCHANGED <<gateVars, linkVars, hubLink, wires, agentVars>>

\* The browser goes away.
Leave(v) ==
    /\ MayFail("leave")
    /\ web[v] = "open"
    /\ web' = [web EXCEPT ![v] = "broken"]
    /\ UNCHANGED <<seen, replay, procVars, fan>>
    /\ UNCHANGED <<hubVars, gateVars, linkVars, hubLink, wires, agentVars>>

\* Mutant: the count is not adjusted.
UnsubscribeUncounted(v) ==
    /\ pc[v] = "read" /\ web[v] = "broken"
    /\ subs' = subs \ {v}
    /\ GateNext(v, "done")
    /\ UNCHANGED <<viewers, latest, lastEnabled, fan>>
    /\ UNCHANGED <<gateVars, viewVars, linkVars, hubLink, wires, agentVars>>

\* Read fails; Unsubscribe counts v out unless somebody dropped it before.
Unsubscribe(v) ==
    /\ pc[v] = "read" /\ web[v] = "broken"
    /\ IF v \in subs
       THEN subs' = subs \ {v} /\ viewers' = Fewer(1) /\ GateNext(v, "done")
       ELSE pc' = [pc EXCEPT ![v] = "done"] /\ UNCHANGED <<subs, viewers, ret>>
    /\ UNCHANGED <<latest, lastEnabled, fan>>
    /\ UNCHANGED <<gateVars, viewVars, linkVars, hubLink, wires, agentVars>>

-----------------------------------------------------------------------------
(* A snapshot stream of connection c: readSnapshotStream and               *)
(* ReceiveSnapshot.                                                        *)

\* The Sends that are left, and the subscribers to whom one failed.
Fan(c, snap, left, failed) ==
    LET over == left = {} /\ failed = {} IN
    /\ pc' = [pc EXCEPT ![c] = IF over THEN "idle" ELSE "fan"]
    /\ fan' = [fan EXCEPT ![c] = IF over THEN NoFan
                                 ELSE [snap |-> snap, left |-> left, failed |-> failed]]

\* The snapshot is cached and the subscribers are copied, under the lock.
Receive(c) ==
    /\ pc[c] = "idle" /\ handler[c] \in {"serve", "gone"}
    /\ stream[c] # <<>>
    /\ LET snap == Head(stream[c]) IN
          /\ latest' = [latest EXCEPT ![snap[1]] = snap[2]]
          /\ Fan(c, snap, subs, {})
    /\ stream' = [stream EXCEPT ![c] = Tail(@)]
    /\ UNCHANGED <<subs, viewers, lastEnabled, ret, ctl, relay>>
    /\ UNCHANGED <<gateVars, viewVars, linkVars, hubLink, agentVars>>

\* One Send, in the arbitrary order of the map.
FanOut(c, v) ==
    LET f == fan[c] IN
    /\ pc[c] = "fan" /\ v \in f.left
    /\ \/ Sends(v, f.snap) /\ Fan(c, f.snap, f.left \ {v}, f.failed)
       \/ /\ web[v] = "broken" /\ UNCHANGED seen
          /\ Fan(c, f.snap, f.left \ {v}, f.failed \cup {v})
    /\ UNCHANGED <<web, replay, ret>>
    /\ UNCHANGED <<hubVars, gateVars, linkVars, hubLink, wires, agentVars>>

\* Mutant: the gate is not applied.
DropFailedUngated(c) ==
    /\ pc[c] = "fan" /\ fan[c].left = {}
    /\ subs' = subs \ fan[c].failed
    /\ viewers' = Fewer(Cardinality(fan[c].failed))
    /\ fan' = [fan EXCEPT ![c] = NoFan]
    /\ pc' = [pc EXCEPT ![c] = "idle"]
    /\ UNCHANGED <<latest, lastEnabled, ret>>
    /\ UNCHANGED <<gateVars, viewVars, linkVars, hubLink, wires, agentVars>>

\* The failed ones are dropped and counted out, whether or not somebody else
\* dropped them since the copy.
DropFailed(c) ==
    /\ pc[c] = "fan" /\ fan[c].left = {}
    /\ subs' = subs \ fan[c].failed
    /\ viewers' = Fewer(Cardinality(fan[c].failed))
    /\ fan' = [fan EXCEPT ![c] = NoFan]
    /\ GateNext(c, "idle")
    /\ UNCHANGED <<latest, lastEnabled>>
    /\ UNCHANGED <<gateVars, viewVars, linkVars, hubLink, wires, agentVars>>

\* The stream of a broken connection ends; what it still held is lost.
StreamEnds(c) ==
    /\ c \notin up /\ pc[c] = "idle" /\ stream[c] # <<>>
    /\ stream' = [stream EXCEPT ![c] = <<>>]
    /\ UNCHANGED <<procVars, fan, ctl, relay>>
    /\ UNCHANGED <<hubVars, gateVars, viewVars, linkVars, hubLink, agentVars>>

-----------------------------------------------------------------------------
(* The connection of an agent on the hub: handleControl. *)

\* The Hello is read: the connection is the one of its machine.
Register(c) ==
    /\ handler[c] = "hello"
    /\ registry' = [registry EXCEPT ![owner[c]] = c]
    /\ handler' = [handler EXCEPT ![c] = "check"]
    /\ UNCHANGED <<procVars, fan>>
    /\ UNCHANGED <<hubVars, gateVars, viewVars, linkVars, wires, agentVars>>

\* SnapshotsEnabled: are there viewers?
Check(c) ==
    /\ handler[c] = "check"
    /\ handler' = [handler EXCEPT ![c] = IF viewers > 0 THEN "enable" ELSE "serve"]
    /\ UNCHANGED <<registry, procVars, fan>>
    /\ UNCHANGED <<hubVars, gateVars, viewVars, linkVars, wires, agentVars>>

Enable(c) ==
    /\ handler[c] = "enable"
    /\ Tell(c, TRUE)
    /\ handler' = [handler EXCEPT ![c] = "serve"]
    /\ UNCHANGED <<registry, procVars, fan, relay, stream>>
    /\ UNCHANGED <<hubVars, gateVars, viewVars, linkVars, agentVars>>

\* The connection broke: RemoveIf.  Before the check it is the read of the
\* Hello or the store of the machine that fails, and no stream is accepted.
Unregister(c) ==
    /\ c \notin up /\ handler[c] \in {"hello", "check", "serve"}
    /\ registry' = [registry EXCEPT ![owner[c]] = IF @ = c THEN 0 ELSE @]
    /\ handler' = [handler EXCEPT ![c] = IF @ = "serve" THEN "gone" ELSE "failed"]
    /\ UNCHANGED <<procVars, fan, stream, ctl, relay>>
    /\ UNCHANGED <<hubVars, gateVars, viewVars, linkVars, agentVars>>

-----------------------------------------------------------------------------
(* The machine: connect (hubclient, hostclient) and the session-host. *)

\* The backoff of connect: a Hello is handled, or its connection given up,
\* before the next one is sent.  Otherwise ("lateHello") an old connection can
\* replace the new one in the registry, and take it along when it is removed.
BacksOff(m) ==
    "lateHello" \in Faults \/ \A c \in DOMAIN owner : owner[c] = m => handler[c] # "hello"

Connect(m) ==
    LET c == Len(owner) + 1 IN
    /\ conn[m] = 0 /\ c <= MaxConns /\ BacksOff(m)
    /\ owner' = Append(owner, m)
    /\ up' = up \cup {c}
    /\ conn' = [conn EXCEPT ![m] = c]
    /\ handler' = [handler EXCEPT ![c] = "hello"]
    /\ UNCHANGED <<registry, procVars, fan>>
    /\ UNCHANGED <<hubVars, gateVars, viewVars, wires, agentVars>>

\* The connection breaks; within the bound there is always another one.  Of
\* the control frames on their way, those that connect already passed on to
\* the session-host still arrive.
Drop(m) ==
    /\ MayFail("drop")
    /\ conn[m] # 0 /\ Len(owner) < MaxConns
    /\ up' = up \ {conn[m]}
    /\ conn' = [conn EXCEPT ![m] = 0]
    /\ \E n \in 0 .. Len(ctl[m]) : ctl' = [ctl EXCEPT ![m] = SubSeq(@, 1, n)]
    /\ UNCHANGED <<owner, procVars, fan, relay, stream>>
    /\ UNCHANGED <<hubVars, gateVars, viewVars, hubLink, agentVars>>

\* Mutant: an enable keeps lastRev.
SetEnabledKeeps(p, enabled) == [p EXCEPT !.enabled = enabled]

\* SetEnabled: an enable forgets what was sent.
SetEnabled(p, enabled) ==
    [p EXCEPT !.enabled = enabled, !.last = IF enabled THEN Nothing ELSE @]

\* The producer's lock is held while it sends.
Switch(m) ==
    /\ ctl[m] # <<>> /\ prod[m].pc # "send"
    /\ prod' = [prod EXCEPT ![m] = SetEnabled(@, Head(ctl[m]))]
    /\ ctl' = [ctl EXCEPT ![m] = Tail(@)]
    /\ UNCHANGED <<procVars, fan, relay, stream, scr>>
    /\ UNCHANGED <<hubVars, gateVars, viewVars, linkVars, hubLink>>

\* A tick of runOnce: enabled and the revisions are read without the lock.
Tick(m) ==
    /\ prod[m].pc = "idle" /\ prod[m].enabled
    /\ prod' = [prod EXCEPT
                   ![m].pc = "revs",
                   ![m].revs = [k \in Keys |-> IF k[1] = m THEN scr[k] ELSE None]]
    /\ UNCHANGED <<procVars, fan, scr>>
    /\ UNCHANGED <<hubVars, gateVars, viewVars, linkVars, hubLink, wires>>

\* SendSnapshot of connectSink, to connect over the local snapshot stream.
SendSnapshot(m, snap) == relay' = [relay EXCEPT ![m] = Append(@, snap)]

\* The next session of the list, under the lock: a first or a changed screen
\* is rendered and sent; the revision is noted whether or not it arrives.
Render(m, k) ==
    LET p    == prod[m]
        sent == IF p.revs[k] = p.last[k] THEN p ELSE [p EXCEPT !.last[k] = scr[k]]
        left == [p.revs EXCEPT ![k] = None]
    IN
    /\ p.pc # "idle" /\ p.revs[k] # None
    /\ IF p.revs[k] = p.last[k] THEN UNCHANGED relay ELSE SendSnapshot(m, <<k, scr[k]>>)
    /\ prod' = [prod EXCEPT ![m] =
                   [sent EXCEPT !.revs = left,
                                !.pc = IF left = Nothing THEN "idle" ELSE "send"]]
    /\ UNCHANGED <<procVars, fan, ctl, stream, scr>>
    /\ UNCHANGED <<hubVars, gateVars, viewVars, linkVars, hubLink>>

\* SendRawSnapshot: a snapshot is dropped while there is no connection.
SendRawSnapshot(c, snap) ==
    stream' = IF c = 0 THEN stream ELSE [stream EXCEPT ![c] = Append(@, snap)]

\* relaySnapshots of hostclient.
Relay(m) ==
    /\ relay[m] # <<>>
    /\ relay' = [relay EXCEPT ![m] = Tail(@)]
    /\ SendRawSnapshot(conn[m], Head(relay[m]))
    /\ UNCHANGED <<procVars, fan, ctl>>
    /\ UNCHANGED <<hubVars, gateVars, viewVars, linkVars, hubLink, agentVars>>

\* The shell writes: the screen changes.  The emulator gives all changes
\* between two renders one revision; here each has its own.
Output(k) ==
    /\ scr[k] < MaxRev
    /\ scr' = [scr EXCEPT ![k] = @ + 1]
    /\ UNCHANGED <<procVars, fan, prod>>
    /\ UNCHANGED <<hubVars, gateVars, viewVars, linkVars, hubLink, wires>>

-----------------------------------------------------------------------------
Gate(g) == \/ GateEnter(g) \/ GateList(g)
           \/ \E m \in Machines : GateTell(g, m)

Viewer(v) == \/ \E snap \in replay[v] : Replay(v, snap)
             \/ ReplayFails(v) \/ Unsubscribe(v)

Receiver(c) == \/ Receive(c) \/ DropFailed(c)
               \/ \E v \in Viewers : FanOut(c, v)

Handler(c) == Register(c) \/ Check(c) \/ Enable(c) \/ Unregister(c)

Producer(m) == Tick(m) \/ \E k \in Keys : Render(m, k)

Next ==
    \/ \E g \in Procs : Gate(g)
    \/ \E v \in Viewers : Subscribe(v) \/ Viewer(v) \/ Leave(v)
    \/ \E c \in Conns : Receiver(c) \/ StreamEnds(c) \/ Handler(c)
    \/ \E m \in Machines : \/ Connect(m) \/ Drop(m) \/ Switch(m)
                            \/ Producer(m) \/ Relay(m)
    \/ \E k \in Keys : Output(k)

Spec == Init /\ [][Next]_vars

\* Fairness: goroutines that can run do run, waiting frames are read, ticks
\* fire, agents reconnect.  A Go mutex does not starve a waiter, so that a
\* goroutine that waits for controlMu, or for the producer's lock, gets it.
\* Viewers, output and drops are free.
Fairness ==
    /\ \A g \in Procs : WF_vars(Gate(g)) /\ SF_vars(GateEnter(g))
    /\ \A v \in Viewers : WF_vars(Viewer(v))
    /\ \A c \in Conns : WF_vars(Receiver(c)) /\ WF_vars(Handler(c))
    /\ \A m \in Machines : /\ WF_vars(Connect(m)) /\ SF_vars(Switch(m))
                           /\ WF_vars(Producer(m)) /\ WF_vars(Relay(m))

FairSpec == Spec /\ Fairness

-----------------------------------------------------------------------------
(* Properties. *)

\* No change of the number of viewers is forgotten: unless somebody is about
\* to apply the gate, its last decision is the one for the current number,
\* in whatever order subscribers came, left and were dropped ("failed-send
\* drops in ReceiveSnapshot always trigger disable", overview.go:48-50).
GateFollowsViewers ==
    (\A g \in Procs : pc[g] # "gate") => (lastEnabled <=> viewers > 0)

\* Nobody pays for viewers that are gone: when the gate is settled and no
\* subscriber is left, it told the agents to stop.  Subscribe, Unsubscribe
\* and ReceiveSnapshot may all count the same subscriber out, but none
\* forgets it.
NoPhantomViewer ==
    (\A g \in Procs : pc[g] # "gate") /\ subs = {} => ~lastEnabled

\* As long as no viewer leaves, a viewer is brought up to date with every
\* screen: when it subscribes, after each change, and after an agent
\* reconnected, since an enable makes the producer send all (producer.go:44-52).
\* It holds for a single viewer.  A second one may subscribe after a screen
\* that was read late from a broken connection replaced a newer one in latest
\* (overview.go:99): it is sent the old one, and no enable follows.
ScreenReachesViewer ==
    \A v \in Viewers, k \in Keys :
        v \in subs ~> (seen[v][k] = scr[k] \/ \E w \in Viewers : web[w] = "broken")

\* "disables snapshot production if this was the last subscriber"
\* (overview.go:176-177): when the gate is settled and there are subscribers,
\* production is on.
WatchedStaysOn ==
    (\A g \in Procs : pc[g] # "gate") /\ subs # {} => lastEnabled
=============================================================================
