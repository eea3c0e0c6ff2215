-------------------------- MODULE SessionLifecycle --------------------------
(***************************************************************************)
(* The life of the terminal sessions of one machine, across the hub and    *)
(* the agent: the hub's session records and machine record (sqlite), the   *)
(* registry of live agent connections (agentlink), one control-stream      *)
(* handler per connection (wsagent), the session use case and its restart  *)
(* reconciliation, and the agent with its PTYs.  Connections drop and      *)
(* come back, the session-host restarts with a new instance, the hub       *)
(* crashes, opens fail or time out.                                        *)
(*                                                                         *)
(* A step is what the code does between two points where another goroutine *)
(* can get in: a store statement, a registry operation under its lock, a   *)
(* frame sent or received.                                                 *)
(***************************************************************************)
EXTENDS Integers, Sequences, FiniteSets

CONSTANTS
    Sessions,       \* session ids; newID never returns one twice
    MaxConns,       \* bound: connections the agent makes, the last one stays up
    MaxInst,        \* bound: instances of the session-host
    MaxCrash,       \* bound: crashes of the hub
    MaxQueue,       \* bound: frames on their way when the operator closes or deletes
    Faults,         \* what may go wrong: a subset of AllFaults
    ExitReports,    \* a set of Booleans: may an exit be reported, or not
    FastReconnect   \* the agent may be back before the hub saw the old connection end

AllFaults == {"drop", "exit", "openFails", "timeout", "storeFails"}
StoreFails == "storeFails" \in Faults

ASSUME LifecycleAssumption ==
    /\ MaxConns \in Nat \ {0} /\ MaxInst \in Nat \ {0} /\ MaxCrash \in Nat /\ MaxQueue \in Nat
    /\ Faults \subseteq AllFaults
    /\ ExitReports \in (SUBSET BOOLEAN) \ {{}} /\ FastReconnect \in BOOLEAN

Conns == 1 .. MaxConns
None  == -1                 \* no waiter
User  == 0                  \* the waiter is an HTTP request; c \in Conns: c's reconcile

VARIABLES
    \* Hub, persistent: the sessions and machines tables.
    status,     \* session -> "none", "running", "disconnected", "exited", "lost"
    auto,       \* sessions with auto_relaunch set
    machInst,   \* instance id of the machine record, 0 if there is none
    \* Hub, volatile.
    link,       \* agentlink.Registry: the machine's connection, 0 if offline
    handler,    \* connection -> where handleControl is
    pending,    \* connection -> session -> who waits for the open's reply
    rec,        \* connection -> its ReconcileMachineRestart goroutine
    req,        \* session -> the HTTP request that opens it
    del,        \* sessions whose delete request is past its checks
    crashes,    \* hub crashes so far
    \* The connections.
    up,         \* connections that carry frames
    down,       \* connection -> frames on their way to the agent
    back,       \* connection -> frames on their way to the hub
    \* Agent.
    conn,       \* the connection the agent uses, 0 if none
    nconn,      \* connections made so far
    connInst,   \* connection -> instance id its Hello carries
    inst,       \* instance id of the running session-host
    pty         \* session -> "none", "live", "closing"

hubDb   == <<status, auto, machInst>>
hubMem  == <<link, handler, pending, rec, req, del, crashes>>
wires   == <<up, down, back>>
agent   == <<conn, nconn, connInst, inst, pty>>
vars    == <<status, auto, machInst, link, handler, pending, rec, req, del, crashes,
             up, down, back, conn, nconn, connInst, inst, pty>>

Live == {"running", "disconnected"}
NoWait == [s \in Sessions |-> None]
RecAt(p, todo, cur, via) == [pc |-> p, todo |-> todo, cur |-> cur, via |-> via]
Idle == RecAt("idle", {}, {}, 0)
Msg(t, s) == [type |-> t, session |-> s]

Init ==
    /\ status = [s \in Sessions |-> "none"]
    /\ auto = {}
    /\ machInst = 0
    /\ link = 0
    /\ handler = [c \in Conns |-> "none"]
    /\ pending = [c \in Conns |-> NoWait]
    /\ rec = [c \in Conns |-> Idle]
    /\ req = [s \in Sessions |-> "new"]
    /\ del = {}
    /\ crashes = 0
    /\ up = {}
    /\ down = [c \in Conns |-> <<>>]
    /\ back = [c \in Conns |-> <<>>]
    /\ conn = 0 /\ nconn = 0
    /\ connInst = [c \in Conns |-> 0]
    /\ inst = 1
    /\ pty = [s \in Sessions |-> "none"]

-----------------------------------------------------------------------------
(* The agent: hubclient (connect process) and the session-host's manager.  *)

\* Mutant: Run returns when its first connection ends.
AgentConnectOnce ==
    /\ conn = 0 /\ nconn = 0
    /\ nconn' = 1 /\ conn' = 1 /\ up' = {1}
    /\ connInst' = [connInst EXCEPT ![1] = inst]
    /\ handler' = [handler EXCEPT ![1] = "hello"]
    /\ UNCHANGED <<link, pending, rec, req, del, crashes, down, back, inst, pty>>
    /\ UNCHANGED hubDb

\* connectOnce: dial and send Hello.  Without FastReconnect the backoff
\* outlasts the hub's teardown of the previous connection.
AgentConnect ==
    /\ conn = 0 /\ nconn < MaxConns
    /\ FastReconnect \/ \A c \in Conns : handler[c] \in {"none", "done"}
    /\ nconn' = nconn + 1
    /\ conn' = nconn'
    /\ up' = up \cup {nconn'}
    /\ connInst' = [connInst EXCEPT ![nconn'] = inst]
    /\ handler' = [handler EXCEPT ![nconn'] = "hello"]
    /\ UNCHANGED <<link, pending, rec, req, del, crashes, down, back, inst, pty>>
    /\ UNCHANGED hubDb

\* The network loses the connection; each side finds out in its own time.
Drop(c) ==
    /\ "drop" \in Faults /\ c \in up /\ c < MaxConns
    /\ up' = up \ {c}
    /\ UNCHANGED <<down, back>> /\ UNCHANGED hubDb /\ UNCHANGED hubMem /\ UNCHANGED agent

\* serve returns: the agent saw its connection end.
AgentLosesConn ==
    /\ conn # 0 /\ conn \notin up
    /\ conn' = 0
    /\ down' = [down EXCEPT ![conn] = <<>>]
    /\ UNCHANGED <<nconn, connInst, inst, pty, up, back>>
    /\ UNCHANGED hubDb /\ UNCHANGED hubMem

\* A frame from the agent to the hub; one sent on a dead connection is lost.
SendBack(c, m) == back' = IF c \in up THEN [back EXCEPT ![c] = Append(@, m)] ELSE back

\* handleControlFrame, OpenSession: the manager refuses an id it still has.
AgentOpen ==
    /\ conn # 0 /\ down[conn] # <<>> /\ Head(down[conn]).type = "OpenSession"
    /\ LET s == Head(down[conn]).session IN
       /\ \/ /\ pty[s] = "none"
             /\ pty' = [pty EXCEPT ![s] = "live"]
             /\ SendBack(conn, Msg("SessionOpened", s))
          \/ /\ pty[s] # "none" \/ "openFails" \in Faults
             /\ SendBack(conn, Msg("Error", s))
             /\ UNCHANGED pty
       /\ down' = [down EXCEPT ![conn] = Tail(@)]
    /\ UNCHANGED <<up, conn, nconn, connInst, inst>>
    /\ UNCHANGED hubDb /\ UNCHANGED hubMem

\* handleControlFrame, CloseSession: the PTY is closed; its read pump will exit.
AgentClose ==
    /\ conn # 0 /\ down[conn] # <<>> /\ Head(down[conn]).type = "CloseSession"
    /\ LET s == Head(down[conn]).session IN
          pty' = [pty EXCEPT ![s] = IF @ = "live" THEN "closing" ELSE @]
    /\ down' = [down EXCEPT ![conn] = Tail(@)]
    /\ UNCHANGED <<up, back, conn, nconn, connInst, inst>>
    /\ UNCHANGED hubDb /\ UNCHANGED hubMem

\* readPump ends: the shell exited, or the PTY was closed.  The exit report
\* needs a notifier (report) and a connection, and is dropped without one.
PtyExit(s, report) ==
    /\ pty[s] = "closing" \/ (pty[s] = "live" /\ "exit" \in Faults)
    /\ report \in ExitReports
    /\ pty' = [pty EXCEPT ![s] = "none"]
    /\ IF report /\ conn # 0 THEN SendBack(conn, Msg("SessionExited", s)) ELSE UNCHANGED back
    /\ UNCHANGED <<up, down, conn, nconn, connInst, inst>>
    /\ UNCHANGED hubDb /\ UNCHANGED hubMem

\* The session-host dies with its PTYs; connect exits with it, the supervisor
\* restarts both, and the new host makes a new instance id.
HostRestart ==
    /\ inst < MaxInst /\ nconn < MaxConns
    /\ inst' = inst + 1
    /\ pty' = [s \in Sessions |-> "none"]
    /\ up' = up \ {conn}
    /\ down' = [c \in Conns |-> IF c = conn THEN <<>> ELSE down[c]]
    /\ conn' = 0
    /\ UNCHANGED <<nconn, connInst, back>> /\ UNCHANGED hubDb /\ UNCHANGED hubMem

-----------------------------------------------------------------------------
(* wsagent.handleControl, one goroutine per connection c. *)

\* The Hello is read and the connection replaces any other in the registry.
Hello(c) ==
    /\ handler[c] = "hello"
    /\ \/ /\ link' = c
          /\ handler' = [handler EXCEPT ![c] = "lookup"]
       \/ /\ c \notin up                     \* the first frame never arrived
          /\ handler' = [handler EXCEPT ![c] = "done"]
          /\ UNCHANGED link
    /\ UNCHANGED <<pending, rec, req, del, crashes>>
    /\ UNCHANGED hubDb /\ UNCHANGED wires /\ UNCHANGED agent

\* Register, first statement: has the instance changed since the last Hello?
RegisterLookup(c) ==
    /\ handler[c] = "lookup"
    /\ handler' = [handler EXCEPT ![c] =
          IF machInst # 0 /\ machInst # connInst[c] THEN "upsertRestarted" ELSE "upsert"]
    /\ UNCHANGED <<link, pending, rec, req, del, crashes>>
    /\ UNCHANGED hubDb /\ UNCHANGED wires /\ UNCHANGED agent

\* A failing statement of Register ends the handler.
RegisterFails(c) ==
    /\ StoreFails /\ handler[c] \in {"lookup", "upsert", "upsertRestarted"}
    /\ handler' = [handler EXCEPT ![c] = "removeIf"]
    /\ UNCHANGED <<link, pending, rec, req, del, crashes>>
    /\ UNCHANGED hubDb /\ UNCHANGED wires /\ UNCHANGED agent

\* Mutant: the upsert of a known machine leaves its instance id as it was.
UpsertKeepsInstance(c) ==
    /\ handler[c] \in {"upsert", "upsertRestarted"}
    /\ machInst' = IF machInst = 0 THEN connInst[c] ELSE machInst
    /\ IF handler[c] = "upsertRestarted"
       THEN /\ rec' = [rec EXCEPT ![c] = RecAt("fetch", {}, {}, 0)]
            /\ handler' = [handler EXCEPT ![c] = "loop"]
       ELSE /\ handler' = [handler EXCEPT ![c] = "restore"]
            /\ UNCHANGED rec
    /\ UNCHANGED <<status, auto, link, pending, req, del, crashes>>
    /\ UNCHANGED wires /\ UNCHANGED agent

\* Register, second statement, then the branch on restarted: reconciliation
\* runs in its own goroutine, the restore in this one.
RegisterUpsert(c) ==
    /\ handler[c] \in {"upsert", "upsertRestarted"}
    /\ machInst' = connInst[c]
    /\ IF handler[c] = "upsertRestarted"
       THEN /\ rec' = [rec EXCEPT ![c] = RecAt("fetch", {}, {}, 0)]
            /\ handler' = [handler EXCEPT ![c] = "loop"]
       ELSE /\ handler' = [handler EXCEPT ![c] = "restore"]
            /\ UNCHANGED rec
    /\ UNCHANGED <<status, auto, link, pending, req, del, crashes>>
    /\ UNCHANGED wires /\ UNCHANGED agent

MarkDisconnectedRunning ==
    status' = [s \in Sessions |-> IF status[s] = "disconnected" THEN "running" ELSE status[s]]

\* Mutant: the blip is reported as the loss of the sessions.
MarkRunningGone ==
    status' = [s \in Sessions |-> IF status[s] = "running" THEN "lost" ELSE status[s]]

MarkRunningDisconnected ==
    status' = [s \in Sessions |-> IF status[s] = "running" THEN "disconnected" ELSE status[s]]

MarkRunningLost ==
    status' = [s \in Sessions |->
                  IF status[s] \in Live /\ s \notin auto THEN "lost" ELSE status[s]]

\* Mutant: the restore after a blip is forgotten.
RestoreForgotten(c) ==
    /\ handler[c] = "restore"
    /\ handler' = [handler EXCEPT ![c] = "loop"]
    /\ UNCHANGED <<status, auto, machInst, link, pending, rec, req, del, crashes>>
    /\ UNCHANGED wires /\ UNCHANGED agent

RestoreMachineSessions(c) ==
    /\ handler[c] = "restore"
    /\ MarkDisconnectedRunning \/ (StoreFails /\ UNCHANGED status)
    /\ handler' = [handler EXCEPT ![c] = "loop"]
    /\ UNCHANGED <<auto, machInst, link, pending, rec, req, del, crashes>>
    /\ UNCHANGED wires /\ UNCHANGED agent

\* Frames of the read loop.
Receive(c, type) ==
    /\ handler[c] = "loop" /\ back[c] # <<>> /\ Head(back[c]).type = type
    /\ back' = [back EXCEPT ![c] = Tail(@)]

\* SessionOpened and Error: ResolveOpen hands the reply to whoever waits for
\* this session on this connection; a reply nobody waits for is dropped.
ResolveOpen(c) ==
    \E type \in {"SessionOpened", "Error"} :
    /\ Receive(c, type)
    /\ LET s == Head(back[c]).session
           w == pending[c][s]
       IN  /\ pending' = [pending EXCEPT ![c][s] = None]
           /\ req' = IF w = User
                     THEN [req EXCEPT ![s] = IF type = "Error" THEN "done" ELSE "create"]
                     ELSE req
           /\ rec' = IF w \in Conns
                     THEN [rec EXCEPT ![w].pc = IF type = "Error" THEN "setLost" ELSE "setRunning"]
                     ELSE rec
    /\ UNCHANGED <<link, handler, del, crashes, up, down>>
    /\ UNCHANGED hubDb /\ UNCHANGED agent

\* SessionExited: MarkExited, whatever the record's status; no record, no effect.
MarkExited(c) ==
    /\ Receive(c, "SessionExited")
    /\ LET s == Head(back[c]).session IN
          \/ status' = [status EXCEPT ![s] = IF @ = "none" THEN "none" ELSE "exited"]
          \/ StoreFails /\ UNCHANGED status
    /\ UNCHANGED <<auto, machInst, up, down>> /\ UNCHANGED hubMem /\ UNCHANGED agent

\* The read fails: frames not read by then are gone.
ReadError(c) ==
    /\ handler[c] = "loop" /\ c \notin up
    /\ handler' = [handler EXCEPT ![c] = "removeIf"]
    /\ back' = [back EXCEPT ![c] = <<>>]
    /\ UNCHANGED <<link, pending, rec, req, del, crashes, up, down>>
    /\ UNCHANGED hubDb /\ UNCHANGED agent

\* Mutant: the entry is left behind.
RemoveNothing(c) ==
    /\ handler[c] = "removeIf"
    /\ handler' = [handler EXCEPT ![c] = "mark"]
    /\ UNCHANGED <<link, pending, rec, req, del, crashes>>
    /\ UNCHANGED hubDb /\ UNCHANGED wires /\ UNCHANGED agent

\* Deferred teardown: only the connection that is still registered goes on to
\* park its sessions, in a later statement.
RemoveIf(c) ==
    /\ handler[c] = "removeIf"
    /\ link' = IF link = c THEN 0 ELSE link
    /\ handler' = [handler EXCEPT ![c] = IF link = c THEN "mark" ELSE "return"]
    /\ UNCHANGED <<pending, rec, req, del, crashes>>
    /\ UNCHANGED hubDb /\ UNCHANGED wires /\ UNCHANGED agent

MarkMachineDisconnected(c) ==
    /\ handler[c] = "mark"
    /\ MarkRunningDisconnected \/ (StoreFails /\ UNCHANGED status)
    /\ handler' = [handler EXCEPT ![c] = "return"]
    /\ UNCHANGED <<auto, machInst, link, pending, rec, req, del, crashes>>
    /\ UNCHANGED wires /\ UNCHANGED agent

\* ServeHTTP: the connection is closed and the handler's context cancelled.
HandlerReturns(c) ==
    /\ handler[c] = "return"
    /\ handler' = [handler EXCEPT ![c] = "done"]
    /\ up' = up \ {c}
    /\ back' = [back EXCEPT ![c] = <<>>]
    /\ UNCHANGED <<link, pending, rec, req, del, crashes, down>>
    /\ UNCHANGED hubDb /\ UNCHANGED agent

-----------------------------------------------------------------------------
(* agentlink.Gateway *)

\* OpenSession up to its select: w waits on connection k, the frame is sent.
SendOpen(k, s, w) ==
    /\ pending' = [pending EXCEPT ![k][s] = w]
    /\ down' = IF k \in up THEN [down EXCEPT ![k] = Append(@, Msg("OpenSession", s))] ELSE down

\* CloseSession: fire and forget on the current connection.
SendClose(s) ==
    down' = IF link \in up THEN [down EXCEPT ![link] = Append(@, Msg("CloseSession", s))]
                           ELSE down

-----------------------------------------------------------------------------
(* ReconcileMachineRestart, started by the handler of connection c with the *)
(* context of that handler: once the handler is done every store statement  *)
(* of the reconciliation fails.                                             *)

CtxLive(c) == handler[c] # "done"

\* AutoRelaunchSessions; its failure falls back to MarkRunningLost alone.
ReconcileFetch(c) ==
    /\ rec[c].pc = "fetch"
    /\ \E ok \in {CtxLive(c)} \cup IF StoreFails THEN {FALSE} ELSE {} :
          rec' = [rec EXCEPT ![c] =
             RecAt("next", {s \in auto : ok /\ status[s] \in Live}, {}, 0)]
    /\ UNCHANGED <<link, handler, pending, req, del, crashes>>
    /\ UNCHANGED hubDb /\ UNCHANGED wires /\ UNCHANGED agent

\* The next revival: offline fails at once, else the open goes out on the
\* connection that is registered now.
ReconcileOpen(c, s) ==
    /\ rec[c].pc = "next" /\ s \in rec[c].todo
    /\ \/ /\ link = 0
          /\ rec' = [rec EXCEPT ![c] = RecAt("setLost", rec[c].todo \ {s}, {s}, 0)]
          /\ UNCHANGED <<pending, down>>
       \/ /\ link # 0
          /\ SendOpen(link, s, c)
          /\ rec' = [rec EXCEPT ![c] = RecAt("await", rec[c].todo \ {s}, {s}, link)]
    /\ UNCHANGED <<link, handler, req, del, crashes, up, back>>
    /\ UNCHANGED hubDb /\ UNCHANGED agent

\* Mutant: a select that waits for the reply alone.
ReconcileWaits(c) == rec[c].pc = "waits" /\ UNCHANGED vars

\* The select ends by the 10 s timeout, or because the handler is done.  The
\* timeout is certain when the connection is gone, or another reconciliation
\* took over the wait for the same session.
ReconcileGivesUp(c) ==
    /\ rec[c].pc = "await"
    /\ \/ ~CtxLive(c) \/ "timeout" \in Faults \/ rec[c].via \notin up
       \/ \A s \in rec[c].cur : pending[rec[c].via][s] # c
    /\ pending' = [pending EXCEPT ![rec[c].via] =
          [s \in Sessions |-> IF s \in rec[c].cur THEN None ELSE @[s]]]
    /\ rec' = [rec EXCEPT ![c].pc = "setLost"]
    /\ UNCHANGED <<link, handler, req, del, crashes>>
    /\ UNCHANGED hubDb /\ UNCHANGED wires /\ UNCHANGED agent

\* SetRunning or SetLost by id, whatever the record's status is by now.
ReconcileSet(c) ==
    /\ rec[c].pc \in {"setRunning", "setLost"}
    /\ \/ /\ CtxLive(c)
          /\ status' = [s \in Sessions |->
                IF s \in rec[c].cur /\ status[s] # "none"
                THEN IF rec[c].pc = "setRunning" THEN "running" ELSE "lost"
                ELSE status[s]]
       \/ (~CtxLive(c) \/ StoreFails) /\ UNCHANGED status
    /\ rec' = [rec EXCEPT ![c] = RecAt("next", rec[c].todo, {}, 0)]
    /\ UNCHANGED <<auto, machInst, link, handler, pending, req, del, crashes>>
    /\ UNCHANGED wires /\ UNCHANGED agent

ReconcileEnd(c) ==
    /\ rec[c].pc = "next" /\ rec[c].todo = {}
    /\ \/ CtxLive(c) /\ MarkRunningLost
       \/ (~CtxLive(c) \/ StoreFails) /\ UNCHANGED status
    /\ rec' = [rec EXCEPT ![c] = RecAt("done", {}, {}, 0)]
    /\ UNCHANGED <<auto, machInst, link, handler, pending, req, del, crashes>>
    /\ UNCHANGED wires /\ UNCHANGED agent

-----------------------------------------------------------------------------
(* The operator's requests: the session use case. *)

\* Open: a fresh id is opened on the agent before any record exists.
Open(s) ==
    /\ req[s] = "new" /\ link # 0
    /\ SendOpen(link, s, User)
    /\ req' = [req EXCEPT ![s] = "await"]
    /\ UNCHANGED <<link, handler, rec, del, crashes, up, back>>
    /\ UNCHANGED hubDb /\ UNCHANGED agent

\* Mutant: the timeout leaves the waiter registered.
OpenNotCancelled(s) ==
    /\ req[s] = "await"
    /\ "timeout" \in Faults \/ \E k \in Conns \ up : pending[k][s] = User
    /\ req' = [req EXCEPT ![s] = "done"]
    /\ UNCHANGED <<link, handler, pending, rec, del, crashes>>
    /\ UNCHANGED hubDb /\ UNCHANGED wires /\ UNCHANGED agent

\* The reply did not come in time, or the request was cancelled.  The request
\* of a connection that is gone ends no other way.
OpenGivesUp(s) ==
    /\ req[s] = "await"
    /\ \E k \in Conns :
          /\ pending[k][s] = User
          /\ "timeout" \in Faults \/ k \notin up
          /\ pending' = [pending EXCEPT ![k][s] = None]
    /\ req' = [req EXCEPT ![s] = "done"]
    /\ UNCHANGED <<link, handler, rec, del, crashes>>
    /\ UNCHANGED hubDb /\ UNCHANGED wires /\ UNCHANGED agent

\* store.Create; on failure the PTY is closed again, if the agent is online.
OpenCreate(s) ==
    /\ req[s] = "create"
    /\ \/ /\ status' = [status EXCEPT ![s] = "running"]
          /\ UNCHANGED down
       \/ /\ StoreFails
          /\ SendClose(s)
          /\ UNCHANGED status
    /\ req' = [req EXCEPT ![s] = "done"]
    /\ UNCHANGED <<auto, machInst, link, handler, pending, rec, del, crashes, up, back>>
    /\ UNCHANGED agent

RoomToClose == link # 0 => Len(down[link]) < MaxQueue

Close(s) ==
    /\ status[s] # "none" /\ link # 0 /\ RoomToClose
    /\ SendClose(s)
    /\ UNCHANGED <<up, back>> /\ UNCHANGED hubDb /\ UNCHANGED hubMem /\ UNCHANGED agent

\* Delete, first statement: a session that may be alive is refused.
DeleteCheck(s) ==
    /\ status[s] \in {"exited", "lost"} /\ s \notin del
    /\ del' = del \cup {s}
    /\ UNCHANGED <<link, handler, pending, rec, req, crashes>>
    /\ UNCHANGED hubDb /\ UNCHANGED wires /\ UNCHANGED agent

\* ForceDelete up to its store.Delete: a session that may be alive is told to close.
ForceDeleteClose(s) ==
    /\ status[s] # "none" /\ s \notin del /\ RoomToClose
    /\ IF status[s] \in Live THEN SendClose(s) ELSE UNCHANGED down
    /\ del' = del \cup {s}
    /\ UNCHANGED <<link, handler, pending, rec, req, crashes, up, back>>
    /\ UNCHANGED hubDb /\ UNCHANGED agent

DeleteRecord(s) ==
    /\ s \in del
    /\ \/ /\ status' = [status EXCEPT ![s] = "none"]
          /\ auto' = auto \ {s}
       \/ StoreFails /\ UNCHANGED <<status, auto>>
    /\ del' = del \ {s}
    /\ UNCHANGED <<machInst, link, handler, pending, rec, req, crashes>>
    /\ UNCHANGED wires /\ UNCHANGED agent

SetAutoRelaunch(s, v) ==
    /\ status[s] # "none" /\ v # (s \in auto)
    /\ auto' = IF v THEN auto \cup {s} ELSE auto \ {s}
    /\ UNCHANGED <<status, machInst>>
    /\ UNCHANGED hubMem /\ UNCHANGED wires /\ UNCHANGED agent

-----------------------------------------------------------------------------
\* The hub process dies and comes back: what is not in the database is gone.
HubCrash ==
    /\ crashes < MaxCrash /\ nconn < MaxConns
    /\ crashes' = crashes + 1
    /\ link' = 0
    /\ handler' = [c \in Conns |-> IF handler[c] = "none" THEN "none" ELSE "done"]
    /\ pending' = [c \in Conns |-> NoWait]
    /\ rec' = [c \in Conns |-> IF rec[c].pc = "idle" THEN Idle ELSE RecAt("done", {}, {}, 0)]
    /\ req' = [s \in Sessions |-> IF req[s] = "new" THEN "new" ELSE "done"]
    /\ del' = {}
    /\ up' = {}
    /\ back' = [c \in Conns |-> <<>>]
    /\ UNCHANGED down /\ UNCHANGED hubDb /\ UNCHANGED agent

AgentNext == AgentConnect \/ AgentLosesConn \/ AgentOpen \/ AgentClose \/ HostRestart
             \/ (\E c \in Conns : Drop(c))
             \/ (\E s \in Sessions, b \in BOOLEAN : PtyExit(s, b))

HandlerNext(c) == Hello(c) \/ RegisterLookup(c) \/ RegisterFails(c) \/ RegisterUpsert(c)
                  \/ RestoreMachineSessions(c) \/ ResolveOpen(c) \/ MarkExited(c)
                  \/ ReadError(c) \/ RemoveIf(c) \/ MarkMachineDisconnected(c)
                  \/ HandlerReturns(c)

ReconcileNext(c) == ReconcileFetch(c) \/ ReconcileGivesUp(c) \/ ReconcileSet(c)
                    \/ ReconcileEnd(c) \/ \E s \in Sessions : ReconcileOpen(c, s)

RequestNext(s) == OpenGivesUp(s) \/ OpenCreate(s) \/ DeleteRecord(s)

OperatorNext(s) == Open(s) \/ Close(s) \/ DeleteCheck(s) \/ ForceDeleteClose(s)
                   \/ \E v \in BOOLEAN : SetAutoRelaunch(s, v)

Next == AgentNext \/ HubCrash
        \/ (\E c \in Conns : HandlerNext(c) \/ ReconcileNext(c))
        \/ (\E s \in Sessions : RequestNext(s) \/ OperatorNext(s))

Spec == Init /\ [][Next]_vars

(* Every goroutine of the hub and the agent that can run does, and a frame *)
(* on a connection that stays up is read.  Nobody has to open, close or    *)
(* delete a session, and nothing has to fail.  Bounds: the last connection *)
(* neither drops nor is cut by a restart or a crash.                       *)
Fairness ==
    /\ WF_vars(AgentConnect) /\ WF_vars(AgentLosesConn)
    /\ WF_vars(AgentOpen \/ AgentClose)
    /\ \A c \in Conns : WF_vars(HandlerNext(c)) /\ WF_vars(ReconcileNext(c))
    /\ \A s \in Sessions : WF_vars(RequestNext(s))

FairSpec == Spec /\ Fairness

-----------------------------------------------------------------------------
(* Properties *)

Statuses == {"none", "running", "disconnected", "exited", "lost"}
HandlerStates == {"none", "hello", "lookup", "upsert", "upsertRestarted", "restore",
                  "loop", "removeIf", "mark", "return", "done"}
ReqStates == {"new", "await", "create", "done"}
PtyStates == {"none", "live", "closing"}
Waiters == {None, User} \cup Conns
Frames == [type : {"OpenSession", "CloseSession", "SessionOpened", "Error", "SessionExited"},
           session : Sessions]
RecPcs == {"idle", "fetch", "next", "await", "setRunning", "setLost", "done"}
RecStates == [pc : RecPcs, todo : SUBSET Sessions, cur : SUBSET Sessions, via : 0 .. MaxConns]

\* Every variable holds a value of its type.
TypeOK ==
    /\ status \in [Sessions -> Statuses]
    /\ auto \in SUBSET Sessions
    /\ machInst \in 0 .. MaxInst
    /\ link \in 0 .. MaxConns
    /\ handler \in [Conns -> HandlerStates]
    /\ pending \in [Conns -> [Sessions -> Waiters]]
    /\ rec \in [Conns -> RecStates]
    /\ req \in [Sessions -> ReqStates]
    /\ del \in SUBSET Sessions
    /\ crashes \in 0 .. MaxCrash
    /\ up \in SUBSET Conns
    /\ down \in [Conns -> Seq(Frames)]
    /\ back \in [Conns -> Seq(Frames)]
    /\ conn \in 0 .. MaxConns
    /\ nconn \in 0 .. MaxConns
    /\ connInst \in [Conns -> 0 .. MaxInst]
    /\ inst \in 1 .. MaxInst
    /\ pty \in [Sessions -> PtyStates]

\* The registry never keeps a connection whose handler has torn it down:
\* "online" always means that a control loop is still there to end it (the
\* order of Add and RemoveIf under overlapping connections).
RegistryEntryOwned ==
    link # 0 => handler[link] \in {"lookup", "upsert", "upsertRestarted", "restore",
                                   "loop", "removeIf"}

\* Only the connection that is registered takes the machine offline: the
\* teardown of one that a fast reconnect replaced leaves the entry alone.
TeardownSparesNewConn ==
    [][link # 0 /\ link' = 0 => handler[link] = "removeIf" \/ crashes' # crashes]_vars

\* A request that waits for SessionOpened is registered on exactly one
\* connection until the reply, its timeout or a crash, and whoever is
\* registered still waits there for this session: no reply goes astray
\* (awaitOpen, cancelOpen and ResolveOpen share one map per connection).
WaiterRegistered ==
    /\ \A s \in Sessions : req[s] = "await" => \E k \in Conns : pending[k][s] = User
    /\ \A s \in Sessions, k \in Conns :
          pending[k][s] = User =>
             req[s] = "await" /\ \A j \in Conns : pending[j][s] = User => j = k
    /\ \A s \in Sessions, k, c \in Conns :
          pending[k][s] = c => rec[c].pc = "await" /\ rec[c].via = k /\ rec[c].cur = {s}

\* What the proofs need besides.  A connection not yet made has no handler;
\* instance ids known to the hub are of hosts that ran; only a restart starts
\* a reconciliation.
RestartInv ==
    /\ machInst <= inst
    /\ \A c \in Conns : /\ connInst[c] <= inst
                        /\ c > nconn => handler[c] = "none"
                        /\ handler[c] # "none" => connInst[c] # 0
                        /\ handler[c] = "upsertRestarted" \/ rec[c].pc # "idle" => inst > 1
                        /\ handler[c] \in {"none", "hello", "lookup", "upsert", "upsertRestarted"}
                              => rec[c].pc = "idle"

\* A session has a record only once its open request is over; what a
\* reconciliation works on had one.
RecordInv ==
    /\ \A s \in Sessions : req[s] # "done" => status[s] = "none"
    /\ \A c \in Conns :
          /\ \A s \in rec[c].todo \cup rec[c].cur : req[s] = "done"
          /\ rec[c].pc \in {"await", "setRunning", "setLost"} => \E s \in Sessions : rec[c].cur = {s}
          /\ rec[c].pc = "await" => rec[c].via # 0

\* The hub's table does what SessionRecord promises: drops and returns apply
\* to all sessions, only restarts lose or revive one, the ended stay ended.
Record == INSTANCE SessionRecord WITH restarts <- inst - 1
ImplementsRecord == Record!Spec

\* Nothing is in progress and nothing on its way.
Quiet ==
    /\ \A c \in Conns : /\ handler[c] \in {"none", "loop", "done"}
                        /\ handler[c] = "loop" => c \in up
                        /\ rec[c].pc \in {"idle", "done"}
                        /\ down[c] = <<>> /\ back[c] = <<>>
    /\ \A s \in Sessions : req[s] \in {"new", "done"} /\ s \notin del

\* Until the session-host restarts, a session whose shell is alive is shown
\* running whenever its agent is connected and nothing is in progress: a blip,
\* a crash of the hub or any sequence of them leaves none parked as
\* disconnected, or worse (Register, RestoreMachineSessions and the
\* teardown's MarkMachineDisconnected).
ConnectedMeansRunning ==
    \A s \in Sessions :
        Quiet /\ inst = 1 /\ conn # 0 /\ conn \in up /\ pty[s] = "live" /\ status[s] # "none"
            => status[s] = "running"

\* "restores a machine's disconnected sessions to running after a
\* same-instanceID reconnect (the PTYs survived the blip)" (RestoreMachineSessions,
\* app/sessions/usecase.go:219): a connection of the running instance restores
\* no session whose shell died with an earlier one.
RestoresOnlySurvivors ==
    [][\A c \in Conns, s \in Sessions :
          /\ handler[c] = "restore" /\ handler'[c] = "loop" /\ connInst[c] = inst
          /\ status[s] = "disconnected" /\ status'[s] = "running"
          => pty[s] # "none"]_vars

\* "ReconcileMachineRestart is called at most once per actual restart event"
\* (app/sessions/usecase.go:175): no two connections of one instance of the
\* session-host both take it for a restart (Register's lookup and upsert are
\* two statements).
ReconcileOncePerRestart ==
    \A c, d \in Conns :
        c # d /\ rec[c].pc # "idle" /\ rec[d].pc # "idle" => connInst[c] # connInst[d]

\* "An agent process restart marks its orphaned sessions lost" (README.md:43)
\* and "running --> exited: agent reports exit" (docs/05-data-model.md:133): with the agent connected and nothing in progress, no session is shown
\* running that has no shell.
RunningMeansAlive ==
    \A s \in Sessions :
        Quiet /\ conn # 0 /\ conn \in up /\ status[s] = "running" => pty[s] # "none"

\* Nobody waits for ever: every OpenSession request is answered, by the agent,
\* by its timeout or because the hub went away, and every reconciliation ends,
\* although it waits for replies that only the control loop that started it can
\* deliver.
WaitsEnd ==
    /\ \A s \in Sessions : req[s] = "await" ~> req[s] = "done"
    /\ \A c \in Conns : rec[c].pc = "fetch" ~> rec[c].pc = "done"

\* The agent is connected and known to be online for good, eventually.
EventuallyOnline == <>[](conn # 0 /\ link = conn /\ handler[conn] = "loop")
=============================================================================
