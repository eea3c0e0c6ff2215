----------------------- MODULE SessionLifecycleProofs -----------------------
(***************************************************************************)
(* Theorems about SessionLifecycle for any set of sessions and any bounds: *)
(* its invariants, and that the session table implements SessionRecord.    *)
(***************************************************************************)
EXTENDS SessionLifecycle, TLAPS

-----------------------------------------------------------------------------
(* The values of the model. *)

\* The statuses of a session record.
LEMMA StatusFacts == {"none", "running", "disconnected", "exited", "lost"} \subseteq Statuses
  BY DEF Statuses

\* The places of handleControl.
LEMMA HandlerFacts ==
    {"none", "hello", "lookup", "upsert", "upsertRestarted", "restore", "loop", "removeIf",
     "mark", "return", "done"} \subseteq HandlerStates
  BY DEF HandlerStates

\* The places of an open request.
LEMMA ReqFacts == {"new", "await", "create", "done"} \subseteq ReqStates
  BY DEF ReqStates

\* The states of a PTY.
LEMMA PtyFacts == {"none", "live", "closing"} \subseteq PtyStates
  BY DEF PtyStates

\* A registry entry is a connection or 0.
LEMMA ConnFacts ==
    /\ Conns \subseteq 0 .. MaxConns /\ 0 \in 0 .. MaxConns
    /\ \A k \in 0 .. MaxConns : k # 0 => k \in Conns
  BY LifecycleAssumption DEF Conns

\* The three kinds of waiters are distinct.
LEMMA WaiterFacts ==
    /\ None \in Waiters /\ User \in Waiters /\ Conns \subseteq Waiters
    /\ None \notin Conns /\ User \notin Conns /\ None # User
  BY LifecycleAssumption DEF Waiters, Conns, None, User

\* A frame is a frame.
LEMMA MsgFacts ==
    ASSUME NEW s \in Sessions
    PROVE  /\ Msg("OpenSession", s) \in Frames /\ Msg("CloseSession", s) \in Frames
           /\ Msg("SessionOpened", s) \in Frames /\ Msg("Error", s) \in Frames
           /\ Msg("SessionExited", s) \in Frames
  BY DEF Msg, Frames

\* What queues of frames do to their type.
LEMMA QueueFacts ==
    ASSUME NEW f \in [Conns -> Seq(Frames)], NEW k \in Conns
    PROVE  /\ \A m \in Frames : [f EXCEPT ![k] = Append(@, m)] \in [Conns -> Seq(Frames)]
           /\ f[k] # <<>> => /\ [f EXCEPT ![k] = Tail(@)] \in [Conns -> Seq(Frames)]
                            /\ Head(f[k]) \in Frames /\ Head(f[k]).session \in Sessions
           /\ [f EXCEPT ![k] = <<>>] \in [Conns -> Seq(Frames)]
<1>1. f[k] # <<>> => Tail(f[k]) \in Seq(Frames) /\ Head(f[k]) \in Frames
  OBVIOUS
<1>2. \A m \in Frames : m.session \in Sessions
  BY DEF Frames
<1> QED
  BY <1>1, <1>2

\* The empty queue is a queue of frames.
LEMMA EmptyQueue == <<>> \in Seq(Frames)
  OBVIOUS

\* The records of reconciliations.
LEMMA RecFacts ==
    /\ \A p \in RecPcs, T, S \in SUBSET Sessions, k \in 0 .. MaxConns : RecAt(p, T, S, k) \in RecStates
    /\ \A r \in RecStates : /\ r.pc \in RecPcs /\ r.todo \in SUBSET Sessions
                            /\ r.cur \in SUBSET Sessions /\ r.via \in 0 .. MaxConns
    /\ \A r \in RecStates, p \in RecPcs : [r EXCEPT !.pc = p] \in RecStates
    /\ {"idle", "fetch", "next", "await", "setRunning", "setLost", "done"} \subseteq RecPcs
  BY LifecycleAssumption DEF RecAt, RecStates, RecPcs

\* The fields of a reconciliation record.
LEMMA RecFields ==
    ASSUME NEW p, NEW T, NEW S, NEW k
    PROVE  /\ RecAt(p, T, S, k).pc = p /\ RecAt(p, T, S, k).todo = T
           /\ RecAt(p, T, S, k).cur = S /\ RecAt(p, T, S, k).via = k
  BY DEF RecAt

\* What a send leaves in the queues.
LEMMA SendFacts ==
    ASSUME TypeOK, NEW s \in Sessions
    PROVE  /\ SendClose(s) => down' \in [Conns -> Seq(Frames)]
           /\ \A k \in Conns, w \in Waiters :
                 SendOpen(k, s, w) => /\ down' \in [Conns -> Seq(Frames)]
                                      /\ pending' \in [Conns -> [Sessions -> Waiters]]
           /\ \A k \in Conns, m \in {"SessionOpened", "Error", "SessionExited"} :
                 SendBack(k, Msg(m, s)) => back' \in [Conns -> Seq(Frames)]
<1>1. up \subseteq Conns /\ down \in [Conns -> Seq(Frames)] /\ back \in [Conns -> Seq(Frames)]
  BY DEF TypeOK
<1>2. SendClose(s) => down' \in [Conns -> Seq(Frames)]
  BY <1>1, MsgFacts, QueueFacts DEF SendClose
<1>3. ASSUME NEW k \in Conns, NEW w \in Waiters, SendOpen(k, s, w)
      PROVE  down' \in [Conns -> Seq(Frames)] /\ pending' \in [Conns -> [Sessions -> Waiters]]
  <2>1. down' \in [Conns -> Seq(Frames)]
    BY <1>1, <1>3, MsgFacts, QueueFacts DEF SendOpen
  <2>2. pending' \in [Conns -> [Sessions -> Waiters]]
    BY <1>3 DEF SendOpen, TypeOK
  <2> QED
    BY <2>1, <2>2
<1>4. ASSUME NEW k \in Conns, NEW m \in Frames, SendBack(k, m) PROVE back' \in [Conns -> Seq(Frames)]
  BY <1>1, <1>4, QueueFacts DEF SendBack
<1> QED
  BY <1>2, <1>3, <1>4, MsgFacts

\* A received frame names a session.
LEMMA ReceiveFacts ==
    ASSUME TypeOK, NEW c \in Conns, NEW t, Receive(c, t)
    PROVE  back' \in [Conns -> Seq(Frames)] /\ Head(back[c]).session \in Sessions
  BY QueueFacts DEF Receive, TypeOK

-----------------------------------------------------------------------------
(* Type correctness. *)

\* The initial state is typed.
LEMMA TypeInit == Init => TypeOK
<1> SUFFICES ASSUME Init PROVE TypeOK
  OBVIOUS
<1>1. rec \in [Conns -> RecStates] /\ pending \in [Conns -> [Sessions -> Waiters]]
  BY WaiterFacts, ConnFacts, RecFacts DEF Init, Idle, NoWait
<1>2. inst \in 1 .. MaxInst /\ 0 \in 0 .. MaxInst /\ 0 \in 0 .. MaxCrash
  BY LifecycleAssumption DEF Init
<1>3. <<>> \in Seq(Frames)
  OBVIOUS
<1> QED
  BY <1>1, <1>2, <1>3, StatusFacts, HandlerFacts, ReqFacts, PtyFacts, ConnFacts DEF Init, TypeOK

\* Every step keeps the types: one step per action, under it one per variable it sets.
LEMMA TypeNext == TypeOK /\ [Next]_vars => TypeOK'
<1> SUFFICES ASSUME TypeOK, [Next]_vars PROVE TypeOK'
  OBVIOUS
<1>1. ASSUME AgentConnect PROVE TypeOK'
  <2>1. nconn' \in Conns /\ conn' \in Conns /\ inst \in 0 .. MaxInst
    BY <1>1, LifecycleAssumption DEF AgentConnect, Conns, TypeOK
  <2>2. connInst' \in [Conns -> 0 .. MaxInst]
    BY <1>1, <2>1 DEF AgentConnect, TypeOK
  <2>3. handler' \in [Conns -> HandlerStates]
    BY <1>1, HandlerFacts DEF AgentConnect, TypeOK
  <2>4. up' \in SUBSET Conns
    BY <1>1, <2>1 DEF AgentConnect, TypeOK
  <2> QED
    BY <1>1, <2>1, <2>2, <2>3, <2>4, ConnFacts DEF AgentConnect, TypeOK, hubDb
<1>2. ASSUME AgentLosesConn PROVE TypeOK'
  <2>1. conn' \in 0 .. MaxConns
    BY <1>2, ConnFacts DEF AgentLosesConn, TypeOK
  <2>2. down' \in [Conns -> Seq(Frames)]
    BY <1>2, QueueFacts, ConnFacts DEF AgentLosesConn, TypeOK
  <2> QED
    BY <1>2, <2>1, <2>2 DEF AgentLosesConn, TypeOK, hubDb, hubMem, wires, agent
<1>3. ASSUME AgentOpen PROVE TypeOK'
  <2>1. conn \in Conns /\ Head(down[conn]).session \in Sessions
    BY <1>3, ConnFacts, QueueFacts DEF AgentOpen, TypeOK
  <2>2. down' \in [Conns -> Seq(Frames)]
    BY <1>3, <2>1, QueueFacts DEF AgentOpen, TypeOK
  <2>3. back' \in [Conns -> Seq(Frames)]
    BY <1>3, <2>1, SendFacts DEF AgentOpen
  <2>4. pty' \in [Sessions -> PtyStates]
    BY <1>3, <2>1, PtyFacts DEF AgentOpen, TypeOK
  <2> QED
    BY <1>3, <2>2, <2>3, <2>4 DEF AgentOpen, TypeOK, hubDb, hubMem
<1>4. ASSUME AgentClose PROVE TypeOK'
  <2>1. conn \in Conns /\ Head(down[conn]).session \in Sessions
    BY <1>4, ConnFacts, QueueFacts DEF AgentClose, TypeOK
  <2>2. down' \in [Conns -> Seq(Frames)]
    BY <1>4, <2>1, QueueFacts DEF AgentClose, TypeOK
  <2>3. pty' \in [Sessions -> PtyStates]
    BY <1>4, <2>1, PtyFacts DEF AgentClose, TypeOK
  <2> QED
    BY <1>4, <2>2, <2>3 DEF AgentClose, TypeOK, hubDb, hubMem
<1>5. ASSUME HostRestart PROVE TypeOK'
  <2>1. inst' \in 1 .. MaxInst
    BY <1>5, LifecycleAssumption DEF HostRestart, TypeOK
  <2>2. down' \in [Conns -> Seq(Frames)]
    BY <1>5, EmptyQueue DEF HostRestart, TypeOK
  <2>3. pty' \in [Sessions -> PtyStates]
    BY <1>5, PtyFacts DEF HostRestart, TypeOK
  <2>4. up' \in SUBSET Conns /\ conn' \in 0 .. MaxConns
    BY <1>5, ConnFacts DEF HostRestart, TypeOK
  <2> QED
    BY <1>5, <2>1, <2>2, <2>3, <2>4 DEF HostRestart, TypeOK, hubDb, hubMem, wires, agent
<1>6. ASSUME HubCrash PROVE TypeOK'
  <2>1. crashes' \in 0 .. MaxCrash /\ link' \in 0 .. MaxConns
    BY <1>6, LifecycleAssumption, ConnFacts DEF HubCrash, TypeOK
  <2>2. rec' \in [Conns -> RecStates]
    BY <1>6, RecFacts, ConnFacts DEF HubCrash, TypeOK, Idle
  <2>3. pending' \in [Conns -> [Sessions -> Waiters]]
    BY <1>6, WaiterFacts DEF HubCrash, TypeOK, NoWait
  <2>4. handler' \in [Conns -> HandlerStates]
    BY <1>6, HandlerFacts DEF HubCrash, TypeOK
  <2>5. req' \in [Sessions -> ReqStates]
    BY <1>6, ReqFacts DEF HubCrash, TypeOK
  <2>6. back' \in [Conns -> Seq(Frames)]
    BY <1>6, EmptyQueue DEF HubCrash, TypeOK
  <2> QED
    BY <1>6, <2>1, <2>2, <2>3, <2>4, <2>5, <2>6 DEF HubCrash, TypeOK, hubDb, hubMem, wires, agent
<1>7. ASSUME NEW c \in Conns, Drop(c) PROVE TypeOK'
  <2>1. up' \in SUBSET Conns
    BY <1>7 DEF Drop, TypeOK
  <2> QED
    BY <1>7, <2>1 DEF Drop, TypeOK, hubDb, hubMem, wires, agent
<1>8. ASSUME NEW c \in Conns, Hello(c) PROVE TypeOK'
  <2>1. handler' \in [Conns -> HandlerStates]
    BY <1>8, HandlerFacts DEF Hello, TypeOK
  <2>2. link' \in 0 .. MaxConns
    BY <1>8, ConnFacts DEF Hello, TypeOK
  <2> QED
    BY <1>8, <2>1, <2>2 DEF Hello, TypeOK, hubDb, hubMem, wires, agent
<1>9. ASSUME NEW c \in Conns, RegisterLookup(c) PROVE TypeOK'
  <2>1. handler' \in [Conns -> HandlerStates]
    BY <1>9, HandlerFacts DEF RegisterLookup, TypeOK
  <2> QED
    BY <1>9, <2>1 DEF RegisterLookup, TypeOK, hubDb, hubMem, wires, agent
<1>10. ASSUME NEW c \in Conns, RegisterFails(c) PROVE TypeOK'
  <2>1. handler' \in [Conns -> HandlerStates]
    BY <1>10, HandlerFacts DEF RegisterFails, TypeOK
  <2> QED
    BY <1>10, <2>1 DEF RegisterFails, TypeOK, hubDb, hubMem, wires, agent
<1>11. ASSUME NEW c \in Conns, RegisterUpsert(c) PROVE TypeOK'
  <2>1. RecAt("fetch", {}, {}, 0) \in RecStates
    BY <1>11, RecFacts, ConnFacts DEF RegisterUpsert, TypeOK
  <2>2. rec' \in [Conns -> RecStates]
    BY <1>11, <2>1 DEF RegisterUpsert, TypeOK
  <2>3. handler' \in [Conns -> HandlerStates]
    BY <1>11, HandlerFacts DEF RegisterUpsert, TypeOK
  <2>4. machInst' \in 0 .. MaxInst
    BY <1>11 DEF RegisterUpsert, TypeOK
  <2> QED
    BY <1>11, <2>1, <2>2, <2>3, <2>4 DEF RegisterUpsert, TypeOK, hubDb, hubMem, wires, agent
<1>12. ASSUME NEW c \in Conns, RestoreMachineSessions(c) PROVE TypeOK'
  <2>1. status' \in [Sessions -> Statuses]
    BY <1>12, StatusFacts DEF RestoreMachineSessions, TypeOK, MarkDisconnectedRunning
  <2>2. handler' \in [Conns -> HandlerStates]
    BY <1>12, HandlerFacts DEF RestoreMachineSessions, TypeOK
  <2> QED
    BY <1>12, <2>1, <2>2 DEF RestoreMachineSessions, TypeOK, hubDb, hubMem, wires, agent
<1>13. ASSUME NEW c \in Conns, ResolveOpen(c) PROVE TypeOK'
  <2>1. PICK type \in {"SessionOpened", "Error"} : ResolveOpen(c)!(type)
    BY <1>13 DEF ResolveOpen
  <2>2. back' \in [Conns -> Seq(Frames)] /\ Head(back[c]).session \in Sessions
    BY <2>1, ReceiveFacts
  <2>3. rec' \in [Conns -> RecStates]
    BY <2>1, <2>2, RecFacts DEF TypeOK
  <2>4. req' \in [Sessions -> ReqStates]
    BY <2>1, <2>2, ReqFacts DEF TypeOK
  <2>5. pending' \in [Conns -> [Sessions -> Waiters]]
    BY <2>1, <2>2, WaiterFacts DEF TypeOK
  <2> QED
    BY <2>1, <2>2, <2>3, <2>4, <2>5 DEF TypeOK, hubDb, agent
<1>14. ASSUME NEW c \in Conns, MarkExited(c) PROVE TypeOK'
  <2>1. back' \in [Conns -> Seq(Frames)] /\ Head(back[c]).session \in Sessions
    BY <1>14, ReceiveFacts DEF MarkExited, TypeOK
  <2>2. status' \in [Sessions -> Statuses]
    BY <1>14, <2>1, StatusFacts DEF MarkExited, TypeOK
  <2> QED
    BY <1>14, <2>1, <2>2 DEF MarkExited, TypeOK, hubDb, hubMem, wires, agent
<1>15. ASSUME NEW c \in Conns, ReadError(c) PROVE TypeOK'
  <2>1. handler' \in [Conns -> HandlerStates]
    BY <1>15, HandlerFacts DEF ReadError, TypeOK
  <2>2. back' \in [Conns -> Seq(Frames)]
    BY <1>15, QueueFacts DEF ReadError, TypeOK
  <2> QED
    BY <1>15, <2>1, <2>2 DEF ReadError, TypeOK, hubDb, hubMem, wires, agent
<1>16. ASSUME NEW c \in Conns, RemoveIf(c) PROVE TypeOK'
  <2>1. handler' \in [Conns -> HandlerStates]
    BY <1>16, HandlerFacts DEF RemoveIf, TypeOK
  <2>2. link' \in 0 .. MaxConns
    BY <1>16, ConnFacts DEF RemoveIf, TypeOK
  <2> QED
    BY <1>16, <2>1, <2>2 DEF RemoveIf, TypeOK, hubDb, hubMem, wires, agent
<1>17. ASSUME NEW c \in Conns, MarkMachineDisconnected(c) PROVE TypeOK'
  <2>1. status' \in [Sessions -> Statuses]
    BY <1>17, StatusFacts DEF MarkMachineDisconnected, TypeOK, MarkRunningDisconnected
  <2>2. handler' \in [Conns -> HandlerStates]
    BY <1>17, HandlerFacts DEF MarkMachineDisconnected, TypeOK
  <2> QED
    BY <1>17, <2>1, <2>2 DEF MarkMachineDisconnected, TypeOK, hubDb, hubMem, wires, agent
<1>18. ASSUME NEW c \in Conns, HandlerReturns(c) PROVE TypeOK'
  <2>1. handler' \in [Conns -> HandlerStates]
    BY <1>18, HandlerFacts DEF HandlerReturns, TypeOK
  <2>2. back' \in [Conns -> Seq(Frames)]
    BY <1>18, QueueFacts DEF HandlerReturns, TypeOK
  <2>3. up' \in SUBSET Conns
    BY <1>18 DEF HandlerReturns, TypeOK
  <2> QED
    BY <1>18, <2>1, <2>2, <2>3 DEF HandlerReturns, TypeOK, hubDb, hubMem, wires, agent
<1>19. ASSUME NEW c \in Conns, ReconcileFetch(c) PROVE TypeOK'
  <2>1. \A T \in SUBSET Sessions : RecAt("next", T, {}, 0) \in RecStates
    BY <1>19, RecFacts, ConnFacts DEF ReconcileFetch, TypeOK
  <2>2. rec' \in [Conns -> RecStates]
    BY <1>19, <2>1 DEF ReconcileFetch, TypeOK
  <2> QED
    BY <1>19, <2>1, <2>2 DEF ReconcileFetch, TypeOK, hubDb, hubMem, wires, agent
<1>20. ASSUME NEW c \in Conns, ReconcileGivesUp(c) PROVE TypeOK'
  <2>1. rec' \in [Conns -> RecStates]
    BY <1>20, RecFacts DEF ReconcileGivesUp, TypeOK
  <2>2. pending' \in [Conns -> [Sessions -> Waiters]]
    BY <1>20, WaiterFacts DEF ReconcileGivesUp, TypeOK
  <2> QED
    BY <1>20, <2>1, <2>2 DEF ReconcileGivesUp, TypeOK, hubDb, hubMem, wires, agent
<1>21. ASSUME NEW c \in Conns, ReconcileSet(c) PROVE TypeOK'
  <2>1. rec' \in [Conns -> RecStates]
    BY <1>21, RecFacts, ConnFacts DEF ReconcileSet, TypeOK
  <2>2. status' \in [Sessions -> Statuses]
    BY <1>21, StatusFacts DEF ReconcileSet, TypeOK
  <2> QED
    BY <1>21, <2>1, <2>2 DEF ReconcileSet, TypeOK, hubDb, hubMem, wires, agent
<1>22. ASSUME NEW c \in Conns, ReconcileEnd(c) PROVE TypeOK'
  <2>1. rec' \in [Conns -> RecStates]
    BY <1>22, RecFacts, ConnFacts DEF ReconcileEnd, TypeOK
  <2>2. status' \in [Sessions -> Statuses]
    BY <1>22, StatusFacts DEF ReconcileEnd, TypeOK, MarkRunningLost
  <2> QED
    BY <1>22, <2>1, <2>2 DEF ReconcileEnd, TypeOK, hubDb, hubMem, wires, agent
<1>23. ASSUME NEW c \in Conns, NEW s \in Sessions, ReconcileOpen(c, s) PROVE TypeOK'
  <2>1. RecAt("setLost", rec[c].todo \ {s}, {s}, 0) \in RecStates /\ RecAt("await", rec[c].todo \ {s}, {s}, link) \in RecStates
    BY <1>23, RecFacts, ConnFacts DEF ReconcileOpen, TypeOK
  <2>2. rec' \in [Conns -> RecStates]
    BY <1>23, <2>1 DEF ReconcileOpen, TypeOK
  <2>3. down' \in [Conns -> Seq(Frames)] /\ pending' \in [Conns -> [Sessions -> Waiters]]
    BY <1>23, SendFacts, ConnFacts, WaiterFacts DEF ReconcileOpen, TypeOK
  <2> QED
    BY <1>23, <2>1, <2>2, <2>3 DEF ReconcileOpen, TypeOK, hubDb, hubMem, wires, agent
<1>24. ASSUME NEW s \in Sessions, OpenGivesUp(s) PROVE TypeOK'
  <2>1. pending' \in [Conns -> [Sessions -> Waiters]]
    BY <1>24, WaiterFacts DEF OpenGivesUp, TypeOK
  <2>2. req' \in [Sessions -> ReqStates]
    BY <1>24, ReqFacts DEF OpenGivesUp, TypeOK
  <2> QED
    BY <1>24, <2>1, <2>2 DEF OpenGivesUp, TypeOK, hubDb, hubMem, wires, agent
<1>25. ASSUME NEW s \in Sessions, OpenCreate(s) PROVE TypeOK'
  <2>1. down' \in [Conns -> Seq(Frames)]
    BY <1>25, SendFacts DEF OpenCreate, TypeOK
  <2>2. status' \in [Sessions -> Statuses]
    BY <1>25, StatusFacts DEF OpenCreate, TypeOK
  <2>3. req' \in [Sessions -> ReqStates]
    BY <1>25, ReqFacts DEF OpenCreate, TypeOK
  <2> QED
    BY <1>25, <2>1, <2>2, <2>3 DEF OpenCreate, TypeOK, hubDb, hubMem, wires, agent
<1>26. ASSUME NEW s \in Sessions, DeleteRecord(s) PROVE TypeOK'
  <2>1. status' \in [Sessions -> Statuses]
    BY <1>26, StatusFacts DEF DeleteRecord, TypeOK
  <2>2. auto' \in SUBSET Sessions /\ del' \in SUBSET Sessions
    BY <1>26 DEF DeleteRecord, TypeOK
  <2> QED
    BY <1>26, <2>1, <2>2 DEF DeleteRecord, TypeOK, hubDb, hubMem, wires, agent
<1>27. ASSUME NEW s \in Sessions, Open(s) PROVE TypeOK'
  <2>1. down' \in [Conns -> Seq(Frames)] /\ pending' \in [Conns -> [Sessions -> Waiters]]
    BY <1>27, SendFacts, ConnFacts, WaiterFacts DEF Open, TypeOK
  <2>2. req' \in [Sessions -> ReqStates]
    BY <1>27, ReqFacts DEF Open, TypeOK
  <2> QED
    BY <1>27, <2>1, <2>2 DEF Open, TypeOK, hubDb, hubMem, wires, agent
<1>28. ASSUME NEW s \in Sessions, Close(s) PROVE TypeOK'
  <2>1. down' \in [Conns -> Seq(Frames)]
    BY <1>28, SendFacts DEF Close, TypeOK
  <2> QED
    BY <1>28, <2>1 DEF Close, TypeOK, hubDb, hubMem, wires, agent
<1>29. ASSUME NEW s \in Sessions, DeleteCheck(s) PROVE TypeOK'
  <2>1. del' \in SUBSET Sessions
    BY <1>29 DEF DeleteCheck, TypeOK
  <2> QED
    BY <1>29, <2>1 DEF DeleteCheck, TypeOK, hubDb, hubMem, wires, agent
<1>30. ASSUME NEW s \in Sessions, ForceDeleteClose(s) PROVE TypeOK'
  <2>1. down' \in [Conns -> Seq(Frames)]
    BY <1>30, SendFacts DEF ForceDeleteClose, TypeOK
  <2>2. del' \in SUBSET Sessions
    BY <1>30 DEF ForceDeleteClose, TypeOK
  <2> QED
    BY <1>30, <2>1, <2>2 DEF ForceDeleteClose, TypeOK, hubDb, hubMem, wires, agent
<1>31. ASSUME NEW s \in Sessions, NEW b \in BOOLEAN, PtyExit(s, b) PROVE TypeOK'
  <2>1. back' \in [Conns -> Seq(Frames)]
    BY <1>31, SendFacts, ConnFacts DEF PtyExit, TypeOK
  <2>2. pty' \in [Sessions -> PtyStates]
    BY <1>31, PtyFacts DEF PtyExit, TypeOK
  <2> QED
    BY <1>31, <2>1, <2>2 DEF PtyExit, TypeOK, hubDb, hubMem, wires, agent
<1>32. ASSUME NEW s \in Sessions, NEW b \in BOOLEAN, SetAutoRelaunch(s, b) PROVE TypeOK'
  <2>1. auto' \in SUBSET Sessions
    BY <1>32 DEF SetAutoRelaunch, TypeOK
  <2> QED
    BY <1>32, <2>1 DEF SetAutoRelaunch, TypeOK, hubDb, hubMem, wires, agent
<1>33. CASE UNCHANGED vars
  BY <1>33 DEF vars, TypeOK
<1>34. QED
  BY <1>1, <1>2, <1>3, <1>4, <1>5, <1>6, <1>7, <1>8, <1>9, <1>10, <1>11, <1>12, <1>13, <1>14,
     <1>15, <1>16, <1>17, <1>18, <1>19, <1>20, <1>21, <1>22, <1>23, <1>24, <1>25, <1>26, <1>27,
     <1>28, <1>29, <1>30, <1>31, <1>32, <1>33 DEF Next, AgentNext, HandlerNext, ReconcileNext,
     RequestNext, OperatorNext

-----------------------------------------------------------------------------
(* The registry and the restarts. *)

\* Only link and handler matter to RegistryEntryOwned.
LEMMA RegistryFrame ==
    RegistryEntryOwned /\ UNCHANGED <<link, handler>> => RegistryEntryOwned'
  BY DEF RegistryEntryOwned

\* Every step keeps the registry entry owned by a handler that will remove it.
LEMMA RegistryNext ==
    TypeOK /\ RestartInv /\ RegistryEntryOwned /\ [Next]_vars => RegistryEntryOwned'
<1> SUFFICES ASSUME TypeOK, RestartInv, RegistryEntryOwned, [Next]_vars PROVE RegistryEntryOwned'
  OBVIOUS
<1>0. (link # 0 => link \in Conns) /\ handler \in [Conns -> HandlerStates]
  BY ConnFacts DEF TypeOK
<1>1. ASSUME AgentConnect PROVE RegistryEntryOwned'
  <2>1. nconn' \in Conns /\ nconn' > nconn /\ handler \in [Conns -> HandlerStates]
    BY <1>1, LifecycleAssumption DEF AgentConnect, Conns, TypeOK
  <2>2. handler[nconn'] = "none"
    BY <2>1 DEF RestartInv
  <2> QED
    BY <1>1, <1>0, <2>1, <2>2 DEF AgentConnect, RegistryEntryOwned
<1>2. ASSUME AgentLosesConn PROVE RegistryEntryOwned'
  BY <1>2, RegistryFrame DEF AgentLosesConn, hubDb, hubMem, wires, agent
<1>3. ASSUME AgentOpen PROVE RegistryEntryOwned'
  BY <1>3, RegistryFrame DEF AgentOpen, hubDb, hubMem, wires, agent
<1>4. ASSUME AgentClose PROVE RegistryEntryOwned'
  BY <1>4, RegistryFrame DEF AgentClose, hubDb, hubMem, wires, agent
<1>5. ASSUME HostRestart PROVE RegistryEntryOwned'
  BY <1>5, RegistryFrame DEF HostRestart, hubDb, hubMem, wires, agent
<1>6. ASSUME HubCrash PROVE RegistryEntryOwned'
  BY <1>6 DEF HubCrash, RegistryEntryOwned, hubDb, hubMem, wires, agent
<1>7. ASSUME NEW c \in Conns, Drop(c) PROVE RegistryEntryOwned'
  BY <1>7, RegistryFrame DEF Drop, hubDb, hubMem, wires, agent
<1>8. ASSUME NEW c \in Conns, Hello(c) PROVE RegistryEntryOwned'
  BY <1>8, <1>0 DEF Hello, RegistryEntryOwned, hubDb, hubMem, wires, agent
<1>9. ASSUME NEW c \in Conns, RegisterLookup(c) PROVE RegistryEntryOwned'
  BY <1>9, <1>0 DEF RegisterLookup, RegistryEntryOwned, hubDb, hubMem, wires, agent
<1>10. ASSUME NEW c \in Conns, RegisterFails(c) PROVE RegistryEntryOwned'
  BY <1>10, <1>0 DEF RegisterFails, RegistryEntryOwned, hubDb, hubMem, wires, agent
<1>11. ASSUME NEW c \in Conns, RegisterUpsert(c) PROVE RegistryEntryOwned'
  BY <1>11, <1>0 DEF RegisterUpsert, RegistryEntryOwned, hubDb, hubMem, wires, agent
<1>12. ASSUME NEW c \in Conns, RestoreMachineSessions(c) PROVE RegistryEntryOwned'
  BY <1>12, <1>0 DEF RestoreMachineSessions, RegistryEntryOwned, hubDb, hubMem, wires, agent
<1>13. ASSUME NEW c \in Conns, ResolveOpen(c) PROVE RegistryEntryOwned'
  BY <1>13, RegistryFrame DEF ResolveOpen, hubDb, hubMem, wires, agent
<1>14. ASSUME NEW c \in Conns, MarkExited(c) PROVE RegistryEntryOwned'
  BY <1>14, RegistryFrame DEF MarkExited, hubDb, hubMem, wires, agent
<1>15. ASSUME NEW c \in Conns, ReadError(c) PROVE RegistryEntryOwned'
  BY <1>15, <1>0 DEF ReadError, RegistryEntryOwned, hubDb, hubMem, wires, agent
<1>16. ASSUME NEW c \in Conns, RemoveIf(c) PROVE RegistryEntryOwned'
  BY <1>16, <1>0 DEF RemoveIf, RegistryEntryOwned, hubDb, hubMem, wires, agent
<1>17. ASSUME NEW c \in Conns, MarkMachineDisconnected(c) PROVE RegistryEntryOwned'
  BY <1>17, <1>0 DEF MarkMachineDisconnected, RegistryEntryOwned, hubDb, hubMem, wires, agent
<1>18. ASSUME NEW c \in Conns, HandlerReturns(c) PROVE RegistryEntryOwned'
  BY <1>18, <1>0 DEF HandlerReturns, RegistryEntryOwned, hubDb, hubMem, wires, agent
<1>19. ASSUME NEW c \in Conns, ReconcileFetch(c) PROVE RegistryEntryOwned'
  BY <1>19, RegistryFrame DEF ReconcileFetch, hubDb, hubMem, wires, agent
<1>20. ASSUME NEW c \in Conns, ReconcileGivesUp(c) PROVE RegistryEntryOwned'
  BY <1>20, RegistryFrame DEF ReconcileGivesUp, hubDb, hubMem, wires, agent
<1>21. ASSUME NEW c \in Conns, ReconcileSet(c) PROVE RegistryEntryOwned'
  BY <1>21, RegistryFrame DEF ReconcileSet, hubDb, hubMem, wires, agent
<1>22. ASSUME NEW c \in Conns, ReconcileEnd(c) PROVE RegistryEntryOwned'
  BY <1>22, RegistryFrame DEF ReconcileEnd, hubDb, hubMem, wires, agent
<1>23. ASSUME NEW c \in Conns, NEW s \in Sessions, ReconcileOpen(c, s) PROVE RegistryEntryOwned'
  BY <1>23, RegistryFrame DEF ReconcileOpen, hubDb, hubMem, wires, agent
<1>24. ASSUME NEW s \in Sessions, OpenGivesUp(s) PROVE RegistryEntryOwned'
  BY <1>24, RegistryFrame DEF OpenGivesUp, hubDb, hubMem, wires, agent
<1>25. ASSUME NEW s \in Sessions, OpenCreate(s) PROVE RegistryEntryOwned'
  BY <1>25, RegistryFrame DEF OpenCreate, hubDb, hubMem, wires, agent
<1>26. ASSUME NEW s \in Sessions, DeleteRecord(s) PROVE RegistryEntryOwned'
  BY <1>26, RegistryFrame DEF DeleteRecord, hubDb, hubMem, wires, agent
<1>27. ASSUME NEW s \in Sessions, Open(s) PROVE RegistryEntryOwned'
  BY <1>27, RegistryFrame DEF Open, hubDb, hubMem, wires, agent
<1>28. ASSUME NEW s \in Sessions, Close(s) PROVE RegistryEntryOwned'
  BY <1>28, RegistryFrame DEF Close, hubDb, hubMem, wires, agent
<1>29. ASSUME NEW s \in Sessions, DeleteCheck(s) PROVE RegistryEntryOwned'
  BY <1>29, RegistryFrame DEF DeleteCheck, hubDb, hubMem, wires, agent
<1>30. ASSUME NEW s \in Sessions, ForceDeleteClose(s) PROVE RegistryEntryOwned'
  BY <1>30, RegistryFrame DEF ForceDeleteClose, hubDb, hubMem, wires, agent
<1>31. ASSUME NEW s \in Sessions, NEW b \in BOOLEAN, PtyExit(s, b) PROVE RegistryEntryOwned'
  BY <1>31, RegistryFrame DEF PtyExit, hubDb, hubMem, wires, agent
<1>32. ASSUME NEW s \in Sessions, NEW b \in BOOLEAN, SetAutoRelaunch(s, b) PROVE RegistryEntryOwned'
  BY <1>32, RegistryFrame DEF SetAutoRelaunch, hubDb, hubMem, wires, agent
<1>33. CASE UNCHANGED vars
  BY <1>33, RegistryFrame DEF vars
<1>34. QED
  BY <1>1, <1>2, <1>3, <1>4, <1>5, <1>6, <1>7, <1>8, <1>9, <1>10, <1>11, <1>12, <1>13, <1>14,
     <1>15, <1>16, <1>17, <1>18, <1>19, <1>20, <1>21, <1>22, <1>23, <1>24, <1>25, <1>26, <1>27,
     <1>28, <1>29, <1>30, <1>31, <1>32, <1>33 DEF Next, AgentNext, HandlerNext, ReconcileNext,
     RequestNext, OperatorNext

\* The variables RestartInv is about.
LEMMA RestartFrame ==
    RestartInv /\ UNCHANGED <<machInst, inst, connInst, nconn, handler, rec>> => RestartInv'
  BY DEF RestartInv

\* Every step keeps RestartInv: a reconciliation starts only after a restart.
LEMMA RestartNext ==
    TypeOK /\ WaiterRegistered /\ RestartInv /\ [Next]_vars => RestartInv'
<1> SUFFICES ASSUME TypeOK, WaiterRegistered, RestartInv, [Next]_vars PROVE RestartInv'
  OBVIOUS
<1>0. /\ handler \in [Conns -> HandlerStates] /\ rec \in [Conns -> RecStates]
      /\ connInst \in [Conns -> 0 .. MaxInst]
  BY DEF TypeOK
<1>1. ASSUME AgentConnect PROVE RestartInv'
  <2>1. nconn' = nconn + 1 /\ nconn' \in Conns /\ nconn \in Nat /\ inst # 0 /\ inst <= inst
        /\ handler \in [Conns -> HandlerStates] /\ connInst \in [Conns -> 0 .. MaxInst]
    BY <1>1, LifecycleAssumption, SMTT(30) DEF AgentConnect, Conns, TypeOK
  <2>2. ASSUME NEW c \in Conns, c > nconn' PROVE c > nconn /\ c # nconn'
    BY <2>1, <2>2 DEF Conns
  <2> QED
    BY <1>1, <1>0, <2>1, <2>2 DEF AgentConnect, RestartInv, hubDb
<1>2. ASSUME AgentLosesConn PROVE RestartInv'
  BY <1>2, RestartFrame DEF AgentLosesConn, hubDb, hubMem, wires, agent
<1>3. ASSUME AgentOpen PROVE RestartInv'
  BY <1>3, RestartFrame DEF AgentOpen, hubDb, hubMem, wires, agent
<1>4. ASSUME AgentClose PROVE RestartInv'
  BY <1>4, RestartFrame DEF AgentClose, hubDb, hubMem, wires, agent
<1>5. ASSUME HostRestart PROVE RestartInv'
  <2>1. inst' = inst + 1 /\ inst \in 1 .. MaxInst /\ machInst \in 0 .. MaxInst
        /\ connInst \in [Conns -> 0 .. MaxInst]
    BY <1>5 DEF HostRestart, TypeOK
  <2>2. machInst <= inst' /\ inst' > 1 /\ \A c \in Conns : connInst[c] <= inst'
    BY <2>1 DEF RestartInv
  <2> QED
    BY <1>5, <2>2 DEF HostRestart, RestartInv, hubDb, hubMem, wires, agent
<1>6. ASSUME HubCrash PROVE RestartInv'
  <2>1. \A d \in Conns : (rec'[d].pc # "idle" => rec[d].pc # "idle") /\ (rec[d].pc = "idle" =>
              rec'[d].pc = "idle")
    BY <1>6, <1>0, RecFields DEF HubCrash, Idle
  <2>2. \A d \in Conns : handler'[d] = (IF handler[d] = "none" THEN "none" ELSE "done")
    BY <1>6, <1>0 DEF HubCrash
  <2> QED
    BY <1>6, <1>0, <2>1, <2>2 DEF HubCrash, RestartInv, hubDb, hubMem, wires, agent
<1>7. ASSUME NEW c \in Conns, Drop(c) PROVE RestartInv'
  BY <1>7, RestartFrame DEF Drop, hubDb, hubMem, wires, agent
<1>8. ASSUME NEW c \in Conns, Hello(c) PROVE RestartInv'
  BY <1>8, <1>0 DEF Hello, RestartInv, hubDb, hubMem, wires, agent
<1>9. ASSUME NEW c \in Conns, RegisterLookup(c) PROVE RestartInv'
  <2>1. machInst # 0 /\ machInst # connInst[c] => inst > 1
    BY <1>9 DEF RegisterLookup, RestartInv, TypeOK
  <2> QED
    BY <1>9, <1>0, <2>1 DEF RegisterLookup, RestartInv, hubDb, hubMem, wires, agent
<1>10. ASSUME NEW c \in Conns, RegisterFails(c) PROVE RestartInv'
  BY <1>10, <1>0 DEF RegisterFails, RestartInv, hubDb, hubMem, wires, agent
<1>11. ASSUME NEW c \in Conns, RegisterUpsert(c) PROVE RestartInv'
  <2>1. machInst' <= inst
    BY <1>11 DEF RegisterUpsert, RestartInv
  <2>2. \A d \in Conns : d # c => rec'[d] = rec[d] /\ handler'[d] = handler[d]
    BY <1>11, <1>0 DEF RegisterUpsert
  <2>3. handler'[c] \in {"loop", "restore"}
    BY <1>11, <1>0 DEF RegisterUpsert
  <2>4. rec'[c].pc # "idle" => handler[c] = "upsertRestarted" \/ rec[c].pc # "idle"
    BY <1>11, <1>0 DEF RegisterUpsert
  <2> QED
    BY <1>11, <1>0, <2>1, <2>2, <2>3, <2>4 DEF RegisterUpsert, RestartInv, hubDb, hubMem, wires,
       agent
<1>12. ASSUME NEW c \in Conns, RestoreMachineSessions(c) PROVE RestartInv'
  BY <1>12, <1>0 DEF RestoreMachineSessions, RestartInv, hubDb, hubMem, wires, agent
<1>13. ASSUME NEW c \in Conns, ResolveOpen(c) PROVE RestartInv'
  <2>1. PICK type \in {"SessionOpened", "Error"} : ResolveOpen(c)!(type)
    BY <1>13 DEF ResolveOpen
  <2>2. Head(back[c]).session \in Sessions
    BY <2>1, ReceiveFacts
  <2>3. ASSUME NEW w \in Conns, w = pending[c][Head(back[c]).session] PROVE rec[w].pc # "idle"
    BY <2>2, <2>3 DEF WaiterRegistered
  <2>4. \A d \in Conns : rec'[d].pc # "idle" => rec[d].pc # "idle"
    BY <1>0, <2>1, <2>2, <2>3
  <2>5. handler' = handler
    BY <2>1
  <2>6. \A d \in Conns : rec[d].pc = "idle" => rec'[d].pc = "idle"
    BY <1>0, <2>1, <2>2, <2>3
  <2> QED
    BY <2>1, <2>4, <2>5, <2>6 DEF RestartInv, hubDb, hubMem, wires, agent
<1>14. ASSUME NEW c \in Conns, MarkExited(c) PROVE RestartInv'
  BY <1>14, RestartFrame DEF MarkExited, hubDb, hubMem, wires, agent
<1>15. ASSUME NEW c \in Conns, ReadError(c) PROVE RestartInv'
  BY <1>15, <1>0 DEF ReadError, RestartInv, hubDb, hubMem, wires, agent
<1>16. ASSUME NEW c \in Conns, RemoveIf(c) PROVE RestartInv'
  BY <1>16, <1>0 DEF RemoveIf, RestartInv, hubDb, hubMem, wires, agent
<1>17. ASSUME NEW c \in Conns, MarkMachineDisconnected(c) PROVE RestartInv'
  BY <1>17, <1>0 DEF MarkMachineDisconnected, RestartInv, hubDb, hubMem, wires, agent
<1>18. ASSUME NEW c \in Conns, HandlerReturns(c) PROVE RestartInv'
  BY <1>18, <1>0 DEF HandlerReturns, RestartInv, hubDb, hubMem, wires, agent
<1>19. ASSUME NEW c \in Conns, ReconcileFetch(c) PROVE RestartInv'
  <2>1. \A d \in Conns : rec'[d].pc # "idle" => rec[d].pc # "idle"
    BY <1>19, <1>0, RecFields DEF ReconcileFetch
  <2>2. rec[c].pc # "idle"
    BY <1>19 DEF ReconcileFetch
  <2> QED
    BY <1>19, <1>0, <2>1, <2>2 DEF ReconcileFetch, RestartInv, hubDb, hubMem, wires, agent
<1>20. ASSUME NEW c \in Conns, ReconcileGivesUp(c) PROVE RestartInv'
  <2>1. \A d \in Conns : rec'[d].pc # "idle" => rec[d].pc # "idle"
    BY <1>20, <1>0, RecFields DEF ReconcileGivesUp
  <2>2. rec[c].pc # "idle"
    BY <1>20 DEF ReconcileGivesUp
  <2> QED
    BY <1>20, <1>0, <2>1, <2>2 DEF ReconcileGivesUp, RestartInv, hubDb, hubMem, wires, agent
<1>21. ASSUME NEW c \in Conns, ReconcileSet(c) PROVE RestartInv'
  <2>1. \A d \in Conns : rec'[d].pc # "idle" => rec[d].pc # "idle"
    BY <1>21, <1>0, RecFields DEF ReconcileSet
  <2>2. rec[c].pc # "idle"
    BY <1>21 DEF ReconcileSet
  <2> QED
    BY <1>21, <1>0, <2>1, <2>2 DEF ReconcileSet, RestartInv, hubDb, hubMem, wires, agent
<1>22. ASSUME NEW c \in Conns, ReconcileEnd(c) PROVE RestartInv'
  <2>1. \A d \in Conns : rec'[d].pc # "idle" => rec[d].pc # "idle"
    BY <1>22, <1>0, RecFields DEF ReconcileEnd
  <2>2. rec[c].pc # "idle"
    BY <1>22 DEF ReconcileEnd
  <2> QED
    BY <1>22, <1>0, <2>1, <2>2 DEF ReconcileEnd, RestartInv, hubDb, hubMem, wires, agent
<1>23. ASSUME NEW c \in Conns, NEW s \in Sessions, ReconcileOpen(c, s) PROVE RestartInv'
  <2>1. \A d \in Conns : rec'[d].pc # "idle" => rec[d].pc # "idle"
    BY <1>23, <1>0, RecFields DEF ReconcileOpen
  <2>2. rec[c].pc # "idle"
    BY <1>23 DEF ReconcileOpen
  <2> QED
    BY <1>23, <1>0, <2>1, <2>2 DEF ReconcileOpen, RestartInv, hubDb, hubMem, wires, agent
<1>24. ASSUME NEW s \in Sessions, OpenGivesUp(s) PROVE RestartInv'
  BY <1>24, RestartFrame DEF OpenGivesUp, hubDb, hubMem, wires, agent
<1>25. ASSUME NEW s \in Sessions, OpenCreate(s) PROVE RestartInv'
  BY <1>25, RestartFrame DEF OpenCreate, hubDb, hubMem, wires, agent
<1>26. ASSUME NEW s \in Sessions, DeleteRecord(s) PROVE RestartInv'
  BY <1>26, RestartFrame DEF DeleteRecord, hubDb, hubMem, wires, agent
<1>27. ASSUME NEW s \in Sessions, Open(s) PROVE RestartInv'
  BY <1>27, RestartFrame DEF Open, hubDb, hubMem, wires, agent
<1>28. ASSUME NEW s \in Sessions, Close(s) PROVE RestartInv'
  BY <1>28, RestartFrame DEF Close, hubDb, hubMem, wires, agent
<1>29. ASSUME NEW s \in Sessions, DeleteCheck(s) PROVE RestartInv'
  BY <1>29, RestartFrame DEF DeleteCheck, hubDb, hubMem, wires, agent
<1>30. ASSUME NEW s \in Sessions, ForceDeleteClose(s) PROVE RestartInv'
  BY <1>30, RestartFrame DEF ForceDeleteClose, hubDb, hubMem, wires, agent
<1>31. ASSUME NEW s \in Sessions, NEW b \in BOOLEAN, PtyExit(s, b) PROVE RestartInv'
  BY <1>31, RestartFrame DEF PtyExit, hubDb, hubMem, wires, agent
<1>32. ASSUME NEW s \in Sessions, NEW b \in BOOLEAN, SetAutoRelaunch(s, b) PROVE RestartInv'
  BY <1>32, RestartFrame DEF SetAutoRelaunch, hubDb, hubMem, wires, agent
<1>33. CASE UNCHANGED vars
  BY <1>33, RestartFrame DEF vars
<1>34. QED
  BY <1>1, <1>2, <1>3, <1>4, <1>5, <1>6, <1>7, <1>8, <1>9, <1>10, <1>11, <1>12, <1>13, <1>14,
     <1>15, <1>16, <1>17, <1>18, <1>19, <1>20, <1>21, <1>22, <1>23, <1>24, <1>25, <1>26, <1>27,
     <1>28, <1>29, <1>30, <1>31, <1>32, <1>33 DEF Next, AgentNext, HandlerNext, ReconcileNext,
     RequestNext, OperatorNext

-----------------------------------------------------------------------------
(* The waiters and the records. *)

\* The variables WaiterRegistered is about.
LEMMA WaiterFrame ==
    WaiterRegistered /\ UNCHANGED <<pending, req, rec>> => WaiterRegistered'
  BY DEF WaiterRegistered

\* A reconciliation at c that waits for nothing may move on.
LEMMA WaiterMoves ==
    ASSUME TypeOK, WaiterRegistered, NEW c \in Conns, rec[c].pc # "await",
           \A d \in Conns : d # c => rec'[d] = rec[d], UNCHANGED <<pending, req>>
    PROVE  WaiterRegistered'
<1>1. \A s \in Sessions, k \in Conns : pending[k][s] # c
  BY DEF WaiterRegistered
<1> QED
  BY <1>1 DEF WaiterRegistered

\* Every step keeps the waiters registered.
LEMMA WaiterNext ==
    TypeOK /\ RestartInv /\ RecordInv /\ WaiterRegistered /\ [Next]_vars => WaiterRegistered'
<1> SUFFICES ASSUME TypeOK, RestartInv, RecordInv, WaiterRegistered, [Next]_vars
             PROVE  WaiterRegistered'
  OBVIOUS
<1>0. /\ pending \in [Conns -> [Sessions -> Waiters]] /\ rec \in [Conns -> RecStates]
      /\ req \in [Sessions -> ReqStates] /\ link \in 0 .. MaxConns
  BY DEF TypeOK
<1>1. ASSUME AgentConnect PROVE WaiterRegistered'
  BY <1>1, WaiterFrame DEF AgentConnect, hubDb, hubMem, wires, agent
<1>2. ASSUME AgentLosesConn PROVE WaiterRegistered'
  BY <1>2, WaiterFrame DEF AgentLosesConn, hubDb, hubMem, wires, agent
<1>3. ASSUME AgentOpen PROVE WaiterRegistered'
  BY <1>3, WaiterFrame DEF AgentOpen, hubDb, hubMem, wires, agent
<1>4. ASSUME AgentClose PROVE WaiterRegistered'
  BY <1>4, WaiterFrame DEF AgentClose, hubDb, hubMem, wires, agent
<1>5. ASSUME HostRestart PROVE WaiterRegistered'
  BY <1>5, WaiterFrame DEF HostRestart, hubDb, hubMem, wires, agent
<1>6. ASSUME HubCrash PROVE WaiterRegistered'
  BY <1>6, <1>0, WaiterFacts DEF HubCrash, NoWait, WaiterRegistered, hubDb, hubMem, wires, agent
<1>7. ASSUME NEW c \in Conns, Drop(c) PROVE WaiterRegistered'
  BY <1>7, WaiterFrame DEF Drop, hubDb, hubMem, wires, agent
<1>8. ASSUME NEW c \in Conns, Hello(c) PROVE WaiterRegistered'
  BY <1>8, WaiterFrame DEF Hello, hubDb, hubMem, wires, agent
<1>9. ASSUME NEW c \in Conns, RegisterLookup(c) PROVE WaiterRegistered'
  BY <1>9, WaiterFrame DEF RegisterLookup, hubDb, hubMem, wires, agent
<1>10. ASSUME NEW c \in Conns, RegisterFails(c) PROVE WaiterRegistered'
  BY <1>10, WaiterFrame DEF RegisterFails, hubDb, hubMem, wires, agent
<1>11. ASSUME NEW c \in Conns, RegisterUpsert(c) PROVE WaiterRegistered'
  <2>1. rec[c].pc = "idle"
    BY <1>11 DEF RegisterUpsert, RestartInv
  <2> QED
    BY <1>11, <1>0, <2>1, WaiterMoves DEF RegisterUpsert, hubDb, hubMem, wires, agent
<1>12. ASSUME NEW c \in Conns, RestoreMachineSessions(c) PROVE WaiterRegistered'
  BY <1>12, WaiterFrame DEF RestoreMachineSessions, hubDb, hubMem, wires, agent
<1>13. ASSUME NEW c \in Conns, ResolveOpen(c) PROVE WaiterRegistered'
  <2> DEFINE z == Head(back[c]).session
             w == pending[c][z]
  <2>1. PICK type \in {"SessionOpened", "Error"} : ResolveOpen(c)!(type)
    BY <1>13 DEF ResolveOpen
  <2>2. z \in Sessions /\ w \in Waiters
    BY <1>0, <2>1, ReceiveFacts
  <2>3. /\ pending' = [pending EXCEPT ![c][z] = None]
        /\ req' = IF w = User THEN [req EXCEPT ![z] = IF type = "Error" THEN "done" ELSE "create"] ELSE req
        /\ rec' = IF w \in Conns THEN [rec EXCEPT ![w].pc = IF type = "Error" THEN "setLost" ELSE "setRunning"]
                                 ELSE rec
    BY <2>1
  <2> HIDE DEF z
  <2>4. \A k \in Conns, s \in Sessions :
           pending'[k][s] = IF k = c /\ s = z THEN None ELSE pending[k][s]
    BY <1>0, <2>2, <2>3
  <2>5. \A s \in Sessions : req'[s] # req[s] => s = z /\ w = User /\ req'[s] # "await"
    BY <1>0, <2>2, <2>3
  <2>6. \A d \in Conns : rec'[d] # rec[d] => d = w
    BY <1>0, <2>2, <2>3
  <2>7. \A s \in Sessions : req'[s] = "await" => \E k \in Conns : pending'[k][s] = User
    <3> SUFFICES ASSUME NEW s \in Sessions, req'[s] = "await" PROVE \E k \in Conns : pending'[k][s] = User
      OBVIOUS
    <3>1. req[s] = "await" /\ ~(s = z /\ w = User)
      BY <1>0, <2>2, <2>3, <2>5
    <3>2. PICK k \in Conns : pending[k][s] = User
      BY <3>1 DEF WaiterRegistered
    <3> QED
      BY <2>4, <3>1, <3>2
  <2>8. \A s \in Sessions, k \in Conns :
           pending'[k][s] = User =>
                 req'[s] = "await" /\ \A j \in Conns : pending'[j][s] = User => j = k
    BY <2>2, <2>4, <2>5, WaiterFacts DEF WaiterRegistered
  <2>9. \A s \in Sessions, k, d \in Conns :
           pending'[k][s] = d => rec'[d].pc = "await" /\ rec'[d].via = k /\ rec'[d].cur = {s}
    <3> SUFFICES ASSUME NEW s \in Sessions, NEW k \in Conns, NEW d \in Conns, pending'[k][s] = d
                 PROVE  rec'[d].pc = "await" /\ rec'[d].via = k /\ rec'[d].cur = {s}
      OBVIOUS
    <3>1. pending[k][s] = d /\ ~(k = c /\ s = z)
      BY <2>4, WaiterFacts
    <3>2. rec[d].pc = "await" /\ rec[d].via = k /\ rec[d].cur = {s}
      BY <3>1 DEF WaiterRegistered
    <3>3. ASSUME d = w PROVE FALSE
      <4>1. rec[d].via = c /\ rec[d].cur = {z}
        BY <2>2, <3>3 DEF WaiterRegistered
      <4> QED
        BY <3>1, <3>2, <4>1
    <3> QED
      BY <2>6, <3>2, <3>3
  <2> QED
    BY <2>7, <2>8, <2>9 DEF WaiterRegistered
<1>14. ASSUME NEW c \in Conns, MarkExited(c) PROVE WaiterRegistered'
  BY <1>14, WaiterFrame DEF MarkExited, hubDb, hubMem, wires, agent
<1>15. ASSUME NEW c \in Conns, ReadError(c) PROVE WaiterRegistered'
  BY <1>15, WaiterFrame DEF ReadError, hubDb, hubMem, wires, agent
<1>16. ASSUME NEW c \in Conns, RemoveIf(c) PROVE WaiterRegistered'
  BY <1>16, WaiterFrame DEF RemoveIf, hubDb, hubMem, wires, agent
<1>17. ASSUME NEW c \in Conns, MarkMachineDisconnected(c) PROVE WaiterRegistered'
  BY <1>17, WaiterFrame DEF MarkMachineDisconnected, hubDb, hubMem, wires, agent
<1>18. ASSUME NEW c \in Conns, HandlerReturns(c) PROVE WaiterRegistered'
  BY <1>18, WaiterFrame DEF HandlerReturns, hubDb, hubMem, wires, agent
<1>19. ASSUME NEW c \in Conns, ReconcileFetch(c) PROVE WaiterRegistered'
  BY <1>19, <1>0, WaiterMoves DEF ReconcileFetch, hubDb, hubMem, wires, agent
<1>20. ASSUME NEW c \in Conns, ReconcileGivesUp(c) PROVE WaiterRegistered'
  <2>1. rec[c].pc = "await" /\ rec[c].via \in Conns
    BY <1>20, <1>0, ConnFacts, RecFacts DEF ReconcileGivesUp, RecordInv
  <2>2. PICK z \in Sessions : rec[c].cur = {z} /\ req[z] = "done"
    BY <2>1 DEF RecordInv
  <2>3. \A k \in Conns, s \in Sessions :
           pending'[k][s] = IF k = rec[c].via /\ s = z THEN None ELSE pending[k][s]
    BY <1>20, <1>0, <2>1, <2>2 DEF ReconcileGivesUp
  <2>4. \A d \in Conns : d # c => rec'[d] = rec[d]
    BY <1>20, <1>0 DEF ReconcileGivesUp
  <2>5. req' = req /\ \A k \in Conns : pending[k][z] # User
    BY <1>20, <2>2 DEF ReconcileGivesUp, WaiterRegistered
  <2>6. \A k \in Conns, s \in Sessions : pending'[k][s] # c
    BY <2>2, <2>3, WaiterFacts DEF WaiterRegistered
  <2>7. \A s \in Sessions : req'[s] = "await" => \E k \in Conns : pending'[k][s] = User
    BY <2>3, <2>5 DEF WaiterRegistered
  <2>8. \A s \in Sessions, k \in Conns :
           pending'[k][s] = User =>
                 req'[s] = "await" /\ \A j \in Conns : pending'[j][s] = User => j = k
    BY <2>3, <2>5, WaiterFacts DEF WaiterRegistered
  <2>9. ASSUME NEW s \in Sessions, NEW k \in Conns, NEW d \in Conns, pending'[k][s] = d
        PROVE  rec'[d].pc = "await" /\ rec'[d].via = k /\ rec'[d].cur = {s}
    <3>1. pending[k][s] = d /\ d # c
      BY <2>3, <2>6, <2>9, WaiterFacts
    <3> QED
      BY <2>4, <3>1 DEF WaiterRegistered
  <2> QED
    BY <2>7, <2>8, <2>9 DEF WaiterRegistered
<1>21. ASSUME NEW c \in Conns, ReconcileSet(c) PROVE WaiterRegistered'
  BY <1>21, <1>0, WaiterMoves DEF ReconcileSet, hubDb, hubMem, wires, agent
<1>22. ASSUME NEW c \in Conns, ReconcileEnd(c) PROVE WaiterRegistered'
  BY <1>22, <1>0, WaiterMoves DEF ReconcileEnd, hubDb, hubMem, wires, agent
<1>23. ASSUME NEW c \in Conns, NEW s \in Sessions, ReconcileOpen(c, s) PROVE WaiterRegistered'
  <2>1. rec[c].pc = "next" /\ req[s] = "done" /\ req' = req
    BY <1>23 DEF ReconcileOpen, RecordInv
  <2>2. (\A k \in Conns : pending[k][s] # User) /\ (\A k \in Conns, t \in Sessions : pending[k][t] # c)
    BY <2>1 DEF WaiterRegistered
  <2>3. \A d \in Conns : d # c => rec'[d] = rec[d]
    BY <1>23, <1>0 DEF ReconcileOpen
  <2>4. CASE link = 0
    BY <1>23, <2>1, <2>3, <2>4, WaiterMoves DEF ReconcileOpen
  <2>5. CASE link # 0
    <3>1. link \in Conns
      BY <1>0, <2>5, ConnFacts
    <3>2. /\ rec'[c].pc = "await" /\ rec'[c].via = link /\ rec'[c].cur = {s}
      BY <1>23, <1>0, <2>5, RecFields DEF ReconcileOpen
    <3>3. \A k \in Conns, t \in Sessions :
             pending'[k][t] = IF k = link /\ t = s THEN c ELSE pending[k][t]
      BY <1>23, <1>0, <2>5, <3>1 DEF ReconcileOpen, SendOpen
    <3> QED
      <4>1. \A t \in Sessions : req'[t] = "await" => \E k \in Conns : pending'[k][t] = User
        BY <2>1, <3>3 DEF WaiterRegistered
      <4>2. \A t \in Sessions, k \in Conns :
               pending'[k][t] = User =>
                     req'[t] = "await" /\ \A j \in Conns : pending'[j][t] = User => j = k
        BY <2>1, <3>3, WaiterFacts DEF WaiterRegistered
      <4>3. \A t \in Sessions, k, d \in Conns :
               pending'[k][t] = d => rec'[d].pc = "await" /\ rec'[d].via = k /\ rec'[d].cur = {t}
        BY <2>2, <2>3, <3>2, <3>3 DEF WaiterRegistered
      <4> QED
        BY <4>1, <4>2, <4>3 DEF WaiterRegistered
  <2> QED
    BY <2>4, <2>5
<1>24. ASSUME NEW s \in Sessions, OpenGivesUp(s) PROVE WaiterRegistered'
  <2>1. PICK k \in Conns : pending[k][s] = User /\ pending' = [pending EXCEPT ![k][s] = None]
    BY <1>24 DEF OpenGivesUp
  <2>2. rec' = rec /\ \A t \in Sessions : req'[t] = IF t = s THEN "done" ELSE req[t]
    BY <1>24, <1>0 DEF OpenGivesUp
  <2>3. \A j \in Conns, t \in Sessions :
           pending'[j][t] = IF j = k /\ t = s THEN None ELSE pending[j][t]
    BY <1>0, <2>1
  <2>4. \A j \in Conns : pending'[j][s] # User
    BY <2>1, <2>3, WaiterFacts DEF WaiterRegistered
  <2>5. \A t \in Sessions : req'[t] = "await" => \E j \in Conns : pending'[j][t] = User
    BY <2>2, <2>3 DEF WaiterRegistered
  <2>6. \A t \in Sessions, j \in Conns :
           pending'[j][t] = User =>
                 req'[t] = "await" /\ \A i \in Conns : pending'[i][t] = User => i = j
    BY <2>2, <2>3, <2>4, WaiterFacts DEF WaiterRegistered
  <2>7. \A t \in Sessions, j, d \in Conns :
           pending'[j][t] = d => rec'[d].pc = "await" /\ rec'[d].via = j /\ rec'[d].cur = {t}
    BY <2>2, <2>3, WaiterFacts DEF WaiterRegistered
  <2> QED
    BY <2>5, <2>6, <2>7 DEF WaiterRegistered
<1>25. ASSUME NEW s \in Sessions, OpenCreate(s) PROVE WaiterRegistered'
  <2>1. pending' = pending /\ rec' = rec 
        /\ \A t \in Sessions : (req'[t] = "await" => req[t] = "await") /\ (req[t] = "await" =>
                 req'[t] = "await")
    BY <1>25, <1>0 DEF OpenCreate
  <2>2. \A t \in Sessions : req'[t] = "await" => \E k \in Conns : pending'[k][t] = User
    BY <2>1 DEF WaiterRegistered
  <2>3. \A t \in Sessions, k \in Conns :
           pending'[k][t] = User =>
                 req'[t] = "await" /\ \A j \in Conns : pending'[j][t] = User => j = k
    BY <2>1 DEF WaiterRegistered
  <2>4. \A t \in Sessions, k, d \in Conns :
           pending'[k][t] = d => rec'[d].pc = "await" /\ rec'[d].via = k /\ rec'[d].cur = {t}
    BY <2>1, SMTT(30) DEF WaiterRegistered
  <2> QED
    BY <2>2, <2>3, <2>4 DEF WaiterRegistered
<1>26. ASSUME NEW s \in Sessions, DeleteRecord(s) PROVE WaiterRegistered'
  BY <1>26, WaiterFrame DEF DeleteRecord, hubDb, hubMem, wires, agent
<1>27. ASSUME NEW s \in Sessions, Open(s) PROVE WaiterRegistered'
  <2>1. req[s] = "new" /\ link \in Conns /\ rec' = rec
    BY <1>27, <1>0, ConnFacts DEF Open
  <2>2. \A t \in Sessions : req'[t] = IF t = s THEN "await" ELSE req[t]
    BY <1>27, <1>0 DEF Open
  <2>3. \A j \in Conns, t \in Sessions :
           pending'[j][t] = IF j = link /\ t = s THEN User ELSE pending[j][t]
    BY <1>27, <1>0, <2>1 DEF Open, SendOpen
  <2>4. \A j \in Conns : pending[j][s] # User
    BY <2>1 DEF WaiterRegistered
  <2>5. \A t \in Sessions : req'[t] = "await" => \E j \in Conns : pending'[j][t] = User
    BY <2>1, <2>2, <2>3 DEF WaiterRegistered
  <2>6. \A t \in Sessions, j \in Conns :
           pending'[j][t] = User =>
                 req'[t] = "await" /\ \A i \in Conns : pending'[i][t] = User => i = j
    BY <2>2, <2>3, <2>4 DEF WaiterRegistered
  <2>7. \A t \in Sessions, j, d \in Conns :
           pending'[j][t] = d => rec'[d].pc = "await" /\ rec'[d].via = j /\ rec'[d].cur = {t}
    <3> SUFFICES ASSUME NEW t \in Sessions, NEW j \in Conns, NEW d \in Conns, pending'[j][t] = d
                 PROVE  rec'[d].pc = "await" /\ rec'[d].via = j /\ rec'[d].cur = {t}
      OBVIOUS
    <3>1. pending[j][t] = d
      BY <2>3, WaiterFacts
    <3> QED
      BY <2>1, <3>1 DEF WaiterRegistered
  <2> QED
    BY <2>5, <2>6, <2>7 DEF WaiterRegistered
<1>28. ASSUME NEW s \in Sessions, Close(s) PROVE WaiterRegistered'
  BY <1>28, WaiterFrame DEF Close, hubDb, hubMem, wires, agent
<1>29. ASSUME NEW s \in Sessions, DeleteCheck(s) PROVE WaiterRegistered'
  BY <1>29, WaiterFrame DEF DeleteCheck, hubDb, hubMem, wires, agent
<1>30. ASSUME NEW s \in Sessions, ForceDeleteClose(s) PROVE WaiterRegistered'
  BY <1>30, WaiterFrame DEF ForceDeleteClose, hubDb, hubMem, wires, agent
<1>31. ASSUME NEW s \in Sessions, NEW b \in BOOLEAN, PtyExit(s, b) PROVE WaiterRegistered'
  BY <1>31, WaiterFrame DEF PtyExit, hubDb, hubMem, wires, agent
<1>32. ASSUME NEW s \in Sessions, NEW b \in BOOLEAN, SetAutoRelaunch(s, b) PROVE WaiterRegistered'
  BY <1>32, WaiterFrame DEF SetAutoRelaunch, hubDb, hubMem, wires, agent
<1>33. CASE UNCHANGED vars
  BY <1>33, WaiterFrame DEF vars
<1>34. QED
  BY <1>1, <1>2, <1>3, <1>4, <1>5, <1>6, <1>7, <1>8, <1>9, <1>10, <1>11, <1>12, <1>13, <1>14,
     <1>15, <1>16, <1>17, <1>18, <1>19, <1>20, <1>21, <1>22, <1>23, <1>24, <1>25, <1>26, <1>27,
     <1>28, <1>29, <1>30, <1>31, <1>32, <1>33 DEF Next, AgentNext, HandlerNext, ReconcileNext,
     RequestNext, OperatorNext

\* The variables RecordInv is about.
LEMMA RecordFrame ==
    RecordInv /\ UNCHANGED <<status, req, rec>> => RecordInv'
  BY DEF RecordInv

\* A statement that creates no record keeps RecordInv.
LEMMA RecordStatus ==
    ASSUME RecordInv, UNCHANGED <<req, rec>>,
           \A s \in Sessions : status[s] = "none" => status'[s] = "none"
    PROVE  RecordInv'
  BY DEF RecordInv

\* Requests end, they do not come back.
LEMMA RecordReq ==
    ASSUME RecordInv, UNCHANGED <<status, rec>>, rec \in [Conns -> RecStates],
           \A s \in Sessions : req[s] = "done" => req'[s] = "done"
    PROVE  RecordInv'
<1>1. \A s \in Sessions : req'[s] # "done" => req[s] # "done"
  OBVIOUS
<1>2. \A c \in Conns : \A s \in rec[c].todo \cup rec[c].cur : s \in Sessions
  BY RecFacts
<1>3. \A c \in Conns : \A s \in rec[c].todo \cup rec[c].cur : req'[s] = "done"
  BY <1>2 DEF RecordInv
<1> QED
  BY <1>1, <1>3 DEF RecordInv

\* A reconciliation takes its next step.
LEMMA RecordRec ==
    ASSUME RecordInv, UNCHANGED req, NEW c \in Conns,
           \A s \in Sessions : status[s] = "none" => status'[s] = "none",
           \A d \in Conns : d # c => rec'[d] = rec[d],
           \A s \in rec'[c].todo \cup rec'[c].cur : req[s] = "done",
           rec'[c].pc \in {"await", "setRunning", "setLost"} =>
                 \E s \in Sessions : rec'[c].cur = {s},
           rec'[c].pc = "await" => rec'[c].via # 0
    PROVE  RecordInv'
<1>1. \A s \in Sessions : req'[s] # "done" => status'[s] = "none"
  BY DEF RecordInv
<1>2. ASSUME NEW d \in Conns
      PROVE  /\ \A s \in rec'[d].todo \cup rec'[d].cur : req'[s] = "done"
             /\ rec'[d].pc \in {"await", "setRunning", "setLost"} =>
                      \E s \in Sessions : rec'[d].cur = {s}
             /\ rec'[d].pc = "await" => rec'[d].via # 0
  <2>1. CASE d = c
    BY <2>1
  <2>2. CASE d # c
    BY <2>2 DEF RecordInv
  <2> QED
    BY <2>1, <2>2
<1> QED
  BY <1>1, <1>2 DEF RecordInv

\* Every step keeps RecordInv.
LEMMA RecordNext ==
    TypeOK /\ TypeOK' /\ WaiterRegistered /\ RecordInv /\ [Next]_vars => RecordInv'
<1> SUFFICES ASSUME TypeOK, TypeOK', WaiterRegistered, RecordInv, [Next]_vars PROVE RecordInv'
  OBVIOUS
<1>0. /\ status \in [Sessions -> Statuses] /\ rec \in [Conns -> RecStates]
      /\ req \in [Sessions -> ReqStates] /\ req' \in [Sessions -> ReqStates]
      /\ auto \subseteq Sessions
      /\ pending \in [Conns -> [Sessions -> Waiters]]
  BY DEF TypeOK
<1>1. ASSUME AgentConnect PROVE RecordInv'
  BY <1>1, RecordFrame DEF AgentConnect, hubDb, hubMem, wires, agent
<1>2. ASSUME AgentLosesConn PROVE RecordInv'
  BY <1>2, RecordFrame DEF AgentLosesConn, hubDb, hubMem, wires, agent
<1>3. ASSUME AgentOpen PROVE RecordInv'
  BY <1>3, RecordFrame DEF AgentOpen, hubDb, hubMem, wires, agent
<1>4. ASSUME AgentClose PROVE RecordInv'
  BY <1>4, RecordFrame DEF AgentClose, hubDb, hubMem, wires, agent
<1>5. ASSUME HostRestart PROVE RecordInv'
  BY <1>5, RecordFrame DEF HostRestart, hubDb, hubMem, wires, agent
<1>6. ASSUME HubCrash PROVE RecordInv'
  <2>1. \A d \in Conns : rec'[d] = Idle \/ rec'[d] = RecAt("done", {}, {}, 0)
    BY <1>6 DEF HubCrash
  <2>2. \A d \in Conns : rec'[d].todo = {} /\ rec'[d].cur = {} /\ rec'[d].pc \in {"idle", "done"}
    BY <2>1, RecFields DEF Idle
  <2>3. status' = status /\ \A s \in Sessions : req'[s] # "done" => req[s] # "done"
    BY <1>6 DEF HubCrash, hubDb
  <2> QED
    BY <2>2, <2>3 DEF RecordInv
<1>7. ASSUME NEW c \in Conns, Drop(c) PROVE RecordInv'
  BY <1>7, RecordFrame DEF Drop, hubDb, hubMem, wires, agent
<1>8. ASSUME NEW c \in Conns, Hello(c) PROVE RecordInv'
  BY <1>8, RecordFrame DEF Hello, hubDb, hubMem, wires, agent
<1>9. ASSUME NEW c \in Conns, RegisterLookup(c) PROVE RecordInv'
  BY <1>9, RecordFrame DEF RegisterLookup, hubDb, hubMem, wires, agent
<1>10. ASSUME NEW c \in Conns, RegisterFails(c) PROVE RecordInv'
  BY <1>10, RecordFrame DEF RegisterFails, hubDb, hubMem, wires, agent
<1>11. ASSUME NEW c \in Conns, RegisterUpsert(c) PROVE RecordInv'
  <2>1. /\ UNCHANGED <<status, req>>
        /\ \A d \in Conns : d # c => rec'[d] = rec[d]
        /\ rec'[c] \in {rec[c], RecAt("fetch", {}, {}, 0)}
    BY <1>11, <1>0 DEF RegisterUpsert, hubDb, hubMem, wires, agent
  <2>2. CASE rec'[c] = rec[c]
    BY <2>1, <2>2 DEF RecordInv
  <2>3. CASE rec'[c] = RecAt("fetch", {}, {}, 0)
    BY <2>1, <2>3, RecFields, RecordRec
  <2> QED
    BY <2>1, <2>2, <2>3
<1>12. ASSUME NEW c \in Conns, RestoreMachineSessions(c) PROVE RecordInv'
  BY <1>12, <1>0, RecordStatus DEF RestoreMachineSessions, MarkDisconnectedRunning, hubDb, hubMem,
     wires, agent
<1>13. ASSUME NEW c \in Conns, ResolveOpen(c) PROVE RecordInv'
  <2> DEFINE z == Head(back[c]).session
             w == pending[c][z]
  <2>1. PICK type \in {"SessionOpened", "Error"} : ResolveOpen(c)!(type)
    BY <1>13 DEF ResolveOpen
  <2>2. z \in Sessions /\ status' = status
    BY <2>1, ReceiveFacts DEF hubDb
  <2>3. /\ req' = IF w = User THEN [req EXCEPT ![z] = IF type = "Error" THEN "done" ELSE "create"] ELSE req
        /\ rec' = IF w \in Conns THEN [rec EXCEPT ![w].pc = IF type = "Error" THEN "setLost" ELSE "setRunning"]
                                 ELSE rec
    BY <2>1
  <2> HIDE DEF z
  <2>4. CASE w \in Conns
    <3>1. rec[w].cur = {z}
      BY <2>2, <2>4 DEF WaiterRegistered
    <3>2. /\ rec'[w].todo = rec[w].todo /\ rec'[w].cur = rec[w].cur
          /\ rec'[w].pc \in {"setLost", "setRunning"}
          /\ \A d \in Conns : d # w => rec'[d] = rec[d]
      BY <1>0, <2>3, <2>4 DEF RecStates
    <3>3. UNCHANGED <<status, req>>
      BY <2>2, <2>3, <2>4, WaiterFacts
    <3>4. \A s \in rec'[w].todo \cup rec'[w].cur : req[s] = "done"
      BY <2>4, <3>2 DEF RecordInv
    <3> HIDE DEF w
    <3> QED
      BY <2>2, <2>4, <3>1, <3>2, <3>3, <3>4, RecordRec
  <2>5. CASE w = User
    <3>1. req[z] = "await"
      BY <2>2, <2>5 DEF WaiterRegistered
    <3>2. rec' = rec /\ \A s \in Sessions : req[s] = "done" => req'[s] = "done"
      BY <1>0, <2>2, <2>3, <2>5, <3>1, WaiterFacts
    <3> QED
      BY <1>0, <2>2, <3>2, RecordReq
  <2>6. CASE w \notin Conns /\ w # User
    BY <2>2, <2>3, <2>6, RecordFrame
  <2> QED
    BY <2>4, <2>5, <2>6
<1>14. ASSUME NEW c \in Conns, MarkExited(c) PROVE RecordInv'
  <2>1. Head(back[c]).session \in Sessions
    BY <1>14, ReceiveFacts DEF MarkExited
  <2> QED
    BY <1>14, <1>0, <2>1, RecordStatus DEF MarkExited, hubDb, hubMem, wires, agent
<1>15. ASSUME NEW c \in Conns, ReadError(c) PROVE RecordInv'
  BY <1>15, RecordFrame DEF ReadError, hubDb, hubMem, wires, agent
<1>16. ASSUME NEW c \in Conns, RemoveIf(c) PROVE RecordInv'
  BY <1>16, RecordFrame DEF RemoveIf, hubDb, hubMem, wires, agent
<1>17. ASSUME NEW c \in Conns, MarkMachineDisconnected(c) PROVE RecordInv'
  BY <1>17, <1>0, RecordStatus DEF MarkMachineDisconnected, MarkRunningDisconnected, hubDb,
     hubMem, wires, agent
<1>18. ASSUME NEW c \in Conns, HandlerReturns(c) PROVE RecordInv'
  BY <1>18, RecordFrame DEF HandlerReturns, hubDb, hubMem, wires, agent
<1>19. ASSUME NEW c \in Conns, ReconcileFetch(c) PROVE RecordInv'
  <2>0. PICK ok \in BOOLEAN :
           rec' = [rec EXCEPT ![c] = RecAt("next", {s \in auto : ok /\ status[s] \in Live}, {}, 0)]
    BY <1>19 DEF ReconcileFetch, CtxLive
  <2> DEFINE T == {s \in auto : ok /\ status[s] \in Live}
  <2>1. rec' = [rec EXCEPT ![c] = RecAt("next", T, {}, 0)] /\ \A s \in T : s \in auto /\ status[s] \in Live
    BY <2>0
  <2> HIDE DEF T
  <2>2. \A s \in T : req[s] = "done"
    BY <1>0, <2>1 DEF RecordInv, Live
  <2>3. rec'[c] = RecAt("next", T, {}, 0) /\ \A d \in Conns : d # c => rec'[d] = rec[d]
    BY <1>0, <2>1
  <2>4. UNCHANGED <<status, req>>
    BY <1>19 DEF ReconcileFetch, hubDb, hubMem, wires, agent
  <2> QED
    BY <2>2, <2>3, <2>4, RecFields, RecordRec
<1>20. ASSUME NEW c \in Conns, ReconcileGivesUp(c) PROVE RecordInv'
  <2>1. /\ rec[c].pc = "await" /\ rec'[c] = [rec[c] EXCEPT !.pc = "setLost"]
        /\ \A d \in Conns : d # c => rec'[d] = rec[d]
    BY <1>20, <1>0 DEF ReconcileGivesUp
  <2>2. rec'[c].todo = rec[c].todo /\ rec'[c].cur = rec[c].cur /\ rec'[c].pc = "setLost"
    BY <1>0, <2>1 DEF RecStates
  <2>3. UNCHANGED <<status, req>>
    BY <1>20 DEF ReconcileGivesUp, hubDb, hubMem, wires, agent
  <2>4. (\A s \in rec'[c].todo \cup rec'[c].cur : req[s] = "done") /\ \E s \in Sessions : rec'[c].cur = {s}
    BY <2>1, <2>2 DEF RecordInv
  <2> QED
    BY <2>1, <2>2, <2>3, <2>4, RecordRec
<1>21. ASSUME NEW c \in Conns, ReconcileSet(c) PROVE RecordInv'
  <2>1. /\ rec'[c] = RecAt("next", rec[c].todo, {}, 0)
        /\ \A d \in Conns : d # c => rec'[d] = rec[d]
    BY <1>21, <1>0 DEF ReconcileSet
  <2>2. req' = req /\ \A s \in Sessions : status[s] = "none" => status'[s] = "none"
    BY <1>21, <1>0 DEF ReconcileSet, MarkRunningLost, Live
  <2>3. \A s \in rec[c].todo : req[s] = "done"
    BY DEF RecordInv
  <2> QED
    BY <2>1, <2>2, <2>3, RecFields, RecordRec
<1>22. ASSUME NEW c \in Conns, ReconcileEnd(c) PROVE RecordInv'
  <2>1. /\ rec'[c] = RecAt("done", {}, {}, 0)
        /\ \A d \in Conns : d # c => rec'[d] = rec[d]
    BY <1>22, <1>0 DEF ReconcileEnd
  <2>2. req' = req /\ \A s \in Sessions : status[s] = "none" => status'[s] = "none"
    BY <1>22, <1>0 DEF ReconcileEnd, MarkRunningLost, Live
  <2>3. \A s \in rec[c].todo : req[s] = "done"
    BY DEF RecordInv
  <2> QED
    BY <2>1, <2>2, <2>3, RecFields, RecordRec
<1>23. ASSUME NEW c \in Conns, NEW s \in Sessions, ReconcileOpen(c, s) PROVE RecordInv'
  <2>1. PICK p \in {"setLost", "await"}, k \in 0 .. MaxConns :
           /\ rec'[c] = RecAt(p, rec[c].todo \ {s}, {s}, k)
           /\ p = "await" => k # 0
    BY <1>23, <1>0, ConnFacts DEF ReconcileOpen, TypeOK
  <2>2. UNCHANGED <<status, req>> /\ \A d \in Conns : d # c => rec'[d] = rec[d]
    BY <1>23, <1>0 DEF ReconcileOpen, hubDb, hubMem, wires, agent
  <2>3. \A t \in (rec[c].todo \ {s}) \cup {s} : req[t] = "done"
    BY <1>23 DEF ReconcileOpen, RecordInv
  <2> QED
    BY <2>1, <2>2, <2>3, RecFields, RecordRec
<1>24. ASSUME NEW s \in Sessions, OpenGivesUp(s) PROVE RecordInv'
  BY <1>24, <1>0, RecordReq DEF OpenGivesUp, hubDb, hubMem, wires, agent
<1>25. ASSUME NEW s \in Sessions, OpenCreate(s) PROVE RecordInv'
  <2>1. rec' = rec /\ req' = [req EXCEPT ![s] = "done"]
    BY <1>25 DEF OpenCreate
  <2>2. \A t \in Sessions : t # s => status'[t] = status[t]
    BY <1>25, <1>0 DEF OpenCreate
  <2> QED
    BY <1>0, <2>1, <2>2 DEF RecordInv
<1>26. ASSUME NEW s \in Sessions, DeleteRecord(s) PROVE RecordInv'
  BY <1>26, <1>0, RecordStatus DEF DeleteRecord, hubDb, hubMem, wires, agent
<1>27. ASSUME NEW s \in Sessions, Open(s) PROVE RecordInv'
  BY <1>27, <1>0, RecordReq DEF Open, hubDb, hubMem, wires, agent
<1>28. ASSUME NEW s \in Sessions, Close(s) PROVE RecordInv'
  BY <1>28, RecordFrame DEF Close, hubDb, hubMem, wires, agent
<1>29. ASSUME NEW s \in Sessions, DeleteCheck(s) PROVE RecordInv'
  BY <1>29, RecordFrame DEF DeleteCheck, hubDb, hubMem, wires, agent
<1>30. ASSUME NEW s \in Sessions, ForceDeleteClose(s) PROVE RecordInv'
  BY <1>30, RecordFrame DEF ForceDeleteClose, hubDb, hubMem, wires, agent
<1>31. ASSUME NEW s \in Sessions, NEW b \in BOOLEAN, PtyExit(s, b) PROVE RecordInv'
  BY <1>31, RecordFrame DEF PtyExit, hubDb, hubMem, wires, agent
<1>32. ASSUME NEW s \in Sessions, NEW b \in BOOLEAN, SetAutoRelaunch(s, b) PROVE RecordInv'
  BY <1>32, RecordFrame DEF SetAutoRelaunch, hubDb, hubMem, wires, agent
<1>33. CASE UNCHANGED vars
  BY <1>33, RecordFrame DEF vars
<1>34. QED
  BY <1>1, <1>2, <1>3, <1>4, <1>5, <1>6, <1>7, <1>8, <1>9, <1>10, <1>11, <1>12, <1>13, <1>14,
     <1>15, <1>16, <1>17, <1>18, <1>19, <1>20, <1>21, <1>22, <1>23, <1>24, <1>25, <1>26, <1>27,
     <1>28, <1>29, <1>30, <1>31, <1>32, <1>33 DEF Next, AgentNext, HandlerNext, ReconcileNext,
     RequestNext, OperatorNext

-----------------------------------------------------------------------------
(* The invariants hold. *)

LifecycleInv == TypeOK /\ RegistryEntryOwned /\ RestartInv /\ WaiterRegistered /\ RecordInv

\* The invariant holds initially.
LEMMA InvInit == Init => LifecycleInv
<1> SUFFICES ASSUME Init PROVE LifecycleInv
  OBVIOUS
<1>1. TypeOK
  BY TypeInit
<1>2. RegistryEntryOwned
  BY DEF Init, RegistryEntryOwned
<1>3. \A c \in Conns : rec[c] = RecAt("idle", {}, {}, 0) /\ handler[c] = "none" /\ connInst[c] = 0
  BY DEF Init, Idle
<1>4. RestartInv
  BY <1>3, RecFields DEF Init, RestartInv
<1>5. WaiterRegistered
  BY WaiterFacts DEF Init, WaiterRegistered, NoWait
<1>6. RecordInv
  BY <1>3, RecFields DEF Init, RecordInv
<1> QED
  BY <1>1, <1>2, <1>4, <1>5, <1>6 DEF LifecycleInv

\* The invariant is inductive.
LEMMA InvNext == LifecycleInv /\ [Next]_vars => LifecycleInv'
  BY TypeNext, RegistryNext, RestartNext, WaiterNext, RecordNext DEF LifecycleInv

\* The inductive invariant of the session life cycle, for any number of
\* connections, instances, crashes and sessions.
THEOREM LifecycleInvariant == Spec => []LifecycleInv
  BY InvInit, InvNext, PTL DEF Spec

\* The variables keep their types.
THEOREM TypeCorrect == Spec => []TypeOK
<1>1. LifecycleInv => TypeOK
  BY DEF LifecycleInv
<1> QED
  BY <1>1, LifecycleInvariant, PTL

\* A machine is online only while a control loop owns its registry entry,
\* however connections overlap, drop or die with the hub (Add, RemoveIf).
THEOREM OnlineMeansOwned == Spec => []RegistryEntryOwned
<1>1. LifecycleInv => RegistryEntryOwned
  BY DEF LifecycleInv
<1> QED
  BY <1>1, LifecycleInvariant, PTL

\* Whoever is registered for an open's reply waits for it on that connection,
\* and a waiting request is registered exactly once (awaitOpen, cancelOpen,
\* ResolveOpen).
THEOREM RepliesFindTheirWaiter == Spec => []WaiterRegistered
<1>1. LifecycleInv => WaiterRegistered
  BY DEF LifecycleInv
<1> QED
  BY <1>1, LifecycleInvariant, PTL

-----------------------------------------------------------------------------
(* Teardown under overlapping connections. *)

\* Only the registered connection's own teardown, or a crash of the hub,
\* takes the machine offline (RemoveIf).
THEOREM TeardownIsSafe == Spec => TeardownSparesNewConn
<1> DEFINE A == link # 0 /\ link' = 0 => handler[link] = "removeIf" \/ crashes' # crashes
<1>1. LifecycleInv /\ [Next]_vars => [A]_vars
  <2> SUFFICES ASSUME LifecycleInv, [Next]_vars, link # 0, link' = 0
               PROVE  handler[link] = "removeIf" \/ crashes' # crashes
    OBVIOUS
  <2>0. crashes \in Nat
    BY LifecycleAssumption DEF LifecycleInv, TypeOK
  <2> SUFFICES ASSUME crashes' = crashes PROVE handler[link] = "removeIf"
    OBVIOUS
  <2>1. ASSUME NEW c \in Conns, RemoveIf(c) PROVE handler[link] = "removeIf"
    BY <2>1 DEF RemoveIf
  <2>2. ASSUME HubCrash PROVE FALSE
    BY <2>0, <2>2 DEF HubCrash
  <2>3. ASSUME NEW c \in Conns, Hello(c) PROVE FALSE
    BY <2>3, WaiterFacts DEF Hello, User
  <2>4. ASSUME UNCHANGED link PROVE FALSE
    BY <2>4
  <2>5. AgentNext => UNCHANGED link
    BY DEF AgentNext, AgentConnect, AgentLosesConn, AgentOpen, AgentClose, HostRestart, Drop,
       PtyExit, hubMem
  <2>6. ASSUME NEW c \in Conns, HandlerNext(c), ~RemoveIf(c), ~Hello(c) PROVE UNCHANGED link
    BY <2>6 DEF HandlerNext, RegisterLookup, RegisterFails, RegisterUpsert, RestoreMachineSessions,
                ResolveOpen, MarkExited, ReadError, MarkMachineDisconnected, HandlerReturns, hubMem
  <2>7. ASSUME NEW c \in Conns, ReconcileNext(c) PROVE UNCHANGED link
    BY <2>7 DEF ReconcileNext, ReconcileFetch, ReconcileGivesUp, ReconcileSet, ReconcileEnd,
       ReconcileOpen
  <2>8. ASSUME NEW s \in Sessions, RequestNext(s) \/ OperatorNext(s) PROVE UNCHANGED link
    BY <2>8 DEF RequestNext, OperatorNext, OpenGivesUp, OpenCreate, DeleteRecord, Open, Close,
                DeleteCheck, ForceDeleteClose, SetAutoRelaunch, hubMem
  <2>9. CASE UNCHANGED vars
    BY <2>9 DEF vars
  <2> QED
    BY <2>1, <2>2, <2>3, <2>4, <2>5, <2>6, <2>7, <2>8, <2>9 DEF Next
<1> QED
  BY <1>1, LifecycleInvariant, PTL DEF Spec, TeardownSparesNewConn

-----------------------------------------------------------------------------
(* The session table implements SessionRecord. *)

\* A step that leaves the table and the instance alone stutters.
LEMMA RefineFrame == UNCHANGED <<status, inst>> => [Record!Next]_(Record!vars)
  BY DEF Record!vars

\* Every step is a step of SessionRecord or a stutter.
LEMMA RefineStep == LifecycleInv /\ [Next]_vars => [Record!Next]_(Record!vars)
<1> SUFFICES ASSUME LifecycleInv, [Next]_vars PROVE [Record!Next]_(Record!vars)
  OBVIOUS
<1>0. /\ status \in [Sessions -> Statuses] /\ inst \in Nat
      /\ \A c \in Conns : rec[c].pc # "idle" => inst - 1 > 0
  BY LifecycleAssumption DEF LifecycleInv, TypeOK, RestartInv
<1>1. ASSUME AgentConnect PROVE [Record!Next]_(Record!vars)
  BY <1>1, RefineFrame DEF AgentConnect, hubDb, hubMem, wires, agent
<1>2. ASSUME AgentLosesConn PROVE [Record!Next]_(Record!vars)
  BY <1>2, RefineFrame DEF AgentLosesConn, hubDb, hubMem, wires, agent
<1>3. ASSUME AgentOpen PROVE [Record!Next]_(Record!vars)
  BY <1>3, RefineFrame DEF AgentOpen, hubDb, hubMem, wires, agent
<1>4. ASSUME AgentClose PROVE [Record!Next]_(Record!vars)
  BY <1>4, RefineFrame DEF AgentClose, hubDb, hubMem, wires, agent
<1>5. ASSUME HostRestart PROVE [Record!Next]_(Record!vars)
  <2>1. Record!HostRestart
    BY <1>5, <1>0 DEF HostRestart, Record!HostRestart, hubDb
  <2> QED
    BY <2>1 DEF Record!Next
<1>6. ASSUME HubCrash PROVE [Record!Next]_(Record!vars)
  BY <1>6, RefineFrame DEF HubCrash, hubDb, hubMem, wires, agent
<1>7. ASSUME NEW c \in Conns, Drop(c) PROVE [Record!Next]_(Record!vars)
  BY <1>7, RefineFrame DEF Drop, hubDb, hubMem, wires, agent
<1>8. ASSUME NEW c \in Conns, Hello(c) PROVE [Record!Next]_(Record!vars)
  BY <1>8, RefineFrame DEF Hello, hubDb, hubMem, wires, agent
<1>9. ASSUME NEW c \in Conns, RegisterLookup(c) PROVE [Record!Next]_(Record!vars)
  BY <1>9, RefineFrame DEF RegisterLookup, hubDb, hubMem, wires, agent
<1>10. ASSUME NEW c \in Conns, RegisterFails(c) PROVE [Record!Next]_(Record!vars)
  BY <1>10, RefineFrame DEF RegisterFails, hubDb, hubMem, wires, agent
<1>11. ASSUME NEW c \in Conns, RegisterUpsert(c) PROVE [Record!Next]_(Record!vars)
  BY <1>11, RefineFrame DEF RegisterUpsert, hubDb, hubMem, wires, agent
<1>12. ASSUME NEW c \in Conns, RestoreMachineSessions(c) PROVE [Record!Next]_(Record!vars)
  <2>1. Record!LinkReturns \/ UNCHANGED <<status, inst>>
    BY <1>12 DEF RestoreMachineSessions, MarkDisconnectedRunning, Record!LinkReturns, agent
  <2> QED
    BY <2>1, RefineFrame DEF Record!Next
<1>13. ASSUME NEW c \in Conns, ResolveOpen(c) PROVE [Record!Next]_(Record!vars)
  BY <1>13, RefineFrame DEF ResolveOpen, hubDb, hubMem, wires, agent
<1>14. ASSUME NEW c \in Conns, MarkExited(c) PROVE [Record!Next]_(Record!vars)
  <2>1. PICK z \in Sessions : \/ status' = [status EXCEPT ![z] = IF @ = "none" THEN "none" ELSE "exited"]
                             \/ UNCHANGED status
    BY <1>14, ReceiveFacts DEF MarkExited, LifecycleInv
  <2>2. inst' = inst
    BY <1>14 DEF MarkExited, agent
  <2>3. CASE status' = status
    BY <2>2, <2>3, RefineFrame
  <2>4. CASE status' # status
    <3>1. status[z] # "none" /\ status' = [status EXCEPT ![z] = "exited"]
      BY <1>0, <2>1, <2>4
    <3>2. Record!Exit(z)
      BY <2>2, <3>1 DEF Record!Exit
    <3> QED
      BY <3>2 DEF Record!Next
  <2> QED
    BY <2>3, <2>4
<1>15. ASSUME NEW c \in Conns, ReadError(c) PROVE [Record!Next]_(Record!vars)
  BY <1>15, RefineFrame DEF ReadError, hubDb, hubMem, wires, agent
<1>16. ASSUME NEW c \in Conns, RemoveIf(c) PROVE [Record!Next]_(Record!vars)
  BY <1>16, RefineFrame DEF RemoveIf, hubDb, hubMem, wires, agent
<1>17. ASSUME NEW c \in Conns, MarkMachineDisconnected(c) PROVE [Record!Next]_(Record!vars)
  <2>1. Record!LinkDrops \/ UNCHANGED <<status, inst>>
    BY <1>17 DEF MarkMachineDisconnected, MarkRunningDisconnected, Record!LinkDrops, agent
  <2> QED
    BY <2>1, RefineFrame DEF Record!Next
<1>18. ASSUME NEW c \in Conns, HandlerReturns(c) PROVE [Record!Next]_(Record!vars)
  BY <1>18, RefineFrame DEF HandlerReturns, hubDb, hubMem, wires, agent
<1>19. ASSUME NEW c \in Conns, ReconcileFetch(c) PROVE [Record!Next]_(Record!vars)
  BY <1>19, RefineFrame DEF ReconcileFetch, hubDb, hubMem, wires, agent
<1>20. ASSUME NEW c \in Conns, ReconcileGivesUp(c) PROVE [Record!Next]_(Record!vars)
  BY <1>20, RefineFrame DEF ReconcileGivesUp, hubDb, hubMem, wires, agent
<1>21. ASSUME NEW c \in Conns, ReconcileSet(c) PROVE [Record!Next]_(Record!vars)
  <2>1. inst - 1 > 0 /\ inst' = inst
    BY <1>21, <1>0 DEF ReconcileSet, agent
  <2>2. PICK z \in Sessions : rec[c].cur = {z}
    BY <1>21 DEF ReconcileSet, LifecycleInv, RecordInv
  <2>3. CASE UNCHANGED status
    BY <2>1, <2>3, RefineFrame
  <2>4. CASE ~UNCHANGED status
    <3>1. status' = [s \in Sessions |-> IF s \in rec[c].cur /\ status[s] # "none"
                                        THEN IF rec[c].pc = "setRunning" THEN "running" ELSE "lost"
                                        ELSE status[s]]
      BY <1>21, <2>4 DEF ReconcileSet
    <3>2. status[z] # "none"
      BY <1>0, <2>2, <2>4, <3>1
    <3>3. \E ok \in BOOLEAN : status' = [status EXCEPT ![z] = IF ok THEN "running" ELSE "lost"]
      <4>1. CASE rec[c].pc = "setRunning"
        <5>1. status' = [status EXCEPT ![z] = "running"]
          BY <1>0, <2>2, <3>1, <3>2, <4>1
        <5> QED
          BY <5>1
      <4>2. CASE rec[c].pc # "setRunning"
        <5>1. status' = [status EXCEPT ![z] = "lost"]
          BY <1>0, <2>2, <3>1, <3>2, <4>2
        <5> QED
          BY <5>1
      <4> QED
        BY <4>1, <4>2
    <3>4. \E ok \in BOOLEAN : Record!Revive(z, ok)
      BY <2>1, <3>2, <3>3 DEF Record!Revive
    <3> QED
      BY <3>4 DEF Record!Next
  <2> QED
    BY <2>3, <2>4
<1>22. ASSUME NEW c \in Conns, ReconcileEnd(c) PROVE [Record!Next]_(Record!vars)
  <2>1. inst - 1 > 0 /\ inst' = inst
    BY <1>22, <1>0 DEF ReconcileEnd, agent
  <2>2. CASE UNCHANGED status
    BY <2>1, <2>2, RefineFrame
  <2>3. CASE ~UNCHANGED status
    <3> DEFINE L == {s \in Sessions : status[s] \in Live /\ s \notin auto}
    <3>1. status' = [s \in Sessions |-> IF s \in L THEN "lost" ELSE status[s]]
      BY <1>22, <2>3 DEF ReconcileEnd, MarkRunningLost
    <3>2. L \in SUBSET Sessions /\ \A s \in L : status[s] \in {"running", "disconnected"}
      BY DEF Live
    <3> HIDE DEF L
    <3>3. Record!Lose(L)
      BY <2>1, <3>1, <3>2 DEF Record!Lose
    <3> QED
      BY <3>2, <3>3 DEF Record!Next
  <2> QED
    BY <2>2, <2>3
<1>23. ASSUME NEW c \in Conns, NEW s \in Sessions, ReconcileOpen(c, s) PROVE [Record!Next]_(Record!vars)
  BY <1>23, RefineFrame DEF ReconcileOpen, hubDb, hubMem, wires, agent
<1>24. ASSUME NEW s \in Sessions, OpenGivesUp(s) PROVE [Record!Next]_(Record!vars)
  BY <1>24, RefineFrame DEF OpenGivesUp, hubDb, hubMem, wires, agent
<1>25. ASSUME NEW s \in Sessions, OpenCreate(s) PROVE [Record!Next]_(Record!vars)
  <2>1. inst' = inst /\ status[s] = "none"
    BY <1>25 DEF OpenCreate, agent, LifecycleInv, RecordInv
  <2>2. CASE UNCHANGED status
    BY <2>1, <2>2, RefineFrame
  <2>3. CASE status' = [status EXCEPT ![s] = "running"]
    <3>1. Record!Create(s)
      BY <2>1, <2>3 DEF Record!Create
    <3> QED
      BY <3>1 DEF Record!Next
  <2> QED
    BY <1>25, <2>2, <2>3 DEF OpenCreate
<1>26. ASSUME NEW s \in Sessions, DeleteRecord(s) PROVE [Record!Next]_(Record!vars)
  <2>1. inst' = inst
    BY <1>26 DEF DeleteRecord, agent
  <2>2. CASE UNCHANGED status
    BY <2>1, <2>2, RefineFrame
  <2>3. CASE status' = [status EXCEPT ![s] = "none"]
    <3>1. Record!Delete(s)
      BY <2>1, <2>3 DEF Record!Delete
    <3> QED
      BY <3>1 DEF Record!Next
  <2> QED
    BY <1>26, <2>2, <2>3 DEF DeleteRecord
<1>27. ASSUME NEW s \in Sessions, Open(s) PROVE [Record!Next]_(Record!vars)
  BY <1>27, RefineFrame DEF Open, hubDb, hubMem, wires, agent
<1>28. ASSUME NEW s \in Sessions, Close(s) PROVE [Record!Next]_(Record!vars)
  BY <1>28, RefineFrame DEF Close, hubDb, hubMem, wires, agent
<1>29. ASSUME NEW s \in Sessions, DeleteCheck(s) PROVE [Record!Next]_(Record!vars)
  BY <1>29, RefineFrame DEF DeleteCheck, hubDb, hubMem, wires, agent
<1>30. ASSUME NEW s \in Sessions, ForceDeleteClose(s) PROVE [Record!Next]_(Record!vars)
  BY <1>30, RefineFrame DEF ForceDeleteClose, hubDb, hubMem, wires, agent
<1>31. ASSUME NEW s \in Sessions, NEW b \in BOOLEAN, PtyExit(s, b) PROVE [Record!Next]_(Record!vars)
  BY <1>31, RefineFrame DEF PtyExit, hubDb, hubMem, wires, agent
<1>32. ASSUME NEW s \in Sessions, NEW b \in BOOLEAN, SetAutoRelaunch(s, b) PROVE [Record!Next]_(Record!vars)
  BY <1>32, RefineFrame DEF SetAutoRelaunch, hubDb, hubMem, wires, agent
<1>33. CASE UNCHANGED vars
  BY <1>33, RefineFrame DEF vars
<1>34. QED
  BY <1>1, <1>2, <1>3, <1>4, <1>5, <1>6, <1>7, <1>8, <1>9, <1>10, <1>11, <1>12, <1>13, <1>14,
     <1>15, <1>16, <1>17, <1>18, <1>19, <1>20, <1>21, <1>22, <1>23, <1>24, <1>25, <1>26, <1>27,
     <1>28, <1>29, <1>30, <1>31, <1>32, <1>33 DEF Next, AgentNext, HandlerNext, ReconcileNext,
     RequestNext, OperatorNext

\* The hub's session table, with all its handlers, reconciliations, requests
\* and crashes, does nothing but what SessionRecord allows: no session is lost
\* or revived without a restart of the session-host, a drop or a return of the
\* link applies to all of them, and what ended stays so.
THEOREM TableImplementsRecord == Spec => ImplementsRecord
<1>1. Init => Record!Init
  BY DEF Init, Record!Init
<1> QED
  BY <1>1, RefineStep, LifecycleInvariant, PTL DEF Spec, ImplementsRecord, Record!Spec

-----------------------------------------------------------------------------
(* Orderly reconnects: the agent comes back only after the hub has torn    *)
(* down its last connection.                                               *)

Active(c) == handler[c] \notin {"none", "done"}

\* Then one handler runs at a time, that of the newest connection; instances
\* come in order, and the hub knows the newest that it took for a restart.
SerialInv ==
    /\ \A c \in Conns : Active(c) => c = nconn
    /\ \A c, d \in Conns : c <= d /\ d <= nconn => connInst[c] <= connInst[d]
    /\ \A c \in Conns : c > nconn => rec[c].pc = "idle"
    /\ \A c \in Conns : rec[c].pc # "idle" => connInst[c] <= machInst
    /\ nconn = 0 => machInst = 0
    /\ nconn # 0 => machInst <= connInst[nconn]
    /\ \A c \in Conns : handler[c] = "upsertRestarted" => machInst # connInst[c]
    /\ ReconcileOncePerRestart

\* The variables SerialInv is about.
LEMMA SerialFrame ==
    ASSUME SerialInv, UNCHANGED <<machInst, nconn, connInst, handler>>,
           \A d \in Conns : rec'[d].pc # "idle" => rec[d].pc # "idle"
    PROVE  SerialInv'
  BY DEF SerialInv, Active, ReconcileOncePerRestart

\* A handler that goes on, other than to a restart, keeps it.
LEMMA SerialMoves ==
    ASSUME SerialInv, TypeOK, UNCHANGED <<machInst, nconn, connInst, rec>>,
           NEW c \in Conns, Active(c), NEW h, h # "upsertRestarted",
           handler' = [handler EXCEPT ![c] = h]
    PROVE  SerialInv'
<1>1. handler \in [Conns -> HandlerStates]
  BY DEF TypeOK
<1> QED BY <1>1 DEF SerialInv, Active, ReconcileOncePerRestart

\* Every step keeps SerialInv.
LEMMA SerialNext ==
    ASSUME ~FastReconnect, TypeOK, WaiterRegistered, RestartInv, SerialInv, [Next]_vars
    PROVE  SerialInv'
<1>0. /\ handler \in [Conns -> HandlerStates] /\ rec \in [Conns -> RecStates]
      /\ connInst \in [Conns -> 0 .. MaxInst] /\ nconn \in 0..MaxConns /\ machInst \in 0..MaxInst
      /\ inst \in 1..MaxInst
      /\ MaxConns \in Nat \ {0} /\ MaxInst \in Nat \ {0} /\ Conns = 1..MaxConns
  BY LifecycleAssumption DEF TypeOK, Conns
<1>1. ASSUME AgentConnect PROVE SerialInv'
  <2>1. /\ nconn' = nconn + 1 /\ nconn' \in Conns /\ \A c \in Conns : ~Active(c)
        /\ connInst' = [connInst EXCEPT ![nconn'] = inst]
        /\ handler' = [handler EXCEPT ![nconn'] = "hello"]
        /\ UNCHANGED <<rec, machInst>>
    BY <1>0, <1>1 DEF AgentConnect, Active, hubDb
  <2>2. machInst <= inst /\ \A c \in Conns : connInst[c] <= inst
    BY DEF RestartInv
  <2>3. rec[nconn'].pc = "idle"
    BY <1>0, <2>1 DEF SerialInv
  <2>4. \A c \in Conns : c # nconn' => handler'[c] = handler[c] /\ connInst'[c] = connInst[c]
    BY <1>0, <2>1
  <2>5. handler'[nconn'] = "hello" /\ connInst'[nconn'] = inst
    BY <1>0, <2>1
  <2>6. \A c, d \in Conns : c <= d /\ d <= nconn' => connInst'[c] <= connInst'[d]
    BY <1>0, <2>1, <2>2, <2>4, <2>5 DEF SerialInv
  <2>7. \A c \in Conns : rec[c].pc # "idle" => connInst'[c] = connInst[c]
    BY <2>3, <2>4
  <2> QED
    BY <1>0, <2>1, <2>2, <2>3, <2>4, <2>5, <2>6, <2>7, SMTT(30) DEF SerialInv, Active, ReconcileOncePerRestart
<1>6. ASSUME HubCrash PROVE SerialInv'
  <2>1. \A d \in Conns : rec'[d].pc # "idle" => rec[d].pc # "idle"
    BY <1>6, <1>0, RecFields DEF HubCrash, Idle
  <2>2. \A d \in Conns : handler'[d] \in {"none", "done"}
    BY <1>6, <1>0 DEF HubCrash
  <2>3. UNCHANGED <<machInst, nconn, connInst>> /\ \A c \in Conns : c > nconn => rec'[c].pc = "idle"
    BY <1>6, <2>1 DEF HubCrash, hubDb, agent, SerialInv
  <2> QED BY <2>1, <2>2, <2>3 DEF SerialInv, Active, ReconcileOncePerRestart
<1>8. ASSUME NEW c \in Conns, Hello(c) PROVE SerialInv'
  BY <1>8, SerialMoves DEF Hello, Active, hubDb, agent
<1>9. ASSUME NEW c \in Conns, RegisterLookup(c) PROVE SerialInv'
  BY <1>9, <1>0 DEF RegisterLookup, SerialInv, Active, ReconcileOncePerRestart, hubDb, agent
<1>10. ASSUME NEW c \in Conns, RegisterFails(c) PROVE SerialInv'
  BY <1>10, SerialMoves DEF RegisterFails, Active, hubDb, agent
<1>11. ASSUME NEW c \in Conns, RegisterUpsert(c) PROVE SerialInv'
  <2>1. /\ c = nconn /\ machInst' = connInst[c] /\ machInst <= connInst[c]
        /\ UNCHANGED <<nconn, connInst>>
    BY <1>11, <1>0 DEF RegisterUpsert, SerialInv, Active, agent
  <2>2. \A d \in Conns : d # c => rec'[d] = rec[d] /\ handler'[d] = handler[d] /\ ~Active(d)
    BY <1>11, <1>0, <2>1 DEF RegisterUpsert, SerialInv
  <2>3. handler'[c] \in {"loop", "restore"}
    BY <1>11, <1>0 DEF RegisterUpsert
  <2>4. \A d \in Conns : rec[d].pc # "idle" => connInst[d] <= machInst
    BY DEF SerialInv
  <2>5. rec'[c].pc # "idle" => handler[c] = "upsertRestarted" \/ rec[c].pc # "idle"
    BY <1>11, <1>0 DEF RegisterUpsert
  <2>6. rec[c].pc = "idle"
    BY <1>11 DEF RegisterUpsert, RestartInv
  <2>7. rec'[c].pc # "idle" => machInst < connInst[c]
    BY <1>0, <2>1, <2>5, <2>6 DEF SerialInv
  <2>13. machInst \in Nat /\ \A d \in Conns : connInst[d] \in Nat
    BY <1>0
  <2>14. \A d \in Conns : d # c /\ rec'[d].pc # "idle" => connInst[d] <= machInst
    BY <2>2, <2>4
  <2>8. ReconcileOncePerRestart'
    <3> SUFFICES ASSUME NEW d \in Conns, d # c, rec'[d].pc # "idle", rec'[c].pc # "idle"
                 PROVE  connInst[d] # connInst[c]
      BY <2>1, <2>2 DEF SerialInv, ReconcileOncePerRestart
    <3>1. connInst[d] <= machInst /\ machInst < connInst[c]
      BY <2>7, <2>14
    <3> QED BY <2>13, <3>1
  <2>9. \A d \in Conns : rec'[d].pc # "idle" => connInst[d] <= machInst'
    BY <2>1, <2>13, <2>14
  <2>10. \A d \in Conns : d > nconn => rec'[d].pc = "idle"
    BY <1>0, <2>1, <2>2 DEF SerialInv
  <2>11. \A d \in Conns : handler'[d] # "upsertRestarted"
    BY <2>2, <2>3 DEF Active
  <2>12. \A d \in Conns : Active(d)' => d = nconn
    BY <2>1, <2>2 DEF Active
  <2> QED BY <1>0, <2>1, <2>8, <2>9, <2>10, <2>11, <2>12 DEF SerialInv
<1>12. ASSUME NEW c \in Conns, RestoreMachineSessions(c) PROVE SerialInv'
  BY <1>12, SerialMoves DEF RestoreMachineSessions, Active, agent
<1>13. ASSUME NEW c \in Conns, ResolveOpen(c) PROVE SerialInv'
  <2>1. PICK type \in {"SessionOpened", "Error"} : ResolveOpen(c)!(type)
    BY <1>13 DEF ResolveOpen
  <2>2. Head(back[c]).session \in Sessions
    BY <2>1, ReceiveFacts
  <2>3. ASSUME NEW w \in Conns, w = pending[c][Head(back[c]).session] PROVE rec[w].pc # "idle"
    BY <2>2, <2>3 DEF WaiterRegistered
  <2>4. \A d \in Conns : rec'[d].pc # "idle" => rec[d].pc # "idle"
    BY <1>0, <2>1, <2>2, <2>3
  <2> QED BY <2>1, <2>4, SerialFrame DEF hubDb, agent
<1>15. ASSUME NEW c \in Conns, ReadError(c) PROVE SerialInv'
  BY <1>15, SerialMoves DEF ReadError, Active, hubDb, agent
<1>16. ASSUME NEW c \in Conns, RemoveIf(c) PROVE SerialInv'
  BY <1>16, SerialMoves DEF RemoveIf, Active, hubDb, agent
<1>17. ASSUME NEW c \in Conns, MarkMachineDisconnected(c) PROVE SerialInv'
  BY <1>17, SerialMoves DEF MarkMachineDisconnected, Active, agent
<1>18. ASSUME NEW c \in Conns, HandlerReturns(c) PROVE SerialInv'
  BY <1>18, SerialMoves DEF HandlerReturns, Active, hubDb, agent
<1>23. ASSUME NEW c \in Conns, ReconcileNext(c) PROVE SerialInv'
  <2>1. rec[c].pc # "idle" /\ \A d \in Conns : d # c => rec'[d] = rec[d]
    BY <1>23, <1>0 DEF ReconcileNext, ReconcileFetch, ReconcileGivesUp, ReconcileSet, ReconcileEnd,
       ReconcileOpen
  <2>2. UNCHANGED <<machInst, nconn, connInst, handler>>
    BY <1>23 DEF ReconcileNext, ReconcileFetch, ReconcileGivesUp, ReconcileSet, ReconcileEnd,
       ReconcileOpen, hubDb, agent
  <2> QED BY <2>1, <2>2, SerialFrame
\* The remaining actions touch none of these variables.
<1>33. ASSUME UNCHANGED <<machInst, nconn, connInst, handler, rec>> PROVE SerialInv'
  BY <1>33, SerialFrame
<1>34. ASSUME AgentNext, ~AgentConnect PROVE SerialInv'
  BY <1>33, <1>34 DEF AgentNext, AgentLosesConn, AgentOpen, AgentClose, HostRestart, Drop, PtyExit,
     hubDb, hubMem, agent
<1>35. ASSUME NEW s \in Sessions, RequestNext(s) \/ OperatorNext(s) PROVE SerialInv'
  BY <1>33, <1>35 DEF RequestNext, OperatorNext, OpenGivesUp, OpenCreate, DeleteRecord, Open, Close,
     DeleteCheck, ForceDeleteClose, SetAutoRelaunch, hubDb, hubMem, agent
<1>36. ASSUME NEW c \in Conns, MarkExited(c) PROVE SerialInv'
  BY <1>33, <1>36 DEF MarkExited, hubMem, agent
<1> QED
  BY <1>1, <1>6, <1>8, <1>9, <1>10, <1>11, <1>12, <1>13, <1>15, <1>16, <1>17, <1>18, <1>23, <1>33,
     <1>34, <1>35, <1>36 DEF Next, HandlerNext, vars

\* "ReconcileMachineRestart is called at most once per actual restart event"
\* (app/sessions/usecase.go:175), with orderly reconnects: Register's lookup
\* and upsert are two statements, but of one connection at a time.
THEOREM RestartsReconcileOnce ==
    ASSUME ~FastReconnect
    PROVE  Spec => []ReconcileOncePerRestart
<1>1. Init => SerialInv
  BY DEF Init, SerialInv, Active, ReconcileOncePerRestart, Idle, RecAt
<1>2. LifecycleInv /\ SerialInv /\ [Next]_vars => SerialInv'
  BY SerialNext DEF LifecycleInv
<1>3. SerialInv => ReconcileOncePerRestart
  BY DEF SerialInv
<1> QED BY <1>1, <1>2, <1>3, LifecycleInvariant, PTL DEF Spec

-----------------------------------------------------------------------------
(* The frames under way, and what the sends and receptions do to them. *)

IsOpen(m, s) == m.type = "OpenSession" /\ m.session = s
IsExit(m, s) == m.type = "SessionExited" /\ m.session = s

\* A request to open s is on its way; a frame about s is; the report of its exit is.
Opening(s) == \E k \in Conns : \E a \in DOMAIN down[k] : IsOpen(down[k][a], s)
Heard(s)   == \E k \in Conns : \E a \in DOMAIN back[k] : back[k][a].session = s
Left(s)    == \E k \in Conns : \E a \in DOMAIN back[k] : IsExit(back[k][a], s)

\* No more than one request to open s is.
OneOpen(s) ==
    \A k, j \in Conns : \A a \in DOMAIN down[k], b \in DOMAIN down[j] :
        IsOpen(down[k][a], s) /\ IsOpen(down[j][b], s) => k = j /\ a = b

\* The hub reads a frame, or drops those of a connection.
LEMMA BackShrinks ==
    ASSUME TypeOK, NEW k \in Conns,
           \/ back[k] # <<>> /\ back' = [back EXCEPT ![k] = Tail(@)]
           \/ back' = [back EXCEPT ![k] = <<>>]
    PROVE  \A s : (Heard(s)' => Heard(s)) /\ (Left(s)' => Left(s))
<1>1. back \in [Conns -> Seq(Frames)]
  BY DEF TypeOK
<1>2. \A j \in Conns : j # k => back'[j] = back[j]
  BY <1>1
<1>3. \A a \in DOMAIN back'[k] : \E b \in DOMAIN back[k] : back'[k][a] = back[k][b]
  <2>1. CASE back' = [back EXCEPT ![k] = <<>>]
    BY <1>1, <2>1
  <2>2. CASE back[k] # <<>> /\ back' = [back EXCEPT ![k] = Tail(@)]
    <3>1. back[k] \in Seq(Frames) /\ back[k] # <<>> /\ back'[k] = Tail(back[k])
      BY <1>1, <2>2
    <3>2. \A a \in DOMAIN back'[k] : a + 1 \in DOMAIN back[k] /\ back'[k][a] = back[k][a + 1]
      BY <3>1
    <3> QED BY <3>2
  <2> QED BY <2>1, <2>2
<1> QED BY <1>2, <1>3 DEF Heard, Left

\* The agent sends a frame.
LEMMA BackGrows ==
    ASSUME TypeOK, NEW k \in Conns, NEW m \in Frames, SendBack(k, m)
    PROVE  \A s : /\ Heard(s)' => Heard(s) \/ m.session = s
                  /\ Left(s)' => Left(s) \/ IsExit(m, s)
<1>1. back \in [Conns -> Seq(Frames)]
  BY DEF TypeOK
<1>2. CASE back' = back
  BY <1>2 DEF Heard, Left
<1>3. CASE back' = [back EXCEPT ![k] = Append(@, m)]
  <2>1. \A j \in Conns : j # k => back'[j] = back[j]
    BY <1>1, <1>3
  <2>2. back'[k] = Append(back[k], m) /\ back[k] \in Seq(Frames)
    BY <1>1, <1>3
  <2>3. \A a \in DOMAIN back'[k] : back'[k][a] = m \/ (a \in DOMAIN back[k] /\ back'[k][a] = back[k][a])
    BY <2>2
  <2> QED BY <2>1, <2>3 DEF Heard, Left
<1> QED BY <1>2, <1>3 DEF SendBack

\* The agent takes a frame; if it is the request to open s, none is left.
LEMMA DownShrinks ==
    ASSUME TypeOK, NEW k \in Conns, down[k] # <<>>, down' = [down EXCEPT ![k] = Tail(@)]
    PROVE  \A s : /\ Opening(s)' => Opening(s)
                  /\ OneOpen(s) => OneOpen(s)'
                  /\ OneOpen(s) /\ IsOpen(Head(down[k]), s) => ~Opening(s)'
<1>1. down \in [Conns -> Seq(Frames)]
  BY DEF TypeOK
<1>2. \A j \in Conns : j # k => down'[j] = down[j]
  BY <1>1
<1>3. down[k] \in Seq(Frames) /\ down[k] # <<>> /\ down'[k] = Tail(down[k])
  BY <1>1
<1>4. /\ \A a \in DOMAIN down'[k] : /\ a \in Nat \ {0} /\ a + 1 \in DOMAIN down[k]
                                    /\ down'[k][a] = down[k][a + 1]
      /\ 1 \in DOMAIN down[k] /\ Head(down[k]) = down[k][1]
  <2>1. \A q \in Seq(Frames) : q # <<>> =>
            /\ \A a \in DOMAIN Tail(q) : a \in Nat \ {0} /\ a + 1 \in DOMAIN q /\ Tail(q)[a] = q[a + 1]
            /\ 1 \in DOMAIN q
    OBVIOUS
  <2>2. \A q \in Seq(Frames) : q # <<>> => Head(q) = q[1]
    OBVIOUS
  <2> QED BY <1>3, <2>1, <2>2
<1> SUFFICES ASSUME NEW s
             PROVE  /\ Opening(s)' => Opening(s)
                    /\ OneOpen(s) => OneOpen(s)'
                    /\ OneOpen(s) /\ IsOpen(Head(down[k]), s) => ~Opening(s)'
  OBVIOUS
<1>5. Opening(s)' => Opening(s)
  BY <1>2, <1>4 DEF Opening
<1>6. ASSUME OneOpen(s) PROVE OneOpen(s)'
  <2> SUFFICES ASSUME NEW i \in Conns, NEW j \in Conns, NEW a \in DOMAIN down'[i], NEW b \in DOMAIN down'[j],
                      IsOpen(down'[i][a], s), IsOpen(down'[j][b], s)
               PROVE  i = j /\ a = b
    BY DEF OneOpen
  <2>1. CASE i = k /\ j = k
    <3>1. /\ a + 1 \in DOMAIN down[k] /\ IsOpen(down[k][a + 1], s)
          /\ b + 1 \in DOMAIN down[k] /\ IsOpen(down[k][b + 1], s)
      BY <1>4, <2>1
    <3>2. a + 1 = b + 1
      BY <1>6, <3>1 DEF OneOpen
    <3> QED BY <1>4, <2>1, <3>2
  <2>2. CASE i = k /\ j # k
    BY <1>2, <1>4, <1>6, <2>2 DEF OneOpen
  <2>3. CASE i # k /\ j = k
    BY <1>2, <1>4, <1>6, <2>3 DEF OneOpen
  <2>4. CASE i # k /\ j # k
    BY <1>2, <1>6, <2>4 DEF OneOpen
  <2> QED BY <2>1, <2>2, <2>3, <2>4
<1>7. ASSUME OneOpen(s), IsOpen(Head(down[k]), s), NEW j \in Conns, NEW a \in DOMAIN down'[j],
             IsOpen(down'[j][a], s)
      PROVE  FALSE
  <2>1. CASE j = k
    <3>1. a + 1 = 1
      BY <1>4, <1>7, <2>1 DEF OneOpen
    <3> QED BY <1>4, <2>1, <3>1
  <2>2. CASE j # k
    BY <1>2, <1>4, <1>7, <2>2 DEF OneOpen
  <2> QED BY <2>1, <2>2
<1> QED BY <1>5, <1>6, <1>7 DEF Opening

\* The agent's frames go with its connection.
LEMMA DownCleared ==
    ASSUME TypeOK, NEW k \in Conns, down' = [down EXCEPT ![k] = <<>>]
    PROVE  \A s : (Opening(s)' => Opening(s)) /\ (OneOpen(s) => OneOpen(s)')
<1>1. down \in [Conns -> Seq(Frames)]
  BY DEF TypeOK
<1>2. /\ \A j \in Conns : j # k => down'[j] = down[j]
      /\ DOMAIN down'[k] = {}
  BY <1>1
<1> QED BY <1>2 DEF Opening, OneOpen

\* The hub sends a frame.
LEMMA DownGrows ==
    ASSUME TypeOK, NEW k \in Conns, NEW m \in Frames,
           down' = [down EXCEPT ![k] = Append(@, m)] \/ UNCHANGED down
    PROVE  \A s : /\ Opening(s)' => Opening(s) \/ IsOpen(m, s)
                  /\ OneOpen(s) /\ ~(Opening(s) /\ IsOpen(m, s)) => OneOpen(s)'
<1>1. down \in [Conns -> Seq(Frames)]
  BY DEF TypeOK
<1>2. CASE UNCHANGED down
  BY <1>2 DEF Opening, OneOpen
<1>3. CASE down' = [down EXCEPT ![k] = Append(@, m)]
  <2>1. \A j \in Conns : j # k => down'[j] = down[j]
    BY <1>1, <1>3
  <2>2. down'[k] = Append(down[k], m) /\ down[k] \in Seq(Frames)
    BY <1>1, <1>3
  <2>3. \A a \in DOMAIN down'[k] : \/ a = Len(down[k]) + 1 /\ down'[k][a] = m
                                   \/ a \in DOMAIN down[k] /\ down'[k][a] = down[k][a]
    BY <2>2
  <2>4. \A j \in Conns : \A a \in DOMAIN down'[j] :
            \/ j = k /\ a = Len(down[k]) + 1 /\ down'[j][a] = m
            \/ a \in DOMAIN down[j] /\ down'[j][a] = down[j][a]
    BY <2>1, <2>3
  <2> QED BY <2>4 DEF Opening, OneOpen
<1> QED BY <1>2, <1>3

-----------------------------------------------------------------------------
(* The first instance of the session-host: what its shells and the records *)
(* of their sessions have to do with each other.                           *)

\* No session was lost, no shell is left behind an exit record or report, and a
\* request to open a session, while it is on its way, is the first of it.
SessionInv(s) ==
    /\ status[s] # "lost"
    /\ status[s] = "exited" \/ Left(s) => pty[s] # "live"
    /\ req[s] = "new" => pty[s] = "none" /\ ~Opening(s) /\ ~Heard(s)
    /\ Opening(s) => pty[s] = "none" /\ status[s] = "none" /\ ~Heard(s) /\ req[s] # "create"
    /\ OneOpen(s)

\* A connection that carries frames has a handler; once that reads them, the
\* sessions are restored.
SurvivorInv ==
    /\ \A c \in up : Active(c)
    /\ inst = 1 =>
          /\ \A c \in Conns, s \in Sessions : handler[c] = "loop" => status[s] # "disconnected"
          /\ \A s \in Sessions : SessionInv(s)

\* Steps that open, exit or report nothing.
LEMMA SessionKeeps ==
    ASSUME NEW s, SessionInv(s),
           status'[s] # status[s] => status'[s] \notin {"lost", "exited"} /\ (Opening(s) =>
                 status'[s] = "none"),
           pty'[s] # pty[s] => pty[s] # "none" /\ pty'[s] # "live",
           req'[s] # req[s] => req[s] # "new" /\ req'[s] # "new" /\ (req'[s] = "create" =>
                 ~Opening(s)),
           Opening(s)' => Opening(s), Heard(s)' => Heard(s), Left(s)' => Left(s), OneOpen(s)'
    PROVE  SessionInv(s)'
  BY DEF SessionInv

\* Most steps leave the frames of the agent or of the hub alone.
LEMMA QueueFrame ==
    /\ UNCHANGED down => \A s : (Opening(s)' <=> Opening(s)) /\ (OneOpen(s)' <=> OneOpen(s))
    /\ UNCHANGED back => \A s : (Heard(s)' <=> Heard(s)) /\ (Left(s)' <=> Left(s))
  BY DEF Opening, OneOpen, Heard, Left

\* The steps of the agent.
LEMMA SurvivorAgent ==
    ASSUME TypeOK, RestartInv, RecordInv, SurvivorInv, AgentNext
    PROVE  SurvivorInv'
<1>0. /\ handler \in [Conns -> HandlerStates] /\ status \in [Sessions -> Statuses]
      /\ pty \in [Sessions -> PtyStates] /\ up \subseteq Conns /\ req \in [Sessions -> ReqStates]
      /\ conn \in 0..MaxConns /\ inst \in 1..MaxInst /\ (conn # 0 => conn \in Conns)
      /\ MaxInst \in Nat
  BY LifecycleAssumption DEF TypeOK, Conns
<1>1. CASE AgentConnect
  <2>1. /\ nconn' \in Conns /\ up' = up \cup {nconn'}
        /\ handler' = [handler EXCEPT ![nconn'] = "hello"]
        /\ UNCHANGED <<inst, status, pty, req, down, back>>
    BY <1>1, LifecycleAssumption DEF AgentConnect, hubDb, Conns, TypeOK
  <2>2. \A s \in Sessions : SessionInv(s) => SessionInv(s)'
    BY <2>1 DEF SessionInv, Opening, OneOpen, Heard, Left
  <2> QED BY <1>0, <2>1, <2>2 DEF SurvivorInv, Active
<1>2. CASE AgentLosesConn
  <2>1. down' = [down EXCEPT ![conn] = <<>>] /\ conn \in Conns
        /\ UNCHANGED <<inst, status, pty, req, up, handler, back>>
    BY <1>0, <1>2 DEF AgentLosesConn, hubDb, hubMem
  <2>2. \A s \in Sessions : SessionInv(s) => SessionInv(s)'
    BY <2>1, DownCleared, QueueFrame, SessionKeeps DEF SessionInv
  <2> QED BY <2>1, <2>2 DEF SurvivorInv, Active
<1>3. CASE AgentOpen
  <2>0. conn \in Conns /\ down[conn] # <<>> /\ Head(down[conn]).type = "OpenSession"
    BY <1>0, <1>3 DEF AgentOpen
  <2>1. PICK s \in Sessions : s = Head(down[conn]).session
    BY <2>0, QueueFacts DEF TypeOK
  <2>2. /\ down' = [down EXCEPT ![conn] = Tail(@)]
        /\ \/ /\ pty[s] = "none" /\ pty' = [pty EXCEPT ![s] = "live"]
              /\ SendBack(conn, Msg("SessionOpened", s))
           \/ SendBack(conn, Msg("Error", s)) /\ UNCHANGED pty
        /\ UNCHANGED <<inst, status, req, up, handler>>
    BY <1>3, <2>1 DEF AgentOpen, hubDb, hubMem
  <2>8. IsOpen(Head(down[conn]), s) /\ Opening(s)
    <3>1. down \in [Conns -> Seq(Frames)]
      BY DEF TypeOK
    <3>2. \A q \in Seq(Frames) : q # <<>> => 1 \in DOMAIN q
      OBVIOUS
    <3>3. \A q \in Seq(Frames) : q # <<>> => Head(q) = q[1]
      OBVIOUS
    <3> QED BY <2>0, <2>1, <3>1, <3>2, <3>3 DEF Opening, IsOpen
  <2>3. Msg("SessionOpened", s) \in Frames /\ Msg("Error", s) \in Frames
    BY MsgFacts
  <2>4. Msg("SessionOpened", s).session = s /\ Msg("SessionOpened", s).type = "SessionOpened"
        /\ Msg("Error", s).session = s /\ Msg("Error", s).type = "Error"
    BY DEF Msg
  <2>5. \A t : (Heard(t)' => Heard(t) \/ t = s) /\ (Left(t)' => Left(t))
    BY <2>0, <2>2, <2>3, <2>4, BackGrows DEF IsExit
  <2>6. \A t : /\ Opening(t)' => Opening(t)
               /\ OneOpen(t) => OneOpen(t)'
               /\ OneOpen(t) /\ IsOpen(Head(down[conn]), t) => ~Opening(t)'
    BY <2>0, <2>2, DownShrinks
  <2>7. ASSUME NEW t \in Sessions, SessionInv(t) PROVE SessionInv(t)'
    <3>1. CASE t # s
      <4>1. pty'[t] = pty[t]
        BY <1>0, <2>2, <3>1
      <4> QED BY <2>2, <2>5, <2>6, <2>7, <3>1, <4>1, SessionKeeps DEF SessionInv
    <3>2. CASE t = s
      <4>0. OneOpen(s)
        BY <2>7, <3>2 DEF SessionInv
      <4>1. ~Opening(s)' /\ OneOpen(s)'
        BY <2>6, <2>8, <4>0
      <4>2. ~Left(s) /\ status[s] = "none" /\ req[s] # "new"
        BY <2>8, <2>7, <3>2 DEF SessionInv, Left, Heard, IsExit
      <4> QED BY <2>2, <2>5, <3>2, <4>1, <4>2 DEF SessionInv
    <3> QED BY <3>1, <3>2
  <2> QED BY <2>2, <2>7 DEF SurvivorInv, Active
<1>4. CASE AgentClose
  <2> DEFINE s == Head(down[conn]).session
  <2>1. /\ conn \in Conns /\ down[conn] # <<>> /\ down' = [down EXCEPT ![conn] = Tail(@)]
        /\ pty' = [pty EXCEPT ![s] = IF @ = "live" THEN "closing" ELSE @]
        /\ UNCHANGED <<inst, status, req, up, handler, back>>
    BY <1>0, <1>4 DEF AgentClose, hubDb, hubMem
  <2>2. \A t \in Sessions : pty'[t] # pty[t] => pty[t] # "none" /\ pty'[t] # "live"
    BY <1>0, <2>1
  <2>3. \A t \in Sessions : SessionInv(t) => SessionInv(t)'
    BY <2>1, <2>2, DownShrinks, QueueFrame, SessionKeeps DEF SessionInv
  <2> QED BY <2>1, <2>3 DEF SurvivorInv, Active
<1>5. CASE HostRestart
  <2>1. inst' # 1 /\ up' \subseteq up /\ UNCHANGED handler
    BY <1>0, <1>5 DEF HostRestart, hubMem
  <2> QED BY <2>1 DEF SurvivorInv, Active
<1>6. ASSUME NEW c \in Conns, Drop(c) PROVE SurvivorInv'
  <2>1. up' \subseteq up /\ UNCHANGED <<inst, status, pty, req, handler, down, back>>
    BY <1>6 DEF Drop, hubDb, hubMem, agent
  <2>2. \A s \in Sessions : SessionInv(s) => SessionInv(s)'
    BY <2>1 DEF SessionInv, Opening, OneOpen, Heard, Left
  <2> QED BY <2>1, <2>2 DEF SurvivorInv, Active
<1>7. ASSUME NEW s \in Sessions, NEW b \in BOOLEAN, PtyExit(s, b) PROVE SurvivorInv'
  <2>1. /\ pty[s] # "none" /\ pty' = [pty EXCEPT ![s] = "none"]
        /\ UNCHANGED <<inst, status, req, up, handler, down>>
        /\ (conn \in Conns /\ SendBack(conn, Msg("SessionExited", s))) \/ UNCHANGED back
    BY <1>0, <1>7 DEF PtyExit, hubDb, hubMem
  <2>2. Msg("SessionExited", s) \in Frames /\ Msg("SessionExited", s).session = s
    BY MsgFacts DEF Msg
  <2>3. \A t : (Heard(t)' => Heard(t) \/ t = s) /\ (Left(t)' => Left(t) \/ t = s)
    BY <2>1, <2>2, BackGrows, QueueFrame DEF IsExit
  <2>4. ASSUME NEW t \in Sessions, SessionInv(t) PROVE SessionInv(t)'
    <3>1. CASE t # s
      <4>1. pty'[t] = pty[t]
        BY <1>0, <2>1, <3>1
      <4> QED BY <2>1, <2>3, <2>4, <3>1, <4>1, QueueFrame, SessionKeeps DEF SessionInv
    <3>2. CASE t = s
      <4>1. ~Opening(s) /\ req[s] # "new" /\ pty'[s] = "none"
        BY <1>0, <2>1, <2>4, <3>2 DEF SessionInv
      <4> QED BY <2>1, <2>4, <3>2, <4>1, QueueFrame DEF SessionInv
    <3> QED BY <3>1, <3>2
  <2> QED BY <2>1, <2>4 DEF SurvivorInv, Active
<1> QED BY <1>1, <1>2, <1>3, <1>4, <1>5, <1>6, <1>7 DEF AgentNext

\* The steps of the handlers.
LEMMA SurvivorHandler ==
    ASSUME ~StoreFails, TypeOK, WaiterRegistered, RestartInv, SerialInv, SurvivorInv,
           NEW c \in Conns, HandlerNext(c)
    PROVE  SurvivorInv'
<1>0. /\ handler \in [Conns -> HandlerStates] /\ status \in [Sessions -> Statuses]
      /\ up \subseteq Conns /\ req \in [Sessions -> ReqStates] /\ back \in [Conns -> Seq(Frames)]
  BY DEF TypeOK
<1>1. ASSUME UNCHANGED <<inst, status, pty, req, down, back>>, up' \subseteq up,
             \A d \in up' : Active(d)', \A d \in Conns : handler'[d] = "loop" =>
                   handler[d] = "loop" \/ inst # 1
      PROVE  SurvivorInv'
  <2>1. \A s : SessionInv(s) => SessionInv(s)'
    BY <1>1, QueueFrame DEF SessionInv
  <2> QED BY <1>1, <2>1 DEF SurvivorInv
<1>2. ASSUME UNCHANGED <<inst, status, pty, req, down>>, back' = [back EXCEPT ![c] = <<>>],
             up' \subseteq up, \A d \in up' : Active(d)',
             \A d \in Conns : handler'[d] = "loop" => handler[d] = "loop"
      PROVE  SurvivorInv'
  <2>1. \A s : SessionInv(s) => SessionInv(s)'
    BY <1>2, BackShrinks, QueueFrame DEF SessionInv
  <2> QED BY <1>2, <2>1 DEF SurvivorInv
<1>3. CASE Hello(c)
  BY <1>0, <1>1, <1>3 DEF Hello, Active, SurvivorInv, hubDb, wires, agent
<1>4. CASE RegisterLookup(c)
  BY <1>0, <1>1, <1>4 DEF RegisterLookup, Active, SurvivorInv, hubDb, wires, agent
<1>5. CASE RegisterUpsert(c)
  <2>1. handler[c] = "upsertRestarted" => inst # 1
    BY DEF RestartInv
  <2> QED BY <1>0, <1>1, <1>5, <2>1 DEF RegisterUpsert, Active, SurvivorInv, wires, agent
<1>6. CASE RestoreMachineSessions(c)
  <2>1. /\ status' = [s \in Sessions |-> IF status[s] = "disconnected" THEN "running" ELSE status[s]]
        /\ handler' = [handler EXCEPT ![c] = "loop"] /\ handler[c] = "restore"
        /\ UNCHANGED <<inst, pty, req, down, back, up>>
    BY <1>6 DEF RestoreMachineSessions, MarkDisconnectedRunning, wires, agent
  <2>2. \A s \in Sessions : SessionInv(s) => SessionInv(s)'
    BY <2>1, QueueFrame DEF SessionInv
  <2>3. \A s \in Sessions : status'[s] # "disconnected"
    BY <2>1
  <2> QED BY <1>0, <2>1, <2>2, <2>3 DEF SurvivorInv, Active
<1>7. CASE ResolveOpen(c)
  <2>1. PICK type \in {"SessionOpened", "Error"} : ResolveOpen(c)!(type)
    BY <1>7 DEF ResolveOpen
  <2>2. back[c] # <<>> /\ back' = [back EXCEPT ![c] = Tail(@)]
    BY <2>1 DEF Receive
  <2>3. PICK s \in Sessions : s = Head(back[c]).session
    BY <2>2, QueueFacts DEF TypeOK
  <2>4. Heard(s)
    <3>1. \A q \in Seq(Frames) : q # <<>> => 1 \in DOMAIN q
      OBVIOUS
    <3>2. \A q \in Seq(Frames) : q # <<>> => Head(q) = q[1]
      OBVIOUS
    <3> QED BY <1>0, <2>2, <2>3, <3>1, <3>2 DEF Heard
  <2>5. \A t \in Sessions : req'[t] # req[t] =>
            t = s /\ req[t] = "await" /\ req'[t] \in {"done", "create"}
    BY <1>0, <2>1, <2>3 DEF WaiterRegistered
  <2>6. UNCHANGED <<inst, status, pty, down, up, handler>>
    BY <2>1 DEF hubDb, agent
  <2>7. \A t : (Heard(t)' => Heard(t)) /\ (Left(t)' => Left(t))
    BY <2>2, BackShrinks
  <2>8. ASSUME NEW t \in Sessions, SessionInv(t) PROVE SessionInv(t)'
    <3>1. OneOpen(t)' /\ (Opening(t)' => Opening(t)) /\ (t = s => ~Opening(t))
      BY <2>4, <2>6, <2>8, QueueFrame DEF SessionInv
    <3> QED BY <2>5, <2>6, <2>7, <2>8, <3>1, SessionKeeps
  <2> QED BY <2>6, <2>8 DEF SurvivorInv, Active
<1>8. CASE MarkExited(c)
  <2>1. /\ back[c] # <<>> /\ back' = [back EXCEPT ![c] = Tail(@)]
        /\ Head(back[c]).type = "SessionExited"
        /\ UNCHANGED <<inst, pty, req, down, up, handler>>
    BY <1>8 DEF MarkExited, Receive, hubMem, agent
  <2>2. PICK s \in Sessions : s = Head(back[c]).session
    BY <2>1, QueueFacts DEF TypeOK
  <2>3. status' = [status EXCEPT ![s] = IF @ = "none" THEN "none" ELSE "exited"]
    BY <1>8, <2>2 DEF MarkExited
  <2>4. Heard(s) /\ Left(s)
    <3>1. \A q \in Seq(Frames) : q # <<>> => 1 \in DOMAIN q
      OBVIOUS
    <3>2. \A q \in Seq(Frames) : q # <<>> => Head(q) = q[1]
      OBVIOUS
    <3> QED BY <1>0, <2>1, <2>2, <3>1, <3>2 DEF Heard, Left, IsExit
  <2>5. \A t : (Heard(t)' => Heard(t)) /\ (Left(t)' => Left(t))
    BY <2>1, BackShrinks
  <2>6. ASSUME NEW t \in Sessions, SessionInv(t) PROVE SessionInv(t)'
    <3>1. status'[t] # status[t] => t = s /\ status'[t] = "exited"
      BY <1>0, <2>3
    <3> QED BY <2>1, <2>4, <2>5, <2>6, <3>1, QueueFrame DEF SessionInv
  <2>7. \A t \in Sessions : status'[t] = "disconnected" => status[t] = "disconnected"
    BY <1>0, <2>3
  <2> QED BY <2>1, <2>6, <2>7 DEF SurvivorInv, Active
<1>9. CASE ReadError(c)
  BY <1>0, <1>2, <1>9 DEF ReadError, Active, SurvivorInv, hubDb, agent
<1>10. CASE RemoveIf(c)
  BY <1>0, <1>1, <1>10 DEF RemoveIf, Active, SurvivorInv, hubDb, wires, agent
<1>11. CASE MarkMachineDisconnected(c)
  <2>1. /\ status' = [s \in Sessions |-> IF status[s] = "running" THEN "disconnected" ELSE status[s]]
        /\ handler' = [handler EXCEPT ![c] = "return"] /\ handler[c] = "mark"
        /\ UNCHANGED <<inst, pty, req, down, back, up>>
    BY <1>11 DEF MarkMachineDisconnected, MarkRunningDisconnected, wires, agent
  <2>2. \A s \in Sessions : SessionInv(s) => SessionInv(s)'
    BY <2>1, QueueFrame DEF SessionInv
  <2>3. \A d \in Conns : handler'[d] # "loop"
    BY <1>0, <2>1 DEF SerialInv, Active
  <2> QED BY <1>0, <2>1, <2>2, <2>3 DEF SurvivorInv, Active
<1>12. CASE HandlerReturns(c)
  BY <1>0, <1>2, <1>12 DEF HandlerReturns, Active, SurvivorInv, hubDb, agent
<1> QED
  BY <1>3, <1>4, <1>5, <1>6, <1>7, <1>8, <1>9, <1>10, <1>11, <1>12 DEF HandlerNext, RegisterFails

\* The steps of requests, of the operator and of a crash.
LEMMA SurvivorRequest ==
    ASSUME ~StoreFails, TypeOK, RecordInv, SurvivorInv, NEW s \in Sessions,
           RequestNext(s) \/ OperatorNext(s)
    PROVE  SurvivorInv'
<1>0. /\ status \in [Sessions -> Statuses] /\ req \in [Sessions -> ReqStates]
      /\ link \in 0..MaxConns /\ (link # 0 => link \in Conns)
  BY LifecycleAssumption DEF TypeOK, Conns
<1>1. UNCHANGED <<inst, pty, back, up, handler>>
  BY DEF RequestNext, OperatorNext, OpenGivesUp, OpenCreate, DeleteRecord, Open, Close, DeleteCheck,
     ForceDeleteClose, SetAutoRelaunch, hubDb, hubMem, wires, agent
<1>2. \A t : (Heard(t)' => Heard(t)) /\ (Left(t)' => Left(t))
  BY <1>1, QueueFrame
<1>3. SUFFICES ASSUME inst = 1
               PROVE  /\ \A t \in Sessions :
                            status'[t] = "disconnected" => status[t] = "disconnected"
                      /\ \A t \in Sessions : SessionInv(t) => SessionInv(t)'
  BY <1>1 DEF SurvivorInv, Active
<1>4. \A t \in Sessions : SessionInv(t)
  BY <1>3 DEF SurvivorInv
<1>5. CASE OpenGivesUp(s)
  BY <1>0, <1>1, <1>2, <1>4, <1>5, QueueFrame DEF OpenGivesUp, SessionInv, hubDb, wires
<1>6. CASE OpenCreate(s)
  <2>1. /\ req[s] = "create" /\ status' = [status EXCEPT ![s] = "running"]
        /\ req' = [req EXCEPT ![s] = "done"] /\ UNCHANGED down
    BY <1>6 DEF OpenCreate
  <2> QED BY <1>0, <1>1, <1>2, <1>4, <2>1, QueueFrame DEF SessionInv
<1>7. CASE DeleteRecord(s)
  <2>1. status' = [status EXCEPT ![s] = "none"] /\ UNCHANGED <<req, down>>
    BY <1>7 DEF DeleteRecord, wires
  <2> QED BY <1>0, <1>1, <1>2, <1>4, <2>1, QueueFrame DEF SessionInv
<1>8. CASE Open(s)
  <2>1. /\ req[s] = "new" /\ link \in Conns /\ SendOpen(link, s, User)
        /\ req' = [req EXCEPT ![s] = "await"] /\ UNCHANGED status
    BY <1>0, <1>8 DEF Open, hubDb
  <2>2. Msg("OpenSession", s) \in Frames
    BY MsgFacts
  <2>3. \A t : /\ Opening(t)' => Opening(t) \/ t = s
               /\ OneOpen(t) /\ ~(Opening(t) /\ t = s) => OneOpen(t)'
    BY <2>1, <2>2, DownGrows DEF SendOpen, IsOpen, Msg
  <2>4. status[s] = "none"
    BY <2>1 DEF RecordInv
  <2> QED BY <1>0, <1>1, <1>2, <1>4, <2>1, <2>3, <2>4 DEF SessionInv
<1>9. CASE Close(s) \/ DeleteCheck(s) \/ ForceDeleteClose(s) \/ \E v \in BOOLEAN : SetAutoRelaunch(s, v)
  <2>1. UNCHANGED <<status, req>> /\ (SendClose(s) \/ UNCHANGED down)
    BY <1>9 DEF Close, DeleteCheck, ForceDeleteClose, SetAutoRelaunch, hubDb, hubMem, wires
  <2>2. Msg("CloseSession", s) \in Frames
    BY MsgFacts
  <2>3. \A t : (Opening(t)' => Opening(t)) /\ (OneOpen(t) => OneOpen(t)')
    <3>1. CASE UNCHANGED down
      BY <3>1, QueueFrame
    <3>2. CASE link \in up /\ SendClose(s)
      <4>1. link \in Conns /\ down' = [down EXCEPT ![link] = Append(@, Msg("CloseSession", s))]
        BY <3>2 DEF SendClose, TypeOK
      <4>2. \A t : ~IsOpen(Msg("CloseSession", s), t)
        BY DEF IsOpen, Msg
      <4> QED BY <2>2, <4>1, <4>2, DownGrows
    <3> QED BY <2>1, <3>1, <3>2 DEF SendClose
  <2> QED BY <1>1, <1>2, <1>4, <2>1, <2>3 DEF SessionInv
<1> QED BY <1>5, <1>6, <1>7, <1>8, <1>9 DEF RequestNext, OperatorNext

\* A crash of the hub ends all handlers, requests and reconciliations, and no
\* agent is connected until its next Hello has been handled.
LEMMA SurvivorCrash ==
    ASSUME TypeOK, SurvivorInv, HubCrash
    PROVE  SurvivorInv'
<1>1. /\ handler' = [c \in Conns |-> IF handler[c] = "none" THEN "none" ELSE "done"]
      /\ req' = [s \in Sessions |-> IF req[s] = "new" THEN "new" ELSE "done"]
      /\ up' = {} /\ back' = [c \in Conns |-> <<>>]
      /\ UNCHANGED <<inst, status, pty, down>>
  BY DEF HubCrash, hubDb, agent
<1>2. \A s : ~Heard(s)' /\ ~Left(s)'
  BY <1>1 DEF Heard, Left
<1>3. \A s \in Sessions : SessionInv(s) => SessionInv(s)'
  BY <1>1, <1>2, QueueFrame DEF SessionInv
<1> QED BY <1>1, <1>3 DEF SurvivorInv

\* Until the session-host restarts, a session whose shell is alive is shown
\* running whenever its agent is connected and nothing is in progress, with
\* orderly reconnects and a store that does not fail: whatever blips, crashes,
\* exits, timeouts and deletions there were (wsagent/inbound.go,
\* app/sessions/usecase.go:219).
THEOREM SurvivorsAreShown ==
    ASSUME ~FastReconnect, ~StoreFails
    PROVE  Spec => []ConnectedMeansRunning
<1>1. Init => SurvivorInv /\ SerialInv
  <2>1. Init => SerialInv
    BY DEF Init, SerialInv, Active, ReconcileOncePerRestart, Idle, RecAt
  <2>2. Init => \A s \in Sessions : SessionInv(s)
    BY DEF Init, SessionInv, Opening, OneOpen, Heard, Left
  <2>3. Init => up = {} /\ \A c \in Conns : handler[c] = "none"
    BY DEF Init
  <2> QED BY <2>1, <2>2, <2>3 DEF SurvivorInv
<1>2. LifecycleInv /\ SerialInv /\ SurvivorInv /\ [Next]_vars => (SerialInv /\ SurvivorInv)'
  <2> SUFFICES ASSUME LifecycleInv, SerialInv, SurvivorInv, [Next]_vars PROVE SerialInv' /\ SurvivorInv'
    OBVIOUS
  <2> USE DEF LifecycleInv
  <2>1. SerialInv'
    BY SerialNext
  <2>2. CASE UNCHANGED vars
    <3>1. UNCHANGED <<inst, status, pty, req, down, back, up, handler>>
      BY <2>2 DEF vars
    <3>2. \A s : SessionInv(s) => SessionInv(s)'
      BY <3>1, QueueFrame DEF SessionInv
    <3> QED BY <2>1, <3>1, <3>2 DEF SurvivorInv, Active
  <2>3. CASE AgentNext
    BY <2>1, <2>3, SurvivorAgent
  <2>4. CASE HubCrash
    BY <2>1, <2>4, SurvivorCrash
  <2>5. ASSUME NEW c \in Conns, HandlerNext(c) PROVE SurvivorInv'
    BY <2>5, SurvivorHandler
  <2>6. ASSUME NEW c \in Conns, ReconcileNext(c) PROVE SurvivorInv'
    <3>1. rec[c].pc # "idle" /\ UNCHANGED <<inst, up, handler>>
      BY <2>6 DEF ReconcileNext, ReconcileFetch, ReconcileGivesUp, ReconcileSet, ReconcileEnd,
         ReconcileOpen, hubDb, wires, agent
    <3>2. inst # 1
      BY <3>1 DEF RestartInv
    <3> QED BY <3>1, <3>2 DEF SurvivorInv, Active
  <2>7. ASSUME NEW s \in Sessions, RequestNext(s) \/ OperatorNext(s) PROVE SurvivorInv'
    BY <2>7, SurvivorRequest
  <2> QED BY <2>1, <2>2, <2>3, <2>4, <2>5, <2>6, <2>7 DEF Next
<1>3. LifecycleInv /\ SurvivorInv => ConnectedMeansRunning
  <2> SUFFICES ASSUME LifecycleInv, SurvivorInv, NEW s \in Sessions, Quiet, inst = 1, conn # 0,
                      conn \in up, pty[s] = "live", status[s] # "none"
               PROVE  status[s] = "running"
    BY DEF ConnectedMeansRunning
  <2>1. conn \in Conns /\ status[s] \in Statuses
    BY DEF LifecycleInv, TypeOK
  <2>2. handler[conn] = "loop"
    BY <2>1 DEF Quiet, SurvivorInv, Active
  <2>3. status[s] \notin {"disconnected", "lost", "exited"}
    BY <2>1, <2>2 DEF SurvivorInv, SessionInv
  <2> QED BY <2>1, <2>3 DEF Statuses
<1> QED BY <1>1, <1>2, <1>3, LifecycleInvariant, PTL DEF Spec
=============================================================================
