----------------------------- MODULE TermSocket -----------------------------
(***************************************************************************)
(* One attachment of a browser to a terminal: TerminalHandler.ServeHTTP of *)
(* wsbrowser/terminal.go with its four goroutines (the two pumps, the      *)
(* reaper, the prober) and attach.UseCase.OpenStream.                      *)
(*                                                                         *)
(* Time passes in units.  A goroutine that has nothing to wait for moves   *)
(* before the next unit begins; what waits for the peer, for the agent or  *)
(* for room in the kernel's send buffer may wait for any time.  Of the     *)
(* WebSocket library the model takes what terminal.go says of it: a write  *)
(* completes when the kernel has room, a ping when the handler's own read  *)
(* loop meets the pong, and a deadline ends either without closing the     *)
(* connection.                                                             *)
(***************************************************************************)
EXTENDS Naturals

CONSTANTS
    Keepalive,    \* keepaliveInterval
    PingTimeout,  \* pingTimeout: of the heartbeat write, and again of the ping
    Buffer        \* bound: output the kernel takes while the peer drains nothing

ASSUME TermSocketAssumption ==
    {Keepalive, PingTimeout, Buffer} \subseteq Nat \ {0}

VARIABLES
    peer,    \* the browser: "up", "gone" without a sign, "left" with one
    agent,   \* the session's side: "open", "ended"
    main,    \* the handler: "attach", then where its read loop is, "done"
    pump,    \* agent to browser: "read", "write", "closing", "done"
    prober,  \* "wait", "write", "ping", "done", and the time left to its deadline
    reaper,  \* "wait", "done"
    ticks,   \* the channels of the two tickers, filled or empty
    phase,   \* time to the tickers' next tick; they are started together
    idle,    \* time since liveness.mark
    buf,     \* output in the send buffer
    pong,    \* an answer to the pending ping: "no", "sent", "here"
    ctx,     \* the handler's context: "live", "cancelled"
    code,    \* the close frame sent to the browser
    missed,  \* probes that failed since the last mark
    reaped   \* the reaper has cut the attachment

vars == <<peer, agent, main, pump, prober, reaper, ticks, phase, idle, buf, pong, ctx, code,
          missed, reaped>>
env  == <<peer, agent, code>>                      \* what no timer touches
mark == idle' = 0 /\ missed' = 0                   \* liveness.mark
noMark == UNCHANGED <<idle, missed>>

\* staleTimeoutFactor
StaleTight == 2 * Keepalive                        \* mutant: half the factor
Stale == 4 * Keepalive

\* staleAfter and the smaller interval of the reaper agree with Keepalive here:
\* a quarter of Stale is no less than it.
Waiting(p) == [pc |-> p, left |-> 0]

Init ==
    /\ peer = "up" /\ agent = "open" /\ main = "attach" /\ pump = "off"
    /\ prober = Waiting("off") /\ reaper = "off" /\ ticks = {} /\ phase = Keepalive
    /\ idle = 0 /\ buf = 0 /\ pong = "no" /\ ctx = "live" /\ code = "none"
    /\ missed = 0 /\ reaped = FALSE

-----------------------------------------------------------------------------
(* Attaching and leaving. *)

\* OpenStream refuses a session that is unknown, ended or whose agent is
\* offline, and closeCodeFor says so; otherwise the goroutines start.
Attach ==
    /\ main = "attach"
    /\ \/ /\ main' = "read" /\ pump' = "read" /\ prober' = Waiting("wait") /\ reaper' = "wait"
          /\ UNCHANGED <<code, ctx>>
       \/ /\ code' \in {"not found", "ended", "agent offline", "attach failed"}
          /\ main' = "done" /\ ctx' = "cancelled"
          /\ UNCHANGED <<pump, prober, reaper>>
    /\ UNCHANGED <<peer, agent, ticks, phase, idle, buf, pong, missed, reaped>>

\* The deferred calls of ServeHTTP: stream.Close, cancel, CloseNow.  A pump that
\* reads the agent's stream or writes to the browser gets an error.
ReturnStreamOpen ==                                \* mutant: the stream is not closed
    /\ main' = "done" /\ ctx' = "cancelled"
    /\ pump' = IF pump = "write" THEN "done" ELSE pump
Return ==
    /\ main' = "done" /\ ctx' = "cancelled"
    /\ pump' = IF pump = "closing" THEN pump ELSE "done"

\* c.Read fails: the browser left or is being told to, or the context was
\* cancelled.
ReadFails ==
    /\ main = "read"
    /\ peer = "left" \/ pump = "closing" \/ ctx = "cancelled"
    /\ Return
    /\ UNCHANGED <<prober, reaper, ticks, phase, buf, pong, reaped>> /\ noMark /\ UNCHANGED env

-----------------------------------------------------------------------------
(* The pumps. *)

\* A frame of the browser: input for the stream, or a resize for the agent.
\* Either may keep the loop from reading.
FrameArrives ==
    /\ main = "read" /\ peer = "up" /\ ctx = "live"
    /\ main' \in {"read", "stream", "resize"}
    /\ mark
    /\ UNCHANGED <<pump, prober, reaper, ticks, phase, buf, pong, ctx, reaped>> /\ UNCHANGED env
Forwarded ==
    /\ main \in {"stream", "resize"}
    /\ main' = "read"
    /\ UNCHANGED <<pump, prober, reaper, ticks, phase, buf, pong, ctx, reaped>>
    /\ noMark /\ UNCHANGED env
\* stream.Write fails once the agent's side is gone.
StreamFails ==
    /\ main = "stream" /\ agent = "ended"
    /\ Return
    /\ UNCHANGED <<prober, reaper, ticks, phase, buf, pong, reaped>> /\ noMark /\ UNCHANGED env

\* Output: read from the stream, written to the browser; a completed write is
\* evidence.
PumpReads ==
    /\ pump = "read" /\ agent = "open" /\ ctx = "live"
    /\ pump' = "write"
    /\ UNCHANGED <<main, prober, reaper, ticks, phase, buf, pong, ctx, reaped>>
    /\ noMark /\ UNCHANGED env
PumpWrites ==
    /\ pump = "write"
    /\ \/ /\ ctx = "live" /\ buf < Buffer
          /\ pump' = "read" /\ buf' = buf + 1 /\ mark
          /\ UNCHANGED ctx
       \/ /\ ctx = "cancelled" \/ peer = "left"
          /\ pump' = "done" /\ ctx' = "cancelled"
          /\ UNCHANGED buf /\ noMark
    /\ UNCHANGED <<main, prober, reaper, ticks, phase, pong, reaped>> /\ UNCHANGED env

\* The session ended: c.Close sends the reason and waits for the browser for a
\* bounded time, then the context is cancelled.
PumpCloses ==
    /\ \/ /\ pump = "read" /\ agent = "ended"
          /\ pump' = "closing" /\ code' = "agent stream closed"
          /\ UNCHANGED ctx
       \/ /\ pump = "closing"
          /\ pump' = "done" /\ ctx' = "cancelled"
          /\ UNCHANGED code
    /\ UNCHANGED <<peer, agent, main, prober, reaper, ticks, phase, buf, pong, reaped>> /\ noMark

-----------------------------------------------------------------------------
(* The reaper and the prober. *)

TimerOnly == UNCHANGED <<main, pump, phase, buf, reaped>> /\ UNCHANGED env

\* The sole authority for a teardown; a tick it does not act on is done with.
ReaperSpares ==                                    \* mutant: spares a handler that is writing
    /\ reaper = "wait"
    /\ \/ /\ ctx = "cancelled" /\ reaper' = "done" /\ UNCHANGED <<ticks, ctx, reaped>>
       \/ /\ "reaper" \in ticks /\ ctx = "live"
          /\ ticks' = ticks \ {"reaper"}
          /\ IF idle > Stale /\ pump # "write"
             THEN reaper' = "done" /\ ctx' = "cancelled" /\ reaped' = TRUE
             ELSE UNCHANGED <<reaper, ctx, reaped>>
    /\ UNCHANGED <<main, pump, prober, phase, buf, pong>> /\ noMark /\ UNCHANGED env
Reaper ==
    /\ reaper = "wait"
    /\ \/ /\ ctx = "cancelled" /\ reaper' = "done" /\ UNCHANGED <<ticks, ctx, reaped>>
       \/ /\ "reaper" \in ticks /\ ctx = "live"
          /\ ticks' = ticks \ {"reaper"}
          /\ IF idle > Stale THEN reaper' = "done" /\ ctx' = "cancelled" /\ reaped' = TRUE
                             ELSE UNCHANGED <<reaper, ctx, reaped>>
    /\ UNCHANGED <<main, pump, prober, phase, buf, pong>> /\ noMark /\ UNCHANGED env

\* A tick starts the heartbeat write.
ProberTick ==
    /\ prober.pc = "wait" /\ "prober" \in ticks /\ ctx = "live"
    /\ prober' = [pc |-> "write", left |-> PingTimeout]
    /\ ticks' = ticks \ {"prober"}
    /\ UNCHANGED <<reaper, pong, ctx>> /\ noMark /\ TimerOnly

\* It completes, or its deadline ends it; neither is evidence, and a ping
\* follows.
HeartbeatMarks ==                                  \* mutant: a write is evidence
    /\ prober.pc = "write"
    /\ \/ buf < Buffer /\ pump # "write" /\ mark
       \/ prober.left = 0 /\ noMark
    /\ prober' = [pc |-> "ping", left |-> PingTimeout]
    /\ pong' = IF peer = "up" /\ buf < Buffer THEN "sent" ELSE "no"
    /\ UNCHANGED <<reaper, ticks, ctx>> /\ TimerOnly
Heartbeat ==
    /\ prober.pc = "write"
    /\ (buf < Buffer /\ pump # "write") \/ prober.left = 0
    /\ prober' = [pc |-> "ping", left |-> PingTimeout]
    /\ pong' = IF peer = "up" /\ buf < Buffer THEN "sent" ELSE "no"
    /\ UNCHANGED <<reaper, ticks, ctx>> /\ noMark /\ TimerOnly

\* The pong is met by the read loop, when it reads; a pong that comes after the
\* deadline is nobody's.
PongArrives ==
    /\ pong = "sent" /\ peer = "up" /\ pong' = "here"
    /\ UNCHANGED <<prober, reaper, ticks, ctx>> /\ noMark /\ TimerOnly
Pinged ==
    /\ prober.pc = "ping"
    /\ \/ pong = "here" /\ main = "read" /\ mark
       \/ prober.left = 0 /\ missed' = missed + 1 /\ UNCHANGED idle
    /\ prober' = Waiting("wait") /\ pong' = "no"
    /\ UNCHANGED <<reaper, ticks, ctx>> /\ TimerOnly
ProberEnds ==
    /\ prober.pc \in {"wait", "write", "ping"} /\ ctx = "cancelled"
    /\ prober' = Waiting("done") /\ pong' = "no"
    /\ UNCHANGED <<reaper, ticks, ctx>> /\ noMark /\ TimerOnly

-----------------------------------------------------------------------------
(* The world. *)

\* What does not wait for anyone else moves before the next unit.
Urgent ==
    \/ main = "attach"
    \/ reaper = "wait" /\ "reaper" \in ticks
    \/ prober.pc = "wait" /\ "prober" \in ticks
    \/ prober.pc = "write" /\ (prober.left = 0 \/ (buf < Buffer /\ pump # "write"))
    \/ prober.pc = "ping" /\ (prober.left = 0 \/ (pong = "here" /\ main = "read"))
    \/ pump = "write" /\ buf < Buffer

Running == main # "done" /\ ctx = "live"

\* A unit passes; a tick that finds its channel full is dropped.
Tick ==
    /\ Running /\ ~Urgent
    /\ idle' = idle + 1
    /\ prober' = [prober EXCEPT !.left = IF @ = 0 THEN 0 ELSE @ - 1]
    /\ phase' = IF phase = 1 THEN Keepalive ELSE phase - 1
    /\ ticks' = IF phase = 1 THEN {"reaper", "prober"} ELSE ticks
    /\ UNCHANGED <<main, pump, reaper, buf, pong, ctx, missed, reaped>> /\ UNCHANGED env

\* The browser drains; it vanishes, or leaves with a sign; the session ends.
World ==
    /\ Running /\ main # "attach"
    /\ \/ peer = "up" /\ buf > 0 /\ buf' = buf - 1 /\ UNCHANGED <<peer, agent>>
       \/ peer = "up" /\ peer' \in {"gone", "left"} /\ UNCHANGED <<buf, agent>>
       \/ agent = "open" /\ agent' = "ended" /\ UNCHANGED <<buf, peer>>
    /\ UNCHANGED <<main, pump, prober, reaper, ticks, phase, pong, ctx, code, missed, idle, reaped>>

MainStep   == Attach \/ ReadFails \/ Forwarded \/ StreamFails
PumpStep   == PumpWrites \/ PumpCloses
ProberStep == ProberTick \/ Heartbeat \/ Pinged \/ ProberEnds
Next ==
    \/ MainStep \/ FrameArrives \/ PumpReads \/ PumpStep \/ Reaper \/ ProberStep
    \/ PongArrives \/ Tick \/ World

Spec == Init /\ [][Next]_vars

\* Goroutines run and time passes.  Forwarded is fair: the agent takes input and
\* resizes, if late.  Nobody has to type, answer, drain or end.
Fairness == WF_vars(MainStep) /\ WF_vars(PumpStep) /\ WF_vars(Reaper) /\ WF_vars(ProberStep)
            /\ WF_vars(Tick)
FairSpec == Spec /\ Fairness

-----------------------------------------------------------------------------
(* Properties. *)

TypeOK ==
    /\ main \in {"attach", "read", "stream", "resize", "done"}
    /\ pump \in {"off", "read", "write", "closing", "done"}
    /\ prober.pc \in {"off", "wait", "write", "ping", "done"} /\ prober.left \in 0..PingTimeout
    /\ ticks \subseteq {"reaper", "prober"} /\ phase \in 1..Keepalive
    /\ buf \in 0..Buffer /\ idle \in Nat /\ missed \in Nat
    /\ pong # "no" => prober.pc = "ping"

\* Silence is cut at the next tick after the budget, wherever the prober and the
\* pumps are parked: the reaper depends on none of them (terminal.go:259-287).
SilenceIsCut == TypeOK /\ (ctx = "live" => idle <= Stale + Keepalive)

\* A viewer is cut only after two probes in a row that ran to their end without
\* an answer, also when its pongs wait behind a slow write or a parked read loop
\* and a slow prober loses ticks.  (The comment at terminal.go:36-39 promises
\* three: a probe whose write and ping both time out takes longer than an
\* interval, and the third may still run when the reaper cuts.)
LiveViewerKept == [][~reaped /\ reaped' => missed >= 2]_vars

\* A browser that vanished does not keep its attachment, although the kernel
\* still takes heartbeats and, for a while, output (terminal.go:42-45, 289-322).
DeadViewerReaped == peer = "gone" ~> main = "done"

\* A teardown that anyone starts ends them all: no goroutine of the attachment is
\* left behind (terminal.go:163-257).
TeardownEnds ==
    ctx = "cancelled" ~> main = "done" /\ pump \in {"off", "done"} /\ reaper \in {"off", "done"}
                            /\ prober.pc \in {"off", "done"}
=============================================================================
