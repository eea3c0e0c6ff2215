-------------------------- MODULE TermSocketProofs --------------------------
(***************************************************************************)
(* Proofs about TermSocket, for every interval, timeout and send buffer:   *)
(* silence is cut in time, and, with a ping timeout below the keepalive    *)
(* interval, a viewer is cut only after two probes in a row went           *)
(* unanswered.                                                             *)
(***************************************************************************)
EXTENDS TermSocket, Integers, TLAPS

\* TypeOK, with the shape of the prober and the values of the flags.
SocketType ==
    /\ main \in {"attach", "read", "stream", "resize", "done"}
    /\ pump \in {"off", "read", "write", "closing", "done"}
    /\ prober \in [pc : {"off", "wait", "write", "ping", "done"}, left : 0..PingTimeout]
    /\ reaper \in {"off", "wait", "done"}
    /\ ticks \subseteq {"reaper", "prober"} /\ phase \in 1..Keepalive
    /\ buf \in 0..Buffer /\ idle \in Nat /\ missed \in Nat
    /\ pong \in {"no", "sent", "here"} /\ (pong # "no" => prober.pc = "ping")
    /\ ctx \in {"live", "cancelled"}

\* Time since the tickers fired last, and the idle time at that moment: below
\* zero when there was a sign of life after it.
SinceTick == Keepalive - phase
AtTick    == idle - SinceTick

\* The goroutines start together and, as long as the context lives, reaper and
\* prober stay.
Alongside ==
    /\ main = "attach" => /\ reaper = "off" /\ prober.pc = "off"
                          /\ idle = 0 /\ phase = Keepalive /\ ticks = {}
    /\ ctx = "live" /\ main # "attach" => reaper = "wait" /\ prober.pc \in {"wait", "write", "ping"}

\* The reaper takes a tick before time goes on, and lets none pass that is over
\* the budget.
ReaperOnTime ==
    ctx = "live" =>
        /\ AtTick <= Stale \/ "reaper" \in ticks
        /\ "reaper" \in ticks => phase = Keepalive /\ idle <= Stale + Keepalive

SilenceInv == SocketType /\ Alongside /\ ReaperOnTime

-----------------------------------------------------------------------------
(* The probes. *)

\* An upper bound on how long the probe under way has been going on.
InProbe == IF prober.pc = "write" THEN PingTimeout - prober.left
           ELSE 2 * PingTimeout - prober.left
Probing == prober.pc \in {"write", "ping"}
Waits   == prober.pc = "wait"
Due     == "prober" \in ticks

\* Since the last sign of life no probe has failed: no tick was lost, or the
\* probe it started is under way.
NoneMissed ==
    \/ AtTick <= 0
    \/ Waits /\ Due /\ AtTick <= Keepalive /\ SinceTick = 0
    \/ Probing /\ AtTick <= Keepalive /\ SinceTick <= InProbe
    \/ Probing /\ Due /\ AtTick <= 2 * Keepalive /\ SinceTick + Keepalive <= InProbe

\* How far behind a tick the second probe may have started.
Lag == IF 2 * PingTimeout > Keepalive THEN 2 * PingTimeout - Keepalive ELSE 0

\* One probe has failed: the next is due or under way before the fifth tick.
OneMissed ==
    \/ AtTick <= Keepalive
    \/ Waits /\ Due /\ AtTick <= 2 * Keepalive /\ SinceTick <= Lag
    \/ Probing /\ AtTick <= 2 * Keepalive /\ SinceTick <= Lag + InProbe
    \/ Probing /\ AtTick <= 3 * Keepalive /\ SinceTick + Keepalive <= Lag + InProbe
    \/ Probing /\ AtTick <= 4 * Keepalive /\ SinceTick + 2 * Keepalive <= Lag + InProbe

ProbeInv ==
    ctx = "live" => /\ missed = 0 => NoneMissed
                    /\ missed = 1 => OneMissed

-----------------------------------------------------------------------------
(* Types, and that silence is cut. *)

\* Every step of a goroutine, of time or of the viewer keeps the types.
LEMMA TypeStep ==
    ASSUME SocketType, Alongside, Next
    PROVE  SocketType'
<1> USE TermSocketAssumption DEF SocketType, Waiting, mark, noMark, env, TimerOnly
<1>1. CASE Attach
  <2>1. CASE main' = "read" /\ pump' = "read" /\ prober' = Waiting("wait") /\ reaper' = "wait"
             /\ UNCHANGED <<ctx, code>>
    BY <1>1, <2>1 DEF Attach, Alongside
  <2>2. CASE main' = "done" /\ ctx' = "cancelled" /\ UNCHANGED <<pump, prober, reaper>>
    BY <1>1, <2>2 DEF Attach
  <2> QED BY <1>1, <2>1, <2>2 DEF Attach
<1>2. CASE ReadFails
  BY <1>2 DEF ReadFails, Return
<1>3. CASE FrameArrives
  BY <1>3 DEF FrameArrives
<1>4. CASE Forwarded
  BY <1>4 DEF Forwarded
<1>5. CASE StreamFails
  BY <1>5 DEF StreamFails, Return
<1>6. CASE PumpReads
  BY <1>6 DEF PumpReads
<1>7. CASE PumpWrites
  BY <1>7 DEF PumpWrites
<1>8. CASE PumpCloses
  BY <1>8 DEF PumpCloses
<1>9. CASE Reaper
  BY <1>9 DEF Reaper
<1>10. CASE ProberTick
  BY <1>10 DEF ProberTick
<1>11. CASE Heartbeat
  BY <1>11 DEF Heartbeat
<1>12. CASE PongArrives
  BY <1>12 DEF PongArrives
<1>13. CASE Pinged
  BY <1>13 DEF Pinged
<1>14. CASE ProberEnds
  BY <1>14 DEF ProberEnds
<1>15. CASE Tick
  BY <1>15 DEF Tick, Running, Urgent
<1>16. CASE World
  BY <1>16 DEF World, Running
<1> QED
  BY <1>1, <1>2, <1>3, <1>4, <1>5, <1>6, <1>7, <1>8, <1>9, <1>10, <1>11, <1>12, <1>13, <1>14, <1>15, <1>16
     DEF Next, MainStep, PumpStep, ProberStep

\* SilenceInv is inductive: a tick over the budget waits for the reaper, and time
\* does not go on before the reaper has taken it.
LEMMA SilenceStep ==
    ASSUME SilenceInv, Next
    PROVE  SilenceInv'
<1>0. SocketType'
  BY TypeStep DEF SilenceInv
<1> USE TermSocketAssumption DEF SilenceInv, SocketType, Alongside, ReaperOnTime, SinceTick, AtTick,
        Stale, Waiting, mark, noMark, env, TimerOnly
<1>1. CASE Attach
  <2>1. CASE main' = "read" /\ pump' = "read" /\ prober' = Waiting("wait") /\ reaper' = "wait"
             /\ UNCHANGED <<ctx, code>>
    BY <1>0, <1>1, <2>1 DEF Attach
  <2>2. CASE main' = "done" /\ ctx' = "cancelled" /\ UNCHANGED <<pump, prober, reaper>>
    BY <1>0, <1>1, <2>2 DEF Attach
  <2> QED BY <1>1, <2>1, <2>2 DEF Attach
<1>2. CASE ReadFails
  BY <1>0, <1>2 DEF ReadFails, Return
<1>3. CASE FrameArrives
  BY <1>0, <1>3 DEF FrameArrives
<1>4. CASE Forwarded
  BY <1>0, <1>4 DEF Forwarded
<1>5. CASE StreamFails
  BY <1>0, <1>5 DEF StreamFails, Return
<1>6. CASE PumpReads
  BY <1>0, <1>6 DEF PumpReads
<1>7. CASE PumpWrites
  BY <1>0, <1>7 DEF PumpWrites
<1>8. CASE PumpCloses
  BY <1>0, <1>8 DEF PumpCloses
<1>9. CASE Reaper
  BY <1>0, <1>9 DEF Reaper
<1>10. CASE ProberTick
  BY <1>0, <1>10 DEF ProberTick
<1>11. CASE Heartbeat
  BY <1>0, <1>11 DEF Heartbeat
<1>12. CASE PongArrives
  BY <1>0, <1>12 DEF PongArrives
<1>13. CASE Pinged
  BY <1>0, <1>13 DEF Pinged
<1>14. CASE ProberEnds
  BY <1>0, <1>14 DEF ProberEnds
<1>15. CASE Tick
  BY <1>0, <1>15 DEF Tick, Running, Urgent
<1>16. CASE World
  BY <1>0, <1>16 DEF World, Running
<1> QED
  BY <1>1, <1>2, <1>3, <1>4, <1>5, <1>6, <1>7, <1>8, <1>9, <1>10, <1>11, <1>12, <1>13, <1>14, <1>15, <1>16
     DEF Next, MainStep, PumpStep, ProberStep

\* The inductive invariant behind SilenceEnds holds for every keepalive interval,
\* ping timeout and buffer: reaper and prober stay as long as the connection does,
\* and the reaper sees each tick (terminal.go:262-287).
THEOREM SilenceInvariant == Spec => []SilenceInv
<1>1. Init => SilenceInv
  BY TermSocketAssumption DEF Init, SilenceInv, SocketType, Alongside, ReaperOnTime, SinceTick,
     AtTick, Stale, Waiting
<1>2. SilenceInv /\ [Next]_vars => SilenceInv'
  <2>1. CASE UNCHANGED vars
    BY <2>1 DEF vars, SilenceInv, SocketType, Alongside, ReaperOnTime, SinceTick, AtTick, Stale
  <2> QED BY <2>1, SilenceStep
<1> QED BY <1>1, <1>2, PTL DEF Spec

\* A viewer that stays silent is cut no later than one interval after its budget
\* of four: no connection lives on in silence (terminal.go:262-287).
THEOREM SilenceEnds == Spec => []SilenceIsCut
<1>1. SilenceInv => SilenceIsCut
  BY TermSocketAssumption DEF SilenceInv, SocketType, Alongside, ReaperOnTime, SinceTick, AtTick, Stale,
     SilenceIsCut, TypeOK
<1> QED BY <1>1, SilenceInvariant, PTL

-----------------------------------------------------------------------------
(* That a live viewer is kept. *)

\* ProbeInv is inductive: a probe is due at every tick, a tick that finds the
\* prober at work waits in its channel, and a failed probe has cost at most two
\* ping timeouts.
LEMMA ProbeStep ==
    ASSUME PingTimeout < Keepalive, SilenceInv, ProbeInv, Next
    PROVE  ProbeInv'
<1>0. SocketType'
  BY TypeStep DEF SilenceInv
<1> USE TermSocketAssumption DEF SilenceInv, SocketType, Alongside, ProbeInv, NoneMissed, OneMissed,
        Lag, InProbe, Probing, Waits, Due, SinceTick, AtTick, Waiting, mark, noMark, env, TimerOnly
<1>1. CASE Attach
  BY <1>0, <1>1 DEF Attach
<1>2. CASE ReadFails
  BY <1>0, <1>2 DEF ReadFails, Return
<1>3. CASE FrameArrives
  BY <1>0, <1>3 DEF FrameArrives
<1>4. CASE Forwarded
  BY <1>0, <1>4 DEF Forwarded
<1>5. CASE StreamFails
  BY <1>0, <1>5 DEF StreamFails, Return
<1>6. CASE PumpReads
  BY <1>0, <1>6 DEF PumpReads
<1>7. CASE PumpWrites
  BY <1>0, <1>7 DEF PumpWrites
<1>8. CASE PumpCloses
  BY <1>0, <1>8 DEF PumpCloses
<1>9. CASE Reaper
  BY <1>0, <1>9 DEF Reaper
<1>10. CASE ProberTick
  BY <1>0, <1>10 DEF ProberTick
<1>11. CASE Heartbeat
  BY <1>0, <1>11 DEF Heartbeat
<1>12. CASE PongArrives
  BY <1>0, <1>12 DEF PongArrives
<1>13. CASE Pinged
  BY <1>0, <1>13 DEF Pinged
<1>14. CASE ProberEnds
  BY <1>0, <1>14 DEF ProberEnds
<1>15. CASE Tick
  BY <1>0, <1>15 DEF Tick, Running, Urgent
<1>16. CASE World
  BY <1>0, <1>16 DEF World, Running
<1> QED
  BY <1>1, <1>2, <1>3, <1>4, <1>5, <1>6, <1>7, <1>8, <1>9, <1>10, <1>11, <1>12, <1>13, <1>14, <1>15, <1>16
     DEF Next, MainStep, PumpStep, ProberStep

\* The step that cuts an attachment is the reaper's, at a tick over the budget.
LEMMA CutIsTheReapers ==
    ASSUME SilenceInv, Next, ~reaped, reaped'
    PROVE  ctx = "live" /\ main # "attach" /\ phase = Keepalive /\ idle > Stale
<1>1. Reaper
  BY DEF Next, MainStep, PumpStep, ProberStep, Attach, ReadFails, FrameArrives, Forwarded, StreamFails,
     PumpReads, PumpWrites, PumpCloses, ProberTick, Heartbeat, PongArrives, Pinged, ProberEnds,
     Tick, World, TimerOnly
<1>2. reaper = "wait" /\ "reaper" \in ticks /\ ctx = "live" /\ idle > Stale
  BY <1>1 DEF Reaper
<1> QED BY <1>2 DEF SilenceInv, Alongside, ReaperOnTime

\* With a ping timeout below the keepalive interval, as the defaults have it, the
\* reaper cuts only a viewer that left at least two probes in a row unanswered,
\* however ticks, a full send buffer and late pongs interleave (terminal.go:262-327).
THEOREM ProbesPrecedeTheCut ==
    ASSUME PingTimeout < Keepalive
    PROVE  Spec => LiveViewerKept
<1>1. Init => ProbeInv
  BY TermSocketAssumption DEF Init, ProbeInv, NoneMissed, AtTick, SinceTick
<1>2. SilenceInv /\ ProbeInv /\ [Next]_vars => ProbeInv'
  <2>1. CASE UNCHANGED vars
    BY <2>1 DEF vars, ProbeInv, NoneMissed, OneMissed, Lag, InProbe, Probing, Waits, Due, SinceTick, AtTick
  <2> QED BY <2>1, ProbeStep
<1>3. SilenceInv /\ ProbeInv /\ [Next]_vars => [~reaped /\ reaped' => missed >= 2]_vars
  <2> SUFFICES ASSUME SilenceInv, ProbeInv, Next, ~reaped, reaped'
               PROVE  missed >= 2
    OBVIOUS
  <2>1. ctx = "live" /\ main # "attach" /\ phase = Keepalive /\ idle > 4 * Keepalive
    BY CutIsTheReapers DEF Stale
  <2>2. AtTick = idle /\ SinceTick = 0
    BY <2>1, TermSocketAssumption DEF SilenceInv, SocketType, AtTick, SinceTick
  <2>3. ~NoneMissed /\ ~OneMissed
    BY <2>1, <2>2, TermSocketAssumption DEF SilenceInv, SocketType, NoneMissed, OneMissed
  <2> QED BY <2>1, <2>3 DEF ProbeInv, SilenceInv, SocketType
<1> QED BY <1>1, <1>2, <1>3, SilenceInvariant, PTL DEF Spec, LiveViewerKept
=============================================================================
