----------------------------- MODULE TermStream -----------------------------
(***************************************************************************)
(* One live PTY session of the agent: the read pump that copies PTY output *)
(* into the scrollback, and the Attach calls that replay it and follow it  *)
(* (internal/agent/app/session/manager.go, readPump and Attach).           *)
(*                                                                         *)
(* Byte n of the session's output is the number n, so the whole stream is  *)
(* 1, 2, 3, ...  An Attach is three goroutines: the caller (main), the     *)
(* drain that writes scrollback to the client's stream, and the copy of    *)
(* the client's keystrokes to the PTY.                                     *)
(***************************************************************************)
EXTENDS Scrollback

CONSTANTS
    Clients,    \* attach slots
    MaxChunk,   \* bound: bytes one PTY read returns (32 KiB in the code)
    MaxBytes,   \* bound: bytes the session ever outputs
    MaxPrior,   \* bound: bytes of the archive a relaunched session preloads
    SepLen      \* bytes of the "session restored after restart" separator

ASSUME StreamAssumption ==
    /\ MaxChunk \in Nat /\ MaxBytes \in Nat /\ MaxPrior \in Nat /\ SepLen \in Nat

VARIABLES
    sb,        \* the session's Scrollback
    total,     \* bytes of output so far, preloaded history included
    closedCh,  \* wait channels that have been closed
    pump,      \* readPump: "read", "signal", "exited", "signalClose", "remove", "gone"
    inMap,     \* the session is in Manager.sessions
    main,      \* Attach caller: "none", "select", "join", "returned"
    drain,     \* drain goroutine: "none", "oldest", "read", "blocked", "write", "done"
    copy,      \* copy goroutine: "none", "running", "done"
    cursor,    \* drain's cursor
    waitOn,    \* the channel a blocked drain selects on
    data,      \* bytes read from the scrollback and not yet written
    sent,      \* number of the last byte the client's stream accepted
    open       \* the clients whose stream takes bytes

pumpVars   == <<sb, total, closedCh, pump, inMap>>
attachVars == <<main, drain, copy, cursor, waitOn, data, sent, open>>
vars == <<sb, total, closedCh, pump, inMap,
          main, drain, copy, cursor, waitOn, data, sent, open>>

\* Bytes a+1 .. b of the output stream.
Bytes(a, b) == [i \in 1 .. (b - a) |-> a + i]

\* Manager.Open: history from the archive, then the separator, both before
\* the session is published in the map.
Preloaded(k) ==
    IF k = 0 THEN NewScrollbackWithData(<<>>)
    ELSE Write(NewScrollbackWithData(Bytes(0, k)), Bytes(k, k + SepLen))

Init ==
    /\ \E k \in 0 .. MaxPrior :
          /\ sb = Preloaded(k)
          /\ total = IF k = 0 THEN 0 ELSE k + SepLen
    /\ closedCh = 0 .. (sb.wait - 1)
    /\ pump = "read"
    /\ inMap = TRUE
    /\ main   = [c \in Clients |-> "none"]
    /\ drain  = [c \in Clients |-> "none"]
    /\ copy   = [c \in Clients |-> "none"]
    /\ cursor = [c \in Clients |-> 0]
    /\ waitOn = [c \in Clients |-> 0]
    /\ data   = [c \in Clients |-> <<>>]
    /\ sent   = [c \in Clients |-> 0]
    /\ open   = {}

-----------------------------------------------------------------------------
(* readPump.  Read returning bytes together with an error behaves as the   *)
(* two reads one after the other, and is not a case of its own.            *)

PumpWrite(n) ==
    /\ pump = "read"
    /\ total + n <= MaxBytes
    /\ sb' = Write(sb, Bytes(total, total + n))
    /\ total' = total + n
    /\ pump' = "signal"
    /\ UNCHANGED <<closedCh, inMap>> /\ UNCHANGED attachVars

\* Mutant: the channel is replaced but never closed.
PumpSignalLost ==
    /\ pump \in {"signal", "signalClose"}
    /\ pump' = IF pump = "signal" THEN "read" ELSE "remove"
    /\ UNCHANGED <<sb, total, closedCh, inMap>> /\ UNCHANGED attachVars

\* close(w), after the unlock; the channel replaced last is wait - 1.
PumpSignal ==
    /\ pump \in {"signal", "signalClose"}
    /\ closedCh' = closedCh \cup {sb.wait - 1}
    /\ pump' = IF pump = "signal" THEN "read" ELSE "remove"
    /\ UNCHANGED <<sb, total, inMap>> /\ UNCHANGED attachVars

\* The PTY read fails: the shell exited, or Close or Shutdown closed the PTY.
PumpReadError ==
    /\ pump = "read"
    /\ pump' = "exited"
    /\ UNCHANGED <<sb, total, closedCh, inMap>> /\ UNCHANGED attachVars

\* pty.Wait returned.
PumpClose ==
    /\ pump = "exited"
    /\ sb' = Close(sb)
    /\ pump' = "signalClose"
    /\ UNCHANGED <<total, closedCh, inMap>> /\ UNCHANGED attachVars

PumpRemove ==
    /\ pump = "remove"
    /\ inMap' = FALSE
    /\ pump' = "gone"
    /\ UNCHANGED <<sb, total, closedCh>> /\ UNCHANGED attachVars

-----------------------------------------------------------------------------
(* Attach. *)

\* lookup succeeds and the two goroutines start.  A slot is reused once all
\* three goroutines of its previous Attach have ended.
Attach(c) ==
    /\ inMap
    /\ main[c] \in {"none", "returned"}
    /\ drain[c] \in {"none", "done"}
    /\ main'   = [main EXCEPT ![c] = "select"]
    /\ drain'  = [drain EXCEPT ![c] = "oldest"]
    /\ copy'   = [copy EXCEPT ![c] = "running"]
    /\ sent'   = [sent EXCEPT ![c] = 0]
    /\ data'   = [data EXCEPT ![c] = <<>>]
    /\ cursor' = [cursor EXCEPT ![c] = 0]
    /\ open'   = open \cup {c}
    /\ UNCHANGED waitOn /\ UNCHANGED pumpVars

DrainOldest(c) ==
    /\ drain[c] = "oldest"
    /\ cursor' = [cursor EXCEPT ![c] = sb.start]
    /\ drain'  = [drain EXCEPT ![c] = "read"]
    /\ UNCHANGED <<main, copy, waitOn, data, sent, open>> /\ UNCHANGED pumpVars

\* One locked round of ReadFrom: data, else end of stream, else block.
ReadFrom(c) ==
    /\ drain[c] = "read"
    /\ \/ /\ HasData(sb, cursor[c])
          /\ data'   = [data EXCEPT ![c] = DataFrom(sb, cursor[c])]
          /\ cursor' = [cursor EXCEPT ![c] = End(sb)]
          /\ drain'  = [drain EXCEPT ![c] = "write"]
          /\ UNCHANGED <<waitOn, open>>
       \/ /\ ~HasData(sb, cursor[c]) /\ sb.closed
          /\ cursor' = [cursor EXCEPT ![c] = Clamp(sb, cursor[c])]
          /\ drain'  = [drain EXCEPT ![c] = "done"]
          /\ open'   = open \ {c}
          /\ UNCHANGED <<data, waitOn>>
       \/ /\ ~HasData(sb, cursor[c]) /\ ~sb.closed
          /\ cursor' = [cursor EXCEPT ![c] = Clamp(sb, cursor[c])]
          /\ waitOn' = [waitOn EXCEPT ![c] = sb.wait]
          /\ drain'  = [drain EXCEPT ![c] = "blocked"]
          /\ UNCHANGED <<data, open>>
    /\ UNCHANGED <<main, copy, sent>> /\ UNCHANGED pumpVars

\* The select of a blocked ReadFrom: a broadcast makes it look again, the
\* stop channel (closed when Attach returns) ends the drain.
Wake(c) ==
    /\ drain[c] = "blocked"
    /\ \/ /\ waitOn[c] \in closedCh
          /\ drain' = [drain EXCEPT ![c] = "read"]
          /\ UNCHANGED open
       \/ /\ main[c] = "returned"
          /\ drain' = [drain EXCEPT ![c] = "done"]
          /\ open'  = open \ {c}
    /\ UNCHANGED <<main, copy, cursor, waitOn, data, sent>> /\ UNCHANGED pumpVars

\* stream.Write of the bytes read succeeds.
DrainWrite(c) ==
    /\ drain[c] = "write" /\ c \in open
    /\ sent'  = [sent EXCEPT ![c] = data[c][Len(data[c])]]
    /\ data'  = [data EXCEPT ![c] = <<>>]
    /\ drain' = [drain EXCEPT ![c] = "read"]
    /\ UNCHANGED <<main, copy, cursor, waitOn, open>> /\ UNCHANGED pumpVars

\* stream.Write fails, because the client is gone or the stream is closed:
\* the drain ends without closing the stream, which takes no more bytes.
DrainWriteFails(c) ==
    /\ drain[c] = "write"
    /\ data'  = [data EXCEPT ![c] = <<>>]
    /\ drain' = [drain EXCEPT ![c] = "done"]
    /\ open'  = open \ {c}
    /\ UNCHANGED <<main, copy, cursor, waitOn, sent>> /\ UNCHANGED pumpVars

\* io.Copy of the keystrokes ends: end of input, or a write to a dead PTY.
CopyEnds(c) ==
    /\ copy[c] = "running"
    /\ copy' = [copy EXCEPT ![c] = "done"]
    /\ UNCHANGED <<main, drain, cursor, waitOn, data, sent, open>> /\ UNCHANGED pumpVars

\* The select of Attach takes the exited branch and waits for the copy.
AttachExited(c) ==
    /\ main[c] = "select" /\ drain[c] = "done"
    /\ main' = [main EXCEPT ![c] = "join"]
    /\ UNCHANGED <<drain, copy, cursor, waitOn, data, sent, open>> /\ UNCHANGED pumpVars

\* copyDone arrives in either branch: close(stop), closeStream, return.
AttachReturns(c) ==
    /\ main[c] \in {"select", "join"} /\ copy[c] = "done"
    /\ main' = [main EXCEPT ![c] = "returned"]
    /\ open' = open \ {c}
    /\ UNCHANGED <<drain, copy, cursor, waitOn, data, sent>> /\ UNCHANGED pumpVars

-----------------------------------------------------------------------------
PumpNext == PumpSignal \/ PumpReadError \/ PumpClose \/ PumpRemove
            \/ \E n \in 1 .. MaxChunk : PumpWrite(n)

DrainNext(c) == DrainOldest(c) \/ ReadFrom(c) \/ Wake(c) \/ DrainWrite(c)
                \/ DrainWriteFails(c)

ClientNext(c) == Attach(c) \/ DrainNext(c) \/ CopyEnds(c) \/ AttachExited(c)
                 \/ AttachReturns(c)

\* Every goroutine has ended: the PTY is gone and nobody is attached.
AllDone ==
    /\ pump = "gone"
    /\ \A c \in Clients : main[c] \in {"none", "returned"} /\ drain[c] \in {"none", "done"}
    /\ UNCHANGED vars

Next == PumpNext \/ (\E c \in Clients : ClientNext(c)) \/ AllDone

Spec == Init /\ [][Next]_vars

(* The Go scheduler runs every runnable goroutine, so the pump's own steps *)
(* and the steps of an Attach are weakly fair.  A write to the client      *)
(* returns, with or without an error (the hub's reaper ends a dead one).   *)
(* The PTY need not produce output or exit, and a client need not attach   *)
(* or detach; but once its stream takes no more bytes its input ends: the  *)
(* peer answers the close, or the multiplexer's close timer fires.         *)
PumpFairness == WF_vars(PumpSignal) /\ WF_vars(PumpClose) /\ WF_vars(PumpRemove)

ClientFairness(c) ==
    /\ WF_vars(DrainNext(c))
    /\ WF_vars(AttachExited(c) \/ AttachReturns(c))
    /\ WF_vars(c \notin open /\ CopyEnds(c))

FairSpec == Spec /\ PumpFairness /\ \A c \in Clients : ClientFairness(c)

-----------------------------------------------------------------------------
(* Properties *)

\* Every variable holds a value of its type.
TypeOK ==
    /\ sb \in [buf : Seq(Nat), start : Nat, closed : BOOLEAN, wait : Nat]
    /\ total \in Nat
    /\ closedCh \in SUBSET Nat
    /\ pump \in {"read", "signal", "exited", "signalClose", "remove", "gone"}
    /\ inMap \in BOOLEAN
    /\ main  \in [Clients -> {"none", "select", "join", "returned"}]
    /\ drain \in [Clients -> {"none", "oldest", "read", "blocked", "write", "done"}]
    /\ copy  \in [Clients -> {"none", "running", "done"}]
    /\ cursor \in [Clients -> Nat]
    /\ waitOn \in [Clients -> Nat]
    /\ data \in [Clients -> Seq(Nat)]
    /\ sent \in [Clients -> Nat]
    /\ open \in SUBSET Clients

\* The buffer is exactly the newest Max bytes of the output (all of it while
\* it still fits), and the absolute offset start agrees with the stream: no
\* order of small, large and overflowing writes, preloaded history included,
\* shifts the window (Write's two eviction branches).
WindowIsTail ==
    /\ End(sb) = total
    /\ Len(sb.buf) = IF total < Max THEN total ELSE Max
    /\ \A i \in 1 .. Len(sb.buf) : sb.buf[i] = sb.start + i

\* A reader blocked in ReadFrom although there is something to return (bytes,
\* or the end of the stream) waits on a channel that is closed or that the
\* pump is about to close: no wakeup is lost between the reader's unlock and
\* its select, nor between the writer's unlock and its close(w).
NoLostWakeup ==
    \A c \in Clients :
        drain[c] = "blocked" /\ (HasData(sb, cursor[c]) \/ sb.closed) =>
            \/ waitOn[c] \in closedCh
            \/ pump \in {"signal", "signalClose"} /\ waitOn[c] = sb.wait - 1

\* Each batch of bytes ReadFrom hands to a client is a contiguous piece of the
\* stream that comes after everything the client already has: the slow client
\* whose cursor fell out of the window never sees a byte twice or out of order.
DeliversInOrder ==
    [][\A c \in Clients :
          data'[c] # data[c] /\ data'[c] # <<>> =>
             /\ data'[c] = Bytes(data'[c][1] - 1, cursor'[c])
             /\ data'[c][1] > sent[c]]_vars

\* ReadFrom skips bytes only when they were already evicted: a batch starts
\* right after the last byte sent, or at the oldest byte retained.
SkipsOnlyEvicted ==
    [][\A c \in Clients :
          data'[c] # data[c] /\ data'[c] # <<>> =>
             data'[c][1] \in {sent[c] + 1, sb.start + 1}]_vars

\* ReadFrom reports the end of a closed stream only to a client that has been
\* sent the last byte of output: the shell's final words reach every client
\* whose stream holds, whatever the race between Write, Close and the drain.
EofAfterLastByte ==
    [][\A c \in Clients :
          drain[c] = "read" /\ drain'[c] = "done" => sent[c] = total]_vars

\* Once the shell exits every Attach eventually returns: nobody stays blocked
\* on a session that no longer exists.
ExitReleasesAttach ==
    pump = "exited" ~> \A c \in Clients : main[c] \in {"none", "returned"}

\* Every byte output reaches every attached client, unless its stream ends
\* first (bytes evicted before a slow client asks for them are passed over).
OutputReachesClients ==
    \A c \in Clients : \A n \in 1 .. MaxBytes :
        (c \in open /\ total >= n) ~> (sent[c] >= n \/ c \notin open)

-----------------------------------------------------------------------------
(* What the invariants above need to be inductive. *)

\* A drain about to read continues after the last byte sent, or has sent
\* nothing and starts at a byte that was once the oldest retained; a drain
\* about to write holds bytes that end at its cursor.
CursorInv ==
    \A c \in Clients :
        /\ drain[c] = "oldest" => sent[c] = 0
        /\ drain[c] \in {"read", "blocked"} =>
              /\ cursor[c] <= total
              /\ cursor[c] = sent[c] \/ (sent[c] = 0 /\ cursor[c] <= sb.start)
        /\ drain[c] = "write" =>
              /\ data[c] # <<>> /\ cursor[c] <= total
              /\ data[c][Len(data[c])] = cursor[c]

\* Every channel replaced so far is closed, except the one the pump is about
\* to close; a reader blocked on the current channel has nothing to return.
ChannelInv ==
    /\ pump \in {"signal", "signalClose"} => sb.wait > 0
    /\ \A k \in 0 .. (sb.wait - 1) :
          \/ k \in closedCh
          \/ pump \in {"signal", "signalClose"} /\ k = sb.wait - 1
    /\ \A c \in Clients : drain[c] = "blocked" =>
          /\ waitOn[c] <= sb.wait
          /\ waitOn[c] = sb.wait => ~HasData(sb, cursor[c]) /\ ~sb.closed
=============================================================================
