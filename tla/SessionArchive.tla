--------------------------- MODULE SessionArchive ---------------------------
(***************************************************************************)
(* The session table of one session-host and its scrollback archive on     *)
(* disk: Manager.Open, Close, FlushAll, Shutdown, the background flusher   *)
(* and readPump (internal/agent/app/session/manager.go), Save, Load,       *)
(* Delete and the disk cap (adapter/secondary/scrollbackfile/archive.go),  *)
(* and the SIGTERM path of cmdSessionHost (cmd/agent/main.go).             *)
(*                                                                         *)
(* Two goroutines save: the flusher, and main during FlushAll.  Requests   *)
(* of the connect process are handled one at a time, in one goroutine.     *)
(* The n-th piece of output of a session id, over all its lives, is the    *)
(* number n; 0 is the "session restored after restart" separator.          *)
(***************************************************************************)
EXTENDS Scrollback, FiniteSets

SeqX == INSTANCE SequencesExt

CONSTANTS
    Sessions,   \* session ids
    Cap,        \* disk cap of all the archives together
    MaxOut,     \* bound: pieces of output per session id
    MaxOpens,   \* bound: sessions opened per life of the host
    MaxRuns,    \* bound: lives of the host
    Faults      \* the faults that happen: "crash", "term", "saveFails", "loadFails"

ASSUME ArchiveAssumption ==
    /\ Cap \in Nat /\ MaxOut \in Nat /\ MaxOpens \in Nat /\ MaxRuns \in Nat \ {0}
    /\ Sessions \cap {"flusher", "main"} = {}

VARIABLES
    host,      \* cmdSessionHost: "up", "flush", "wait", "exit", "down"
    ls,        \* the liveSession objects of this life, in order of Open
    sessions,  \* Manager.sessions: id -> index in ls, 0 for none
    call,      \* the request in progress: what is next, its id, what Load returned
    files,     \* the archive: id -> the data in its file, <<>> for no file
    ages,      \* ids with a file and savers with a temp file, in order of mtime
    sv,        \* the two saving goroutines
    stopped,   \* flusherStop is closed
    out,       \* pieces of output per id, over all lives
    runs,      \* lives of the host so far
    atFlush    \* what the sessions FlushAll listed ended in then, 0 once closed

objVars  == <<ls, sessions, out>>
disk     == <<files, ages>>
svVars   == <<sv, stopped>>
vars == <<host, ls, sessions, call, files, ages, sv, stopped, out, runs, atFlush>>

Savers == {"flusher", "main"}
Sep    == 0
Idle   == [pc |-> "idle", id |-> "none", prior |-> <<>>]
Resting == [pc |-> "each", todo |-> {}, cur |-> 0, data |-> <<>>, left |-> <<>>, total |-> 0]

Alive   == host # "down"
Present == {s \in Sessions : files[s] # <<>>}
Size    == SeqX!SumFunction([s \in Present |-> Len(files[s])])

\* Removing a file, or a leftover of one; the archives, oldest first.
Without(x) == SeqX!RemoveFirst(ages, x)
Archives == SeqX!RemoveFirst(Without("flusher"), "main")
Remove(s) == files' = [files EXCEPT ![s] = <<>>] /\ ages' = Without(s)

\* The last piece of output in a scrollback or an archive, 0 if there is none.
LastOf(data) ==
    LET own == {i \in DOMAIN data : data[i] # Sep}
    IN  IF own = {} THEN 0 ELSE data[CHOOSE i \in own : \A j \in own : j <= i]

\* NewManager of a new process: the table is empty, the disk is what it was.
Init ==
    /\ host = "up"
    /\ ls = <<>>
    /\ sessions = [s \in Sessions |-> 0]
    /\ call = Idle
    /\ files = [s \in Sessions |-> <<>>]
    /\ ages = <<>>
    /\ sv = [g \in Savers |-> Resting]
    /\ stopped = FALSE
    /\ out = [s \in Sessions |-> 0]
    /\ runs = 1
    /\ atFlush = [s \in Sessions |-> 0]

-----------------------------------------------------------------------------
(* Manager.Open, in the control goroutine of the localhost server. *)

\* The duplicate check, and archive.Load: a missing or unreadable file is no
\* history.  Only this goroutine adds entries, so that an id that passes the
\* check still passes it when the file is read.
NotOpenForgotten(s) == TRUE                        \* mutant: no duplicate check
NotOpen(s) == sessions[s] = 0
OpenLoad(s) ==
    /\ Alive /\ call.pc = "idle"
    /\ NotOpen(s)
    /\ \/ call' = [pc |-> "publish", id |-> s, prior |-> files[s]]
       \/ "loadFails" \in Faults /\ call' = [pc |-> "publish", id |-> s, prior |-> <<>>]
    /\ UNCHANGED <<host, files, ages, runs>> /\ UNCHANGED objVars
    /\ UNCHANGED svVars /\ UNCHANGED atFlush

\* History, then the separator, before any output.
RestoredTwice(prior) ==                            \* mutant: history written again
    IF prior = <<>> THEN NewScrollback
    ELSE Write(Write(NewScrollbackWithData(prior), <<Sep>>), prior)
Restored(prior) ==
    IF prior = <<>> THEN NewScrollback
    ELSE Write(NewScrollbackWithData(prior), <<Sep>>)

\* The PTY starts and the session is published: until then nothing else can
\* reach it.  Or the PTY does not start and nothing changes.
OpenPublish ==
    /\ Alive /\ call.pc = "publish"
    /\ \/ /\ Len(ls) < MaxOpens
          /\ ls' = Append(ls, [id |-> call.id, sb |-> Restored(call.prior),
                               dirty |-> FALSE, pty |-> "open", pump |-> "read"])
          /\ sessions' = [sessions EXCEPT ![call.id] = Len(ls) + 1]
          /\ UNCHANGED out
       \/ UNCHANGED objVars
    /\ call' = Idle
    /\ UNCHANGED <<host, files, ages, runs, atFlush>> /\ UNCHANGED svVars

-----------------------------------------------------------------------------
(* Manager.Close, in the same goroutine. *)

\* pty.Close closes the file and kills the shell.  A Read that already
\* returned is still written; there is no other after it.
ClosePty(l) ==
    [l EXCEPT !.pty = IF @ # "open" THEN @ ELSE IF l.pump = "read" THEN "late" ELSE "closed"]

\* lookup, then pty.Close.
CloseStart(s) ==
    /\ Alive /\ call.pc = "idle"
    /\ sessions[s] # 0
    /\ ls' = [ls EXCEPT ![sessions[s]] = ClosePty(@)]
    /\ call' = [Idle EXCEPT !.pc = "delete", !.id = s]
    /\ UNCHANGED <<host, sessions, files, ages, out, runs>>
    /\ UNCHANGED svVars /\ UNCHANGED atFlush

CloseDelete ==
    /\ Alive /\ call.pc = "delete"
    /\ Remove(call.id)
    /\ atFlush' = [atFlush EXCEPT ![call.id] = 0]
    /\ call' = Idle
    /\ UNCHANGED <<host, runs>> /\ UNCHANGED objVars /\ UNCHANGED svVars

-----------------------------------------------------------------------------
(* readPump of object o.  Scrollback and dirty flag are written in two     *)
(* steps.                                                                  *)

PumpWrite(o) ==
    LET s == ls[o].id IN
    /\ Alive
    /\ ls[o].pump = "read" /\ ls[o].pty # "closed"
    /\ out[s] < MaxOut
    /\ out' = [out EXCEPT ![s] = @ + 1]
    /\ ls' = [ls EXCEPT ![o].pump = "mark",
                        ![o].pty = IF @ = "late" THEN "closed" ELSE @,
                        ![o].sb = Write(@, <<out[s] + 1>>)]
    /\ UNCHANGED <<host, sessions, call, files, ages, runs>>
    /\ UNCHANGED svVars /\ UNCHANGED atFlush

PumpMark(o) ==
    /\ Alive
    /\ ls[o].pump = "mark"
    /\ ls' = [ls EXCEPT ![o].pump = "read", ![o].dirty = TRUE]
    /\ UNCHANGED <<host, sessions, call, files, ages, out, runs>>
    /\ UNCHANGED svVars /\ UNCHANGED atFlush

\* The Read fails, because the PTY was closed or the shell exited; Wait and
\* sb.Close return; the entry of the id is deleted, whatever it holds.
PumpExit(o) ==
    /\ Alive
    /\ ls[o].pump = "read"
    /\ ls' = [ls EXCEPT ![o].pump = "gone", ![o].pty = "closed", ![o].sb = Close(@)]
    /\ sessions' = [sessions EXCEPT ![ls[o].id] = 0]
    /\ UNCHANGED <<host, call, files, ages, out, runs>>
    /\ UNCHANGED svVars /\ UNCHANGED atFlush

-----------------------------------------------------------------------------
(* The loop over sessions that flushDirty (g = "flusher") and FlushAll     *)
(* (g = "main") share, and Archive.Save inside it.                         *)

Listed == {sessions[s] : s \in Sessions} \ {0}

\* Nothing is left of the last flush: the goroutine is in its select, or has
\* nothing more to do.
Rests(g) == sv[g].pc = "each" /\ sv[g].todo = {}

\* The ticker fires; the entries are copied under the lock.
FlusherTick ==
    /\ Alive
    /\ Rests("flusher")
    /\ sv' = [sv EXCEPT !["flusher"].todo = Listed]
    /\ UNCHANGED <<host, call, files, ages, stopped, runs>>
    /\ UNCHANGED objVars /\ UNCHANGED atFlush

\* The next entry, in the map's arbitrary order; flushDirty skips a clean one.
FlushNext(g, o) ==
    /\ Alive
    /\ sv[g].pc = "each" /\ o \in sv[g].todo
    /\ sv' = [sv EXCEPT ![g].todo = @ \ {o},
                        ![g].cur = IF g = "main" \/ ls[o].dirty THEN o ELSE 0,
                        ![g].pc = IF g = "main" \/ ls[o].dirty THEN "snap" ELSE "each"]
    /\ UNCHANGED <<host, call, files, ages, stopped, runs>>
    /\ UNCHANGED objVars /\ UNCHANGED atFlush

\* sb.Snapshot; an empty scrollback is not saved.  Save writes a temp file,
\* which nobody else sees and whose mtime is now; or Save fails, which leaves
\* the target as it was and the session dirty.
FlushSnapshot(g) ==
    LET data == ls[sv[g].cur].sb.buf IN
    /\ Alive
    /\ sv[g].pc = "snap"
    /\ \/ /\ data # <<>>
          /\ sv' = [sv EXCEPT ![g].pc = "rename", ![g].data = data]
          /\ ages' = Append(ages, g)
       \/ /\ data = <<>> \/ "saveFails" \in Faults
          /\ sv' = [sv EXCEPT ![g].pc = "each", ![g].cur = 0]
          /\ UNCHANGED ages
    /\ UNCHANGED <<host, call, files, stopped, runs>>
    /\ UNCHANGED objVars /\ UNCHANGED atFlush

\* os.Rename: the new archive replaces the old one whole.
SaveRename(g) ==
    LET s == ls[sv[g].cur].id IN
    /\ Alive
    /\ sv[g].pc = "rename"
    /\ files' = [files EXCEPT ![s] = sv[g].data]
    /\ ages' = SeqX!ReplaceAll(Without(s), g, s)
    /\ sv' = [sv EXCEPT ![g].pc = "scan", ![g].data = <<>>]
    /\ UNCHANGED <<host, call, stopped, runs>>
    /\ UNCHANGED objVars /\ UNCHANGED atFlush

OverCapTwice(total) == total > 2 * Cap             \* mutant: cap misread
OverCap(total) == total > Cap

\* enforceCap reads the directory once; what it removes is decided on that.
CapScan(g) ==
    LET over == OverCap(Size) IN
    /\ Alive
    /\ sv[g].pc = "scan"
    /\ sv' = [sv EXCEPT
                ![g].pc = IF over THEN "evict" ELSE "clear",
                ![g].total = IF over THEN Size ELSE 0,
                ![g].left = IF over
                            THEN [i \in DOMAIN Archives |->
                                    [id |-> Archives[i], size |-> Len(files[Archives[i]])]]
                            ELSE <<>>]
    /\ UNCHANGED <<host, call, stopped, runs>>
    /\ UNCHANGED disk /\ UNCHANGED objVars /\ UNCHANGED atFlush

\* One round of the eviction loop: the oldest archive of the scan goes,
\* unless it is the one just written.  Removing a file that another goroutine
\* already removed fails, and then frees nothing.
Evict(g) ==
    LET e    == Head(sv[g].left)
        hit  == e.id # ls[sv[g].cur].id /\ e.id \in Present
        rest == IF hit THEN sv[g].total - e.size ELSE sv[g].total
        more == Len(sv[g].left) > 1 /\ OverCap(rest)
    IN
    /\ Alive
    /\ sv[g].pc = "evict"
    /\ IF hit THEN Remove(e.id) ELSE UNCHANGED disk
    /\ sv' = [sv EXCEPT ![g].pc = IF more THEN "evict" ELSE "clear",
                        ![g].total = IF more THEN rest ELSE 0,
                        ![g].left = IF more THEN Tail(@) ELSE <<>>]
    /\ UNCHANGED <<host, call, stopped, runs>>
    /\ UNCHANGED objVars /\ UNCHANGED atFlush

\* Save returned nil: the dirty flag is reset.
FlushClear(g) ==
    /\ Alive
    /\ sv[g].pc = "clear"
    /\ ls' = [ls EXCEPT ![sv[g].cur].dirty = FALSE]
    /\ sv' = [sv EXCEPT ![g].pc = "each", ![g].cur = 0]
    /\ UNCHANGED <<host, sessions, call, files, ages, stopped, out, runs>>
    /\ UNCHANGED atFlush

\* runFlusher takes the stop channel and closes flusherDone.
FlusherStops ==
    /\ Alive
    /\ Rests("flusher") /\ stopped
    /\ sv' = [sv EXCEPT !["flusher"].pc = "done"]
    /\ UNCHANGED <<host, call, files, ages, stopped, runs>>
    /\ UNCHANGED objVars /\ UNCHANGED atFlush

-----------------------------------------------------------------------------
(* The process: SIGTERM, crash, start.  ln.Close keeps no request of the   *)
(* connection that is open from being handled.                             *)

\* SIGTERM: FlushAll lists the sessions.
Terminate ==
    /\ "term" \in Faults
    /\ host = "up"
    /\ host' = "flush"
    /\ sv' = [sv EXCEPT !["main"].todo = Listed]
    /\ atFlush' = [s \in Sessions |->
                     IF sessions[s] = 0 THEN 0 ELSE LastOf(ls[sessions[s]].sb.buf)]
    /\ UNCHANGED <<call, files, ages, stopped, runs>> /\ UNCHANGED objVars

\* Mutant: flusherStop is not closed.
ShutdownNoStop ==
    /\ host = "flush"
    /\ Rests("main")
    /\ host' = "wait"
    /\ UNCHANGED <<call, files, ages, runs>>
    /\ UNCHANGED objVars /\ UNCHANGED svVars /\ UNCHANGED atFlush

\* FlushAll returns; Shutdown closes flusherStop.
ShutdownStart ==
    /\ host = "flush"
    /\ Rests("main")
    /\ stopped' = TRUE
    /\ host' = "wait"
    /\ UNCHANGED <<call, files, ages, sv, runs>> /\ UNCHANGED objVars /\ UNCHANGED atFlush

\* <-flusherDone, then pty.Close of every session; their archives stay.
ShutdownClose ==
    /\ host = "wait"
    /\ sv["flusher"].pc = "done"
    /\ ls' = [o \in DOMAIN ls |->
                IF o \in Listed THEN ClosePty(ls[o]) ELSE ls[o]]
    /\ host' = "exit"
    /\ UNCHANGED <<sessions, call, files, ages, out, runs>>
    /\ UNCHANGED svVars /\ UNCHANGED atFlush

\* The process ends, by returning from main or by a crash at any point: what
\* was in memory is gone.  The archive survives; a temp file left behind has
\* no .scrollback suffix and is never looked at again.
ProcessEnds ==
    /\ host = "exit" \/ (Alive /\ "crash" \in Faults)
    /\ host' = "down"
    /\ ls' = <<>>
    /\ sessions' = [s \in Sessions |-> 0]
    /\ call' = Idle
    /\ sv' = [g \in Savers |-> Resting]
    /\ stopped' = FALSE
    /\ ages' = Archives
    /\ UNCHANGED <<files, out, runs>> /\ UNCHANGED atFlush

ProcessStarts ==
    /\ host = "down"
    /\ runs < MaxRuns
    /\ host' = "up"
    /\ runs' = runs + 1
    /\ atFlush' = [s \in Sessions |-> 0]
    /\ UNCHANGED <<call, files, ages>> /\ UNCHANGED objVars /\ UNCHANGED svVars

-----------------------------------------------------------------------------
Handler == \/ \E s \in Sessions : OpenLoad(s) \/ CloseStart(s)
           \/ OpenPublish \/ CloseDelete

Pump(o) == PumpWrite(o) \/ PumpMark(o) \/ PumpExit(o)

Saving(g) == \/ \E o \in DOMAIN ls : FlushNext(g, o)
             \/ FlushSnapshot(g) \/ SaveRename(g)
             \/ CapScan(g) \/ Evict(g) \/ FlushClear(g)

Process == Terminate \/ ShutdownStart \/ ShutdownClose \/ ProcessEnds \/ ProcessStarts

Next == \/ Handler
        \/ \E o \in DOMAIN ls : Pump(o)
        \/ \E g \in Savers : Saving(g)
        \/ FlusherTick \/ FlusherStops
        \/ Process

Spec == Init /\ [][Next]_vars

\* Fairness: goroutines that can run do run.  The select of runFlusher takes
\* the stop channel once it is closed, however many ticks fire before that.
\* Requests, output, exits of shells, ticks, signals and crashes are free.
PumpRuns(o) ==
    /\ o \in DOMAIN ls
    /\ PumpMark(o) \/ (ls[o].pty # "open" /\ PumpExit(o))

Fairness ==
    /\ \A o \in 1 .. MaxOpens : WF_vars(PumpRuns(o))
    /\ \A g \in Savers : WF_vars(Saving(g))
    /\ WF_vars(OpenPublish \/ CloseDelete)
    /\ SF_vars(FlusherStops)
    /\ WF_vars(ShutdownStart) /\ WF_vars(ShutdownClose)
    /\ WF_vars(host = "exit" /\ ProcessEnds)

FairSpec == Spec /\ Fairness

-----------------------------------------------------------------------------
(* Properties. *)

Pieces == Seq(0 .. MaxOut)

\* Every variable has its type: no code index, counter or phase leaves its
\* range over any number of lives of the host (Manager and Archive fields).
TypeOK ==
    /\ host \in {"up", "flush", "wait", "exit", "down"}
    /\ Len(ls) <= MaxOpens
    /\ \A o \in DOMAIN ls :
          /\ ls[o].id \in Sessions /\ ls[o].sb.buf \in Pieces
          /\ Len(ls[o].sb.buf) <= Max
          /\ ls[o].dirty \in BOOLEAN /\ ls[o].pty \in {"open", "late", "closed"}
          /\ ls[o].pump \in {"read", "mark", "gone"}
    /\ sessions \in [Sessions -> 0 .. Len(ls)]
    /\ call.pc \in {"idle", "publish", "delete"}
    /\ call.pc # "idle" => call.id \in Sessions
    /\ call.prior \in Pieces
    /\ \A s \in Sessions : files[s] \in Pieces
    /\ \A g \in Savers :
          /\ sv[g].todo \subseteq DOMAIN ls /\ sv[g].cur \in 0 .. Len(ls)
          /\ sv[g].data \in Pieces /\ sv[g].total \in Nat
          /\ sv[g].pc \in {"snap", "rename", "scan", "evict", "clear"}
                => sv[g].cur # 0
    /\ ages \in Seq(Sessions \cup Savers)
    /\ stopped \in BOOLEAN
    /\ out \in [Sessions -> 0 .. MaxOut]
    /\ runs \in 1 .. MaxRuns
    /\ atFlush \in [Sessions -> 0 .. MaxOut]

\* No shell is out of reach: as long as the pump of a session runs, the map
\* entry of its id is that session, so that Close, Attach and Shutdown find
\* it.  readPump deletes the entry by id, and Open checks it before it loads
\* the archive and starts the PTY (manager.go:100-137 and 502-504).
NoOrphanPty ==
    \A o \in DOMAIN ls : ls[o].pump # "gone" => sessions[ls[o].id] = o

\* History is never repeated or reordered: in a scrollback, in what a save
\* carries and in every archive, the pieces of output increase, and are
\* consecutive except where a separator marks a restart (manager.go:108-125).
InOrder(data) ==
    /\ \A i, j \in DOMAIN data : i < j /\ data[i] # Sep /\ data[j] # Sep => data[i] < data[j]
    /\ \A i \in 1 .. Len(data) - 1 :
          data[i] # Sep /\ data[i + 1] # Sep => data[i + 1] = data[i] + 1
HistoryInOrder ==
    /\ TypeOK
    /\ \A o \in DOMAIN ls : InOrder(ls[o].sb.buf)
    /\ \A s \in Sessions : InOrder(files[s])
    /\ \A g \in Savers : InOrder(sv[g].data)

\* "A total-size cap evicts the oldest archives when exceeded" (archive.go:5):
\* when a Save ends, the archives fit the cap or a single one is left, unless
\* the other goroutine is still enforcing the cap for what it saved.
CapEnforced ==
    [][\A g \in Savers :
          sv[g].pc # "clear" /\ sv'[g].pc = "clear"
          => \/ Size' <= Cap
             \/ Cardinality(Present') <= 1
             \/ \E h \in Savers \ {g} : sv[h].pc \in {"scan", "evict"}]_vars

\* Shutdown does not hang: after SIGTERM the flusher stops, whatever it was
\* saving, and the process ends (manager.go:325-346, cmd/agent/main.go:372-376).
ShutdownEnds == host \in {"flush", "wait", "exit"} ~> host = "down"

\* "so the last bytes survive a graceful shutdown" (manager.go:246-247): when
\* the process ends after FlushAll, each session it listed and nobody closed has
\* an archive that goes at least as far as its scrollback did then.
LastBytesSurvive ==
    [][host = "exit" /\ host' = "down"
       => \A s \in Sessions : LastOf(files[s]) >= atFlush[s]]_vars
=============================================================================
