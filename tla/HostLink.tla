------------------------------ MODULE HostLink ------------------------------
(***************************************************************************)
(* The two processes of an agent and the Unix socket between them:         *)
(* session-host, which owns the shells, and connect, which speaks to the   *)
(* hub and is restarted on its own.  From cmd/agent/main.go (cmdConnect,   *)
(* cmdSessionHost), cmd/agent/spawn_unix.go, the socket server             *)
(* adapter/primary/localhost/server.go and its client                      *)
(* adapter/secondary/hostclient/client.go.                                 *)
(*                                                                         *)
(* One connect runs at a time, life after life; hosts are numbered in the  *)
(* order they are started.  A connection's handler, its control goroutine  *)
(* and connect's reader are separate processes.  Calls of Open come from   *)
(* the readers of hub connections, of which an old one may overlap a new   *)
(* one.                                                                    *)
(***************************************************************************)
EXTENDS Naturals, Sequences, FiniteSets

CONSTANTS
    Sessions,   \* session ids
    Openers,    \* goroutines that call Open
    MaxHosts,   \* bound: session-host processes
    MaxConns,   \* bound: connections to the socket
    MaxReqs     \* bound: requests of the hub; a connect that gives up a starting host
                \* counts for all of them

ASSUME HostLinkAssumption ==
    /\ {MaxHosts, MaxConns} \subseteq Nat \ {0} /\ MaxReqs \in Nat
    /\ "none" \notin Openers       \* no caller is the nil of pendingOpen

VARIABLES
    path,     \* the host whose socket is at socketPath, 0 for no file
    hosts,    \* the session-hosts
    conn,     \* the connections, in order of the dial
    cn,       \* connect: what it does next, its connection
    op,       \* the calls of Open
    pending,  \* pendingOpen: the call that is waiting, "none" for nil
    reqs,     \* requests and give-ups so far
    got,      \* successes of Open that answered another request: the caller's, the answered
    gaveUp    \* a connect ended while a host was on its way up

vars == <<path, hosts, conn, cn, op, pending, reqs, got, gaveUp>>

Hosts  == 1..MaxHosts
None   == "none"
IdleOp == [pc |-> "idle", id |-> None]
Frame(type, id) == [type |-> type, id |-> id]

\* The host accepts connections: net.Listen was called, ln.Close was not.
Listens(h)  == h # 0 /\ hosts[h].pc = "up"
Alive(h)    == hosts[h].pc \in {"up", "closing"}
Unstarted   == {h \in Hosts : hosts[h].pc = "none"}
Served(c)   == hosts[conn[c].host]

\* A connection on its way to the host that listens, open or closed at once.
NewConn(peer, inbox) ==
    [host |-> path, peer |-> peer, srv |-> "backlog", ctl |-> "off", by |-> <<>>,
     inbox |-> inbox, outbox |-> <<>>]

Init ==
    /\ path = 0
    /\ hosts = [h \in Hosts |-> [pc |-> "none", lease |-> 0, sink |-> 0]]
    /\ conn = <<>>
    /\ cn = [pc |-> "off", c |-> 0]
    /\ op = [o \in Openers |-> IdleOp]
    /\ pending = None
    /\ reqs = 0
    /\ got = {}
    /\ gaveUp = FALSE

-----------------------------------------------------------------------------
(* connect: start, probe, spawn, dial, handshake. *)

Connecting(pc) == cn' = [cn EXCEPT !.pc = pc]

\* systemd starts connect, again and again, and connect starts with
\* spawnHostIfNeeded: socketResponds dials and closes.  The host sees a
\* connection like any other; where the bound leaves no room for it, the host
\* is done with it before connect goes on.
Probed(next) ==
    /\ conn' = IF Len(conn) < MaxConns - 1 THEN Append(conn, NewConn("closed", <<>>)) ELSE conn
    /\ Connecting(next)
StartHost ==
    \E h \in Unstarted :
        /\ \A g \in Unstarted : h <= g
        /\ hosts' = [hosts EXCEPT ![h].pc = "start"]
ProbeUnasked ==                                    \* mutant: spawns without a look
    /\ cn.pc = "off" /\ StartHost /\ Connecting("poll")
    /\ UNCHANGED <<path, conn, op, pending, reqs, got, gaveUp>>
Probe ==
    /\ cn.pc = "off"
    /\ \/ Listens(path) /\ Probed("dial") /\ UNCHANGED hosts
       \/ ~Listens(path) /\ StartHost /\ Connecting("poll") /\ UNCHANGED conn
    /\ UNCHANGED <<path, op, pending, reqs, got, gaveUp>>

\* Until the socket answers.
Poll ==
    /\ cn.pc = "poll"
    /\ Listens(path) /\ Probed("dial")
    /\ UNCHANGED <<path, hosts, op, pending, reqs, got, gaveUp>>

\* hostclient.Dial: the control stream and HostHello.
Dial ==
    /\ cn.pc = "dial"
    /\ \/ /\ Listens(path) /\ Len(conn) < MaxConns
          /\ conn' = Append(conn, NewConn("open", <<Frame("hello", None)>>))
          /\ cn' = [pc |-> "greet", c |-> Len(conn) + 1]
       \/ ~Listens(path) /\ Connecting("off") /\ UNCHANGED conn
    /\ UNCHANGED <<path, hosts, op, pending, reqs, got, gaveUp>>

\* The process ends: its connection closes and its calls are gone with it.
Ends ==
    /\ cn' = [pc |-> "off", c |-> 0]
    /\ conn' = IF cn.c = 0 THEN conn
               ELSE [conn EXCEPT ![cn.c].peer = "closed", ![cn.c].outbox = <<>>]
    /\ op' = [o \in Openers |-> IdleOp]
    /\ pending' = None

\* The handshake reads one frame.  Anything but HostInfo, host_busy for
\* instance, or a closed connection ends connect.
HostClosed(c) == conn[c].srv \in {"done", "dead"} /\ conn[c].outbox = <<>>
Greeted ==
    /\ cn.pc = "greet"
    /\ \/ /\ conn[cn.c].outbox # <<>> /\ Head(conn[cn.c].outbox).type = "info"
          /\ Connecting("run")
          /\ conn' = [conn EXCEPT ![cn.c].outbox = Tail(@)]
          /\ UNCHANGED <<op, pending>>
       \/ conn[cn.c].outbox # <<>> /\ Head(conn[cn.c].outbox).type = "busy" /\ Ends
       \/ HostClosed(cn.c) /\ Ends
    /\ UNCHANGED <<path, hosts, reqs, got, gaveUp>>

\* SIGTERM, a crash or an update of connect, or 10 s of polling.
Stop ==
    /\ cn.pc # "off"
    /\ LET rising == \E h \in Hosts : hosts[h].pc \in {"start", "bind"}
       IN  \/ ~rising /\ UNCHANGED <<reqs, gaveUp>>
           \/ rising /\ reqs = 0 /\ reqs' = MaxReqs /\ gaveUp' = TRUE
    /\ Ends
    /\ UNCHANGED <<path, hosts, got>>

-----------------------------------------------------------------------------
(* connect at work: hostclient.Client. *)

\* A frame is written to the control stream, or to a connection whose host
\* has gone: then it is lost, with or without an error.
Sends(f) ==
    conn' = IF conn[cn.c].srv \in {"done", "dead"} THEN conn
            ELSE [conn EXCEPT ![cn.c].inbox = Append(@, f)]
Request == cn.pc = "run" /\ reqs < MaxReqs /\ reqs' = reqs + 1

\* Open registers the call; with another one waiting it is an error.
OpenRegisterAlways(o, s) ==                        \* mutant: a second Open takes the place
    /\ Request /\ op[o].pc = "idle"
    /\ pending' = o /\ op' = [op EXCEPT ![o] = [pc |-> "send", id |-> s]]
    /\ UNCHANGED <<path, hosts, conn, cn, got, gaveUp>>
OpenRegister(o, s) ==
    /\ Request /\ op[o].pc = "idle"
    /\ \/ pending = None /\ pending' = o /\ op' = [op EXCEPT ![o] = [pc |-> "send", id |-> s]]
       \/ pending # None /\ UNCHANGED <<op, pending>>
    /\ UNCHANGED <<path, hosts, conn, cn, got, gaveUp>>

\* ... and sends OpenSession.  An error clears pendingOpen, whoever waits there.
OpenSend(o) ==
    /\ cn.pc = "run" /\ op[o].pc = "send"
    /\ \/ /\ Sends([type |-> "open", id |-> op[o].id, by |-> <<o, cn.c, op[o].id>>])
          /\ op' = [op EXCEPT ![o].pc = "wait"]
          /\ UNCHANGED pending
       \/ /\ conn[cn.c].srv \in {"done", "dead"}
          /\ pending' = None /\ op' = [op EXCEPT ![o] = IdleOp]
          /\ UNCHANGED conn
    /\ UNCHANGED <<path, hosts, cn, reqs, got, gaveUp>>

\* runControlReader and dispatch.  SessionOpened goes to the waiting call;
\* Error only to the call for its session.
Answers(f) ==
    /\ pending # None
    /\ f.type = "opened" \/ (f.type = "error" /\ f.id = op[pending].id)
ReadFrame ==
    /\ cn.pc = "run" /\ conn[cn.c].outbox # <<>>
    /\ LET f == Head(conn[cn.c].outbox)
       IN  /\ conn' = [conn EXCEPT ![cn.c].outbox = Tail(@)]
           /\ IF Answers(f)
              THEN /\ op' = [op EXCEPT ![pending] = IdleOp]
                   /\ got' = LET mine == <<pending, cn.c, op[pending].id>>
                             IN  IF f.type = "opened" /\ f.by # mine
                                 THEN got \cup {<<mine, f.by>>} ELSE got
                   /\ pending' = None
              ELSE UNCHANGED <<op, pending, got>>
    /\ UNCHANGED <<path, hosts, cn, reqs, gaveUp>>

\* The stream ends: a waiting call gets an error, and connect takes Lost() and
\* exits for its restart.
ReaderEnds ==
    /\ cn.pc = "run" /\ HostClosed(cn.c)
    /\ Ends
    /\ UNCHANGED <<path, hosts, reqs, got, gaveUp>>

-----------------------------------------------------------------------------
(* session-host: the process. *)

\* os.Remove of whatever is at the path, then net.Listen, which fails if a
\* file is there again.
HostRemove(h) ==
    /\ hosts[h].pc = "start"
    /\ path' = 0 /\ hosts' = [hosts EXCEPT ![h].pc = "bind"]
    /\ UNCHANGED <<conn, cn, op, pending, reqs, got, gaveUp>>
HostListen(h) ==
    /\ hosts[h].pc = "bind"
    /\ hosts' = [hosts EXCEPT ![h].pc = IF path = 0 THEN "up" ELSE "gone"]
    /\ path' = IF path = 0 THEN h ELSE path
    /\ UNCHANGED <<conn, cn, op, pending, reqs, got, gaveUp>>

\* SIGTERM: ln.Close removes the file at the path; connections stay until the
\* process ends.
HostTerm(h) ==
    /\ hosts[h].pc = "up"
    /\ path' = 0 /\ hosts' = [hosts EXCEPT ![h].pc = "closing"]
    /\ UNCHANGED <<conn, cn, op, pending, reqs, got, gaveUp>>

\* The end, after FlushAll and Shutdown or by a crash: shells and connections
\* go; a crash leaves the file.
HostEnds(h) ==
    /\ Alive(h)
    /\ hosts' = [hosts EXCEPT ![h] = [@ EXCEPT !.pc = "gone", !.lease = 0, !.sink = 0]]
    /\ conn' = [c \in DOMAIN conn |-> IF conn[c].host = h
                                      THEN [conn[c] EXCEPT !.srv = "dead", !.ctl = "off", !.by = <<>>,
                                                           !.inbox = <<>>]
                                      ELSE conn[c]]
    /\ UNCHANGED <<path, cn, op, pending, reqs, got, gaveUp>>

-----------------------------------------------------------------------------
(* session-host: handleConn, a goroutine per connection. *)

HandlerOnly == UNCHANGED <<path, cn, op, pending, reqs, got, gaveUp>>

\* Accept, and the single-client lease.
Accept(c) ==
    /\ conn[c].srv = "backlog" /\ Listens(conn[c].host)
    /\ IF Served(c).lease = 0
       THEN /\ hosts' = [hosts EXCEPT ![conn[c].host].lease = c]
            /\ conn' = [conn EXCEPT ![c].srv = "greet"]
       ELSE conn' = [conn EXCEPT ![c].srv = "reject"] /\ UNCHANGED hosts
    /\ HandlerOnly

\* Best-effort host_busy in answer to HostHello, then the connection closes.
RejectWaits(c) ==                                  \* mutant: no answer and no close
    /\ conn[c].srv = "reject" /\ Alive(conn[c].host) /\ conn[c].peer = "closed"
    /\ conn' = [conn EXCEPT ![c].srv = "done", ![c].inbox = <<>>]
    /\ UNCHANGED hosts /\ HandlerOnly
Reject(c) ==
    /\ conn[c].srv = "reject" /\ Alive(conn[c].host)
    /\ conn[c].inbox # <<>> \/ conn[c].peer = "closed"
    /\ conn' = [conn EXCEPT ![c].srv = "done", ![c].inbox = <<>>,
                            ![c].outbox = IF conn[c].inbox = <<>> THEN @
                                          ELSE Append(@, Frame("busy", None))]
    /\ UNCHANGED hosts /\ HandlerOnly

\* HostHello is answered with HostInfo, and the snapshot sink takes the
\* connection.
Greet(c) ==
    /\ conn[c].srv = "greet" /\ Alive(conn[c].host) /\ conn[c].inbox # <<>>
    /\ conn' = [conn EXCEPT ![c].srv = "serve", ![c].ctl = "read", ![c].inbox = Tail(@),
                            ![c].outbox = Append(@, Frame("info", None))]
    /\ hosts' = [hosts EXCEPT ![conn[c].host].sink = c]
    /\ HandlerOnly

\* The peer is gone before HostHello, as after a probe: the lease is free.
GreetFails(c) ==
    /\ conn[c].srv = "greet" /\ Alive(conn[c].host) /\ conn[c].inbox = <<>>
    /\ conn[c].peer = "closed"
    /\ conn' = [conn EXCEPT ![c].srv = "done"]
    /\ hosts' = [hosts EXCEPT ![conn[c].host].lease = 0]
    /\ HandlerOnly

\* AcceptStream fails once the peer is gone, and handleConn returns: its
\* deferred calls detach the sink first and release the lease last.  Neither
\* waits for the control goroutine.
UnlockFirst(c) ==                                  \* mutant: the other order
    /\ conn[c].srv = "serve" /\ Alive(conn[c].host) /\ conn[c].peer = "closed"
    /\ conn' = [conn EXCEPT ![c].srv = "unwind"]
    /\ hosts' = [hosts EXCEPT ![conn[c].host].lease = 0]
    /\ HandlerOnly
Detach(c) ==
    /\ conn[c].srv = "serve" /\ Alive(conn[c].host) /\ conn[c].peer = "closed"
    /\ conn' = [conn EXCEPT ![c].srv = "unwind"]
    /\ hosts' = [hosts EXCEPT ![conn[c].host].sink = 0]
    /\ HandlerOnly
Unlock(c) ==
    /\ conn[c].srv = "unwind" /\ Alive(conn[c].host)
    /\ conn' = [conn EXCEPT ![c].srv = "done"]
    /\ hosts' = [hosts EXCEPT ![conn[c].host].lease = 0]
    /\ HandlerOnly

-----------------------------------------------------------------------------
(* session-host: the control goroutine of a connection.  It reads what has *)
(* arrived also after handleConn returned.                                 *)

\* OpenSession, and Manager.Open takes a while.  The other frames (Resize,
\* CloseSession, EnableSnaps) have no answer and change nothing here.
Take(c) ==
    /\ conn[c].ctl = "read" /\ Alive(conn[c].host) /\ conn[c].inbox # <<>>
    /\ conn' = [conn EXCEPT ![c].ctl = "open", ![c].by = Head(conn[c].inbox).by, ![c].inbox = Tail(@)]
    /\ UNCHANGED hosts /\ HandlerOnly

\* Manager.Open returned: the answer goes out on this connection's stream.
Reply(c, f) ==
    IF conn[c].peer = "closed" THEN conn ELSE [conn EXCEPT ![c].outbox = Append(@, f)]
HostOpens(c) ==
    /\ conn[c].ctl = "open" /\ Alive(conn[c].host)
    /\ \E type \in {"opened", "error"} :
          conn' = [Reply(c, [type |-> type, id |-> conn[c].by[3], by |-> conn[c].by])
                      EXCEPT ![c].ctl = "read", ![c].by = <<>>]
    /\ UNCHANGED hosts /\ HandlerOnly

-----------------------------------------------------------------------------
ConnectNext ==
    \/ Probe \/ Poll \/ Dial \/ Greeted \/ Stop
    \/ \E o \in Openers : OpenSend(o) \/ (\E s \in Sessions : OpenRegister(o, s))
    \/ ReadFrame \/ ReaderEnds

HandlerNext(c) ==
    \/ Accept(c) \/ Reject(c) \/ Greet(c) \/ GreetFails(c) \/ Detach(c) \/ Unlock(c)
ControlNext(c) == Take(c) \/ HostOpens(c)

HostNext(h) == HostRemove(h) \/ HostListen(h) \/ HostTerm(h) \/ HostEnds(h)

Next ==
    \/ ConnectNext
    \/ \E h \in Hosts : HostNext(h)
    \/ \E c \in DOMAIN conn : HandlerNext(c) \/ ControlNext(c)

Spec == Init /\ [][Next]_vars

\* Goroutines run, systemd restarts connect, a started process comes up, a
\* closing one ends, and Manager.Open returns.  Nobody has to stop or ask for
\* anything.
ConnectStep == Probe \/ Poll \/ Dial \/ Greeted
Fairness ==
    /\ WF_vars(ConnectStep) /\ WF_vars(ReadFrame \/ ReaderEnds)
    /\ \A o \in Openers : WF_vars(OpenSend(o))
    /\ \A h \in Hosts :
          WF_vars(HostRemove(h) \/ HostListen(h) \/ (hosts[h].pc = "closing" /\ HostEnds(h)))
    /\ \A c \in 1..MaxConns : /\ WF_vars(c \in DOMAIN conn /\ HandlerNext(c))
                              /\ WF_vars(c \in DOMAIN conn /\ ControlNext(c))
FairSpec == Spec /\ Fairness

-----------------------------------------------------------------------------
(* Properties. *)

Holding == {"greet", "serve", "unwind"}

TypeOK ==
    /\ path \in 0..MaxHosts
    /\ \A h \in Hosts : /\ hosts[h].pc \in {"none", "start", "bind", "up", "closing", "gone"}
                        /\ hosts[h].lease \in 0..Len(conn) /\ hosts[h].sink \in 0..Len(conn)
    /\ cn.pc \in {"off", "poll", "dial", "greet", "run"}
    /\ cn.pc \in {"greet", "run"} => cn.c \in DOMAIN conn /\ conn[cn.c].peer = "open"
    /\ pending # None => pending \in Openers /\ op[pending].pc # "idle"

\* At most one connection is served: the lease is held by exactly the
\* connection whose handler is between TryLock and Unlock, and the snapshots go
\* to the one that is served, however fast connect is replaced: the handler of
\* an old connection that is still unwinding never takes the sink or the lease
\* of a new one (server.go:284-432, attach and detach).
ServedHoldsLeaseAndSink ==
    /\ TypeOK
    /\ \A c \in DOMAIN conn :
        /\ Served(c).lease = c <=> conn[c].srv \in Holding
        /\ conn[c].srv = "serve" <=> Served(c).sink = c

\* A successful Open answers the caller's own request: never that of another
\* goroutine, of another session, or of an earlier connect whose Open was still
\* running in the host when the new one took over (client.go:231-262, 340-365).
OpenGetsItsReply == got = {}

\* No host is left behind with its shells: a host that runs is the one behind
\* the socket, where connect finds it again and the hub its instance id.  Only
\* a connect that ended while the host it had started was not up yet can have
\* another host started, which takes the socket away (spawn_unix.go:15-85).
NoHostLeftBehind == ~gaveUp => \A h \in Hosts : hosts[h].pc = "up" => path = h

\* Nobody waits for ever on this link.  An Open has no deadline: the host
\* answers, or the reader ends and with it the call (client.go:197-229).  The
\* handshake has none either: HostInfo, host_busy or the end of the connection
\* comes, also from a host that is shutting down (client.go:108-178).  And a
\* connect or a probe that is gone does not keep the lease, whatever state its
\* handler was in: the next connect is not locked out for good (server.go:284-432).
NobodyWaitsForever ==
    /\ \A o \in Openers : op[o].pc # "idle" ~> op[o].pc = "idle"
    /\ cn.pc = "greet" ~> cn.pc # "greet"
    /\ \A c \in 1..MaxConns :
          (c \in DOMAIN conn /\ Served(c).lease = c /\ conn[c].peer = "closed")
              ~> (c \in DOMAIN conn /\ Served(c).lease # c)
=============================================================================
