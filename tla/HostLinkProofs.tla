--------------------------- MODULE HostLinkProofs ---------------------------
(***************************************************************************)
(* Proofs about HostLink, for any sessions and callers and any number of   *)
(* hosts, connections and requests: one connection is served, a call gets  *)
(* its own reply and no host is left behind.                               *)
(***************************************************************************)
EXTENDS HostLink, SequenceTheorems, TLAPS

-----------------------------------------------------------------------------
(* The inductive invariant, in parts. *)

HostPlaces == {"none", "start", "bind", "up", "closing", "gone"}
Fields     == {"host", "peer", "srv", "ctl", "by", "inbox", "outbox"}
Attached   == cn.pc \in {"greet", "run"}
IsSeq(s)   == Len(s) \in Nat /\ s = [i \in 1..Len(s) |-> s[i]]

\* The session-hosts.
HostInv ==
    /\ path \in Hosts \cup {0}
    /\ hosts \in [Hosts -> [pc : HostPlaces, lease : Nat, sink : Nat]]

\* connect has a connection from the dial to its end.
ProcInv ==
    /\ cn \in [pc : {"off", "poll", "dial", "greet", "run"}, c : Nat]
    /\ Attached <=> cn.c # 0
    /\ Attached => cn.c \in DOMAIN conn /\ conn[cn.c].peer = "open"

\* The connections so far.
ConnInv ==
    /\ IsSeq(conn)
    /\ \A c \in DOMAIN conn : DOMAIN conn[c] = Fields /\ conn[c].host \in Hosts

\* Lease and sink, as in ServedHoldsLeaseAndSink.
LeaseInv ==
    /\ \A h \in Hosts : hosts[h].lease \in 0..Len(conn) /\ hosts[h].sink \in 0..Len(conn)
    /\ \A c \in DOMAIN conn :
          /\ Served(c).lease = c <=> conn[c].srv \in Holding
          /\ conn[c].srv = "serve" <=> Served(c).sink = c

\* One call of Open is under way at most, the one that is registered.
PendingInv ==
    /\ DOMAIN op = Openers
    /\ \A o \in Openers : DOMAIN op[o] = {"pc", "id"} /\ op[o].pc \in {"idle", "send", "wait"}
    /\ \A o \in Openers : op[o].pc # "idle" <=> pending = o
    /\ pending # None => pending \in Openers /\ cn.pc = "run"

\* A host on its way up is alone, and connect is waiting for it.
Rising(h) == hosts[h].pc \in {"start", "bind"}
RisingInv ==
    ~gaveUp =>
        /\ \A h \in Hosts : hosts[h].pc = "up" => path = h
        /\ \A h \in Hosts : Rising(h) =>
              cn.pc = "poll" /\ \A g \in Hosts : g # h => hosts[g].pc # "up" /\ ~Rising(g)

-----------------------------------------------------------------------------
(* What is under way on connect's connection k. *)

\* Before connect has read the answer to its HostHello.
GreetInv ==
    cn.pc = "greet" =>
        LET k == conn[cn.c]
        IN  /\ k.srv \in {"backlog", "greet", "reject", "serve", "done", "dead"}
            /\ k.srv \in {"backlog", "greet", "reject"} =>
                  k.inbox = <<Frame("hello", None)>> /\ k.outbox = <<>>
            /\ k.srv = "serve" =>
                     k.inbox = <<>> /\ k.ctl = "read" /\ k.outbox = <<Frame("info", None)>>
            /\ k.srv # "serve" => k.ctl = "off"
            /\ k.srv \in {"done", "dead"} => k.inbox = <<>>
            /\ k.srv = "done" => k.outbox = <<Frame("busy", None)>>
            /\ k.srv = "dead" =>
                     k.outbox \in {<<>>, <<Frame("info", None)>>, <<Frame("busy", None)>>}

\* The call as the host sees it, and its request and reply.
CallOf(o)  == <<o, cn.c, op[o].id>>
Asks(o)    == [type |-> "open", id |-> op[o].id, by |-> CallOf(o)]
Says(t, o) == [type |-> t, id |-> op[o].id, by |-> CallOf(o)]

\* Afterwards nothing is under way but the one request of the call that waits:
\* on its way to the host, in Manager.Open, answered, or lost with the host.
Calm(k) == k.inbox = <<>> /\ k.ctl # "open"
RunInv ==
    cn.pc = "run" =>
        LET k == conn[cn.c]
        IN  /\ k.srv \in {"serve", "dead"}
            /\ k.srv = "dead" => Calm(k) /\ k.ctl = "off"
            /\ k.srv = "serve" => k.ctl \in {"read", "open"}
            /\ (pending = None \/ op[pending].pc = "send") => Calm(k) /\ k.outbox = <<>>
            /\ (pending # None /\ op[pending].pc = "wait") =>
                  \/ k.inbox = <<Asks(pending)>> /\ k.ctl = "read" /\ k.outbox = <<>>
                  \/ k.inbox = <<>> /\ k.ctl = "open" /\ k.by = CallOf(pending) /\ k.outbox = <<>>
                  \/ Calm(k) /\ k.outbox \in {<<>>, <<Says("opened", pending)>>, <<Says("error", pending)>>}

LinkInv == HostInv /\ ProcInv /\ ConnInv /\ LeaseInv /\ PendingInv /\ RisingInv /\ GreetInv /\ RunInv

-----------------------------------------------------------------------------
(* Sequences. *)

\* A member of Seq(S) is a sequence in the sense of IsSeq.
LEMMA SeqIsSeq ==
    ASSUME NEW S, NEW s \in Seq(S)
    PROVE  IsSeq(s)
<1>1. Len(s) \in Nat /\ s \in [1..Len(s) -> S]
  BY LenProperties
<1> QED BY <1>1 DEF IsSeq

\* What Append does to a sequence.
LEMMA AppendShape ==
    ASSUME NEW s, IsSeq(s), NEW x
    PROVE  /\ IsSeq(Append(s, x)) /\ Len(Append(s, x)) = Len(s) + 1
           /\ \A i \in 1..Len(s) : Append(s, x)[i] = s[i]
           /\ Append(s, x)[Len(s) + 1] = x
<1> DEFINE S == {s[i] : i \in 1..Len(s)} \cup {x}
<1>1. s \in Seq(S)
  BY DEF IsSeq
<1>2. Append(s, x) \in Seq(S)
  BY <1>1
<1>3. /\ Len(Append(s, x)) = Len(s) + 1
      /\ \A i \in 1..Len(s) : Append(s, x)[i] = s[i]
      /\ Append(s, x)[Len(s) + 1] = x
  BY <1>1, AppendProperties, x \in S
<1>4. IsSeq(Append(s, x))
  BY <1>2, SeqIsSeq
<1> QED BY <1>3, <1>4

\* A function on the places of a sequence is a sequence of its length.
LEMMA UpdateShape ==
    ASSUME NEW s, IsSeq(s), NEW t, t = [i \in DOMAIN s |-> t[i]]
    PROVE  IsSeq(t) /\ Len(t) = Len(s)
<1>1. DOMAIN s = 1..Len(s)
  BY DEF IsSeq
<1>2. t \in Seq({t[i] : i \in 1..Len(s)})
  BY <1>1 DEF IsSeq
<1>3. Len(t) = Len(s)
  BY <1>1, <1>2 DEF IsSeq
<1> QED BY <1>1, <1>2, <1>3 DEF IsSeq

\* Sequences of one element.
LEMMA OneShape ==
    ASSUME NEW x
    PROVE  /\ Append(<<>>, x) = <<x>> /\ Head(<<x>>) = x /\ Tail(<<x>>) = <<>> /\ <<x>> # <<>>
OBVIOUS

-----------------------------------------------------------------------------
(* What a step does to the connections. *)

\* The connections are numbered from 1.
LEMMA Numbered ==
    ASSUME ConnInv
    PROVE  DOMAIN conn = 1..Len(conn) /\ Len(conn) \in Nat
  BY DEF ConnInv, IsSeq

\* A dial adds a connection to the host that listens.
LEMMA Grows ==
    ASSUME ConnInv, NEW x, conn' = Append(conn, x)
    PROVE  /\ IsSeq(conn') /\ Len(conn') = Len(conn) + 1 /\ DOMAIN conn' = DOMAIN conn \cup {Len(conn) + 1}
           /\ conn'[Len(conn) + 1] = x /\ \A c \in DOMAIN conn : conn'[c] = conn[c]
<1>1. IsSeq(conn)
  BY DEF ConnInv
<1>2. IsSeq(conn') /\ Len(conn') = Len(conn) + 1 /\ conn'[Len(conn) + 1] = x
      /\ \A c \in 1..Len(conn) : conn'[c] = conn[c]
  BY <1>1, AppendShape
<1> QED BY <1>1, <1>2 DEF IsSeq

\* Every other step changes the connections there are.
Stays == DOMAIN conn' = DOMAIN conn /\ IsSeq(conn') /\ Len(conn') = Len(conn)
\* A step that replaces some connections by others keeps their number.
LEMMA Changes ==
    ASSUME ConnInv, conn' = [c \in DOMAIN conn |-> conn'[c]]
    PROVE  Stays
  BY UpdateShape DEF ConnInv, Stays

Dialled ==
    /\ \E peer \in {"open", "closed"} : \E inbox : conn' = Append(conn, NewConn(peer, inbox))
    /\ Listens(path)
    /\ UNCHANGED hosts

Kept == /\ Stays
        /\ \A c \in DOMAIN conn : DOMAIN conn'[c] = Fields /\ conn'[c].host = conn[c].host

\* A frame of the connection c is taken or added, or its peer goes.
LEMMA Field ==
    ASSUME ConnInv, NEW c \in DOMAIN conn, NEW v, DOMAIN v = Fields, v.host = conn[c].host,
           conn' = [conn EXCEPT ![c] = v]
    PROVE  Kept
<1>1. conn' = [i \in DOMAIN conn |-> conn'[i]]
  OBVIOUS
<1>2. \A i \in DOMAIN conn : DOMAIN conn'[i] = Fields /\ conn'[i].host = conn[i].host
  BY DEF ConnInv
<1> QED BY <1>1, <1>2, Changes DEF Kept

\* A step that leaves the connections alone keeps them.
LEMMA Unchanged ==
    ASSUME ConnInv, UNCHANGED conn
    PROVE  Kept
  BY DEF Kept, Stays, ConnInv

\* connect's end closes its connection and keeps the others.
LEMMA Ended ==
    ASSUME ProcInv, ConnInv, Ends
    PROVE  Kept
<1>1. CASE cn.c = 0
  BY <1>1, Unchanged DEF Ends
<1>2. CASE cn.c # 0
  <2>1. cn.c \in DOMAIN conn
    BY <1>2 DEF ProcInv
  <2>2. conn' = [conn EXCEPT ![cn.c] = [conn[cn.c] EXCEPT !.peer = "closed", !.outbox = <<>>]]
    BY <1>2, <2>1 DEF Ends, ConnInv
  <2> QED BY <2>1, <2>2, Field DEF ConnInv, Fields
<1> QED BY <1>1, <1>2

\* What Manager.Open's return does to its connection.
Answered(k, type) ==
    [k EXCEPT !.ctl = "read", !.by = <<>>,
              !.outbox = IF k.peer = "closed" THEN @
                         ELSE Append(@, [type |-> type, id |-> k.by[3], by |-> k.by])]
\* The answer of Manager.Open goes out on its own connection, unless that closed.
LEMMA Opened ==
    ASSUME ConnInv, NEW c \in DOMAIN conn, HostOpens(c)
    PROVE  \E type \in {"opened", "error"} : conn' = [conn EXCEPT ![c] = Answered(conn[c], type)]
<1>1. PICK type \in {"opened", "error"} :
         conn' = [Reply(c, [type |-> type, id |-> conn[c].by[3], by |-> conn[c].by])
                     EXCEPT ![c].ctl = "read", ![c].by = <<>>]
  BY DEF HostOpens
<1> DEFINE f == [type |-> type, id |-> conn[c].by[3], by |-> conn[c].by]
<1>2. CASE conn[c].peer = "closed"
  <2>1. conn' = [conn EXCEPT ![c] = [conn[c] EXCEPT !.ctl = "read", !.by = <<>>]]
    BY <1>1, <1>2 DEF Reply
  <2>2. [conn[c] EXCEPT !.ctl = "read", !.by = <<>>] = Answered(conn[c], type)
    BY <1>2 DEF Answered, ConnInv, Fields
  <2> QED BY <2>1, <2>2
<1>3. CASE conn[c].peer # "closed"
  <2>1. conn' = [conn EXCEPT ![c] = [conn[c] EXCEPT !.outbox = Append(@, f), !.ctl = "read", !.by = <<>>]]
    BY <1>1, <1>3 DEF Reply
  <2>2. [conn[c] EXCEPT !.outbox = Append(@, f), !.ctl = "read", !.by = <<>>] = Answered(conn[c], type)
    BY <1>3 DEF Answered, ConnInv, Fields
  <2> QED BY <2>1, <2>2
<1> QED BY <1>2, <1>3

\* Only a dial and a probe add connections, and the others stay the host's.
LEMMA ConnStep ==
    ASSUME ProcInv, ConnInv, Next
    PROVE  Kept \/ Dialled
<1> USE DEF ProcInv, ConnInv, Fields, HandlerOnly, Attached
<1> SUFFICES ASSUME ~Dialled PROVE Kept
  OBVIOUS
<1>1. CASE Probe \/ Poll \/ Dial
  <2>1. UNCHANGED conn
    BY <1>1 DEF Probe, Poll, Dial, Probed, Dialled
  <2> QED BY <2>1, Unchanged
<1>2. CASE \E o \in Openers, s \in Sessions : OpenRegister(o, s)
  BY Unchanged, <1>2 DEF OpenRegister
<1>3. CASE \E h \in Hosts : HostRemove(h) \/ HostListen(h) \/ HostTerm(h)
  BY Unchanged, <1>3 DEF HostRemove, HostListen, HostTerm
<1>4. ASSUME Greeted PROVE Kept
  <2>1. CASE conn' = [conn EXCEPT ![cn.c].outbox = Tail(@)]
    <3>1. conn' = [conn EXCEPT ![cn.c] = [conn[cn.c] EXCEPT !.outbox = Tail(@)]]
      BY <2>1
    <3> QED BY <1>4, <3>1, Field DEF Greeted
  <2>2. CASE Ends
    BY <2>2, Ended
  <2> QED BY <1>4, <2>1, <2>2 DEF Greeted
<1>5. ASSUME Stop PROVE Kept
  BY <1>5, Ended DEF Stop
<1>6. ASSUME NEW o \in Openers, OpenSend(o) PROVE Kept
  <2> DEFINE f == [type |-> "open", id |-> op[o].id, by |-> <<o, cn.c, op[o].id>>]
  <2>1. CASE conn' = [conn EXCEPT ![cn.c].inbox = Append(@, f)]
    <3>1. conn' = [conn EXCEPT ![cn.c] = [conn[cn.c] EXCEPT !.inbox = Append(@, f)]]
      BY <2>1
    <3> QED BY <1>6, <3>1, Field DEF OpenSend
  <2> QED BY <1>6, <2>1, Unchanged DEF OpenSend, Sends
<1>7. ASSUME ReadFrame PROVE Kept
  <2>1. conn' = [i \in DOMAIN conn |-> conn'[i]]
    BY <1>7 DEF ReadFrame
  <2>2. \A i \in DOMAIN conn : DOMAIN conn'[i] = Fields /\ conn'[i].host = conn[i].host
    BY <1>7 DEF ReadFrame
  <2> QED BY <2>1, <2>2, Changes DEF Kept
<1>8. ASSUME ReaderEnds PROVE Kept
  BY <1>8, Ended DEF ReaderEnds
<1>9. ASSUME NEW h \in Hosts, HostEnds(h) PROVE Kept
  <2>1. conn' = [i \in DOMAIN conn |-> conn'[i]]
    BY <1>9 DEF HostEnds
  <2>2. \A i \in DOMAIN conn : DOMAIN conn'[i] = Fields /\ conn'[i].host = conn[i].host
    BY <1>9 DEF HostEnds
  <2> QED BY <2>1, <2>2, Changes DEF Kept
<1>10. ASSUME NEW c \in DOMAIN conn, Accept(c) PROVE Kept
  <2>1. conn' = [i \in DOMAIN conn |-> conn'[i]]
    BY <1>10 DEF Accept
  <2>2. \A i \in DOMAIN conn : DOMAIN conn'[i] = Fields /\ conn'[i].host = conn[i].host
    BY <1>10 DEF Accept
  <2> QED BY <2>1, <2>2, Changes DEF Kept
<1>11. ASSUME NEW c \in DOMAIN conn, Reject(c) PROVE Kept
  <2>1. conn' = [i \in DOMAIN conn |-> conn'[i]]
    BY <1>11 DEF Reject
  <2>2. \A i \in DOMAIN conn : DOMAIN conn'[i] = Fields /\ conn'[i].host = conn[i].host
    BY <1>11 DEF Reject
  <2> QED BY <2>1, <2>2, Changes DEF Kept
<1>12. ASSUME NEW c \in DOMAIN conn, Greet(c) PROVE Kept
  <2>1. conn' = [i \in DOMAIN conn |-> conn'[i]]
    BY <1>12 DEF Greet
  <2>2. \A i \in DOMAIN conn : DOMAIN conn'[i] = Fields /\ conn'[i].host = conn[i].host
    BY <1>12 DEF Greet
  <2> QED BY <2>1, <2>2, Changes DEF Kept
<1>13. ASSUME NEW c \in DOMAIN conn, GreetFails(c) PROVE Kept
  <2>1. conn' = [i \in DOMAIN conn |-> conn'[i]]
    BY <1>13 DEF GreetFails
  <2>2. \A i \in DOMAIN conn : DOMAIN conn'[i] = Fields /\ conn'[i].host = conn[i].host
    BY <1>13 DEF GreetFails
  <2> QED BY <2>1, <2>2, Changes DEF Kept
<1>14. ASSUME NEW c \in DOMAIN conn, Detach(c) PROVE Kept
  <2>1. conn' = [i \in DOMAIN conn |-> conn'[i]]
    BY <1>14 DEF Detach
  <2>2. \A i \in DOMAIN conn : DOMAIN conn'[i] = Fields /\ conn'[i].host = conn[i].host
    BY <1>14 DEF Detach
  <2> QED BY <2>1, <2>2, Changes DEF Kept
<1>15. ASSUME NEW c \in DOMAIN conn, Unlock(c) PROVE Kept
  <2>1. conn' = [i \in DOMAIN conn |-> conn'[i]]
    BY <1>15 DEF Unlock
  <2>2. \A i \in DOMAIN conn : DOMAIN conn'[i] = Fields /\ conn'[i].host = conn[i].host
    BY <1>15 DEF Unlock
  <2> QED BY <2>1, <2>2, Changes DEF Kept
<1>16. ASSUME NEW c \in DOMAIN conn, Take(c) PROVE Kept
  <2>1. conn' = [i \in DOMAIN conn |-> conn'[i]]
    BY <1>16 DEF Take
  <2>2. \A i \in DOMAIN conn : DOMAIN conn'[i] = Fields /\ conn'[i].host = conn[i].host
    BY <1>16 DEF Take
  <2> QED BY <2>1, <2>2, Changes DEF Kept
<1>17. ASSUME NEW c \in DOMAIN conn, HostOpens(c) PROVE Kept
  <2>1. PICK type \in {"opened", "error"} : conn' = [conn EXCEPT ![c] = Answered(conn[c], type)]
    BY <1>17, Opened
  <2> QED BY <2>1, Field DEF Answered
<1> QED
  BY <1>1, <1>2, <1>3, <1>4, <1>5, <1>6, <1>7, <1>8, <1>9, <1>10, <1>11, <1>12, <1>13, <1>14,
     <1>15, <1>16, <1>17
     DEF Next, ConnectNext, HandlerNext, ControlNext, HostNext

\* What the end of a host does to its connections, its lease and its sink.
LEMMA HostEndsAt ==
    ASSUME HostInv, ConnInv, NEW h \in Hosts, HostEnds(h)
    PROVE  /\ \A i \in DOMAIN conn : conn'[i].srv = IF conn[i].host = h THEN "dead" ELSE conn[i].srv
           /\ \A g \in Hosts : hosts'[g].lease = IF g = h THEN 0 ELSE hosts[g].lease
           /\ \A g \in Hosts : hosts'[g].sink = IF g = h THEN 0 ELSE hosts[g].sink
<1>1. \A i \in DOMAIN conn : conn'[i] = IF conn[i].host = h
          THEN [conn[i] EXCEPT !.srv = "dead", !.ctl = "off", !.by = <<>>, !.inbox = <<>>] ELSE conn[i]
  BY DEF HostEnds
<1>2. \A i \in DOMAIN conn : conn'[i].srv = IF conn[i].host = h THEN "dead" ELSE conn[i].srv
  BY <1>1 DEF ConnInv, Fields
<1>3. hosts' = [hosts EXCEPT ![h] = [@ EXCEPT !.pc = "gone", !.lease = 0, !.sink = 0]]
  BY DEF HostEnds
<1> QED BY <1>2, <1>3 DEF HostInv

\* What an accepted connection gets.
LEMMA AcceptedBy ==
    ASSUME HostInv, ConnInv, NEW c \in DOMAIN conn, Accept(c)
    PROVE  /\ conn[c].srv = "backlog"
           /\ \A i \in DOMAIN conn \ {c} : conn'[i] = conn[i]
           /\ \A g \in Hosts : hosts'[g].sink = hosts[g].sink
           /\ hosts[conn[c].host].lease = 0 =>
                 /\ conn'[c].srv = "greet"
                 /\ \A g \in Hosts : hosts'[g].lease = IF g = conn[c].host THEN c ELSE hosts[g].lease
           /\ hosts[conn[c].host].lease # 0 =>
                 conn'[c].srv = "reject" /\ \A g \in Hosts : hosts'[g].lease = hosts[g].lease
<1>1. conn[c].srv = "backlog" /\ conn[c].host \in Hosts /\ DOMAIN conn[c] = Fields
  BY DEF Accept, ConnInv
<1>2. CASE hosts[conn[c].host].lease = 0
  <2>1. hosts' = [hosts EXCEPT ![conn[c].host].lease = c] /\ conn' = [conn EXCEPT ![c].srv = "greet"]
    BY <1>2 DEF Accept, Served
  <2>2. \A g \in Hosts : /\ hosts'[g].lease = IF g = conn[c].host THEN c ELSE hosts[g].lease
                         /\ hosts'[g].sink = hosts[g].sink
    BY <1>1, <2>1 DEF HostInv
  <2> QED BY <1>1, <1>2, <2>1, <2>2 DEF Fields
<1>3. CASE hosts[conn[c].host].lease # 0
  <2>1. UNCHANGED hosts /\ conn' = [conn EXCEPT ![c].srv = "reject"]
    BY <1>3 DEF Accept, Served
  <2> QED BY <1>1, <1>3, <2>1 DEF Fields
<1> QED BY <1>2, <1>3

-----------------------------------------------------------------------------
(* One lemma per part, one step per action. *)

\* The hosts keep their types.
LEMMA HostInvStep ==
    ASSUME LinkInv, Next
    PROVE  HostInv'
<1>0. DOMAIN conn = 1..Len(conn) /\ Len(conn) \in Nat /\ \A c \in DOMAIN conn : conn[c].host \in Hosts
  BY Numbered DEF LinkInv, ConnInv
<1> USE HostLinkAssumption DEF LinkInv, HostInv, HostPlaces, HandlerOnly
<1>1. ASSUME Probe PROVE HostInv'
  <2>1. CASE Listens(path) /\ Probed("dial") /\ UNCHANGED hosts
    BY <1>1, <2>1 DEF Probe
  <2>2. CASE StartHost
    BY <1>1, <2>2 DEF Probe, StartHost, Unstarted
  <2> QED BY <1>1, <2>1, <2>2 DEF Probe
<1>2. ASSUME Poll PROVE HostInv'
  BY <1>2 DEF Poll, Probed, NewConn, Connecting, Listens
<1>3. ASSUME Dial PROVE HostInv'
  BY <1>3 DEF Dial, NewConn, Connecting, Listens
<1>4. ASSUME Greeted PROVE HostInv'
  BY <1>4 DEF Greeted, Ends, Connecting, IdleOp, HostClosed
<1>5. ASSUME Stop PROVE HostInv'
  BY <1>5 DEF Stop, Ends, IdleOp
<1>6. ASSUME NEW o \in Openers, OpenSend(o) PROVE HostInv'
  BY <1>6 DEF OpenSend, Sends, IdleOp
<1>7. ASSUME NEW o \in Openers, NEW s \in Sessions, OpenRegister(o, s) PROVE HostInv'
  BY <1>7 DEF OpenRegister, Request
<1>8. ASSUME ReadFrame PROVE HostInv'
  BY <1>8 DEF ReadFrame, Answers, IdleOp
<1>9. ASSUME ReaderEnds PROVE HostInv'
  BY <1>9 DEF ReaderEnds, Ends, IdleOp, HostClosed
<1>10. ASSUME NEW h \in Hosts, HostRemove(h) PROVE HostInv'
  BY <1>10 DEF HostRemove
<1>11. ASSUME NEW h \in Hosts, HostListen(h) PROVE HostInv'
  BY <1>11 DEF HostListen
<1>12. ASSUME NEW h \in Hosts, HostTerm(h) PROVE HostInv'
  BY <1>12 DEF HostTerm
<1>13. ASSUME NEW h \in Hosts, HostEnds(h) PROVE HostInv'
  BY <1>13 DEF HostEnds, Alive
<1>14. ASSUME NEW c \in DOMAIN conn, Accept(c) PROVE HostInv'
  <2>1. conn[c].host \in Hosts /\ c \in Nat
    BY <1>0
  <2>2. CASE hosts' = [hosts EXCEPT ![conn[c].host].lease = c]
    BY <1>14, <2>1, <2>2 DEF Accept
  <2> QED BY <1>14, <2>2 DEF Accept
<1>15. ASSUME NEW c \in DOMAIN conn, Reject(c) PROVE HostInv'
  BY <1>15 DEF Reject
<1>16. ASSUME NEW c \in DOMAIN conn, Greet(c) PROVE HostInv'
  <2>1. conn[c].host \in Hosts /\ c \in Nat
    BY <1>0
  <2> QED BY <1>16, <2>1 DEF Greet
<1>17. ASSUME NEW c \in DOMAIN conn, GreetFails(c) PROVE HostInv'
  BY <1>17 DEF GreetFails
<1>18. ASSUME NEW c \in DOMAIN conn, Detach(c) PROVE HostInv'
  BY <1>18 DEF Detach
<1>19. ASSUME NEW c \in DOMAIN conn, Unlock(c) PROVE HostInv'
  BY <1>19 DEF Unlock
<1>20. ASSUME NEW c \in DOMAIN conn, Take(c) PROVE HostInv'
  BY <1>20 DEF Take
<1>21. ASSUME NEW c \in DOMAIN conn, HostOpens(c) PROVE HostInv'
  BY <1>21 DEF HostOpens, Reply
<1> QED
  BY <1>1, <1>2, <1>3, <1>4, <1>5, <1>6, <1>7, <1>8, <1>9, <1>10, <1>11, <1>12, <1>13, <1>14,
     <1>15, <1>16, <1>17, <1>18, <1>19, <1>20, <1>21
     DEF Next, ConnectNext, HandlerNext, ControlNext, HostNext

\* Only connect's own end closes its connection.
LEMMA ProcInvStep ==
    ASSUME LinkInv, Next
    PROVE  ProcInv'
<1>0. DOMAIN conn = 1..Len(conn) /\ Len(conn) \in Nat /\ ConnInv
  BY Numbered DEF LinkInv
<1>E. ASSUME Ends PROVE ProcInv'
  BY <1>E DEF Ends, ProcInv, Attached
<1> USE HostLinkAssumption DEF LinkInv, ProcInv, Attached, ConnInv, Fields, HandlerOnly
<1>1. ASSUME Probe PROVE ProcInv'
  <2>1. CASE Listens(path) /\ Probed("dial") /\ UNCHANGED hosts
    BY <1>1, <2>1 DEF Probe, Probed, Connecting
  <2>2. CASE StartHost /\ Connecting("poll") /\ UNCHANGED conn
    BY <1>1, <2>2 DEF Probe, Connecting
  <2> QED BY <1>1, <2>1, <2>2 DEF Probe
<1>2. ASSUME Poll PROVE ProcInv'
  BY <1>2 DEF Poll, Probed, NewConn, Connecting, Listens
<1>3. ASSUME Dial PROVE ProcInv'
  BY <1>3 DEF Dial, NewConn, Connecting, Listens
<1>4. ASSUME Greeted PROVE ProcInv'
  BY <1>4 DEF Greeted, Ends, Connecting, IdleOp, HostClosed
<1>5. ASSUME Stop PROVE ProcInv'
  BY <1>5 DEF Stop, Ends, IdleOp
<1>6. ASSUME NEW o \in Openers, OpenSend(o) PROVE ProcInv'
  BY <1>6 DEF OpenSend, Sends, IdleOp
<1>7. ASSUME NEW o \in Openers, NEW s \in Sessions, OpenRegister(o, s) PROVE ProcInv'
  BY <1>7 DEF OpenRegister, Request
<1>8. ASSUME ReadFrame PROVE ProcInv'
  BY <1>8 DEF ReadFrame, Answers, IdleOp
<1>9. ASSUME ReaderEnds PROVE ProcInv'
  BY <1>9 DEF ReaderEnds, Ends, IdleOp, HostClosed
<1>10. ASSUME NEW h \in Hosts, HostRemove(h) PROVE ProcInv'
  BY <1>10 DEF HostRemove
<1>11. ASSUME NEW h \in Hosts, HostListen(h) PROVE ProcInv'
  BY <1>11 DEF HostListen
<1>12. ASSUME NEW h \in Hosts, HostTerm(h) PROVE ProcInv'
  BY <1>12 DEF HostTerm
<1>13. ASSUME NEW h \in Hosts, HostEnds(h) PROVE ProcInv'
  BY <1>13 DEF HostEnds, Alive
<1>14. ASSUME NEW c \in DOMAIN conn, Accept(c) PROVE ProcInv'
  BY <1>14 DEF Accept, Listens, Served
<1>15. ASSUME NEW c \in DOMAIN conn, Reject(c) PROVE ProcInv'
  BY <1>15 DEF Reject
<1>16. ASSUME NEW c \in DOMAIN conn, Greet(c) PROVE ProcInv'
  BY <1>16 DEF Greet
<1>17. ASSUME NEW c \in DOMAIN conn, GreetFails(c) PROVE ProcInv'
  BY <1>17 DEF GreetFails
<1>18. ASSUME NEW c \in DOMAIN conn, Detach(c) PROVE ProcInv'
  BY <1>18 DEF Detach
<1>19. ASSUME NEW c \in DOMAIN conn, Unlock(c) PROVE ProcInv'
  BY <1>19 DEF Unlock
<1>20. ASSUME NEW c \in DOMAIN conn, Take(c) PROVE ProcInv'
  BY <1>20 DEF Take
<1>21. ASSUME NEW c \in DOMAIN conn, HostOpens(c) PROVE ProcInv'
  <2>1. PICK type \in {"opened", "error"} : conn' = [conn EXCEPT ![c] = Answered(conn[c], type)]
    BY <1>21, Opened, <1>0
  <2> QED BY <1>21, <2>1 DEF HostOpens, Answered
<1> QED
  BY <1>1, <1>2, <1>3, <1>4, <1>5, <1>6, <1>7, <1>8, <1>9, <1>10, <1>11, <1>12, <1>13, <1>14,
     <1>15, <1>16, <1>17, <1>18, <1>19, <1>20, <1>21
     DEF Next, ConnectNext, HandlerNext, ControlNext, HostNext

\* The connections stay a sequence of connections, each to one host for good.
LEMMA ConnInvStep ==
    ASSUME LinkInv, Next
    PROVE  ConnInv'
<1>1. CASE Kept
  BY <1>1 DEF LinkInv, ConnInv, Kept, Stays
<1>2. CASE Dialled
  <2>1. PICK peer, inbox :
          /\ peer \in {"open", "closed"} /\ Listens(path)
          /\ conn' = Append(conn, NewConn(peer, inbox))
    BY <1>2 DEF Dialled
  <2>2. DOMAIN NewConn(peer, inbox) = Fields /\ NewConn(peer, inbox).host \in Hosts
    BY <2>1 DEF NewConn, Fields, Listens, LinkInv, HostInv
  <2> QED BY <2>1, <2>2, Grows DEF LinkInv, ConnInv
<1> QED BY <1>1, <1>2, ConnStep DEF LinkInv

\* The lease goes to one handler at a time, and the sink to that one.
LEMMA LeaseInvStep ==
    ASSUME LinkInv, Next
    PROVE  LeaseInv'
<1>0. DOMAIN conn = 1..Len(conn) /\ Len(conn) \in Nat /\ ConnInv /\ HostInv /\ LeaseInv
  BY Numbered DEF LinkInv
<1>a. ASSUME Dialled PROVE LeaseInv'
  <2>1. PICK peer, inbox :
          /\ peer \in {"open", "closed"} /\ Listens(path)
          /\ conn' = Append(conn, NewConn(peer, inbox))
    BY <1>a DEF Dialled
  <2> DEFINE new == Len(conn) + 1
  <2>2. /\ Len(conn') = Len(conn) + 1 /\ DOMAIN conn' = DOMAIN conn \cup {new}
        /\ conn'[new].srv = "backlog" /\ conn'[new].host \in Hosts
        /\ \A c \in DOMAIN conn : conn'[c] = conn[c]
    BY <1>0, <2>1, Grows DEF NewConn, Listens, HostInv
  <2>3. new \notin DOMAIN conn /\ \A h \in Hosts : hosts[h].lease # new /\ hosts[h].sink # new
    BY <1>0 DEF LeaseInv
  <2>4. \A h \in Hosts : hosts'[h].lease \in 0..Len(conn') /\ hosts'[h].sink \in 0..Len(conn')
    BY <1>0, <1>a, <2>2 DEF LeaseInv, Dialled
  <2> QED BY <1>0, <1>a, <2>2, <2>3, <2>4 DEF LeaseInv, Served, Holding, Dialled
<1> SUFFICES ASSUME Kept PROVE LeaseInv'
  BY <1>a, ConnStep DEF LinkInv
<1>b. ASSUME \A c \in DOMAIN conn : conn'[c].srv = conn[c].srv,
             \A h \in Hosts : hosts'[h].lease = hosts[h].lease /\ hosts'[h].sink = hosts[h].sink
      PROVE  LeaseInv'
  BY <1>0, <1>b DEF LeaseInv, Kept, Stays, Served, Holding, ConnInv
<1> USE HostLinkAssumption DEF LinkInv, HostInv, HostPlaces, ProcInv, Attached, ConnInv, Fields,
        LeaseInv, Served, Holding, HandlerOnly
<1>1. ASSUME Probe PROVE LeaseInv'
  <2>1. UNCHANGED conn
    <3>1. ASSUME NEW x, conn' = Append(conn, x) PROVE FALSE
      BY <1>0, <3>1, Grows DEF Kept, Stays
    <3> QED BY <1>1, <3>1 DEF Probe, Probed
  <2>2. \A h \in Hosts : hosts'[h].lease = hosts[h].lease /\ hosts'[h].sink = hosts[h].sink
    BY <1>1 DEF Probe, StartHost, Unstarted
  <2> QED BY <1>b, <2>1, <2>2
<1>2. ASSUME Poll PROVE LeaseInv'
  <2>1. UNCHANGED conn
    <3>1. ASSUME NEW x, conn' = Append(conn, x) PROVE FALSE
      BY <1>0, <3>1, Grows DEF Kept, Stays
    <3> QED BY <1>2, <3>1 DEF Poll, Probed
  <2>2. \A h \in Hosts : hosts'[h].lease = hosts[h].lease /\ hosts'[h].sink = hosts[h].sink
    BY <1>2 DEF Poll, StartHost, Unstarted
  <2> QED BY <1>b, <2>1, <2>2
<1>3. ASSUME Dial PROVE LeaseInv'
  <2>1. UNCHANGED conn
    <3>1. ASSUME NEW x, conn' = Append(conn, x) PROVE FALSE
      BY <1>0, <3>1, Grows DEF Kept, Stays
    <3> QED BY <1>3, <3>1 DEF Dial, Probed
  <2>2. \A h \in Hosts : hosts'[h].lease = hosts[h].lease /\ hosts'[h].sink = hosts[h].sink
    BY <1>3 DEF Dial, StartHost, Unstarted
  <2> QED BY <1>b, <2>1, <2>2
<1>4. ASSUME Greeted PROVE LeaseInv'
  <2>1. UNCHANGED hosts
    BY <1>4 DEF Greeted
  <2>2. CASE conn' = [conn EXCEPT ![cn.c].outbox = Tail(@)]
    <3>1. \A i \in DOMAIN conn : conn'[i].srv = conn[i].srv
      BY <2>2
    <3> QED BY <1>b, <2>1, <3>1
  <2>3. CASE Ends
    <3>1. \A i \in DOMAIN conn : conn'[i].srv = conn[i].srv
      BY <2>3 DEF Ends
    <3> QED BY <1>b, <2>1, <3>1
  <2> QED BY <1>4, <2>2, <2>3 DEF Greeted
<1>5. ASSUME Stop PROVE LeaseInv'
  <2>1. \A i \in DOMAIN conn : conn'[i].srv = conn[i].srv
    BY <1>5 DEF Stop, Ends
  <2>2. UNCHANGED hosts
    BY <1>5 DEF Stop, Ends
  <2> QED BY <1>b, <2>1, <2>2
<1>6. ASSUME NEW o \in Openers, OpenSend(o) PROVE LeaseInv'
  <2>1. \A i \in DOMAIN conn : conn'[i].srv = conn[i].srv
    BY <1>6, SMTT(30) DEF OpenSend, Sends
  <2>2. UNCHANGED hosts
    BY <1>6 DEF OpenSend, Sends
  <2> QED BY <1>b, <2>1, <2>2
<1>7. ASSUME NEW o \in Openers, NEW s \in Sessions, OpenRegister(o, s) PROVE LeaseInv'
  BY <1>7, <1>b DEF OpenRegister, Request
<1>8. ASSUME ReadFrame PROVE LeaseInv'
  <2>1. \A i \in DOMAIN conn : conn'[i].srv = conn[i].srv
    BY <1>8 DEF ReadFrame
  <2>2. UNCHANGED hosts
    BY <1>8 DEF ReadFrame
  <2> QED BY <1>b, <2>1, <2>2
<1>9. ASSUME ReaderEnds PROVE LeaseInv'
  <2>1. \A i \in DOMAIN conn : conn'[i].srv = conn[i].srv
    BY <1>9 DEF ReaderEnds, Ends
  <2>2. UNCHANGED hosts
    BY <1>9 DEF ReaderEnds, Ends
  <2> QED BY <1>b, <2>1, <2>2
<1>10. ASSUME NEW h \in Hosts, HostRemove(h) PROVE LeaseInv'
  <2>1. \A g \in Hosts : hosts'[g].lease = hosts[g].lease /\ hosts'[g].sink = hosts[g].sink
    BY <1>10 DEF HostRemove
  <2> QED BY <1>10, <1>b, <2>1 DEF HostRemove
<1>11. ASSUME NEW h \in Hosts, HostListen(h) PROVE LeaseInv'
  <2>1. \A g \in Hosts : hosts'[g].lease = hosts[g].lease /\ hosts'[g].sink = hosts[g].sink
    BY <1>11 DEF HostListen
  <2> QED BY <1>11, <1>b, <2>1 DEF HostListen
<1>12. ASSUME NEW h \in Hosts, HostTerm(h) PROVE LeaseInv'
  <2>1. \A g \in Hosts : hosts'[g].lease = hosts[g].lease /\ hosts'[g].sink = hosts[g].sink
    BY <1>12 DEF HostTerm
  <2> QED BY <1>12, <1>b, <2>1 DEF HostTerm
<1>13. ASSUME NEW h \in Hosts, HostEnds(h) PROVE LeaseInv'
  <2>1. /\ \A i \in DOMAIN conn : conn'[i].srv = IF conn[i].host = h THEN "dead" ELSE conn[i].srv
        /\ \A g \in Hosts : hosts'[g].lease = IF g = h THEN 0 ELSE hosts[g].lease
        /\ \A g \in Hosts : hosts'[g].sink = IF g = h THEN 0 ELSE hosts[g].sink
    BY <1>0, <1>13, HostEndsAt
  <2> HIDE DEF LinkInv, HostInv, ProcInv
  <2> QED BY <1>0, <2>1 DEF Kept, Stays
<1>14. ASSUME NEW c \in DOMAIN conn, Accept(c) PROVE LeaseInv'
  <2> HIDE DEF LinkInv, HostInv, ProcInv
  <2>0. DOMAIN conn' = DOMAIN conn /\ \A i \in DOMAIN conn : conn'[i].host = conn[i].host /\ conn[i].host \in Hosts
    BY <1>0 DEF Kept, Stays
  <2>1. /\ conn[c].srv = "backlog" /\ \A i \in DOMAIN conn \ {c} : conn'[i] = conn[i]
        /\ \A g \in Hosts : hosts'[g].sink = hosts[g].sink
    BY <1>0, <1>14, AcceptedBy
  <2>2. CASE hosts[conn[c].host].lease = 0
    <3>1. conn'[c].srv = "greet" /\ \A g \in Hosts : hosts'[g].lease = IF g = conn[c].host THEN c ELSE hosts[g].lease
      BY <1>0, <1>14, <2>2, AcceptedBy
    <3>2. \A g \in Hosts : hosts'[g].lease \in 0..Len(conn') /\ hosts'[g].sink \in 0..Len(conn')
      BY <1>0, <2>1, <3>1 DEF Kept, Stays
    <3>3. ASSUME NEW i \in DOMAIN conn
          PROVE  /\ hosts'[conn[i].host].lease = i <=> conn'[i].srv \in Holding
                 /\ conn'[i].srv = "serve" <=> hosts'[conn[i].host].sink = i
      BY <1>0, <2>0, <2>1, <2>2, <3>1
    <3> QED BY <2>0, <3>2, <3>3
  <2>3. CASE hosts[conn[c].host].lease # 0
    <3>1. conn'[c].srv = "reject" /\ \A g \in Hosts : hosts'[g].lease = hosts[g].lease
      BY <1>0, <1>14, <2>3, AcceptedBy
    <3>2. \A g \in Hosts : hosts'[g].lease \in 0..Len(conn') /\ hosts'[g].sink \in 0..Len(conn')
      BY <1>0, <2>1, <3>1 DEF Kept, Stays
    <3>3. ASSUME NEW i \in DOMAIN conn
          PROVE  /\ hosts'[conn[i].host].lease = i <=> conn'[i].srv \in Holding
                 /\ conn'[i].srv = "serve" <=> hosts'[conn[i].host].sink = i
      BY <1>0, <2>0, <2>1, <3>1
    <3> QED BY <2>0, <3>2, <3>3
  <2> QED BY <2>2, <2>3
<1>15. ASSUME NEW c \in DOMAIN conn, Reject(c) PROVE LeaseInv'
  BY <1>15, <1>b DEF Reject
<1>16. ASSUME NEW c \in DOMAIN conn, Greet(c) PROVE LeaseInv'
  BY <1>16, <1>b DEF Greet
<1>17. ASSUME NEW c \in DOMAIN conn, GreetFails(c) PROVE LeaseInv'
  BY <1>17, <1>b DEF GreetFails
<1>18. ASSUME NEW c \in DOMAIN conn, Detach(c) PROVE LeaseInv'
  BY <1>18, <1>b DEF Detach
<1>19. ASSUME NEW c \in DOMAIN conn, Unlock(c) PROVE LeaseInv'
  BY <1>19, <1>b DEF Unlock
<1>20. ASSUME NEW c \in DOMAIN conn, Take(c) PROVE LeaseInv'
  <2>1. \A i \in DOMAIN conn : conn'[i].srv = conn[i].srv
    BY <1>20 DEF Take
  <2>2. UNCHANGED hosts
    BY <1>20 DEF Take
  <2> QED BY <1>b, <2>1, <2>2
<1>21. ASSUME NEW c \in DOMAIN conn, HostOpens(c) PROVE LeaseInv'
  <2>1. PICK type \in {"opened", "error"} : conn' = [conn EXCEPT ![c] = Answered(conn[c], type)]
    BY <1>21, <1>0, Opened
  <2>2. \A i \in DOMAIN conn : conn'[i].srv = conn[i].srv
    BY <2>1 DEF Answered
  <2>3. UNCHANGED hosts
    BY <1>21 DEF HostOpens
  <2> QED BY <1>b, <2>2, <2>3
<1> QED
  BY <1>1, <1>2, <1>3, <1>4, <1>5, <1>6, <1>7, <1>8, <1>9, <1>10, <1>11, <1>12, <1>13, <1>14,
     <1>15, <1>16, <1>17, <1>18, <1>19, <1>20, <1>21
     DEF Next, ConnectNext, HandlerNext, ControlNext, HostNext

\* A second Open is refused while one waits.
LEMMA PendingInvStep ==
    ASSUME LinkInv, Next
    PROVE  PendingInv'
<1> USE HostLinkAssumption DEF LinkInv, PendingInv, None, ProcInv, Attached, HandlerOnly
<1>1. ASSUME Probe PROVE PendingInv'
  BY <1>1 DEF Probe, Probed, StartHost, Unstarted, NewConn, Connecting, Listens
<1>2. ASSUME Poll PROVE PendingInv'
  BY <1>2 DEF Poll, Probed, NewConn, Connecting, Listens
<1>3. ASSUME Dial PROVE PendingInv'
  BY <1>3 DEF Dial, NewConn, Connecting, Listens
<1>4. ASSUME Greeted PROVE PendingInv'
  BY <1>4 DEF Greeted, Ends, Connecting, IdleOp, HostClosed
<1>5. ASSUME Stop PROVE PendingInv'
  BY <1>5 DEF Stop, Ends, IdleOp
<1>6. ASSUME NEW o \in Openers, OpenSend(o) PROVE PendingInv'
  BY <1>6 DEF OpenSend, Sends, IdleOp
<1>7. ASSUME NEW o \in Openers, NEW s \in Sessions, OpenRegister(o, s) PROVE PendingInv'
  BY <1>7 DEF OpenRegister, Request
<1>8. ASSUME ReadFrame PROVE PendingInv'
  BY <1>8 DEF ReadFrame, Answers, IdleOp
<1>9. ASSUME ReaderEnds PROVE PendingInv'
  BY <1>9 DEF ReaderEnds, Ends, IdleOp, HostClosed
<1>10. ASSUME NEW h \in Hosts, HostRemove(h) PROVE PendingInv'
  BY <1>10 DEF HostRemove
<1>11. ASSUME NEW h \in Hosts, HostListen(h) PROVE PendingInv'
  BY <1>11 DEF HostListen
<1>12. ASSUME NEW h \in Hosts, HostTerm(h) PROVE PendingInv'
  BY <1>12 DEF HostTerm
<1>13. ASSUME NEW h \in Hosts, HostEnds(h) PROVE PendingInv'
  BY <1>13 DEF HostEnds, Alive
<1>14. ASSUME NEW c \in DOMAIN conn, Accept(c) PROVE PendingInv'
  BY <1>14 DEF Accept, Listens, Served
<1>15. ASSUME NEW c \in DOMAIN conn, Reject(c) PROVE PendingInv'
  BY <1>15 DEF Reject
<1>16. ASSUME NEW c \in DOMAIN conn, Greet(c) PROVE PendingInv'
  BY <1>16 DEF Greet
<1>17. ASSUME NEW c \in DOMAIN conn, GreetFails(c) PROVE PendingInv'
  BY <1>17 DEF GreetFails
<1>18. ASSUME NEW c \in DOMAIN conn, Detach(c) PROVE PendingInv'
  BY <1>18 DEF Detach
<1>19. ASSUME NEW c \in DOMAIN conn, Unlock(c) PROVE PendingInv'
  BY <1>19 DEF Unlock
<1>20. ASSUME NEW c \in DOMAIN conn, Take(c) PROVE PendingInv'
  BY <1>20 DEF Take
<1>21. ASSUME NEW c \in DOMAIN conn, HostOpens(c) PROVE PendingInv'
  BY <1>21 DEF HostOpens, Reply
<1> QED
  BY <1>1, <1>2, <1>3, <1>4, <1>5, <1>6, <1>7, <1>8, <1>9, <1>10, <1>11, <1>12, <1>13, <1>14,
     <1>15, <1>16, <1>17, <1>18, <1>19, <1>20, <1>21
     DEF Next, ConnectNext, HandlerNext, ControlNext, HostNext

\* A host is started when none listens, and taken as up when it answers.
LEMMA RisingInvStep ==
    ASSUME LinkInv, Next
    PROVE  RisingInv'
<1>0. DOMAIN conn = 1..Len(conn) /\ Len(conn) \in Nat /\ \A c \in DOMAIN conn : conn[c].host \in Hosts
  BY Numbered DEF LinkInv, ConnInv
<1> USE HostLinkAssumption DEF LinkInv, HostInv, HostPlaces, ProcInv, Attached, RisingInv,
        Rising, HandlerOnly
<1>1. ASSUME Probe PROVE RisingInv'
  <2>1. CASE Listens(path) /\ Probed("dial") /\ UNCHANGED hosts
    BY <1>1, <2>1 DEF Probe, Probed, Connecting, Listens
  <2>2. CASE ~Listens(path) /\ StartHost /\ Connecting("poll") /\ UNCHANGED conn
    <3>1. ASSUME ~gaveUp PROVE \A g \in Hosts : hosts[g].pc # "up" /\ ~Rising(g)
      BY <1>1, <2>2, <3>1 DEF Probe, Listens, Hosts
    <3>2. PICK h \in Hosts : hosts' = [hosts EXCEPT ![h].pc = "start"]
      BY <2>2 DEF StartHost, Unstarted
    <3> QED BY <1>1, <2>2, <3>1, <3>2 DEF Probe, Connecting
  <2> QED BY <1>1, <2>1, <2>2 DEF Probe
<1>2. ASSUME Poll PROVE RisingInv'
  BY <1>2 DEF Poll, Probed, NewConn, Connecting, Listens
<1>3. ASSUME Dial PROVE RisingInv'
  BY <1>3 DEF Dial, NewConn, Connecting, Listens
<1>4. ASSUME Greeted PROVE RisingInv'
  BY <1>4 DEF Greeted, Ends, Connecting, IdleOp, HostClosed
<1>5. ASSUME Stop PROVE RisingInv'
  BY <1>5 DEF Stop, Ends, IdleOp
<1>6. ASSUME NEW o \in Openers, OpenSend(o) PROVE RisingInv'
  BY <1>6 DEF OpenSend, Sends, IdleOp
<1>7. ASSUME NEW o \in Openers, NEW s \in Sessions, OpenRegister(o, s) PROVE RisingInv'
  BY <1>7 DEF OpenRegister, Request
<1>8. ASSUME ReadFrame PROVE RisingInv'
  BY <1>8 DEF ReadFrame, Answers, IdleOp
<1>9. ASSUME ReaderEnds PROVE RisingInv'
  BY <1>9 DEF ReaderEnds, Ends, IdleOp, HostClosed
<1>10. ASSUME NEW h \in Hosts, HostRemove(h) PROVE RisingInv'
  BY <1>10 DEF HostRemove
<1>11. ASSUME NEW h \in Hosts, HostListen(h) PROVE RisingInv'
  BY <1>11 DEF HostListen
<1>12. ASSUME NEW h \in Hosts, HostTerm(h) PROVE RisingInv'
  BY <1>12 DEF HostTerm
<1>13. ASSUME NEW h \in Hosts, HostEnds(h) PROVE RisingInv'
  BY <1>13, ZenonT(60) DEF HostEnds, Alive
<1>14. ASSUME NEW c \in DOMAIN conn, Accept(c) PROVE RisingInv'
  <2>1. CASE hosts' = [hosts EXCEPT ![conn[c].host].lease = c]
    <3>1. \A h \in Hosts : hosts'[h].pc = hosts[h].pc
      BY <2>1
    <3> QED BY <1>14, <3>1 DEF Accept
  <2> QED BY <1>14, <2>1 DEF Accept
<1>15. ASSUME NEW c \in DOMAIN conn, Reject(c) PROVE RisingInv'
  BY <1>15 DEF Reject
<1>16. ASSUME NEW c \in DOMAIN conn, Greet(c) PROVE RisingInv'
  BY <1>16 DEF Greet
<1>17. ASSUME NEW c \in DOMAIN conn, GreetFails(c) PROVE RisingInv'
  BY <1>17 DEF GreetFails
<1>18. ASSUME NEW c \in DOMAIN conn, Detach(c) PROVE RisingInv'
  BY <1>18 DEF Detach
<1>19. ASSUME NEW c \in DOMAIN conn, Unlock(c) PROVE RisingInv'
  BY <1>19 DEF Unlock
<1>20. ASSUME NEW c \in DOMAIN conn, Take(c) PROVE RisingInv'
  BY <1>20 DEF Take
<1>21. ASSUME NEW c \in DOMAIN conn, HostOpens(c) PROVE RisingInv'
  BY <1>21 DEF HostOpens, Reply
<1> QED
  BY <1>1, <1>2, <1>3, <1>4, <1>5, <1>6, <1>7, <1>8, <1>9, <1>10, <1>11, <1>12, <1>13, <1>14,
     <1>15, <1>16, <1>17, <1>18, <1>19, <1>20, <1>21
     DEF Next, ConnectNext, HandlerNext, ControlNext, HostNext

\* The handshake has one frame on its way.
LEMMA GreetInvStep ==
    ASSUME LinkInv, Next
    PROVE  GreetInv'
<1>0. ConnInv /\ ProcInv /\ DOMAIN conn = 1..Len(conn) /\ Len(conn) \in Nat
  BY Numbered DEF LinkInv
<1> USE HostLinkAssumption DEF LinkInv, ProcInv, Attached, ConnInv, Fields, GreetInv, Frame,
        None, HandlerOnly
<1>1. ASSUME Probe PROVE GreetInv'
  BY <1>1, OneShape DEF Probe, Probed, StartHost, Unstarted, NewConn, Connecting, Listens
<1>2. ASSUME Poll PROVE GreetInv'
  BY <1>2, OneShape DEF Poll, Probed, NewConn, Connecting, Listens
<1>3. ASSUME Dial PROVE GreetInv'
  BY <1>3, OneShape DEF Dial, NewConn, Connecting, Listens
<1>4. ASSUME Greeted PROVE GreetInv'
  BY <1>4, OneShape DEF Greeted, Ends, Connecting, IdleOp, HostClosed
<1>5. ASSUME Stop PROVE GreetInv'
  BY <1>5, OneShape DEF Stop, Ends, IdleOp
<1>6. ASSUME NEW o \in Openers, OpenSend(o) PROVE GreetInv'
  BY <1>6, OneShape DEF OpenSend, Sends, IdleOp
<1>7. ASSUME NEW o \in Openers, NEW s \in Sessions, OpenRegister(o, s) PROVE GreetInv'
  BY <1>7, OneShape DEF OpenRegister, Request
<1>8. ASSUME ReadFrame PROVE GreetInv'
  BY <1>8, OneShape DEF ReadFrame, Answers, IdleOp
<1>9. ASSUME ReaderEnds PROVE GreetInv'
  BY <1>9, OneShape DEF ReaderEnds, Ends, IdleOp, HostClosed
<1>10. ASSUME NEW h \in Hosts, HostRemove(h) PROVE GreetInv'
  BY <1>10, OneShape DEF HostRemove
<1>11. ASSUME NEW h \in Hosts, HostListen(h) PROVE GreetInv'
  BY <1>11, OneShape DEF HostListen
<1>12. ASSUME NEW h \in Hosts, HostTerm(h) PROVE GreetInv'
  BY <1>12, OneShape DEF HostTerm
<1>13. ASSUME NEW h \in Hosts, HostEnds(h) PROVE GreetInv'
  BY <1>13, OneShape, ZenonT(60) DEF HostEnds, Alive
<1>14. ASSUME NEW c \in DOMAIN conn, Accept(c) PROVE GreetInv'
  BY <1>14, OneShape DEF Accept, Listens, Served
<1>15. ASSUME NEW c \in DOMAIN conn, Reject(c) PROVE GreetInv'
  <2>1. CASE cn.pc = "greet" /\ cn.c = c
    <3>1. conn[c].inbox = <<Frame("hello", None)>> /\ conn[c].outbox = <<>> /\ conn[c].ctl = "off"
      BY <1>15, <2>1 DEF Reject
    <3>2. conn'[c] = [conn[c] EXCEPT !.srv = "done", !.inbox = <<>>, !.outbox = Append(<<>>, Frame("busy", None))]
      BY <1>15, <2>1, <3>1, OneShape DEF Reject
    <3>3. conn'[c].srv = "done" /\ conn'[c].inbox = <<>> /\ conn'[c].ctl = "off" /\ conn'[c].outbox = <<Frame("busy", None)>>
      BY <3>1, <3>2, OneShape
    <3> QED BY <1>15, <2>1, <3>3 DEF Reject
  <2>2. CASE ~(cn.pc = "greet" /\ cn.c = c)
    BY <1>15, <2>2 DEF Reject
  <2> QED BY <2>1, <2>2
<1>16. ASSUME NEW c \in DOMAIN conn, Greet(c) PROVE GreetInv'
  <2>1. CASE cn.pc = "greet" /\ cn.c = c
    <3>1. conn[c].inbox = <<Frame("hello", None)>> /\ conn[c].outbox = <<>> /\ conn[c].ctl = "off"
      BY <1>16, <2>1 DEF Greet
    <3>2. conn'[c] = [conn[c] EXCEPT !.srv = "serve", !.ctl = "read", !.inbox = Tail(@),
                             !.outbox = Append(<<>>, Frame("info", None))]
      BY <1>16, <2>1, <3>1, OneShape DEF Greet
    <3>3. conn'[c].srv = "serve" /\ conn'[c].inbox = <<>> /\ conn'[c].ctl = "read" /\ conn'[c].outbox = <<Frame("info", None)>>
      BY <3>1, <3>2, OneShape
    <3> QED BY <1>16, <2>1, <3>3 DEF Greet
  <2>2. CASE ~(cn.pc = "greet" /\ cn.c = c)
    BY <1>16, <2>2 DEF Greet
  <2> QED BY <2>1, <2>2
<1>17. ASSUME NEW c \in DOMAIN conn, GreetFails(c) PROVE GreetInv'
  BY <1>17, OneShape DEF GreetFails
<1>18. ASSUME NEW c \in DOMAIN conn, Detach(c) PROVE GreetInv'
  BY <1>18, OneShape DEF Detach
<1>19. ASSUME NEW c \in DOMAIN conn, Unlock(c) PROVE GreetInv'
  BY <1>19, OneShape DEF Unlock
<1>20. ASSUME NEW c \in DOMAIN conn, Take(c) PROVE GreetInv'
  BY <1>20, OneShape DEF Take
<1>21. ASSUME NEW c \in DOMAIN conn, HostOpens(c) PROVE GreetInv'
  BY <1>21, OneShape DEF HostOpens, Reply
<1> QED
  BY <1>1, <1>2, <1>3, <1>4, <1>5, <1>6, <1>7, <1>8, <1>9, <1>10, <1>11, <1>12, <1>13, <1>14,
     <1>15, <1>16, <1>17, <1>18, <1>19, <1>20, <1>21
     DEF Next, ConnectNext, HandlerNext, ControlNext, HostNext

\* One request or reply is on its way at most, and it is the waiting call's.
LEMMA RunInvStep ==
    ASSUME LinkInv, Next
    PROVE  RunInv'
<1>0. ConnInv /\ ProcInv /\ DOMAIN conn = 1..Len(conn) /\ Len(conn) \in Nat
  BY Numbered DEF LinkInv
<1> USE HostLinkAssumption DEF LinkInv, ProcInv, Attached, ConnInv, Fields, PendingInv, None,
        GreetInv, Frame, RunInv, Calm, Asks, Says, CallOf, HandlerOnly
<1>1. ASSUME Probe PROVE RunInv'
  BY <1>1, OneShape DEF Probe, Probed, StartHost, Unstarted, NewConn, Connecting, Listens
<1>2. ASSUME Poll PROVE RunInv'
  BY <1>2, OneShape DEF Poll, Probed, NewConn, Connecting, Listens
<1>3. ASSUME Dial PROVE RunInv'
  BY <1>3, OneShape DEF Dial, NewConn, Connecting, Listens
<1>4. ASSUME Greeted PROVE RunInv'
  <2>1. CASE Ends
    BY <2>1 DEF Ends
  <2>2. CASE Head(conn[cn.c].outbox).type = "info" /\ conn[cn.c].outbox # <<>>
             /\ conn' = [conn EXCEPT ![cn.c].outbox = Tail(@)] /\ UNCHANGED <<op, pending>>
    <3>1. cn.pc = "greet" /\ cn.c \in DOMAIN conn /\ pending = None
      BY <1>4 DEF Greeted
    <3>2. conn[cn.c].srv \in {"serve", "dead"} /\ conn[cn.c].outbox = <<Frame("info", None)>>
      BY <2>2, <3>1, OneShape
    <3>3. conn[cn.c].inbox = <<>> /\ (conn[cn.c].srv = "serve" => conn[cn.c].ctl = "read")
          /\ (conn[cn.c].srv = "dead" => conn[cn.c].ctl = "off")
      BY <3>1, <3>2
    <3>4. conn'[cn.c] = [conn[cn.c] EXCEPT !.outbox = <<>>]
      BY <2>2, <3>1, <3>2, OneShape
    <3> QED BY <1>4, <2>2, <3>1, <3>2, <3>3, <3>4 DEF Greeted, Ends, Connecting
  <2> QED BY <1>4, <2>1, <2>2 DEF Greeted
<1>5. ASSUME Stop PROVE RunInv'
  BY <1>5, OneShape DEF Stop, Ends, IdleOp
<1>6. ASSUME NEW o \in Openers, OpenSend(o) PROVE RunInv'
  <2>1. pending = o /\ cn.pc = "run" /\ cn.c \in DOMAIN conn /\ Calm(conn[cn.c]) /\ conn[cn.c].outbox = <<>>
    BY <1>6 DEF OpenSend
  <2>2. CASE conn[cn.c].srv = "dead"
    BY <1>6, <2>1, <2>2 DEF OpenSend, Sends, IdleOp
  <2>3. CASE conn[cn.c].srv = "serve"
    <3>1. conn' = [conn EXCEPT ![cn.c].inbox = Append(@, Asks(o))] /\ op' = [op EXCEPT ![o].pc = "wait"]
          /\ UNCHANGED <<cn, pending>>
      BY <1>6, <2>3 DEF OpenSend, Sends
    <3>2. conn'[cn.c] = [conn[cn.c] EXCEPT !.inbox = <<Asks(o)>>] /\ conn[cn.c].ctl = "read"
      BY <2>1, <2>3, <3>1, OneShape
    <3>3. op'[o].id = op[o].id /\ op'[o].pc = "wait"
      BY <3>1
    <3>4. /\ cn'.pc = "run" /\ cn' = cn /\ pending' = o /\ pending # None
          /\ conn'[cn.c].srv = "serve" /\ conn'[cn.c].ctl = "read" /\ conn'[cn.c].outbox = <<>>
          /\ conn'[cn.c].inbox = <<Asks(o)>>
      BY <2>1, <2>3, <3>1, <3>2, SMTT(30)
    <3>5. Asks(o)' = Asks(o)
      BY <3>3, <3>4
    <3> QED BY <3>3, <3>4, <3>5
  <2> QED BY <2>1, <2>2, <2>3
<1>7. ASSUME NEW o \in Openers, NEW s \in Sessions, OpenRegister(o, s) PROVE RunInv'
  BY <1>7, OneShape DEF OpenRegister, Request
<1>8. ASSUME ReadFrame PROVE RunInv'
  <2>1. cn.pc = "run" /\ cn.c \in DOMAIN conn /\ conn[cn.c].outbox # <<>>
    BY <1>8 DEF ReadFrame
  <2>2. pending \in Openers /\ pending # None /\ op[pending].pc = "wait"
    BY <2>1
  <2>3. PICK t \in {"opened", "error"} : conn[cn.c].outbox = <<Says(t, pending)>>
    BY <2>1, <2>2
  <2>4. Calm(conn[cn.c])
    BY <2>1, <2>2
  <2>5. Answers(Head(conn[cn.c].outbox))
    BY <2>2, <2>3, OneShape DEF Answers
  <2>6. pending' = None /\ UNCHANGED cn /\ conn'[cn.c] = [conn[cn.c] EXCEPT !.outbox = <<>>]
    BY <1>8, <2>1, <2>3, <2>5, OneShape DEF ReadFrame
  <2> QED BY <2>1, <2>4, <2>6
<1>9. ASSUME ReaderEnds PROVE RunInv'
  BY <1>9, OneShape DEF ReaderEnds, Ends, IdleOp, HostClosed
<1>10. ASSUME NEW h \in Hosts, HostRemove(h) PROVE RunInv'
  BY <1>10, OneShape DEF HostRemove
<1>11. ASSUME NEW h \in Hosts, HostListen(h) PROVE RunInv'
  BY <1>11, OneShape DEF HostListen
<1>12. ASSUME NEW h \in Hosts, HostTerm(h) PROVE RunInv'
  BY <1>12, OneShape DEF HostTerm
<1>13. ASSUME NEW h \in Hosts, HostEnds(h) PROVE RunInv'
  <2>1. CASE cn.pc = "run" /\ conn[cn.c].host = h
    <3>1. conn'[cn.c] = [conn[cn.c] EXCEPT !.srv = "dead", !.ctl = "off", !.by = <<>>, !.inbox = <<>>]
      BY <1>13, <2>1 DEF HostEnds
    <3>2. /\ conn'[cn.c].srv = "dead" /\ conn'[cn.c].ctl = "off" /\ conn'[cn.c].inbox = <<>>
          /\ conn'[cn.c].outbox = conn[cn.c].outbox
      BY <2>1, <3>1
    <3>5. UNCHANGED <<cn, op, pending>>
      BY <1>13 DEF HostEnds
    <3>3. pending = None \/ op[pending].pc = "send" => conn[cn.c].outbox = <<>>
      BY <2>1
    <3>4. pending # None /\ op[pending].pc = "wait" =>
             conn[cn.c].outbox \in {<<>>, <<Says("opened", pending)>>, <<Says("error", pending)>>}
      BY <2>1
    <3> QED BY <2>1, <3>2, <3>3, <3>4, <3>5
  <2>2. CASE cn.pc = "run" /\ conn[cn.c].host # h
    <3>1. conn'[cn.c] = conn[cn.c]
      BY <1>13, <2>2 DEF HostEnds
    <3> QED BY <1>13, <2>2, <3>1 DEF HostEnds
  <2> QED BY <1>13, <2>1, <2>2 DEF HostEnds
<1>14. ASSUME NEW c \in DOMAIN conn, Accept(c) PROVE RunInv'
  <2>1. cn.pc = "run" => cn.c # c
    BY <1>14 DEF Accept
  <2>2. cn.pc = "run" => conn'[cn.c] = conn[cn.c]
    BY <1>14, <2>1 DEF Accept
  <2> QED BY <1>14, <2>2 DEF Accept
<1>15. ASSUME NEW c \in DOMAIN conn, Reject(c) PROVE RunInv'
  BY <1>15, OneShape DEF Reject
<1>16. ASSUME NEW c \in DOMAIN conn, Greet(c) PROVE RunInv'
  BY <1>16, OneShape DEF Greet
<1>17. ASSUME NEW c \in DOMAIN conn, GreetFails(c) PROVE RunInv'
  BY <1>17, OneShape DEF GreetFails
<1>18. ASSUME NEW c \in DOMAIN conn, Detach(c) PROVE RunInv'
  BY <1>18, OneShape DEF Detach
<1>19. ASSUME NEW c \in DOMAIN conn, Unlock(c) PROVE RunInv'
  BY <1>19, OneShape DEF Unlock
<1>20. ASSUME NEW c \in DOMAIN conn, Take(c) PROVE RunInv'
  <2>1. CASE cn.pc = "run" /\ cn.c = c
    <3>1. pending \in Openers /\ op[pending].pc = "wait" /\ conn[c].inbox = <<Asks(pending)>>
          /\ conn[c].outbox = <<>> /\ conn[c].srv = "serve"
      BY <1>20, <2>1 DEF Take
    <3>2. Head(conn[c].inbox).by = CallOf(pending) /\ Tail(conn[c].inbox) = <<>>
      BY <3>1, OneShape
    <3>3. conn' = [conn EXCEPT ![c] = [conn[c] EXCEPT !.ctl = "open", !.by = CallOf(pending), !.inbox = <<>>]]
      BY <1>20, <3>2 DEF Take
    <3>4. /\ conn'[c].ctl = "open" /\ conn'[c].by = CallOf(pending) /\ conn'[c].inbox = <<>>
          /\ conn'[c].outbox = <<>> /\ conn'[c].srv = "serve"
      BY <3>1, <3>3
    <3>5. UNCHANGED <<cn, op, pending>>
      BY <1>20 DEF Take
    <3> QED BY <2>1, <3>1, <3>4, <3>5
  <2>2. CASE ~(cn.pc = "run" /\ cn.c = c)
    <3>1. cn.pc = "run" => conn'[cn.c] = conn[cn.c]
      BY <1>20, <2>2 DEF Take
    <3> QED BY <1>20, <3>1 DEF Take
  <2> QED BY <2>1, <2>2
<1>21. ASSUME NEW c \in DOMAIN conn, HostOpens(c) PROVE RunInv'
  <2>1. PICK type \in {"opened", "error"} : conn' = [conn EXCEPT ![c] = Answered(conn[c], type)]
    BY <1>0, <1>21, Opened
  <2>2. CASE cn.pc = "run" /\ cn.c = c
    <3>1. pending \in Openers /\ op[pending].pc = "wait" /\ conn[c].by = CallOf(pending)
          /\ conn[c].inbox = <<>> /\ conn[c].outbox = <<>> /\ conn[c].srv = "serve"
          /\ conn[c].peer = "open"
      BY <1>21, <2>2 DEF HostOpens
    <3>2. Answered(conn[c], type) = [conn[c] EXCEPT !.ctl = "read", !.by = <<>>, !.outbox = <<Says(type, pending)>>]
      BY <3>1, OneShape DEF Answered
    <3>3. /\ conn'[c].ctl = "read" /\ conn'[c].inbox = <<>> /\ conn'[c].srv = "serve"
          /\ conn'[c].outbox = <<Says(type, pending)>>
      BY <2>1, <3>1, <3>2
    <3>4. UNCHANGED <<cn, op, pending>>
      BY <1>21 DEF HostOpens
    <3> QED BY <2>2, <3>1, <3>3, <3>4
  <2>3. CASE ~(cn.pc = "run" /\ cn.c = c)
    <3>1. cn.pc = "run" => conn'[cn.c] = conn[cn.c]
      BY <2>1, <2>3
    <3> QED BY <1>21, <3>1 DEF HostOpens
  <2> QED BY <2>2, <2>3
<1> QED
  BY <1>1, <1>2, <1>3, <1>4, <1>5, <1>6, <1>7, <1>8, <1>9, <1>10, <1>11, <1>12, <1>13, <1>14,
     <1>15, <1>16, <1>17, <1>18, <1>19, <1>20, <1>21
     DEF Next, ConnectNext, HandlerNext, ControlNext, HostNext

-----------------------------------------------------------------------------
(* The theorems. *)

\* The inductive invariant holds for any sessions and callers, and for any number
\* of hosts, connections and requests (server.go, client.go, spawn_unix.go).
THEOREM LinkInvariant == Spec => []LinkInv
<1>1. Init => LinkInv
  <2> SUFFICES ASSUME Init PROVE LinkInv
    OBVIOUS
  <2>1. HostInv /\ ProcInv /\ PendingInv /\ RisingInv /\ GreetInv /\ RunInv
    BY HostLinkAssumption DEF Init, HostInv, HostPlaces, ProcInv, Attached, PendingInv,
       RisingInv, Rising,
       GreetInv, RunInv, IdleOp, None
  <2>2. ConnInv
    BY DEF Init, ConnInv, IsSeq
  <2>3. LeaseInv
    BY DEF Init, LeaseInv
  <2> QED BY <2>1, <2>2, <2>3 DEF LinkInv
<1>2. LinkInv /\ [Next]_vars => LinkInv'
  <2>1. CASE UNCHANGED vars
    BY <2>1 DEF vars, LinkInv, HostInv, ProcInv, Attached, ConnInv, LeaseInv, Served, PendingInv,
       RisingInv,
       Rising, GreetInv, RunInv, CallOf, Asks, Says
  <2> QED
    BY <2>1, HostInvStep, ProcInvStep, ConnInvStep, LeaseInvStep, PendingInvStep, RisingInvStep,
       GreetInvStep, RunInvStep DEF LinkInv
<1> QED BY <1>1, <1>2, PTL DEF Spec

\* The lease is with the connection that is served and the snapshots go there,
\* however handlers of old connections unwind (server.go:284-432).
THEOREM OneConnectionIsServed == Spec => []ServedHoldsLeaseAndSink
<1>1. LinkInv => ServedHoldsLeaseAndSink
  <2> SUFFICES ASSUME LinkInv PROVE ServedHoldsLeaseAndSink
    OBVIOUS
  <2>1. TypeOK
    <3>1. path \in 0..MaxHosts /\ \A h \in Hosts : hosts[h].pc \in HostPlaces
      BY HostLinkAssumption DEF LinkInv, HostInv, Hosts
    <3>2. \A h \in Hosts : hosts[h].lease \in 0..Len(conn) /\ hosts[h].sink \in 0..Len(conn)
      BY DEF LinkInv, LeaseInv
    <3>3. /\ cn.pc \in {"off", "poll", "dial", "greet", "run"}
          /\ (cn.pc \in {"greet", "run"} => cn.c \in DOMAIN conn /\ conn[cn.c].peer = "open")
      BY DEF LinkInv, ProcInv, Attached
    <3>4. pending # None => pending \in Openers /\ op[pending].pc # "idle"
      BY DEF LinkInv, PendingInv
    <3> QED BY <3>1, <3>2, <3>3, <3>4 DEF TypeOK, HostPlaces
  <2> QED BY <2>1 DEF LinkInv, LeaseInv, ServedHoldsLeaseAndSink
<1> QED BY <1>1, LinkInvariant, PTL

\* While no connect gives up a host it has started, every host that runs is the
\* one behind the socket (spawn_unix.go:15-85).
THEOREM EveryHostIsFound == Spec => []NoHostLeftBehind
<1>1. LinkInv => NoHostLeftBehind
  BY DEF LinkInv, RisingInv, NoHostLeftBehind
<1> QED BY <1>1, LinkInvariant, PTL

\* A success of Open answers the request that this call has sent, over this
\* connection and for its session (client.go:231-262, 340-365).
THEOREM EveryOpenGetsItsReply == Spec => []OpenGetsItsReply
<1>1. Init => got = {}
  BY DEF Init
<1>2. LinkInv /\ got = {} /\ [Next]_vars => (got = {})'
  <2> SUFFICES ASSUME LinkInv, got = {}, [Next]_vars PROVE got' = {}
    OBVIOUS
  <2>1. CASE ReadFrame
    <3> DEFINE f == Head(conn[cn.c].outbox)
    <3>1. cn.pc = "run" /\ conn[cn.c].outbox # <<>>
      BY <2>1 DEF ReadFrame
    <3>2. pending # None /\ op[pending].pc = "wait" => f.by = <<pending, cn.c, op[pending].id>>
      BY <3>1, OneShape DEF LinkInv, RunInv, Calm, Says, CallOf
    <3>3. pending # None => op[pending].pc = "wait"
      BY <3>1 DEF LinkInv, RunInv, PendingInv
    <3> QED BY <2>1, <3>2, <3>3 DEF ReadFrame, Answers
  <2>2. CASE ~ReadFrame
    BY <2>2 DEF vars, Next, ConnectNext, HandlerNext, ControlNext, HostNext, HandlerOnly, Probe,
       Poll, Dial,
       Greeted, Stop, OpenSend, OpenRegister, ReaderEnds, HostRemove, HostListen, HostTerm, HostEnds, Accept,
       Reject, Greet, GreetFails, Detach, Unlock, Take, HostOpens
  <2> QED BY <2>1, <2>2
<1> QED BY <1>1, <1>2, LinkInvariant, PTL DEF Spec, OpenGetsItsReply
=============================================================================
