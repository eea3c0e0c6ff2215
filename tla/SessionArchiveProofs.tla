------------------------ MODULE SessionArchiveProofs ------------------------
(***************************************************************************)
(* Proofs about SessionArchive, for every set of session ids, every cap,   *)
(* every buffer limit and any mix of faults. The session table and the     *)
(* running read pumps match one to one; what the buffers and the archives  *)
(* hold plays no part in that, so that the type of a session object leaves *)
(* the set of its scrollbacks open. On top of it: history stays in order   *)
(* in every buffer, save and archive, and the disk cap holds when a save   *)
(* ends.                                                                   *)
(***************************************************************************)
EXTENDS SessionArchive, SequenceTheorems, FiniteSetTheorems, WellFoundedInduction, TLAPS

\* The liveSession objects whose scrollback is one of B.
Objects(B) ==
    [id : Sessions, sb : B, dirty : BOOLEAN,
     pty : {"open", "late", "closed"}, pump : {"read", "mark", "gone"}]

TableType ==
    /\ \E B : ls \in Seq(Objects(B))
    /\ sessions \in [Sessions -> Nat]

\* Every entry of the map is a session of that id whose pump still runs.
EntriesRun ==
    \A s \in Sessions :
        sessions[s] # 0 => /\ sessions[s] \in DOMAIN ls
                           /\ ls[sessions[s]].id = s
                           /\ ls[sessions[s]].pump # "gone"

\* Between the duplicate check of Open and the publication nobody else takes
\* the entry.
PublishFree ==
    call.pc = "publish" => call.id \in Sessions /\ sessions[call.id] = 0

TableInv == TableType /\ EntriesRun /\ NoOrphanPty /\ PublishFree

-----------------------------------------------------------------------------
\* The objects of a step keep their type when the new scrollbacks are added
\* to the old ones.
LEMMA ObjectsGrow ==
    ASSUME NEW B, NEW C, B \subseteq C, NEW q \in Seq(Objects(B))
    PROVE  q \in Seq(Objects(C))
<1>1. Objects(B) \subseteq Objects(C)
  BY DEF Objects
<1> QED BY <1>1, SeqDef

\* What a step does to one object when it keeps its id and its pump running
\* or not: the table stays as it is.
LEMMA SameTable ==
    ASSUME TableInv, UNCHANGED sessions,
           \E B : ls' \in Seq(Objects(B)),
           DOMAIN ls' = DOMAIN ls,
           \A o \in DOMAIN ls : /\ ls'[o].id = ls[o].id
                                /\ ls'[o].pump = "gone" <=> ls[o].pump = "gone",
           call' = call \/ call'.pc # "publish"
    PROVE  TableInv'
<1>1. TableType'
  BY DEF TableInv, TableType
<1>2. EntriesRun'
  BY DEF TableInv, EntriesRun, TableType
<1>3. NoOrphanPty'
  BY DEF TableInv, NoOrphanPty
<1>4. PublishFree'
  BY DEF TableInv, PublishFree
<1> QED BY <1>1, <1>2, <1>3, <1>4 DEF TableInv

\* A step that touches neither the objects nor the map.
LEMMA TableUntouched ==
    ASSUME TableInv, UNCHANGED <<ls, sessions>>,
           call' = call \/ call'.pc # "publish"
    PROVE  TableInv'
<1>1. \E B : ls' \in Seq(Objects(B))
  BY DEF TableInv, TableType
<1> QED BY <1>1, SameTable

\* The initial states.
LEMMA TableInit == Init => TableInv
<1> SUFFICES ASSUME Init PROVE TableInv
  OBVIOUS
<1>1. ls \in Seq(Objects({})) /\ DOMAIN ls = {}
  BY EmptySeq DEF Init
<1>2. TableType
  BY <1>1 DEF TableType, Init
<1> QED BY <1>1, <1>2 DEF Init, Idle, TableInv, EntriesRun, NoOrphanPty, PublishFree

\* Open: the check, then the publication of a new object.
LEMMA OpenKeeps ==
    ASSUME TableInv, (\E s \in Sessions : OpenLoad(s)) \/ OpenPublish
    PROVE  TableInv'
<1>1. CASE \E s \in Sessions : OpenLoad(s)
  <2>1. PICK s \in Sessions : OpenLoad(s)
    BY <1>1
  <2>2. ls' = ls /\ sessions' = sessions
    BY <2>1 DEF OpenLoad, objVars
  <2>3. call'.id = s /\ sessions[s] = 0
    BY <2>1 DEF OpenLoad, NotOpen
  <2> QED BY <2>2, <2>3 DEF TableInv, TableType, EntriesRun, NoOrphanPty, PublishFree
<1>2. CASE OpenPublish /\ UNCHANGED objVars
  BY <1>2, TableUntouched DEF OpenPublish, objVars, Idle
<1>3. CASE OpenPublish /\ ~UNCHANGED objVars
  <2> DEFINE new == [id |-> call.id, sb |-> Restored(call.prior),
                     dirty |-> FALSE, pty |-> "open", pump |-> "read"]
             n == Len(ls) + 1
  <2>1. /\ ls' = Append(ls, new)
        /\ sessions' = [sessions EXCEPT ![call.id] = n]
        /\ call' = Idle
        /\ call.id \in Sessions /\ sessions[call.id] = 0
    BY <1>3 DEF OpenPublish, TableInv, PublishFree
  <2>2. PICK B : ls \in Seq(Objects(B))
    BY DEF TableInv, TableType
  <2> DEFINE C == B \cup {new.sb}
  <2>3. ls \in Seq(Objects(C)) /\ new \in Objects(C)
    <3>1. ls \in Seq(Objects(C))
      BY <2>2, ObjectsGrow
    <3> QED BY <3>1, <2>1 DEF Objects
  <2>4. /\ ls' \in Seq(Objects(C))
        /\ DOMAIN ls = 1 .. Len(ls) /\ DOMAIN ls' = 1 .. n /\ Len(ls) \in Nat
        /\ ls'[n] = new
        /\ \A o \in DOMAIN ls : ls'[o] = ls[o]
    <3> HIDE DEF new, C
    <3> QED BY <2>1, <2>3, AppendProperties
  <2>5. new.id = call.id /\ new.pump = "read"
    OBVIOUS
  <2> HIDE DEF new, C
  <2>6. TableType'
    BY <2>1, <2>4 DEF TableInv, TableType
  <2>7. EntriesRun'
    BY <2>1, <2>4, <2>5 DEF TableInv, TableType, EntriesRun
  <2>8. NoOrphanPty'
    <3> SUFFICES ASSUME NEW o \in 1 .. n, ls'[o].pump # "gone"
                 PROVE  sessions'[ls'[o].id] = o
      BY <2>4 DEF NoOrphanPty
    <3>1. CASE o = n
      BY <3>1, <2>1, <2>4, <2>5 DEF TableInv, TableType
    <3>2. CASE o # n
      <4>1. o \in DOMAIN ls /\ o # 0 /\ ls'[o] = ls[o]
        BY <3>2, <2>4
      <4>2. sessions[ls[o].id] = o
        BY <4>1 DEF TableInv, NoOrphanPty
      <4> QED BY <4>1, <4>2, <2>1 DEF TableInv, TableType
    <3> QED BY <3>1, <3>2
  <2>9. PublishFree'
    BY <2>1 DEF PublishFree, Idle
  <2> QED BY <2>6, <2>7, <2>8, <2>9 DEF TableInv
<1> QED BY <1>1, <1>2, <1>3

\* Replacing one object by another of the same id that runs like it.
LEMMA ObjectReplaced ==
    ASSUME TableInv, NEW o \in Nat, NEW B, ls \in Seq(Objects(B)),
           NEW C, NEW x, B \subseteq C,
           o \in DOMAIN ls => /\ x \in Objects(C)
                              /\ x.id = ls[o].id
                              /\ x.pump = "gone" <=> ls[o].pump = "gone",
           ls' = [ls EXCEPT ![o] = x], UNCHANGED sessions,
           call' = call \/ call'.pc # "publish"
    PROVE  TableInv'
<1>1. ls \in Seq(Objects(C)) /\ DOMAIN ls = 1 .. Len(ls)
  BY ObjectsGrow
<1>2. ls' \in Seq(Objects(C)) /\ DOMAIN ls' = DOMAIN ls
  <2>1. CASE o \in DOMAIN ls
    BY <2>1, <1>1, ExceptSeq
  <2>2. CASE o \notin DOMAIN ls
    <3>1. ls' = ls
      BY <2>2, <1>1
    <3> QED BY <3>1, <1>1
  <2> QED BY <2>1, <2>2
<1>3. \A p \in DOMAIN ls : /\ ls'[p].id = ls[p].id
                           /\ ls'[p].pump = "gone" <=> ls[p].pump = "gone"
  BY <1>1
<1> QED BY <1>2, <1>3, SameTable

\* pty.Close keeps the type of the object, its id and its pump.
LEMMA ClosePtyKeeps ==
    ASSUME NEW B, NEW l \in Objects(B)
    PROVE  /\ ClosePty(l) \in Objects(B)
           /\ ClosePty(l).id = l.id /\ ClosePty(l).pump = l.pump
BY DEF ClosePty, Objects
\* Close: pty.Close of the session that was looked up, and the deletion of
\* its archive.
LEMMA CloseKeeps ==
    ASSUME TableInv, (\E s \in Sessions : CloseStart(s)) \/ CloseDelete
    PROVE  TableInv'
<1>1. CASE \E s \in Sessions : CloseStart(s)
  <2>1. PICK s \in Sessions : CloseStart(s)
    BY <1>1
  <2>2. PICK B : ls \in Seq(Objects(B))
    BY DEF TableInv, TableType
  <2>3. PICK o \in Nat : o = sessions[s] /\ o \in DOMAIN ls
    BY <2>1 DEF CloseStart, TableInv, TableType, EntriesRun
  <2>4. ls[o] \in Objects(B)
    BY <2>2, <2>3, ElementOfSeq
  <2>5. ls' = [ls EXCEPT ![o] = ClosePty(ls[o])] /\ UNCHANGED sessions
    BY <2>1, <2>3 DEF CloseStart
  <2>6. call'.pc # "publish"
    BY <2>1 DEF CloseStart, Idle
  <2>7. ClosePty(ls[o]) \in Objects(B) /\ ClosePty(ls[o]).id = ls[o].id
        /\ ClosePty(ls[o]).pump = ls[o].pump
    BY <2>4, ClosePtyKeeps
  <2> QED BY <2>2, <2>5, <2>6, <2>7, ObjectReplaced
<1>2. CASE CloseDelete
  BY <1>2, TableUntouched DEF CloseDelete, objVars, Idle
<1> QED BY <1>1, <1>2

\* readPump writes and marks; the pump goes on.
LEMMA PumpKeeps ==
    ASSUME TableInv, NEW o \in DOMAIN ls, PumpWrite(o) \/ PumpMark(o)
    PROVE  TableInv'
<1>1. PICK B : ls \in Seq(Objects(B))
  BY DEF TableInv, TableType
<1>2. o \in Nat /\ ls[o] \in Objects(B) /\ DOMAIN ls = 1 .. Len(ls)
  BY <1>1, ElementOfSeq
<1>3. CASE PumpWrite(o)
  <2> DEFINE b == Write(ls[o].sb, <<out[ls[o].id] + 1>>)
             x == [ls[o] EXCEPT !.pump = "mark",
                                !.pty = IF @ = "late" THEN "closed" ELSE @,
                                !.sb = b]
  <2>1. ls' = [ls EXCEPT ![o] = x] /\ UNCHANGED sessions /\ call' = call
    BY <1>3, <1>2 DEF PumpWrite, Objects
  <2> HIDE DEF b
  <2>2. x \in Objects(B \cup {b}) /\ x.id = ls[o].id /\ x.pump = "mark"
    BY <1>2 DEF Objects
  <2>3. ls[o].pump # "gone"
    BY <1>3 DEF PumpWrite
  <2> HIDE DEF x
  <2> QED BY <1>1, <1>2, <2>1, <2>2, <2>3, ObjectReplaced
<1>4. CASE PumpMark(o)
  <2> DEFINE x == [ls[o] EXCEPT !.pump = "read", !.dirty = TRUE]
  <2>1. ls' = [ls EXCEPT ![o] = x] /\ UNCHANGED sessions /\ call' = call
    BY <1>4, <1>2 DEF PumpMark, Objects
  <2>2. x \in Objects(B) /\ x.id = ls[o].id /\ x.pump = "read"
    BY <1>2 DEF Objects
  <2>3. ls[o].pump # "gone"
    BY <1>4 DEF PumpMark
  <2> HIDE DEF x
  <2> QED BY <1>1, <1>2, <2>1, <2>2, <2>3, ObjectReplaced
<1> QED BY <1>3, <1>4

\* readPump ends: it deletes the entry of its id, and that entry is its own.
LEMMA PumpExitKeepsTable ==
    ASSUME TableInv, NEW o \in DOMAIN ls, PumpExit(o)
    PROVE  TableInv'
<1>1. PICK B : ls \in Seq(Objects(B))
  BY DEF TableInv, TableType
<1>2. o \in Nat /\ ls[o] \in Objects(B) /\ DOMAIN ls = 1 .. Len(ls)
  BY <1>1, ElementOfSeq
<1> DEFINE s == ls[o].id
           b == Close(ls[o].sb)
           x == [ls[o] EXCEPT !.pump = "gone", !.pty = "closed", !.sb = b]
<1>3. s \in Sessions /\ sessions[s] = o
  BY <1>2 DEF PumpExit, Objects, TableInv, NoOrphanPty
<1>4. /\ ls' = [ls EXCEPT ![o] = x]
      /\ sessions' = [sessions EXCEPT ![s] = 0]
      /\ call' = call
  BY <1>2 DEF PumpExit, Objects
<1> HIDE DEF b
<1>5. x \in Objects(B \cup {b}) /\ x.id = s /\ x.pump = "gone"
  BY <1>2 DEF Objects
<1> HIDE DEF x
<1>6. ls' \in Seq(Objects(B \cup {b})) /\ DOMAIN ls' = DOMAIN ls
  <2>1. ls \in Seq(Objects(B \cup {b}))
    BY <1>1, ObjectsGrow
  <2> QED BY <2>1, <1>2, <1>4, <1>5, ExceptSeq
<1>7. ls'[o] = x /\ \A p \in DOMAIN ls : p # o => ls'[p] = ls[p]
  BY <1>4
<1>8. TableType'
  BY <1>3, <1>4, <1>6 DEF TableInv, TableType
<1>9. EntriesRun'
  <2> SUFFICES ASSUME NEW t \in Sessions, sessions'[t] # 0
               PROVE  /\ sessions'[t] \in DOMAIN ls'
                      /\ ls'[sessions'[t]].id = t
                      /\ ls'[sessions'[t]].pump # "gone"
    BY DEF EntriesRun
  <2>1. t # s /\ sessions'[t] = sessions[t]
    BY <1>3, <1>4 DEF TableInv, TableType
  <2>2. sessions[t] \in DOMAIN ls /\ ls[sessions[t]].id = t
        /\ ls[sessions[t]].pump # "gone"
    BY <2>1 DEF TableInv, EntriesRun
  <2>3. sessions[t] # o
    BY <2>1, <2>2
  <2> QED BY <2>1, <2>2, <2>3, <1>6, <1>7
<1>10. NoOrphanPty'
  <2> SUFFICES ASSUME NEW p \in DOMAIN ls, ls'[p].pump # "gone"
               PROVE  sessions'[ls'[p].id] = p
    BY <1>6 DEF NoOrphanPty
  <2>1. p # o /\ ls'[p] = ls[p]
    BY <1>5, <1>7
  <2>2. sessions[ls[p].id] = p
    BY <2>1 DEF TableInv, NoOrphanPty
  <2>3. ls[p] \in Objects(B)
    BY <1>1, ElementOfSeq
  <2>4. ls[p].id # s /\ ls[p].id \in Sessions
    BY <2>1, <2>2, <2>3, <1>3 DEF Objects
  <2> QED BY <2>1, <2>2, <2>4, <1>4 DEF TableInv, TableType
<1>11. PublishFree'
  BY <1>3, <1>4 DEF TableInv, TableType, PublishFree
<1> QED BY <1>8, <1>9, <1>10, <1>11 DEF TableInv

\* A saving goroutine resets one dirty flag, and nothing else of the table.
LEMMA SavingKeeps ==
    ASSUME TableInv, NEW g \in Savers, Saving(g)
    PROVE  TableInv'
<1>1. CASE FlushClear(g)
  <2>1. PICK B : ls \in Seq(Objects(B))
    BY DEF TableInv, TableType
  <2> DEFINE c == sv[g].cur
             x == [ls[c] EXCEPT !.dirty = FALSE]
  <2>2. ls' = [ls EXCEPT ![c] = x] /\ UNCHANGED sessions /\ call' = call
    BY <1>1 DEF FlushClear
  <2>3. CASE c \in DOMAIN ls
    <3>1. c \in Nat /\ ls[c] \in Objects(B)
      BY <2>1, <2>3, ElementOfSeq
    <3>2. x \in Objects(B) /\ x.id = ls[c].id /\ x.pump = ls[c].pump
      BY <3>1 DEF Objects
    <3> HIDE DEF x, c
    <3> QED BY <2>1, <2>2, <3>1, <3>2, ObjectReplaced
  <2>4. CASE c \notin DOMAIN ls
    <3>1. ls' = ls
      BY <2>1, <2>2, <2>4
    <3> QED BY <3>1, <2>2, TableUntouched
  <2> QED BY <2>3, <2>4
<1>2. CASE ~FlushClear(g)
  <2>1. UNCHANGED <<ls, sessions>> /\ call' = call
    BY <1>2 DEF Saving, FlushNext, FlushSnapshot, SaveRename, CapScan, Evict, objVars
  <2> QED BY <2>1, TableUntouched
<1> QED BY <1>1, <1>2

\* SIGTERM, Shutdown, the end and the start of the process, and the flusher's
\* two steps outside a save.
LEMMA ProcessKeeps ==
    ASSUME TableInv, Process \/ FlusherTick \/ FlusherStops
    PROVE  TableInv'
<1>1. CASE Terminate \/ ShutdownStart \/ ProcessStarts \/ FlusherTick \/ FlusherStops
  <2>1. UNCHANGED <<ls, sessions>> /\ call' = call
    BY <1>1 DEF Terminate, ShutdownStart, ProcessStarts, FlusherTick, FlusherStops, objVars
  <2> QED BY <2>1, TableUntouched
<1>2. CASE ShutdownClose
  <2>1. PICK B : ls \in Seq(Objects(B))
    BY DEF TableInv, TableType
  <2>2. DOMAIN ls = 1 .. Len(ls) /\ Len(ls) \in Nat
    BY <2>1
  <2>3. ls' = [o \in DOMAIN ls |-> IF o \in Listed THEN ClosePty(ls[o]) ELSE ls[o]]
        /\ UNCHANGED sessions /\ call' = call
    BY <1>2 DEF ShutdownClose
  <2>4. \A o \in DOMAIN ls : /\ ls'[o] \in Objects(B)
                             /\ ls'[o].id = ls[o].id
                             /\ ls'[o].pump = ls[o].pump
    <3> SUFFICES ASSUME NEW o \in DOMAIN ls
                 PROVE  /\ ls'[o] \in Objects(B)
                        /\ ls'[o].id = ls[o].id
                        /\ ls'[o].pump = ls[o].pump
      OBVIOUS
    <3>1. ls[o] \in Objects(B)
      BY <2>1, ElementOfSeq
    <3>2. ls'[o] = ClosePty(ls[o]) \/ ls'[o] = ls[o]
      BY <2>3
    <3> QED BY <3>1, <3>2, ClosePtyKeeps
  <2>5. ls' \in [1 .. Len(ls) -> Objects(B)] /\ DOMAIN ls' = DOMAIN ls
    BY <2>2, <2>3, <2>4
  <2>6. ls' \in Seq(Objects(B))
    BY <2>2, <2>5, SeqDef
  <2> QED BY <2>3, <2>4, <2>5, <2>6, SameTable
<1>3. CASE ProcessEnds
  <2>1. ls' = <<>> /\ sessions' = [s \in Sessions |-> 0] /\ call' = Idle
    BY <1>3 DEF ProcessEnds
  <2>2. ls' \in Seq(Objects({})) /\ DOMAIN ls' = {}
    BY <2>1, EmptySeq
  <2>3. TableType'
    BY <2>1, <2>2 DEF TableType
  <2> QED BY <2>1, <2>2, <2>3 DEF Idle, TableInv, EntriesRun, NoOrphanPty, PublishFree
<1> QED BY <1>1, <1>2, <1>3 DEF Process

\* A step of any goroutine or of the process keeps the table.
LEMMA TableStep ==
    ASSUME TableInv, [Next]_vars
    PROVE  TableInv'
<1>1. CASE Handler
  BY <1>1, OpenKeeps, CloseKeeps DEF Handler
<1>2. CASE \E o \in DOMAIN ls : Pump(o)
  BY <1>2, PumpKeeps, PumpExitKeepsTable DEF Pump
<1>3. CASE \E g \in Savers : Saving(g)
  BY <1>3, SavingKeeps
<1>4. CASE FlusherTick \/ FlusherStops \/ Process
  BY <1>4, ProcessKeeps
<1>5. CASE UNCHANGED vars
  BY <1>5, TableUntouched DEF vars
<1> QED BY <1>1, <1>2, <1>3, <1>4, <1>5 DEF Next

\* No shell is out of reach, for any number of sessions, opens and lives of
\* the host and with every fault: while its pump runs, the map entry of a
\* session's id is that session (Manager.Open, readPump).
THEOREM NoShellOutOfReach == Spec => []NoOrphanPty
<1>1. Init => TableInv
  BY TableInit
<1>2. TableInv /\ [Next]_vars => TableInv'
  BY TableStep
<1>3. TableInv => NoOrphanPty
  BY DEF TableInv
<1> QED BY <1>1, <1>2, <1>3, PTL DEF Spec

-----------------------------------------------------------------------------
(* Induction, with a set in place of the operator parameter.               *)

\* A nonempty set of numbers has a least element.
LEMMA LeastNat ==
    ASSUME NEW S \in SUBSET Nat, S # {}
    PROVE  \E m \in S : \A k \in S : m <= k
<1> DEFINE R == OpToRel(<, Nat)
<1>1. IsWellFoundedOn(R, Nat)
  BY NatLessThanWellFounded
<1>2. \A x, y \in Nat : y < x => <<y, x>> \in R
  BY Zenon DEF OpToRel
<1> HIDE DEF R
<1>3. \E x \in S : \A y \in S : ~ (<<y, x>> \in R)
  BY <1>1, WFMin
<1>4. \A x, y \in Nat : ~(y < x) => x <= y
  OBVIOUS
<1> QED BY <1>2, <1>3, <1>4

\* A set of numbers that has 0, and with each number the next, has them all.
LEMMA Induction ==
    ASSUME NEW T, 0 \in T, \A n \in Nat : n \in T => n + 1 \in T
    PROVE  \A n \in Nat : n \in T
<1> SUFFICES ASSUME NEW n \in Nat, n \notin T PROVE FALSE
  OBVIOUS
<1> DEFINE S == {k \in Nat : k \notin T}
<1>1. PICK m \in S : \A k \in S : m <= k
  <2>1. S \in SUBSET Nat /\ S # {}
    OBVIOUS
  <2> HIDE DEF S
  <2> QED BY <2>1, LeastNat
<1>2. m # 0 /\ m - 1 \in Nat /\ m - 1 \in T
  BY <1>1
<1> QED BY <1>1, <1>2

\* So does a property of the subsets of a finite set that holds for a set
\* when it holds for each set with one element less.
LEMMA RemovalInduction ==
    ASSUME NEW D, IsFiniteSet(D), NEW T,
           \A S \in SUBSET D : (\A x \in S : S \ {x} \in T) => S \in T
    PROVE  \A S \in SUBSET D : S \in T
<1> DEFINE N == {n \in Nat : \A S \in SUBSET D : Cardinality(S) = n => S \in T}
<1>1. \A S \in SUBSET D : /\ Cardinality(S) \in Nat
                          /\ \A x \in S : Cardinality(S \ {x}) = Cardinality(S) - 1
  BY FS_Subset, FS_CardinalityType, FS_RemoveElement
<1>2. 0 \in N
  <2> SUFFICES ASSUME NEW S \in SUBSET D, Cardinality(S) = 0 PROVE S \in T
    OBVIOUS
  <2>1. S = {}
    BY FS_Subset, FS_EmptySet
  <2> QED BY <2>1
<1>3. ASSUME NEW n \in Nat, n \in N PROVE n + 1 \in N
  <2> SUFFICES ASSUME NEW S \in SUBSET D, Cardinality(S) = n + 1 PROVE S \in T
    OBVIOUS
  <2>1. \A x \in S : S \ {x} \in SUBSET D /\ Cardinality(S \ {x}) = n
    BY <1>1
  <2> QED BY <2>1, <1>3
<1> HIDE DEF N
<1>4. \A n \in Nat : n \in N
  BY <1>2, <1>3, Induction
<1> QED BY <1>1, <1>4 DEF N

-----------------------------------------------------------------------------
(* The sum of a function over a finite set (SumFunction).                  *)

SumOver(f, it, S) ==
    IF S = {} THEN 0 ELSE LET x == CHOOSE x \in S : TRUE IN f[x] + it[S \ {x}]

Sums(f, it, D) == it = [S \in SUBSET D |-> SumOver(f, it, S)]

\* The recursion of the library's fold has a solution.
LEMMA SumsExist ==
    ASSUME NEW D, IsFiniteSet(D), NEW f
    PROVE  \E it : Sums(f, it, D)
<1> DEFINE Upto(it, n) == \A S \in SUBSET D : Cardinality(S) <= n => it[S] = SumOver(f, it, S)
           Some(n) == \E it : it = [S \in SUBSET D |-> it[S]] /\ Upto(it, n)
           N == {n \in Nat : Some(n)}
<1>1. \A S \in SUBSET D : /\ Cardinality(S) \in Nat /\ Cardinality(S) <= Cardinality(D)
                          /\ \A x \in S : Cardinality(S \ {x}) = Cardinality(S) - 1
  BY FS_Subset, FS_CardinalityType, FS_RemoveElement
<1>2. 0 \in N
  <2> DEFINE zt == [S \in SUBSET D |-> 0]
  <2>1. \A S \in SUBSET D : Cardinality(S) <= 0 => S = {}
    BY <1>1, FS_Subset, FS_EmptySet
  <2>2. zt = [S \in SUBSET D |-> zt[S]] /\ Upto(zt, 0)
    BY <2>1 DEF SumOver
  <2> HIDE DEF zt
  <2>3. Some(0)
    BY <2>2
  <2> QED BY <2>3
<1>3. ASSUME NEW n \in Nat, n \in N PROVE n + 1 \in N
  <2>1. PICK it : it = [S \in SUBSET D |-> it[S]] /\ Upto(it, n)
    BY <1>3
  <2> DEFINE jt == [S \in SUBSET D |-> SumOver(f, it, S)]
  <2>0. \A S \in SUBSET D : jt[S] = SumOver(f, it, S)
    OBVIOUS
  <2>2. \A S \in SUBSET D : Cardinality(S) <= n => jt[S] = it[S]
    <3> SUFFICES ASSUME NEW S \in SUBSET D, Cardinality(S) <= n PROVE jt[S] = it[S]
      OBVIOUS
    <3>1. it[S] = SumOver(f, it, S)
      BY <2>1
    <3> HIDE DEF jt
    <3> QED BY <2>0, <3>1
  <2>3. ASSUME NEW S \in SUBSET D, Cardinality(S) <= n + 1 PROVE jt[S] = SumOver(f, jt, S)
    <3>1. CASE S = {}
      BY <3>1 DEF SumOver
    <3>2. CASE S # {}
      <4>1. PICK x \in S : x = CHOOSE y \in S : TRUE
        BY <3>2
      <4>2. S \ {x} \in SUBSET D /\ Cardinality(S \ {x}) <= n
        BY <2>3, <1>1
      <4>3. jt[S \ {x}] = it[S \ {x}]
        BY <4>2, <2>2
      <4> QED BY <4>1, <4>3, <3>2 DEF SumOver
    <3> QED BY <3>1, <3>2
  <2>4. jt = [S \in SUBSET D |-> jt[S]] /\ Upto(jt, n + 1)
    BY <2>3
  <2> HIDE DEF jt
  <2>5. Some(n + 1)
    BY <2>4
  <2> HIDE DEF Some
  <2> QED BY <2>5
<1> HIDE DEF N
<1>4. Cardinality(D) \in N
  BY <1>2, <1>3, Induction, FS_CardinalityType
<1>5. PICK it : it = [S \in SUBSET D |-> it[S]] /\ Upto(it, Cardinality(D))
  BY <1>4 DEF N
<1>6. \A S \in SUBSET D : it[S] = SumOver(f, it, S)
  BY <1>5, <1>1
<1>7. Sums(f, it, D)
  BY <1>5, <1>6 DEF Sums
<1> QED BY <1>7

\* All solutions agree where their functions do, whatever their domains.
LEMMA SumsAgree ==
    ASSUME NEW D, NEW E, IsFiniteSet(D), D \subseteq E, NEW f, NEW g, NEW it, NEW jt,
           \A x \in D : f[x] = g[x], Sums(f, it, D), Sums(g, jt, E)
    PROVE  \A S \in SUBSET D : it[S] = jt[S]
<1> DEFINE T == {S \in SUBSET D : it[S] = jt[S]}
<1>1. ASSUME NEW S \in SUBSET D, \A x \in S : S \ {x} \in T PROVE S \in T
  <2>1. it[S] = SumOver(f, it, S) /\ jt[S] = SumOver(g, jt, S)
    BY DEF Sums
  <2>2. CASE S = {}
    BY <2>1, <2>2 DEF SumOver
  <2>3. CASE S # {}
    <3>1. PICK x \in S : x = CHOOSE y \in S : TRUE
      BY <2>3
    <3>2. it[S] = f[x] + it[S \ {x}] /\ jt[S] = g[x] + jt[S \ {x}]
      BY <2>1, <2>3, <3>1 DEF SumOver
    <3> QED BY <3>1, <3>2, <1>1
  <2> QED BY <2>2, <2>3
<1> HIDE DEF T
<1>2. \A S \in SUBSET D : S \in T
  BY <1>1, RemovalInduction
<1> QED BY <1>2 DEF T

\* The sum of numbers is a number, and any element may be counted first.
LEMMA SumsAnyOrder ==
    ASSUME NEW D, IsFiniteSet(D), NEW f \in [D -> Nat], NEW it, Sums(f, it, D)
    PROVE  \A S \in SUBSET D : it[S] \in Nat /\ \A x \in S : it[S] = f[x] + it[S \ {x}]
<1> DEFINE N == {S \in SUBSET D : it[S] \in Nat}
           T == {S \in SUBSET D : \A x \in S : it[S] = f[x] + it[S \ {x}]}
<1>0. \A S \in SUBSET D : it[S] = SumOver(f, it, S)
  BY DEF Sums
<1>1. ASSUME NEW S \in SUBSET D, \A x \in S : S \ {x} \in N PROVE S \in N
  <2>1. CASE S = {}
    BY <1>0, <2>1 DEF SumOver
  <2>2. CASE S # {}
    <3>1. PICK x \in S : x = CHOOSE y \in S : TRUE
      BY <2>2
    <3>2. it[S] = f[x] + it[S \ {x}] /\ it[S \ {x}] \in Nat /\ f[x] \in Nat
      BY <1>0, <1>1, <2>2, <3>1 DEF SumOver
    <3> QED BY <3>2
  <2> QED BY <2>1, <2>2
<1>2. \A S \in SUBSET D : S \in N
  <2> HIDE DEF N
  <2> QED BY <1>1, RemovalInduction
<1>3. ASSUME NEW S \in SUBSET D, \A x \in S : S \ {x} \in T PROVE S \in T
  <2>2. CASE S = {}
    BY <2>2
  <2>3. CASE S # {}
    <3>1. PICK c \in S : c = CHOOSE y \in S : TRUE
      BY <2>3
    <3>2. it[S] = f[c] + it[S \ {c}]
      BY <1>0, <2>3, <3>1 DEF SumOver
    <3>3. \A x \in S \ {c} : it[S \ {c}] = f[x] + it[(S \ {c}) \ {x}]
      BY <1>3, <3>1
    <3>4. ASSUME NEW x \in S, x # c PROVE it[S] = f[x] + it[S \ {x}]
      <4>1. it[S \ {x}] = f[c] + it[(S \ {x}) \ {c}]
        <5>1. S \ {x} \in T /\ c \in S \ {x}
          BY <1>3, <3>4
        <5> QED BY <5>1
      <4>2. it[(S \ {x}) \ {c}] \in Nat /\ it[S \ {c}] = f[x] + it[(S \ {x}) \ {c}]
        <5>1. (S \ {c}) \ {x} = (S \ {x}) \ {c} /\ x \in S \ {c}
          BY <3>4
        <5> QED BY <5>1, <3>3, <1>2
      <4> QED BY <3>2, <4>1, <4>2
    <3> QED BY <3>1, <3>2, <3>3, <3>4
  <2> QED BY <2>2, <2>3
<1> HIDE DEF T
<1>4. \A S \in SUBSET D : S \in T
  BY <1>3, RemovalInduction
<1> QED BY <1>2, <1>4 DEF T

\* What the model uses of it: the sum of natural numbers is one, it is that of
\* the rest and any element, and nothing is added by the empty function.
LEMMA SumOfNumbers ==
    ASSUME NEW D, IsFiniteSet(D), NEW f \in [D -> Nat]
    PROVE  /\ SeqX!SumFunction(f) \in Nat
           /\ D = {} => SeqX!SumFunction(f) = 0
           /\ \A x \in D : SeqX!SumFunction(f)
                             = f[x] + SeqX!SumFunction([y \in D \ {x} |-> f[y]])
<1> DEFINE Chosen(g, S) == CHOOSE it : Sums(g, it, S)
<1>1. \A g, S : SeqX!SumFunctionOnSet(g, S) = Chosen(g, S)[S]
  BY DEF SeqX!SumFunctionOnSet, SeqX!FoldFunctionOnSet, SeqX!MapThenFoldSet, Sums, SumOver
<1>2. \A g, S : IsFiniteSet(S) => Sums(g, Chosen(g, S), S)
  BY SumsExist
<1> HIDE DEF Chosen
<1>3. SeqX!SumFunction(f) = Chosen(f, D)[D] /\ Sums(f, Chosen(f, D), D)
  BY <1>1, <1>2 DEF SeqX!SumFunction
<1>4. SeqX!SumFunction(f) \in Nat
  BY <1>3, SumsAnyOrder
<1>6. D = {} => SeqX!SumFunction(f) = 0
  BY <1>3 DEF Sums, SumOver
<1>5. ASSUME NEW x \in D
      PROVE  SeqX!SumFunction(f) = f[x] + SeqX!SumFunction([y \in D \ {x} |-> f[y]])
  <2> DEFINE E == D \ {x}
             g == [y \in E |-> f[y]]
  <2>1. IsFiniteSet(E) /\ E \subseteq D /\ \A y \in E : g[y] = f[y]
    BY FS_Subset
  <2>2. SeqX!SumFunction(g) = Chosen(g, E)[E] /\ Sums(g, Chosen(g, E), E)
    BY <1>1, <1>2, <2>1 DEF SeqX!SumFunction
  <2>3. Chosen(g, E)[E] = Chosen(f, D)[E]
    <3> HIDE DEF g, E
    <3> QED BY <2>1, <2>2, <1>3, SumsAgree
  <2>4. Chosen(f, D)[D] = f[x] + Chosen(f, D)[E]
    BY <1>3, SumsAnyOrder
  <2> QED BY <2>2, <2>3, <2>4, <1>3
<1> QED BY <1>4, <1>5, <1>6
-----------------------------------------------------------------------------
(* What the scrollbacks, the archives and the two saving goroutines hold.  *)

\* No piece of data is newer than the n-th, and they are in order.
Told(data, n) == InOrder(data) /\ \A i \in DOMAIN data : data[i] <= n

Buffers == [buf : Pieces, start : Nat, closed : BOOLEAN, wait : Nat]

\* A running session goes on where its output stands, or after a separator.
LiveInv ==
    /\ Len(ls) <= MaxOpens
    /\ out \in [Sessions -> 0 .. MaxOut]
    /\ \A o \in DOMAIN ls :
          /\ ls[o].sb \in Buffers /\ Len(ls[o].sb.buf) <= Max
          /\ Told(ls[o].sb.buf, out[ls[o].id])
          /\ ls[o].pump # "gone" /\ ls[o].sb.buf # <<>>
                => ls[o].sb.buf[Len(ls[o].sb.buf)] \in {Sep, out[ls[o].id]}

Calls == [pc : {"idle", "publish", "delete"}, id : Sessions \cup {"none"}, prior : Pieces]

CallInv ==
    /\ call \in Calls
    /\ call.pc # "idle" => call.id \in Sessions
    /\ call.pc = "publish" => Told(call.prior, out[call.id])

Entries == [id : Sessions, size : Nat]
Phases == {"each", "snap", "rename", "scan", "evict", "clear", "done"}

\* A goroutine that saves an object has one, and carries data between
\* snapshot and rename only.
SaverInv ==
    /\ sv \in [Savers -> [pc : Phases, todo : SUBSET Nat, cur : Nat, data : Pieces,
                          left : Seq(Entries), total : Nat]]
    /\ \A g \in Savers :
          /\ sv[g].todo \subseteq DOMAIN ls /\ sv[g].cur \in 0 .. Len(ls)
          /\ sv[g].pc \in {"snap", "rename", "scan", "evict", "clear"} => sv[g].cur # 0
          /\ sv[g].pc # "rename" => sv[g].data = <<>>
          /\ sv[g].pc = "rename" => /\ sv[g].data # <<>>
                                    /\ Told(sv[g].data, out[ls[sv[g].cur].id])

Distinct(q) == \A i, j \in DOMAIN q : q[i] = q[j] => i = j
Names(q) == {q[i] : i \in DOMAIN q}

\* The order of the files names each archive and each temp file once.
DiskInv ==
    /\ files \in [Sessions -> Pieces]
    /\ \A s \in Sessions : Told(files[s], out[s])
    /\ ages \in Seq(Sessions \cup Savers) /\ Distinct(ages)
    /\ \A s \in Sessions : s \in Names(ages) <=> files[s] # <<>>
    /\ \A g \in Savers : g \in Names(ages) <=> sv[g].pc = "rename"

OtherInv ==
    /\ host \in {"up", "flush", "wait", "exit", "down"} /\ stopped \in BOOLEAN
    /\ runs \in 1 .. MaxRuns /\ atFlush \in [Sessions -> 0 .. MaxOut]

\* What a scan lists: each archive once, with a size; together no more than the
\* total that is left.
Ids(left) == {left[i].id : i \in DOMAIN left}
Sized(left) == [s \in Ids(left) |-> left[CHOOSE i \in DOMAIN left : left[i].id = s].size]
ScanInv ==
    \A g \in Savers : sv[g].pc = "evict" =>
        /\ sv[g].left # <<>>
        /\ \A i, j \in DOMAIN sv[g].left : sv[g].left[i].id = sv[g].left[j].id => i = j
        /\ SeqX!SumFunction(Sized(sv[g].left)) <= sv[g].total

\* The goroutine's scan is not out of date.
Covers(g) ==
    /\ sv[g].pc = "evict" /\ Size <= sv[g].total
    /\ Present \subseteq Ids(sv[g].left) \cup {ls[sv[g].cur].id}
    /\ \A i \in DOMAIN sv[g].left :
          sv[g].left[i].id \in Present => Len(files[sv[g].left[i].id]) = sv[g].left[i].size

Enforcing == {g \in Savers : sv[g].pc \in {"scan", "evict"}}
Fits == Size <= Cap \/ \E s : Present \subseteq {s}

\* While the cap is enforced it holds already, or somebody is going to look or
\* has a scan that is not out of date.
CapInv ==
    /\ IsFiniteSet(Present)
    /\ Enforcing # {} => Fits \/ \E g \in Savers : sv[g].pc = "scan" \/ Covers(g)

StoreInv == LiveInv /\ CallInv /\ SaverInv /\ DiskInv /\ OtherInv /\ ScanInv /\ CapInv

-----------------------------------------------------------------------------
(* Lemmas about the buffer and the order of the files.                     *)

\* An end of what is in order is in order.
LEMMA SuffixTold ==
    ASSUME NEW data \in Pieces, NEW n \in Nat, Told(data, n), NEW k \in 0 .. Len(data)
    PROVE  /\ LastN(data, k) \in Pieces /\ Len(LastN(data, k)) = k
           /\ Told(LastN(data, k), n)
           /\ k > 0 => LastN(data, k)[k] = data[Len(data)]
<1> DEFINE d == LastN(data, k)
           a == Len(data) - k
<1>0. MaxOut \in Nat
  BY ArchiveAssumption
<1>1. a \in Nat /\ Len(data) \in Nat /\ DOMAIN data = 1 .. Len(data)
      /\ \A i \in DOMAIN data : data[i] \in 0 .. MaxOut
  <2>1. Len(data) \in Nat /\ DOMAIN data = 1 .. Len(data)
    BY LenProperties DEF Pieces
  <2>2. \A i \in 1 .. Len(data) : data[i] \in 0 .. MaxOut
    BY ElementOfSeq DEF Pieces
  <2> QED BY <2>1, <2>2
<1>2. d \in Pieces /\ Len(d) = k /\ DOMAIN d = 1 .. k /\ \A i \in 1 .. k : d[i] = data[a + i]
  <2>1. a + 1 \in 1 .. Len(data) + 1 /\ Len(data) \in 1 - 1 .. Len(data)
    BY <1>1
  <2>2. \A i \in a + 1 .. Len(data) : data[i] \in 0 .. MaxOut
    BY <1>1
  <2> QED BY <1>1, <2>1, <2>2, SubSeqProperties DEF LastN, Pieces
<1>3. \A i \in 1 .. k : a + i \in 1 .. Len(data)
  BY <1>1
<1> HIDE DEF d
<1>4. Told(d, n)
  <2>1. ASSUME NEW i \in 1 .. k, NEW j \in 1 .. k, i < j, d[i] # Sep, d[j] # Sep PROVE d[i] < d[j]
    <3>1. a + i \in DOMAIN data /\ a + j \in DOMAIN data /\ a + i < a + j
          /\ d[i] = data[a + i] /\ d[j] = data[a + j]
      BY <1>1, <1>2, <1>3, <2>1
    <3> HIDE DEF a
    <3> QED BY <3>1, <2>1 DEF Told, InOrder
  <2>2. ASSUME NEW i \in 1 .. k - 1, d[i] # Sep, d[i + 1] # Sep PROVE d[i + 1] = d[i] + 1
    <3>1. a + i \in 1 .. Len(data) - 1 /\ i \in 1 .. k /\ i + 1 \in 1 .. k
          /\ a + (i + 1) = (a + i) + 1
      BY <1>1
    <3> QED BY <1>1, <1>2, <3>1, <2>2, SMTT(30) DEF Told, InOrder
  <2>3. \A i \in 1 .. k : d[i] <= n
    BY <1>1, <1>2, <1>3 DEF Told
  <2> QED BY <1>2, <2>1, <2>2, <2>3 DEF Told, InOrder
<1>5. k > 0 => d[k] = data[Len(data)]
  BY <1>1, <1>2
<1> QED BY <1>2, <1>4, <1>5 DEF d

\* A separator may follow anything, a piece only the one before it.
LEMMA AppendTold ==
    ASSUME NEW data \in Pieces, NEW n \in Nat, Told(data, n), NEW x \in 0 .. MaxOut, NEW m \in Nat,
           \/ x = Sep /\ m = n
           \/ /\ x = n + 1 /\ m = n + 1
              /\ data # <<>> => data[Len(data)] \in {Sep, n}
    PROVE  Append(data, x) \in Pieces /\ Told(Append(data, x), m)
<1> DEFINE d == Append(data, x)
           l == Len(data)
<1>0. MaxOut \in Nat
  BY ArchiveAssumption
<1>1. l \in Nat /\ DOMAIN data = 1 .. l /\ \A i \in 1 .. l : data[i] \in 0 .. MaxOut
  <2>1. l \in Nat /\ DOMAIN data = 1 .. l
    BY LenProperties DEF Pieces
  <2>2. \A i \in 1 .. l : data[i] \in 0 .. MaxOut
    BY ElementOfSeq DEF Pieces
  <2> QED BY <2>1, <2>2
<1>2. d \in Pieces /\ DOMAIN d = 1 .. l + 1 /\ Len(d) = l + 1 /\ d[l + 1] = x
      /\ \A i \in 1 .. l : d[i] = data[i]
  BY AppendProperties DEF Pieces
<1>h. l = Len(data)
  OBVIOUS
<1> HIDE DEF d, l
<1>3. ASSUME NEW i \in 1 .. l + 1, NEW j \in 1 .. l + 1, i < j, d[i] # Sep, d[j] # Sep
      PROVE  d[i] < d[j]
  <2>1. i \in 1 .. l
    BY <1>1, <1>3
  <2>2. CASE j = l + 1
    BY <1>0, <1>1, <1>2, <1>3, <2>1, <2>2, SMTT(30) DEF Told
  <2>3. CASE j # l + 1
    <3>1. i \in DOMAIN data /\ j \in DOMAIN data /\ d[i] = data[i] /\ d[j] = data[j]
      BY <1>1, <1>2, <2>1, <2>3
    <3> QED BY <3>1, <1>3 DEF Told, InOrder
  <2> QED BY <2>2, <2>3
<1>4. ASSUME NEW i \in 1 .. l, d[i] # Sep, d[i + 1] # Sep PROVE d[i + 1] = d[i] + 1
  <2>1. CASE i = l
    <3>1. data # <<>> /\ d[i] = data[l] /\ d[i + 1] = x
      BY <1>1, <1>2, <2>1
    <3> QED BY <1>h, <1>4, <3>1
  <2>2. CASE i # l
    <3>1. i \in 1 .. l - 1 /\ i + 1 \in 1 .. l
      BY <1>1, <2>2
    <3> QED BY <1>1, <1>2, <1>4, <3>1 DEF Told, InOrder
  <2> QED BY <2>1, <2>2
<1>5. \A i \in 1 .. l + 1 : d[i] <= m
  BY <1>0, <1>1, <1>2 DEF Told, Sep
<1>6. Told(d, m)
  <2>1. (l + 1) - 1 = l
    BY <1>1
  <2> QED BY <2>1, <1>1, <1>2, <1>3, <1>4, <1>5 DEF Told, InOrder
<1> QED BY <1>2, <1>6 DEF d

\* Scrollback.Write of one piece or of the separator.
LEMMA WriteTold ==
    ASSUME NEW sb \in Buffers, NEW n \in Nat, Told(sb.buf, n), Len(sb.buf) <= Max,
           NEW x \in 0 .. MaxOut, NEW m \in Nat,
           \/ x = Sep /\ m = n
           \/ /\ x = n + 1 /\ m = n + 1
              /\ sb.buf # <<>> => sb.buf[Len(sb.buf)] \in {Sep, n}
    PROVE  LET w == Write(sb, <<x>>)
           IN  /\ w \in Buffers /\ Len(w.buf) <= Max /\ Told(w.buf, m)
               /\ w.buf # <<>> /\ w.buf[Len(w.buf)] = x
<1> DEFINE w == Write(sb, <<x>>)
           all == Append(sb.buf, x)
<1>1. /\ Max \in Nat \ {0} /\ sb.buf \in Pieces /\ Len(sb.buf) \in Nat
      /\ sb.start \in Nat /\ sb.wait \in Nat /\ sb.closed \in BOOLEAN
  BY MaxAssumption DEF Buffers, Pieces
<1>2. all \in Pieces /\ Told(all, m) /\ Len(all) = Len(sb.buf) + 1 /\ all[Len(all)] = x
  BY <1>1, AppendTold, AppendProperties DEF Pieces
<1>3. sb.buf \o <<x>> = all
  BY <1>1, AppendIsConcat DEF Pieces
<1> DEFINE drop == IF Len(all) > Max THEN Len(all) - Max ELSE 0
<1>4. w = [sb EXCEPT !.buf = LastN(all, Len(all) - drop), !.start = sb.start + drop,
                     !.wait = sb.wait + 1]
  <2>1. Len(<<x>>) = 1 /\ ~(1 > Max)
    BY <1>1
  <2> QED BY <2>1, <1>3 DEF Write
<1>5. drop \in Nat /\ Len(all) - drop \in 1 .. Len(all) /\ Len(all) - drop <= Max
  <2> HIDE DEF all
  <2>1. Len(all) \in Nat \ {0} /\ Max \in Nat \ {0}
    BY <1>1, <1>2
  <2>2. CASE Len(all) > Max
    BY <2>1, <2>2
  <2>3. CASE ~(Len(all) > Max)
    BY <2>1, <2>3
  <2> QED BY <2>2, <2>3
<1> HIDE DEF drop, all
<1>6. /\ LastN(all, Len(all) - drop) \in Pieces
      /\ Len(LastN(all, Len(all) - drop)) = Len(all) - drop
      /\ Told(LastN(all, Len(all) - drop), m)
      /\ LastN(all, Len(all) - drop)[Len(all) - drop] = x
  BY <1>2, <1>5, SuffixTold
<1> HIDE DEF w
<1>7. w \in Buffers /\ w.buf = LastN(all, Len(all) - drop)
  <2> DEFINE z == LastN(all, Len(all) - drop)
  <2>1. sb.start + drop \in Nat /\ sb.wait + 1 \in Nat
    BY <1>1, <1>5
  <2>4. z \in Pieces
    BY <1>6
  <2>2. w = [sb EXCEPT !.buf = z, !.start = sb.start + drop, !.wait = sb.wait + 1]
    BY <1>4
  <2> HIDE DEF z
  <2>3. w \in Buffers /\ w.buf = z
    BY <2>1, <2>2, <2>4 DEF Buffers
  <2> QED BY <2>3 DEF z
<1>8. w.buf # <<>>
  BY <1>5, <1>6, <1>7
<1> QED BY <1>5, <1>6, <1>7, <1>8 DEF w

\* What Open restores: history, if there is any, and a separator.
LEMMA RestoredTold ==
    ASSUME NEW prior \in Pieces, NEW n \in Nat, Told(prior, n)
    PROVE  LET w == Restored(prior)
           IN  /\ w \in Buffers /\ Len(w.buf) <= Max /\ Told(w.buf, n)
               /\ w.buf # <<>> => w.buf[Len(w.buf)] = Sep
<1>0. Max \in Nat \ {0} /\ MaxOut \in Nat
  BY MaxAssumption, ArchiveAssumption
<1>1. CASE prior = <<>>
  <2>1. Restored(prior) = NewScrollback
    BY <1>1 DEF Restored
  <2>2. NewScrollback \in Buffers /\ NewScrollback.buf = <<>> /\ Told(<<>>, n)
    BY DEF NewScrollback, Buffers, Pieces, Told, InOrder
  <2> QED BY <2>1, <2>2, <1>0
<1>2. CASE prior # <<>>
  <2> DEFINE over == Len(prior) > Max
             k == IF over THEN Max ELSE Len(prior)
             v == Write(NewScrollback, prior)
  <2>1. Len(prior) \in Nat /\ Len(prior) # 0 /\ k \in 0 .. Len(prior) /\ k <= Max
    BY <1>0, <1>2 DEF Pieces
  <2>2. LastN(prior, k) \in Pieces /\ Len(LastN(prior, k)) = k /\ Told(LastN(prior, k), n)
    BY <2>1, SuffixTold
  <2>3. LastN(prior, Len(prior)) = prior
    BY <2>1, SubSeqFull DEF LastN, Pieces
  <2>4. /\ v.buf = LastN(prior, k) /\ v.start \in Nat /\ v.wait \in Nat /\ v.closed \in BOOLEAN
        /\ v = [buf |-> v.buf, start |-> v.start, closed |-> v.closed, wait |-> v.wait]
    <3>0. NewScrollback.buf = <<>> /\ Len(<<>>) = 0 /\ NewScrollback.start = 0
          /\ NewScrollback.wait = 0 /\ NewScrollback.closed = FALSE
      BY DEF NewScrollback
    <3> DEFINE l == LastN(prior, k)
               from == IF over THEN OverflowStart(NewScrollback, prior) ELSE 0
    <3>1. l \in Pieces /\ Len(l) = k /\ <<>> \o l = l /\ LastN(l, k) = l
      <4>1. l \in Pieces /\ Len(l) = k
        BY <2>2
      <4> HIDE DEF l
      <4>2. <<>> \o l = l
        BY <4>1, ConcatEmptySeq DEF Pieces
      <4>3. k - k + 1 = 1
        BY <2>1
      <4>4. SubSeq(l, 1, Len(l)) = l
        BY <4>1, SubSeqFull DEF Pieces
      <4> QED BY <4>1, <4>2, <4>3, <4>4 DEF LastN
    <3>2. from \in Nat
      BY <2>1, <3>0, <1>0 DEF OverflowStart
    <3>3. l = IF over THEN LastN(prior, Max) ELSE prior
      BY <2>3
    <3>4. ~(k > Max) /\ k - 0 = k /\ from + 0 = from
      BY <2>1, <3>2, <1>0
    <3> DEFINE kk == Len(<<>> \o l)
    <3>5. v = [NewScrollback EXCEPT
                 !.buf = LastN(<<>> \o l, kk - (IF kk > Max THEN kk - Max ELSE 0)),
                 !.start = from + (IF kk > Max THEN kk - Max ELSE 0), !.wait = @ + 1]
      <4> HIDE DEF l, from
      <4>1. l = (IF Len(prior) > Max THEN LastN(prior, Max) ELSE prior)
        BY <3>3
      <4>2. from = IF Len(prior) > Max THEN OverflowStart(NewScrollback, prior) ELSE NewScrollback.start
        BY <3>0 DEF from
      <4>3. <<>> = IF Len(prior) > Max THEN <<>> ELSE NewScrollback.buf
        BY <3>0
      <4> QED BY <4>1, <4>2, <4>3 DEF Write
    <3> HIDE DEF l, from, v
    <3>6. v = [NewScrollback EXCEPT !.buf = l, !.start = from, !.wait = @ + 1]
      <4>1. kk = k /\ (IF kk > Max THEN kk - Max ELSE 0) = 0
        BY <3>1, <3>4
      <4> HIDE DEF kk
      <4>2. v = [NewScrollback EXCEPT !.buf = LastN(<<>> \o l, kk - 0),
                                        !.start = from + 0, !.wait = @ + 1]
        BY <4>1, <3>5
      <4> QED BY <4>1, <4>2, <3>1, <3>4
    <3>7. v = [buf |-> l, start |-> from, closed |-> FALSE, wait |-> 0 + 1]
      BY <3>6 DEF NewScrollback
    <3>8. v.buf = l /\ v.start = from /\ v.closed = FALSE /\ v.wait = 1
      BY <3>7
    <3> QED BY <3>2, <3>7, <3>8 DEF l
  <2> HIDE DEF v
  <2>5. v \in Buffers /\ Len(v.buf) <= Max /\ Told(v.buf, n)
    BY <2>1, <2>2, <2>4 DEF Buffers
  <2>6. Restored(prior) = Write(v, <<Sep>>)
    BY <1>2 DEF Restored, NewScrollbackWithData, v
  <2>7. Sep \in 0 .. MaxOut /\ Sep = 0 /\ MaxOut \in Nat
    BY <1>0 DEF Sep
  <2>8. LET w == Write(v, <<Sep>>)
        IN  w \in Buffers /\ Len(w.buf) <= Max /\ Told(w.buf, n) /\ w.buf[Len(w.buf)] = Sep
    BY <2>5, <2>7, WriteTold
  <2> QED BY <2>6, <2>8
<1> QED BY <1>1, <1>2

\* Taking a name out of the order of the files.
LEMMA Removed ==
    ASSUME NEW S, NEW q \in Seq(S), Distinct(q), NEW x
    PROVE  LET r == SeqX!RemoveFirst(q, x)
           IN  r \in Seq(S) /\ Distinct(r) /\ Names(r) = Names(q) \ {x}
<1>0. Len(q) \in Nat /\ DOMAIN q = 1 .. Len(q)
  OBVIOUS
<1>1. CASE ~ \E i \in 1 .. Len(q) : q[i] = x
  BY <1>0, <1>1 DEF SeqX!RemoveFirst, Names
<1>2. CASE \E i \in 1 .. Len(q) : q[i] = x
  <2> DEFINE I == {i \in 1 .. Len(q) : q[i] = x}
  <2>1. PICK k \in 1 .. Len(q) : q[k] = x
    BY <1>2
  <2>2. I = {k}
    BY <2>1, <1>0 DEF Distinct
  <2>3. SeqX!Min({k}) = k
    BY <2>1 DEF SeqX!Min
  <2>4. SeqX!RemoveFirst(q, x) = SeqX!RemoveAt(q, k)
    <3>1. SeqX!SelectInSeq(q, LAMBDA v : v = x) = k
      BY <2>2, <2>3 DEF SeqX!SelectInSeq
    <3> QED BY <3>1, <1>2 DEF SeqX!RemoveFirst
  <2> DEFINE a == SubSeq(q, 1, k - 1)
             b == SubSeq(q, k + 1, Len(q))
             r == a \o b
  <2>5. /\ a \in Seq(S) /\ Len(a) = k - 1 /\ \A i \in 1 .. k - 1 : a[i] = q[i]
        /\ b \in Seq(S) /\ Len(b) = Len(q) - k /\ \A i \in 1 .. Len(q) - k : b[i] = q[k + i]
    <3>1. \A i \in 1 .. Len(q) : q[i] \in S
      BY ElementOfSeq
    <3>2. /\ k - 1 \in Int /\ k + 1 \in Int /\ Len(q) \in Int
          /\ \A i \in 1 .. k - 1 : q[i] \in S
          /\ \A i \in k + 1 .. Len(q) : q[i] \in S
      BY <2>1, <3>1, <1>0
    <3>3. /\ a \in Seq(S) /\ Len(a) = IF 1 <= k - 1 THEN (k - 1) - 1 + 1 ELSE 0
          /\ \A i \in 1 .. (k - 1) - 1 + 1 : a[i] = q[1 + i - 1]
      BY <3>2, SubSeqProperties
    <3>4. /\ b \in Seq(S) /\ Len(b) = IF k + 1 <= Len(q) THEN Len(q) - (k + 1) + 1 ELSE 0
          /\ \A i \in 1 .. Len(q) - (k + 1) + 1 : b[i] = q[(k + 1) + i - 1]
      BY <3>2, SubSeqProperties
    <3> HIDE DEF a, b
    <3>5. (k - 1) - 1 + 1 = k - 1 /\ Len(q) - (k + 1) + 1 = Len(q) - k
          /\ \A i \in Int : 1 + i - 1 = i /\ (k + 1) + i - 1 = k + i
      BY <2>1, <1>0
    <3>6. a \in Seq(S) /\ Len(a) = k - 1 /\ \A i \in 1 .. k - 1 : a[i] = q[i]
      <4>1. \A i \in 1 .. k - 1 : a[i] = q[1 + i - 1] /\ 1 + i - 1 = i
        BY <3>3, <3>5
      <4> QED BY <4>1, <3>3, <2>1
    <3>7. b \in Seq(S) /\ Len(b) = Len(q) - k /\ \A i \in 1 .. Len(q) - k : b[i] = q[k + i]
      <4>1. ASSUME NEW i \in 1 .. Len(q) - k PROVE b[i] = q[k + i]
        <5>1. (k + 1) + i - 1 = k + i /\ i \in 1 .. Len(q) - (k + 1) + 1
          BY <2>1, <1>0
        <5>2. b[i] = q[(k + 1) + i - 1]
          BY <5>1, <3>4
        <5> QED BY <5>1, <5>2
      <4> QED BY <4>1, <3>4, <2>1, <1>0
    <3> QED BY <3>6, <3>7
  <2> HIDE DEF a, b
  <2>6. /\ r \in Seq(S) /\ Len(r) = Len(q) - 1 /\ DOMAIN r = 1 .. Len(q) - 1
        /\ \A i \in 1 .. Len(q) - 1 : r[i] = IF i < k THEN q[i] ELSE q[i + 1]
    <3>1. /\ r \in Seq(S) /\ Len(r) = Len(a) + Len(b)
          /\ \A i \in 1 .. Len(a) + Len(b) : r[i] = IF i <= Len(a) THEN a[i] ELSE b[i - Len(a)]
      BY <2>5, ConcatProperties
    <3> HIDE DEF r
    <3>2. Len(a) + Len(b) = Len(q) - 1
      BY <2>1, <2>5, <1>0
    <3>3. ASSUME NEW i \in 1 .. Len(q) - 1 PROVE r[i] = IF i < k THEN q[i] ELSE q[i + 1]
      <4>1. CASE i < k
        <5>1. i \in 1 .. k - 1 /\ i <= Len(a) /\ i \in 1 .. Len(a) + Len(b)
          BY <4>1, <3>2, <2>1, <2>5, <1>0
        <5>2. r[i] = a[i] /\ a[i] = q[i]
          BY <5>1, <3>1, <2>5
        <5> QED BY <4>1, <5>2
      <4>2. CASE ~(i < k)
        <5>1. i - (k - 1) \in 1 .. Len(q) - k /\ k + (i - (k - 1)) = i + 1 /\ ~(i <= k - 1)
          BY <4>2, <2>1, <1>0
        <5>2. r[i] = b[i - (k - 1)]
          BY <5>1, <3>1, <3>2, <2>5
        <5>3. b[i - (k - 1)] = q[k + (i - (k - 1))]
          BY <5>1, <2>5
        <5> QED BY <4>2, <5>1, <5>2, <5>3
      <4> QED BY <4>1, <4>2
    <3> QED BY <3>1, <3>2, <3>3, LenProperties
  <2> HIDE DEF r
  <2>7. Distinct(r)
    BY <2>1, <2>6, <1>0 DEF Distinct
  <2>8. Names(r) = Names(q) \ {x}
    <3>1. ASSUME NEW i \in 1 .. Len(q) - 1 PROVE r[i] \in Names(q) \ {x}
      <4>1. CASE i < k
        BY <4>1, <2>1, <2>6, <1>0 DEF Names, Distinct
      <4>2. CASE ~(i < k)
        <5>1. i + 1 \in 1 .. Len(q) /\ i + 1 # k /\ r[i] = q[i + 1]
          BY <4>2, <2>1, <2>6, <1>0
        <5> QED BY <5>1, <2>1, <1>0 DEF Names, Distinct
      <4> QED BY <4>1, <4>2
    <3>2. ASSUME NEW i \in 1 .. Len(q), q[i] # x PROVE q[i] \in Names(r)
      <4>1. CASE i < k
        <5>1. i \in 1 .. Len(q) - 1 /\ r[i] = q[i]
          BY <4>1, <2>1, <2>6, <1>0
        <5> QED BY <5>1, <2>6 DEF Names
      <4>2. CASE ~(i < k)
        <5>1. i - 1 \in 1 .. Len(q) - 1 /\ r[i - 1] = q[i]
          BY <4>2, <2>1, <3>2, <2>6, <1>0
        <5> QED BY <5>1, <2>6 DEF Names
      <4> QED BY <4>1, <4>2
    <3> QED BY <3>1, <3>2, <2>6, <1>0 DEF Names
  <2> QED BY <2>4, <2>6, <2>7, <2>8 DEF SeqX!RemoveAt, a, b, r
<1> QED BY <1>1, <1>2

\* A new name at the end, and one name in place of another.
LEMMA Added ==
    ASSUME NEW S, NEW q \in Seq(S), Distinct(q), NEW x \in S, x \notin Names(q)
    PROVE  /\ Append(q, x) \in Seq(S) /\ Distinct(Append(q, x))
           /\ Names(Append(q, x)) = Names(q) \cup {x}
<1> DEFINE r == Append(q, x)
<1>1. /\ r \in Seq(S) /\ DOMAIN q = 1 .. Len(q) /\ Len(q) \in Nat /\ DOMAIN r = 1 .. Len(q) + 1
      /\ r[Len(q) + 1] = x /\ \A i \in 1 .. Len(q) : r[i] = q[i]
  BY AppendProperties
<1> HIDE DEF r
<1>2. Distinct(r) /\ Names(r) = Names(q) \cup {x}
  BY <1>1 DEF Distinct, Names
<1> QED BY <1>1, <1>2 DEF r

\* One name in the order of the files takes the place of another.
LEMMA Replaced ==
    ASSUME NEW S, NEW q \in Seq(S), Distinct(q), NEW x \in S, x \notin Names(q), NEW g \in Names(q)
    PROVE  LET r == SeqX!ReplaceAll(q, g, x)
           IN  r \in Seq(S) /\ Distinct(r) /\ Names(r) = (Names(q) \ {g}) \cup {x}
<1> DEFINE r == SeqX!ReplaceAll(q, g, x)
<1>1. DOMAIN q = 1 .. Len(q) /\ Len(q) \in Nat /\ \A i \in 1 .. Len(q) : q[i] \in S
  BY ElementOfSeq
<1>2. r = [i \in 1 .. Len(q) |-> IF q[i] = g THEN x ELSE q[i]]
  BY DEF SeqX!ReplaceAll
<1>3. r \in Seq(S) /\ DOMAIN r = 1 .. Len(q)
  BY <1>1, <1>2, IsASeq
<1> HIDE DEF r
<1>4. Distinct(r) /\ Names(r) = (Names(q) \ {g}) \cup {x}
  BY <1>1, <1>2, <1>3 DEF Distinct, Names
<1> QED BY <1>3, <1>4 DEF r

-----------------------------------------------------------------------------
(* The size of the archives, and what a scan lists.                        *)

\* The data of a scrollback is a sequence with a length.
LEMMA PiecesHaveLength ==
    ASSUME NEW d \in Pieces
    PROVE  Len(d) \in Nat /\ DOMAIN d = 1 .. Len(d) /\ (d = <<>> <=> Len(d) = 0)
  BY LenProperties, EmptySeq DEF Pieces

\* The size is a number, and a removed file is missing in it.
LEMMA SizeRemoved ==
    ASSUME files \in [Sessions -> Pieces], IsFiniteSet(Present), NEW s \in Present,
           files' = [files EXCEPT ![s] = <<>>]
    PROVE  /\ Present' = Present \ {s} /\ IsFiniteSet(Present')
           /\ Size \in Nat /\ Size' \in Nat /\ Size = Len(files[s]) + Size'
<1> DEFINE f == [t \in Present |-> Len(files[t])]
<1>1. f \in [Present -> Nat] /\ Present \subseteq Sessions
  BY PiecesHaveLength DEF Present
<1>2. Present' = Present \ {s} /\ \A t \in Present \ {s} : files'[t] = files[t]
  BY <1>1 DEF Present
<1>3. [t \in Present |-> Len(files[t])]' = [t \in Present \ {s} |-> f[t]]
  BY <1>2
<1>4. Size = SeqX!SumFunction(f) /\ Size' = SeqX!SumFunction([t \in Present \ {s} |-> f[t]])
  BY <1>3 DEF Size
<1>5. /\ SeqX!SumFunction(f) \in Nat
      /\ SeqX!SumFunction(f) = f[s] + SeqX!SumFunction([t \in Present \ {s} |-> f[t]])
  <2> HIDE DEF f
  <2>1. \A x \in Present : SeqX!SumFunction(f)
                         = f[x] + SeqX!SumFunction([t \in Present \ {x} |-> f[t]])
    BY <1>1, SumOfNumbers
  <2>2. SeqX!SumFunction(f) \in Nat
    BY <1>1, SumOfNumbers
  <2> QED BY <2>1, <2>2
<1>6. SeqX!SumFunction([t \in Present \ {s} |-> f[t]]) \in Nat
  <2> DEFINE E == Present \ {s}
             h == [t \in E |-> f[t]]
  <2>1. IsFiniteSet(E) /\ h \in [E -> Nat]
    BY <1>1, FS_Subset
  <2> HIDE DEF E, h
  <2>2. SeqX!SumFunction(h) \in Nat
    BY <2>1, SumOfNumbers
  <2> QED BY <2>2 DEF E, h
<1>7. IsFiniteSet(Present \ {s})
  BY FS_Subset
<1> QED BY <1>2, <1>4, <1>5, <1>6, <1>7

\* The size of the archives is a number, 0 when there is none.
LEMMA SizeIsNat ==
    ASSUME files \in [Sessions -> Pieces], IsFiniteSet(Present)
    PROVE  Size \in Nat /\ (Present = {} => Size = 0)
<1> DEFINE f == [t \in Present |-> Len(files[t])]
<1>1. f \in [Present -> Nat]
  BY PiecesHaveLength DEF Present
<1> HIDE DEF f
<1>2. SeqX!SumFunction(f) \in Nat /\ (Present = {} => SeqX!SumFunction(f) = 0)
  BY <1>1, SumOfNumbers
<1> QED BY <1>2 DEF f, Size

DistinctIds(left) == \A i, j \in DOMAIN left : left[i].id = left[j].id => i = j

\* The size that a list has for an id.
LEMMA SizedIs ==
    ASSUME NEW left, DistinctIds(left), NEW i \in DOMAIN left
    PROVE  Sized(left)[left[i].id] = left[i].size
<1>1. left[i].id \in Ids(left)
  BY DEF Ids
<1>2. (CHOOSE j \in DOMAIN left : left[j].id = left[i].id) = i
  BY DEF DistinctIds
<1> QED BY <1>1, <1>2 DEF Sized

\* The first entry of a list, and the rest of it.
LEMMA SizedTail ==
    ASSUME NEW left \in Seq(Entries), left # <<>>, DistinctIds(left)
    PROVE  LET e == Head(left)
               rest == Tail(left)
           IN  /\ e \in Entries /\ rest \in Seq(Entries) /\ DistinctIds(rest)
               /\ Len(rest) = Len(left) - 1
               /\ Ids(rest) = Ids(left) \ {e.id}
               /\ \A i \in DOMAIN rest : \E j \in DOMAIN left : rest[i] = left[j]
               /\ \E j \in DOMAIN left : e = left[j]
               /\ SeqX!SumFunction(Sized(rest)) \in Nat
               /\ SeqX!SumFunction(Sized(left)) = e.size + SeqX!SumFunction(Sized(rest))
<1> DEFINE e == Head(left)
           rest == Tail(left)
           n == Len(left)
<1>1. n \in Nat /\ n # 0 /\ DOMAIN left = 1 .. n /\ \A i \in 1 .. n : left[i] \in Entries
  BY LenProperties, EmptySeq, ElementOfSeq
<1>2. /\ e = left[1] /\ rest \in Seq(Entries) /\ Len(rest) = n - 1
      /\ DOMAIN rest = 1 .. n - 1
      /\ \A i \in 1 .. n - 1 : rest[i] = left[i + 1]
  BY <1>1, HeadTailProperties, LenProperties
<1>h. n = Len(left)
  OBVIOUS
<1> HIDE DEF e, rest, n
<1>3. \A i \in 1 .. n - 1 : i + 1 \in 1 .. n /\ i + 1 # 1
  BY <1>1
<1>4. DistinctIds(rest)
  <2> SUFFICES ASSUME NEW i \in 1 .. n - 1, NEW j \in 1 .. n - 1, rest[i].id = rest[j].id
               PROVE  i = j
    BY <1>2 DEF DistinctIds
  <2>1. i + 1 \in DOMAIN left /\ j + 1 \in DOMAIN left
    BY <1>1, <1>3
  <2>2. left[i + 1].id = left[j + 1].id
    BY <1>2
  <2>3. i + 1 = j + 1
    BY <2>1, <2>2 DEF DistinctIds
  <2> QED BY <2>3
<1>13. /\ \A i \in DOMAIN rest : \E j \in DOMAIN left : j # 1 /\ rest[i] = left[j]
       /\ \A j \in DOMAIN left : j = 1 \/ \E i \in DOMAIN rest : rest[i] = left[j]
       /\ 1 \in DOMAIN left
  <2>1. \A i \in DOMAIN rest : i + 1 \in DOMAIN left /\ i + 1 # 1 /\ rest[i] = left[i + 1]
    BY <1>1, <1>2, <1>3
  <2>2. ASSUME NEW j \in 1 .. n, j # 1 PROVE j - 1 \in 1 .. n - 1 /\ rest[j - 1] = left[j]
    <3>1. j - 1 \in 1 .. n - 1 /\ (j - 1) + 1 = j
      BY <2>2, <1>1
    <3> QED BY <3>1, <1>2
  <2>3. \A j \in DOMAIN left : j = 1 \/ \E i \in DOMAIN rest : rest[i] = left[j]
    BY <2>2, <1>1, <1>2
  <2>4. 1 \in DOMAIN left
    BY <1>1
  <2> QED BY <2>1, <2>3, <2>4
<1>5. Ids(rest) = Ids(left) \ {e.id}
  <2>1. ASSUME NEW i \in DOMAIN rest PROVE rest[i].id \in Ids(left) /\ rest[i].id # e.id
    BY <1>2, <1>13 DEF Ids, DistinctIds
  <2>2. ASSUME NEW j \in DOMAIN left, left[j].id # e.id PROVE left[j].id \in Ids(rest)
    BY <2>2, <1>2, <1>13 DEF Ids
  <2> QED BY <2>1, <2>2 DEF Ids
<1>6. e.id \in Ids(left) /\ Sized(left)[e.id] = e.size
  BY <1>2, <1>13, SizedIs DEF Ids
<1>7. \A i \in DOMAIN rest : rest[i].id \in Ids(left) /\ Sized(left)[rest[i].id] = rest[i].size
  BY <1>13, SizedIs DEF Ids
<1>8. Sized(rest) = [s \in Ids(left) \ {e.id} |-> Sized(left)[s]]
  <2>1. ASSUME NEW s \in Ids(rest) PROVE Sized(rest)[s] = Sized(left)[s]
    <3>1. PICK i \in DOMAIN rest : rest[i].id = s
      BY DEF Ids
    <3> QED BY <3>1, <1>4, <1>7, SizedIs
  <2>2. Sized(rest) = [s \in Ids(rest) |-> Sized(rest)[s]]
    BY DEF Sized
  <2> QED BY <1>5, <2>1, <2>2
<1>9. IsFiniteSet(Ids(left)) /\ Sized(left) \in [Ids(left) -> Nat]
  <2>1. IsFiniteSet(1 .. n)
    BY <1>1, FS_Interval
  <2>2. IsFiniteSet(Ids(left))
    <3> DEFINE f == [i \in 1 .. n |-> left[i].id]
    <3>1. f \in Surjection(1 .. n, Ids(left))
      BY <1>1 DEF Surjection, Ids
    <3> QED BY <2>1, <3>1, FS_Surjection
  <2>3. \A s \in Ids(left) : \E i \in 1 .. n : s = left[i].id
    BY <1>1 DEF Ids
  <2>4. \A s \in Ids(left) : Sized(left)[s] \in Nat
    BY <2>3, <1>1, SizedIs DEF Entries
  <2>5. Sized(left) = [s \in Ids(left) |-> Sized(left)[s]]
    BY DEF Sized
  <2> QED BY <2>2, <2>4, <2>5
<1>10. SeqX!SumFunction(Sized(left)) = e.size + SeqX!SumFunction(Sized(rest))
  <2> DEFINE D == Ids(left)
             f == Sized(left)
  <2>1. IsFiniteSet(D) /\ f \in [D -> Nat] /\ e.id \in D /\ f[e.id] = e.size
    BY <1>6, <1>9
  <2> HIDE DEF D, f
  <2>2. SeqX!SumFunction(f) = e.size + SeqX!SumFunction([y \in D \ {e.id} |-> f[y]])
    <3>1. \A x \in D : SeqX!SumFunction(f)
                       = f[x] + SeqX!SumFunction([y \in D \ {x} |-> f[y]])
      BY <2>1, SumOfNumbers
    <3> QED BY <2>1, <3>1
  <2> QED BY <2>2, <1>8 DEF D, f
<1>11. SeqX!SumFunction(Sized(rest)) \in Nat
  <2> DEFINE D == Ids(left) \ {e.id}
             f == Sized(rest)
  <2>1. IsFiniteSet(D) /\ f \in [D -> Nat]
    BY <1>8, <1>9, FS_Subset
  <2> HIDE DEF D, f
  <2>2. SeqX!SumFunction(f) \in Nat
    BY <2>1, SumOfNumbers
  <2> QED BY <2>2 DEF f
<1>12. e \in Entries /\ (\E j \in DOMAIN left : e = left[j])
       /\ \A i \in DOMAIN rest : \E j \in DOMAIN left : rest[i] = left[j]
  <2>1. e \in Entries /\ (\E j \in DOMAIN left : e = left[j])
    BY <1>1, <1>2, <1>13
  <2> QED BY <2>1, <1>13
<1>14. /\ rest \in Seq(Entries) /\ DistinctIds(rest)
       /\ e \in Entries /\ (\E j \in DOMAIN left : e = left[j])
       /\ \A i \in DOMAIN rest : \E j \in DOMAIN left : rest[i] = left[j]
  BY <1>2, <1>4, <1>12
<1>15. Len(rest) = Len(left) - 1
  BY <1>2, <1>h
<1> QED BY <1>14, <1>15, <1>5, <1>10, <1>11, Zenon DEF e, rest

\* The names of all archives, and nothing else.
LEMMA ArchivesAre ==
    ASSUME DiskInv
    PROVE  /\ Archives \in Seq(Sessions \cup Savers) /\ Distinct(Archives)
           /\ Names(Archives) = Present
           /\ DOMAIN Archives = 1 .. Len(Archives) /\ Len(Archives) \in Nat
           /\ \A i \in DOMAIN Archives : Archives[i] \in Present
<1> DEFINE S == Sessions \cup Savers
           q == Without("flusher")
<1>1. ages \in Seq(S) /\ Distinct(ages) /\ Names(ages) \subseteq S
  BY ElementOfSeq DEF DiskInv, Names
<1>2. q \in Seq(S) /\ Distinct(q) /\ Names(q) = Names(ages) \ {"flusher"}
  BY <1>1, Removed DEF Without
<1> HIDE DEF q
<1>3. Archives \in Seq(S) /\ Distinct(Archives) /\ Names(Archives) = Names(q) \ {"main"}
  BY <1>2, Removed DEF Archives, q
<1>4. Names(Archives) = Names(ages) \cap Sessions
  BY <1>1, <1>2, <1>3, ArchiveAssumption DEF Savers
<1>5. Names(Archives) = Present
  BY <1>4 DEF DiskInv, Present
<1> QED BY <1>3, <1>5, LenProperties DEF Names

\* The list a scan makes.
LEMMA ScanLists ==
    ASSUME DiskInv, IsFiniteSet(Present), NEW left,
           left = [i \in DOMAIN Archives |->
                     [id |-> Archives[i], size |-> Len(files[Archives[i]])]]
    PROVE  /\ left \in Seq(Entries) /\ DistinctIds(left) /\ Ids(left) = Present
           /\ SeqX!SumFunction(Sized(left)) = Size
           /\ \A i \in DOMAIN left : Len(files[left[i].id]) = left[i].size
           /\ Present # {} => left # <<>>
<1>1. /\ DOMAIN Archives = 1 .. Len(Archives) /\ Len(Archives) \in Nat
      /\ \A i \in DOMAIN Archives : Archives[i] \in Present
      /\ Names(Archives) = Present /\ Distinct(Archives)
  BY ArchivesAre
<1>2. Present \subseteq Sessions /\ \A s \in Present : Len(files[s]) \in Nat
  BY PiecesHaveLength DEF Present, DiskInv
<1>3. \A i \in DOMAIN left : /\ left[i] \in Entries /\ left[i].id = Archives[i]
                             /\ left[i].size = Len(files[Archives[i]])
  BY <1>1, <1>2 DEF Entries
<1>4. left \in Seq(Entries) /\ DOMAIN left = DOMAIN Archives
  <2>1. left \in [1 .. Len(Archives) -> Entries]
    BY <1>1, <1>3
  <2> QED BY <2>1, <1>1, SeqDef
<1>5. DistinctIds(left) /\ Ids(left) = Present
  BY <1>1, <1>3, <1>4 DEF DistinctIds, Distinct, Ids, Names
<1>6. Sized(left) = [s \in Present |-> Len(files[s])]
  <2>1. ASSUME NEW s \in Present PROVE Sized(left)[s] = Len(files[s])
    <3>1. PICK i \in DOMAIN left : left[i].id = s
      BY <1>5 DEF Ids
    <3> QED BY <3>1, <1>3, <1>5, SizedIs
  <2>2. Sized(left) = [s \in Ids(left) |-> Sized(left)[s]]
    BY DEF Sized
  <2> QED BY <2>1, <2>2, <1>5
<1>7. Present # {} => left # <<>>
  <2> SUFFICES ASSUME Present # {}, left = <<>> PROVE FALSE
    OBVIOUS
  <2>1. DOMAIN left = {}
    OBVIOUS
  <2> QED BY <2>1, <1>5 DEF Ids
<1> QED BY <1>3, <1>4, <1>5, <1>6, <1>7 DEF Size

-----------------------------------------------------------------------------
(* Each step keeps what is stored in order, and the disk within the cap.   *)

\* More output only makes what is in order older.
LEMMA ToldLater ==
    ASSUME NEW d \in Pieces, NEW n \in Nat, NEW m \in Nat, n <= m, Told(d, n)
    PROVE  Told(d, m)
<1>1. MaxOut \in Nat /\ \A i \in DOMAIN d : d[i] \in 0 .. MaxOut
  BY ArchiveAssumption, ElementOfSeq, LenProperties DEF Pieces
<1> QED BY <1>1 DEF Told

\* The same objects, one by one, with the same data.
SameData ==
    /\ DOMAIN ls' = DOMAIN ls /\ Len(ls') = Len(ls)
    /\ \A o \in DOMAIN ls : /\ ls'[o].id = ls[o].id
                            /\ ls'[o].sb \in Buffers /\ ls'[o].sb.buf = ls[o].sb.buf
                            /\ ls'[o].pump # "gone" => ls[o].pump # "gone"

\* Objects with the same data keep what is said of them.
LEMMA LiveFrame ==
    ASSUME LiveInv, SameData, UNCHANGED out
    PROVE  LiveInv'
  BY DEF LiveInv, SameData

\* Objects stay what they were, others come, output goes on.
Grows ==
    /\ DOMAIN ls \subseteq DOMAIN ls' /\ Len(ls) \in Nat /\ Len(ls') \in Nat /\ Len(ls) <= Len(ls')
    /\ DOMAIN ls = 1 .. Len(ls)
    /\ \A o \in DOMAIN ls : ls[o].id \in Sessions /\ ls'[o].id = ls[o].id
    /\ out \in [Sessions -> 0 .. MaxOut] /\ out' \in [Sessions -> 0 .. MaxOut]
    /\ \A s \in Sessions : out[s] <= out'[s]

\* Output is counted.
LEMMA OutIsNat ==
    ASSUME Grows
    PROVE  \A s \in Sessions : out[s] \in Nat /\ out'[s] \in Nat
  BY ArchiveAssumption DEF Grows

\* What the map invariant says of the objects.
LEMMA ObjectTypes ==
    ASSUME TableInv
    PROVE  /\ DOMAIN ls = 1 .. Len(ls) /\ Len(ls) \in Nat
           /\ \A o \in DOMAIN ls :
                 /\ ls[o].id \in Sessions /\ ls[o].dirty \in BOOLEAN
                 /\ ls[o].pty \in {"open", "late", "closed"}
                 /\ ls[o].pump \in {"read", "mark", "gone"}
                 /\ ls[o] = [id |-> ls[o].id, sb |-> ls[o].sb, dirty |-> ls[o].dirty,
                             pty |-> ls[o].pty, pump |-> ls[o].pump]
<1>1. PICK B : ls \in Seq(Objects(B))
  BY DEF TableInv, TableType
<1>2. \A o \in DOMAIN ls : ls[o] \in Objects(B)
  BY <1>1, ElementOfSeq, LenProperties
<1> QED BY <1>1, <1>2, LenProperties DEF Objects

\* Objects that keep their data are objects that grow.
LEMMA GrowsSame ==
    ASSUME TableInv, LiveInv, SameData, UNCHANGED out
    PROVE  Grows
  BY ObjectTypes, ArchiveAssumption DEF LiveInv, SameData, Grows

\* A goroutine that does not save the object of a step.
LEMMA SaverFrame ==
    ASSUME SaverInv, Grows, UNCHANGED sv
    PROVE  SaverInv'
<1>1. ASSUME NEW g \in Savers, sv[g].pc = "rename"
      PROVE  Told(sv[g].data, out'[ls'[sv[g].cur].id])
  <2>1. sv[g].data \in Pieces /\ Told(sv[g].data, out[ls[sv[g].cur].id])
        /\ sv[g].cur \in DOMAIN ls
    BY <1>1 DEF SaverInv, Grows
  <2>2. ls[sv[g].cur].id \in Sessions /\ ls'[sv[g].cur].id = ls[sv[g].cur].id
    BY <2>1 DEF Grows
  <2> QED BY <2>1, <2>2, OutIsNat, ToldLater DEF Grows
<1>2. \A g \in Savers : sv[g].todo \subseteq DOMAIN ls' /\ sv[g].cur \in 0 .. Len(ls')
  BY DEF SaverInv, Grows
<1> QED BY <1>1, <1>2 DEF SaverInv

\* The disk when a step leaves it alone, and who has a temp file.
LEMMA DiskFrame ==
    ASSUME DiskInv, Grows, UNCHANGED <<files, ages>>,
           \A g \in Savers : sv'[g].pc = "rename" <=> sv[g].pc = "rename"
    PROVE  DiskInv'
<1>1. \A s \in Sessions : files[s] \in Pieces /\ Told(files[s], out[s])
  BY DEF DiskInv
<1>2. \A s \in Sessions : Told(files[s], out'[s])
  BY <1>1, OutIsNat, ToldLater DEF Grows
<1> QED BY <1>2 DEF DiskInv

\* The request in progress when a step leaves it alone.
LEMMA CallFrame ==
    ASSUME CallInv, Grows, UNCHANGED call
    PROVE  CallInv'
<1>1. call.pc = "publish" => Told(call.prior, out'[call.id])
  BY OutIsNat, ToldLater DEF CallInv, Calls, Grows
<1> QED BY <1>1 DEF CallInv

\* The cap when neither the disk nor a goroutine changes.
LEMMA CapFrame ==
    ASSUME CapInv, SaverInv, Grows, UNCHANGED <<files, sv>>
    PROVE  CapInv'
<1>1. Size' = Size /\ Present' = Present /\ Enforcing' = Enforcing /\ Fits' = Fits
  BY DEF Size, Present, Enforcing, Fits
<1>2. \A g \in Savers : sv[g].pc = "evict" => sv[g].cur \in DOMAIN ls
  BY DEF SaverInv, Grows
<1>3. \A g \in Savers : Covers(g) => Covers(g)'
  BY <1>1, <1>2 DEF Covers, Grows
<1> QED BY <1>1, <1>3 DEF CapInv

\* A step of a request, a pump or the process that leaves the disk and the
\* saving goroutines alone.
LEMMA StoreFrame ==
    ASSUME StoreInv, Grows, UNCHANGED <<files, ages, sv>>, LiveInv', CallInv', OtherInv'
    PROVE  StoreInv'
<1>1. ScanInv'
  BY DEF StoreInv, ScanInv
<1> QED BY <1>1, SaverFrame, DiskFrame, CapFrame DEF StoreInv

\* A request that publishes nothing.
LEMMA IdleCall ==
    ASSUME NEW c \in Calls, c.pc = "idle" \/ (c.pc = "delete" /\ c.id \in Sessions), call' = c
    PROVE  CallInv'
  BY DEF CallInv

\* No data is data, in order.
LEMMA NothingTold == <<>> \in Pieces /\ \A n : Told(<<>>, n)
<1>1. DOMAIN <<>> = {} /\ 1 .. Len(<<>>) - 1 = {}
  OBVIOUS
<1> QED BY <1>1, EmptySeq DEF Pieces, Told, InOrder

\* No request in progress.
LEMMA IdleIsCall == Idle \in Calls /\ Idle.pc = "idle"
  BY EmptySeq DEF Idle, Calls, Pieces

\* Open.
LEMMA StoreOpen ==
    ASSUME TableInv, StoreInv, (\E s \in Sessions : OpenLoad(s)) \/ OpenPublish
    PROVE  StoreInv'
<1>1. CASE \E s \in Sessions : OpenLoad(s)
  <2>1. PICK s \in Sessions : OpenLoad(s)
    BY <1>1
  <2>2. UNCHANGED <<ls, out, files, ages, sv, host, stopped, runs, atFlush>>
    BY <2>1 DEF OpenLoad, objVars, svVars
  <2>3. PICK p \in {files[s], <<>>} : call' = [pc |-> "publish", id |-> s, prior |-> p]
    BY <2>1 DEF OpenLoad
  <2>4. p \in Pieces /\ Told(p, out[s])
    <3>1. files[s] \in Pieces /\ Told(files[s], out[s])
      BY DEF StoreInv, DiskInv
    <3> QED BY <2>3, <3>1, NothingTold
  <2>5. CallInv'
    BY <2>2, <2>3, <2>4 DEF CallInv, Calls
  <2>6. SameData /\ LiveInv' /\ OtherInv'
    BY <2>2 DEF SameData, StoreInv, LiveInv, OtherInv
  <2> QED BY <2>2, <2>5, <2>6, GrowsSame, StoreFrame DEF StoreInv
<1>2. CASE OpenPublish /\ UNCHANGED objVars
  <2>1. UNCHANGED <<ls, out, files, ages, sv, host, stopped, runs, atFlush>> /\ call' = Idle
    BY <1>2 DEF OpenPublish, objVars, svVars
  <2>2. SameData /\ LiveInv' /\ OtherInv'
    BY <2>1 DEF SameData, StoreInv, LiveInv, OtherInv
  <2> QED BY <2>1, <2>2, IdleIsCall, IdleCall, GrowsSame, StoreFrame DEF StoreInv
<1>3. CASE OpenPublish /\ ~UNCHANGED objVars
  <2> DEFINE w == Restored(call.prior)
             new == [id |-> call.id, sb |-> w, dirty |-> FALSE, pty |-> "open", pump |-> "read"]
  <2>1. /\ Len(ls) < MaxOpens /\ ls' = Append(ls, new)
        /\ UNCHANGED <<out, files, ages, sv, host, stopped, runs, atFlush>> /\ call' = Idle
        /\ call.pc = "publish" /\ call.id \in Sessions
    BY <1>3 DEF OpenPublish, objVars, svVars, TableInv, PublishFree
  <2>2. /\ w \in Buffers /\ Len(w.buf) <= Max /\ Told(w.buf, out[call.id])
        /\ w.buf # <<>> => w.buf[Len(w.buf)] = Sep
    <3>1. call.prior \in Pieces /\ Told(call.prior, out[call.id]) /\ out[call.id] \in Nat
      BY <2>1, ArchiveAssumption DEF StoreInv, CallInv, Calls, LiveInv
    <3> QED BY <3>1, RestoredTold
  <2>3. new.id = call.id /\ new.sb = w
    OBVIOUS
  <2>4. /\ DOMAIN ls = 1 .. Len(ls) /\ Len(ls) \in Nat /\ Len(ls') = Len(ls) + 1
        /\ DOMAIN ls' = 1 .. Len(ls) + 1
        /\ ls'[Len(ls) + 1] = new /\ \A o \in DOMAIN ls : ls'[o] = ls[o]
    <3>1. PICK B : ls \in Seq(Objects(B))
      BY DEF TableInv, TableType
    <3> DEFINE C == Objects(B) \cup {new}
    <3>2. ls \in Seq(C) /\ new \in C
      BY <3>1, SeqMonotonic
    <3> HIDE DEF C, new
    <3> QED BY <2>1, <3>2, AppendProperties, LenProperties
  <2> HIDE DEF new, w
  <2>5. LiveInv'
    <3>1. Len(ls') <= MaxOpens
      BY <2>1, <2>4, ArchiveAssumption
    <3>2. ASSUME NEW o \in DOMAIN ls'
          PROVE  /\ ls'[o].sb \in Buffers /\ Len(ls'[o].sb.buf) <= Max
                 /\ Told(ls'[o].sb.buf, out[ls'[o].id])
                 /\ ls'[o].pump # "gone" /\ ls'[o].sb.buf # <<>>
                       => ls'[o].sb.buf[Len(ls'[o].sb.buf)] \in {Sep, out[ls'[o].id]}
      <4>1. CASE o = Len(ls) + 1
        BY <4>1, <2>2, <2>3, <2>4
      <4>2. CASE o # Len(ls) + 1
        <5>1. o \in DOMAIN ls
          BY <4>2, <2>4
        <5> QED BY <5>1, <2>4 DEF StoreInv, LiveInv
      <4> QED BY <4>1, <4>2
    <3> QED BY <2>1, <3>1, <3>2 DEF LiveInv, StoreInv
  <2>6. Grows
    BY <2>1, <2>4, ObjectTypes, ArchiveAssumption DEF Grows, StoreInv, LiveInv
  <2>7. CallInv' /\ OtherInv'
    BY <2>1, IdleIsCall, IdleCall DEF StoreInv, OtherInv
  <2> QED BY <2>1, <2>5, <2>6, <2>7, StoreFrame
<1> QED BY <1>1, <1>2, <1>3

\* One object takes the place of another with the same data.
LEMMA SameDataAt ==
    ASSUME TableInv, LiveInv, NEW o, NEW x,
           o \in DOMAIN ls => /\ x.id = ls[o].id /\ x.sb \in Buffers /\ x.sb.buf = ls[o].sb.buf
                              /\ x.pump # "gone" => ls[o].pump # "gone",
           ls' = [ls EXCEPT ![o] = x]
    PROVE  SameData
<1>1. PICK B : ls \in Seq(Objects(B))
  BY DEF TableInv, TableType
<1>2. DOMAIN ls = 1 .. Len(ls) /\ Len(ls) \in Nat
  BY <1>1, LenProperties
<1>3. DOMAIN ls' = DOMAIN ls /\ Len(ls') = Len(ls)
  <2>1. CASE o \in DOMAIN ls
    <3> DEFINE C == Objects(B) \cup {x}
    <3>1. ls \in Seq(C) /\ x \in C
      BY <1>1, SeqMonotonic
    <3> HIDE DEF C
    <3> QED BY <1>2, <2>1, <3>1, ExceptSeq, LenProperties
  <2>2. CASE o \notin DOMAIN ls
    <3>1. ls' = ls
      BY <1>1, <2>2
    <3> QED BY <3>1
  <2> QED BY <2>1, <2>2
<1>4. \A p \in DOMAIN ls : ls'[p] = IF p = o THEN x ELSE ls[p]
  OBVIOUS
<1> QED BY <1>3, <1>4 DEF SameData, LiveInv

\* Close: the PTY, then the archive.
LEMMA StoreClosePty ==
    ASSUME TableInv, StoreInv, NEW s \in Sessions, CloseStart(s)
    PROVE  StoreInv'
<1>1. /\ ls' = [ls EXCEPT ![sessions[s]] = ClosePty(ls[sessions[s]])]
      /\ call' = [Idle EXCEPT !.pc = "delete", !.id = s]
      /\ UNCHANGED <<out, files, ages, sv, host, stopped, runs, atFlush>>
  BY DEF CloseStart, svVars
<1>2. SameData
  <2> DEFINE o == sessions[s]
             x == ClosePty(ls[o])
  <2>1. (x.id = ls[o].id /\ x.sb = ls[o].sb /\ x.pump = ls[o].pump) \/ o \notin DOMAIN ls
    <3>1. o \in DOMAIN ls =>
            ls[o] = [id |-> ls[o].id, sb |-> ls[o].sb, dirty |-> ls[o].dirty,
                     pty |-> ls[o].pty, pump |-> ls[o].pump]
      BY ObjectTypes
    <3> HIDE DEF o
    <3> QED BY <3>1 DEF ClosePty
  <2>2. o \in DOMAIN ls => x.sb \in Buffers
    BY <2>1 DEF StoreInv, LiveInv
  <2>3. ls' = [ls EXCEPT ![o] = x]
    BY <1>1
  <2> HIDE DEF o, x
  <2> QED BY <2>1, <2>2, <2>3, SameDataAt DEF StoreInv
<1>3. CallInv'
  <2>1. [Idle EXCEPT !.pc = "delete", !.id = s] \in Calls
    BY EmptySeq DEF Idle, Calls, Pieces
  <2> DEFINE c == [Idle EXCEPT !.pc = "delete", !.id = s]
  <2>2. c.pc = "delete" /\ c.id = s /\ call' = c /\ c \in Calls
    BY <1>1, <2>1 DEF Idle
  <2> HIDE DEF c
  <2> QED BY <2>2, IdleCall
<1>4. OtherInv'
  BY <1>1 DEF StoreInv, OtherInv
<1> QED BY <1>1, <1>2, <1>3, <1>4, LiveFrame, GrowsSame, StoreFrame DEF StoreInv

\* The pump writes a piece of output.
LEMMA StorePumpWrite ==
    ASSUME TableInv, StoreInv, NEW o \in DOMAIN ls, PumpWrite(o)
    PROVE  StoreInv'
<1> DEFINE s == ls[o].id
           w == Write(ls[o].sb, <<out[s] + 1>>)
           x == [ls[o] EXCEPT !.pump = "mark", !.pty = IF @ = "late" THEN "closed" ELSE @,
                              !.sb = w]
<1>1. /\ DOMAIN ls = 1 .. Len(ls) /\ Len(ls) \in Nat /\ s \in Sessions
      /\ ls[o] = [id |-> ls[o].id, sb |-> ls[o].sb, dirty |-> ls[o].dirty,
                  pty |-> ls[o].pty, pump |-> ls[o].pump]
  BY ObjectTypes
<1>2. /\ ls' = [ls EXCEPT ![o] = x] /\ out' = [out EXCEPT ![s] = out[s] + 1] /\ out[s] < MaxOut
      /\ ls[o].pump = "read"
      /\ UNCHANGED <<files, ages, sv, host, stopped, runs, atFlush, call>>
  BY DEF PumpWrite, svVars
<1>3. out \in [Sessions -> 0 .. MaxOut] /\ MaxOut \in Nat /\ out[s] \in Nat /\ out[s] + 1 \in 0 .. MaxOut
  BY <1>1, <1>2, ArchiveAssumption DEF StoreInv, LiveInv
<1>4. /\ w \in Buffers /\ Len(w.buf) <= Max /\ Told(w.buf, out[s] + 1)
      /\ w.buf # <<>> /\ w.buf[Len(w.buf)] = out[s] + 1
  <2>1. /\ ls[o].sb \in Buffers /\ Len(ls[o].sb.buf) <= Max /\ Told(ls[o].sb.buf, out[s])
        /\ ls[o].sb.buf # <<>> => ls[o].sb.buf[Len(ls[o].sb.buf)] \in {Sep, out[s]}
    BY <1>2 DEF StoreInv, LiveInv
  <2> HIDE DEF s
  <2> QED BY <1>3, <2>1, WriteTold
<1>5. x.id = s /\ x.sb = w /\ x.pump = "mark"
  <2> HIDE DEF w
  <2> QED BY <1>1
<1>6. out' \in [Sessions -> 0 .. MaxOut] /\ out'[s] = out[s] + 1
      /\ \A t \in Sessions : (t # s =>
               out'[t] = out[t]) /\ out[t] <= out'[t] /\ out[t] \in Nat /\ out'[t] \in Nat
  BY <1>1, <1>2, <1>3
<1> HIDE DEF x, w
<1>7. /\ DOMAIN ls' = DOMAIN ls /\ Len(ls') = Len(ls)
      /\ \A p \in DOMAIN ls : ls'[p] = IF p = o THEN x ELSE ls[p]
  <2>1. PICK B : ls \in Seq(Objects(B))
    BY DEF TableInv, TableType
  <2> DEFINE C == Objects(B) \cup {x}
  <2>2. ls \in Seq(C) /\ x \in C
    BY <2>1, SeqMonotonic
  <2> HIDE DEF C
  <2> QED BY <1>1, <1>2, <2>2, ExceptSeq, LenProperties
<1>8. Grows
  <2>1. \A p \in DOMAIN ls : ls[p].id \in Sessions /\ ls'[p].id = ls[p].id
    BY <1>5, <1>7, ObjectTypes
  <2>2. DOMAIN ls \subseteq DOMAIN ls' /\ Len(ls') \in Nat /\ Len(ls) <= Len(ls')
    BY <1>1, <1>7
  <2> QED BY <1>1, <1>3, <1>6, <2>1, <2>2 DEF Grows
<1>9. LiveInv'
  <2>1. ASSUME NEW p \in DOMAIN ls, p # o
        PROVE  /\ ls[p].sb \in Buffers /\ Len(ls[p].sb.buf) <= Max
               /\ Told(ls[p].sb.buf, out'[ls[p].id])
               /\ ls[p].pump # "gone" /\ ls[p].sb.buf # <<>>
                     => ls[p].sb.buf[Len(ls[p].sb.buf)] \in {Sep, out'[ls[p].id]}
    <3>1. /\ ls[p].sb \in Buffers /\ Len(ls[p].sb.buf) <= Max
          /\ Told(ls[p].sb.buf, out[ls[p].id]) /\ ls[p].id \in Sessions
          /\ ls[p].pump # "gone" /\ ls[p].sb.buf # <<>>
                     => ls[p].sb.buf[Len(ls[p].sb.buf)] \in {Sep, out[ls[p].id]}
      BY ObjectTypes DEF StoreInv, LiveInv
    <3>2. ls[p].sb.buf \in Pieces
      BY <3>1 DEF Buffers
    <3>3. Told(ls[p].sb.buf, out'[ls[p].id])
      BY <3>1, <3>2, <1>6, ToldLater
    <3>4. ls[p].pump # "gone" => ls[p].id # s
      BY <1>2, <2>1 DEF TableInv, NoOrphanPty
    <3> QED BY <3>1, <3>3, <3>4, <1>6
  <2>2. Len(ls') <= MaxOpens
    BY <1>7 DEF StoreInv, LiveInv
  <2> QED BY <2>1, <2>2, <1>4, <1>5, <1>6, <1>7, SMTT(30) DEF LiveInv
<1>10. CallInv' /\ OtherInv'
  BY <1>2, <1>8, CallFrame DEF StoreInv, OtherInv
<1> QED BY <1>2, <1>8, <1>9, <1>10, StoreFrame

\* The pump marks the session, or ends.
LEMMA StorePumpEnds ==
    ASSUME TableInv, StoreInv, NEW o \in DOMAIN ls, PumpMark(o) \/ PumpExit(o)
    PROVE  StoreInv'
<1>1. /\ ls[o] = [id |-> ls[o].id, sb |-> ls[o].sb, dirty |-> ls[o].dirty,
                  pty |-> ls[o].pty, pump |-> ls[o].pump]
      /\ ls[o].sb \in Buffers
  BY ObjectTypes DEF StoreInv, LiveInv
<1>2. UNCHANGED <<out, files, ages, sv, host, stopped, runs, atFlush, call>>
  BY DEF PumpMark, PumpExit, svVars
<1>3. SameData
  <2>1. CASE PumpMark(o)
    <3> DEFINE x == [ls[o] EXCEPT !.pump = "read", !.dirty = TRUE]
    <3>1. ls' = [ls EXCEPT ![o] = x] /\ ls[o].pump # "gone"
      BY <2>1 DEF PumpMark
    <3>2. x.id = ls[o].id /\ x.sb = ls[o].sb
      BY <1>1
    <3> HIDE DEF x
    <3> QED BY <1>1, <3>1, <3>2, SameDataAt DEF StoreInv
  <2>2. CASE PumpExit(o)
    <3> DEFINE b == Close(ls[o].sb)
               x == [ls[o] EXCEPT !.pump = "gone", !.pty = "closed", !.sb = b]
    <3>1. ls' = [ls EXCEPT ![o] = x] /\ ls[o].pump # "gone"
      BY <2>2 DEF PumpExit
    <3>2. b \in Buffers /\ b.buf = ls[o].sb.buf
      BY <1>1 DEF Close, Buffers
    <3> HIDE DEF b
    <3>3. x.id = ls[o].id /\ x.sb = b
      BY <1>1
    <3> HIDE DEF x
    <3> QED BY <3>1, <3>2, <3>3, SameDataAt DEF StoreInv
  <2> QED BY <2>1, <2>2
<1>4. OtherInv'
  BY <1>2 DEF StoreInv, OtherInv
<1> QED BY <1>2, <1>3, <1>4, LiveFrame, CallFrame, GrowsSame, StoreFrame DEF StoreInv

-----------------------------------------------------------------------------
(* The saving goroutines. *)

\* What one goroutine is doing, with the objects and the output it refers to.
SaverOk(r, objs, told) ==
    /\ r \in [pc : Phases, todo : SUBSET Nat, cur : Nat, data : Pieces,
              left : Seq(Entries), total : Nat]
    /\ r.todo \subseteq DOMAIN objs /\ r.cur \in 0 .. Len(objs)
    /\ r.pc \in {"snap", "rename", "scan", "evict", "clear"} => r.cur # 0
    /\ r.pc # "rename" => r.data = <<>>
    /\ r.pc = "rename" => r.data # <<>> /\ Told(r.data, told[objs[r.cur].id])

\* Each goroutine is as the invariant says.
LEMMA SaverIs ==
    ASSUME SaverInv, NEW g \in Savers
    PROVE  SaverOk(sv[g], ls, out)
  BY DEF SaverInv, SaverOk

\* A goroutine that carries no data goes on with another session, or with none.
LEMMA NextSession ==
    ASSUME DOMAIN ls = 1 .. Len(ls), Len(ls) \in Nat,
           NEW r, SaverOk(r, ls, out), r.pc # "rename",
           NEW p \in Phases \ {"rename"}, NEW t \in SUBSET DOMAIN ls, NEW c \in 0 .. Len(ls),
           p \in {"each", "done"} \/ c # 0
    PROVE  /\ SaverOk([r EXCEPT !.pc = p, !.cur = c], ls, out)
           /\ SaverOk([r EXCEPT !.todo = t, !.cur = c, !.pc = p], ls, out)
<1>1. r \in [pc : Phases, todo : SUBSET Nat, cur : Nat, data : Pieces,
             left : Seq(Entries), total : Nat]
      /\ r.todo \subseteq DOMAIN ls /\ r.data = <<>> /\ t \in SUBSET Nat /\ c \in Nat
  BY DEF SaverOk
<1>2. SaverOk([r EXCEPT !.pc = p, !.cur = c], ls, out)
  <2> DEFINE x == [r EXCEPT !.pc = p, !.cur = c]
  <2>1. /\ x \in [pc : Phases, todo : SUBSET Nat, cur : Nat, data : Pieces,
                  left : Seq(Entries), total : Nat]
        /\ x.pc = p /\ x.todo = r.todo /\ x.cur = c /\ x.data = r.data
    BY <1>1
  <2> HIDE DEF x
  <2>2. SaverOk(x, ls, out)
    BY <1>1, <2>1 DEF SaverOk
  <2> QED BY <2>2 DEF x
<1>3. SaverOk([r EXCEPT !.todo = t, !.cur = c, !.pc = p], ls, out)
  <2> DEFINE x == [r EXCEPT !.todo = t, !.cur = c, !.pc = p]
  <2>1. /\ x \in [pc : Phases, todo : SUBSET Nat, cur : Nat, data : Pieces,
                  left : Seq(Entries), total : Nat]
        /\ x.pc = p /\ x.todo = t /\ x.cur = c /\ x.data = r.data
    BY <1>1
  <2> HIDE DEF x
  <2>2. SaverOk(x, ls, out)
    BY <1>1, <2>1 DEF SaverOk
  <2> QED BY <2>2 DEF x
<1> QED BY <1>2, <1>3

\* One that enforces the cap goes on with what it found, or to its end.
LEMMA NextEntry ==
    ASSUME NEW r, SaverOk(r, ls, out), r.pc \in {"scan", "evict"},
           NEW x \in [pc : Phases, todo : SUBSET Nat, cur : Nat, data : Pieces,
                      left : Seq(Entries), total : Nat],
           x.pc # "rename", x.todo = r.todo, x.cur = r.cur, x.data = r.data
    PROVE  SaverOk(x, ls, out)
  BY DEF SaverOk

\* One goroutine goes on, the other stays where it is.
Moves(g, r) == sv' = [sv EXCEPT ![g] = r]

\* A move leaves the other goroutine alone.
LEMMA MovesOne ==
    ASSUME SaverInv, NEW g \in Savers, NEW r, Moves(g, r)
    PROVE  sv'[g] = r /\ \A h \in Savers \ {g} : sv'[h] = sv[h]
  BY DEF SaverInv, Moves

\* A move to a proper state, while objects and output grow, keeps both proper.
LEMMA SaverStep ==
    ASSUME SaverInv, Grows, NEW g \in Savers, NEW r, SaverOk(r, ls', out'), Moves(g, r)
    PROVE  SaverInv'
<1>1. ASSUME NEW h \in Savers \ {g} PROVE SaverOk(sv[h], ls', out')
  <2>1. SaverOk(sv[h], ls, out)
    BY SaverIs
  <2>2. sv[h].todo \subseteq DOMAIN ls' /\ sv[h].cur \in 0 .. Len(ls')
    BY <2>1 DEF SaverOk, Grows
  <2>3. CASE sv[h].pc = "rename"
    <3>1. sv[h].data \in Pieces /\ Told(sv[h].data, out[ls[sv[h].cur].id])
          /\ sv[h].cur \in DOMAIN ls
      BY <2>1, <2>3 DEF SaverOk, Grows
    <3>2. ls[sv[h].cur].id \in Sessions /\ ls'[sv[h].cur].id = ls[sv[h].cur].id
      BY <3>1 DEF Grows
    <3> QED BY <2>1, <2>2, <3>1, <3>2, OutIsNat, ToldLater DEF Grows, SaverOk
  <2>4. CASE sv[h].pc # "rename"
    BY <2>1, <2>2, <2>4 DEF SaverOk
  <2> QED BY <2>3, <2>4
<1>2. \A h \in Savers : SaverOk(sv'[h], ls', out')
  BY <1>1, MovesOne
<1>3. sv' = [h \in Savers |-> sv'[h]]
  BY DEF SaverInv, Moves
<1> QED BY <1>2, <1>3 DEF SaverOk, SaverInv

\* Outside the enforcement of the cap nothing about it changes.
LEMMA CapQuiet ==
    ASSUME CapInv, ScanInv, SaverInv, Grows, UNCHANGED files, NEW g \in Savers, NEW r, Moves(g, r),
           sv[g].pc \notin {"scan", "evict"}, r.pc \notin {"scan", "evict"}
    PROVE  CapInv' /\ ScanInv'
<1>1. sv'[g] = r /\ \A h \in Savers \ {g} : sv'[h] = sv[h]
  BY MovesOne
<1>2. Size' = Size /\ Present' = Present /\ Fits' = Fits
  BY DEF Size, Present, Fits
<1>3. Enforcing' = Enforcing /\ g \notin Enforcing
  BY <1>1 DEF Enforcing
<1>4. \A h \in Savers : Covers(h) => Covers(h)'
  <2> SUFFICES ASSUME NEW h \in Savers, Covers(h) PROVE Covers(h)'
    OBVIOUS
  <2>1. sv'[h] = sv[h]
    BY <1>1 DEF Covers
  <2>2. sv[h].cur \in DOMAIN ls
    BY DEF Covers, SaverInv, Grows
  <2> QED BY <1>2, <2>1, <2>2 DEF Covers, Grows
<1>5. \A h \in Savers : sv[h].pc = "scan" => sv'[h].pc = "scan"
  BY <1>1
<1> QED BY <1>1, <1>2, <1>3, <1>4, <1>5 DEF CapInv, ScanInv

\* A step of a goroutine outside the enforcement, with neither a temp file made
\* nor one renamed.
LEMMA StoreQuiet ==
    ASSUME StoreInv, Grows, LiveInv', UNCHANGED <<out, call, files, ages>>, OtherInv',
           NEW g \in Savers, NEW r, Moves(g, r), SaverOk(r, ls', out'),
           sv[g].pc \notin {"rename", "scan", "evict"}, r.pc \notin {"rename", "scan", "evict"}
    PROVE  StoreInv'
<1>1. \A h \in Savers : sv'[h].pc = "rename" <=> sv[h].pc = "rename"
  BY MovesOne DEF StoreInv
<1>2. SaverInv' /\ CapInv' /\ ScanInv' /\ CallInv' /\ DiskInv'
  BY <1>1, SaverStep, CapQuiet, CallFrame, DiskFrame DEF StoreInv
<1> QED BY <1>2 DEF StoreInv

\* The entries of the map are objects.
LEMMA ListedAre == ASSUME TableInv PROVE Listed \subseteq DOMAIN ls
  BY DEF Listed, TableInv, EntriesRun

\* The flusher's tick, its end, the next session and the reset of its flag.
LEMMA StoreFlush ==
    ASSUME TableInv, StoreInv, NEW g \in Savers,
           \/ g = "flusher" /\ (FlusherTick \/ FlusherStops)
           \/ \E o \in DOMAIN ls : FlushNext(g, o)
           \/ FlushClear(g)
    PROVE  StoreInv'
<1>0. /\ SaverOk(sv[g], ls, out) /\ DOMAIN ls = 1 .. Len(ls) /\ Len(ls) \in Nat
      /\ sv[g].data \in Pieces
  BY SaverIs, ObjectTypes DEF StoreInv, SaverOk
<1>1. CASE g = "flusher" /\ FlusherTick
  <2> DEFINE r == [sv[g] EXCEPT !.todo = Listed]
  <2>1. Moves(g, r) /\ sv[g].pc = "each"
        /\ UNCHANGED <<ls, out, files, ages, call, host, stopped, runs, atFlush>>
    BY <1>1 DEF FlusherTick, Moves, Rests, objVars
  <2>2. SaverOk(r, ls, out) /\ r.pc = "each"
    BY <1>0, <2>1, ListedAre DEF SaverOk
  <2>3. SameData /\ OtherInv'
    BY <2>1 DEF SameData, StoreInv, LiveInv, OtherInv
  <2> HIDE DEF r
  <2> QED BY <2>1, <2>2, <2>3, GrowsSame, LiveFrame, StoreQuiet DEF StoreInv
<1>2. CASE g = "flusher" /\ FlusherStops
  <2> DEFINE r == [sv[g] EXCEPT !.pc = "done"]
  <2>1. Moves(g, r) /\ sv[g].pc = "each"
        /\ UNCHANGED <<ls, out, files, ages, call, host, stopped, runs, atFlush>>
    BY <1>2 DEF FlusherStops, Moves, Rests, objVars
  <2>2. SaverOk(r, ls, out) /\ r.pc = "done"
    BY <1>0, <2>1 DEF SaverOk, Phases
  <2>3. SameData /\ OtherInv'
    BY <2>1 DEF SameData, StoreInv, LiveInv, OtherInv
  <2> HIDE DEF r
  <2> QED BY <2>1, <2>2, <2>3, GrowsSame, LiveFrame, StoreQuiet DEF StoreInv
<1>3. CASE \E o \in DOMAIN ls : FlushNext(g, o)
  <2>0. PICK o \in DOMAIN ls : FlushNext(g, o)
    BY <1>3
  <2>1. PICK b \in BOOLEAN : b = (g = "main" \/ ls[o].dirty)
    OBVIOUS
  <2> DEFINE r == [sv[g] EXCEPT !.todo = @ \ {o}, !.cur = IF b THEN o ELSE 0,
                                !.pc = IF b THEN "snap" ELSE "each"]
  <2>2. Moves(g, r) /\ sv[g].pc = "each"
        /\ UNCHANGED <<ls, out, files, ages, call, host, stopped, runs, atFlush>>
    BY <2>0, <2>1 DEF FlushNext, Moves, objVars
  <2>3. SaverOk(r, ls, out) /\ r.pc \in {"snap", "each"}
    <3>1. PICK p, c : p = (IF b THEN "snap" ELSE "each") /\ c = IF b THEN o ELSE 0
      OBVIOUS
    <3>2. r = [sv[g] EXCEPT !.todo = sv[g].todo \ {o}, !.cur = c, !.pc = p]
      BY <3>1
    <3>3. p \in Phases \ {"rename"} /\ p \in {"snap", "each"} /\ c \in 0 .. Len(ls)
          /\ (p \in {"each", "done"} \/ c # 0)
      BY <1>0, <3>1 DEF Phases
    <3>4. sv[g].todo \ {o} \in SUBSET DOMAIN ls
      BY <1>0 DEF SaverOk
    <3>5. r.pc = IF b THEN "snap" ELSE "each"
      BY <1>0 DEF SaverOk
    <3> HIDE DEF r
    <3>6. SaverOk(r, ls, out)
      BY <1>0, <2>2, <3>2, <3>3, <3>4, NextSession
    <3> QED BY <3>5, <3>6
  <2>4. SameData /\ OtherInv'
    BY <2>2 DEF SameData, StoreInv, LiveInv, OtherInv
  <2> HIDE DEF r
  <2> QED BY <2>2, <2>3, <2>4, GrowsSame, LiveFrame, StoreQuiet DEF StoreInv
<1>4. CASE FlushClear(g)
  <2> DEFINE r == [sv[g] EXCEPT !.pc = "each", !.cur = 0]
             o == sv[g].cur
             x == [ls[o] EXCEPT !.dirty = FALSE]
  <2>1. Moves(g, r) /\ sv[g].pc = "clear" /\ ls' = [ls EXCEPT ![o] = x]
        /\ UNCHANGED <<out, files, ages, call, host, stopped, runs, atFlush>>
    BY <1>4 DEF FlushClear, Moves
  <2>2. SaverOk(r, ls, out) /\ r.pc = "each"
    <3>1. "each" \in Phases \ {"rename"} /\ 0 \in 0 .. Len(ls) /\ {} \in SUBSET DOMAIN ls
      BY <1>0 DEF Phases
    <3>2. r.pc = "each"
      BY <1>0 DEF SaverOk
    <3> HIDE DEF r
    <3>3. SaverOk([sv[g] EXCEPT !.pc = "each", !.cur = 0], ls, out)
      BY <1>0, <2>1, <3>1, NextSession
    <3> QED BY <3>2, <3>3 DEF r
  <2>3. SameData
    <3>1. o \in DOMAIN ls => x.id = ls[o].id /\ x.sb = ls[o].sb /\ x.pump = ls[o].pump
      BY ObjectTypes
    <3>2. o \in DOMAIN ls => ls[o].sb \in Buffers
      BY DEF StoreInv, LiveInv
    <3> HIDE DEF o, x
    <3> QED BY <2>1, <3>1, <3>2, SameDataAt DEF StoreInv
  <2>4. OtherInv'
    BY <2>1 DEF StoreInv, OtherInv
  <2> HIDE DEF r
  <2>5. SaverOk(r, ls', out')
    BY <2>1, <2>2, <2>3 DEF SaverOk, SameData
  <2> QED BY <2>1, <2>2, <2>3, <2>4, <2>5, GrowsSame, LiveFrame, StoreQuiet DEF StoreInv
<1> QED BY <1>1, <1>2, <1>3, <1>4

\* A snapshot is taken and its temp file written, or not.
LEMMA StoreSnapshot ==
    ASSUME TableInv, StoreInv, NEW g \in Savers, FlushSnapshot(g)
    PROVE  StoreInv'
<1>0. /\ SaverOk(sv[g], ls, out) /\ DOMAIN ls = 1 .. Len(ls) /\ Len(ls) \in Nat
      /\ sv[g].pc = "snap" /\ sv[g].cur \in DOMAIN ls
  <2>1. SaverOk(sv[g], ls, out) /\ DOMAIN ls = 1 .. Len(ls) /\ Len(ls) \in Nat /\ sv[g].pc = "snap"
    BY SaverIs, ObjectTypes DEF StoreInv, FlushSnapshot
  <2> QED BY <2>1 DEF SaverOk
<1>1. UNCHANGED <<ls, out, files, call, host, stopped, runs, atFlush>>
  BY DEF FlushSnapshot, objVars
<1>2. SameData /\ OtherInv' /\ LiveInv'
  BY <1>1, LiveFrame DEF SameData, StoreInv, LiveInv, OtherInv
<1>3. Grows
  BY <1>1, <1>2, GrowsSame DEF StoreInv
<1>4. CASE UNCHANGED ages /\ sv' = [sv EXCEPT ![g].pc = "each", ![g].cur = 0]
  <2> DEFINE r == [sv[g] EXCEPT !.pc = "each", !.cur = 0]
  <2>1. Moves(g, r)
    BY <1>4 DEF Moves
  <2>2. SaverOk(r, ls, out) /\ r.pc = "each"
    <3>1. "each" \in Phases \ {"rename"} /\ 0 \in 0 .. Len(ls) /\ {} \in SUBSET DOMAIN ls
      BY <1>0 DEF Phases
    <3>2. r.pc = "each"
      BY <1>0 DEF SaverOk
    <3> HIDE DEF r
    <3>3. SaverOk([sv[g] EXCEPT !.pc = "each", !.cur = 0], ls, out)
      BY <1>0, <3>1, NextSession
    <3> QED BY <3>2, <3>3 DEF r
  <2> HIDE DEF r
  <2> QED BY <1>0, <1>1, <1>2, <1>3, <1>4, <2>1, <2>2, StoreQuiet
<1>5. CASE ages' = Append(ages, g)
  <2>1. PICK d : d = ls[sv[g].cur].sb.buf
    OBVIOUS
  <2>2. d # <<>> /\ sv' = [sv EXCEPT ![g].pc = "rename", ![g].data = d]
    <3>1. \/ d # <<>> /\ sv' = [sv EXCEPT ![g].pc = "rename", ![g].data = d]
          \/ UNCHANGED ages
      BY <2>1 DEF FlushSnapshot
    <3>2. ages \in Seq(Sessions \cup Savers)
      BY DEF StoreInv, DiskInv
    <3>3. Append(ages, g) # ages
      BY <3>2, AppendProperties, LenProperties
    <3> QED BY <1>5, <3>1, <3>3
  <2>3. d \in Pieces /\ Told(d, out[ls[sv[g].cur].id])
    BY <1>0, <2>1 DEF StoreInv, LiveInv, Buffers
  <2> DEFINE r == [sv[g] EXCEPT !.pc = "rename", !.data = d]
  <2>4. Moves(g, r)
    BY <2>2 DEF Moves
  <2>5. SaverOk(r, ls, out) /\ r.pc = "rename"
    BY <1>0, <2>2, <2>3 DEF SaverOk, Phases
  <2> HIDE DEF r
  <2>6. SaverInv' /\ CapInv' /\ ScanInv' /\ CallInv'
    BY <1>0, <1>1, <1>3, <2>4, <2>5, SaverStep, CapQuiet, CallFrame DEF StoreInv
  <2>7. DiskInv'
    <3>1. sv'[g].pc = "rename" /\ \A h \in Savers \ {g} : sv'[h] = sv[h]
      BY <2>4, <2>5, MovesOne DEF StoreInv
    <3>2. /\ ages \in Seq(Sessions \cup Savers) /\ Distinct(ages) /\ g \notin Names(ages)
      BY <1>0 DEF StoreInv, DiskInv
    <3>3. /\ ages' \in Seq(Sessions \cup Savers) /\ Distinct(ages')
          /\ Names(ages') = Names(ages) \cup {g}
      BY <1>5, <3>2, Added
    <3>4. \A s \in Sessions : s # g
      BY ArchiveAssumption DEF Savers
    <3> QED BY <1>1, <3>1, <3>3, <3>4 DEF StoreInv, DiskInv
  <2> QED BY <1>2, <2>6, <2>7 DEF StoreInv
<1> QED BY <1>4, <1>5 DEF FlushSnapshot

\* The temp file replaces the archive.
LEMMA StoreRename ==
    ASSUME TableInv, StoreInv, NEW g \in Savers, SaveRename(g)
    PROVE  StoreInv'
<1>0. /\ SaverOk(sv[g], ls, out) /\ sv[g].pc = "rename" /\ DOMAIN ls = 1 .. Len(ls)
      /\ Len(ls) \in Nat
  BY SaverIs, ObjectTypes DEF StoreInv, SaveRename
<1>1. PICK s, d : s = ls[sv[g].cur].id /\ d = sv[g].data
  OBVIOUS
<1>2. s \in Sessions /\ d \in Pieces /\ d # <<>> /\ Told(d, out[s]) /\ sv[g].cur \in DOMAIN ls
  <2>1. sv[g].cur \in DOMAIN ls
    BY <1>0 DEF SaverOk
  <2> QED BY <1>0, <1>1, <2>1, ObjectTypes DEF SaverOk
<1>3. /\ UNCHANGED <<ls, out, call, host, stopped, runs, atFlush>>
      /\ files' = [files EXCEPT ![s] = d]
      /\ ages' = SeqX!ReplaceAll(Without(s), g, s)
      /\ sv' = [sv EXCEPT ![g].pc = "scan", ![g].data = <<>>]
  BY <1>1 DEF SaveRename, objVars
<1>4. SameData /\ OtherInv' /\ LiveInv'
  BY <1>3, LiveFrame DEF SameData, StoreInv, LiveInv, OtherInv
<1>5. Grows
  BY <1>3, <1>4, GrowsSame DEF StoreInv
<1> DEFINE r == [sv[g] EXCEPT !.pc = "scan", !.data = <<>>]
<1>6. Moves(g, r)
  BY <1>3 DEF Moves
<1>7. SaverOk(r, ls, out) /\ r.pc = "scan"
  BY <1>0, NothingTold DEF SaverOk, Phases
<1> HIDE DEF r
<1>8. sv'[g].pc = "scan" /\ \A h \in Savers \ {g} : sv'[h] = sv[h]
  BY <1>6, <1>7, MovesOne DEF StoreInv
<1>9. SaverInv' /\ CallInv'
  BY <1>3, <1>5, <1>6, <1>7, SaverStep, CallFrame DEF StoreInv
<1>10. ScanInv'
  BY <1>8 DEF StoreInv, ScanInv
<1>11. Present' = Present \cup {s} /\ CapInv'
  <2>1. Present' = Present \cup {s}
    BY <1>2, <1>3 DEF Present, StoreInv, DiskInv
  <2>2. IsFiniteSet(Present')
    BY <2>1, FS_AddElement DEF StoreInv, CapInv
  <2> QED BY <2>1, <2>2, <1>8 DEF CapInv
<1>12. DiskInv'
  <2>1. /\ ages \in Seq(Sessions \cup Savers) /\ Distinct(ages) /\ g \in Names(ages)
    BY <1>0 DEF StoreInv, DiskInv
  <2>2. s # g
    BY <1>2, ArchiveAssumption DEF Savers
  <2>3. /\ Without(s) \in Seq(Sessions \cup Savers) /\ Distinct(Without(s))
        /\ Names(Without(s)) = Names(ages) \ {s}
    BY <2>1, Removed DEF Without
  <2>4. /\ ages' \in Seq(Sessions \cup Savers) /\ Distinct(ages')
        /\ Names(ages') = ((Names(ages) \ {s}) \ {g}) \cup {s}
    <3>1. PICK q : q = Without(s)
      OBVIOUS
    <3>2. g \in Names(q) /\ s \notin Names(q) /\ s \in Sessions \cup Savers
          /\ Names(q) = Names(ages) \ {s} /\ ages' = SeqX!ReplaceAll(q, g, s)
      BY <1>2, <1>3, <2>1, <2>2, <2>3, <3>1
    <3>3. q \in Seq(Sessions \cup Savers) /\ Distinct(q)
      BY <2>3, <3>1
    <3> QED BY <3>2, <3>3, Replaced
  <2>5. \A t \in Sessions : t \notin Savers
    BY ArchiveAssumption DEF Savers
  <2>6. \A t \in Sessions : t \in Names(ages') <=> files'[t] # <<>>
    BY <1>2, <1>3, <2>4, <2>5 DEF StoreInv, DiskInv
  <2>7. \A h \in Savers : h \in Names(ages') <=> sv'[h].pc = "rename"
    BY <1>2, <1>8, <2>4, <2>5 DEF StoreInv, DiskInv
  <2>8. files' \in [Sessions -> Pieces] /\ \A t \in Sessions : Told(files'[t], out'[t])
    BY <1>2, <1>3 DEF StoreInv, DiskInv
  <2> QED BY <2>4, <2>6, <2>7, <2>8 DEF DiskInv
<1> QED BY <1>4, <1>9, <1>10, <1>11, <1>12 DEF StoreInv

\* Removing the archive of a session.
LEMMA RemovedFromDisk ==
    ASSUME DiskInv, UNCHANGED out, NEW s \in Sessions, Remove(s),
           \A g \in Savers : sv'[g].pc = "rename" <=> sv[g].pc = "rename"
    PROVE  DiskInv'
<1>1. /\ ages \in Seq(Sessions \cup Savers) /\ Distinct(ages)
      /\ files' = [files EXCEPT ![s] = <<>>] /\ ages' = SeqX!RemoveFirst(ages, s)
  BY DEF DiskInv, Remove, Without
<1>2. /\ ages' \in Seq(Sessions \cup Savers) /\ Distinct(ages')
      /\ Names(ages') = Names(ages) \ {s}
  BY <1>1, Removed
<1>3. \A t \in Sessions : t \notin Savers
  BY ArchiveAssumption DEF Savers
<1>4. files' \in [Sessions -> Pieces] /\ \A t \in Sessions : Told(files'[t], out'[t])
  BY <1>1, NothingTold DEF DiskInv
<1>5. \A t \in Sessions : t \in Names(ages') <=> files'[t] # <<>>
  BY <1>1, <1>2 DEF DiskInv
<1>6. \A h \in Savers : h \in Names(ages') <=> sv'[h].pc = "rename"
  BY <1>2, <1>3 DEF DiskInv
<1> QED BY <1>2, <1>4, <1>5, <1>6 DEF DiskInv

\* The archives only become fewer, and what fitted still fits.
LEMMA LessOnDisk ==
    ASSUME DiskInv, IsFiniteSet(Present), NEW s \in Sessions,
           files' = [files EXCEPT ![s] = <<>>]
    PROVE  /\ Present' = Present \ {s} /\ IsFiniteSet(Present')
           /\ Size \in Nat /\ Size' \in Nat /\ Size' <= Size
           /\ s \in Present => Size = Len(files[s]) + Size'
           /\ Fits => Fits'
           /\ \A t \in Present' : files'[t] = files[t]
<1>1. files \in [Sessions -> Pieces] /\ Size \in Nat
  BY SizeIsNat DEF DiskInv
<1>2. Present' = Present \ {s} /\ \A t \in Present' : files'[t] = files[t]
  BY <1>1 DEF Present
<1>3. CASE s \in Present
  <2>1. /\ IsFiniteSet(Present') /\ Size' \in Nat /\ Size = Len(files[s]) + Size'
    BY <1>1, <1>3, SizeRemoved
  <2>2. Len(files[s]) \in Nat
    BY <1>1, PiecesHaveLength
  <2>3. Size' <= Size
    BY <1>1, <2>1, <2>2
  <2>4. Fits => Fits'
    BY <1>1, <1>2, <2>1, <2>3, ArchiveAssumption DEF Fits
  <2> QED BY <1>1, <1>2, <1>3, <2>1, <2>3, <2>4
<1>4. CASE s \notin Present
  <2>1. files' = files
    BY <1>1, <1>4 DEF Present
  <2>2. Size' = Size /\ Present' = Present /\ (Fits => Fits')
    BY <2>1 DEF Size, Present, Fits
  <2>3. IsFiniteSet(Present') /\ Size' \in Nat /\ Size' <= Size
    BY <1>1, <2>2
  <2> QED BY <1>1, <1>2, <1>4, <2>2, <2>3
<1> QED BY <1>3, <1>4

\* A scan that is not out of date stays so when an archive is removed.
LEMMA StillCovers ==
    ASSUME SaverInv, Grows, NEW h \in Savers, Covers(h), sv'[h] = sv[h],
           Present' \subseteq Present, Size \in Nat, Size' \in Nat, Size' <= Size,
           \A t \in Present' : files'[t] = files[t]
    PROVE  Covers(h)'
<1>1. sv[h].cur \in DOMAIN ls /\ sv[h].total \in Nat
  BY DEF Covers, SaverInv, Grows
<1>2. ls'[sv[h].cur].id = ls[sv[h].cur].id
  BY <1>1 DEF Grows
<1> QED BY <1>1, <1>2 DEF Covers

\* Either the archives fit the cap, or a goroutine is going to look or has a
\* scan that is not out of date.
Enforced == Fits \/ \E g \in Savers : sv[g].pc = "scan" \/ Covers(g)

\* A goroutine that does not take part keeps it up.
LEMMA OthersEnforce ==
    ASSUME SaverInv, Grows, NEW h \in Savers, sv'[h] = sv[h],
           sv[h].pc = "scan" \/ Covers(h),
           Present' \subseteq Present, Size \in Nat, Size' \in Nat, Size' <= Size,
           \A t \in Present' : files'[t] = files[t]
    PROVE  Enforced'
<1>1. CASE sv[h].pc = "scan"
  BY <1>1 DEF Enforced
<1>2. CASE Covers(h)
  BY <1>2, StillCovers DEF Enforced
<1> QED BY <1>1, <1>2

\* Close removes the archive.
LEMMA StoreDelete ==
    ASSUME TableInv, StoreInv, CloseDelete
    PROVE  StoreInv'
<1>1. /\ call.pc = "delete" /\ call.id \in Sessions /\ Remove(call.id) /\ call' = Idle
      /\ atFlush' = [atFlush EXCEPT ![call.id] = 0]
      /\ UNCHANGED <<ls, out, sv, host, stopped, runs>>
  BY DEF CloseDelete, objVars, svVars, StoreInv, CallInv
<1>2. SameData /\ LiveInv'
  BY <1>1, LiveFrame DEF SameData, StoreInv, LiveInv
<1>3. OtherInv'
  BY <1>1, ArchiveAssumption DEF StoreInv, OtherInv
<1>4. Grows
  BY <1>1, <1>2, GrowsSame DEF StoreInv
<1>5. CallInv' /\ SaverInv' /\ ScanInv' /\ DiskInv'
  <2>1. CallInv' /\ SaverInv' /\ ScanInv'
    BY <1>1, <1>4, SaverFrame, IdleCall, IdleIsCall DEF StoreInv, ScanInv
  <2>2. DiskInv'
    BY <1>1, RemovedFromDisk DEF StoreInv
  <2> QED BY <2>1, <2>2
<1>6. CapInv'
  <2>1. files' = [files EXCEPT ![call.id] = <<>>] /\ IsFiniteSet(Present) /\ DiskInv /\ SaverInv
    BY <1>1 DEF Remove, StoreInv, CapInv
  <2>2. /\ Present' = Present \ {call.id} /\ IsFiniteSet(Present')
        /\ Size \in Nat /\ Size' \in Nat /\ Size' <= Size
        /\ Fits => Fits' /\ \A t \in Present' : files'[t] = files[t]
    BY <1>1, <2>1, LessOnDisk
  <2>3. Enforcing' = Enforcing
    BY <1>1 DEF Enforcing
  <2>4. ASSUME Enforcing # {} PROVE Enforced'
    <3>1. Enforced
      BY <2>4 DEF StoreInv, CapInv, Enforced
    <3>2. CASE Fits
      BY <2>2, <3>2 DEF Enforced
    <3>3. CASE ~Fits
      <4>1. PICK h \in Savers : sv[h].pc = "scan" \/ Covers(h)
        BY <3>1, <3>3 DEF Enforced
      <4>2. sv'[h] = sv[h] /\ Present' \subseteq Present
        BY <1>1, <2>2
      <4> QED BY <1>4, <2>1, <2>2, <4>1, <4>2, OthersEnforce
    <3> QED BY <3>2, <3>3
  <2> QED BY <2>2, <2>3, <2>4 DEF CapInv, Enforced
<1> QED BY <1>2, <1>3, <1>5, <1>6 DEF StoreInv

\* The scan.
LEMMA StoreScan ==
    ASSUME TableInv, StoreInv, NEW g \in Savers, CapScan(g)
    PROVE  StoreInv' /\ Enforced'
<1>0. /\ SaverOk(sv[g], ls, out) /\ sv[g].pc = "scan"
      /\ DiskInv /\ SaverInv /\ IsFiniteSet(Present)
  BY SaverIs DEF StoreInv, CapInv, CapScan
<1>1. UNCHANGED <<ls, out, files, ages, call, host, stopped, runs, atFlush>>
  BY DEF CapScan, objVars, disk
<1>2. SameData /\ OtherInv' /\ LiveInv'
  BY <1>1, LiveFrame DEF SameData, StoreInv, LiveInv, OtherInv
<1>3. Grows
  BY <1>1, <1>2, GrowsSame DEF StoreInv
<1> DEFINE list == [i \in DOMAIN Archives |->
                      [id |-> Archives[i], size |-> Len(files[Archives[i]])]]
<1>4. PICK p, n, l : /\ p = (IF Size > Cap THEN "evict" ELSE "clear")
                     /\ n = (IF Size > Cap THEN Size ELSE 0)
                     /\ l = (IF Size > Cap THEN list ELSE <<>>)
  OBVIOUS
<1>5. /\ list \in Seq(Entries) /\ DistinctIds(list) /\ Ids(list) = Present
      /\ SeqX!SumFunction(Sized(list)) = Size
      /\ \A i \in DOMAIN list : Len(files[list[i].id]) = list[i].size
      /\ Present # {} => list # <<>>
  <2>1. PICK q : q = list
    OBVIOUS
  <2>2. /\ q \in Seq(Entries) /\ DistinctIds(q) /\ Ids(q) = Present
        /\ SeqX!SumFunction(Sized(q)) = Size
        /\ \A i \in DOMAIN q : Len(files[q[i].id]) = q[i].size
        /\ Present # {} => q # <<>>
    BY <1>0, <2>1, ScanLists
  <2> QED BY <2>1, <2>2
<1>6. Size \in Nat /\ (Present = {} => Size = 0) /\ Cap \in Nat
  BY <1>0, SizeIsNat, ArchiveAssumption DEF DiskInv
<1>7. p \in {"scan", "evict", "clear"} /\ n \in Nat /\ l \in Seq(Entries)
  BY <1>4, <1>5, <1>6, EmptySeq
<1>8. sv' = [sv EXCEPT ![g].pc = p, ![g].total = n, ![g].left = l]
  <2> HIDE DEF list
  <2> QED BY <1>4 DEF CapScan, OverCap, list
<1> HIDE DEF list
<1> DEFINE r == [sv[g] EXCEPT !.pc = p, !.total = n, !.left = l]
<1>9. Moves(g, r)
  BY <1>8 DEF Moves
<1>10. SaverOk(r, ls, out) /\ r.pc = p /\ r.total = n /\ r.left = l
  <2>1. sv[g] \in [pc : Phases, todo : SUBSET Nat, cur : Nat, data : Pieces,
                   left : Seq(Entries), total : Nat]
        /\ p \in Phases /\ p # "rename"
    BY <1>0, <1>7 DEF SaverOk, Phases
  <2>2. /\ r \in [pc : Phases, todo : SUBSET Nat, cur : Nat, data : Pieces,
                  left : Seq(Entries), total : Nat]
        /\ r.pc = p /\ r.total = n /\ r.left = l
        /\ r.todo = sv[g].todo /\ r.cur = sv[g].cur /\ r.data = sv[g].data
    BY <1>7, <2>1
  <2> HIDE DEF r
  <2>3. SaverOk(r, ls, out)
    BY <1>0, <2>1, <2>2, NextEntry
  <2> QED BY <2>2, <2>3
<1> HIDE DEF r
<1>11. /\ sv'[g].pc = p /\ sv'[g].total = n /\ sv'[g].left = l
       /\ \A h \in Savers \ {g} : sv'[h] = sv[h]
  BY <1>0, <1>9, <1>10, MovesOne
<1>12. SaverInv' /\ CallInv' /\ DiskInv'
  <2>1. SaverInv' /\ CallInv'
    BY <1>0, <1>1, <1>3, <1>9, <1>10, SaverStep, CallFrame DEF StoreInv
  <2>2. \A h \in Savers : sv'[h].pc = "rename" <=> sv[h].pc = "rename"
    BY <1>0, <1>7, <1>11
  <2> QED BY <1>0, <1>1, <1>3, <2>1, <2>2, DiskFrame
<1>13. Size' = Size /\ Present' = Present
  BY <1>1 DEF Size, Present
<1>14. CASE Size > Cap
  <2>1. p = "evict" /\ n = Size /\ l = list /\ Present # {}
    BY <1>4, <1>6, <1>14
  <2>2. Covers(g)'
    BY <1>1, <1>5, <1>6, <1>11, <1>13, <2>1 DEF Covers
  <2>3. ScanInv'
    <3>1. /\ l # <<>> /\ DistinctIds(l) /\ SeqX!SumFunction(Sized(l)) <= n
      BY <1>5, <1>6, <2>1
    <3> QED BY <1>11, <3>1 DEF ScanInv, StoreInv, DistinctIds
  <2>4. Enforced' /\ CapInv'
    BY <1>0, <1>13, <2>2 DEF CapInv, Enforced
  <2> QED BY <1>2, <1>12, <2>3, <2>4 DEF StoreInv
<1>15. CASE ~(Size > Cap)
  <2>1. p = "clear" /\ Size <= Cap
    BY <1>4, <1>6, <1>15
  <2>2. ScanInv'
    BY <1>11, <2>1 DEF ScanInv, StoreInv
  <2>3. Fits'
    BY <1>13, <2>1 DEF Fits
  <2>4. Enforced' /\ CapInv'
    BY <1>0, <1>13, <2>3 DEF CapInv, Enforced
  <2> QED BY <1>2, <1>12, <2>2, <2>4 DEF StoreInv
<1> QED BY <1>14, <1>15

\* One round of the eviction.
LEMMA StoreEvict ==
    ASSUME TableInv, StoreInv, NEW g \in Savers, Evict(g)
    PROVE  StoreInv' /\ Enforced'
<1>0. /\ SaverOk(sv[g], ls, out) /\ sv[g].pc = "evict"
      /\ DiskInv /\ SaverInv /\ IsFiniteSet(Present)
  BY SaverIs DEF StoreInv, CapInv, Evict
<1>1. PICK left, t, e, c : /\ left = sv[g].left /\ t = sv[g].total /\ e = Head(left)
                           /\ c = ls[sv[g].cur].id
  OBVIOUS
<1>2. PICK hit \in BOOLEAN : hit = (e.id # c /\ e.id \in Present)
  OBVIOUS
<1>3. PICK rest : rest = IF hit THEN t - e.size ELSE t
  OBVIOUS
<1>4. PICK more \in BOOLEAN : more = (Len(left) > 1 /\ rest > Cap)
  OBVIOUS
<1>m. (more => Len(left) > 1 /\ rest > Cap) /\ (~more => ~(Len(left) > 1) \/ ~(rest > Cap))
  BY <1>4
<1>5. PICK p, n, l : /\ p = (IF more THEN "evict" ELSE "clear")
                     /\ n = (IF more THEN rest ELSE 0)
                     /\ l = (IF more THEN Tail(left) ELSE <<>>)
  OBVIOUS
<1>6. /\ UNCHANGED <<ls, out, call, host, stopped, runs, atFlush>>
      /\ hit => Remove(e.id)
      /\ ~hit => UNCHANGED <<files, ages>>
      /\ sv' = [sv EXCEPT ![g].pc = p, ![g].total = n, ![g].left = l]
  BY <1>1, <1>2, <1>3, <1>4, <1>5 DEF Evict, OverCap, objVars, disk
<1>7. /\ left \in Seq(Entries) /\ t \in Nat /\ left # <<>> /\ DistinctIds(left)
      /\ SeqX!SumFunction(Sized(left)) <= t
  BY <1>0, <1>1 DEF SaverOk, StoreInv, ScanInv, DistinctIds
<1>8. /\ e \in Entries /\ Tail(left) \in Seq(Entries) /\ DistinctIds(Tail(left))
      /\ Len(Tail(left)) = Len(left) - 1
      /\ Ids(Tail(left)) = Ids(left) \ {e.id}
      /\ \A i \in DOMAIN Tail(left) : \E j \in DOMAIN left : Tail(left)[i] = left[j]
      /\ \E j \in DOMAIN left : e = left[j]
      /\ SeqX!SumFunction(Sized(Tail(left))) \in Nat
      /\ SeqX!SumFunction(Sized(left)) = e.size + SeqX!SumFunction(Sized(Tail(left)))
  BY <1>1, <1>7, SizedTail
<1>9. /\ e.id \in Sessions /\ e.size \in Nat /\ rest \in Nat /\ Cap \in Nat
      /\ SeqX!SumFunction(Sized(Tail(left))) <= rest
      /\ hit => rest = t - e.size
      /\ ~hit => rest = t
  <2>1. e.id \in Sessions /\ e.size \in Nat /\ Cap \in Nat
    BY <1>8, ArchiveAssumption DEF Entries
  <2> QED BY <1>3, <1>7, <1>8, <2>1
<1>10. Len(left) \in Nat /\ (more => Tail(left) # <<>>) /\ (Len(left) <= 1 => Ids(Tail(left)) = {})
  <2>1. Len(left) \in Nat
    BY <1>7, LenProperties
  <2>2. more => Tail(left) # <<>>
    <3>1. more => Len(Tail(left)) # 0
      BY <1>m, <1>8, <2>1
    <3> QED BY <3>1, EmptySeq
  <2>3. ASSUME Len(left) <= 1 PROVE Ids(Tail(left)) = {}
    <3>1. Len(Tail(left)) = 0
      <4>1. Len(Tail(left)) \in Nat
        BY <1>8, LenProperties
      <4> QED BY <4>1, <2>1, <2>3, <1>8
    <3>2. DOMAIN Tail(left) = {}
      BY <3>1, <1>8, EmptySeq
    <3> QED BY <3>2 DEF Ids
  <2> QED BY <2>1, <2>2, <2>3
<1>11. p \in {"evict", "clear"} /\ n \in Nat /\ l \in Seq(Entries)
  BY <1>5, <1>8, <1>9, EmptySeq
<1>12. SameData /\ OtherInv' /\ LiveInv'
  BY <1>6, LiveFrame DEF SameData, StoreInv, LiveInv, OtherInv
<1>13. Grows
  BY <1>6, <1>12, GrowsSame DEF StoreInv
<1> DEFINE r == [sv[g] EXCEPT !.pc = p, !.total = n, !.left = l]
<1>14. Moves(g, r)
  BY <1>6 DEF Moves
<1>15. SaverOk(r, ls, out) /\ r.pc = p /\ r.total = n /\ r.left = l /\ r.cur = sv[g].cur
  <2>1. sv[g] \in [pc : Phases, todo : SUBSET Nat, cur : Nat, data : Pieces,
                   left : Seq(Entries), total : Nat]
        /\ p \in Phases /\ p # "rename"
    BY <1>0, <1>11 DEF SaverOk, Phases
  <2>2. /\ r \in [pc : Phases, todo : SUBSET Nat, cur : Nat, data : Pieces,
                  left : Seq(Entries), total : Nat]
        /\ r.pc = p /\ r.total = n /\ r.left = l
        /\ r.todo = sv[g].todo /\ r.cur = sv[g].cur /\ r.data = sv[g].data
    BY <1>11, <2>1
  <2> HIDE DEF r
  <2>3. SaverOk(r, ls, out)
    BY <1>0, <2>1, <2>2, NextEntry
  <2> QED BY <2>2, <2>3
<1> HIDE DEF r
<1>16. /\ sv'[g].pc = p /\ sv'[g].total = n /\ sv'[g].left = l /\ sv'[g].cur = sv[g].cur
       /\ \A h \in Savers \ {g} : sv'[h] = sv[h]
  BY <1>0, <1>14, <1>15, MovesOne
<1>17. SaverInv' /\ CallInv' /\ DiskInv'
  <2>1. SaverInv' /\ CallInv'
    BY <1>0, <1>6, <1>13, <1>14, <1>15, SaverStep, CallFrame DEF StoreInv
  <2>2. \A h \in Savers : sv'[h].pc = "rename" <=> sv[h].pc = "rename"
    BY <1>0, <1>11, <1>16
  <2>3. ASSUME hit PROVE DiskInv'
    <3>1. DiskInv /\ out' = out /\ e.id \in Sessions /\ Remove(e.id)
      BY <1>0, <1>6, <1>9, <2>3
    <3> QED BY <2>2, <3>1, RemovedFromDisk
  <2>4. ASSUME ~hit PROVE DiskInv'
    <3>1. DiskInv /\ files' = files /\ ages' = ages
      BY <1>0, <1>6, <2>4
    <3> QED BY <1>13, <2>2, <3>1, DiskFrame
  <2> QED BY <2>1, <2>3, <2>4
<1>18. ScanInv'
  <2>1. more => /\ l # <<>> /\ DistinctIds(l) /\ SeqX!SumFunction(Sized(l)) <= n
    BY <1>5, <1>8, <1>9, <1>10
  <2>2. p = "evict" => more
    BY <1>5
  <2> QED BY <1>16, <2>1, <2>2 DEF ScanInv, StoreInv, DistinctIds
<1>19. /\ IsFiniteSet(Present') /\ Size \in Nat /\ Size' \in Nat /\ Size' <= Size
       /\ Fits => Fits'
       /\ Present' \subseteq Present
       /\ \A s \in Present' : files'[s] = files[s]
       /\ hit => Present' = Present \ {e.id} /\ Size = Len(files[e.id]) + Size'
  <2>1. CASE hit
    <3>1. files' = [files EXCEPT ![e.id] = <<>>] /\ e.id \in Present
      BY <1>2, <1>6, <2>1 DEF Remove
    <3> QED BY <1>0, <1>9, <3>1, LessOnDisk
  <2>2. CASE ~hit
    <3>1. files' = files
      BY <1>6, <2>2
    <3>2. Size \in Nat
      BY <1>0, SizeIsNat DEF DiskInv
    <3>3. Size' = Size /\ Present' = Present /\ (Fits => Fits')
      BY <3>1 DEF Size, Present, Fits
    <3>4. Size' <= Size /\ IsFiniteSet(Present')
      BY <1>0, <3>2, <3>3
    <3> QED BY <2>2, <3>1, <3>2, <3>3, <3>4
  <2> QED BY <2>1, <2>2
<1>20. ASSUME Covers(g) PROVE Enforced'
  <2>1. /\ Size <= t /\ Present \subseteq Ids(left) \cup {c}
        /\ \A i \in DOMAIN left :
              left[i].id \in Present => Len(files[left[i].id]) = left[i].size
    BY <1>1, <1>20 DEF Covers
  <2>2. Size' <= rest
    <3>1. hit => Len(files[e.id]) = e.size
      BY <1>2, <1>8, <2>1
    <3> QED BY <1>7, <1>9, <1>19, <2>1, <3>1
  <2>3. Present' \subseteq Ids(Tail(left)) \cup {c}
    BY <1>2, <1>8, <1>19, <2>1
  <2>4. CASE more
    <3>1. /\ sv'[g].pc = "evict" /\ sv'[g].total = rest /\ sv'[g].left = Tail(left)
          /\ ls'[sv'[g].cur].id = c
      BY <1>1, <1>5, <1>6, <1>16, <2>4
    <3>2. ASSUME NEW i \in DOMAIN Tail(left), Tail(left)[i].id \in Present'
          PROVE  Len(files'[Tail(left)[i].id]) = Tail(left)[i].size
      <4>1. PICK j \in DOMAIN left : Tail(left)[i] = left[j]
        BY <1>8
      <4>2. left[j].id \in Present /\ files'[left[j].id] = files[left[j].id]
        BY <1>19, <3>2, <4>1
      <4> QED BY <2>1, <4>1, <4>2
    <3>3. Covers(g)'
      BY <2>2, <2>3, <3>1, <3>2 DEF Covers
    <3> QED BY <3>3 DEF Enforced
  <2>5. CASE ~more
    <3>1. CASE Len(left) <= 1
      <4>1. Present' \subseteq {c}
        BY <1>10, <2>3, <3>1
      <4> QED BY <4>1 DEF Fits, Enforced
    <3>2. CASE ~(Len(left) <= 1)
      <4>1. rest <= Cap
        BY <1>m, <1>9, <1>10, <2>5, <3>2
      <4>2. Size' <= Cap
        BY <4>1, <2>2, <1>9, <1>19
      <4> QED BY <4>2 DEF Fits, Enforced
    <3> QED BY <3>1, <3>2
  <2> QED BY <2>4, <2>5
<1>21. Enforced'
  <2>1. Enforced
    <3>1. g \in Enforcing
      BY <1>0 DEF Enforcing
    <3> QED BY <3>1 DEF StoreInv, CapInv, Enforced
  <2>2. CASE Fits
    BY <1>19, <2>2 DEF Enforced
  <2>3. CASE ~Fits
    <3>1. PICK h \in Savers : sv[h].pc = "scan" \/ Covers(h)
      BY <2>1, <2>3 DEF Enforced
    <3>2. CASE h = g
      <4>1. Covers(g)
        BY <1>0, <3>1, <3>2
      <4> QED BY <1>20, <4>1
    <3>3. CASE h # g
      <4>1. sv'[h] = sv[h]
        BY <1>16, <3>3
      <4> QED BY <1>0, <1>13, <1>19, <3>1, <4>1, OthersEnforce
    <3> QED BY <3>2, <3>3
  <2> QED BY <2>2, <2>3
<1>22. CapInv'
  BY <1>19, <1>21 DEF CapInv, Enforced
<1> QED BY <1>12, <1>17, <1>18, <1>21, <1>22 DEF StoreInv

\* The goroutines stay where they are, with what they enforce.
LEMMA StorePlaces ==
    ASSUME StoreInv, Grows, UNCHANGED <<files, ages>>, LiveInv', CallInv', OtherInv', SaverInv',
           \A g \in Savers : /\ sv'[g].pc = sv[g].pc /\ sv'[g].cur = sv[g].cur
                             /\ sv'[g].left = sv[g].left /\ sv'[g].total = sv[g].total
    PROVE  StoreInv'
<1>1. DiskInv' /\ ScanInv'
  BY DiskFrame DEF StoreInv, ScanInv
<1>2. Size' = Size /\ Present' = Present /\ Fits' = Fits
  BY DEF Size, Present, Fits
<1>3. Enforcing' = Enforcing
  BY DEF Enforcing
<1>4. \A g \in Savers : Covers(g) => Covers(g)'
  <2> SUFFICES ASSUME NEW g \in Savers, Covers(g) PROVE Covers(g)'
    OBVIOUS
  <2>1. sv[g].cur \in DOMAIN ls
    BY DEF Covers, StoreInv, SaverInv, Grows
  <2>2. ls'[sv'[g].cur].id = ls[sv[g].cur].id
    BY <2>1 DEF Grows
  <2> QED BY <1>2, <2>2 DEF Covers
<1>5. CapInv'
  BY <1>2, <1>3, <1>4 DEF StoreInv, CapInv
<1> QED BY <1>1, <1>5 DEF StoreInv

\* The last piece of output is one.
LEMMA LastIs ==
    ASSUME NEW d \in Pieces
    PROVE  LastOf(d) \in 0 .. MaxOut
<1> DEFINE own == {i \in DOMAIN d : d[i] # Sep}
<1>1. DOMAIN d = 1 .. Len(d) /\ Len(d) \in Nat /\ \A i \in DOMAIN d : d[i] \in 0 .. MaxOut
  BY PiecesHaveLength, ElementOfSeq DEF Pieces
<1>2. CASE own = {}
  BY <1>2, ArchiveAssumption DEF LastOf
<1>3. CASE own # {}
  <2> DEFINE S == {k \in Nat : \E i \in own : k = Len(d) - i}
  <2>1. S \in SUBSET Nat /\ S # {}
    <3>1. PICK i \in own : TRUE
      BY <1>3
    <3>2. Len(d) - i \in S
      BY <1>1, <3>1
    <3> QED BY <3>2
  <2>2. \A i \in own : Len(d) - i \in S
    BY <1>1
  <2>3. \A k \in S : k \in Nat /\ \E i \in own : k = Len(d) - i
    OBVIOUS
  <2> HIDE DEF S
  <2>4. PICK m \in S : \A k \in S : m <= k
    BY <2>1, LeastNat
  <2>5. PICK x \in own : m = Len(d) - x
    BY <2>3, <2>4
  <2>6. \A j \in own : j <= x
    <3> SUFFICES ASSUME NEW j \in own PROVE j <= x
      OBVIOUS
    <3>1. m <= Len(d) - j /\ j \in Nat /\ x \in Nat
      BY <1>1, <2>2, <2>4, <2>5
    <3> QED BY <1>1, <2>5, <3>1
  <2>7. PICK y \in own : y = CHOOSE i \in own : \A j \in own : j <= i
    BY <2>6
  <2>8. LastOf(d) = d[y]
    BY <1>3, <2>7 DEF LastOf
  <2> QED BY <1>1, <2>7, <2>8
<1> QED BY <1>2, <1>3

\* SIGTERM, Shutdown, the end of the process and its start.
LEMMA StoreProcess ==
    ASSUME TableInv, StoreInv, Process
    PROVE  StoreInv'
<1>1. CASE Terminate
  <2> DEFINE r == [sv["main"] EXCEPT !.todo = Listed]
  <2>1. /\ Moves("main", r) /\ UNCHANGED <<ls, out, files, ages, call, stopped, runs>>
        /\ host' = "flush"
        /\ atFlush' = [s \in Sessions |->
                         IF sessions[s] = 0 THEN 0 ELSE LastOf(ls[sessions[s]].sb.buf)]
    BY <1>1 DEF Terminate, Moves, objVars
  <2>2. SameData /\ LiveInv'
    BY <2>1, LiveFrame DEF SameData, StoreInv, LiveInv
  <2>3. "main" \in Savers /\ SaverOk(sv["main"], ls, out)
    BY SaverIs DEF Savers, StoreInv
  <2>4. /\ SaverOk(r, ls, out) /\ r.pc = sv["main"].pc /\ r.cur = sv["main"].cur
        /\ r.left = sv["main"].left /\ r.total = sv["main"].total
    <3>1. Listed \in SUBSET Nat /\ Listed \subseteq DOMAIN ls
      BY ListedAre, ObjectTypes
    <3> HIDE DEF Listed
    <3>2. sv["main"] \in [pc : Phases, todo : SUBSET Nat, cur : Nat, data : Pieces,
                          left : Seq(Entries), total : Nat]
      BY <2>3 DEF SaverOk
    <3>3. /\ r \in [pc : Phases, todo : SUBSET Nat, cur : Nat, data : Pieces,
                    left : Seq(Entries), total : Nat]
          /\ r.pc = sv["main"].pc /\ r.cur = sv["main"].cur /\ r.todo = Listed
          /\ r.left = sv["main"].left /\ r.total = sv["main"].total
          /\ r.data = sv["main"].data
      BY <3>1, <3>2
    <3> HIDE DEF r
    <3> QED BY <2>3, <3>1, <3>3 DEF SaverOk
  <2> HIDE DEF r
  <2>5. atFlush' \in [Sessions -> 0 .. MaxOut]
    <3> SUFFICES ASSUME NEW s \in Sessions, sessions[s] # 0
                 PROVE  LastOf(ls[sessions[s]].sb.buf) \in 0 .. MaxOut
      BY <2>1, ArchiveAssumption
    <3>1. ls[sessions[s]].sb.buf \in Pieces
      BY DEF TableInv, EntriesRun, StoreInv, LiveInv, Buffers
    <3> QED BY <3>1, LastIs
  <2>6. Grows /\ OtherInv' /\ CallInv'
    <3>1. Grows
      BY <2>1, <2>2, GrowsSame DEF StoreInv
    <3> QED BY <2>1, <2>5, <3>1, CallFrame DEF StoreInv, OtherInv
  <2>7. SaverInv' /\ \A g \in Savers : /\ sv'[g].pc = sv[g].pc /\ sv'[g].cur = sv[g].cur
                                       /\ sv'[g].left = sv[g].left /\ sv'[g].total = sv[g].total
    <3>1. SaverInv /\ SaverOk(r, ls', out')
      BY <2>1, <2>4 DEF StoreInv
    <3> QED BY <2>1, <2>3, <2>4, <2>6, <3>1, SaverStep, MovesOne
  <2> QED BY <2>1, <2>2, <2>6, <2>7, StorePlaces
<1>2. CASE ShutdownStart
  <2>1. UNCHANGED <<ls, out, files, ages, sv, call, runs, atFlush>> /\ OtherInv'
    BY <1>2 DEF ShutdownStart, objVars, StoreInv, OtherInv
  <2>2. SameData /\ LiveInv'
    BY <2>1, LiveFrame DEF SameData, StoreInv, LiveInv
  <2>3. Grows /\ CallInv'
    BY <2>1, <2>2, GrowsSame, CallFrame DEF StoreInv
  <2> QED BY <2>1, <2>2, <2>3, StoreFrame
<1>3. CASE ShutdownClose
  <2>1. /\ ls' = [o \in DOMAIN ls |-> IF o \in Listed THEN ClosePty(ls[o]) ELSE ls[o]]
        /\ UNCHANGED <<out, files, ages, sv, call, runs, atFlush>> /\ OtherInv'
    BY <1>3 DEF ShutdownClose, svVars, StoreInv, OtherInv
  <2>2. SameData
    <3>1. \A o \in DOMAIN ls : /\ ls'[o].id = ls[o].id /\ ls'[o].sb = ls[o].sb
                               /\ ls'[o].pump = ls[o].pump
      <4> SUFFICES ASSUME NEW o \in DOMAIN ls
                   PROVE  LET x == ClosePty(ls[o])
                          IN  x.id = ls[o].id /\ x.sb = ls[o].sb /\ x.pump = ls[o].pump
        BY <2>1
      <4>1. ls[o] = [id |-> ls[o].id, sb |-> ls[o].sb, dirty |-> ls[o].dirty,
                     pty |-> ls[o].pty, pump |-> ls[o].pump]
        BY ObjectTypes
      <4> QED BY <4>1 DEF ClosePty
    <3>2. DOMAIN ls' = DOMAIN ls /\ Len(ls') = Len(ls)
      <4>1. DOMAIN ls = 1 .. Len(ls) /\ Len(ls) \in Nat /\ DOMAIN ls' = DOMAIN ls
        BY <2>1, ObjectTypes
      <4> QED BY <2>1, <4>1
    <3> QED BY <3>1, <3>2 DEF SameData, StoreInv, LiveInv
  <2>3. Grows /\ CallInv' /\ LiveInv'
    BY <2>1, <2>2, LiveFrame, GrowsSame, CallFrame DEF StoreInv
  <2> QED BY <2>1, <2>3, StoreFrame
<1>4. CASE ProcessEnds
  <2>1. /\ host' = "down" /\ ls' = <<>> /\ call' = Idle /\ stopped' = FALSE /\ ages' = Archives
        /\ sv' = [g \in Savers |-> Resting] /\ UNCHANGED <<files, out, runs, atFlush>>
    BY <1>4 DEF ProcessEnds
  <2>2. LiveInv' /\ CallInv' /\ OtherInv'
    <3>1. Len(<<>>) = 0 /\ DOMAIN <<>> = {}
      OBVIOUS
    <3>2. LiveInv'
      BY <2>1, <3>1, ArchiveAssumption DEF StoreInv, LiveInv
    <3>3. CallInv'
      BY <2>1, IdleIsCall, IdleCall
    <3> QED BY <2>1, <3>2, <3>3 DEF StoreInv, OtherInv
  <2>3. SaverInv'
    <3>1. Resting \in [pc : Phases, todo : SUBSET Nat, cur : Nat, data : Pieces,
                       left : Seq(Entries), total : Nat]
      BY EmptySeq, NothingTold DEF Resting, Phases
    <3>2. /\ Resting.pc = "each" /\ Resting.todo = {} /\ Resting.cur = 0 /\ Resting.data = <<>>
          /\ 0 \in 0 .. Len(<<>>)
      BY DEF Resting
    <3> HIDE DEF Resting
    <3> QED BY <2>1, <3>1, <3>2 DEF SaverInv
  <2>4. \A g \in Savers : sv'[g].pc = "each"
    BY <2>1 DEF Resting
  <2>5. DiskInv'
    <3>1. /\ Archives \in Seq(Sessions \cup Savers) /\ Distinct(Archives)
          /\ Names(Archives) = Present
      BY ArchivesAre DEF StoreInv
    <3>2. \A g \in Savers : g \notin Sessions
      BY ArchiveAssumption DEF Savers
    <3>3. \A s \in Sessions : s \in Present <=> files[s] # <<>>
      BY DEF Present
    <3>4. Present \subseteq Sessions
      BY DEF Present
    <3> QED BY <2>1, <2>4, <3>1, <3>2, <3>3, <3>4 DEF StoreInv, DiskInv
  <2>6. ScanInv' /\ CapInv'
    <3>1. Present' = Present
      BY <2>1 DEF Present
    <3>2. Enforcing' = {}
      BY <2>4 DEF Enforcing
    <3> QED BY <2>4, <3>1, <3>2 DEF ScanInv, CapInv, StoreInv
  <2> QED BY <2>2, <2>3, <2>5, <2>6 DEF StoreInv
<1>5. CASE ProcessStarts
  <2>1. UNCHANGED <<ls, out, files, ages, sv, call>> /\ OtherInv'
    <3>1. /\ UNCHANGED <<ls, out, files, ages, sv, call, stopped>> /\ host' = "up"
          /\ runs < MaxRuns /\ runs' = runs + 1 /\ atFlush' = [s \in Sessions |-> 0]
      BY <1>5 DEF ProcessStarts, objVars, svVars
    <3> QED BY <3>1, ArchiveAssumption DEF StoreInv, OtherInv
  <2>2. SameData /\ LiveInv'
    BY <2>1, LiveFrame DEF SameData, StoreInv, LiveInv
  <2>3. Grows /\ CallInv'
    BY <2>1, <2>2, GrowsSame, CallFrame DEF StoreInv
  <2> QED BY <2>1, <2>2, <2>3, StoreFrame
<1> QED BY <1>1, <1>2, <1>3, <1>4, <1>5 DEF Process

-----------------------------------------------------------------------------
(* The invariant, and what follows from it. *)

\* The initial states.
LEMMA StoreInit == Init => StoreInv
<1> SUFFICES ASSUME Init PROVE StoreInv
  OBVIOUS
<1>0. /\ host = "up" /\ ls = <<>> /\ call = Idle /\ files = [s \in Sessions |-> <<>>] /\ ages = <<>>
      /\ sv = [g \in Savers |-> Resting] /\ stopped = FALSE /\ out = [s \in Sessions |-> 0]
      /\ runs = 1 /\ atFlush = [s \in Sessions |-> 0]
  BY DEF Init
<1>1. Len(<<>>) = 0 /\ DOMAIN <<>> = {}
  OBVIOUS
<1>2. LiveInv /\ OtherInv
  <2>1. 0 \in 0 .. MaxOut /\ 1 \in 1 .. MaxRuns
    BY ArchiveAssumption
  <2>2. LiveInv
    BY <1>0, <1>1, <2>1, ArchiveAssumption DEF LiveInv
  <2> QED BY <1>0, <2>1, <2>2 DEF OtherInv
<1>3. CallInv
  BY <1>0, IdleIsCall DEF CallInv
<1>4. SaverInv /\ \A g \in Savers : sv[g].pc = "each"
  <2>1. Resting \in [pc : Phases, todo : SUBSET Nat, cur : Nat, data : Pieces,
                     left : Seq(Entries), total : Nat]
    BY EmptySeq, NothingTold DEF Resting, Phases
  <2>2. /\ Resting.pc = "each" /\ Resting.todo = {} /\ Resting.cur = 0 /\ Resting.data = <<>>
        /\ 0 \in 0 .. Len(<<>>)
    BY DEF Resting
  <2> HIDE DEF Resting
  <2> QED BY <1>0, <2>1, <2>2 DEF SaverInv
<1>5. DiskInv
  <2>1. ages \in Seq(Sessions \cup Savers) /\ Distinct(ages) /\ Names(ages) = {}
    BY <1>0, <1>1, EmptySeq DEF Distinct, Names
  <2> QED BY <1>0, <1>4, <2>1, NothingTold DEF DiskInv
<1>6. ScanInv /\ CapInv
  <2>1. Present = {} /\ Enforcing = {}
    BY <1>0, <1>4 DEF Present, Enforcing
  <2> QED BY <1>4, <2>1, FS_EmptySet DEF ScanInv, CapInv
<1> QED BY <1>2, <1>3, <1>4, <1>5, <1>6 DEF StoreInv

\* A step that changes nothing.
LEMMA StoreStutters ==
    ASSUME TableInv, StoreInv, UNCHANGED vars
    PROVE  StoreInv'
<1>1. UNCHANGED <<ls, out, files, ages, sv, call, host, stopped, runs, atFlush>>
  BY DEF vars
<1>2. SameData /\ LiveInv' /\ OtherInv'
  BY <1>1, LiveFrame DEF SameData, StoreInv, LiveInv, OtherInv
<1>3. Grows /\ CallInv'
  BY <1>1, <1>2, GrowsSame, CallFrame DEF StoreInv
<1> QED BY <1>1, <1>2, <1>3, StoreFrame

\* A step of any goroutine or of the process.
LEMMA StoreStep ==
    ASSUME TableInv, StoreInv, [Next]_vars
    PROVE  StoreInv'
<1>1. CASE Handler
  BY <1>1, StoreOpen, StoreClosePty, StoreDelete DEF Handler
<1>2. CASE \E o \in DOMAIN ls : Pump(o)
  BY <1>2, StorePumpWrite, StorePumpEnds DEF Pump
<1>3. CASE \E g \in Savers : Saving(g)
  BY <1>3, StoreFlush, StoreSnapshot, StoreRename, StoreScan, StoreEvict DEF Saving
<1>4. CASE FlusherTick \/ FlusherStops
  BY <1>4, StoreFlush DEF Savers
<1>5. CASE Process
  BY <1>5, StoreProcess
<1>6. CASE UNCHANGED vars
  BY <1>6, StoreStutters
<1> QED BY <1>1, <1>2, <1>3, <1>4, <1>5, <1>6 DEF Next

\* The invariant of the table and of what is stored holds in every state
\* (Manager and Archive, over any number of lives of the host).
THEOREM StoreInvariant == Spec => [](TableInv /\ StoreInv)
<1>1. Init => TableInv /\ StoreInv
  BY TableInit, StoreInit
<1>2. TableInv /\ StoreInv /\ [Next]_vars => (TableInv /\ StoreInv)'
  BY TableStep, StoreStep
<1> QED BY <1>1, <1>2, PTL DEF Spec

\* Every variable has its type, and history is never repeated or reordered:
\* not by a restart that restores it, by output that fills the buffer, by a
\* save that is overtaken, or by a crash between its steps.
THEOREM HistoryStaysInOrder == Spec => []HistoryInOrder
<1>1. TableInv /\ StoreInv => HistoryInOrder
  <2> SUFFICES ASSUME TableInv, StoreInv PROVE HistoryInOrder
    OBVIOUS
  <2>1. \A o \in DOMAIN ls : InOrder(ls[o].sb.buf)
    BY DEF StoreInv, LiveInv, Told
  <2>2. \A s \in Sessions : InOrder(files[s])
    BY DEF StoreInv, DiskInv, Told
  <2>3. \A g \in Savers : InOrder(sv[g].data)
    BY NothingTold DEF StoreInv, SaverInv, Told
  <2>4. TypeOK
    <3>1. \A o \in DOMAIN ls :
             /\ ls[o].id \in Sessions /\ ls[o].sb.buf \in Pieces
             /\ Len(ls[o].sb.buf) <= Max
             /\ ls[o].dirty \in BOOLEAN /\ ls[o].pty \in {"open", "late", "closed"}
             /\ ls[o].pump \in {"read", "mark", "gone"}
      BY ObjectTypes DEF StoreInv, LiveInv, Buffers
    <3>2. sessions \in [Sessions -> 0 .. Len(ls)]
      <4>1. DOMAIN ls = 1 .. Len(ls) /\ Len(ls) \in Nat
        BY ObjectTypes
      <4>2. \A s \in Sessions : sessions[s] \in 0 .. Len(ls)
        BY <4>1 DEF TableInv, TableType, EntriesRun
      <4> QED BY <4>2 DEF TableInv, TableType
    <3>3. /\ call.pc \in {"idle", "publish", "delete"}
          /\ call.pc # "idle" => call.id \in Sessions
          /\ call.prior \in Pieces
      BY DEF StoreInv, CallInv, Calls
    <3>4. \A s \in Sessions : files[s] \in Pieces
      BY DEF StoreInv, DiskInv
    <3>5. \A g \in Savers :
             /\ sv[g].todo \subseteq DOMAIN ls /\ sv[g].cur \in 0 .. Len(ls)
             /\ sv[g].data \in Pieces /\ sv[g].total \in Nat
             /\ sv[g].pc \in {"snap", "rename", "scan", "evict", "clear"} => sv[g].cur # 0
      BY DEF StoreInv, SaverInv
    <3>6. ages \in Seq(Sessions \cup Savers)
      BY DEF StoreInv, DiskInv
    <3> QED BY <3>1, <3>2, <3>3, <3>4, <3>5, <3>6 DEF TypeOK, StoreInv, LiveInv, OtherInv
  <2> QED BY <2>1, <2>2, <2>3, <2>4 DEF HistoryInOrder
<1> QED BY <1>1, StoreInvariant, PTL

\* Only the scan and the eviction lead to the reset of the flag.
LEMMA OnlyEnforcementClears ==
    ASSUME StoreInv, [Next]_vars, NEW g \in Savers, sv[g].pc # "clear", sv'[g].pc = "clear"
    PROVE  (CapScan(g) \/ Evict(g)) /\ \A h \in Savers \ {g} : sv'[h] = sv[h]
<1>0. sv = [h \in Savers |-> sv[h]] /\ \A h \in Savers : sv[h] = [sv[h] EXCEPT !.pc = sv[h].pc]
  BY DEF StoreInv, SaverInv
<1>s. SaverInv
  BY DEF StoreInv
<1>1. sv' # sv
  OBVIOUS
<1>2. CASE Handler
  BY <1>1, <1>2 DEF Handler, OpenLoad, CloseStart, OpenPublish, CloseDelete, svVars
<1>3. CASE \E o \in DOMAIN ls : Pump(o)
  BY <1>1, <1>3 DEF Pump, PumpWrite, PumpMark, PumpExit, svVars
<1>4. CASE \E h \in Savers : Saving(h)
  <2>1. PICK h \in Savers : Saving(h)
    BY <1>4
  <2>2. ASSUME NEW k \in Savers \ {h} PROVE sv'[k] = sv[k]
    <3>d. k # h /\ k \in DOMAIN sv
      BY <1>s DEF SaverInv
    <3>1. CASE \E o \in DOMAIN ls : FlushNext(h, o)
      BY <3>d, <3>1 DEF FlushNext
    <3>2. CASE FlushSnapshot(h)
      BY <3>d, <3>2 DEF FlushSnapshot
    <3>3. CASE SaveRename(h) \/ FlushClear(h)
      BY <3>d, <3>3 DEF SaveRename, FlushClear
    <3>4. CASE CapScan(h)
      BY <3>d, <3>4 DEF CapScan
    <3>5. CASE Evict(h)
      BY <3>d, <3>5 DEF Evict
    <3> QED BY <2>1, <3>1, <3>2, <3>3, <3>4, <3>5 DEF Saving
  <2>4. h = g
    BY <2>2
  <2>5. SaverOk(sv[g], ls, out)
    BY <1>s, SaverIs
  <2>6. ~(\E o \in DOMAIN ls : FlushNext(g, o))
    <3> SUFFICES ASSUME NEW o \in DOMAIN ls, FlushNext(g, o) PROVE FALSE
      OBVIOUS
    <3>1. PICK p, c : /\ p = (IF g = "main" \/ ls[o].dirty THEN "snap" ELSE "each")
                      /\ c = IF g = "main" \/ ls[o].dirty THEN o ELSE 0
      OBVIOUS
    <3>2. sv'[g] = [sv[g] EXCEPT !.todo = @ \ {o}, !.cur = c, !.pc = p]
      BY <1>s, <3>1 DEF FlushNext, SaverInv
    <3>3. sv'[g].pc = p
      BY <2>5, <3>2 DEF SaverOk
    <3> QED BY <3>1, <3>3
  <2>7. ~FlushSnapshot(g) /\ ~SaveRename(g) /\ ~FlushClear(g)
    BY <1>s DEF FlushSnapshot, SaveRename, FlushClear, SaverInv
  <2> QED BY <2>1, <2>2, <2>4, <2>6, <2>7 DEF Saving
<1>5. CASE FlusherTick \/ FlusherStops
  BY <1>s, <1>5 DEF FlusherTick, FlusherStops, SaverInv, Savers
<1>6. CASE Process
  BY <1>s, <1>1, <1>6 DEF Process, Terminate, ShutdownStart, ShutdownClose, ProcessEnds,
     ProcessStarts, SaverInv, Savers, svVars, Resting
<1>7. CASE UNCHANGED vars
  BY <1>1, <1>7 DEF vars
<1> QED BY <1>2, <1>3, <1>4, <1>5, <1>6, <1>7 DEF Next

\* When a Save ends, the archives fit the cap or one is left, unless the other
\* goroutine still enforces it: what it read of the directory may have gone
\* stale, but then another scan, or its own, covers what was added.
THEOREM CapHolds == Spec => CapEnforced
<1> DEFINE Kept == \A g \in Savers :
               sv[g].pc # "clear" /\ sv'[g].pc = "clear"
               => \/ Size' <= Cap
                  \/ Cardinality(Present') <= 1
                  \/ \E h \in Savers \ {g} : sv[h].pc \in {"scan", "evict"}
<1>1. TableInv /\ StoreInv /\ [Next]_vars => Kept
  <2> SUFFICES ASSUME TableInv, StoreInv, [Next]_vars, NEW g \in Savers,
                      sv[g].pc # "clear", sv'[g].pc = "clear",
                      ~(Cardinality(Present') <= 1),
                      ~(\E h \in Savers \ {g} : sv[h].pc \in {"scan", "evict"})
               PROVE  Size' <= Cap
    OBVIOUS
  <2>1. (CapScan(g) \/ Evict(g)) /\ \A h \in Savers \ {g} : sv'[h] = sv[h]
    BY OnlyEnforcementClears
  <2>2. Enforced'
    BY <2>1, StoreScan, StoreEvict
  <2>3. Fits'
    BY <2>1, <2>2 DEF Enforced, Covers
  <2>4. ASSUME NEW s, Present' \subseteq {s} PROVE FALSE
    <3>1. IsFiniteSet({s}) /\ Cardinality({s}) = 1
      BY FS_Singleton
    <3>2. Cardinality(Present') <= Cardinality({s})
      BY <2>4, <3>1, FS_Subset
    <3> QED BY <3>1, <3>2
  <2> QED BY <2>3, <2>4 DEF Fits
<1>2. TableInv /\ StoreInv /\ [Next]_vars => [Kept]_vars
  BY <1>1
<1> HIDE DEF Kept
<1>3. Spec => [][Kept]_vars
  BY <1>2, StoreInvariant, PTL DEF Spec
<1> QED BY <1>3 DEF CapEnforced, Kept
=============================================================================
