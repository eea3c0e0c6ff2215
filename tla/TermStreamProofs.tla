-------------------------- MODULE TermStreamProofs --------------------------
(***************************************************************************)
(* Proofs about TermStream, for every capacity, number of clients and      *)
(* bound.  The inductive invariant is TypeOK, WindowIsTail and two parts   *)
(* of its own: where each drain's cursor can be, and which wait channels   *)
(* are closed.                                                             *)
(***************************************************************************)
EXTENDS TermStream, SequenceTheorems, TLAPS

\* The buffer holds the bytes first .. upto of the stream, the newest of them
\* and as many as fit: WindowIsTail for a buffer and a stream length.
Window(b, upto) ==
    /\ End(b) = upto
    /\ Len(b.buf) = IF upto < Max THEN upto ELSE Max
    /\ \A i \in 1 .. Len(b.buf) : b.buf[i] = b.start + i

Scrollbacks == [buf : Seq(Nat), start : Nat, closed : BOOLEAN, wait : Nat]

-----------------------------------------------------------------------------
(* The operators of Scrollback. *)

\* The last n elements of a sequence: how many, and which.
LEMMA LastNProperties ==
    ASSUME NEW s \in Seq(Nat), NEW n \in 0 .. Len(s)
    PROVE  /\ LastN(s, n) \in Seq(Nat)
           /\ Len(LastN(s, n)) = n
           /\ \A i \in 1 .. n : LastN(s, n)[i] = s[Len(s) - n + i]
<1>1. CASE n = 0
  BY <1>1, SubSeqProperties DEF LastN
<1>2. CASE n > 0
  <2>1. Len(s) - n + 1 \in 1 .. Len(s) + 1 /\ Len(s) \in Len(s) - n + 1 - 1 .. Len(s)
    BY <1>2
  <2> QED BY <2>1, <1>2, SubSeqProperties DEF LastN
<1> QED BY <1>1, <1>2

\* A piece of the stream is the sequence of its byte numbers.
LEMMA BytesProperties ==
    ASSUME NEW a \in Nat, NEW b \in Nat, a <= b
    PROVE  /\ Bytes(a, b) \in Seq(Nat)
           /\ Len(Bytes(a, b)) = b - a
           /\ \A i \in 1 .. (b - a) : Bytes(a, b)[i] = a + i
BY DEF Bytes

\* The byte numbers first+1, first+2, ... of the stream, and no others.
Numbered(s, first) == s \in Seq(Nat) /\ \A i \in 1 .. Len(s) : s[i] = first + i

\* The n bytes that follow byte a.
LEMMA BytesNumbered ==
    ASSUME NEW a \in Nat, NEW n \in Nat
    PROVE  Numbered(Bytes(a, a + n), a) /\ Len(Bytes(a, a + n)) = n
<1>1. PICK b \in Nat : b = a + n /\ a <= b /\ b - a = n
  OBVIOUS
<1>2. Bytes(a, b) \in Seq(Nat) /\ Len(Bytes(a, b)) = n
      /\ \A i \in 1 .. n : Bytes(a, b)[i] = a + i
  BY <1>1, BytesProperties
<1> QED BY <1>1, <1>2 DEF Numbered

\* A piece of the stream is determined by where it begins and ends.
LEMMA NumberedIsBytes ==
    ASSUME NEW s, NEW a \in Nat, NEW b \in Nat, a <= b,
           Numbered(s, a), Len(s) = b - a
    PROVE  s = Bytes(a, b)
<1>1. /\ Bytes(a, b) \in Seq(Nat) /\ Len(Bytes(a, b)) = Len(s)
      /\ \A i \in 1 .. Len(s) : Bytes(a, b)[i] = a + i
  BY BytesProperties
<1>2. s \in Seq(Nat) /\ \A i \in 1 .. Len(s) : s[i] = Bytes(a, b)[i]
  BY <1>1 DEF Numbered
<1> QED BY <1>1, <1>2, SeqEqual

\* Consecutive pieces of the stream concatenate to one piece.
LEMMA NumberedConcat ==
    ASSUME NEW s, NEW t, NEW first \in Nat,
           Numbered(s, first), Numbered(t, first + Len(s))
    PROVE  Numbered(s \o t, first) /\ Len(s \o t) = Len(s) + Len(t)
<1>1. s \in Seq(Nat) /\ t \in Seq(Nat) /\ Len(s) \in Nat /\ Len(t) \in Nat
  BY DEF Numbered
<1>2. s \o t \in Seq(Nat) /\ Len(s \o t) = Len(s) + Len(t)
  BY <1>1
<1>3. ASSUME NEW i \in 1 .. Len(s \o t) PROVE (s \o t)[i] = first + i
  <2>1. CASE i <= Len(s)
    <3>1. i \in 1 .. Len(s) /\ (s \o t)[i] = s[i]
      BY <1>1, <1>2, <2>1
    <3> QED BY <3>1 DEF Numbered
  <2>2. CASE i > Len(s)
    <3>1. i - Len(s) \in 1 .. Len(t) /\ (s \o t)[i] = t[i - Len(s)]
      BY <1>1, <1>2, <2>2
    <3>2. t[i - Len(s)] = first + Len(s) + (i - Len(s))
      BY <3>1 DEF Numbered
    <3> QED BY <3>1, <3>2, <1>1
  <2> QED BY <2>1, <2>2, <1>1
<1> QED BY <1>2, <1>3 DEF Numbered

\* The last n bytes of a piece of the stream are the piece that ends with it.
LEMMA NumberedLastN ==
    ASSUME NEW s, NEW first \in Nat, Numbered(s, first), NEW n \in 0 .. Len(s)
    PROVE  Numbered(LastN(s, n), first + (Len(s) - n)) /\ Len(LastN(s, n)) = n
<1>1. s \in Seq(Nat) /\ Len(s) \in Nat
  BY DEF Numbered
<1>2. /\ LastN(s, n) \in Seq(Nat) /\ Len(LastN(s, n)) = n
      /\ \A i \in 1 .. n : LastN(s, n)[i] = s[Len(s) - n + i]
  BY <1>1, LastNProperties
<1>3. ASSUME NEW i \in 1 .. n PROVE LastN(s, n)[i] = first + (Len(s) - n) + i
  <2>1. Len(s) - n + i \in 1 .. Len(s)
    BY <1>1
  <2>2. s[Len(s) - n + i] = first + (Len(s) - n + i)
    BY <2>1 DEF Numbered
  <2> QED BY <1>1, <1>2, <2>2
<1> QED BY <1>2, <1>3 DEF Numbered

\* Write: appending the next piece of the stream to a window over the stream
\* leaves a window over the longer stream, whichever of the eviction branches
\* is taken, and never moves the start backwards.
LEMMA WriteKeepsWindow ==
    ASSUME NEW b \in Scrollbacks, NEW t \in Nat, Window(b, t),
           NEW p, Numbered(p, t)
    PROVE  /\ Write(b, p) \in Scrollbacks
           /\ Window(Write(b, p), t + Len(p))
           /\ Write(b, p).start >= b.start
           /\ Write(b, p).wait = b.wait + 1
           /\ Write(b, p).closed = b.closed
<1> DEFINE over == Len(p) > Max
           kept == IF over THEN LastN(p, Max) ELSE p
           base == IF over THEN <<>> ELSE b.buf
           from == IF over THEN OverflowStart(b, p) ELSE b.start
           all == base \o kept
           drop == IF Len(all) > Max THEN Len(all) - Max ELSE 0
           rest == LastN(all, Len(all) - drop)
           full == IF t + Len(p) < Max THEN t + Len(p) ELSE Max
<1>1. Write(b, p) = [b EXCEPT !.buf = rest, !.start = from + drop, !.wait = @ + 1]
  BY DEF Write
<1>2. /\ b.buf \in Seq(Nat) /\ Len(b.buf) \in Nat /\ b.start \in Nat /\ b.wait \in Nat
      /\ b.start + Len(b.buf) = t /\ Numbered(b.buf, b.start)
      /\ Len(b.buf) = IF t < Max THEN t ELSE Max
      /\ Len(p) \in Nat /\ Max \in Nat /\ Max > 0
  BY MaxAssumption DEF Scrollbacks, Window, End, Numbered
<1>3. /\ from \in Nat /\ from >= b.start /\ Numbered(all, from)
      /\ from + Len(all) = t + Len(p) /\ Len(all) >= full
  <2>1. CASE over
    <3>1. Numbered(kept, t + (Len(p) - Max)) /\ Len(kept) = Max
      BY <1>2, <2>1, NumberedLastN
    <3>2. all = kept
      BY <2>1, <3>1 DEF Numbered
    <3>3. from = t + (Len(p) - Max)
      BY <1>2, <2>1 DEF OverflowStart
    <3>4. Len(p) - Max > 0 /\ full <= Max
      BY <1>2, <2>1
    <3> HIDE DEF kept, all, from, full
    <3>5. Numbered(all, from) /\ Len(all) = Max
      BY <3>1, <3>2, <3>3
    <3>6. from \in Nat /\ from >= b.start /\ from + Max = t + Len(p)
      BY <1>2, <3>3, <3>4
    <3> QED BY <3>4, <3>5, <3>6, <1>2
  <2>2. CASE ~over
    <3>1. all = b.buf \o p /\ from = b.start
      BY <2>2
    <3>2. Numbered(b.buf \o p, b.start) /\ Len(b.buf \o p) = Len(b.buf) + Len(p)
      BY <1>2, NumberedConcat
    <3>3. /\ b.start + (Len(b.buf) + Len(p)) = t + Len(p)
          /\ Len(b.buf) + Len(p) >= full
      BY <1>2, <2>2, SMTT(30)
    <3> HIDE DEF all, from, full
    <3> QED BY <1>2, <3>1, <3>2, <3>3
  <2> QED BY <2>1, <2>2
<1>4. Len(all) \in Nat
  BY <1>3 DEF Numbered
<1> HIDE DEF over, kept, base, from, all
<1>0. full \in Nat /\ full <= Max /\ (full < Max => full = t + Len(p))
  BY <1>2
<1>5. drop \in Nat /\ Len(all) - drop \in 0 .. Len(all) /\ Len(all) - drop = full
  <2> HIDE DEF full
  <2> QED BY <1>0, <1>2, <1>3, <1>4
<1> HIDE DEF drop
<1>6. Numbered(rest, from + drop) /\ Len(rest) = full
  <2>1. Numbered(rest, from + (Len(all) - (Len(all) - drop)))
        /\ Len(rest) = Len(all) - drop
    BY <1>3, <1>5, NumberedLastN
  <2>2. Len(all) - (Len(all) - drop) = drop
    BY <1>4, <1>5
  <2> QED BY <1>5, <2>1, <2>2
<1> HIDE DEF rest, full
<1>7. /\ Write(b, p).buf = rest /\ Write(b, p).start = from + drop
      /\ Write(b, p).wait = b.wait + 1 /\ Write(b, p).closed = b.closed
  BY <1>1 DEF Scrollbacks
<1>8. Write(b, p) \in Scrollbacks
  <2>1. rest \in Seq(Nat) /\ from + drop \in Nat /\ b.wait + 1 \in Nat
    BY <1>2, <1>3, <1>5, <1>6, SMTT(30) DEF Numbered
  <2> QED BY <1>1, <2>1 DEF Scrollbacks
<1>9. from + drop + full = t + Len(p)
  BY <1>2, <1>3, <1>4, <1>5
<1>10. Window(Write(b, p), t + Len(p))
  <2>1. \A i \in 1 .. Len(rest) : rest[i] = from + drop + i
    BY <1>6 DEF Numbered
  <2>2. Len(rest) = IF t + Len(p) < Max THEN t + Len(p) ELSE Max
    BY <1>6 DEF full
  <2> QED BY <1>6, <1>7, <1>9, <2>1, <2>2 DEF Window, End
<1> QED BY <1>2, <1>3, <1>5, <1>7, <1>8, <1>10

\* Close replaces the channel and leaves the bytes alone.
LEMMA CloseProperties ==
    ASSUME NEW b \in Scrollbacks
    PROVE  /\ Close(b) \in Scrollbacks
           /\ Close(b).buf = b.buf /\ Close(b).start = b.start
           /\ Close(b).wait = b.wait + 1 /\ b.wait \in Nat
BY DEF Close, Scrollbacks

-----------------------------------------------------------------------------
(* The inductive invariant. *)

IInv == TypeOK /\ WindowIsTail /\ CursorInv /\ ChannelInv

\* The session's buffer in the vocabulary of the lemmas above.
LEMMA WindowForm == WindowIsTail <=> Window(sb, total)
BY DEF WindowIsTail, Window

\* Manager.Open: the preloaded buffer is a window over history + separator.
LEMMA PreloadedWindow ==
    ASSUME NEW k \in Nat
    PROVE  /\ Preloaded(k) \in Scrollbacks
           /\ Window(Preloaded(k), IF k = 0 THEN 0 ELSE k + SepLen)
<1>1. NewScrollback \in Scrollbacks /\ Window(NewScrollback, 0)
  BY MaxAssumption DEF NewScrollback, Scrollbacks, Window, End
<1>2. CASE k = 0
  BY <1>1, <1>2 DEF Preloaded, NewScrollbackWithData
<1>3. CASE k > 0
  <2> DEFINE old == Bytes(0, k)  sep == Bytes(k, k + SepLen)
  <2>1. Numbered(old, 0) /\ Len(old) = k
    <3>1. 0 + k = k
      OBVIOUS
    <3>2. Numbered(Bytes(0, 0 + k), 0) /\ Len(Bytes(0, 0 + k)) = k
      BY BytesNumbered
    <3> QED BY <3>1, <3>2
  <2>2. Numbered(sep, k) /\ Len(sep) = SepLen
    BY StreamAssumption, BytesNumbered
  <2>3. old # <<>>
    BY <1>3, <2>1
  <2> HIDE DEF old, sep
  <2>4. Write(NewScrollback, old) \in Scrollbacks /\ Window(Write(NewScrollback, old), k)
    BY <1>1, <2>1, WriteKeepsWindow
  <2>5. Write(Write(NewScrollback, old), sep) \in Scrollbacks
        /\ Window(Write(Write(NewScrollback, old), sep), k + SepLen)
    BY <2>2, <2>4, WriteKeepsWindow
  <2>6. Preloaded(k) = Write(Write(NewScrollback, old), sep)
    BY <1>3, <2>3 DEF Preloaded, NewScrollbackWithData, old, sep
  <2> QED BY <1>3, <2>5, <2>6
<1> QED BY <1>2, <1>3

\* The invariant holds before anything was sent.
LEMMA InitEstablishes == Init => IInv
<1> SUFFICES ASSUME Init PROVE IInv
  OBVIOUS
<1>1. PICK k \in 0 .. MaxPrior :
         sb = Preloaded(k) /\ total = IF k = 0 THEN 0 ELSE k + SepLen
  BY DEF Init
<1>2. k \in Nat /\ total \in Nat
  BY <1>1, StreamAssumption
<1>3. sb \in Scrollbacks /\ Window(sb, total)
  BY <1>1, <1>2, PreloadedWindow
<1>4. TypeOK
  BY <1>2, <1>3 DEF Init, TypeOK, Scrollbacks
<1>5. WindowIsTail
  BY <1>3, WindowForm
<1>6. CursorInv
  BY DEF Init, CursorInv
<1>7. ChannelInv
  BY <1>3 DEF Init, ChannelInv, Scrollbacks
<1> QED BY <1>4, <1>5, <1>6, <1>7 DEF IInv

\* What the window says about one round of ReadFrom: b is the buffer, t the
\* length of the stream, cur the drain's cursor, last the last byte sent.
LEMMA ReadRound ==
    ASSUME NEW b \in Scrollbacks, NEW t \in Nat, Window(b, t),
           NEW cur \in Nat, NEW last \in Nat, cur <= t,
           cur = last \/ (last = 0 /\ cur <= b.start)
    PROVE  /\ Clamp(b, cur) \in Nat /\ Clamp(b, cur) <= t
           /\ Clamp(b, cur) >= last
           /\ Clamp(b, cur) \in {last, b.start}
           /\ HasData(b, cur) =>
                 /\ Clamp(b, cur) < t
                 /\ Numbered(DataFrom(b, cur), Clamp(b, cur))
                 /\ Len(DataFrom(b, cur)) = t - Clamp(b, cur)
           /\ ~HasData(b, cur) => Clamp(b, cur) = cur /\ last = t
<1>1. PICK st \in Nat, len \in Nat :
         st = b.start /\ len = Len(b.buf) /\ st + len = t
         /\ (len = 0 => t = 0) /\ Numbered(b.buf, st)
  BY MaxAssumption DEF Scrollbacks, Window, End, Numbered
<1>2. End(b) = t
  BY DEF Window
<1>3. PICK from \in Nat : from = Clamp(b, cur) /\ from = IF cur < st THEN st ELSE cur
  BY <1>1 DEF Clamp
<1>4. from <= t /\ from >= last /\ from \in {last, st} /\ from >= st
  BY <1>1, <1>3
<1>5. CASE HasData(b, cur)
  <2>1. from < t
    BY <1>2, <1>3, <1>5 DEF HasData
  <2>2. t - from \in 0 .. len /\ len - (t - from) + 1 = from - st + 1
        /\ st + (len - (t - from)) = from
    <3>1. st + len = t
      BY <1>1
    <3>2. from >= st
      BY <1>4
    <3> QED BY <2>1, <3>1, <3>2
  <2>3. DataFrom(b, cur) = LastN(b.buf, t - from)
    <3>1. Clamp(b, cur) - b.start + 1 = Len(b.buf) - (t - from) + 1
      BY <1>1, <1>3, <2>2
    <3> QED BY <3>1 DEF DataFrom, LastN
  <2>4. Numbered(LastN(b.buf, t - from), from) /\ Len(LastN(b.buf, t - from)) = t - from
    BY <1>1, <2>2, NumberedLastN
  <2> QED BY <1>1, <1>3, <1>4, <1>5, <2>1, <2>3, <2>4
<1>6. CASE ~HasData(b, cur)
  <2>1. ~(from < t)
    BY <1>2, <1>3, <1>6 DEF HasData
  <2>2. from = cur /\ last = t
    BY <1>1, <1>3, <1>4, <2>1
  <2> QED BY <1>1, <1>3, <1>4, <1>6, <2>2
<1> QED BY <1>5, <1>6

-----------------------------------------------------------------------------
(* Every step preserves the invariant. *)

\* A PTY read: the window moves on, every blocked reader gets a new channel.
LEMMA PumpWriteStep ==
    ASSUME IInv, NEW n \in 1 .. MaxChunk, PumpWrite(n)
    PROVE  IInv'
<1> USE DEF IInv
<1>1. /\ sb \in Scrollbacks /\ total \in Nat /\ n \in Nat /\ total' = total + n
      /\ Window(sb, total)
  BY StreamAssumption, WindowForm DEF PumpWrite, TypeOK, Scrollbacks
<1>2. /\ sb' \in Scrollbacks /\ Window(sb', total')
      /\ sb'.start >= sb.start /\ sb'.wait = sb.wait + 1 /\ sb'.closed = sb.closed
  <2>1. Numbered(Bytes(total, total + n), total) /\ Len(Bytes(total, total + n)) = n
    BY <1>1, BytesNumbered
  <2>2. sb' = Write(sb, Bytes(total, total + n))
    BY DEF PumpWrite
  <2> QED BY <1>1, <2>1, <2>2, WriteKeepsWindow
<1>3. TypeOK'
  BY <1>1, <1>2 DEF PumpWrite, TypeOK, Scrollbacks, attachVars
<1>4. WindowIsTail'
  BY <1>2 DEF WindowIsTail, Window
<1>5. CursorInv'
  <2> SUFFICES ASSUME NEW c \in Clients
               PROVE  /\ drain[c] = "oldest" => sent[c] = 0
                      /\ drain[c] \in {"read", "blocked"} =>
                            /\ cursor[c] <= total'
                            /\ cursor[c] = sent[c] \/ (sent[c] = 0 /\ cursor[c] <= sb'.start)
                      /\ drain[c] = "write" =>
                            /\ data[c] # <<>> /\ cursor[c] <= total'
                            /\ data[c][Len(data[c])] = cursor[c]
    BY DEF CursorInv, PumpWrite, attachVars
  <2>1. cursor[c] \in Nat /\ sb.start \in Nat /\ sb'.start \in Nat
    BY <1>1, <1>2 DEF TypeOK, Scrollbacks
  <2> QED BY <1>1, <1>2, <2>1 DEF CursorInv
<1>6. ChannelInv'
  <2>1. sb.wait \in Nat /\ pump = "read" /\ pump' = "signal" /\ closedCh' = closedCh
        /\ drain' = drain /\ waitOn' = waitOn
    BY DEF PumpWrite, attachVars, TypeOK
  <2>2. \A k \in 0 .. (sb.wait - 1) : k \in closedCh
    BY <2>1 DEF ChannelInv
  <2>3. \A c \in Clients : drain[c] = "blocked" => waitOn[c] \in Nat /\ waitOn[c] <= sb.wait
    BY DEF ChannelInv, TypeOK
  <2> QED BY <1>2, <2>1, <2>2, <2>3 DEF ChannelInv
<1> QED BY <1>3, <1>4, <1>5, <1>6

\* The other steps of the pump leave the stream alone.
LEMMA PumpStep ==
    ASSUME IInv, PumpSignal \/ PumpReadError \/ PumpClose \/ PumpRemove
    PROVE  IInv'
<1> USE DEF IInv
<1>1. /\ sb \in Scrollbacks /\ sb' \in Scrollbacks
      /\ sb'.buf = sb.buf /\ sb'.start = sb.start /\ total' = total /\ total \in Nat
      /\ sb.wait \in Nat /\ sb'.wait \in Nat
  <2>1. sb \in Scrollbacks /\ total \in Nat /\ sb.wait \in Nat /\ total' = total
    BY DEF PumpSignal, PumpReadError, PumpClose, PumpRemove, TypeOK, Scrollbacks
  <2>2. CASE PumpClose
    <3>1. sb' = Close(sb)
      BY <2>2 DEF PumpClose
    <3>2. sb'.wait \in Nat
      BY <2>1, <3>1, CloseProperties
    <3> QED BY <2>1, <3>1, <3>2, CloseProperties
  <2>3. CASE sb' = sb
    BY <2>1, <2>3
  <2> QED BY <2>1, <2>2, <2>3 DEF PumpSignal, PumpReadError, PumpRemove
<1>2. /\ main' = main /\ drain' = drain /\ copy' = copy /\ cursor' = cursor
      /\ waitOn' = waitOn /\ data' = data /\ sent' = sent /\ open' = open
  BY DEF PumpSignal, PumpReadError, PumpClose, PumpRemove, attachVars
<1>3. TypeOK'
  <2>1. /\ closedCh' \in SUBSET Nat /\ inMap' \in BOOLEAN
        /\ pump' \in {"read", "signal", "exited", "signalClose", "remove", "gone"}
    <3>1. inMap' \in BOOLEAN
      BY Zenon DEF PumpSignal, PumpReadError, PumpClose, PumpRemove, TypeOK
    <3>2. closedCh' \in SUBSET Nat
      <4>1. CASE PumpSignal
        <5>1. sb.wait - 1 \in Nat
          BY <1>1, <4>1 DEF PumpSignal, ChannelInv
        <5> QED BY <4>1, <5>1 DEF PumpSignal, TypeOK
      <4>2. CASE PumpReadError \/ PumpClose \/ PumpRemove
        BY <4>2 DEF PumpReadError, PumpClose, PumpRemove, TypeOK
      <4> QED BY <4>1, <4>2
    <3>3. pump' \in {"read", "signal", "exited", "signalClose", "remove", "gone"}
      BY DEF PumpSignal, PumpReadError, PumpClose, PumpRemove
    <3> QED BY <3>1, <3>2, <3>3
  <2>2. sb' \in [buf : Seq(Nat), start : Nat, closed : BOOLEAN, wait : Nat] /\ total' \in Nat
    BY <1>1 DEF Scrollbacks
  <2> QED BY <1>2, <2>1, <2>2 DEF TypeOK
<1>4. WindowIsTail'
  BY <1>1 DEF WindowIsTail, End
<1>5. CursorInv'
  BY <1>1, <1>2 DEF CursorInv
<1>6. ChannelInv'
  <2>1. \A c \in Clients : drain[c] = "blocked" => waitOn[c] \in Nat /\ waitOn[c] <= sb.wait
    BY DEF ChannelInv, TypeOK
  <2>2. \A c \in Clients : HasData(sb', cursor[c]) <=> HasData(sb, cursor[c])
    BY <1>1 DEF HasData, Clamp, End
  <2>3. CASE PumpSignal
    BY <1>1, <1>2, <2>1, <2>2, <2>3 DEF PumpSignal, ChannelInv
  <2>4. CASE PumpClose
    <3>1. /\ pump = "exited" /\ pump' = "signalClose" /\ closedCh' = closedCh
          /\ sb'.wait = sb.wait + 1
      BY <2>4 DEF PumpClose, Close, TypeOK
    <3>2. \A k \in 0 .. (sb.wait - 1) : k \in closedCh
      BY <3>1 DEF ChannelInv
    <3> QED BY <1>1, <1>2, <2>1, <3>1, <3>2 DEF ChannelInv
  <2>5. CASE PumpReadError \/ PumpRemove
    BY <1>1, <1>2, <2>2, <2>5 DEF PumpReadError, PumpRemove, ChannelInv
  <2> QED BY <2>3, <2>4, <2>5
<1> QED BY <1>3, <1>4, <1>5, <1>6

\* The steps of an Attach other than its reads leave the pump alone.
LEMMA AttachStep ==
    ASSUME IInv, NEW c \in Clients,
           \/ Attach(c) \/ DrainOldest(c) \/ Wake(c) \/ DrainWrite(c)
           \/ DrainWriteFails(c) \/ CopyEnds(c) \/ AttachExited(c) \/ AttachReturns(c)
    PROVE  IInv'
<1> USE DEF IInv
<1> DEFINE Acts == \/ Attach(c) \/ DrainOldest(c) \/ Wake(c) \/ DrainWrite(c)
                   \/ DrainWriteFails(c) \/ CopyEnds(c) \/ AttachExited(c) \/ AttachReturns(c)
<1>1. sb' = sb /\ total' = total /\ closedCh' = closedCh /\ pump' = pump /\ inMap' = inMap
  BY DEF Attach, DrainOldest, Wake, DrainWrite, DrainWriteFails, CopyEnds,
         AttachExited, AttachReturns, pumpVars
<1>2. TypeOK'
  <2>1. CASE Attach(c)
    BY <1>1, <2>1 DEF Attach, TypeOK
  <2>3. CASE DrainOldest(c)
    BY <1>1, <2>3 DEF DrainOldest, TypeOK
  <2>4. CASE Wake(c)
    BY <1>1, <2>4 DEF Wake, TypeOK
  <2>8. CASE DrainWriteFails(c)
    <3>1. <<>> \in Seq(Nat)
      OBVIOUS
    <3> QED BY <1>1, <2>8, <3>1 DEF DrainWriteFails, TypeOK
  <2>5. CASE CopyEnds(c)
    BY <1>1, <2>5 DEF CopyEnds, TypeOK
  <2>6. CASE AttachExited(c)
    BY <1>1, <2>6 DEF AttachExited, TypeOK
  <2>7. CASE AttachReturns(c)
    BY <1>1, <2>7 DEF AttachReturns, TypeOK
  <2>2. CASE DrainWrite(c)
    <3>1. data[c][Len(data[c])] = cursor[c] /\ cursor[c] \in Nat
      BY <2>2 DEF DrainWrite, CursorInv, TypeOK
    <3> QED BY <1>1, <2>2, <3>1 DEF DrainWrite, TypeOK
  <2> QED BY <2>1, <2>2, <2>3, <2>4, <2>5, <2>6, <2>7, <2>8
<1>3. WindowIsTail'
  BY <1>1 DEF WindowIsTail
<1>4. \A d \in Clients : d # c =>
         /\ drain'[d] = drain[d] /\ cursor'[d] = cursor[d] /\ sent'[d] = sent[d]
         /\ data'[d] = data[d] /\ waitOn'[d] = waitOn[d]
  BY DEF Attach, DrainOldest, Wake, DrainWrite, DrainWriteFails, CopyEnds,
         AttachExited, AttachReturns, TypeOK
<1>5. CursorInv'
  <2>1. /\ drain'[c] = "oldest" => sent'[c] = 0
        /\ drain'[c] \in {"read", "blocked"} =>
              /\ cursor'[c] <= total
              /\ cursor'[c] = sent'[c] \/ (sent'[c] = 0 /\ cursor'[c] <= sb.start)
        /\ drain'[c] = "write" =>
              /\ data'[c] # <<>> /\ cursor'[c] <= total
              /\ data'[c][Len(data'[c])] = cursor'[c]
    <3>1. CASE Attach(c) \/ Wake(c) \/ DrainWriteFails(c) \/ CopyEnds(c)
               \/ AttachExited(c) \/ AttachReturns(c)
      BY <3>1 DEF Attach, Wake, DrainWriteFails, CopyEnds, AttachExited,
                  AttachReturns, CursorInv, TypeOK
    <3>2. CASE DrainWrite(c)
      BY <3>2 DEF DrainWrite, CursorInv, TypeOK
    <3>3. CASE DrainOldest(c)
      BY <3>3 DEF DrainOldest, CursorInv, TypeOK, WindowIsTail, End
    <3> QED BY <3>1, <3>2, <3>3
  <2> QED BY <1>1, <1>4, <2>1 DEF CursorInv
<1>6. ChannelInv'
  <2>1. drain'[c] = "blocked" =>
           drain[c] = "blocked" /\ waitOn'[c] = waitOn[c] /\ cursor'[c] = cursor[c]
    BY DEF Attach, DrainOldest, Wake, DrainWrite, DrainWriteFails, CopyEnds,
           AttachExited, AttachReturns, TypeOK
  <2> QED BY <1>1, <1>4, <2>1 DEF ChannelInv
<1> QED BY <1>2, <1>3, <1>5, <1>6

\* A round of ReadFrom, with what it may hand to the client.
LEMMA ReadFromStep ==
    ASSUME IInv, NEW c \in Clients, ReadFrom(c)
    PROVE  /\ IInv'
           /\ data'[c] # data[c] =>
                 /\ Numbered(data'[c], data'[c][1] - 1)
                 /\ Len(data'[c]) = cursor'[c] - (data'[c][1] - 1)
                 /\ data'[c][1] - 1 \in Nat /\ cursor'[c] \in Nat
                 /\ data'[c][1] - 1 < cursor'[c]
                 /\ data'[c][1] > sent[c]
                 /\ data'[c][1] \in {sent[c] + 1, sb.start + 1}
           /\ drain'[c] = "done" => sent[c] = total
<1> USE DEF IInv
<1> DEFINE from == Clamp(sb, cursor[c])  d == DataFrom(sb, cursor[c])
<1>1. /\ sb' = sb /\ total' = total /\ closedCh' = closedCh /\ pump' = pump /\ inMap' = inMap
      /\ main' = main /\ copy' = copy /\ sent' = sent
  BY DEF ReadFrom, pumpVars
<1>2. /\ sb \in Scrollbacks /\ total \in Nat /\ Window(sb, total) /\ cursor[c] \in Nat
      /\ sent[c] \in Nat /\ drain[c] = "read" /\ cursor[c] <= total /\ End(sb) = total
      /\ cursor[c] = sent[c] \/ (sent[c] = 0 /\ cursor[c] <= sb.start)
      /\ sb.start \in Nat
  BY WindowForm DEF ReadFrom, TypeOK, Scrollbacks, CursorInv, Window
<1>3. /\ from \in Nat /\ from <= total /\ from >= sent[c] /\ from \in {sent[c], sb.start}
      /\ HasData(sb, cursor[c]) => from < total /\ Numbered(d, from) /\ Len(d) = total - from
      /\ ~HasData(sb, cursor[c]) => from = cursor[c] /\ sent[c] = total
  BY <1>2, ReadRound
<1> HIDE DEF from, d
<1>4. /\ drain'[c] # drain[c] /\ drain'[c] \in {"write", "done", "blocked"}
      /\ drain'[c] = "write" =>
            /\ HasData(sb, cursor[c])
            /\ data' = [data EXCEPT ![c] = d] /\ cursor' = [cursor EXCEPT ![c] = total]
            /\ UNCHANGED <<waitOn, open>>
      /\ drain'[c] # "write" =>
            /\ ~HasData(sb, cursor[c])
            /\ cursor' = [cursor EXCEPT ![c] = from] /\ UNCHANGED data
      /\ drain'[c] = "blocked" =>
            ~sb.closed /\ waitOn' = [waitOn EXCEPT ![c] = sb.wait] /\ open' = open
      /\ drain'[c] = "done" => waitOn' = waitOn /\ open' = open \ {c}
      /\ drain' = [drain EXCEPT ![c] = drain'[c]]
  BY <1>2 DEF ReadFrom, TypeOK, from, d
<1>7. \A e \in Clients : e # c =>
         /\ drain'[e] = drain[e] /\ cursor'[e] = cursor[e] /\ sent'[e] = sent[e]
         /\ data'[e] = data[e] /\ waitOn'[e] = waitOn[e]
  BY <1>1, <1>4 DEF TypeOK
<1>5. CASE drain'[c] = "write"
  <2>1. from < total /\ Numbered(d, from) /\ Len(d) = total - from
    BY <1>3, <1>4, <1>5
  <2>2. d \in Seq(Nat) /\ d # <<>> /\ d[1] = from + 1 /\ d[Len(d)] = total
    BY <1>2, <1>3, <2>1 DEF Numbered
  <2>3. data'[c] = d /\ cursor'[c] = total
    BY <1>2, <1>4, <1>5 DEF TypeOK
  <2>4. TypeOK'
    <3>1. /\ data' \in [Clients -> Seq(Nat)] /\ cursor' \in [Clients -> Nat]
          /\ waitOn' = waitOn /\ open' = open
      <4>1. /\ data' = [data EXCEPT ![c] = d] /\ cursor' = [cursor EXCEPT ![c] = total]
            /\ waitOn' = waitOn /\ open' = open
        BY <1>4, <1>5
      <4>2. data \in [Clients -> Seq(Nat)] /\ cursor \in [Clients -> Nat] /\ total \in Nat
        BY DEF TypeOK
      <4> QED BY <2>2, <4>1, <4>2
    <3>2. drain' \in [Clients -> {"none", "oldest", "read", "blocked", "write", "done"}]
      BY <1>4, <1>5 DEF TypeOK
    <3> QED BY <1>1, <3>1, <3>2 DEF TypeOK
  <2>5. CursorInv'
    <3>1. /\ drain'[c] = "write" /\ data'[c] # <<>> /\ cursor'[c] <= total
          /\ data'[c][Len(data'[c])] = cursor'[c]
      BY <1>2, <1>5, <2>2, <2>3
    <3>2. ASSUME NEW e \in Clients
          PROVE  /\ drain'[e] = "oldest" => sent'[e] = 0
                 /\ drain'[e] \in {"read", "blocked"} =>
                       /\ cursor'[e] <= total
                       /\ cursor'[e] = sent'[e] \/ (sent'[e] = 0 /\ cursor'[e] <= sb.start)
                 /\ drain'[e] = "write" =>
                       /\ data'[e] # <<>> /\ cursor'[e] <= total
                       /\ data'[e][Len(data'[e])] = cursor'[e]
      <4>1. CASE e = c
        BY <3>1, <4>1
      <4>2. CASE e # c
        BY <1>7, <4>2 DEF CursorInv
      <4> QED BY <4>1, <4>2
    <3> QED BY <1>1, <3>2 DEF CursorInv
  <2>6. ChannelInv'
    BY <1>1, <1>5, <1>7 DEF ChannelInv
  <2>7. WindowIsTail'
    BY <1>1 DEF WindowIsTail
  <2>8. d[1] - 1 = from
    BY <1>3, <2>2
  <2>9. /\ Numbered(d, d[1] - 1) /\ Len(d) = total - (d[1] - 1)
        /\ d[1] - 1 \in Nat /\ d[1] - 1 < total
    BY <1>3, <2>1, <2>8
  <2>10. d[1] > sent[c] /\ d[1] \in {sent[c] + 1, sb.start + 1}
    <3>1. sent[c] \in Nat /\ sb.start \in Nat /\ d[1] = from + 1
      BY <1>2, <2>2
    <3>2. from \in Nat /\ from >= sent[c] /\ (from = sent[c] \/ from = sb.start)
      BY <1>3
    <3> QED BY <3>1, <3>2
  <2> QED BY <1>2, <1>5, <2>3, <2>4, <2>5, <2>6, <2>7, <2>9, <2>10
<1>6. CASE drain'[c] # "write"
  <2>1. ~HasData(sb, cursor[c]) /\ from = cursor[c] /\ sent[c] = total
    BY <1>3, <1>4, <1>6
  <2>2. cursor' = cursor /\ data' = data
    BY <1>4, <1>6, <2>1 DEF TypeOK
  <2>3. TypeOK'
    <3>1. drain' \in [Clients -> {"none", "oldest", "read", "blocked", "write", "done"}]
      BY <1>4, <1>6 DEF TypeOK
    <3>2. waitOn' \in [Clients -> Nat] /\ open' \in SUBSET Clients
      <4>1. sb.wait \in Nat
        BY <1>2 DEF Scrollbacks
      <4> QED BY <1>4, <1>6, <4>1 DEF TypeOK
    <3> QED BY <1>1, <2>2, <3>1, <3>2 DEF TypeOK
  <2>4. CursorInv'
    BY <1>1, <1>2, <1>4, <1>6, <1>7, <2>2 DEF CursorInv
  <2>5. ChannelInv'
    <3>1. sb.wait \in Nat
      BY <1>2 DEF Scrollbacks
    <3>2. drain'[c] = "blocked" => waitOn'[c] = sb.wait /\ ~sb.closed
      BY <1>4 DEF TypeOK
    <3> QED BY <1>1, <1>7, <2>1, <2>2, <3>1, <3>2 DEF ChannelInv
  <2>6. WindowIsTail'
    BY <1>1 DEF WindowIsTail
  <2> QED BY <2>1, <2>2, <2>3, <2>4, <2>5, <2>6
<1> QED BY <1>5, <1>6

\* Every step of the pump, the shell and each attach slot keeps it.
LEMMA StepPreserves == IInv /\ [Next]_vars => IInv'
<1> SUFFICES ASSUME IInv, [Next]_vars PROVE IInv'
  OBVIOUS
<1>1. CASE PumpNext
  BY <1>1, PumpStep, PumpWriteStep DEF PumpNext
<1>2. ASSUME NEW c \in Clients, ClientNext(c) PROVE IInv'
  BY <1>2, AttachStep, ReadFromStep DEF ClientNext, DrainNext
<1>3. CASE UNCHANGED vars
  BY <1>3 DEF vars, IInv, TypeOK, WindowIsTail, CursorInv, ChannelInv
<1> QED BY <1>1, <1>2, <1>3 DEF Next, AllDone

-----------------------------------------------------------------------------
(* The theorems. *)

\* Every reachable state satisfies the inductive invariant.
THEOREM InvariantHolds == Spec => []IInv
<1>1. Init => IInv
  BY InitEstablishes
<1>2. IInv /\ [Next]_vars => IInv'
  BY StepPreserves
<1> QED BY <1>1, <1>2, PTL DEF Spec

\* Every variable of the session keeps its type, the buffer and its offsets
\* included, for every capacity and any number of clients.
THEOREM TypeCorrect == Spec => []TypeOK
<1>1. IInv => TypeOK
  BY DEF IInv
<1> QED BY <1>1, InvariantHolds, PTL

\* Write's evictions: the scrollback always holds exactly the newest bytes of
\* the output, at the offsets it claims.
THEOREM ScrollbackIsTail == Spec => []WindowIsTail
<1>1. IInv => WindowIsTail
  BY DEF IInv
<1> QED BY <1>1, InvariantHolds, PTL

\* ReadFrom's blocking select: a reader with something to return is always
\* on a channel that is, or is about to be, closed.
THEOREM WakeupsAreNotLost == Spec => []NoLostWakeup
<1>1. IInv => NoLostWakeup
  <2> SUFFICES ASSUME IInv, NEW c \in Clients, drain[c] = "blocked",
                      HasData(sb, cursor[c]) \/ sb.closed
               PROVE  \/ waitOn[c] \in closedCh
                      \/ pump \in {"signal", "signalClose"} /\ waitOn[c] = sb.wait - 1
    BY DEF NoLostWakeup
  <2>1. waitOn[c] \in Nat /\ sb.wait \in Nat /\ waitOn[c] <= sb.wait /\ waitOn[c] # sb.wait
    BY DEF IInv, ChannelInv, TypeOK
  <2>2. waitOn[c] \in 0 .. (sb.wait - 1)
    BY <2>1
  <2> QED BY <2>2 DEF IInv, ChannelInv
<1> QED BY <1>1, InvariantHolds, PTL

\* A step that hands a client bytes is a round of ReadFrom.
LEMMA OnlyReadFromDelivers ==
    ASSUME IInv, [Next]_vars, NEW c \in Clients
    PROVE  /\ data'[c] # data[c] /\ data'[c] # <<>> => ReadFrom(c)
           /\ drain[c] = "read" /\ drain'[c] = "done" => ReadFrom(c)
<1>1. CASE PumpNext \/ UNCHANGED vars
  BY <1>1 DEF PumpNext, PumpSignal, PumpReadError, PumpClose, PumpRemove, PumpWrite,
              attachVars, vars
<1>2. ASSUME NEW e \in Clients, ClientNext(e), ~ReadFrom(e)
      PROVE  /\ data'[c] = data[c] \/ data'[c] = <<>>
             /\ ~(drain[c] = "read" /\ drain'[c] = "done")
  BY <1>2 DEF ClientNext, DrainNext, Attach, DrainOldest, Wake, DrainWrite,
     DrainWriteFails, CopyEnds, AttachExited, AttachReturns, IInv, TypeOK
<1>3. ASSUME NEW e \in Clients, e # c, ReadFrom(e)
      PROVE  data'[c] = data[c] /\ drain'[c] = drain[c]
  BY <1>3 DEF ReadFrom, IInv, TypeOK
<1> QED BY <1>1, <1>2, <1>3 DEF Next, AllDone

\* ReadFrom never hands a client a byte twice or out of order.
THEOREM OrderedDelivery == Spec => DeliversInOrder
<1>1. IInv /\ [Next]_vars =>
        [\A c \in Clients :
            data'[c] # data[c] /\ data'[c] # <<>> =>
               /\ data'[c] = Bytes(data'[c][1] - 1, cursor'[c])
               /\ data'[c][1] > sent[c]]_vars
  <2> SUFFICES ASSUME IInv, [Next]_vars, NEW c \in Clients,
                      data'[c] # data[c], data'[c] # <<>>
               PROVE  /\ data'[c] = Bytes(data'[c][1] - 1, cursor'[c])
                      /\ data'[c][1] > sent[c]
    OBVIOUS
  <2>1. ReadFrom(c)
    BY OnlyReadFromDelivers
  <2>2. /\ Numbered(data'[c], data'[c][1] - 1)
        /\ Len(data'[c]) = cursor'[c] - (data'[c][1] - 1)
        /\ data'[c][1] - 1 \in Nat /\ cursor'[c] \in Nat
        /\ data'[c][1] - 1 < cursor'[c] /\ data'[c][1] > sent[c]
    BY <2>1, ReadFromStep
  <2>3. PICK a \in Nat, b \in Nat : a = data'[c][1] - 1 /\ b = cursor'[c] /\ a <= b
    BY <2>2
  <2>4. data'[c] = Bytes(a, b)
    BY <2>2, <2>3, NumberedIsBytes
  <2> QED BY <2>2, <2>3, <2>4
<1> QED BY <1>1, InvariantHolds, PTL DEF Spec, DeliversInOrder

\* ReadFrom passes over a byte only if it is no longer retained.
THEOREM NoAvoidableGap == Spec => SkipsOnlyEvicted
<1>1. IInv /\ [Next]_vars =>
        [\A c \in Clients :
            data'[c] # data[c] /\ data'[c] # <<>> =>
               data'[c][1] \in {sent[c] + 1, sb.start + 1}]_vars
  BY OnlyReadFromDelivers, ReadFromStep
<1> QED BY <1>1, InvariantHolds, PTL DEF Spec, SkipsOnlyEvicted

\* ReadFrom reports the end of the stream only after its last byte was sent.
THEOREM NothingLostAtExit == Spec => EofAfterLastByte
<1>1. IInv /\ [Next]_vars =>
        [\A c \in Clients :
            drain[c] = "read" /\ drain'[c] = "done" => sent[c] = total]_vars
  BY OnlyReadFromDelivers, ReadFromStep
<1> QED BY <1>1, InvariantHolds, PTL DEF Spec, EofAfterLastByte
=============================================================================
