----------------------------- MODULE Scrollback -----------------------------
(***************************************************************************)
(* The agent's scrollback: a bounded broadcast byte buffer with absolute   *)
(* offsets (internal/agent/domain/terminal/scrollback.go).  A buffer is a  *)
(* record whose fields are those of the Go struct; each operator is the    *)
(* critical section of the method with its name.  A byte is identified by  *)
(* whatever value the caller chooses: TermStream uses its position in the  *)
(* output stream, so that a lost, repeated or moved byte is visible.       *)
(***************************************************************************)
EXTENDS Integers, Sequences

CONSTANT Max   \* capacity of the buffer in bytes

ASSUME MaxAssumption == Max \in Nat \ {0}

\* start is the absolute offset of buf[1] (buf[0] in Go); wait names the
\* channel that the next Write or Close closes to wake the blocked readers.
NewScrollback == [buf |-> <<>>, start |-> 0, closed |-> FALSE, wait |-> 0]

End(sb) == sb.start + Len(sb.buf)

\* The last n elements of a sequence.
LastN(s, n) == SubSeq(s, Len(s) - n + 1, Len(s))

\* The offset of the first byte kept of a write larger than the buffer.
OverflowStartForgets(sb, p) == sb.start + (Len(p) - Max)         \* mutant: old bytes
OverflowStart(sb, p) == sb.start + Len(sb.buf) + (Len(p) - Max)

\* Write replaces the wait channel under the lock and closes the old one only
\* after the unlock: closing is a step of the caller.
Write(sb, p) ==
    LET over == Len(p) > Max
        kept == IF over THEN LastN(p, Max) ELSE p
        base == IF over THEN <<>> ELSE sb.buf
        from == IF over THEN OverflowStart(sb, p) ELSE sb.start
        all  == base \o kept
        drop == IF Len(all) > Max THEN Len(all) - Max ELSE 0
    IN  [sb EXCEPT !.buf   = LastN(all, Len(all) - drop),
                   !.start = from + drop,
                   !.wait  = @ + 1]

CloseSilently(sb) == [sb EXCEPT !.closed = TRUE]   \* mutant: no broadcast
Close(sb) == [buf |-> sb.buf, start |-> sb.start, closed |-> TRUE, wait |-> sb.wait + 1]

\* NewScrollbackWithData: an empty archive leaves the buffer untouched.
NewScrollbackWithData(data) ==
    IF data = <<>> THEN NewScrollback ELSE Write(NewScrollback, data)

\* The three parts of one locked round of ReadFrom: a cursor that fell behind
\* the window is moved to its start; bytes past the cursor are returned
\* before the closed flag is looked at.
ClampToEnd(sb, cursor) == IF cursor < sb.start THEN End(sb) - 1 ELSE cursor  \* mutant
Clamp(sb, cursor) == IF cursor < sb.start THEN sb.start ELSE cursor

HasDataClosedFirst(sb, cursor) == ~sb.closed /\ Clamp(sb, cursor) < End(sb)  \* mutant
HasData(sb, cursor) == Clamp(sb, cursor) < End(sb)

DataFromStart(sb, cursor) == sb.buf                            \* mutant: replay all
DataFrom(sb, cursor) ==
    SubSeq(sb.buf, Clamp(sb, cursor) - sb.start + 1, Len(sb.buf))
=============================================================================
