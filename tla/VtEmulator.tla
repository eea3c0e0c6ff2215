----------------------------- MODULE VtEmulator -----------------------------
(***************************************************************************)
(* The terminal emulator of a session (adapter/secondary/vt/emulator.go):  *)
(* two screens, saved cursors, the parser and a partial UTF-8 character,   *)
(* all kept between writes, and the revision the snapshot producer         *)
(* compares.  Every exported method runs under one mutex, so a Write of    *)
(* any length, a Resize and a Render are one step each.                    *)
(*                                                                         *)
(* Above 0x7F a byte is named by what it is in UTF-8: "L2" and "L3" lead a *)
(* character of two or three bytes, "L2x" one that is never valid, "CC"    *)
(* continues one, "XX" can stand nowhere.                                  *)
(***************************************************************************)
EXTENDS VtScreen

CONSTANTS
    Chunks,     \* what the shell may write at once: sequences of bytes
    Sizes,      \* the <<columns, rows>> a client may ask for
    MaxCalls    \* bound: calls of Write and Resize

ASSUME EmulatorAssumption ==
    Chunks \subseteq Seq(STRING) /\ Sizes \subseteq Int \X Int /\ MaxCalls \in Nat

VARIABLES
    em,         \* the Emulator
    rev,        \* Emulator.rev
    shown,      \* what the last Render returned
    calls       \* calls of Write and Resize so far

vars == <<em, rev, shown, calls>>

HighBytes == {"L2", "L3", "L2x", "CC", "XX"}
AtLeast1(n) == IF n < 1 THEN 1 ELSE n

New(cols, rows) ==
    LET home == [cx |-> 0, cy |-> 0, pen |-> DefaultPen]
    IN  [cols |-> cols, rows |-> rows,
         scr |-> [primary |-> newScreen(cols, rows), alt |-> newScreen(cols, rows)],
         saved |-> [primary |-> home, alt |-> home],
         useAlt |-> FALSE, visible |-> TRUE, dirty |-> FALSE,
         prompt |-> "unknown", ps |-> NewParser, utf8 |-> <<>>, panicked |-> FALSE]

On(e)  == IF e.useAlt THEN "alt" ELSE "primary"
Cur(e) == e.scr[On(e)]

\* The current screen after an operation; a panic leaves the rest as it was.
Put(e, s)  == IF s = Panic THEN [e EXCEPT !.panicked = TRUE] ELSE [e EXCEPT !.scr[On(e)] = s]
Mark(e)    == [e EXCEPT !.dirty = TRUE]
Draw(e, s) == Mark(Put(e, s))

-----------------------------------------------------------------------------
(* Cursor save and restore, the alternate screen, reset. *)

\* Each screen has a saved cursor of its own.
saveCursorShared(e) ==                             \* mutant: one for both screens
    [e EXCEPT !.saved.primary = [cx |-> Cur(e).cx, cy |-> Cur(e).cy, pen |-> Cur(e).pen]]
saveCursor(e) ==
    [e EXCEPT !.saved[On(e)] = [cx |-> Cur(e).cx, cy |-> Cur(e).cy, pen |-> Cur(e).pen]]

\* What was saved before a resize may lie outside the screen.
restoreCursor(e) ==
    LET c == e.saved[On(e)]
    IN  Draw(e, clampCursor([Cur(e) EXCEPT !.cx = c.cx, !.cy = c.cy, !.pen = c.pen]))

switchUnmarked(e, alt) == [e EXCEPT !.useAlt = alt]     \* mutant: no new revision
switchAltScreen(e, alt) == IF e.useAlt = alt THEN e ELSE Mark([e EXCEPT !.useAlt = alt])

\* Saved cursors and the choice of the screen survive a reset.
hardReset(e) ==
    [e EXCEPT !.scr = [primary |-> newScreen(e.cols, e.rows), alt |-> newScreen(e.cols, e.rows)],
              !.visible = TRUE, !.prompt = "unknown", !.dirty = TRUE]

setDecMode(e, mode, set) ==
    CASE mode = 25 -> Mark([e EXCEPT !.visible = set])
      [] mode \in {47, 1047} -> switchAltScreen(e, set)
      [] mode = 1049 /\ set ->
            LET a == switchAltScreen(saveCursor(e), TRUE) IN Draw(a, eraseInDisplay(Cur(a), 2))
      [] mode = 1049 /\ ~set -> restoreCursor(switchAltScreen(e, FALSE))
      [] OTHER -> e

-----------------------------------------------------------------------------
(* dispatch: what a completed sequence does. *)

executeC0(e, b) ==
    CASE b = "CR" -> Draw(e, carriageReturn(Cur(e)))
      [] b = "LF" -> Draw(e, lineFeed(Cur(e)))
      [] b = "HT" -> Draw(e, tab(Cur(e)))
      [] b = "BS" /\ Cur(e).cx > 0 -> Draw(e, backspace(Cur(e)))
      [] OTHER -> e

dispatchESC(e, final) ==
    CASE final = "7" -> saveCursor(e)
      [] final = "8" -> restoreCursor(e)
      [] final = "M" -> Draw(e, reverseIndex(Cur(e)))
      [] final = "c" -> hardReset(e)
      [] OTHER -> e

\* A parameter that is absent or 0 means the default; for ED and EL it means 0.
Param(ps, i, def) == IF i <= Len(ps) /\ ps[i] # 0 THEN ps[i] ELSE def
Mode(ps)          == IF ps = <<>> THEN 0 ELSE ps[1]

\* The sequences that draw or move on the current screen.
DrawCSI(s, final, ps) ==
    LET n == Param(ps, 1, 1)
    IN  CASE final = "A" -> up(s, n)
          [] final = "B" -> down(s, n)
          [] final = "C" -> forward(s, n)
          [] final = "D" -> back(s, n)
          [] final = "E" -> carriageReturn(down(s, n))
          [] final = "F" -> carriageReturn(up(s, n))
          [] final = "G" -> column(s, n)
          [] final \in {"H", "f"} -> column(row(s, n), Param(ps, 2, 1))
          [] final = "d" -> row(s, n)
          [] final = "J" -> eraseInDisplay(s, Mode(ps))
          [] final = "K" -> eraseInLine(s, Mode(ps))
          [] final = "X" -> eraseChars(s, n)
          [] final = "L" -> insertLines(s, n)
          [] final = "M" -> deleteLines(s, n)
          [] final = "S" -> scrollUp(s, RegionTop(s), RegionBot(s), n)
          [] final = "T" -> scrollDown(s, RegionTop(s), RegionBot(s), n)
Drawing == {"A", "B", "C", "D", "E", "F", "G", "H", "f", "d", "J", "K", "X", "L", "M", "S", "T"}

dispatchCSI(e, final, ps, inter) ==
    LET s == Cur(e)
        n == Param(ps, 1, 1)
        region == setRegion(s, n, Param(ps, 2, s.rows))
        decMode(x, m) == setDecMode(x, m, final = "h")
    IN  CASE inter = <<>> /\ final \in Drawing -> Draw(e, DrawCSI(s, final, ps))
          \* no room right of the cursor: nothing is drawn
          [] inter = <<>> /\ final = "P" /\ s.cx < s.cols -> Draw(e, deleteChars(s, n))
          [] inter = <<>> /\ final = "@" /\ s.cx < s.cols -> Draw(e, insertChars(s, n))
          [] inter = <<>> /\ final = "m" -> Put(e, [s EXCEPT !.pen = applySGR(@, ps)])
          [] inter = <<>> /\ final = "r" /\ region # Refused -> Draw(e, region)
          [] inter = <<>> /\ final = "s" -> saveCursor(e)
          [] inter = <<>> /\ final = "u" -> restoreCursor(e)
          [] inter = <<"?">> /\ final \in {"h", "l"} -> FoldLeft(decMode, e, ps)
          [] OTHER -> e

\* Shell-integration marks: the letter after "133;".
handleOSC(e, payload) ==
    LET mark == IF Len(payload) > 4 /\ SubSeq(payload, 1, 4) = <<"1", "3", "3", ";">>
                THEN payload[5] ELSE "none"
    IN  CASE mark \in {"A", "B", "D"} -> [e EXCEPT !.prompt = "atPrompt"]
          [] mark = "C" -> [e EXCEPT !.prompt = "running"]
          [] OTHER -> e

dispatch(e, a) ==
    CASE a.kind = "print"   -> Draw(e, printRune(Cur(e), a.ch))
      [] a.kind = "execute" -> executeC0(e, a.ch)
      [] a.kind = "csi"     -> dispatchCSI(e, a.final, a.params, a.inter)
      [] a.kind = "esc" /\ a.inter = <<>> -> dispatchESC(e, a.final)
      [] a.kind = "osc"     -> handleOSC(e, a.payload)
      [] OTHER -> e

-----------------------------------------------------------------------------
(* The exported methods. *)

\* How many bytes the lead byte promises, and whether they are all there.
utf8RuneLen(b) == CASE b \in {"L2", "L2x"} -> 2 [] b = "L3" -> 3 [] OTHER -> 1
Decodes(buf) ==
    /\ buf[1] \in {"L2", "L3"} /\ Len(buf) = utf8RuneLen(buf[1])
    /\ \A i \in 2..Len(buf) : buf[i] = "CC"

\* A high byte goes past the parser: a complete character is printed in any
\* parser state.
feedUTF8(e, b) ==
    LET buf == Append(e.utf8, b)
    IN  CASE Decodes(buf) -> [Draw(e, printRune(Cur(e), "rune")) EXCEPT !.utf8 = <<>>]
          [] ~Decodes(buf) /\ Len(buf) >= utf8RuneLen(buf[1]) -> [e EXCEPT !.utf8 = <<>>]
          [] OTHER -> [e EXCEPT !.utf8 = buf]

feedASCII(e, b) ==
    LET fed == feedByte(e.ps, b) IN dispatch([e EXCEPT !.ps = fed.p, !.utf8 = <<>>], fed.a)

writeUnlocked(e, p) ==
    LET feed(x, b) == IF x.panicked THEN x
                      ELSE IF b \in HighBytes THEN feedUTF8(x, b) ELSE feedASCII(x, b)
    IN  FoldLeft(feed, e, p)

Called == ~em.panicked /\ calls < MaxCalls /\ calls' = calls + 1

Write(p) == Called /\ em' = writeUnlocked(em, p) /\ UNCHANGED <<rev, shown>>

ResizedOne(e, cols, rows) ==                       \* mutant: the hidden screen keeps its size
    [e EXCEPT !.cols = cols, !.rows = rows, !.scr[On(e)] = resize(@, cols, rows), !.dirty = TRUE]
Resized(e, cols, rows) ==
    IF cols = e.cols /\ rows = e.rows THEN e
    ELSE [e EXCEPT !.cols = cols, !.rows = rows, !.dirty = TRUE,
                   !.scr = [primary |-> resize(@.primary, cols, rows),
                            alt |-> resize(@.alt, cols, rows)]]
Resize(size) ==
    /\ Called
    /\ em' = Resized(em, AtLeast1(size[1]), AtLeast1(size[2]))
    /\ UNCHANGED <<rev, shown>>

\* What Render copies out; Rev is the number it would return.
Visible(e) == [cells |-> Cur(e).cells, cx |-> Cur(e).cx, cy |-> Cur(e).cy, visible |-> e.visible]
Rev(e, r)  == IF e.dirty THEN r + 1 ELSE r
Render ==
    /\ ~em.panicked
    /\ rev' = Rev(em, rev)
    /\ em' = [em EXCEPT !.dirty = FALSE]
    /\ shown' = Visible(em)
    /\ UNCHANGED calls

Init ==
    /\ \E size \in Sizes : em = New(AtLeast1(size[1]), AtLeast1(size[2]))
    /\ rev = 0
    /\ shown = Visible(em)
    /\ calls = 0

Next ==
    \/ \E p \in Chunks : Write(p)
    \/ \E size \in Sizes : Resize(size)
    \/ Render

Spec == Init /\ [][Next]_vars

-----------------------------------------------------------------------------
(* Properties. *)

\* No buffer that is filled byte by byte outgrows its array: the parser's three
\* and the partial character, whatever was written and wherever it was split.
TypeOK ==
    /\ em.ps.state \in {"ground", "escape", "escapeInter", "csiEntry", "csiParam", "csiInter",
                        "csiIgnore", "osc", "dcsEntry", "dcs"}
    /\ Len(em.ps.inter) <= MaxInter /\ Len(em.ps.param) <= MaxParam /\ Len(em.ps.osc) <= MaxOSC
    /\ Len(em.utf8) < 4 /\ (em.utf8 # <<>> => em.utf8[1] \in {"L2", "L3", "L2x"})
    /\ em.prompt \in {"unknown", "atPrompt", "running"}
    /\ rev \in Nat /\ calls \in 0..MaxCalls

\* Both screens have the size of the emulator, a cursor that is on the grid or
\* waits to wrap in its last column, and a scroll region inside it, after any
\* mix of output, resizes, saved cursors and switches between the screens:
\* what Render and every drawing operation index the grid with.
ScreensInShape ==
    /\ TypeOK
    /\ \A n \in {"primary", "alt"} :
        LET s == em.scr[n]
        IN  /\ s.cols = em.cols /\ s.rows = em.rows
            /\ DOMAIN s.cells = 0..(em.rows - 1)
            /\ \A y \in DOMAIN s.cells : DOMAIN s.cells[y] = 0..(em.cols - 1)
            /\ s.cx \in 0..s.cols /\ s.cy \in 0..(s.rows - 1)
            /\ s.top \in 1..s.rows /\ s.bot \in s.top..s.rows

\* The emulator never indexes the grid outside it while the cursor is in a
\* column of the grid.  (While a wrap is pending, ED 1 and EL 1 do: see
\* WriteNeverPanics.)
PanicsOnlyAtPendingWrap == em.panicked => Cur(em).cx = Cur(em).cols

\* A revision that did not advance means an unchanged screen: the snapshot
\* producer skips a session whose Rev it has sent, and no change of a cell, of
\* the cursor or of the visible screen may be skipped with it.
RevTracksScreen == ~em.panicked /\ ~em.dirty => Visible(em) = shown

\* A full-screen program finds the shell's screen and saved cursor as it left
\* them: while the alternate screen is on, output changes neither, except by a
\* reset of the whole terminal.
AltLeavesPrimary ==
    [][ em.useAlt /\ em'.useAlt /\ em'.cols = em.cols /\ em'.rows = em.rows
        => /\ em'.saved.primary = em.saved.primary
           /\ em'.scr.primary \in {em.scr.primary, newScreen(em.cols, em.rows)} ]_vars

\* emulator.go: "It never errors; malformed or unsupported sequences are
\* silently consumed".
WriteNeverPanics == ~em.panicked
=============================================================================
