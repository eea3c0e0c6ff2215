------------------------------ MODULE VtScreen ------------------------------
(***************************************************************************)
(* One screen of the terminal emulator: its grid of cells, cursor, pen and *)
(* scroll region, and the operations on it (adapter/secondary/vt/          *)
(* emulator.go and sgr.go).  Rows and columns are counted from 0, as the   *)
(* cells are; the cursor column may be one past the last while the next    *)
(* character has still to wrap.                                            *)
(*                                                                         *)
(* Go checks every index.  An operation that would use one outside the     *)
(* grid yields Panic instead of a screen.                                  *)
(***************************************************************************)
EXTENDS VtPen

Panic == [panic |-> TRUE]

BlankCell      == [rune |-> " ", pen |-> DefaultPen]
blankRow(cols) == [x \in 0..(cols - 1) |-> BlankCell]

newScreen(cols, rows) ==
    [cols |-> cols, rows |-> rows, cx |-> 0, cy |-> 0, pen |-> DefaultPen,
     cells |-> [y \in 0..(rows - 1) |-> blankRow(cols)],
     top |-> 1, bot |-> rows]

\* The part of the old grid that fits, the cursor pulled in, the scroll region
\* reset.
Regrid(s, cols, rows) ==
    [s EXCEPT !.cols = cols, !.rows = rows,
              !.cells = [y \in 0..(rows - 1) |-> [x \in 0..(cols - 1) |->
                          IF y < s.rows /\ x < s.cols THEN s.cells[y][x] ELSE BlankCell]],
              !.cx = IF @ >= cols THEN cols - 1 ELSE @,
              !.cy = IF @ >= rows THEN rows - 1 ELSE @]
resize(s, cols, rows) == [Regrid(s, cols, rows) EXCEPT !.top = 1, !.bot = rows]

\* effectiveScrollRegion, counted from 0.
RegionTop(s) == IF s.top - 1 < 0 THEN 0 ELSE s.top - 1
RegionBot(s) == IF s.bot - 1 >= s.rows THEN s.rows - 1 ELSE s.bot - 1

penCell(s) == [rune |-> " ", pen |-> s.pen]

\* Write a cell at every position of a set of <<row, column>>.
Fill(s, at, cell) ==
    IF at \subseteq (0..(s.rows - 1)) \X (0..(s.cols - 1))
    THEN [s EXCEPT !.cells = [y \in DOMAIN @ |-> [x \in DOMAIN @[y] |->
                                IF <<y, x>> \in at THEN cell ELSE @[y][x]]]]
    ELSE Panic

-----------------------------------------------------------------------------
(* Scrolling: rows move within [top, bot], blank ones take their place. *)

\* The rows y of [top, bot] become the rows y + by where those are in it.
ShiftRows(s, top, bot, by) ==
    [s EXCEPT !.cells = [y \in DOMAIN @ |->
        IF y \notin top..bot THEN @[y]
        ELSE IF y + by \in top..bot THEN @[y + by] ELSE blankRow(s.cols)]]

scrollUp(s, top, bot, n) ==
    IF n <= 0 THEN s ELSE ShiftRows(s, top, bot, IF n > bot - top + 1 THEN bot - top + 1 ELSE n)
scrollDown(s, top, bot, n) ==
    IF n <= 0 THEN s ELSE ShiftRows(s, top, bot, -(IF n > bot - top + 1 THEN bot - top + 1 ELSE n))

\* Below the scroll region the cursor does not move.
lineFeed(s) ==
    CASE s.cy < RegionBot(s) -> [s EXCEPT !.cy = @ + 1]
      [] s.cy = RegionBot(s) -> scrollUp(s, RegionTop(s), RegionBot(s), 1)
      [] OTHER -> s

reverseIndex(s) ==
    IF s.cy > RegionTop(s) THEN [s EXCEPT !.cy = @ - 1]
    ELSE scrollDown(s, RegionTop(s), RegionBot(s), 1)

\* The wrap is delayed until a character needs the place.
printRune(s, r) ==
    LET w == IF s.cx >= s.cols THEN lineFeed([s EXCEPT !.cx = 0]) ELSE s
        f == Fill(w, {<<w.cy, w.cx>>}, [rune |-> r, pen |-> w.pen])
    IN  IF f = Panic THEN Panic ELSE [f EXCEPT !.cx = @ + 1]

-----------------------------------------------------------------------------
(* Cursor movement.  Each one clamps the side it moves to, and no other. *)

AtLeast0(v)  == IF v < 0 THEN 0 ELSE v
Below(v, n)  == IF v >= n THEN n - 1 ELSE v

up(s, n)      == [s EXCEPT !.cy = AtLeast0(Wrap(@ - n))]
down(s, n)    == [s EXCEPT !.cy = Below(Wrap(@ + n), s.rows)]
forward(s, n) == [s EXCEPT !.cx = Below(Wrap(@ + n), s.cols)]
back(s, n)    == [s EXCEPT !.cx = AtLeast0(Wrap(@ - n))]
column(s, n)  == [s EXCEPT !.cx = Below(AtLeast0(Wrap(n - 1)), s.cols)]
row(s, n)     == [s EXCEPT !.cy = Below(AtLeast0(Wrap(n - 1)), s.rows)]
carriageReturn(s) == [s EXCEPT !.cx = 0]
backspace(s)  == [s EXCEPT !.cx = IF @ > 0 THEN @ - 1 ELSE @]

\* The next multiple of 8 (Go's division truncates), or the last column.
tab(s) ==
    LET quo == IF s.cx >= 0 THEN s.cx \div 8 ELSE -((-s.cx) \div 8)
    IN  [s EXCEPT !.cx = Below((quo + 1) * 8, s.cols)]

clampCursor(s) == [s EXCEPT !.cx = AtLeast0(Below(@, s.cols)), !.cy = AtLeast0(Below(@, s.rows))]

\* DECSTBM: a region of less than two rows is refused; the cursor goes home.
Refused == [refused |-> TRUE]
setRegion(s, first, last) ==
    LET top == IF first < 1 THEN 1 ELSE first
        bot == IF last > s.rows THEN s.rows ELSE last
    IN  IF top < bot THEN [s EXCEPT !.top = top, !.bot = bot, !.cx = 0, !.cy = 0] ELSE Refused

\* IL and DL act from the cursor's row, inside the region only.
InRegion(s) == s.cy >= RegionTop(s) /\ s.cy <= RegionBot(s)
insertLines(s, n) == IF InRegion(s) THEN scrollDown(s, s.cy, RegionBot(s), n) ELSE s
deleteLines(s, n) == IF InRegion(s) THEN scrollUp(s, s.cy, RegionBot(s), n) ELSE s

-----------------------------------------------------------------------------
(* Erasing, and characters in and out of a row. *)

RowsOfWide(s, ys) == ys \X (0..s.cols)             \* mutant: one column too many
RowsOf(s, ys) == ys \X (0..(s.cols - 1))

\* From the cursor to the end; from the start to the cursor, inclusive of its
\* column; everything; other modes nothing.
eraseInDisplay(s, mode) ==
    CASE mode = 0 -> Fill(s, ({s.cy} \X (s.cx..(s.cols - 1)))
                             \cup RowsOf(s, (s.cy + 1)..(s.rows - 1)), penCell(s))
      [] mode = 1 -> Fill(s, RowsOf(s, 0..(s.cy - 1)) \cup ({s.cy} \X (0..s.cx)), penCell(s))
      [] mode \in {2, 3} -> Fill(s, RowsOf(s, 0..(s.rows - 1)), penCell(s))
      [] OTHER -> s

eraseInLine(s, mode) ==
    CASE mode = 0 -> Fill(s, {s.cy} \X (s.cx..(s.cols - 1)), penCell(s))
      [] mode = 1 -> Fill(s, {s.cy} \X (0..s.cx), penCell(s))
      [] mode = 2 -> Fill(s, RowsOf(s, {s.cy}), penCell(s))
      [] OTHER -> s

eraseChars(s, n) ==
    Fill(s, {s.cy} \X {x \in s.cx..(s.cols - 1) : x - s.cx < n}, penCell(s))

\* The clamped count of ICH and DCH, and the row they leave.
CharCount(s, n) ==
    LET k == IF n < 1 THEN 1 ELSE n IN IF k > s.cols - s.cx THEN s.cols - s.cx ELSE k
WithRow(s, r(_)) ==
    IF s.cx >= s.cols THEN s
    ELSE IF s.cy \notin 0..(s.rows - 1) \/ s.cx < 0 THEN Panic
    ELSE [s EXCEPT !.cells[s.cy] = [x \in 0..(s.cols - 1) |-> r(x)]]

insertChars(s, n) ==
    LET k == CharCount(s, n)
        shifted(x) == IF x < s.cx THEN s.cells[s.cy][x]
                      ELSE IF x < s.cx + k THEN penCell(s) ELSE s.cells[s.cy][x - k]
    IN  WithRow(s, shifted)

deleteChars(s, n) ==
    LET k == CharCount(s, n)
        shifted(x) == IF x < s.cx THEN s.cells[s.cy][x]
                      ELSE IF x < s.cols - k THEN s.cells[s.cy][x + k] ELSE penCell(s)
    IN  WithRow(s, shifted)
=============================================================================
