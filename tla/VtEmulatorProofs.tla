-------------------------- MODULE VtEmulatorProofs --------------------------
(***************************************************************************)
(* Proofs about VtEmulator, for every output, every size of the screen and *)
(* of the parser's buffers and every width of int: no buffer outgrows its  *)
(* array (BuffersHold), the grids and scroll regions always fit the        *)
(* terminal (GridsKeepTheirShape), a revision that did not advance means   *)
(* an unchanged screen (RevisionTellsOfChanges), and a panic needs a       *)
(* cursor that is off the grid or waits to wrap (PanicsNeedACursorAway).   *)
(* While no cursor movement overflows int, the cursors stay in the grid    *)
(* (ScreensStayInShape) and only a pending wrap panics                     *)
(* (PanicsNeedAPendingWrap); while no single write leaves the alternate    *)
(* screen and returns, the primary one is left alone                       *)
(* (AltScreenHidesPrimary).                                                *)
(*                                                                         *)
(* An operation on a screen yields a screen of the same size or panics     *)
(* (Yields), and where its cursor goes is Draws.  One on the emulator      *)
(* keeps all of it in shape and sets the dirty flag when the visible       *)
(* screen changes (Follows); what it does to the cursors and to the hidden *)
(* screen are Lands and Safe.  A byte also keeps the buffers of the parser *)
(* (Takes), and so do the bytes of a Write and the calls of a run.         *)
(***************************************************************************)
EXTENDS VtEmulator, SequenceTheorems, FiniteSetTheorems, WellFoundedInduction, TLAPS

Bytes        == STRING
Names        == {"primary", "alt"}
ScreenFields == {"cols", "rows", "cx", "cy", "pen", "cells", "top", "bot"}
EmFields     == {"cols", "rows", "scr", "saved", "useAlt", "visible", "dirty", "prompt", "ps",
                 "utf8", "panicked"}

\* A screen whose grid and scroll region fit its size.  The cursor is left
\* open: a parameter that wraps Go's int takes it off the grid, where the next
\* character panics.
IsScreen(s, cols, rows) ==
    /\ DOMAIN s = ScreenFields
    /\ s.cols = cols /\ s.rows = rows
    /\ DOMAIN s.cells = 0..(rows - 1)
    /\ \A y \in 0..(rows - 1) : DOMAIN s.cells[y] = 0..(cols - 1)
    /\ s.cx \in Int /\ s.cy \in Int
    /\ s.top \in 1..rows /\ s.bot \in s.top..rows

Yields(s, cols, rows) == s = Panic \/ IsScreen(s, cols, rows)

-----------------------------------------------------------------------------
(* One screen: every operation yields a screen of the same size, or panics. *)

\* Go's arithmetic yields an int.
LEMMA WrapInt == ASSUME NEW n \in Int PROVE Wrap(n) \in Int
<1>1. IntSize \in Nat /\ IntSize # 0 /\ IntSize \div 2 \in Int
  BY ParserAssumption
<1>2. \A m \in Int : m % IntSize \in Int
  BY <1>1
<1> QED BY <1>1, <1>2 DEF Wrap

\* A new screen, and one that takes another size.
LEMMA NewScreenFits ==
    ASSUME NEW cols \in Nat \ {0}, NEW rows \in Nat \ {0}
    PROVE  IsScreen(newScreen(cols, rows), cols, rows)
  BY DEF newScreen, blankRow, IsScreen, ScreenFields

\* A screen that takes another size fits it.
LEMMA ResizeFits ==
    ASSUME NEW cols \in Nat \ {0}, NEW rows \in Nat \ {0}, NEW s,
           NEW c \in Nat \ {0}, NEW r \in Nat \ {0}, IsScreen(s, c, r)
    PROVE  IsScreen(resize(s, cols, rows), cols, rows)
  BY DEF resize, Regrid, IsScreen, ScreenFields

\* The scroll region, counted from 0, lies in the grid.
LEMMA RegionFits ==
    ASSUME NEW cols \in Nat \ {0}, NEW rows \in Nat \ {0}, NEW s, IsScreen(s, cols, rows)
    PROVE  /\ RegionTop(s) \in 0..(rows - 1) /\ RegionTop(s) = s.top - 1
           /\ RegionBot(s) \in RegionTop(s)..(rows - 1) /\ RegionBot(s) = s.bot - 1
  BY DEF RegionTop, RegionBot, IsScreen

\* Scrolling moves rows of the same length.
LEMMA ShiftFits ==
    ASSUME NEW cols \in Nat \ {0}, NEW rows \in Nat \ {0}, NEW s, IsScreen(s, cols, rows),
           NEW top \in Int, NEW bot \in Int, top >= 0, bot <= rows - 1, NEW by \in Int
    PROVE  IsScreen(ShiftRows(s, top, bot, by), cols, rows)
<1> DEFINE f == ShiftRows(s, top, bot, by)
<1>1. /\ DOMAIN f = ScreenFields
      /\ f.cols = cols /\ f.rows = rows /\ f.cx = s.cx /\ f.cy = s.cy /\ f.top = s.top
      /\ f.bot = s.bot /\ DOMAIN f.cells = 0..(rows - 1)
  BY DEF ShiftRows, IsScreen, ScreenFields
<1>2. ASSUME NEW y \in 0..(rows - 1) PROVE DOMAIN f.cells[y] = 0..(cols - 1)
  <2>1. f.cells[y] = IF y \notin top..bot THEN s.cells[y]
                     ELSE IF y + by \in top..bot THEN s.cells[y + by] ELSE blankRow(s.cols)
    BY DEF ShiftRows, IsScreen, ScreenFields
  <2>2. y + by \in top..bot => y + by \in 0..(rows - 1)
    OBVIOUS
  <2>3. DOMAIN blankRow(s.cols) = 0..(cols - 1)
    BY DEF blankRow, IsScreen
  <2>4. \A z \in 0..(rows - 1) : DOMAIN s.cells[z] = 0..(cols - 1)
    BY DEF IsScreen
  <2> HIDE DEF f
  <2>5. CASE y \notin top..bot
    BY <2>1, <2>4, <2>5
  <2>6. CASE y \in top..bot /\ y + by \in top..bot
    BY <2>1, <2>2, <2>4, <2>6
  <2>7. CASE y \in top..bot /\ y + by \notin top..bot
    BY <2>1, <2>3, <2>7
  <2> QED BY <2>5, <2>6, <2>7
<1> HIDE DEF f
<1> QED BY <1>1, <1>2 DEF IsScreen, f

\* Scrolling the region up or down keeps the grid.
LEMMA ScrollFits ==
    ASSUME NEW cols \in Nat \ {0}, NEW rows \in Nat \ {0}, NEW s, IsScreen(s, cols, rows),
           NEW top \in Int, NEW bot \in Int, top >= 0, bot <= rows - 1, NEW n \in Int
    PROVE  /\ IsScreen(scrollUp(s, top, bot, n), cols, rows)
           /\ IsScreen(scrollDown(s, top, bot, n), cols, rows)
  BY ShiftFits DEF scrollUp, scrollDown

\* Line feed and reverse index.
LEMMA FeedFits ==
    ASSUME NEW cols \in Nat \ {0}, NEW rows \in Nat \ {0}, NEW s, IsScreen(s, cols, rows)
    PROVE  IsScreen(lineFeed(s), cols, rows) /\ IsScreen(reverseIndex(s), cols, rows)
<1>1. /\ RegionTop(s) \in Int /\ RegionTop(s) >= 0
      /\ RegionBot(s) \in Int /\ RegionBot(s) <= rows - 1
  BY RegionFits
<1>2. /\ IsScreen(scrollUp(s, RegionTop(s), RegionBot(s), 1), cols, rows)
      /\ IsScreen(scrollDown(s, RegionTop(s), RegionBot(s), 1), cols, rows)
  <2>1. 1 \in Int
    OBVIOUS
  <2> QED BY <1>1, <2>1, ScrollFits
<1>3. IsScreen([s EXCEPT !.cy = @ + 1], cols, rows) /\ IsScreen([s EXCEPT !.cy = @ - 1], cols, rows)
  BY DEF IsScreen, ScreenFields
<1>4. IsScreen(lineFeed(s), cols, rows)
  BY <1>2, <1>3 DEF lineFeed
<1>5. IsScreen(reverseIndex(s), cols, rows)
  BY <1>2, <1>3 DEF reverseIndex
<1> QED BY <1>4, <1>5

\* Scrolling the region, insertion and deletion of lines.
LEMMA LinesFit ==
    ASSUME NEW cols \in Nat \ {0}, NEW rows \in Nat \ {0}, NEW s, IsScreen(s, cols, rows),
           NEW n \in Int
    PROVE  /\ IsScreen(scrollUp(s, RegionTop(s), RegionBot(s), n), cols, rows)
           /\ IsScreen(scrollDown(s, RegionTop(s), RegionBot(s), n), cols, rows)
           /\ IsScreen(insertLines(s, n), cols, rows)
           /\ IsScreen(deleteLines(s, n), cols, rows)
<1>1. /\ RegionTop(s) \in Int /\ RegionTop(s) >= 0
      /\ RegionBot(s) \in Int /\ RegionBot(s) <= rows - 1
  BY RegionFits
<1>2. \A k \in Int : /\ IsScreen(scrollUp(s, RegionTop(s), RegionBot(s), k), cols, rows)
                     /\ IsScreen(scrollDown(s, RegionTop(s), RegionBot(s), k), cols, rows)
  BY <1>1, ScrollFits
<1>5. IsScreen(insertLines(s, n), cols, rows) /\ IsScreen(deleteLines(s, n), cols, rows)
  <2>1. InRegion(s) => s.cy \in Int /\ s.cy >= 0
    BY <1>1 DEF InRegion, IsScreen
  <2> QED BY <1>1, <2>1, ScrollFits DEF insertLines, deleteLines
<1> QED BY <1>2, <1>5

\* Writing cells keeps the grid, or panics.
LEMMA FillFits ==
    ASSUME NEW cols \in Nat \ {0}, NEW rows \in Nat \ {0}, NEW s, IsScreen(s, cols, rows),
           NEW at, NEW cell
    PROVE  /\ Yields(Fill(s, at, cell), cols, rows)
           /\ Fill(s, at, cell) # Panic =>
                /\ at \subseteq (0..(rows - 1)) \X (0..(cols - 1))
                /\ Fill(s, at, cell).cx = s.cx
  BY DEF Fill, Yields, IsScreen, ScreenFields, Panic

\* The cursor moves.
LEMMA CursorFits ==
    ASSUME NEW cols \in Nat \ {0}, NEW rows \in Nat \ {0}, NEW s, IsScreen(s, cols, rows),
           NEW v \in Int
    PROVE  /\ IsScreen([s EXCEPT !.cx = v], cols, rows)
           /\ IsScreen([s EXCEPT !.cy = v], cols, rows)
  BY DEF IsScreen, ScreenFields

\* Clamping yields an int.
LEMMA ClampInt ==
    ASSUME NEW v \in Int, NEW n \in Int
    PROVE  AtLeast0(v) \in Int /\ Below(v, n) \in Int
  BY DEF AtLeast0, Below

\* Every cursor movement leaves the grid and the region alone.
LEMMA MovesFit ==
    ASSUME NEW cols \in Nat \ {0}, NEW rows \in Nat \ {0}, NEW s, IsScreen(s, cols, rows),
           NEW n \in Int
    PROVE  /\ IsScreen(up(s, n), cols, rows) /\ IsScreen(down(s, n), cols, rows)
           /\ IsScreen(forward(s, n), cols, rows) /\ IsScreen(back(s, n), cols, rows)
           /\ IsScreen(column(s, n), cols, rows) /\ IsScreen(row(s, n), cols, rows)
           /\ IsScreen(carriageReturn(s), cols, rows) /\ IsScreen(backspace(s), cols, rows)
           /\ IsScreen(tab(s), cols, rows) /\ IsScreen(clampCursor(s), cols, rows)
<1>1. /\ s.cx \in Int /\ s.cy \in Int /\ s.cols = cols /\ s.rows = rows
      /\ "cx" \in DOMAIN s /\ "cy" \in DOMAIN s
  BY DEF IsScreen, ScreenFields
<1>2. IsScreen(up(s, n), cols, rows) /\ IsScreen(down(s, n), cols, rows)
  <2>1. s.cy - n \in Int /\ s.cy + n \in Int /\ s.rows \in Int
    BY <1>1
  <2>2. Wrap(s.cy - n) \in Int /\ Wrap(s.cy + n) \in Int
    BY <2>1, WrapInt
  <2>3. AtLeast0(Wrap(s.cy - n)) \in Int /\ Below(Wrap(s.cy + n), s.rows) \in Int
    BY <2>1, <2>2, ClampInt
  <2> QED BY <2>3, CursorFits DEF up, down
<1>3. IsScreen(forward(s, n), cols, rows) /\ IsScreen(back(s, n), cols, rows)
  <2>1. s.cx - n \in Int /\ s.cx + n \in Int /\ s.cols \in Int
    BY <1>1
  <2>2. Wrap(s.cx - n) \in Int /\ Wrap(s.cx + n) \in Int
    BY <2>1, WrapInt
  <2>3. AtLeast0(Wrap(s.cx - n)) \in Int /\ Below(Wrap(s.cx + n), s.cols) \in Int
    BY <2>1, <2>2, ClampInt
  <2> QED BY <2>3, CursorFits DEF forward, back
<1>4. IsScreen(column(s, n), cols, rows) /\ IsScreen(row(s, n), cols, rows)
  <2>1. AtLeast0(Wrap(n - 1)) \in Int
    BY WrapInt, ClampInt
  <2>2. Below(AtLeast0(Wrap(n - 1)), s.cols) \in Int /\ Below(AtLeast0(Wrap(n - 1)), s.rows) \in Int
    BY <1>1, <2>1, ClampInt
  <2> QED BY <2>2, CursorFits DEF column, row
<1>5. IsScreen(carriageReturn(s), cols, rows) /\ IsScreen(backspace(s), cols, rows)
  BY DEF carriageReturn, backspace, IsScreen, ScreenFields
<1>6. IsScreen(tab(s), cols, rows)
  <2> DEFINE quo == IF s.cx >= 0 THEN s.cx \div 8 ELSE -((-s.cx) \div 8)
  <2>1. quo \in Int
    BY <1>1
  <2>2. (quo + 1) * 8 \in Int
    BY <2>1
  <2> HIDE DEF quo
  <2>3. Below((quo + 1) * 8, s.cols) \in Int
    BY <1>1, <2>2 DEF Below
  <2> USE DEF quo
  <2> QED BY <2>3, CursorFits DEF tab
<1>7. IsScreen(clampCursor(s), cols, rows)
  <2>1. AtLeast0(Below(s.cx, s.cols)) \in Int /\ AtLeast0(Below(s.cy, s.rows)) \in Int
    BY <1>1 DEF AtLeast0, Below
  <2> QED BY <1>1, <2>1 DEF clampCursor, IsScreen, ScreenFields
<1> QED BY <1>2, <1>3, <1>4, <1>5, <1>6, <1>7

\* A character is written, perhaps after a line feed.
LEMMA PrintFits ==
    ASSUME NEW cols \in Nat \ {0}, NEW rows \in Nat \ {0}, NEW s, IsScreen(s, cols, rows), NEW r
    PROVE  Yields(printRune(s, r), cols, rows)
<1> DEFINE w == IF s.cx >= s.cols THEN lineFeed([s EXCEPT !.cx = 0]) ELSE s
           f == Fill(w, {<<w.cy, w.cx>>}, [rune |-> r, pen |-> w.pen])
<1>1. IsScreen(w, cols, rows)
  <2>1. IsScreen([s EXCEPT !.cx = 0], cols, rows)
    BY DEF IsScreen, ScreenFields
  <2>2. IsScreen(lineFeed([s EXCEPT !.cx = 0]), cols, rows)
    BY <2>1, FeedFits
  <2> QED BY <2>2
<1> HIDE DEF w
<1>2. Yields(f, cols, rows)
  BY <1>1, FillFits
<1> HIDE DEF f
<1>3. IsScreen(f, cols, rows) => IsScreen([f EXCEPT !.cx = @ + 1], cols, rows)
  BY DEF IsScreen, ScreenFields
<1> QED BY <1>2, <1>3 DEF printRune, Yields, w, f

\* Erasing.
LEMMA ErasuresFit ==
    ASSUME NEW cols \in Nat \ {0}, NEW rows \in Nat \ {0}, NEW s, IsScreen(s, cols, rows),
           NEW n \in Int
    PROVE  /\ Yields(eraseInDisplay(s, n), cols, rows)
           /\ Yields(eraseInLine(s, n), cols, rows)
           /\ Yields(eraseChars(s, n), cols, rows)
<1>1. \A at, cell : Yields(Fill(s, at, cell), cols, rows)
  BY FillFits
<1>2. Yields(s, cols, rows)
  BY DEF Yields
<1>3. Yields(eraseInDisplay(s, n), cols, rows)
  BY <1>1, <1>2, Zenon DEF eraseInDisplay
<1>4. Yields(eraseInLine(s, n), cols, rows)
  BY <1>1, <1>2, Zenon DEF eraseInLine
<1>5. Yields(eraseChars(s, n), cols, rows)
  BY <1>1 DEF eraseChars
<1> QED BY <1>3, <1>4, <1>5

\* Characters go into a row or out of it.
LEMMA RowFits ==
    ASSUME NEW cols \in Nat \ {0}, NEW rows \in Nat \ {0}, NEW s, IsScreen(s, cols, rows),
           NEW y \in 0..(rows - 1), NEW r, DOMAIN r = 0..(cols - 1)
    PROVE  IsScreen([s EXCEPT !.cells[y] = r], cols, rows)
<1> DEFINE f == [s EXCEPT !.cells[y] = r]
<1>1. /\ DOMAIN f = ScreenFields /\ f.cols = cols /\ f.rows = rows /\ f.cx = s.cx /\ f.cy = s.cy
      /\ f.top = s.top /\ f.bot = s.bot
      /\ f.cells = [s.cells EXCEPT ![y] = r]
  BY DEF IsScreen, ScreenFields
<1>2. /\ DOMAIN f.cells = 0..(rows - 1)
      /\ \A z \in 0..(rows - 1) : f.cells[z] = IF z = y THEN r ELSE s.cells[z]
  BY <1>1 DEF IsScreen
<1> HIDE DEF f
<1> QED BY <1>1, <1>2 DEF IsScreen

\* Insertion and deletion of characters keep the row, or panic.
LEMMA CharsFit ==
    ASSUME NEW cols \in Nat \ {0}, NEW rows \in Nat \ {0}, NEW s, IsScreen(s, cols, rows),
           NEW n \in Int
    PROVE  /\ Yields(insertChars(s, n), cols, rows)
           /\ Yields(deleteChars(s, n), cols, rows)
<1>1. \A r : DOMAIN r = 0..(s.cols - 1) /\ s.cy \in 0..(s.rows - 1)
               => IsScreen([s EXCEPT !.cells[s.cy] = r], cols, rows)
  BY RowFits DEF IsScreen
<1>2. Yields(s, cols, rows)
  BY DEF Yields
<1>3. Yields(insertChars(s, n), cols, rows)
  BY <1>1, <1>2 DEF insertChars, WithRow, Yields
<1>4. Yields(deleteChars(s, n), cols, rows)
  BY <1>1, <1>2 DEF deleteChars, WithRow, Yields
<1> QED BY <1>3, <1>4

\* A scroll region that is not refused lies in the grid.
LEMMA RegionSet ==
    ASSUME NEW cols \in Nat \ {0}, NEW rows \in Nat \ {0}, NEW s, IsScreen(s, cols, rows),
           NEW first \in Int, NEW last \in Int, setRegion(s, first, last) # Refused
    PROVE  IsScreen(setRegion(s, first, last), cols, rows)
  BY DEF setRegion, IsScreen, ScreenFields

-----------------------------------------------------------------------------
(* The emulator: what one operation may change.                            *)

Prompts     == {"unknown", "atPrompt", "running"}
SavedFields == {"cx", "cy", "pen"}

Fits(e) ==
    /\ DOMAIN e = EmFields
    /\ e.cols \in Nat \ {0} /\ e.rows \in Nat \ {0}
    /\ DOMAIN e.scr = Names /\ \A n \in Names : IsScreen(e.scr[n], e.cols, e.rows)
    /\ DOMAIN e.saved = Names
    /\ \A n \in Names : /\ DOMAIN e.saved[n] = SavedFields
                        /\ e.saved[n].cx \in Int /\ e.saved[n].cy \in Int
    /\ {e.useAlt, e.visible, e.dirty, e.panicked} \subseteq BOOLEAN
    /\ e.prompt \in Prompts

\* What is on the screen changes only with the dirty flag.
Tells(e, f) ==
    \/ f.panicked \/ f.dirty
    \/ Visible(f) = Visible(e) /\ f.dirty = e.dirty /\ f.panicked = e.panicked

Follows(e, f) ==
    /\ Fits(f) /\ Tells(e, f)
    /\ f.ps = e.ps /\ f.utf8 = e.utf8 /\ f.cols = e.cols /\ f.rows = e.rows

\* What changes nothing is allowed.
LEMMA FollowsSelf == ASSUME NEW e, Fits(e) PROVE Follows(e, e)
  BY DEF Follows, Tells

\* Two operations in a row are allowed when each of them is.
LEMMA FollowsBoth ==
    ASSUME NEW e, NEW f, NEW g, Follows(e, f), Follows(f, g)
    PROVE  Follows(e, g)
<1>1. Tells(e, g)
  <2>1. CASE g.panicked \/ g.dirty
    BY <2>1 DEF Tells
  <2>2. CASE ~(g.panicked \/ g.dirty)
    <3>1. Visible(g) = Visible(f) /\ g.dirty = f.dirty /\ g.panicked = f.panicked
      BY <2>2 DEF Follows, Tells
    <3>2. ~(f.panicked \/ f.dirty)
      BY <2>2, <3>1
    <3>3. Visible(f) = Visible(e) /\ f.dirty = e.dirty /\ f.panicked = e.panicked
      BY <3>2 DEF Follows, Tells
    <3> QED BY <3>1, <3>3 DEF Tells
  <2> QED BY <2>1, <2>2
<1> QED BY <1>1 DEF Follows

\* The screen that is on.
LEMMA CurFits ==
    ASSUME NEW e, Fits(e)
    PROVE  On(e) \in Names /\ Cur(e) = e.scr[On(e)] /\ IsScreen(Cur(e), e.cols, e.rows)
  BY DEF Fits, On, Cur, Names

\* Setting the dirty flag is allowed.
LEMMA MarkFollows ==
    ASSUME NEW e, Fits(e)
    PROVE  Follows(e, Mark(e))
  BY DEF Follows, Tells, Mark, Fits, EmFields

\* A screen of the right size goes back where it came from; a panic is
\* recorded.
LEMMA PutFits ==
    ASSUME NEW e, Fits(e), NEW s, Yields(s, e.cols, e.rows)
    PROVE  /\ Fits(Put(e, s))
           /\ Put(e, s).ps = e.ps /\ Put(e, s).utf8 = e.utf8
           /\ Put(e, s).cols = e.cols /\ Put(e, s).rows = e.rows
<1>1. CASE s = Panic
  <2> DEFINE f == [e EXCEPT !.panicked = TRUE]
  <2>1. /\ DOMAIN f = EmFields /\ f.panicked = TRUE
        /\ \A x \in EmFields \ {"panicked"} : f[x] = e[x]
    BY DEF Fits, EmFields
  <2>2. Put(e, s) = f
    BY <1>1 DEF Put
  <2> HIDE DEF f
  <2> QED BY <2>1, <2>2 DEF Fits, EmFields
<1>2. CASE s # Panic
  <2> DEFINE f == [e EXCEPT !.scr[On(e)] = s]
  <2>1. /\ DOMAIN f = EmFields /\ f.scr = [e.scr EXCEPT ![On(e)] = s]
        /\ \A x \in EmFields \ {"scr"} : f[x] = e[x]
    BY DEF Fits, EmFields
  <2>2. Put(e, s) = f
    BY <1>2 DEF Put
  <2> HIDE DEF f
  <2>3. DOMAIN f.scr = Names /\ \A n \in Names : IsScreen(f.scr[n], e.cols, e.rows)
    <3>1. IsScreen(s, e.cols, e.rows)
      BY <1>2 DEF Yields
    <3>2. DOMAIN f.scr = Names /\ \A n \in Names : f.scr[n] = s \/ f.scr[n] = e.scr[n]
      BY <2>1 DEF Fits
    <3> QED BY <3>1, <3>2 DEF Fits
  <2> QED BY <2>1, <2>2, <2>3 DEF Fits, EmFields
<1> QED BY <1>1, <1>2

\* Drawing puts a screen back and marks it.
LEMMA DrawFollows ==
    ASSUME NEW e, Fits(e), NEW s, Yields(s, e.cols, e.rows)
    PROVE  Follows(e, Draw(e, s))
<1>1. Follows(Put(e, s), Draw(e, s))
  BY PutFits, MarkFollows DEF Draw
<1>2. Draw(e, s).dirty = TRUE
  BY PutFits DEF Draw, Mark, Fits, EmFields
<1> QED BY <1>1, <1>2, PutFits DEF Follows, Tells

-----------------------------------------------------------------------------
(* Saved cursors, the alternate screen, reset, modes.                      *)

\* DECSC saves a cursor: nothing visible changes.
LEMMA SaveFollows ==
    ASSUME NEW e, Fits(e)
    PROVE  Follows(e, saveCursor(e))
<1> DEFINE c == [cx |-> Cur(e).cx, cy |-> Cur(e).cy, pen |-> Cur(e).pen]
           f == saveCursor(e)
<1>1. /\ DOMAIN f = EmFields /\ f.saved = [e.saved EXCEPT ![On(e)] = c]
      /\ \A x \in EmFields \ {"saved"} : f[x] = e[x]
  BY DEF saveCursor, Fits, EmFields
<1>2. DOMAIN c = SavedFields /\ c.cx \in Int /\ c.cy \in Int
  BY CurFits DEF IsScreen, SavedFields
<1> HIDE DEF f, c
<1>3. DOMAIN f.saved = Names /\ \A n \in Names : f.saved[n] = c \/ f.saved[n] = e.saved[n]
  BY <1>1 DEF Fits
<1>4. Fits(f)
  BY <1>1, <1>2, <1>3 DEF Fits, EmFields
<1>5. Visible(f) = Visible(e)
  BY <1>1 DEF Visible, Cur, On, EmFields
<1> QED BY <1>1, <1>4, <1>5 DEF Follows, Tells, f, EmFields

\* DECRC brings it back, clamped to the grid.
LEMMA RestoreFollows ==
    ASSUME NEW e, Fits(e)
    PROVE  Follows(e, restoreCursor(e))
<1> DEFINE c == e.saved[On(e)]
           s == [Cur(e) EXCEPT !.cx = c.cx, !.cy = c.cy, !.pen = c.pen]
<1>1. IsScreen(s, e.cols, e.rows)
  <2>1. c.cx \in Int /\ c.cy \in Int
    BY CurFits DEF Fits
  <2> HIDE DEF c
  <2> QED BY <2>1, CurFits DEF IsScreen, ScreenFields
<1> HIDE DEF s
<1>2. Yields(clampCursor(s), e.cols, e.rows)
  BY <1>1, MovesFit DEF Fits, Yields
<1> QED BY <1>2, DrawFollows DEF restoreCursor, s

\* A switch to the other screen, or to the one that is on, marks the change.
LEMMA SwitchFollows ==
    ASSUME NEW e, Fits(e), NEW alt \in BOOLEAN
    PROVE  Follows(e, switchAltScreen(e, alt))
<1>1. Follows(e, Mark([e EXCEPT !.useAlt = alt]))
  BY DEF Mark, Follows, Tells, Fits, EmFields
<1> QED BY <1>1, FollowsSelf DEF switchAltScreen

\* RIS builds both screens anew.
LEMMA ResetFollows ==
    ASSUME NEW e, Fits(e)
    PROVE  Follows(e, hardReset(e))
<1> DEFINE f == hardReset(e)
           n == newScreen(e.cols, e.rows)
<1>1. /\ DOMAIN f = EmFields /\ f.scr = [primary |-> n, alt |-> n]
      /\ f.visible = TRUE /\ f.prompt = "unknown" /\ f.dirty = TRUE
      /\ \A x \in EmFields \ {"scr", "visible", "prompt", "dirty"} : f[x] = e[x]
  BY DEF hardReset, Fits, EmFields
<1>2. IsScreen(n, e.cols, e.rows)
  BY NewScreenFits DEF Fits
<1> HIDE DEF f, n
<1>3. DOMAIN f.scr = Names /\ \A x \in Names : f.scr[x] = n
  BY <1>1 DEF Names
<1>4. Fits(f)
  <2>1. /\ f.cols = e.cols /\ f.rows = e.rows /\ f.saved = e.saved
        /\ f.useAlt = e.useAlt /\ f.panicked = e.panicked
    BY <1>1 DEF EmFields
  <2>2. f.prompt \in Prompts /\ f.visible \in BOOLEAN /\ f.dirty \in BOOLEAN
    BY <1>1 DEF Prompts
  <2>3. /\ e.cols \in Nat \ {0} /\ e.rows \in Nat \ {0} /\ DOMAIN e.saved = Names
        /\ \A x \in Names : /\ DOMAIN e.saved[x] = SavedFields
                            /\ e.saved[x].cx \in Int /\ e.saved[x].cy \in Int
        /\ {e.useAlt, e.panicked} \subseteq BOOLEAN
    BY DEF Fits
  <2>4. \A x \in Names : IsScreen(f.scr[x], f.cols, f.rows)
    BY <1>2, <1>3, <2>1
  <2>5. {f.useAlt, f.visible, f.dirty, f.panicked} \subseteq BOOLEAN
    BY <2>1, <2>2, <2>3
  <2> QED BY <1>1, <1>3, <2>1, <2>2, <2>3, <2>4, <2>5 DEF Fits
<1> QED BY <1>1, <1>4 DEF Follows, Tells, f, EmFields

\* Every DEC private mode.
LEMMA ModeFollows ==
    ASSUME NEW e, Fits(e), NEW mode \in Int, NEW set \in BOOLEAN
    PROVE  Follows(e, setDecMode(e, mode, set))
<1>1. Follows(e, Mark([e EXCEPT !.visible = set]))
  BY DEF Mark, Follows, Tells, Fits, EmFields
<1>2. Follows(e, switchAltScreen(e, set))
  BY SwitchFollows
<1>3. LET a == switchAltScreen(saveCursor(e), TRUE) IN Follows(e, Draw(a, eraseInDisplay(Cur(a), 2)))
  <2> DEFINE a == switchAltScreen(saveCursor(e), TRUE)
  <2>1. Follows(e, saveCursor(e)) /\ Follows(saveCursor(e), a)
    BY SaveFollows, SwitchFollows DEF Follows
  <2> HIDE DEF a
  <2>2. Follows(e, a)
    BY <2>1, FollowsBoth
  <2>3. Yields(eraseInDisplay(Cur(a), 2), a.cols, a.rows)
    <3>1. Fits(a) /\ 2 \in Int
      BY <2>2 DEF Follows
    <3> QED BY <3>1, CurFits, ErasuresFit DEF Fits
  <2>4. Follows(a, Draw(a, eraseInDisplay(Cur(a), 2)))
    BY <2>2, <2>3, DrawFollows DEF Follows
  <2>5. Follows(e, Draw(a, eraseInDisplay(Cur(a), 2)))
    BY <2>2, <2>4, FollowsBoth
  <2> QED BY <2>5 DEF a
<1>4. Follows(e, restoreCursor(switchAltScreen(e, FALSE)))
  <2>1. Follows(e, switchAltScreen(e, FALSE))
    BY SwitchFollows
  <2>2. Follows(switchAltScreen(e, FALSE), restoreCursor(switchAltScreen(e, FALSE)))
    BY <2>1, RestoreFollows DEF Follows
  <2> QED BY <2>1, <2>2, FollowsBoth
<1>5. Follows(e, e)
  BY FollowsSelf
<1>6. CASE mode = 25
  <2>1. setDecMode(e, mode, set) = Mark([e EXCEPT !.visible = set])
    BY <1>6 DEF setDecMode
  <2> QED BY <1>1, <2>1
<1>7. CASE mode \in {47, 1047}
  <2>0. mode # 25 /\ mode # 1049
    BY <1>7
  <2>1. setDecMode(e, mode, set) = switchAltScreen(e, set)
    BY <2>0, <1>7, ZenonT(40) DEF setDecMode
  <2> QED BY <1>2, <2>1
<1>8. CASE mode = 1049 /\ set
  <2>1. setDecMode(e, mode, set) = LET a == switchAltScreen(saveCursor(e), TRUE)
                                   IN  Draw(a, eraseInDisplay(Cur(a), 2))
    BY <1>8 DEF setDecMode
  <2> QED BY <1>3, <2>1
<1>9. CASE mode = 1049 /\ ~set
  <2>1. setDecMode(e, mode, set) = restoreCursor(switchAltScreen(e, FALSE))
    BY <1>9 DEF setDecMode
  <2> QED BY <1>4, <2>1
<1>10. CASE mode \notin {25, 47, 1047, 1049}
  <2>0. mode # 25 /\ mode \notin {47, 1047} /\ mode # 1049
    BY <1>10
  <2>1. setDecMode(e, mode, set) = e
    BY <2>0, ZenonT(40) DEF setDecMode
  <2> QED BY <1>5, <2>1
<1> QED BY <1>6, <1>7, <1>8, <1>9, <1>10

-----------------------------------------------------------------------------
(* Folds.  What holds of the start and is kept by every step holds of the  *)
(* end; the induction has a set in place of the operator parameter.        *)

\* A nonempty set of numbers has a least element.
LEMMA LeastNat ==
    ASSUME NEW S \in SUBSET Nat, S # {}
    PROVE  \E m \in S : \A k \in S : m <= k
<1> DEFINE R == OpToRel(<, Nat)
<1>1. IsWellFoundedOn(R, Nat)
  BY NatLessThanWellFounded
<1>2. \A x, y \in Nat : y < x => <<y, x>> \in R
  BY Zenon DEF OpToRel
<1> HIDE DEF R
<1>3. \E x \in S : \A y \in S : ~ (<<y, x>> \in R)
  BY <1>1, WFMin
<1>4. \A x, y \in Nat : ~(y < x) => x <= y
  OBVIOUS
<1> QED BY <1>2, <1>3, <1>4

\* A set of numbers that has 0, and with each number the next, has them all.
LEMMA Induction ==
    ASSUME NEW T, 0 \in T, \A n \in Nat : n \in T => n + 1 \in T
    PROVE  \A n \in Nat : n \in T
<1> SUFFICES ASSUME NEW n \in Nat, n \notin T PROVE FALSE
  OBVIOUS
<1> DEFINE S == {k \in Nat : k \notin T}
<1>1. PICK m \in S : \A k \in S : m <= k
  <2>1. S \in SUBSET Nat /\ S # {}
    OBVIOUS
  <2> HIDE DEF S
  <2> QED BY <2>1, LeastNat
<1>2. m # 0 /\ m - 1 \in Nat /\ m - 1 \in T
  BY <1>1
<1> QED BY <1>1, <1>2

\* So does a property of the subsets of a finite set that holds for a set
\* when it holds for each set with one element less.
LEMMA RemovalInduction ==
    ASSUME NEW D, IsFiniteSet(D), NEW T,
           \A S \in SUBSET D : (\A x \in S : S \ {x} \in T) => S \in T
    PROVE  \A S \in SUBSET D : S \in T
<1> DEFINE N == {n \in Nat : \A S \in SUBSET D : Cardinality(S) = n => S \in T}
<1>1. \A S \in SUBSET D : /\ Cardinality(S) \in Nat
                          /\ \A x \in S : Cardinality(S \ {x}) = Cardinality(S) - 1
  BY FS_Subset, FS_CardinalityType, FS_RemoveElement
<1>2. 0 \in N
  <2> SUFFICES ASSUME NEW S \in SUBSET D, Cardinality(S) = 0 PROVE S \in T
    OBVIOUS
  <2>1. S = {}
    BY FS_Subset, FS_EmptySet
  <2> QED BY <2>1
<1>3. ASSUME NEW n \in Nat, n \in N PROVE n + 1 \in N
  <2> SUFFICES ASSUME NEW S \in SUBSET D, Cardinality(S) = n + 1 PROVE S \in T
    OBVIOUS
  <2>1. \A x \in S : S \ {x} \in SUBSET D /\ Cardinality(S \ {x}) = n
    BY <1>1
  <2> QED BY <2>1, <1>3
<1> HIDE DEF N
<1>4. \A n \in Nat : n \in N
  BY <1>2, <1>3, Induction
<1> QED BY <1>1, <1>4 DEF N

\* A nonempty set of positions has a greatest one.
LEMMA MaxIn ==
    ASSUME NEW n \in Nat, NEW S \in SUBSET (1..n), S # {}
    PROVE  Max(S) \in S
<1> DEFINE T == {n - x : x \in S}
<1>1. T \in SUBSET Nat /\ T # {}
  <2>1. \A x \in S : n - x \in Nat
    OBVIOUS
  <2>2. PICK x \in S : TRUE
    OBVIOUS
  <2>3. n - x \in T
    BY <2>2
  <2> QED BY <2>1, <2>3
<1>2. PICK m \in T : \A k \in T : m <= k
  <2> HIDE DEF T
  <2> QED BY <1>1, LeastNat
<1>3. n - m \in S /\ \A y \in S : n - m >= y
  <2>1. PICK x \in S : m = n - x
    BY <1>2
  <2>2. \A y \in S : m <= n - y
    BY <1>2
  <2> QED BY <2>1, <2>2
<1>4. \E x \in S : \A y \in S : x >= y
  BY <1>3
<1> QED BY <1>4 DEF Max

\* The steps that are folded: the bytes of a Write, the parameters of a mode
\* sequence, the bytes of a parameter string.
Feed(x, b) ==
    IF x.panicked THEN x ELSE IF b \in HighBytes THEN feedUTF8(x, b) ELSE feedASCII(x, b)
Collect(acc, b) ==
    IF b = ";" THEN [done |-> Append(acc.done, acc.cur), cur |-> 0]
    ELSE [acc EXCEPT !.cur = Wrap(@ * 10 + Digit(b))]
Step(kind, set, x, b) ==
    IF kind = "feed" THEN Feed(x, b) ELSE IF kind = "mode" THEN setDecMode(x, b, set)
    ELSE Collect(x, b)

ModesSet(e, ps, set) == LET decMode(x, m) == setDecMode(x, m, set) IN FoldLeft(decMode, e, ps)

FoldAt(kind, set, base, q, it, S) ==
    IF S = {} THEN base ELSE Step(kind, set, it[S \ {Max(S)}], q[Max(S)])
IsFold(kind, set, base, q, it) ==
    it = [S \in SUBSET DOMAIN q |-> FoldAt(kind, set, base, q, it, S)]

\* The recursion of the library's fold has a solution.
LEMMA FoldExists ==
    ASSUME NEW kind, NEW set, NEW base, NEW q, NEW len \in Nat, DOMAIN q = 1..len
    PROVE  \E it : IsFold(kind, set, base, q, it)
<1> DEFINE D == DOMAIN q
           At(it, S) == FoldAt(kind, set, base, q, it, S)
           Upto(it, n) == \A S \in SUBSET D : Cardinality(S) <= n => it[S] = At(it, S)
           Some(n) == \E it : it = [S \in SUBSET D |-> it[S]] /\ Upto(it, n)
           N == {n \in Nat : Some(n)}
<1>0. IsFiniteSet(D)
  BY FS_Interval
<1>1. \A S \in SUBSET D : /\ Cardinality(S) \in Nat /\ Cardinality(S) <= Cardinality(D)
                          /\ \A x \in S : Cardinality(S \ {x}) = Cardinality(S) - 1
                          /\ (S # {} => Max(S) \in S)
  BY <1>0, FS_Subset, FS_CardinalityType, FS_RemoveElement, MaxIn
<1> HIDE DEF D
<1>2. 0 \in N
  <2> DEFINE zt == [S \in SUBSET D |-> base]
  <2>1. \A S \in SUBSET D : Cardinality(S) <= 0 => S = {}
    BY <1>0, <1>1, FS_Subset, FS_EmptySet
  <2>2. zt = [S \in SUBSET D |-> zt[S]] /\ Upto(zt, 0)
    BY <2>1 DEF FoldAt
  <2> HIDE DEF zt
  <2>3. Some(0)
    BY <2>2
  <2> QED BY <2>3
<1>3. ASSUME NEW n \in Nat, n \in N PROVE n + 1 \in N
  <2>1. PICK it : it = [S \in SUBSET D |-> it[S]] /\ Upto(it, n)
    BY <1>3
  <2> DEFINE jt == [S \in SUBSET D |-> At(it, S)]
  <2>0. \A S \in SUBSET D : jt[S] = At(it, S)
    OBVIOUS
  <2>2. \A S \in SUBSET D : Cardinality(S) <= n => jt[S] = it[S]
    <3> SUFFICES ASSUME NEW S \in SUBSET D, Cardinality(S) <= n PROVE jt[S] = it[S]
      OBVIOUS
    <3>1. it[S] = At(it, S)
      BY <2>1
    <3> HIDE DEF jt
    <3> QED BY <2>0, <3>1
  <2>3. ASSUME NEW S \in SUBSET D, Cardinality(S) <= n + 1 PROVE jt[S] = At(jt, S)
    <3>1. CASE S = {}
      BY <3>1 DEF FoldAt
    <3>2. CASE S # {}
      <4>1. PICK x \in S : x = Max(S)
        BY <3>2, <1>1
      <4>2. S \ {x} \in SUBSET D /\ Cardinality(S \ {x}) <= n
        BY <2>3, <1>1
      <4>3. jt[S \ {x}] = it[S \ {x}]
        BY <4>2, <2>2
      <4> QED BY <4>1, <4>3, <3>2 DEF FoldAt
    <3> QED BY <3>1, <3>2
  <2>4. jt = [S \in SUBSET D |-> jt[S]] /\ Upto(jt, n + 1)
    BY <2>3
  <2> HIDE DEF jt
  <2>5. Some(n + 1)
    BY <2>4
  <2> HIDE DEF Some
  <2> QED BY <2>5
<1> HIDE DEF N
<1>4. Cardinality(D) \in N
  BY <1>0, <1>2, <1>3, Induction, FS_CardinalityType
<1>5. PICK it : it = [S \in SUBSET D |-> it[S]] /\ Upto(it, Cardinality(D))
  BY <1>4 DEF N
<1>6. \A S \in SUBSET D : it[S] = At(it, S)
  BY <1>5, <1>1
<1>7. IsFold(kind, set, base, q, it)
  BY <1>5, <1>6 DEF IsFold, D
<1> QED BY <1>7

\* The folds of the model are these.
LEMMA WriteFolds ==
    ASSUME NEW e, NEW q, NEW len \in Nat, DOMAIN q = 1..len
    PROVE  \E it : IsFold("feed", TRUE, e, q, it) /\ writeUnlocked(e, q) = it[DOMAIN q]
<1> DEFINE F(it) == it = [S \in SUBSET DOMAIN q |->
                            IF S = {} THEN e ELSE Feed(it[S \ {Max(S)}], q[Max(S)])]
<1>1. writeUnlocked(e, q) = (CHOOSE it : F(it))[DOMAIN q]
  BY DEF writeUnlocked, FoldLeft, MapThenFoldSet, Feed
<1>2. \A it : F(it) <=> IsFold("feed", TRUE, e, q, it)
  BY DEF IsFold, FoldAt, Step
<1> HIDE DEF F
<1>3. \E it : F(it)
  BY <1>2, FoldExists
<1>4. F(CHOOSE it : F(it))
  BY <1>3
<1> QED BY <1>1, <1>2, <1>4

\* A mode sequence folds setDecMode over its parameters.
LEMMA ModesFold ==
    ASSUME NEW e, NEW q, NEW len \in Nat, DOMAIN q = 1..len, NEW set
    PROVE  \E it : IsFold("mode", set, e, q, it) /\ ModesSet(e, q, set) = it[DOMAIN q]
<1> DEFINE F(it) == it = [S \in SUBSET DOMAIN q |->
                            IF S = {} THEN e ELSE setDecMode(it[S \ {Max(S)}], q[Max(S)], set)]
<1>1. ModesSet(e, q, set) = (CHOOSE it : F(it))[DOMAIN q]
  BY DEF ModesSet, FoldLeft, MapThenFoldSet
<1>2. \A it : F(it) <=> IsFold("mode", set, e, q, it)
  BY DEF IsFold, FoldAt, Step
<1> HIDE DEF F
<1>3. \E it : F(it)
  BY <1>2, FoldExists
<1>4. F(CHOOSE it : F(it))
  BY <1>3
<1> QED BY <1>1, <1>2, <1>4

\* Parsing folds Collect over the bytes of the parameter string.
LEMMA ParamsFold ==
    ASSUME NEW raw, raw # <<>>, NEW len \in Nat, DOMAIN raw = 1..len
    PROVE  \E it : /\ IsFold("param", TRUE, [done |-> <<>>, cur |-> 0], raw, it)
                   /\ parseParams(raw) = Append(it[DOMAIN raw].done, it[DOMAIN raw].cur)
<1> DEFINE base == [done |-> <<>>, cur |-> 0]
           F(it) == it = [S \in SUBSET DOMAIN raw |->
                            IF S = {} THEN base ELSE Collect(it[S \ {Max(S)}], raw[Max(S)])]
           all == (CHOOSE it : F(it))[DOMAIN raw]
<1>1. parseParams(raw) = Append(all.done, all.cur)
  BY DEF parseParams, FoldLeft, MapThenFoldSet, Collect
<1>2. \A it : F(it) <=> IsFold("param", TRUE, base, raw, it)
  BY DEF IsFold, FoldAt, Step
<1> HIDE DEF F, base
<1>3. \E it : F(it)
  BY <1>2, FoldExists
<1>4. F(CHOOSE it : F(it))
  BY <1>3
<1>5. IsFold("param", TRUE, base, raw, CHOOSE it : F(it))
  BY <1>2, <1>4
<1> QED BY <1>1, <1>5 DEF base

\* A mode sequence does what its modes do, one after the other.
LEMMA ModesFollow ==
    ASSUME NEW e, Fits(e), NEW ps \in Seq(Int), NEW set \in BOOLEAN
    PROVE  Follows(e, ModesSet(e, ps, set))
<1> DEFINE n == Len(ps)
<1>1. n \in Nat /\ DOMAIN ps = 1..n /\ \A i \in 1..n : ps[i] \in Int
  OBVIOUS
<1> HIDE DEF n
<1>2. PICK it : IsFold("mode", set, e, ps, it) /\ ModesSet(e, ps, set) = it[DOMAIN ps]
  BY <1>1, ModesFold
<1> DEFINE T == {S \in SUBSET DOMAIN ps : Follows(e, it[S])}
<1>3. ASSUME NEW S \in SUBSET DOMAIN ps, \A x \in S : S \ {x} \in T PROVE S \in T
  <2>1. it[S] = FoldAt("mode", set, e, ps, it, S)
    BY <1>2 DEF IsFold
  <2>2. CASE S = {}
    BY <2>1, <2>2, FollowsSelf DEF FoldAt
  <2>3. CASE S # {}
    <3> DEFINE x == Max(S)
    <3>1. x \in S /\ ps[x] \in Int
      BY <1>1, <2>3, MaxIn
    <3>2. it[S] = setDecMode(it[S \ {x}], ps[x], set)
      BY <2>1, <2>3 DEF FoldAt, Step
    <3>3. Follows(e, it[S \ {x}])
      BY <1>3, <3>1
    <3>4. Follows(it[S \ {x}], setDecMode(it[S \ {x}], ps[x], set))
      BY <3>1, <3>3, ModeFollows DEF Follows
    <3>5. Follows(e, it[S])
      BY <3>2, <3>3, <3>4, FollowsBoth
    <3> QED BY <3>5
  <2> QED BY <2>2, <2>3
<1> HIDE DEF T
<1>4. \A S \in SUBSET DOMAIN ps : S \in T
  <2>1. IsFiniteSet(DOMAIN ps)
    BY <1>1, FS_Interval
  <2> QED BY <1>3, <2>1, RemovalInduction
<1> QED BY <1>2, <1>4 DEF T

\* Parameters are numbers.
ParamBytes == Digits \cup {";"}

\* A digit byte has a value.
LEMMA DigitIs == ASSUME NEW b \in Digits PROVE Digit(b) \in Int
<1>1. Digit(b) \in 0..9
  BY DEF Digits, Digit
<1> QED BY <1>1

\* What parseParams returns are numbers, wrapped to the width of int.
LEMMA ParamsAre ==
    ASSUME NEW raw \in Seq(ParamBytes)
    PROVE  parseParams(raw) \in Seq(Int)
<1>1. CASE raw = <<>>
  <2>1. parseParams(raw) = <<>>
    BY <1>1, Zenon DEF parseParams
  <2> QED BY <2>1
<1>2. CASE raw # <<>>
  <2> DEFINE n == Len(raw)
             base == [done |-> <<>>, cur |-> 0]
             Accs == [done : Seq(Int), cur : Int]
  <2>1. n \in Nat /\ DOMAIN raw = 1..n /\ \A i \in 1..n : raw[i] \in ParamBytes
    OBVIOUS
  <2> HIDE DEF n
  <2>2. PICK it : /\ IsFold("param", TRUE, base, raw, it)
                  /\ parseParams(raw) = Append(it[DOMAIN raw].done, it[DOMAIN raw].cur)
    BY <1>2, <2>1, ParamsFold
  <2>3. base \in Accs
    OBVIOUS
  <2>4. ASSUME NEW acc \in Accs, NEW b \in ParamBytes PROVE Collect(acc, b) \in Accs
    <3>1. CASE b = ";"
      <4>1. acc.done \in Seq(Int) /\ acc.cur \in Int
        OBVIOUS
      <4> DEFINE d == Append(acc.done, acc.cur)
      <4>2. d \in Seq(Int)
        BY <4>1
      <4>3. Collect(acc, b) = [done |-> d, cur |-> 0]
        BY <3>1 DEF Collect
      <4> HIDE DEF d
      <4> QED BY <4>2, <4>3
    <3>2. CASE b # ";"
      <4>1. Digit(b) \in Int
        BY <3>2, DigitIs DEF ParamBytes
      <4>2. acc.cur * 10 + Digit(b) \in Int
        BY <4>1
      <4>3. Wrap(acc.cur * 10 + Digit(b)) \in Int
        BY <4>2, WrapInt
      <4> QED BY <3>2, <4>3 DEF Collect
    <3> QED BY <3>1, <3>2
  <2> HIDE DEF base, Accs
  <2> DEFINE T == {S \in SUBSET DOMAIN raw : it[S] \in Accs}
  <2>5. ASSUME NEW S \in SUBSET DOMAIN raw, \A x \in S : S \ {x} \in T PROVE S \in T
    <3>1. it[S] = FoldAt("param", TRUE, base, raw, it, S)
      BY <2>2 DEF IsFold
    <3>2. CASE S = {}
      BY <3>1, <3>2, <2>3 DEF FoldAt
    <3>3. CASE S # {}
      <4> DEFINE x == Max(S)
      <4>1. x \in S /\ raw[x] \in ParamBytes
        BY <2>1, <3>3, MaxIn
      <4>2. it[S] = Collect(it[S \ {x}], raw[x])
        BY <3>1, <3>3 DEF FoldAt, Step
      <4>3. it[S \ {x}] \in Accs
        BY <2>5, <4>1
      <4> QED BY <4>1, <4>2, <4>3, <2>4
    <3> QED BY <3>2, <3>3
  <2> HIDE DEF T
  <2>6. \A S \in SUBSET DOMAIN raw : S \in T
    <3>1. IsFiniteSet(DOMAIN raw)
      BY <2>1, FS_Interval
    <3> QED BY <2>5, <3>1, RemovalInduction
  <2>7. it[DOMAIN raw].done \in Seq(Int) /\ it[DOMAIN raw].cur \in Int
    BY <2>6 DEF T, Accs
  <2> QED BY <2>2, <2>7
<1> QED BY <1>1, <1>2

-----------------------------------------------------------------------------
(* dispatch.                                                               *)

\* Control characters (executeC0).
LEMMA C0Follows ==
    ASSUME NEW e, Fits(e), NEW b
    PROVE  Follows(e, executeC0(e, b))
<1>1. IsScreen(Cur(e), e.cols, e.rows) /\ e.cols \in Nat \ {0} /\ e.rows \in Nat \ {0} /\ 0 \in Int
  BY CurFits DEF Fits
<1>2. /\ IsScreen(carriageReturn(Cur(e)), e.cols, e.rows) /\ IsScreen(tab(Cur(e)), e.cols, e.rows)
      /\ IsScreen(backspace(Cur(e)), e.cols, e.rows) /\ IsScreen(lineFeed(Cur(e)), e.cols, e.rows)
  BY <1>1, MovesFit, FeedFits
<1>3. /\ Follows(e, Draw(e, carriageReturn(Cur(e)))) /\ Follows(e, Draw(e, tab(Cur(e))))
      /\ Follows(e, Draw(e, backspace(Cur(e)))) /\ Follows(e, Draw(e, lineFeed(Cur(e))))
      /\ Follows(e, e)
  BY <1>2, DrawFollows, FollowsSelf DEF Yields
<1> QED BY <1>3, Zenon DEF executeC0

\* Escape sequences (dispatchESC).
LEMMA ESCFollows ==
    ASSUME NEW e, Fits(e), NEW final
    PROVE  Follows(e, dispatchESC(e, final))
<1>1. Yields(reverseIndex(Cur(e)), e.cols, e.rows)
  BY CurFits, FeedFits DEF Fits, Yields
<1>2. /\ Follows(e, Draw(e, reverseIndex(Cur(e)))) /\ Follows(e, saveCursor(e))
      /\ Follows(e, restoreCursor(e)) /\ Follows(e, hardReset(e)) /\ Follows(e, e)
  BY <1>1, DrawFollows, SaveFollows, RestoreFollows, ResetFollows, FollowsSelf
<1> QED BY <1>2, Zenon DEF dispatchESC

\* Control sequences that draw: each yields a grid of the same size, or panics.
LEMMA DrawCSIFits ==
    ASSUME NEW cols \in Nat \ {0}, NEW rows \in Nat \ {0}, NEW s, IsScreen(s, cols, rows),
           NEW final \in Drawing, NEW ps \in Seq(Int)
    PROVE  Yields(DrawCSI(s, final, ps), cols, rows)
<1> DEFINE n == Param(ps, 1, 1)
           m == Param(ps, 2, 1)
<1>1. n \in Int /\ m \in Int /\ Mode(ps) \in Int
  BY DEF Param, Mode
<1> HIDE DEF n, m
<1>2. /\ IsScreen(up(s, n), cols, rows) /\ IsScreen(down(s, n), cols, rows)
      /\ IsScreen(forward(s, n), cols, rows) /\ IsScreen(back(s, n), cols, rows)
      /\ IsScreen(column(s, n), cols, rows) /\ IsScreen(row(s, n), cols, rows)
  BY <1>1, MovesFit
<1>3. /\ IsScreen(carriageReturn(down(s, n)), cols, rows)
      /\ IsScreen(carriageReturn(up(s, n)), cols, rows)
      /\ IsScreen(column(row(s, n), m), cols, rows)
  BY <1>1, <1>2, MovesFit
<1>4. /\ Yields(eraseInDisplay(s, Mode(ps)), cols, rows)
      /\ Yields(eraseInLine(s, Mode(ps)), cols, rows) /\ Yields(eraseChars(s, n), cols, rows)
  BY <1>1, ErasuresFit
<1>5. /\ IsScreen(scrollUp(s, RegionTop(s), RegionBot(s), n), cols, rows)
      /\ IsScreen(scrollDown(s, RegionTop(s), RegionBot(s), n), cols, rows)
      /\ IsScreen(insertLines(s, n), cols, rows) /\ IsScreen(deleteLines(s, n), cols, rows)
  BY <1>1, LinesFit
<1> QED BY <1>2, <1>3, <1>4, <1>5 DEF DrawCSI, Drawing, Yields, n, m

\* Every control sequence (dispatchCSI).
LEMMA CSIFollows ==
    ASSUME NEW e, Fits(e), NEW final, NEW ps \in Seq(Int), NEW inter
    PROVE  Follows(e, dispatchCSI(e, final, ps, inter))
<1> DEFINE s == Cur(e)
           n == Param(ps, 1, 1)
           region == setRegion(s, n, Param(ps, 2, s.rows))
           decMode(x, m) == setDecMode(x, m, final = "h")
<1>0. IsScreen(s, e.cols, e.rows) /\ e.cols \in Nat \ {0} /\ e.rows \in Nat \ {0}
  BY CurFits DEF Fits
<1>1. n \in Int /\ Param(ps, 2, s.rows) \in Int
  <2>1. s.rows \in Int
    BY <1>0 DEF IsScreen
  <2> QED BY <2>1 DEF Param
<1> HIDE DEF n
<1>2. ASSUME final \in Drawing PROVE Follows(e, Draw(e, DrawCSI(s, final, ps)))
  BY <1>0, <1>2, DrawCSIFits, DrawFollows
<1>3. Follows(e, Draw(e, deleteChars(s, n))) /\ Follows(e, Draw(e, insertChars(s, n)))
  BY <1>0, <1>1, CharsFit, DrawFollows
<1>4. Follows(e, Put(e, [s EXCEPT !.pen = applySGR(@, ps)]))
  <2> DEFINE t == [s EXCEPT !.pen = applySGR(@, ps)]
             f == Put(e, t)
  <2>1. /\ IsScreen(t, e.cols, e.rows) /\ t # Panic
        /\ t.cells = s.cells /\ t.cx = s.cx /\ t.cy = s.cy
    BY <1>0 DEF IsScreen, ScreenFields, Panic
  <2> HIDE DEF t
  <2>2. /\ Fits(f) /\ f.ps = e.ps /\ f.utf8 = e.utf8 /\ f.cols = e.cols /\ f.rows = e.rows
    BY <2>1, PutFits DEF Yields
  <2>3. /\ f.scr[On(e)] = t /\ f.useAlt = e.useAlt /\ f.visible = e.visible
        /\ f.dirty = e.dirty /\ f.panicked = e.panicked
    BY <2>1, CurFits DEF Put, Fits, EmFields
  <2>4. Visible(f) = Visible(e)
    BY <2>1, <2>3 DEF Visible, Cur, On
  <2> QED BY <2>2, <2>3, <2>4 DEF Follows, Tells, t
<1>5. ASSUME region # Refused PROVE Follows(e, Draw(e, region))
  BY <1>0, <1>1, <1>5, RegionSet, DrawFollows DEF Yields
<1>6. Follows(e, saveCursor(e)) /\ Follows(e, restoreCursor(e)) /\ Follows(e, e)
  BY SaveFollows, RestoreFollows, FollowsSelf
<1>7. Follows(e, FoldLeft(decMode, e, ps))
  <2>1. (final = "h") \in BOOLEAN
    OBVIOUS
  <2>2. Follows(e, ModesSet(e, ps, final = "h"))
    BY <2>1, ModesFollow
  <2>3. FoldLeft(decMode, e, ps) = ModesSet(e, ps, final = "h")
    BY DEF ModesSet, FoldLeft, MapThenFoldSet
  <2> QED BY <2>2, <2>3
<1> QED BY <1>2, <1>3, <1>4, <1>5, <1>6, <1>7, Zenon DEF dispatchCSI, n

\* An operating system command moves the prompt state only (handleOSC).
LEMMA OSCFollows ==
    ASSUME NEW e, Fits(e), NEW payload
    PROVE  Follows(e, handleOSC(e, payload))
<1>1. ASSUME NEW x \in Prompts PROVE Follows(e, [e EXCEPT !.prompt = x])
  <2> DEFINE f == [e EXCEPT !.prompt = x]
  <2>1. /\ DOMAIN f = EmFields /\ f.prompt = x
        /\ \A y \in EmFields \ {"prompt"} : f[y] = e[y]
    BY DEF Fits, EmFields
  <2> HIDE DEF f
  <2>2. Fits(f)
    BY <2>1 DEF Fits, EmFields
  <2>3. Visible(f) = Visible(e)
    BY <2>1 DEF Visible, Cur, On, EmFields
  <2> QED BY <2>1, <2>2, <2>3 DEF Follows, Tells, EmFields, f
<1>2. /\ Follows(e, [e EXCEPT !.prompt = "atPrompt"]) /\ Follows(e, [e EXCEPT !.prompt = "running"])
      /\ Follows(e, e)
  BY <1>1, FollowsSelf DEF Prompts
<1> QED BY <1>2, Zenon DEF handleOSC

\* A control sequence comes with its parameters.
IsAction(a) == a.kind = "csi" => a.params \in Seq(Int)

\* Every action the parser can emit.
LEMMA DispatchFollows ==
    ASSUME NEW e, Fits(e), NEW a, IsAction(a)
    PROVE  Follows(e, dispatch(e, a))
<1>1. Follows(e, Draw(e, printRune(Cur(e), a.ch)))
  BY CurFits, PrintFits, DrawFollows DEF Fits
<1>2. ASSUME a.kind = "csi" PROVE Follows(e, dispatchCSI(e, a.final, a.params, a.inter))
  BY <1>2, CSIFollows DEF IsAction
<1>3. /\ Follows(e, executeC0(e, a.ch)) /\ Follows(e, dispatchESC(e, a.final))
      /\ Follows(e, handleOSC(e, a.payload)) /\ Follows(e, e)
  BY C0Follows, ESCFollows, OSCFollows, FollowsSelf
<1> QED BY <1>1, <1>2, <1>3, Zenon DEF dispatch

-----------------------------------------------------------------------------
(* The parser.                                                             *)

ParserStates == {"ground", "escape", "escapeInter", "csiEntry", "csiParam", "csiInter",
                 "csiIgnore", "osc", "dcsEntry", "dcs"}
Parsers == [state : ParserStates, inter : Seq(Bytes), param : Seq(ParamBytes), osc : Seq(Bytes)]

IsParser(p) ==
    /\ p \in Parsers
    /\ Len(p.inter) <= MaxInter /\ Len(p.param) <= MaxParam /\ Len(p.osc) <= MaxOSC

Fed(r) == IsParser(r.p) /\ IsAction(r.a)

\* A byte is kept only while there is room.
LEMMA KeepFits ==
    ASSUME NEW S, NEW q \in Seq(S), NEW b \in S, NEW max \in Nat, Len(q) <= max
    PROVE  Keep(q, b, max) \in Seq(S) /\ Len(Keep(q, b, max)) <= max
  BY DEF Keep

\* The three buffers of the parser stay within their caps.
LEMMA KeepsFit ==
    ASSUME NEW p, IsParser(p), NEW b \in Bytes, NEW d \in ParamBytes
    PROVE  /\ IsParser(KeepInter(p, b)) /\ IsParser(KeepParam(p, d))
           /\ IsParser([p EXCEPT !.osc = Keep(@, b, MaxOSC)])
<1> USE DEF IsParser
<1>1. MaxInter \in Nat /\ MaxParam \in Nat /\ MaxOSC \in Nat
  BY ParserAssumption
<1>2. p.inter \in Seq(Bytes) /\ p.param \in Seq(ParamBytes) /\ p.osc \in Seq(Bytes)
  BY DEF Parsers
<1>3. /\ Keep(p.inter, b, MaxInter) \in Seq(Bytes) /\ Len(Keep(p.inter, b, MaxInter)) <= MaxInter
      /\ Keep(p.osc, b, MaxOSC) \in Seq(Bytes) /\ Len(Keep(p.osc, b, MaxOSC)) <= MaxOSC
  BY <1>1, <1>2, KeepFits
<1>4. Keep(p.param, d, MaxParam) \in Seq(ParamBytes) /\ Len(Keep(p.param, d, MaxParam)) <= MaxParam
  BY <1>1, <1>2, KeepFits
<1> QED BY <1>3, <1>4 DEF KeepInter, KeepParam, Parsers

\* Buffers that are emptied.
LEMMA EmptiedFit ==
    ASSUME NEW p, IsParser(p)
    PROVE  /\ IsParser([p EXCEPT !.inter = <<>>]) /\ IsParser([p EXCEPT !.osc = <<>>])
           /\ IsParser(resetCSI(p))
<1>1. MaxInter \in Nat /\ MaxParam \in Nat /\ MaxOSC \in Nat
  BY ParserAssumption
<1>2. <<>> \in Seq(Bytes) /\ <<>> \in Seq(ParamBytes) /\ Len(<<>>) = 0
  OBVIOUS
<1> DEFINE nil == <<>>
<1>3. nil \in Seq(Bytes) /\ nil \in Seq(ParamBytes) /\ Len(nil) = 0
  BY <1>2
<1> HIDE DEF nil
<1>4. /\ p.state \in ParserStates /\ p.inter \in Seq(Bytes) /\ p.param \in Seq(ParamBytes)
      /\ p.osc \in Seq(Bytes) /\ DOMAIN p = {"state", "inter", "param", "osc"}
      /\ Len(p.inter) <= MaxInter /\ Len(p.param) <= MaxParam /\ Len(p.osc) <= MaxOSC
  BY DEF IsParser, Parsers
<1>5. IsParser([p EXCEPT !.inter = nil])
  <2>1. [p EXCEPT !.inter = nil] \in Parsers
    BY <1>3 DEF IsParser, Parsers
  <2> QED BY <1>1, <1>3, <1>4, <2>1 DEF IsParser
<1>6. IsParser([p EXCEPT !.osc = nil])
  <2>1. [p EXCEPT !.osc = nil] \in Parsers
    BY <1>3 DEF IsParser, Parsers
  <2> QED BY <1>1, <1>3, <1>4, <2>1 DEF IsParser
<1>7. IsParser([p EXCEPT !.inter = nil, !.param = nil])
  <2>1. [p EXCEPT !.inter = nil, !.param = nil] \in Parsers
    BY <1>3 DEF IsParser, Parsers
  <2> QED BY <1>1, <1>3, <1>4, <2>1 DEF IsParser
<1> QED BY <1>5, <1>6, <1>7 DEF resetCSI, nil

\* A new state of the parser, with and without an action.
LEMMA EmitFits ==
    ASSUME NEW p, IsParser(p), NEW st \in ParserStates, NEW a
    PROVE  /\ IsAction(a) => Fed(Emit(p, st, a))
           /\ Fed(Goto(p, st))
<1>1. IsParser([p EXCEPT !.state = st])
  BY DEF IsParser, Parsers
<1>2. IsAction(None)
  BY DEF IsAction, None
<1> QED BY <1>1, <1>2 DEF Emit, Goto, Fed

\* A completed sequence leaves the parser in order.
LEMMA BuildsFit ==
    ASSUME NEW p, IsParser(p), NEW b
    PROVE  Fed(buildOSC(p)) /\ Fed(buildCSI(p, b)) /\ Fed(buildESC(p, b))
<1>1. "ground" \in ParserStates
  BY DEF ParserStates
<1>2. \A q : IsParser(q) => Fed(buildOSC(q))
  <2> SUFFICES ASSUME NEW q, IsParser(q) PROVE Fed(buildOSC(q))
    OBVIOUS
  <2>1. IsAction([kind |-> "osc", payload |-> q.osc])
    BY DEF IsAction
  <2> QED BY <1>1, <2>1, EmptiedFit, EmitFits DEF buildOSC
<1>3. Fed(buildCSI(p, b))
  <2>1. parseParams(p.param) \in Seq(Int)
    BY ParamsAre DEF IsParser, Parsers
  <2>2. IsAction([kind |-> "csi", final |-> b, inter |-> p.inter, params |-> parseParams(p.param)])
    BY <2>1 DEF IsAction
  <2> QED BY <1>1, <2>2, EmptiedFit, EmitFits DEF buildCSI
<1>4. Fed(buildESC(p, b))
  <2> DEFINE q == [p EXCEPT !.inter = <<>>]
  <2>1. IsParser(q)
    BY EmptiedFit
  <2>2. IsAction([kind |-> "esc", final |-> b, inter |-> p.inter])
    BY DEF IsAction
  <2> HIDE DEF q
  <2>3. Fed(buildOSC(q)) /\ Fed(Emit(q, "ground", [kind |-> "esc", final |-> b, inter |-> p.inter]))
    BY <1>1, <1>2, <2>1, <2>2, EmitFits
  <2> QED BY <2>3 DEF buildESC, q
<1> QED BY <1>2, <1>3, <1>4

\* Any byte in any state (FeedByte).
LEMMA ParserStep ==
    ASSUME NEW p, IsParser(p), NEW b \in Bytes
    PROVE  Fed(feedByte(p, b))
<1>1. \A st \in ParserStates : \A q : IsParser(q) => Fed(Goto(q, st))
  BY EmitFits
<1>2. /\ IsParser(KeepInter(p, b)) /\ IsParser(KeepParam(p, ";"))
      /\ IsParser([p EXCEPT !.osc = Keep(@, b, MaxOSC)])
      /\ b \in Digits \cup {";"} => IsParser(KeepParam(p, b))
  BY KeepsFit DEF ParamBytes
<1>3. /\ IsParser([p EXCEPT !.inter = <<>>]) /\ IsParser([p EXCEPT !.osc = <<>>])
      /\ IsParser(resetCSI(p)) /\ p.state \in ParserStates
  BY EmptiedFit DEF IsParser, Parsers
<1>4. Fed(buildOSC(p)) /\ Fed(buildCSI(p, b)) /\ Fed(buildESC(p, b))
  BY BuildsFit
<1>5. Fed(handleC0(p, b))
  <2>1. IsAction(Executes(b))
    BY DEF IsAction, Executes
  <2>2. Fed(Emit(p, p.state, Executes(b))) /\ Fed(Goto(p, p.state)) /\ Fed(Goto(p, "ground"))
        /\ Fed(Goto([p EXCEPT !.inter = <<>>], "escape"))
    BY <1>3, <2>1, EmitFits DEF ParserStates
  <2> QED BY <1>4, <2>2, Zenon DEF handleC0
<1>6. Fed(inGround(p, b))
  <2>1. IsAction(Prints(b))
    BY DEF IsAction, Prints
  <2>2. Fed(Goto(p, "ground")) /\ Fed(Emit(p, "ground", Prints(b)))
    BY <2>1, EmitFits DEF ParserStates
  <2> QED BY <2>2 DEF inGround
<1>7. /\ Fed(Goto(resetCSI(p), "csiEntry")) /\ Fed(Goto([p EXCEPT !.osc = <<>>], "osc"))
      /\ Fed(Goto(p, "dcsEntry")) /\ Fed(Goto(KeepInter(p, b), "escapeInter"))
      /\ Fed(Goto(p, "escape")) /\ Fed(Goto(p, "ground")) /\ Fed(Goto(p, "dcs"))
      /\ Fed(Goto(KeepInter(p, b), "csiInter")) /\ Fed(Goto(KeepInter(p, b), "csiParam"))
      /\ Fed(Goto(p, "csiEntry")) /\ Fed(Goto(p, "csiIgnore")) /\ Fed(Goto(p, "csiParam"))
      /\ Fed(Goto(KeepParam(p, ";"), "csiParam"))
      /\ Fed(Goto([p EXCEPT !.osc = Keep(@, b, MaxOSC)], "osc"))
      /\ b \in Digits \cup {";"} => Fed(Goto(KeepParam(p, b), "csiParam"))
  BY <1>1, <1>2, <1>3 DEF ParserStates
<1>8. Fed(inEscape(p, b)) /\ Fed(inEscapeInter(p, b))
  BY <1>4, <1>7, Zenon DEF inEscape, inEscapeInter
<1>9. Fed(inCSIEntry(p, b))
  BY <1>4, <1>7, Zenon DEF inCSIEntry
<1>10. Fed(inCSIParam(p, b))
  BY <1>4, <1>7, Zenon DEF inCSIParam
<1>11. Fed(inCSIInter(p, b)) /\ Fed(inCSIIgnore(p, b)) /\ Fed(inOSC(p, b))
  BY <1>4, <1>7, Zenon DEF inCSIInter, inCSIIgnore, inOSC
<1>12. Fed(inDCS(p, b))
  <2>1. IsAction([kind |-> "dcs"])
    BY DEF IsAction
  <2>2. Fed(Emit(p, "ground", [kind |-> "dcs"]))
    BY <2>1, EmitFits DEF ParserStates
  <2> QED BY <1>7, <2>2 DEF inDCS
<1> QED BY <1>3, <1>5, <1>6, <1>8, <1>9, <1>10, <1>11, <1>12 DEF feedByte, ParserStates

-----------------------------------------------------------------------------
(* Write.                                                                  *)

Leads == {"L2", "L3", "L2x"}

\* A partial character is shorter than its lead byte promises.
IsPartial(u) ==
    u \in Seq(HighBytes) /\ Len(u) < 4 /\ (u # <<>> => u[1] \in Leads)

Whole(e) == Fits(e) /\ IsParser(e.ps) /\ IsPartial(e.utf8)

\* A run of bytes keeps the emulator whole and its size, and tells.
Takes(e, f) == Whole(f) /\ Tells(e, f) /\ f.cols = e.cols /\ f.rows = e.rows

\* The empty run of bytes.
LEMMA TakesSelf == ASSUME NEW e, Whole(e) PROVE Takes(e, e)
  BY DEF Takes, Tells

\* A run of bytes after a run of bytes.
LEMMA TakesBoth ==
    ASSUME NEW e, NEW f, NEW g, Takes(e, f), Takes(f, g)
    PROVE  Takes(e, g)
<1>1. Tells(e, g)
  <2>1. CASE g.panicked \/ g.dirty
    BY <2>1 DEF Tells
  <2>2. CASE ~(g.panicked \/ g.dirty)
    <3>1. Visible(g) = Visible(f) /\ g.dirty = f.dirty /\ g.panicked = f.panicked
      BY <2>2 DEF Takes, Tells
    <3>2. ~(f.panicked \/ f.dirty)
      BY <2>2, <3>1
    <3>3. Visible(f) = Visible(e) /\ f.dirty = e.dirty /\ f.panicked = e.panicked
      BY <3>2 DEF Takes, Tells
    <3> QED BY <3>1, <3>3 DEF Tells
  <2> QED BY <2>1, <2>2
<1> QED BY <1>1 DEF Takes

\* The bytes kept between writes are not on the screen.
LEMMA BytesKept ==
    ASSUME NEW e, Fits(e), NEW p, NEW u
    PROVE  /\ Fits([e EXCEPT !.utf8 = u]) /\ Tells(e, [e EXCEPT !.utf8 = u])
           /\ Fits([e EXCEPT !.ps = p, !.utf8 = u]) /\ Tells(e, [e EXCEPT !.ps = p, !.utf8 = u])
<1> DEFINE f == [e EXCEPT !.utf8 = u]
           g == [e EXCEPT !.ps = p, !.utf8 = u]
<1>1. /\ DOMAIN f = EmFields /\ \A x \in EmFields \ {"utf8"} : f[x] = e[x]
      /\ DOMAIN g = EmFields /\ \A x \in EmFields \ {"ps", "utf8"} : g[x] = e[x]
  BY DEF Fits, EmFields
<1> HIDE DEF f, g
<1>2. Fits(f) /\ Fits(g)
  <2>1. Fits(f)
    BY <1>1 DEF Fits, EmFields
  <2>2. Fits(g)
    BY <1>1 DEF Fits, EmFields
  <2> QED BY <2>1, <2>2
<1>3. Visible(f) = Visible(e) /\ Visible(g) = Visible(e)
  BY <1>1 DEF Visible, Cur, On, EmFields
<1>4. Tells(e, f) /\ Tells(e, g)
  BY <1>1, <1>3 DEF Tells, EmFields
<1> QED BY <1>2, <1>4 DEF f, g

\* A byte of a character beyond ASCII.
LEMMA HighByteTaken ==
    ASSUME NEW e, Whole(e), NEW b \in HighBytes
    PROVE  Takes(e, feedUTF8(e, b))
<1> DEFINE buf == Append(e.utf8, b)
           d == Draw(e, printRune(Cur(e), "rune"))
<1>1. Fits(e) /\ e.utf8 \in Seq(HighBytes) /\ IsPartial(e.utf8) /\ IsParser(e.ps)
  BY DEF Whole, IsPartial
<1>2. /\ buf \in Seq(HighBytes) /\ Len(buf) = Len(e.utf8) + 1 /\ Len(buf) \in Nat \ {0}
      /\ buf[1] \in HighBytes
  BY <1>1
<1>3. IsPartial(<<>>)
  BY DEF IsPartial
<1>4. Takes(e, [d EXCEPT !.utf8 = <<>>])
  <2>1. Follows(e, d)
    BY <1>1, CurFits, PrintFits, DrawFollows DEF Fits
  <2> HIDE DEF d
  <2>2. Takes(e, d)
    BY <1>1, <2>1 DEF Follows, Takes, Whole
  <2>3. /\ Fits([d EXCEPT !.utf8 = <<>>]) /\ Tells(d, [d EXCEPT !.utf8 = <<>>])
    BY <2>1, BytesKept DEF Follows
  <2>4. /\ [d EXCEPT !.utf8 = <<>>].utf8 = <<>> /\ [d EXCEPT !.utf8 = <<>>].ps = d.ps
        /\ [d EXCEPT !.utf8 = <<>>].cols = d.cols /\ [d EXCEPT !.utf8 = <<>>].rows = d.rows
    BY <2>1 DEF Follows, Fits, EmFields
  <2>5. Takes(d, [d EXCEPT !.utf8 = <<>>])
    BY <1>3, <2>2, <2>3, <2>4 DEF Takes, Whole
  <2> QED BY <2>2, <2>5, TakesBoth
<1>5. ASSUME NEW u, IsPartial(u) PROVE Takes(e, [e EXCEPT !.utf8 = u])
  <2>1. Fits([e EXCEPT !.utf8 = u]) /\ Tells(e, [e EXCEPT !.utf8 = u])
    BY <1>1, BytesKept
  <2>2. /\ [e EXCEPT !.utf8 = u].utf8 = u /\ [e EXCEPT !.utf8 = u].ps = e.ps
        /\ [e EXCEPT !.utf8 = u].cols = e.cols /\ [e EXCEPT !.utf8 = u].rows = e.rows
    BY <1>1 DEF Fits, EmFields
  <2> QED BY <1>1, <1>5, <2>1, <2>2 DEF Takes, Whole
<1>6. ~(Len(buf) >= utf8RuneLen(buf[1])) => IsPartial(buf)
  BY <1>2 DEF IsPartial, utf8RuneLen, HighBytes, Leads
<1> HIDE DEF d
<1>7. CASE Decodes(buf)
  <2> HIDE DEF buf
  <2>1. feedUTF8(e, b) = [d EXCEPT !.utf8 = <<>>]
    BY <1>7, Zenon DEF feedUTF8, buf, d
  <2> QED BY <1>4, <2>1
<1>8. CASE ~Decodes(buf)
  <2> HIDE DEF buf
  <2>1. CASE Len(buf) >= utf8RuneLen(buf[1])
    <3>1. feedUTF8(e, b) = [e EXCEPT !.utf8 = <<>>]
      BY <1>8, <2>1, Zenon DEF feedUTF8, buf
    <3> QED BY <1>3, <1>5, <3>1
  <2>2. CASE ~(Len(buf) >= utf8RuneLen(buf[1]))
    <3>1. feedUTF8(e, b) = [e EXCEPT !.utf8 = buf]
      BY <1>8, <2>2, Zenon DEF feedUTF8, buf
    <3> QED BY <1>5, <1>6, <2>2, <3>1
  <2> QED BY <2>1, <2>2
<1> QED BY <1>7, <1>8

\* An ASCII byte, and what it completes.
LEMMA ASCIITaken ==
    ASSUME NEW e, Whole(e), NEW b \in Bytes
    PROVE  Takes(e, feedASCII(e, b))
<1> DEFINE fed == feedByte(e.ps, b)
           g == [e EXCEPT !.ps = fed.p, !.utf8 = <<>>]
<1>1. IsParser(fed.p) /\ IsAction(fed.a)
  BY ParserStep DEF Whole, Fed
<1> HIDE DEF fed
<1>2. Fits(g) /\ Tells(e, g)
  BY BytesKept DEF Whole
<1>3. g.ps = fed.p /\ g.utf8 = <<>> /\ g.cols = e.cols /\ g.rows = e.rows
  BY DEF Whole, Fits, EmFields
<1>4. IsPartial(<<>>)
  BY DEF IsPartial
<1> HIDE DEF g
<1>5. Takes(e, g)
  BY <1>1, <1>2, <1>3, <1>4 DEF Takes, Whole
<1>6. Follows(g, dispatch(g, fed.a))
  BY <1>1, <1>2, DispatchFollows
<1>7. Takes(g, dispatch(g, fed.a))
  BY <1>5, <1>6 DEF Follows, Takes, Whole
<1>8. feedASCII(e, b) = dispatch(g, fed.a)
  BY DEF feedASCII, g, fed
<1> QED BY <1>5, <1>7, <1>8, TakesBoth

\* All bytes of a Write (writeUnlocked).
LEMMA WriteTaken ==
    ASSUME NEW e, Whole(e), NEW p \in Seq(Bytes)
    PROVE  Takes(e, writeUnlocked(e, p))
<1> DEFINE n == Len(p)
<1>1. n \in Nat /\ DOMAIN p = 1..n /\ \A i \in 1..n : p[i] \in Bytes
  OBVIOUS
<1> HIDE DEF n
<1>2. PICK it : IsFold("feed", TRUE, e, p, it) /\ writeUnlocked(e, p) = it[DOMAIN p]
  BY <1>1, WriteFolds
<1> DEFINE T == {S \in SUBSET DOMAIN p : Takes(e, it[S])}
<1>3. ASSUME NEW S \in SUBSET DOMAIN p, \A x \in S : S \ {x} \in T PROVE S \in T
  <2>1. it[S] = FoldAt("feed", TRUE, e, p, it, S)
    BY <1>2 DEF IsFold
  <2>2. CASE S = {}
    BY <2>1, <2>2, TakesSelf DEF FoldAt
  <2>3. CASE S # {}
    <3> DEFINE x == Max(S)
               f == it[S \ {x}]
    <3>1. x \in S /\ p[x] \in Bytes
      BY <1>1, <2>3, MaxIn
    <3>2. it[S] = Feed(f, p[x])
      BY <2>1, <2>3 DEF FoldAt, Step
    <3>3. Takes(e, f)
      BY <1>3, <3>1
    <3> HIDE DEF f
    <3>4. Takes(f, Feed(f, p[x]))
      <4>1. Whole(f)
        BY <3>3 DEF Takes
      <4>2. /\ Takes(f, f) /\ Takes(f, feedASCII(f, p[x]))
            /\ (p[x] \in HighBytes => Takes(f, feedUTF8(f, p[x])))
        BY <3>1, <4>1, TakesSelf, HighByteTaken, ASCIITaken
      <4> QED BY <4>2 DEF Feed
    <3>5. Takes(e, it[S])
      BY <3>2, <3>3, <3>4, TakesBoth
    <3> QED BY <3>5
  <2> QED BY <2>2, <2>3
<1> HIDE DEF T
<1>4. \A S \in SUBSET DOMAIN p : S \in T
  <2>1. IsFiniteSet(DOMAIN p)
    BY <1>1, FS_Interval
  <2> QED BY <1>3, <2>1, RemovalInduction
<1> QED BY <1>2, <1>4 DEF T

-----------------------------------------------------------------------------
(* The invariant, and what follows from it.                                *)

VtInv ==
    /\ Whole(em)
    /\ rev \in Nat /\ calls \in 0..MaxCalls
    /\ RevTracksScreen

\* Grids and scroll regions fit the terminal, as in ScreensInShape; the cursor
\* is left open.
GridsInShape ==
    \A n \in Names :
        LET s == em.scr[n]
        IN  /\ s.cols = em.cols /\ s.rows = em.rows
            /\ DOMAIN s.cells = 0..(em.rows - 1)
            /\ \A y \in DOMAIN s.cells : DOMAIN s.cells[y] = 0..(em.cols - 1)
            /\ s.top \in 1..s.rows /\ s.bot \in s.top..s.rows

\* A new emulator satisfies the invariant.
LEMMA VtInit == Init => VtInv
<1> SUFFICES ASSUME Init PROVE VtInv
  OBVIOUS
<1>1. PICK size \in Sizes : em = New(AtLeast1(size[1]), AtLeast1(size[2]))
  BY DEF Init
<1> DEFINE c == AtLeast1(size[1])
           r == AtLeast1(size[2])
<1>2. c \in Nat \ {0} /\ r \in Nat \ {0}
  BY EmulatorAssumption DEF AtLeast1
<1> HIDE DEF c, r
<1>3. /\ DOMAIN em = EmFields /\ em.cols = c /\ em.rows = r
      /\ em.scr = [primary |-> newScreen(c, r), alt |-> newScreen(c, r)]
      /\ DOMAIN em.saved = Names
      /\ \A n \in Names : em.saved[n] = [cx |-> 0, cy |-> 0, pen |-> DefaultPen]
      /\ em.useAlt = FALSE /\ em.visible = TRUE /\ em.dirty = FALSE /\ em.panicked = FALSE
      /\ em.prompt = "unknown" /\ em.ps = NewParser /\ em.utf8 = <<>>
  BY <1>1 DEF New, EmFields, Names, c, r
<1>4. Fits(em)
  <2>1. \A n \in Names : IsScreen(em.scr[n], c, r)
    BY <1>2, <1>3, NewScreenFits DEF Names
  <2>2. DOMAIN em.scr = Names
    BY <1>3 DEF Names
  <2>3. \A n \in Names : /\ DOMAIN em.saved[n] = SavedFields
                         /\ em.saved[n].cx \in Int /\ em.saved[n].cy \in Int
    BY <1>3 DEF SavedFields
  <2> QED BY <1>2, <1>3, <2>1, <2>2, <2>3 DEF Fits, Prompts
<1>5. IsParser(em.ps)
  <2> DEFINE nil == <<>>
  <2>1. nil \in Seq(Bytes) /\ nil \in Seq(ParamBytes) /\ Len(nil) = 0
    OBVIOUS
  <2>2. em.ps = [state |-> "ground", inter |-> nil, param |-> nil, osc |-> nil]
    BY <1>3 DEF NewParser
  <2> HIDE DEF nil
  <2> QED BY <2>1, <2>2, ParserAssumption DEF IsParser, Parsers, ParserStates
<1>6. IsPartial(em.utf8)
  BY <1>3 DEF IsPartial
<1>7. rev \in Nat /\ calls \in 0..MaxCalls /\ RevTracksScreen
  BY EmulatorAssumption DEF Init, RevTracksScreen
<1> QED BY <1>4, <1>5, <1>6, <1>7 DEF VtInv, Whole

\* A new size.
LEMMA ResizedTaken ==
    ASSUME NEW e, Whole(e), NEW cols \in Nat \ {0}, NEW rows \in Nat \ {0}
    PROVE  Whole(Resized(e, cols, rows)) /\ Tells(e, Resized(e, cols, rows))
<1>1. CASE cols = e.cols /\ rows = e.rows
  BY <1>1 DEF Resized, Tells
<1>2. CASE ~(cols = e.cols /\ rows = e.rows)
  <2> DEFINE f == Resized(e, cols, rows)
  <2>1. /\ DOMAIN f = EmFields /\ f.cols = cols /\ f.rows = rows /\ f.dirty = TRUE
        /\ f.scr = [primary |-> resize(e.scr.primary, cols, rows),
                    alt |-> resize(e.scr.alt, cols, rows)]
        /\ \A x \in EmFields \ {"cols", "rows", "scr", "dirty"} : f[x] = e[x]
    BY <1>2 DEF Resized, Whole, Fits, EmFields
  <2> HIDE DEF f
  <2>2. \A n \in Names : IsScreen(f.scr[n], cols, rows)
    <3>1. /\ IsScreen(e.scr.primary, e.cols, e.rows) /\ IsScreen(e.scr.alt, e.cols, e.rows)
          /\ e.cols \in Nat \ {0} /\ e.rows \in Nat \ {0}
      BY DEF Whole, Fits, Names
    <3>2. /\ IsScreen(resize(e.scr.primary, cols, rows), cols, rows)
          /\ IsScreen(resize(e.scr.alt, cols, rows), cols, rows)
      BY <3>1, ResizeFits
    <3> QED BY <2>1, <3>2 DEF Names
  <2>3. DOMAIN f.scr = Names
    BY <2>1 DEF Names
  <2>4. /\ f.saved = e.saved /\ f.useAlt = e.useAlt /\ f.visible = e.visible
        /\ f.panicked = e.panicked /\ f.prompt = e.prompt /\ f.ps = e.ps /\ f.utf8 = e.utf8
    BY <2>1 DEF EmFields
  <2>5. Fits(f)
    <3>1. {f.useAlt, f.visible, f.dirty, f.panicked} \subseteq BOOLEAN /\ f.prompt \in Prompts
      BY <2>1, <2>4 DEF Whole, Fits
    <3>2. /\ DOMAIN f.saved = Names
          /\ \A n \in Names : /\ DOMAIN f.saved[n] = SavedFields
                              /\ f.saved[n].cx \in Int /\ f.saved[n].cy \in Int
      BY <2>4 DEF Whole, Fits
    <3> QED BY <2>1, <2>2, <2>3, <3>1, <3>2 DEF Fits
  <2> QED BY <2>1, <2>4, <2>5 DEF Whole, Tells, f
<1> QED BY <1>1, <1>2

\* Every call keeps it.
LEMMA VtStep == VtInv /\ [Next]_vars => VtInv'
<1> SUFFICES ASSUME VtInv, [Next]_vars PROVE VtInv'
  OBVIOUS
<1>0. Whole(em) /\ rev \in Nat /\ calls \in 0..MaxCalls /\ RevTracksScreen
  BY DEF VtInv
\* Calls that draw, and return before the next Render.
<1>1. ASSUME Called, Whole(em'), Tells(em, em'), UNCHANGED <<rev, shown>> PROVE VtInv'
  <2>1. calls' \in 0..MaxCalls /\ ~em.panicked
    BY <1>0, <1>1, EmulatorAssumption DEF Called
  <2>2. RevTracksScreen'
    <3>1. SUFFICES ASSUME ~em'.panicked, ~em'.dirty PROVE Visible(em') = shown
      BY <1>1 DEF RevTracksScreen
    <3>2. Visible(em') = Visible(em) /\ ~em.dirty
      BY <1>1, <3>1 DEF Tells
    <3> QED BY <1>0, <2>1, <3>2 DEF RevTracksScreen
  <2> QED BY <1>0, <1>1, <2>1, <2>2 DEF VtInv
<1>2. ASSUME NEW p \in Chunks, Write(p) PROVE VtInv'
  <2>1. p \in Seq(Bytes)
    BY EmulatorAssumption DEF Bytes
  <2>2. Takes(em, writeUnlocked(em, p))
    BY <1>0, <2>1, WriteTaken
  <2>3. Called /\ em' = writeUnlocked(em, p) /\ UNCHANGED <<rev, shown>>
    BY <1>2 DEF Write
  <2> QED BY <1>1, <2>2, <2>3 DEF Takes
<1>3. ASSUME NEW size \in Sizes, Resize(size) PROVE VtInv'
  <2>1. AtLeast1(size[1]) \in Nat \ {0} /\ AtLeast1(size[2]) \in Nat \ {0}
    BY EmulatorAssumption DEF AtLeast1
  <2>2. /\ Called /\ UNCHANGED <<rev, shown>>
        /\ em' = Resized(em, AtLeast1(size[1]), AtLeast1(size[2]))
    BY <1>3 DEF Resize
  <2> QED BY <1>0, <1>1, <2>1, <2>2, ResizedTaken
<1>4. CASE Render
  <2>1. /\ em' = [em EXCEPT !.dirty = FALSE] /\ shown' = Visible(em) /\ UNCHANGED calls
        /\ rev' = Rev(em, rev)
    BY <1>4 DEF Render
  <2>2. /\ DOMAIN em' = EmFields /\ em'.dirty = FALSE
        /\ \A x \in EmFields \ {"dirty"} : em'[x] = em[x]
    BY <1>0, <2>1 DEF Whole, Fits, EmFields
  <2>3. Whole(em')
    <3>1. Fits(em')
      BY <1>0, <2>2 DEF Whole, Fits, EmFields
    <3> QED BY <1>0, <2>2, <3>1 DEF Whole, EmFields
  <2>4. Visible(em') = Visible(em)
    BY <2>2 DEF Visible, Cur, On, EmFields
  <2>5. rev' \in Nat
    BY <1>0, <2>1 DEF Rev
  <2>6. RevTracksScreen'
    BY <2>1, <2>4 DEF RevTracksScreen
  <2> QED BY <1>0, <2>1, <2>3, <2>5, <2>6 DEF VtInv
<1>5. CASE UNCHANGED vars
  BY <1>0, <1>5 DEF vars, VtInv, RevTracksScreen
<1> QED BY <1>2, <1>3, <1>4, <1>5 DEF Next

\* The emulator stays whole and its revision tells of every change, for every
\* output and every mix of writes, resizes and renders (emulator.go).
THEOREM VtInvariant == Spec => []VtInv
  BY VtInit, VtStep, PTL DEF Spec

\* No buffer that is filled byte by byte outgrows its array, however the output
\* is cut into writes (parser.go, emulator.go).
THEOREM BuffersHold == Spec => []TypeOK
<1>1. VtInv => TypeOK
  BY DEF VtInv, Whole, Fits, IsParser, Parsers, ParserStates, IsPartial, Leads, Prompts, TypeOK
<1> QED BY <1>1, VtInvariant, PTL

\* Both grids keep the size of the terminal and a scroll region inside it,
\* whatever the parameters, those included that wrap Go's int (emulator.go).
THEOREM GridsKeepTheirShape == Spec => []GridsInShape
<1>1. VtInv => GridsInShape
  BY DEF VtInv, Whole, Fits, IsScreen, GridsInShape
<1> QED BY <1>1, VtInvariant, PTL

\* A revision that did not advance means an unchanged screen, so that the
\* producer misses nothing when it skips a session (emulator.go, Rev and
\* Render).
THEOREM RevisionTellsOfChanges == Spec => []RevTracksScreen
<1>1. VtInv => RevTracksScreen
  BY DEF VtInv
<1> QED BY <1>1, VtInvariant, PTL

-----------------------------------------------------------------------------
(* The cursor: where an operation leaves it, and where it may panic.       *)

\* On the grid, or waiting to wrap in the last column.
InGrid(s) == s.cx \in 0..s.cols /\ s.cy \in 0..(s.rows - 1)

\* Not in a column and a row of the grid.
Away(s) == s.cx \notin 0..(s.cols - 1) \/ s.cy \notin 0..(s.rows - 1)

\* What an operation on s may yield: a panic only when the cursor was away,
\* and otherwise a cursor in the grid again.
Draws(s, t) == /\ t = Panic => Away(s)
               /\ t # Panic /\ InGrid(s) => InGrid(t)

\* A screen is no panic.
LEMMA ScreenNoPanic ==
    ASSUME NEW cols, NEW rows, NEW s, IsScreen(s, cols, rows)
    PROVE  s # Panic
<1>1. "cols" \in DOMAIN s /\ "cols" \notin DOMAIN Panic
  BY DEF IsScreen, ScreenFields, Panic
<1> QED BY <1>1

\* An operation that leaves the cursor alone.
LEMMA DrawsInPlace ==
    ASSUME NEW cols \in Nat \ {0}, NEW rows \in Nat \ {0}, NEW s, IsScreen(s, cols, rows),
           NEW t, IsScreen(t, cols, rows), t.cx = s.cx, t.cy = s.cy
    PROVE  Draws(s, t)
  BY ScreenNoPanic DEF Draws, InGrid, IsScreen

\* One that moves it to another place of the grid.
LEMMA DrawsElsewhere ==
    ASSUME NEW cols \in Nat \ {0}, NEW rows \in Nat \ {0}, NEW s, IsScreen(s, cols, rows),
           NEW t, IsScreen(t, cols, rows), InGrid(s) => InGrid(t)
    PROVE  Draws(s, t)
  BY ScreenNoPanic DEF Draws

\* Scrolling leaves the cursor alone.
LEMMA ScrollsInPlace ==
    ASSUME NEW cols \in Nat \ {0}, NEW rows \in Nat \ {0}, NEW s, IsScreen(s, cols, rows),
           NEW top, NEW bot, NEW n
    PROVE  /\ scrollUp(s, top, bot, n).cx = s.cx /\ scrollUp(s, top, bot, n).cy = s.cy
           /\ scrollDown(s, top, bot, n).cx = s.cx /\ scrollDown(s, top, bot, n).cy = s.cy
<1>1. \A by : ShiftRows(s, top, bot, by).cx = s.cx /\ ShiftRows(s, top, bot, by).cy = s.cy
  BY DEF ShiftRows, IsScreen, ScreenFields
<1> QED BY <1>1 DEF scrollUp, scrollDown

\* Line feed and reverse index stay between the first row and the last.
LEMMA FeedDraws ==
    ASSUME NEW cols \in Nat \ {0}, NEW rows \in Nat \ {0}, NEW s, IsScreen(s, cols, rows)
    PROVE  /\ Draws(s, lineFeed(s)) /\ Draws(s, reverseIndex(s))
           /\ lineFeed(s).cx = s.cx
<1>1. /\ RegionTop(s) \in 0..(rows - 1) /\ RegionBot(s) \in 0..(rows - 1)
      /\ s.cols = cols /\ s.rows = rows /\ s.cx \in Int /\ s.cy \in Int
      /\ "cy" \in DOMAIN s /\ "cx" \in DOMAIN s
  <2>1. RegionTop(s) \in 0..(rows - 1) /\ RegionBot(s) \in 0..(rows - 1)
    BY RegionFits
  <2>2. s.cols = cols /\ s.rows = rows /\ s.cx \in Int /\ s.cy \in Int
    BY DEF IsScreen
  <2>3. "cy" \in DOMAIN s /\ "cx" \in DOMAIN s
    BY DEF IsScreen, ScreenFields
  <2> QED BY <2>1, <2>2, <2>3
<1>2. /\ IsScreen(lineFeed(s), cols, rows) /\ IsScreen(reverseIndex(s), cols, rows)
  BY FeedFits
<1>3. \/ lineFeed(s).cx = s.cx /\ lineFeed(s).cy = s.cy
      \/ s.cy < RegionBot(s) /\ lineFeed(s).cx = s.cx /\ lineFeed(s).cy = s.cy + 1
  BY <1>1, ScrollsInPlace DEF lineFeed
<1>4. \/ reverseIndex(s).cx = s.cx /\ reverseIndex(s).cy = s.cy
      \/ /\ s.cy > RegionTop(s) /\ reverseIndex(s).cx = s.cx
         /\ reverseIndex(s).cy = s.cy - 1
  BY <1>1, ScrollsInPlace DEF reverseIndex
<1>5. /\ lineFeed(s).cols = cols /\ lineFeed(s).rows = rows
      /\ reverseIndex(s).cols = cols /\ reverseIndex(s).rows = rows
  BY <1>2 DEF IsScreen
<1>6. InGrid(s) => InGrid(lineFeed(s))
  BY <1>1, <1>3, <1>5 DEF InGrid
<1>7. InGrid(s) => InGrid(reverseIndex(s))
  BY <1>1, <1>4, <1>5 DEF InGrid
<1> QED BY <1>2, <1>3, <1>6, <1>7, DrawsElsewhere

\* Scrolling, insertion and deletion of lines.
LEMMA LinesDraw ==
    ASSUME NEW cols \in Nat \ {0}, NEW rows \in Nat \ {0}, NEW s, IsScreen(s, cols, rows),
           NEW n \in Int
    PROVE  /\ Draws(s, scrollUp(s, RegionTop(s), RegionBot(s), n))
           /\ Draws(s, scrollDown(s, RegionTop(s), RegionBot(s), n))
           /\ Draws(s, insertLines(s, n)) /\ Draws(s, deleteLines(s, n))
<1>1. /\ IsScreen(scrollUp(s, RegionTop(s), RegionBot(s), n), cols, rows)
      /\ IsScreen(scrollDown(s, RegionTop(s), RegionBot(s), n), cols, rows)
      /\ IsScreen(insertLines(s, n), cols, rows) /\ IsScreen(deleteLines(s, n), cols, rows)
  BY LinesFit
<1>2. /\ insertLines(s, n).cx = s.cx /\ insertLines(s, n).cy = s.cy
      /\ deleteLines(s, n).cx = s.cx /\ deleteLines(s, n).cy = s.cy
  BY ScrollsInPlace DEF insertLines, deleteLines
<1> QED BY <1>1, <1>2, ScrollsInPlace, DrawsInPlace

\* Cells of the grid can be written.
LEMMA FillDraws ==
    ASSUME NEW cols \in Nat \ {0}, NEW rows \in Nat \ {0}, NEW s, IsScreen(s, cols, rows),
           NEW at, NEW cell, ~Away(s) => at \subseteq (0..(rows - 1)) \X (0..(cols - 1))
    PROVE  Draws(s, Fill(s, at, cell))
<1>1. s.cols = cols /\ s.rows = rows
  BY DEF IsScreen
<1>2. CASE at \subseteq (0..(rows - 1)) \X (0..(cols - 1))
  <2>1. Fill(s, at, cell).cx = s.cx /\ Fill(s, at, cell).cy = s.cy /\ Fill(s, at, cell) # Panic
    BY <1>1, <1>2 DEF Fill, IsScreen, ScreenFields, Panic
  <2>2. Yields(Fill(s, at, cell), cols, rows)
    BY FillFits
  <2> QED BY <2>1, <2>2, DrawsInPlace DEF Yields
<1>3. CASE ~(at \subseteq (0..(rows - 1)) \X (0..(cols - 1)))
  <2>1. Fill(s, at, cell) = Panic
    BY <1>1, <1>3 DEF Fill
  <2> QED BY <1>3, <2>1 DEF Draws
<1> QED BY <1>2, <1>3

\* Erasing.
LEMMA ErasuresDraw ==
    ASSUME NEW cols \in Nat \ {0}, NEW rows \in Nat \ {0}, NEW s, IsScreen(s, cols, rows),
           NEW n \in Int
    PROVE  /\ Draws(s, eraseInDisplay(s, n)) /\ Draws(s, eraseInLine(s, n))
           /\ Draws(s, eraseChars(s, n))
           /\ n = 2 => eraseInDisplay(s, n) # Panic
<1>1. s.cols = cols /\ s.rows = rows /\ s.cx \in Int /\ s.cy \in Int
  BY DEF IsScreen
<1>2. \A at, cell : (~Away(s) => at \subseteq (0..(rows - 1)) \X (0..(cols - 1)))
                      => Draws(s, Fill(s, at, cell))
  BY FillDraws
<1>3. Draws(s, s)
  BY DrawsInPlace
<1>4. ~Away(s) => s.cx \in 0..(cols - 1) /\ s.cy \in 0..(rows - 1)
  BY <1>1 DEF Away
<1>5. Draws(s, Fill(s, ({s.cy} \X (s.cx..(s.cols - 1)))
                        \cup RowsOf(s, (s.cy + 1)..(s.rows - 1)), penCell(s)))
  BY <1>1, <1>2, <1>4 DEF RowsOf
<1>6. Draws(s, Fill(s, RowsOf(s, 0..(s.cy - 1)) \cup ({s.cy} \X (0..s.cx)), penCell(s)))
  BY <1>1, <1>2, <1>4 DEF RowsOf
<1>7. Draws(s, Fill(s, RowsOf(s, 0..(s.rows - 1)), penCell(s)))
  BY <1>1, <1>2 DEF RowsOf
<1>8. Draws(s, eraseInDisplay(s, n))
  BY <1>3, <1>5, <1>6, <1>7, Zenon DEF eraseInDisplay
<1>9. /\ Draws(s, Fill(s, {s.cy} \X (s.cx..(s.cols - 1)), penCell(s)))
      /\ Draws(s, Fill(s, {s.cy} \X (0..s.cx), penCell(s)))
      /\ Draws(s, Fill(s, RowsOf(s, {s.cy}), penCell(s)))
  BY <1>1, <1>2, <1>4 DEF RowsOf
<1>10. Draws(s, eraseInLine(s, n))
  BY <1>3, <1>9, Zenon DEF eraseInLine
<1>11. Draws(s, eraseChars(s, n))
  <2>1. ~Away(s) => {s.cy} \X {x \in s.cx..(s.cols - 1) : x - s.cx < n}
                      \subseteq (0..(rows - 1)) \X (0..(cols - 1))
    BY <1>1, <1>4
  <2> QED BY <1>2, <2>1 DEF eraseChars
<1>12. ASSUME n = 2 PROVE eraseInDisplay(s, n) # Panic
  <2>1. eraseInDisplay(s, n) = Fill(s, RowsOf(s, 0..(s.rows - 1)), penCell(s))
    BY <1>12 DEF eraseInDisplay
  <2>2. RowsOf(s, 0..(s.rows - 1)) \subseteq (0..(s.rows - 1)) \X (0..(s.cols - 1))
    BY DEF RowsOf
  <2>3. Fill(s, RowsOf(s, 0..(s.rows - 1)), penCell(s)).cx = s.cx
    BY <2>2 DEF Fill, IsScreen, ScreenFields
  <2>4. Fill(s, RowsOf(s, 0..(s.rows - 1)), penCell(s)) # Panic
    BY <2>2 DEF Fill, IsScreen, ScreenFields, Panic
  <2> QED BY <2>1, <2>4
<1> QED BY <1>8, <1>10, <1>11, <1>12

\* A character is written; a pending wrap is done first.
LEMMA PrintDraws ==
    ASSUME NEW cols \in Nat \ {0}, NEW rows \in Nat \ {0}, NEW s, IsScreen(s, cols, rows), NEW r
    PROVE  Draws(s, printRune(s, r))
<1> DEFINE z == [s EXCEPT !.cx = 0]
           w == IF s.cx >= s.cols THEN lineFeed(z) ELSE s
           at == {<<w.cy, w.cx>>}
           f == Fill(w, at, [rune |-> r, pen |-> w.pen])
<1>1. /\ IsScreen(z, cols, rows) /\ z.cx = 0 /\ z.cy = s.cy /\ z.cols = s.cols /\ z.rows = s.rows
  BY DEF IsScreen, ScreenFields
<1>2. /\ IsScreen(w, cols, rows)
      /\ ~Away(s) => w = s
      /\ InGrid(s) => w.cx \in 0..(cols - 1) /\ w.cy \in 0..(rows - 1)
  <2>0. /\ s.cols = cols /\ s.rows = rows /\ s.cx \in Int /\ s.cy \in Int
    BY DEF IsScreen
  <2> HIDE DEF z
  <2>1. IsScreen(lineFeed(z), cols, rows)
    BY <1>1, FeedFits
  <2>2. lineFeed(z).cx = 0 /\ (InGrid(z) => InGrid(lineFeed(z)))
    BY <1>1, <2>1, FeedDraws, ScreenNoPanic DEF Draws
  <2>3. ~Away(s) => ~(s.cx >= s.cols)
    BY <2>0 DEF Away
  <2>4. InGrid(s) => InGrid(z)
    BY <1>1, <2>0 DEF InGrid
  <2>5. lineFeed(z).cols = cols /\ lineFeed(z).rows = rows
    BY <2>1 DEF IsScreen
  <2>6. CASE s.cx >= s.cols
    BY <2>0, <2>1, <2>2, <2>3, <2>4, <2>5, <2>6 DEF InGrid
  <2>7. CASE ~(s.cx >= s.cols)
    BY <2>0, <2>7 DEF InGrid
  <2> QED BY <2>6, <2>7
<1> HIDE DEF w, z
<1>3. Draws(w, f)
  <2>1. w.cols = cols /\ w.rows = rows
    BY <1>2 DEF IsScreen
  <2>2. ~Away(w) => at \subseteq (0..(rows - 1)) \X (0..(cols - 1))
    BY <2>1 DEF Away
  <2> HIDE DEF at
  <2> QED BY <1>2, <2>2, FillDraws
<1>4. /\ Yields(f, cols, rows)
      /\ f # Panic => f.cx = w.cx /\ at \subseteq (0..(rows - 1)) \X (0..(cols - 1))
  BY <1>2, FillFits
<1>5. f # Panic => f.cy = w.cy
  BY <1>2 DEF Fill, IsScreen, ScreenFields, Panic
<1> HIDE DEF f
<1>6. CASE f = Panic
  <2>1. Away(w)
    BY <1>3, <1>6 DEF Draws
  <2>2. printRune(s, r) = Panic
    BY <1>6 DEF printRune, f, w, z
  <2>3. Away(s)
    BY <1>2, <2>1
  <2> QED BY <2>2, <2>3 DEF Draws
<1>7. CASE f # Panic
  <2> DEFINE g == [f EXCEPT !.cx = @ + 1]
  <2>1. printRune(s, r) = g
    BY <1>7 DEF printRune, f, w, z
  <2>2. IsScreen(f, cols, rows)
    BY <1>4, <1>7 DEF Yields
  <2>3. IsScreen(g, cols, rows) /\ g.cx = f.cx + 1 /\ g.cy = f.cy
    BY <2>2 DEF IsScreen, ScreenFields
  <2>4. g.cols = cols /\ g.rows = rows
    BY <2>3 DEF IsScreen
  <2> HIDE DEF g
  <2>5. InGrid(s) => InGrid(g)
    BY <1>2, <1>4, <1>5, <1>7, <2>3, <2>4 DEF InGrid
  <2> QED BY <2>1, <2>3, <2>5, DrawsElsewhere
<1> QED BY <1>6, <1>7

\* Characters go into a row or out of it.
LEMMA CharsDraw ==
    ASSUME NEW cols \in Nat \ {0}, NEW rows \in Nat \ {0}, NEW s, IsScreen(s, cols, rows),
           NEW n \in Int
    PROVE  Draws(s, insertChars(s, n)) /\ Draws(s, deleteChars(s, n))
<1>1. s.cols = cols /\ s.rows = rows /\ s.cx \in Int /\ s.cy \in Int
  BY DEF IsScreen
<1>2. Draws(s, s)
  BY DrawsInPlace
<1>3. s.cy \notin 0..(s.rows - 1) \/ s.cx < 0 => Draws(s, Panic)
  BY <1>1 DEF Draws, Away
<1>4. ASSUME NEW r, DOMAIN r = 0..(s.cols - 1), s.cy \in 0..(s.rows - 1)
      PROVE  Draws(s, [s EXCEPT !.cells[s.cy] = r])
  <2> DEFINE t == [s EXCEPT !.cells[s.cy] = r]
  <2>1. IsScreen(t, cols, rows)
    BY <1>1, <1>4, RowFits
  <2>2. t.cx = s.cx /\ t.cy = s.cy
    BY DEF IsScreen, ScreenFields
  <2> HIDE DEF t
  <2>3. Draws(s, t)
    BY <2>1, <2>2, DrawsInPlace
  <2> QED BY <2>3 DEF t
<1>5. Draws(s, insertChars(s, n))
  BY <1>2, <1>3, <1>4 DEF insertChars, WithRow
<1>6. Draws(s, deleteChars(s, n))
  BY <1>2, <1>3, <1>4 DEF deleteChars, WithRow
<1> QED BY <1>5, <1>6

\* What a move adds to the cursor, or takes from it, is within Go's int.
Exact(s, n) ==
    n >= 0 /\ \A at \in {s.cx, s.cy} : Wrap(at + n) = at + n /\ Wrap(at - n) = at - n

\* CUU to CPL, the moves that clamp one side only.
Counted == {"A", "B", "C", "D", "E", "F"}

\* The other moves clamp both sides, or move by one.
LEMMA MovesDraw ==
    ASSUME NEW cols \in Nat \ {0}, NEW rows \in Nat \ {0}, NEW s, IsScreen(s, cols, rows),
           NEW n \in Int
    PROVE  /\ Draws(s, column(s, n)) /\ Draws(s, row(s, n)) /\ Draws(s, carriageReturn(s))
           /\ Draws(s, backspace(s)) /\ Draws(s, tab(s)) /\ InGrid(clampCursor(s))
<1>1. /\ s.cols = cols /\ s.rows = rows /\ s.cx \in Int /\ s.cy \in Int
      /\ "cx" \in DOMAIN s /\ "cy" \in DOMAIN s
  BY DEF IsScreen, ScreenFields
<1>2. ASSUME NEW v \in 0..cols
      PROVE  Draws(s, [s EXCEPT !.cx = v])
  <2> DEFINE t == [s EXCEPT !.cx = v]
  <2>0. v \in Int
    OBVIOUS
  <2>1. IsScreen(t, cols, rows)
    BY <2>0, CursorFits
  <2>2. t.cx = v /\ t.cy = s.cy /\ t.cols = cols /\ t.rows = rows
    BY <1>1 DEF IsScreen, ScreenFields
  <2> HIDE DEF t
  <2>3. InGrid(s) => InGrid(t)
    BY <1>1, <2>2 DEF InGrid
  <2>4. Draws(s, t)
    BY <2>1, <2>3, DrawsElsewhere
  <2> QED BY <2>4 DEF t
<1>3. ASSUME NEW v \in 0..(rows - 1)
      PROVE  Draws(s, [s EXCEPT !.cy = v])
  <2> DEFINE t == [s EXCEPT !.cy = v]
  <2>0. v \in Int
    OBVIOUS
  <2>1. IsScreen(t, cols, rows)
    BY <2>0, CursorFits
  <2>2. t.cx = s.cx /\ t.cy = v /\ t.cols = cols /\ t.rows = rows
    BY <1>1 DEF IsScreen, ScreenFields
  <2> HIDE DEF t
  <2>3. InGrid(s) => InGrid(t)
    BY <1>1, <2>2 DEF InGrid
  <2>4. Draws(s, t)
    BY <2>1, <2>3, DrawsElsewhere
  <2> QED BY <2>4 DEF t
<1>4. Draws(s, column(s, n)) /\ Draws(s, row(s, n))
  <2>1. Wrap(n - 1) \in Int
    BY WrapInt
  <2>2. Below(AtLeast0(Wrap(n - 1)), s.cols) \in 0..cols
    BY <1>1, <2>1 DEF Below, AtLeast0
  <2>3. Below(AtLeast0(Wrap(n - 1)), s.rows) \in 0..(rows - 1)
    BY <1>1, <2>1 DEF Below, AtLeast0
  <2> QED BY <1>2, <1>3, <2>2, <2>3 DEF column, row
<1>5. Draws(s, carriageReturn(s))
  BY <1>2 DEF carriageReturn
<1>6. Draws(s, backspace(s)) /\ Draws(s, tab(s))
  <2>1. IsScreen(backspace(s), cols, rows) /\ IsScreen(tab(s), cols, rows)
    BY MovesFit
  <2>2. /\ backspace(s).cy = s.cy /\ backspace(s).cx = IF s.cx > 0 THEN s.cx - 1 ELSE s.cx
        /\ backspace(s).cols = cols /\ backspace(s).rows = rows
    BY <1>1, <2>1 DEF backspace, IsScreen, ScreenFields
  <2>3. InGrid(s) => InGrid(backspace(s))
    BY <1>1, <2>2 DEF InGrid
  <2>4. ASSUME InGrid(s) PROVE InGrid(tab(s))
    <3>1. tab(s) = [s EXCEPT !.cx = Below((s.cx \div 8 + 1) * 8, s.cols)]
      BY <1>1, <2>4 DEF tab, InGrid
    <3>2. s.cx \div 8 \in Nat
      BY <1>1, <2>4 DEF InGrid
    <3>3. Below((s.cx \div 8 + 1) * 8, s.cols) \in 0..cols
      BY <1>1, <3>2 DEF Below
    <3>4. tab(s).cx \in 0..cols /\ tab(s).cy = s.cy /\ tab(s).cols = cols /\ tab(s).rows = rows
      BY <1>1, <3>1, <3>3 DEF IsScreen, ScreenFields
    <3> QED BY <1>1, <2>4, <3>4 DEF InGrid
  <2> QED BY <2>1, <2>3, <2>4, DrawsElsewhere
<1>7. InGrid(clampCursor(s))
  <2>1. /\ AtLeast0(Below(s.cx, s.cols)) \in 0..cols
        /\ AtLeast0(Below(s.cy, s.rows)) \in 0..(rows - 1)
    BY <1>1 DEF AtLeast0, Below
  <2>2. /\ clampCursor(s).cx = AtLeast0(Below(s.cx, s.cols))
        /\ clampCursor(s).cy = AtLeast0(Below(s.cy, s.rows))
        /\ clampCursor(s).cols = cols /\ clampCursor(s).rows = rows
    BY <1>1 DEF clampCursor, IsScreen, ScreenFields
  <2> QED BY <2>1, <2>2 DEF InGrid
<1> QED BY <1>4, <1>5, <1>6, <1>7

\* A counted move that is exact stays in the grid; none panics.
LEMMA CountedDraw ==
    ASSUME NEW cols \in Nat \ {0}, NEW rows \in Nat \ {0}, NEW s, IsScreen(s, cols, rows),
           NEW n \in Int, Exact(s, n)
    PROVE  /\ Draws(s, up(s, n)) /\ Draws(s, down(s, n))
           /\ Draws(s, forward(s, n)) /\ Draws(s, back(s, n))
<1>1. /\ s.cols = cols /\ s.rows = rows /\ s.cx \in Int /\ s.cy \in Int
      /\ "cx" \in DOMAIN s /\ "cy" \in DOMAIN s /\ n >= 0
  BY DEF IsScreen, ScreenFields, Exact
<1>2. /\ Wrap(s.cx + n) = s.cx + n /\ Wrap(s.cx - n) = s.cx - n
      /\ Wrap(s.cy + n) = s.cy + n /\ Wrap(s.cy - n) = s.cy - n
  BY DEF Exact
<1>3. /\ IsScreen(up(s, n), cols, rows) /\ IsScreen(down(s, n), cols, rows)
      /\ IsScreen(forward(s, n), cols, rows) /\ IsScreen(back(s, n), cols, rows)
  BY MovesFit
<1>4. /\ up(s, n).cx = s.cx /\ up(s, n).cy = AtLeast0(s.cy - n)
      /\ down(s, n).cx = s.cx /\ down(s, n).cy = Below(s.cy + n, rows)
      /\ forward(s, n).cx = Below(s.cx + n, cols) /\ forward(s, n).cy = s.cy
      /\ back(s, n).cx = AtLeast0(s.cx - n) /\ back(s, n).cy = s.cy
  BY <1>1, <1>2 DEF up, down, forward, back
<1>5. /\ up(s, n).cols = cols /\ down(s, n).cols = cols /\ forward(s, n).cols = cols
      /\ back(s, n).cols = cols /\ up(s, n).rows = rows /\ down(s, n).rows = rows
      /\ forward(s, n).rows = rows /\ back(s, n).rows = rows
  BY <1>3 DEF IsScreen
<1>6. ASSUME InGrid(s) PROVE InGrid(up(s, n)) /\ InGrid(down(s, n))
  BY <1>1, <1>4, <1>5, <1>6 DEF InGrid, AtLeast0, Below
<1>7. ASSUME InGrid(s) PROVE InGrid(forward(s, n)) /\ InGrid(back(s, n))
  BY <1>1, <1>4, <1>5, <1>7 DEF InGrid, AtLeast0, Below
<1> QED BY <1>3, <1>6, <1>7, DrawsElsewhere

\* One move after another.
LEMMA DrawsBoth ==
    ASSUME NEW s, NEW t, NEW u, t # Panic, u # Panic, Draws(s, t), Draws(t, u)
    PROVE  Draws(s, u)
  BY DEF Draws

\* The scroll region takes the cursor home.
LEMMA RegionDraws ==
    ASSUME NEW cols \in Nat \ {0}, NEW rows \in Nat \ {0}, NEW s, IsScreen(s, cols, rows),
           NEW first \in Int, NEW last \in Int, setRegion(s, first, last) # Refused
    PROVE  Draws(s, setRegion(s, first, last))
<1> DEFINE t == setRegion(s, first, last)
<1>1. IsScreen(t, cols, rows)
  BY RegionSet
<1>2. t.cx = 0 /\ t.cy = 0 /\ t.cols = cols /\ t.rows = rows
  BY DEF setRegion, IsScreen, ScreenFields
<1> HIDE DEF t
<1>3. InGrid(t)
  BY <1>2 DEF InGrid
<1>4. Draws(s, t)
  BY <1>1, <1>3, DrawsElsewhere
<1> QED BY <1>4 DEF t

\* The control sequences that draw, when a counted move is exact.
LEMMA CSIDraws ==
    ASSUME NEW cols \in Nat \ {0}, NEW rows \in Nat \ {0}, NEW s, IsScreen(s, cols, rows),
           NEW final \in Drawing, NEW ps \in Seq(Int)
    PROVE  /\ DrawCSI(s, final, ps) = Panic => Away(s)
           /\ (final \in Counted => Exact(s, Param(ps, 1, 1))) => Draws(s, DrawCSI(s, final, ps))
<1> DEFINE n == Param(ps, 1, 1)
           m == Param(ps, 2, 1)
           d == DrawCSI(s, final, ps)
<1>1. n \in Int /\ m \in Int /\ Mode(ps) \in Int
  BY DEF Param, Mode
<1> HIDE DEF n, m
<1>2. CASE final \in Counted
  <2>1. /\ IsScreen(up(s, n), cols, rows) /\ IsScreen(down(s, n), cols, rows)
        /\ IsScreen(forward(s, n), cols, rows) /\ IsScreen(back(s, n), cols, rows)
    BY <1>1, MovesFit
  <2>2. /\ IsScreen(carriageReturn(down(s, n)), cols, rows)
        /\ IsScreen(carriageReturn(up(s, n)), cols, rows)
    BY <2>1, MovesFit
  <2>3. \/ d \in {up(s, n), down(s, n), forward(s, n), back(s, n)}
        \/ d \in {carriageReturn(down(s, n)), carriageReturn(up(s, n))}
    BY <1>2 DEF DrawCSI, Counted, n
  <2>4. d # Panic
    BY <2>1, <2>2, <2>3, ScreenNoPanic
  <2>5. ASSUME Exact(s, n) PROVE Draws(s, d)
    <3>1. /\ Draws(s, up(s, n)) /\ Draws(s, down(s, n))
          /\ Draws(s, forward(s, n)) /\ Draws(s, back(s, n))
      BY <1>1, <2>5, CountedDraw
    <3>2. /\ Draws(up(s, n), carriageReturn(up(s, n)))
          /\ Draws(down(s, n), carriageReturn(down(s, n)))
      BY <1>1, <2>1, MovesDraw
    <3>3. /\ Draws(s, carriageReturn(up(s, n))) /\ Draws(s, carriageReturn(down(s, n)))
      BY <2>1, <2>2, <3>1, <3>2, DrawsBoth, ScreenNoPanic
    <3> HIDE DEF d
    <3> QED BY <2>3, <3>1, <3>3
  <2> QED BY <1>2, <2>4, <2>5 DEF n
<1>3. CASE final \notin Counted
  <2>1. /\ IsScreen(row(s, n), cols, rows) /\ IsScreen(column(row(s, n), m), cols, rows)
    BY <1>1, MovesFit
  <2>2. /\ Draws(s, column(s, n)) /\ Draws(s, row(s, n)) /\ Draws(row(s, n), column(row(s, n), m))
    BY <1>1, <2>1, MovesDraw
  <2>3. Draws(s, column(row(s, n), m))
    BY <2>1, <2>2, DrawsBoth, ScreenNoPanic
  <2>4. /\ Draws(s, eraseInDisplay(s, Mode(ps))) /\ Draws(s, eraseInLine(s, Mode(ps)))
        /\ Draws(s, eraseChars(s, n))
    BY <1>1, ErasuresDraw
  <2>5. /\ Draws(s, scrollUp(s, RegionTop(s), RegionBot(s), n))
        /\ Draws(s, scrollDown(s, RegionTop(s), RegionBot(s), n))
        /\ Draws(s, insertLines(s, n)) /\ Draws(s, deleteLines(s, n))
    BY <1>1, LinesDraw
  <2>6. Draws(s, d)
    BY <1>3, <2>2, <2>3, <2>4, <2>5 DEF DrawCSI, Drawing, Counted, n, m
  <2>7. d = Panic => Away(s)
    BY <2>6 DEF Draws
  <2> HIDE DEF d
  <2>8. (d = Panic => Away(s)) /\ Draws(s, d)
    BY <2>6, <2>7
  <2> QED BY <2>8 DEF d
<1> QED BY <1>2, <1>3

-----------------------------------------------------------------------------
(* The emulator: both cursors, and the hidden screen.                      *)

Placed(e) == \A n \in Names : InGrid(e.scr[n])

\* What an operation may do to an emulator that has not panicked: it panics
\* only with the cursor away, and while the alternate screen is on it leaves
\* the primary one and its saved cursor, or resets it.
Hides(e, f) ==
    /\ f.saved.primary = e.saved.primary
    /\ f.scr.primary \in {e.scr.primary, newScreen(e.cols, e.rows)}
Safe(e, f) ==
    /\ f.panicked => Away(Cur(f))
    /\ e.useAlt /\ f.useAlt => Hides(e, f)
Lands(e, f) == Placed(e) => Placed(f)

\* Nothing happens.
LEMMA SafeSelf == ASSUME NEW e, ~e.panicked PROVE Safe(e, e) /\ Lands(e, e)
  BY DEF Safe, Hides, Lands

\* A screen is put back, or its panic recorded.
LEMMA PutSafe ==
    ASSUME NEW e, Fits(e), ~e.panicked, NEW s, Yields(s, e.cols, e.rows),
           s = Panic => Away(Cur(e))
    PROVE  /\ Safe(e, Put(e, s)) /\ Safe(e, Draw(e, s))
           /\ Draws(Cur(e), s) => Lands(e, Put(e, s)) /\ Lands(e, Draw(e, s))
           /\ Put(e, s).useAlt = e.useAlt /\ Draw(e, s).useAlt = e.useAlt
           /\ s # Panic => ~Put(e, s).panicked /\ ~Draw(e, s).panicked
<1> DEFINE f == Put(e, s)
           g == Draw(e, s)
<1>1. CASE s = Panic
  <2>1. /\ f.panicked = TRUE /\ f.scr = e.scr /\ f.saved = e.saved /\ f.useAlt = e.useAlt
    BY <1>1 DEF Put, Fits, EmFields
  <2>2. /\ g.panicked = TRUE /\ g.scr = e.scr /\ g.saved = e.saved /\ g.useAlt = e.useAlt
    BY <1>1 DEF Draw, Mark, Put, Fits, EmFields
  <2> HIDE DEF f, g
  <2>3. Cur(f) = Cur(e) /\ Cur(g) = Cur(e)
    BY <2>1, <2>2 DEF Cur, On
  <2>4. Safe(e, f) /\ Safe(e, g) /\ Lands(e, f) /\ Lands(e, g)
    BY <1>1, <2>1, <2>2, <2>3 DEF Safe, Hides, Lands, Placed
  <2> QED BY <1>1, <2>1, <2>2, <2>4 DEF f, g
<1>2. CASE s # Panic
  <2>1. /\ f.panicked = FALSE /\ f.scr = [e.scr EXCEPT ![On(e)] = s]
        /\ f.saved = e.saved /\ f.useAlt = e.useAlt
    BY <1>2 DEF Put, Fits, EmFields
  <2>2. /\ g.panicked = FALSE /\ g.scr = [e.scr EXCEPT ![On(e)] = s]
        /\ g.saved = e.saved /\ g.useAlt = e.useAlt
    BY <1>2 DEF Draw, Mark, Put, Fits, EmFields
  <2> HIDE DEF f, g
  <2>3. e.useAlt => f.scr.primary = e.scr.primary /\ g.scr.primary = e.scr.primary
    BY <2>1, <2>2 DEF On, Fits, Names
  <2>4. Safe(e, f) /\ Safe(e, g)
    BY <2>1, <2>2, <2>3 DEF Safe, Hides
  <2>5. ASSUME Draws(Cur(e), s), Placed(e) PROVE Placed(f) /\ Placed(g)
    <3>1. \A n \in Names : /\ f.scr[n] = IF n = On(e) THEN s ELSE e.scr[n]
                           /\ g.scr[n] = IF n = On(e) THEN s ELSE e.scr[n]
      BY <2>1, <2>2 DEF Fits
    <3>2. InGrid(Cur(e))
      BY <2>5, CurFits DEF Placed
    <3>3. InGrid(s)
      BY <1>2, <2>5, <3>2 DEF Draws
    <3> QED BY <2>5, <3>1, <3>3 DEF Placed
  <2> QED BY <2>1, <2>2, <2>4, <2>5 DEF Lands, f, g
<1> QED BY <1>1, <1>2

\* A screen that an operation draws.
LEMMA DrawSafe ==
    ASSUME NEW e, Fits(e), ~e.panicked, NEW s, Yields(s, e.cols, e.rows), Draws(Cur(e), s)
    PROVE  Safe(e, Draw(e, s)) /\ Lands(e, Draw(e, s)) /\ Safe(e, Put(e, s)) /\ Lands(e, Put(e, s))
  BY PutSafe DEF Draws

\* Each screen has its own saved cursor.
LEMMA SaveSafe ==
    ASSUME NEW e, Fits(e), ~e.panicked
    PROVE  /\ Safe(e, saveCursor(e)) /\ Lands(e, saveCursor(e))
           /\ saveCursor(e).useAlt = e.useAlt /\ ~saveCursor(e).panicked
<1> DEFINE c == [cx |-> Cur(e).cx, cy |-> Cur(e).cy, pen |-> Cur(e).pen]
           f == saveCursor(e)
<1>1. /\ f.saved = [e.saved EXCEPT ![On(e)] = c]
      /\ \A x \in EmFields \ {"saved"} : f[x] = e[x]
  BY DEF saveCursor, Fits, EmFields
<1> HIDE DEF f, c
<1>2. f.scr = e.scr /\ f.useAlt = e.useAlt /\ f.panicked = e.panicked
  BY <1>1 DEF EmFields
<1>3. e.useAlt => f.saved.primary = e.saved.primary
  BY <1>1 DEF On, Fits, Names
<1> QED BY <1>2, <1>3 DEF Safe, Hides, Lands, Placed, f

\* What is restored is clamped, whatever was saved.
LEMMA RestoreSafe ==
    ASSUME NEW e, Fits(e), ~e.panicked
    PROVE  /\ Safe(e, restoreCursor(e)) /\ Lands(e, restoreCursor(e))
           /\ restoreCursor(e).useAlt = e.useAlt /\ ~restoreCursor(e).panicked
<1> DEFINE c == e.saved[On(e)]
           s == [Cur(e) EXCEPT !.cx = c.cx, !.cy = c.cy, !.pen = c.pen]
<1>1. IsScreen(s, e.cols, e.rows)
  <2>1. c.cx \in Int /\ c.cy \in Int
    BY CurFits DEF Fits
  <2> HIDE DEF c
  <2> QED BY <2>1, CurFits DEF IsScreen, ScreenFields
<1> HIDE DEF s
<1>2. e.cols \in Nat \ {0} /\ e.rows \in Nat \ {0}
  BY DEF Fits
<1>3. IsScreen(clampCursor(s), e.cols, e.rows) /\ InGrid(clampCursor(s))
  <2>1. 1 \in Int
    OBVIOUS
  <2> QED BY <1>1, <1>2, <2>1, MovesFit, MovesDraw
<1>4. /\ clampCursor(s) # Panic /\ Draws(Cur(e), clampCursor(s))
      /\ Yields(clampCursor(s), e.cols, e.rows)
  BY <1>3, ScreenNoPanic DEF Draws, Yields
<1> QED BY <1>4, PutSafe DEF restoreCursor, s

\* A switch of the screen moves no cursor.
LEMMA SwitchSafe ==
    ASSUME NEW e, Fits(e), ~e.panicked, NEW alt \in BOOLEAN
    PROVE  /\ Safe(e, switchAltScreen(e, alt)) /\ Lands(e, switchAltScreen(e, alt))
           /\ switchAltScreen(e, alt).useAlt = alt /\ ~switchAltScreen(e, alt).panicked
<1> DEFINE f == switchAltScreen(e, alt)
<1>1. f.scr = e.scr /\ f.saved = e.saved /\ f.useAlt = alt /\ f.panicked = e.panicked
  BY DEF switchAltScreen, Mark, Fits, EmFields
<1> HIDE DEF f
<1> QED BY <1>1 DEF Safe, Hides, Lands, Placed, f

\* RIS takes both cursors home.
LEMMA ResetSafe ==
    ASSUME NEW e, Fits(e), ~e.panicked
    PROVE  Safe(e, hardReset(e)) /\ Lands(e, hardReset(e))
<1> DEFINE f == hardReset(e)
           n == newScreen(e.cols, e.rows)
<1>1. /\ f.scr = [primary |-> n, alt |-> n] /\ f.saved = e.saved
      /\ f.useAlt = e.useAlt /\ f.panicked = e.panicked
  BY DEF hardReset, Fits, EmFields
<1>2. InGrid(n)
  BY DEF newScreen, InGrid, Fits
<1> HIDE DEF f
<1>3. Safe(e, f)
  BY <1>1 DEF Safe, Hides
<1> HIDE DEF n
<1>4. Placed(f)
  BY <1>1, <1>2 DEF Placed, Names
<1> QED BY <1>3, <1>4 DEF Lands, f

\* No mode panics, and one that is set never turns the alternate screen off,
\* nor one that is reset turns it on.
ModeKeeps(e, f, set) ==
    /\ ~f.panicked /\ Lands(e, f)
    /\ IF set THEN e.useAlt => f.useAlt ELSE f.useAlt => e.useAlt
    /\ e.useAlt /\ f.useAlt => Hides(e, f)

\* Modes keep all this, one after another.
LEMMA ModeKeepsBoth ==
    ASSUME NEW e, NEW f, NEW g, NEW set \in BOOLEAN, f.cols = e.cols, f.rows = e.rows,
           ModeKeeps(e, f, set), ModeKeeps(f, g, set)
    PROVE  ModeKeeps(e, g, set)
<1>1. e.useAlt /\ g.useAlt => f.useAlt
  BY DEF ModeKeeps
<1>2. e.useAlt /\ g.useAlt => Hides(e, g)
  BY <1>1 DEF ModeKeeps, Hides
<1> QED BY <1>2 DEF ModeKeeps, Lands

\* One DEC private mode.
LEMMA ModeSafe ==
    ASSUME NEW e, Fits(e), ~e.panicked, NEW mode \in Int, NEW set \in BOOLEAN
    PROVE  ModeKeeps(e, setDecMode(e, mode, set), set)
<1>1. ModeKeeps(e, Mark([e EXCEPT !.visible = set]), set)
  <2> DEFINE f == Mark([e EXCEPT !.visible = set])
  <2>1. f.scr = e.scr /\ f.saved = e.saved /\ f.useAlt = e.useAlt /\ f.panicked = e.panicked
    BY DEF Mark, Fits, EmFields
  <2> HIDE DEF f
  <2> QED BY <2>1 DEF ModeKeeps, Lands, Placed, Hides, f
<1>2. ModeKeeps(e, switchAltScreen(e, set), set)
  BY SwitchSafe DEF ModeKeeps, Safe
<1>3. ASSUME set = TRUE
      PROVE  LET a == switchAltScreen(saveCursor(e), TRUE)
             IN  ModeKeeps(e, Draw(a, eraseInDisplay(Cur(a), 2)), set)
  <2> DEFINE b == saveCursor(e)
             a == switchAltScreen(b, TRUE)
             s == eraseInDisplay(Cur(a), 2)
  <2>1. Fits(b) /\ b.cols = e.cols /\ b.rows = e.rows /\ ModeKeeps(e, b, set)
    BY SaveSafe, SaveFollows DEF Follows, ModeKeeps, Safe
  <2> HIDE DEF b
  <2>2. /\ Fits(a) /\ a.cols = e.cols /\ a.rows = e.rows
        /\ ModeKeeps(b, a, set) /\ ~a.panicked
    <3>1. ~b.panicked /\ TRUE \in BOOLEAN
      BY <2>1 DEF ModeKeeps
    <3>2. Follows(b, a)
      BY <2>1, <3>1, SwitchFollows
    <3> QED BY <1>3, <2>1, <3>1, <3>2, SwitchSafe DEF Follows, ModeKeeps, Safe
  <2> HIDE DEF a
  <2>3. ModeKeeps(e, a, set)
    BY <2>1, <2>2, ModeKeepsBoth
  <2>4. Yields(s, a.cols, a.rows) /\ Draws(Cur(a), s) /\ s # Panic
    <3>1. /\ IsScreen(Cur(a), a.cols, a.rows) /\ 2 \in Int
          /\ a.cols \in Nat \ {0} /\ a.rows \in Nat \ {0}
      BY <2>2, CurFits DEF Fits
    <3> QED BY <3>1, ErasuresFit, ErasuresDraw
  <2> HIDE DEF s
  <2>5. ModeKeeps(a, Draw(a, s), set)
    BY <1>3, <2>2, <2>4, PutSafe DEF ModeKeeps, Safe
  <2>6. ModeKeeps(e, Draw(a, s), set)
    BY <2>2, <2>3, <2>5, ModeKeepsBoth
  <2> QED BY <2>6 DEF a, b, s
<1>4. ASSUME set = FALSE
      PROVE  ModeKeeps(e, restoreCursor(switchAltScreen(e, FALSE)), set)
  <2> DEFINE a == switchAltScreen(e, FALSE)
  <2>1. /\ Fits(a) /\ a.cols = e.cols /\ a.rows = e.rows
        /\ ModeKeeps(e, a, set) /\ ~a.panicked
    BY <1>4, SwitchFollows, SwitchSafe DEF Follows, ModeKeeps, Safe
  <2> HIDE DEF a
  <2>2. ModeKeeps(a, restoreCursor(a), set)
    BY <2>1, RestoreSafe DEF ModeKeeps, Safe
  <2>3. ModeKeeps(e, restoreCursor(a), set)
    BY <2>1, <2>2, ModeKeepsBoth
  <2> QED BY <2>3 DEF a
<1>5. ModeKeeps(e, e, set)
  BY DEF ModeKeeps, Lands, Hides
<1>6. CASE mode = 25
  <2>1. setDecMode(e, mode, set) = Mark([e EXCEPT !.visible = set])
    BY <1>6 DEF setDecMode
  <2> QED BY <1>1, <2>1
<1>7. CASE mode \in {47, 1047}
  <2>0. mode # 25 /\ mode # 1049
    BY <1>7
  <2>1. setDecMode(e, mode, set) = switchAltScreen(e, set)
    BY <2>0, <1>7, ZenonT(40) DEF setDecMode
  <2> QED BY <1>2, <2>1
<1>8. CASE mode = 1049 /\ set
  <2>1. setDecMode(e, mode, set) = LET a == switchAltScreen(saveCursor(e), TRUE)
                                   IN  Draw(a, eraseInDisplay(Cur(a), 2))
    BY <1>8 DEF setDecMode
  <2>2. set = TRUE
    BY <1>8
  <2> QED BY <1>3, <2>1, <2>2
<1>9. CASE mode = 1049 /\ ~set
  <2>1. setDecMode(e, mode, set) = restoreCursor(switchAltScreen(e, FALSE))
    BY <1>9 DEF setDecMode
  <2>2. set = FALSE
    BY <1>9
  <2> QED BY <1>4, <2>1, <2>2
<1>10. CASE mode \notin {25, 47, 1047, 1049}
  <2>0. mode # 25 /\ mode \notin {47, 1047} /\ mode # 1049
    BY <1>10
  <2>1. setDecMode(e, mode, set) = e
    BY <2>0, ZenonT(40) DEF setDecMode
  <2> QED BY <1>5, <2>1
<1> QED BY <1>6, <1>7, <1>8, <1>9, <1>10

\* A mode sequence.
LEMMA ModesSafe ==
    ASSUME NEW e, Fits(e), ~e.panicked, NEW ps \in Seq(Int), NEW set \in BOOLEAN
    PROVE  Safe(e, ModesSet(e, ps, set)) /\ Lands(e, ModesSet(e, ps, set))
<1> DEFINE n == Len(ps)
           Keeps(f) == Follows(e, f) /\ ModeKeeps(e, f, set)
<1>1. n \in Nat /\ DOMAIN ps = 1..n /\ \A i \in 1..n : ps[i] \in Int
  OBVIOUS
<1> HIDE DEF n
<1>2. PICK it : IsFold("mode", set, e, ps, it) /\ ModesSet(e, ps, set) = it[DOMAIN ps]
  BY <1>1, ModesFold
<1>0. Keeps(e)
  BY FollowsSelf DEF ModeKeeps, Lands, Hides
<1>7. ASSUME NEW f, Keeps(f), NEW m \in Int PROVE Keeps(setDecMode(f, m, set))
  <2>1. Fits(f) /\ ~f.panicked /\ f.cols = e.cols /\ f.rows = e.rows
    BY <1>7 DEF Follows, ModeKeeps
  <2>2. Follows(f, setDecMode(f, m, set)) /\ ModeKeeps(f, setDecMode(f, m, set), set)
    BY <1>7, <2>1, ModeFollows, ModeSafe
  <2> QED BY <1>7, <2>1, <2>2, FollowsBoth, ModeKeepsBoth
<1> HIDE DEF Keeps
<1> DEFINE T == {S \in SUBSET DOMAIN ps : Keeps(it[S])}
<1>3. ASSUME NEW S \in SUBSET DOMAIN ps, \A x \in S : S \ {x} \in T PROVE S \in T
  <2>1. it[S] = FoldAt("mode", set, e, ps, it, S)
    BY <1>2 DEF IsFold
  <2>2. CASE S = {}
    BY <2>1, <2>2, <1>0 DEF FoldAt
  <2>3. CASE S # {}
    <3> DEFINE x == Max(S)
    <3>1. x \in S /\ ps[x] \in Int
      BY <1>1, <2>3, MaxIn
    <3>2. it[S] = setDecMode(it[S \ {x}], ps[x], set)
      BY <2>1, <2>3 DEF FoldAt, Step
    <3>3. Keeps(it[S \ {x}])
      BY <1>3, <3>1
    <3>4. Keeps(it[S])
      BY <1>7, <3>1, <3>2, <3>3
    <3> QED BY <3>4
  <2> QED BY <2>2, <2>3
<1> HIDE DEF T
<1>4. \A S \in SUBSET DOMAIN ps : S \in T
  <2>1. IsFiniteSet(DOMAIN ps)
    BY <1>1, FS_Interval
  <2> QED BY <1>3, <2>1, RemovalInduction
<1>5. Keeps(ModesSet(e, ps, set))
  BY <1>2, <1>4 DEF T
<1> QED BY <1>5 DEF Keeps, ModeKeeps, Safe

-----------------------------------------------------------------------------
(* dispatch and Write.                                                     *)

\* Two emulators that differ in the bytes they keep only.
Alike(e, f) ==
    /\ e.scr = f.scr /\ e.saved = f.saved /\ e.useAlt = f.useAlt /\ e.panicked = f.panicked
    /\ e.cols = f.cols /\ e.rows = f.rows

\* They are the same to Safe and Lands.
LEMMA AlikeSafe ==
    ASSUME NEW e, NEW f, NEW g, NEW h, Alike(e, f), Alike(g, h)
    PROVE  /\ Safe(e, g) => Safe(f, h)
           /\ Lands(e, g) => Lands(f, h)
  BY DEF Alike, Safe, Hides, Lands, Placed, Cur, On

\* Control characters.
LEMMA C0Safe ==
    ASSUME NEW e, Fits(e), ~e.panicked, NEW b
    PROVE  Safe(e, executeC0(e, b)) /\ Lands(e, executeC0(e, b))
<1> DEFINE s == Cur(e)
           Good(f) == Safe(e, f) /\ Lands(e, f)
<1>1. IsScreen(s, e.cols, e.rows) /\ e.cols \in Nat \ {0} /\ e.rows \in Nat \ {0} /\ 0 \in Int
  BY CurFits DEF Fits
<1> HIDE DEF s
<1>2. /\ Yields(carriageReturn(s), e.cols, e.rows) /\ Yields(tab(s), e.cols, e.rows)
      /\ Yields(backspace(s), e.cols, e.rows) /\ Yields(lineFeed(s), e.cols, e.rows)
  BY <1>1, MovesFit, FeedFits DEF Yields
<1>3. /\ Draws(s, carriageReturn(s)) /\ Draws(s, tab(s)) /\ Draws(s, backspace(s))
      /\ Draws(s, lineFeed(s))
  BY <1>1, MovesDraw, FeedDraws
<1>4. /\ Good(Draw(e, carriageReturn(s))) /\ Good(Draw(e, tab(s))) /\ Good(Draw(e, backspace(s)))
      /\ Good(Draw(e, lineFeed(s))) /\ Good(e)
  BY <1>2, <1>3, DrawSafe, SafeSelf DEF s
<1> HIDE DEF Good
<1>5. Good(executeC0(e, b))
  BY <1>4, Zenon DEF executeC0, s
<1> QED BY <1>5 DEF Good

\* Escape sequences.
LEMMA ESCSafe ==
    ASSUME NEW e, Fits(e), ~e.panicked, NEW final
    PROVE  Safe(e, dispatchESC(e, final)) /\ Lands(e, dispatchESC(e, final))
<1> DEFINE Good(f) == Safe(e, f) /\ Lands(e, f)
<1>1. /\ Yields(reverseIndex(Cur(e)), e.cols, e.rows) /\ Draws(Cur(e), reverseIndex(Cur(e)))
  BY CurFits, FeedFits, FeedDraws DEF Fits, Yields
<1>2. /\ Good(Draw(e, reverseIndex(Cur(e)))) /\ Good(saveCursor(e)) /\ Good(restoreCursor(e))
      /\ Good(hardReset(e)) /\ Good(e)
  BY <1>1, DrawSafe, SaveSafe, RestoreSafe, ResetSafe, SafeSelf
<1> HIDE DEF Good
<1>3. Good(dispatchESC(e, final))
  BY <1>2, Zenon DEF dispatchESC
<1> QED BY <1>3 DEF Good

\* Control sequences.
LEMMA CSISafe ==
    ASSUME NEW e, Fits(e), ~e.panicked, NEW final, NEW ps \in Seq(Int), NEW inter
    PROVE  /\ Safe(e, dispatchCSI(e, final, ps, inter))
           /\ (inter = <<>> /\ final \in Counted => Exact(Cur(e), Param(ps, 1, 1)))
                => Lands(e, dispatchCSI(e, final, ps, inter))
<1> DEFINE s == Cur(e)
           n == Param(ps, 1, 1)
           region == setRegion(s, n, Param(ps, 2, s.rows))
           decMode(x, m) == setDecMode(x, m, final = "h")
           drawn == DrawCSI(s, final, ps)
           Fine == final \in Counted => Exact(s, n)
           Good(f) == Safe(e, f) /\ Lands(e, f)
<1>0. IsScreen(s, e.cols, e.rows) /\ e.cols \in Nat \ {0} /\ e.rows \in Nat \ {0}
  BY CurFits DEF Fits
<1>1. n \in Int /\ Param(ps, 2, s.rows) \in Int
  <2>1. s.rows \in Int
    BY <1>0 DEF IsScreen
  <2> QED BY <2>1 DEF Param
<1>2. ASSUME final \in Drawing
      PROVE  Safe(e, Draw(e, drawn)) /\ (Fine => Lands(e, Draw(e, drawn)))
  <2>1. /\ Yields(drawn, e.cols, e.rows)
        /\ drawn = Panic => Away(s)
    BY <1>0, <1>2, DrawCSIFits, CSIDraws
  <2>2. Fine => Draws(s, drawn)
    BY <1>0, <1>2, CSIDraws
  <2> HIDE DEF drawn, Fine
  <2> QED BY <2>1, <2>2, PutSafe DEF drawn
<1> HIDE DEF n
<1>3. Good(Draw(e, deleteChars(s, n))) /\ Good(Draw(e, insertChars(s, n)))
  BY <1>0, <1>1, CharsFit, CharsDraw, DrawSafe
<1>4. Good(Put(e, [s EXCEPT !.pen = applySGR(@, ps)]))
  <2> DEFINE t == [s EXCEPT !.pen = applySGR(@, ps)]
  <2>1. IsScreen(t, e.cols, e.rows) /\ t.cx = s.cx /\ t.cy = s.cy
    BY <1>0 DEF IsScreen, ScreenFields
  <2> HIDE DEF t
  <2>2. Draws(s, t) /\ Yields(t, e.cols, e.rows)
    BY <1>0, <2>1, DrawsInPlace DEF Yields
  <2>3. Good(Put(e, t))
    BY <2>2, DrawSafe
  <2> QED BY <2>3 DEF t
<1>5. ASSUME region # Refused PROVE Good(Draw(e, region))
  BY <1>0, <1>1, <1>5, RegionSet, RegionDraws, DrawSafe DEF Yields
<1>6. Good(saveCursor(e)) /\ Good(restoreCursor(e)) /\ Good(e)
  BY SaveSafe, RestoreSafe, SafeSelf
<1>7. Good(FoldLeft(decMode, e, ps))
  <2>1. (final = "h") \in BOOLEAN
    OBVIOUS
  <2>2. Good(ModesSet(e, ps, final = "h"))
    BY <2>1, ModesSafe
  <2>3. FoldLeft(decMode, e, ps) = ModesSet(e, ps, final = "h")
    BY DEF ModesSet, FoldLeft, MapThenFoldSet
  <2> QED BY <2>2, <2>3
<1>8. CASE inter = <<>> /\ final \in Drawing
  <2>1. dispatchCSI(e, final, ps, inter) = Draw(e, drawn)
    BY <1>8 DEF dispatchCSI, Drawing
  <2> QED BY <1>2, <1>8, <2>1 DEF n
<1>9. CASE ~(inter = <<>> /\ final \in Drawing)
  <2> HIDE DEF Good
  <2>1. Good(dispatchCSI(e, final, ps, inter))
    BY <1>3, <1>4, <1>5, <1>6, <1>7, <1>9, Zenon DEF dispatchCSI, n
  <2> QED BY <2>1 DEF Good
<1> QED BY <1>8, <1>9

\* Shell marks.
LEMMA OSCSafe ==
    ASSUME NEW e, Fits(e), ~e.panicked, NEW payload
    PROVE  Safe(e, handleOSC(e, payload)) /\ Lands(e, handleOSC(e, payload))
<1> DEFINE Good(f) == Safe(e, f) /\ Lands(e, f)
<1>1. ASSUME NEW x PROVE Good([e EXCEPT !.prompt = x])
  <2>1. Alike(e, [e EXCEPT !.prompt = x]) /\ Alike(e, e)
    BY DEF Alike, Fits, EmFields
  <2> QED BY <2>1, AlikeSafe, SafeSelf
<1>2. Good(e)
  BY SafeSelf
<1> HIDE DEF Good
<1>3. Good(handleOSC(e, payload))
  BY <1>1, <1>2, Zenon DEF handleOSC
<1> QED BY <1>3 DEF Good

CountedMove(a) == a.kind = "csi" /\ a.inter = <<>> /\ a.final \in Counted

\* Every action of the parser.
LEMMA DispatchSafe ==
    ASSUME NEW e, Fits(e), ~e.panicked, NEW a, IsAction(a)
    PROVE  /\ Safe(e, dispatch(e, a))
           /\ (CountedMove(a) => Exact(Cur(e), Param(a.params, 1, 1))) => Lands(e, dispatch(e, a))
<1> DEFINE Good(f) == Safe(e, f) /\ Lands(e, f)
<1>1. Good(Draw(e, printRune(Cur(e), a.ch)))
  <2>1. IsScreen(Cur(e), e.cols, e.rows) /\ e.cols \in Nat \ {0} /\ e.rows \in Nat \ {0}
    BY CurFits DEF Fits
  <2> QED BY <2>1, PrintFits, PrintDraws, DrawSafe
<1>2. /\ Good(executeC0(e, a.ch)) /\ Good(dispatchESC(e, a.final))
      /\ Good(handleOSC(e, a.payload)) /\ Good(e)
  BY C0Safe, ESCSafe, OSCSafe, SafeSelf
<1>3. CASE a.kind = "csi"
  <2>1. dispatch(e, a) = dispatchCSI(e, a.final, a.params, a.inter)
    BY <1>3 DEF dispatch
  <2>2. a.params \in Seq(Int)
    BY <1>3 DEF IsAction
  <2> QED BY <1>3, <2>1, <2>2, CSISafe DEF CountedMove
<1>4. CASE a.kind # "csi"
  <2> HIDE DEF Good
  <2>1. Good(dispatch(e, a))
    BY <1>1, <1>2, <1>4, Zenon DEF dispatch
  <2> QED BY <2>1 DEF Good
<1> QED BY <1>3, <1>4

\* A byte completes a counted move that overflows Go's int: its parameter has
\* wrapped to a negative number, or the sum with the cursor does.
Overflows(e, b) ==
    LET a == feedByte(e.ps, b).a
    IN  /\ ~e.panicked /\ b \notin HighBytes
        /\ CountedMove(a) /\ ~Exact(Cur(e), Param(a.params, 1, 1))

\* Every byte.
LEMMA FeedSafe ==
    ASSUME NEW e, Whole(e), ~e.panicked, NEW b \in Bytes
    PROVE  Safe(e, Feed(e, b)) /\ (~Overflows(e, b) => Lands(e, Feed(e, b)))
<1>1. Fits(e) /\ IsParser(e.ps)
  BY DEF Whole
<1>2. CASE b \in HighBytes
  <2> DEFINE d == Draw(e, printRune(Cur(e), "rune"))
             Good(f) == Safe(e, f) /\ Lands(e, f)
  <2>1. Good(d) /\ Fits(d)
    <3>1. IsScreen(Cur(e), e.cols, e.rows) /\ e.cols \in Nat \ {0} /\ e.rows \in Nat \ {0}
      BY <1>1, CurFits DEF Fits
    <3> QED BY <1>1, <3>1, PrintFits, PrintDraws, DrawSafe, DrawFollows DEF Follows
  <2> HIDE DEF d
  <2>2. \A u : Good([d EXCEPT !.utf8 = u])
    <3>1. \A u : Alike(d, [d EXCEPT !.utf8 = u])
      BY <2>1 DEF Alike, Fits, EmFields
    <3>2. Alike(e, e)
      BY DEF Alike
    <3> QED BY <2>1, <3>1, <3>2, AlikeSafe
  <2>3. \A u : Good([e EXCEPT !.utf8 = u])
    <3>1. \A u : Alike(e, [e EXCEPT !.utf8 = u])
      BY <1>1 DEF Alike, Fits, EmFields
    <3>2. Alike(e, e)
      BY DEF Alike
    <3> QED BY <1>1, <3>1, <3>2, AlikeSafe, SafeSelf
  <2> HIDE DEF Good
  <2>4. Good(feedUTF8(e, b))
    BY <2>2, <2>3, Zenon DEF feedUTF8, d
  <2> QED BY <1>2, <2>4 DEF Feed, Good
<1>3. CASE b \notin HighBytes
  <2> DEFINE fed == feedByte(e.ps, b)
             g == [e EXCEPT !.ps = fed.p, !.utf8 = <<>>]
  <2>1. IsAction(fed.a)
    BY <1>1, ParserStep DEF Fed
  <2>2. Feed(e, b) = dispatch(g, fed.a)
    BY <1>3 DEF Feed, feedASCII
  <2>3. Overflows(e, b) <=> CountedMove(fed.a) /\ ~Exact(Cur(e), Param(fed.a.params, 1, 1))
    BY <1>3 DEF Overflows
  <2> HIDE DEF fed
  <2>4. Alike(g, e) /\ Fits(g)
    BY <1>1, BytesKept DEF Alike, Fits, EmFields
  <2> HIDE DEF g
  <2>5. Cur(g) = Cur(e) /\ ~g.panicked
    BY <2>4 DEF Alike, Cur, On
  <2>6. /\ Safe(g, dispatch(g, fed.a))
        /\ ~Overflows(e, b) => Lands(g, dispatch(g, fed.a))
    BY <2>1, <2>3, <2>4, <2>5, DispatchSafe
  <2>7. Alike(dispatch(g, fed.a), dispatch(g, fed.a))
    BY DEF Alike
  <2> QED BY <2>2, <2>4, <2>6, <2>7, AlikeSafe
<1> QED BY <1>2, <1>3

\* The fold over a write in the middle of it.
LEMMA MaxInterval == ASSUME NEW k \in Nat PROVE Max(1..(k + 1)) = k + 1
<1>1. k + 1 \in 1..(k + 1) /\ \A y \in 1..(k + 1) : k + 1 >= y
  OBVIOUS
<1>2. ASSUME NEW x \in 1..(k + 1), \A y \in 1..(k + 1) : x >= y PROVE x = k + 1
  BY <1>2
<1> QED BY <1>1, <1>2 DEF Max

\* Bytes are taken one after the other: what a write has done after k + 1 of
\* them is what the next byte does after k.
LEMMA WritePrefixes ==
    ASSUME NEW e, NEW p \in Seq(Bytes)
    PROVE  /\ writeUnlocked(e, SubSeq(p, 1, 0)) = e
           /\ writeUnlocked(e, SubSeq(p, 1, Len(p))) = writeUnlocked(e, p)
           /\ \A k \in 0..(Len(p) - 1) : writeUnlocked(e, SubSeq(p, 1, k + 1))
                                           = Feed(writeUnlocked(e, SubSeq(p, 1, k)), p[k + 1])
<1> DEFINE n == Len(p)
           At(k) == writeUnlocked(e, SubSeq(p, 1, k))
<1>1. n \in Nat /\ DOMAIN p = 1..n
  OBVIOUS
<1>2. PICK it : IsFold("feed", TRUE, e, p, it) /\ writeUnlocked(e, p) = it[DOMAIN p]
  BY <1>1, WriteFolds
<1>3. \A S \in SUBSET (1..n) : it[S] = IF S = {} THEN e ELSE Feed(it[S \ {Max(S)}], p[Max(S)])
  BY <1>1, <1>2 DEF IsFold, FoldAt, Step
<1>4. ASSUME NEW k \in 0..n PROVE At(k) = it[1..k]
  <2> DEFINE q == SubSeq(p, 1, k)
  <2>1. DOMAIN q = 1..k /\ k \in Nat /\ \A i \in 1..k : q[i] = p[i]
    OBVIOUS
  <2> HIDE DEF q
  <2>2. PICK jt : IsFold("feed", TRUE, e, q, jt) /\ writeUnlocked(e, q) = jt[DOMAIN q]
    BY <2>1, WriteFolds
  <2>3. \A S \in SUBSET (1..k) : jt[S] = IF S = {} THEN e ELSE Feed(jt[S \ {Max(S)}], q[Max(S)])
    BY <2>1, <2>2 DEF IsFold, FoldAt, Step
  <2> DEFINE T == {S \in SUBSET (1..k) : jt[S] = it[S]}
  <2>4. ASSUME NEW S \in SUBSET (1..k), \A x \in S : S \ {x} \in T PROVE S \in T
    <3>1. S \in SUBSET (1..n)
      OBVIOUS
    <3>2. CASE S = {}
      BY <1>3, <2>3, <3>1, <3>2
    <3>3. CASE S # {}
      <4>1. Max(S) \in S
        BY <2>1, <3>3, MaxIn
      <4>2. jt[S \ {Max(S)}] = it[S \ {Max(S)}] /\ q[Max(S)] = p[Max(S)]
        BY <2>1, <2>4, <4>1
      <4>3. jt[S] = it[S]
        BY <1>3, <2>3, <3>1, <3>3, <4>2
      <4> QED BY <4>3
    <3> QED BY <3>2, <3>3
  <2> HIDE DEF T
  <2>5. \A S \in SUBSET (1..k) : S \in T
    <3>1. IsFiniteSet(1..k)
      BY <2>1, FS_Interval
    <3> QED BY <2>4, <3>1, RemovalInduction
  <2>6. 1..k \in T
    BY <2>5
  <2> QED BY <2>1, <2>2, <2>6 DEF T, q
<1> HIDE DEF At
<1>5. At(0) = e
  <2>1. 0 \in 0..n /\ 1..0 = {}
    BY <1>1
  <2> QED BY <1>3, <1>4, <2>1
<1>6. At(n) = writeUnlocked(e, p)
  BY <1>1, <1>2, <1>4
<1>7. ASSUME NEW k \in 0..(n - 1) PROVE At(k + 1) = Feed(At(k), p[k + 1])
  <2>0. k \in 0..n /\ k + 1 \in 0..n /\ k \in Nat /\ k + 1 \in 1..(k + 1) /\ k + 1 <= n
    BY <1>1
  <2>1. /\ 1..(k + 1) # {} /\ (1..(k + 1)) \ {k + 1} = 1..k
        /\ 1..(k + 1) \in SUBSET (1..n)
    <3>1. \A x : x \in (1..(k + 1)) \ {k + 1} <=> x \in 1..k
      BY <2>0
    <3>2. \A x : x \in 1..(k + 1) => x \in 1..n
      BY <1>1, <2>0
    <3> QED BY <2>0, <3>1, <3>2
  <2>2. Max(1..(k + 1)) = k + 1
    BY <2>0, MaxInterval
  <2>3. it[1..(k + 1)] = Feed(it[1..k], p[k + 1])
    BY <1>3, <2>1, <2>2
  <2> QED BY <1>4, <2>0, <2>3
<1> QED BY <1>5, <1>6, <1>7 DEF At

\* A whole write.  It panics only with the cursor away; it keeps the cursors in
\* the grid unless a byte of it overflows; and it leaves the primary screen to
\* itself if the alternate screen is on after each of its bytes.
LEMMA WriteSafe ==
    ASSUME NEW e, Whole(e), ~e.panicked, NEW p \in Seq(Bytes)
    PROVE  LET At(k) == writeUnlocked(e, SubSeq(p, 1, k))
               f == writeUnlocked(e, p)
           IN  /\ f.panicked => Away(Cur(f))
               /\ (\A k \in 1..Len(p) : ~Overflows(At(k - 1), p[k])) => Lands(e, f)
               /\ e.useAlt /\ (\A k \in 1..Len(p) : At(k).useAlt) => Hides(e, f)
<1> DEFINE At(k) == writeUnlocked(e, SubSeq(p, 1, k))
           n == Len(p)
           Exactly == \A k \in 1..n : ~Overflows(At(k - 1), p[k])
           Alt == e.useAlt /\ \A k \in 1..n : At(k).useAlt
           Good(f) == /\ Takes(e, f)
                      /\ f.panicked => Away(Cur(f))
                      /\ Exactly => Lands(e, f)
                      /\ Alt => Hides(e, f) /\ f.useAlt
           T == {k \in Nat : k <= n => Good(At(k))}
<1>1. n \in Nat /\ \A k \in 1..n : p[k] \in Bytes
  OBVIOUS
<1>2. /\ At(0) = e /\ At(n) = writeUnlocked(e, p)
      /\ \A k \in 0..(n - 1) : At(k + 1) = Feed(At(k), p[k + 1])
  BY WritePrefixes
<1> HIDE DEF At, n, Good
<1>3. 0 \in T
  <2>1. Good(e)
    BY TakesSelf, SafeSelf DEF Hides, Good
  <2> QED BY <1>2, <2>1
<1>4. ASSUME NEW k \in Nat, k \in T PROVE k + 1 \in T
  <2> SUFFICES ASSUME k + 1 <= n PROVE Good(At(k + 1))
    OBVIOUS
  <2> DEFINE f == At(k)
             g == At(k + 1)
             b == p[k + 1]
  <2>1. k \in 0..(n - 1) /\ k + 1 \in 1..n /\ (k + 1) - 1 = k
    BY <1>1
  <2>2. g = Feed(f, b) /\ b \in Bytes
    BY <1>1, <1>2, <2>1
  <2>3. Good(f)
    BY <1>1, <1>4, <2>1
  <2>4. Exactly => ~Overflows(f, b)
    <3>1. Exactly => ~Overflows(At((k + 1) - 1), p[k + 1])
      BY <2>1
    <3> QED BY <2>1, <3>1
  <2>5. Alt => g.useAlt
    BY <2>1
  <2> HIDE DEF f, g, b, Exactly, Alt
  <2>6. CASE f.panicked
    <3>1. g = f
      BY <2>2, <2>6 DEF Feed
    <3> QED BY <2>3, <3>1 DEF g
  <2>7. CASE ~f.panicked
    <3>1. Whole(f) /\ f.cols = e.cols /\ f.rows = e.rows
      BY <2>3 DEF Takes, Good
    <3>2. Safe(f, g) /\ (~Overflows(f, b) => Lands(f, g))
      BY <2>2, <2>7, <3>1, FeedSafe
    <3>3. Takes(f, g)
      <4>1. /\ Takes(f, feedASCII(f, b))
            /\ (b \in HighBytes => Takes(f, feedUTF8(f, b)))
        BY <2>2, <3>1, HighByteTaken, ASCIITaken
      <4> QED BY <2>2, <2>7, <4>1 DEF Feed
    <3>4. Takes(e, g)
      BY <2>3, <3>3, TakesBoth DEF Good
    <3>5. g.panicked => Away(Cur(g))
      BY <3>2 DEF Safe
    <3>6. Exactly => Lands(e, g)
      BY <2>3, <2>4, <3>2 DEF Lands, Good
    <3>7. Alt => Hides(e, g) /\ g.useAlt
      BY <2>3, <2>5, <3>1, <3>2 DEF Safe, Hides, Good
    <3> QED BY <3>4, <3>5, <3>6, <3>7 DEF g, Good
  <2> QED BY <2>6, <2>7
<1> HIDE DEF T
<1>5. \A k \in Nat : k \in T
  BY <1>3, <1>4, Induction
<1>6. Good(writeUnlocked(e, p))
  BY <1>1, <1>2, <1>5 DEF T
<1> QED BY <1>6 DEF At, n, Good

-----------------------------------------------------------------------------
(* The cursor, the panics and the hidden screen in every run.              *)

\* What a write has done after its first k bytes.
After(p, k) == writeUnlocked(em, SubSeq(p, 1, k))

\* A write in which a counted move overflows, and one that leaves the alternate
\* screen and returns to it.
Overflowing ==
    \E p \in Chunks : Write(p) /\ \E k \in 1..Len(p) : Overflows(After(p, k - 1), p[k])
LeavesAlt ==
    \E p \in Chunks : /\ Write(p) /\ em.useAlt /\ em'.useAlt
                      /\ \E k \in 1..Len(p) : ~After(p, k).useAlt

PanicsOnlyAway == em.panicked => Away(Cur(em))

\* Resize and Render keep both cursors and panic nowhere.
LEMMA CallsSafe ==
    ASSUME NEW e, Whole(e), NEW cols \in Nat \ {0}, NEW rows \in Nat \ {0}
    PROVE  /\ Placed(e) => Placed(Resized(e, cols, rows))
           /\ Resized(e, cols, rows).panicked = e.panicked
<1>1. CASE cols = e.cols /\ rows = e.rows
  BY <1>1 DEF Resized
<1>2. CASE ~(cols = e.cols /\ rows = e.rows)
  <2> DEFINE f == Resized(e, cols, rows)
  <2>1. /\ f.scr = [primary |-> resize(e.scr.primary, cols, rows),
                    alt |-> resize(e.scr.alt, cols, rows)]
        /\ f.panicked = e.panicked
    BY <1>2 DEF Resized, Whole, Fits, EmFields
  <2> HIDE DEF f
  <2>2. ASSUME NEW s, IsScreen(s, e.cols, e.rows), InGrid(s) PROVE InGrid(resize(s, cols, rows))
    <3>1. /\ s.cols = e.cols /\ s.rows = e.rows /\ e.cols \in Nat /\ e.rows \in Nat
          /\ s.cx \in 0..e.cols /\ s.cy \in 0..(e.rows - 1)
      BY <2>2 DEF InGrid, IsScreen, Whole, Fits
    <3>2. /\ resize(s, cols, rows).cx = (IF s.cx >= cols THEN cols - 1 ELSE s.cx)
          /\ resize(s, cols, rows).cy = (IF s.cy >= rows THEN rows - 1 ELSE s.cy)
          /\ resize(s, cols, rows).cols = cols /\ resize(s, cols, rows).rows = rows
      BY <2>2 DEF resize, Regrid, IsScreen, ScreenFields
    <3> QED BY <3>1, <3>2 DEF InGrid
  <2>3. ASSUME Placed(e) PROVE Placed(f)
    <3>1. /\ IsScreen(e.scr.primary, e.cols, e.rows) /\ IsScreen(e.scr.alt, e.cols, e.rows)
          /\ InGrid(e.scr.primary) /\ InGrid(e.scr.alt)
      BY <2>3 DEF Placed, Names, Whole, Fits
    <3>2. InGrid(f.scr.primary) /\ InGrid(f.scr.alt)
      BY <2>1, <2>2, <3>1
    <3> QED BY <3>2 DEF Placed, Names
  <2> QED BY <2>1, <2>3 DEF f
<1> QED BY <1>1, <1>2

\* Every call panics only with the cursor away, keeps the cursors in the grid
\* unless a move overflows, and keeps the hidden screen unless it was shown.
LEMMA CallSafe ==
    ASSUME VtInv, PanicsOnlyAway, Next
    PROVE  /\ PanicsOnlyAway'
           /\ ~Overflowing /\ Placed(em) => Placed(em')
           /\ ~LeavesAlt /\ em.useAlt /\ em'.useAlt /\ em'.cols = em.cols /\ em'.rows = em.rows
                => Hides(em, em')
<1>0. Whole(em)
  BY DEF VtInv
<1>1. ASSUME NEW p \in Chunks, Write(p)
      PROVE  /\ PanicsOnlyAway'
             /\ ~Overflowing /\ Placed(em) => Placed(em')
             /\ ~LeavesAlt /\ em.useAlt /\ em'.useAlt => Hides(em, em')
  <2>1. p \in Seq(Bytes)
    BY EmulatorAssumption DEF Bytes
  <2>2. ~em.panicked /\ em' = writeUnlocked(em, p)
    BY <1>1 DEF Write, Called
  <2>3. /\ em'.panicked => Away(Cur(em'))
        /\ (\A k \in 1..Len(p) : ~Overflows(After(p, k - 1), p[k])) => Lands(em, em')
        /\ em.useAlt /\ (\A k \in 1..Len(p) : After(p, k).useAlt) => Hides(em, em')
    BY <1>0, <2>1, <2>2, WriteSafe DEF After
  <2>4. ~Overflowing => \A k \in 1..Len(p) : ~Overflows(After(p, k - 1), p[k])
    BY <1>1 DEF Overflowing
  <2>5. ~LeavesAlt /\ em.useAlt /\ em'.useAlt => \A k \in 1..Len(p) : After(p, k).useAlt
    BY <1>1 DEF LeavesAlt
  <2>6. PanicsOnlyAway'
    BY <2>3 DEF PanicsOnlyAway, Cur, On
  <2> QED BY <2>3, <2>4, <2>5, <2>6 DEF Lands
<1>2. ASSUME NEW size \in Sizes, Resize(size)
      PROVE  /\ PanicsOnlyAway' /\ (Placed(em) => Placed(em'))
             /\ em'.cols = em.cols /\ em'.rows = em.rows => em' = em
  <2> DEFINE c == AtLeast1(size[1])
             r == AtLeast1(size[2])
  <2>1. c \in Nat \ {0} /\ r \in Nat \ {0}
    BY EmulatorAssumption DEF AtLeast1
  <2>2. ~em.panicked /\ em' = Resized(em, c, r)
    BY <1>2 DEF Resize, Called
  <2> HIDE DEF c, r
  <2>3. (Placed(em) => Placed(em')) /\ em'.panicked = em.panicked
    BY <1>0, <2>1, <2>2, CallsSafe
  <2>4. em' = em \/ (em'.cols = c /\ em'.rows = r /\ ~(c = em.cols /\ r = em.rows))
    BY <1>0, <2>2 DEF Resized, Whole, Fits, EmFields
  <2> QED BY <2>2, <2>3, <2>4 DEF PanicsOnlyAway
<1>3. ASSUME Render
      PROVE  /\ PanicsOnlyAway' /\ (Placed(em) => Placed(em')) /\ Hides(em, em')
  <2>1. /\ em' = [em EXCEPT !.dirty = FALSE] /\ ~em.panicked
    BY <1>3 DEF Render
  <2>2. em'.scr = em.scr /\ em'.saved = em.saved /\ em'.panicked = em.panicked
    BY <1>0, <2>1 DEF Whole, Fits, EmFields
  <2> QED BY <2>1, <2>2 DEF PanicsOnlyAway, Placed, Hides
<1>4. Hides(em, em)
  BY DEF Hides
<1> QED BY <1>1, <1>2, <1>3, <1>4 DEF Next

\* A new emulator has its cursors at home.
LEMMA StartsPlaced == Init => Placed(em) /\ PanicsOnlyAway
<1> SUFFICES ASSUME Init PROVE Placed(em) /\ PanicsOnlyAway
  OBVIOUS
<1>1. PICK size \in Sizes : em = New(AtLeast1(size[1]), AtLeast1(size[2]))
  BY DEF Init
<1> DEFINE c == AtLeast1(size[1])
           r == AtLeast1(size[2])
<1>2. c \in Nat \ {0} /\ r \in Nat \ {0}
  BY EmulatorAssumption DEF AtLeast1
<1>3. /\ em.scr = [primary |-> newScreen(c, r), alt |-> newScreen(c, r)] /\ em.panicked = FALSE
  BY <1>1 DEF New
<1> HIDE DEF c, r
<1>4. InGrid(newScreen(c, r))
  BY <1>2 DEF newScreen, InGrid
<1> QED BY <1>3, <1>4 DEF Placed, Names, PanicsOnlyAway

\* The emulator panics only where the cursor is off the grid or a wrap is
\* pending, whatever was written (emulator.go).
THEOREM PanicsNeedACursorAway == Spec => []PanicsOnlyAway
<1>1. VtInv /\ PanicsOnlyAway /\ [Next]_vars => PanicsOnlyAway'
  <2>1. ASSUME PanicsOnlyAway, UNCHANGED vars PROVE PanicsOnlyAway'
    BY <2>1 DEF vars, PanicsOnlyAway, Cur, On
  <2> QED BY <2>1, CallSafe
<1> QED BY <1>1, StartsPlaced, VtInvariant, PTL DEF Spec

\* While no counted move overflows Go's int, both cursors stay in the grid.
THEOREM CursorsStayPlaced == Spec /\ [][~Overflowing]_vars => []Placed(em)
<1>1. /\ VtInv /\ PanicsOnlyAway /\ Placed(em) /\ [Next]_vars /\ [~Overflowing]_vars
      => Placed(em)'
  <2>1. ASSUME Placed(em), UNCHANGED vars PROVE Placed(em)'
    BY <2>1 DEF vars, Placed
  <2>2. ASSUME VtInv, PanicsOnlyAway, Placed(em), Next, ~Overflowing PROVE Placed(em)'
    BY <2>2, CallSafe DEF Placed
  <2> QED BY <2>1, <2>2
<1> QED BY <1>1, StartsPlaced, VtInvariant, PanicsNeedACursorAway, PTL DEF Spec

\* So the screens are in shape, cursor and all, as long as no parameter of a
\* cursor movement is beyond what Go's int holds (emulator.go; parser.go:379).
THEOREM ScreensStayInShape == Spec /\ [][~Overflowing]_vars => []ScreensInShape
<1>1. VtInv /\ Placed(em) /\ TypeOK => ScreensInShape
  BY DEF VtInv, Whole, Fits, IsScreen, Placed, InGrid, Names, ScreensInShape
<1> QED BY <1>1, VtInvariant, BuffersHold, CursorsStayPlaced, PTL

\* And then a panic needs a pending wrap.
THEOREM PanicsNeedAPendingWrap == Spec /\ [][~Overflowing]_vars => []PanicsOnlyAtPendingWrap
<1>1. VtInv /\ PanicsOnlyAway /\ Placed(em) => PanicsOnlyAtPendingWrap
  <2> SUFFICES ASSUME VtInv, Placed(em), em.panicked, Away(Cur(em)) PROVE Cur(em).cx = Cur(em).cols
    BY DEF PanicsOnlyAway, PanicsOnlyAtPendingWrap
  <2>1. Fits(em)
    BY DEF VtInv, Whole
  <2>2. InGrid(Cur(em)) /\ Cur(em).cols \in Nat
    BY <2>1, CurFits DEF Placed, Fits, IsScreen
  <2> QED BY <2>2 DEF InGrid, Away
<1> QED BY <1>1, VtInvariant, PanicsNeedACursorAway, CursorsStayPlaced, PTL

\* A full-screen program finds the shell's screen as it left it, unless a
\* write of its own goes there and back (emulator.go, switchAltScreen).
THEOREM AltScreenHidesPrimary == Spec /\ [][~LeavesAlt]_vars => AltLeavesPrimary
<1> DEFINE Kept == /\ em'.saved.primary = em.saved.primary
                   /\ em'.scr.primary \in {em.scr.primary, newScreen(em.cols, em.rows)}
           Same == em.useAlt /\ em'.useAlt /\ em'.cols = em.cols /\ em'.rows = em.rows
<1>1. VtInv /\ PanicsOnlyAway /\ [Next]_vars /\ [~LeavesAlt]_vars => [Same => Kept]_vars
  BY CallSafe DEF Hides
<1> QED BY <1>1, VtInvariant, PanicsNeedACursorAway, PTL DEF Spec, AltLeavesPrimary
=============================================================================
