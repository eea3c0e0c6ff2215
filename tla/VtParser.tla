------------------------------ MODULE VtParser ------------------------------
(***************************************************************************)
(* The escape-sequence state machine of the terminal emulator              *)
(* (internal/agent/adapter/secondary/vt/parser.go) as operators on one     *)
(* record: its state, the intermediate bytes, the raw parameter bytes and  *)
(* the OSC string collected so far.  feedByte returns the parser after a   *)
(* byte and the action that byte completed.                                *)
(*                                                                         *)
(* A byte is named by its character; the bytes a rule does not tell apart  *)
(* share a name: "SP" stands for 0x20-0x2F, "CAN" for CAN and SUB, "NUL"   *)
(* for the C0 bytes nothing reacts to.                                     *)
(***************************************************************************)
EXTENDS Integers, Sequences, SequencesExt

CONSTANTS
    MaxInter,   \* room for intermediate bytes (4 in the code)
    MaxParam,   \* room for parameter bytes (32)
    MaxOSC,     \* room for the OSC string (512)
    IntSize     \* how many values Go's int has (2^64)

ASSUME ParserAssumption ==
    {MaxInter, MaxParam, MaxOSC, IntSize} \subseteq Nat \ {0, 1}

\* Go's wrapping int arithmetic.
Wrap(n) == ((n + IntSize \div 2) % IntSize) - IntSize \div 2

Digits    == {"0", "1", "2", "3", "4", "5", "6", "7", "8", "9"}
Digit(b)  == CHOOSE n \in 0..9 : <<"0", "1", "2", "3", "4", "5", "6", "7", "8", "9">>[n + 1] = b
Executed  == {"CR", "LF", "HT", "BS", "BEL"}
C0        == Executed \cup {"ESC", "CAN", "NUL"}
Private   == {"?", "<", "=", ">"}
NotFinal  == C0 \cup Digits \cup Private \cup {";", ":", "SP", "DEL"}

\* 0x40-0x7E, and what ends an ESC sequence: 0x30-0x7E.
IsFinal(b)    == b \notin NotFinal
IsEscFinal(b) == b \notin C0 \cup {"SP", "DEL"}

NewParser == [state |-> "ground", inter |-> <<>>, param |-> <<>>, osc |-> <<>>]

\* What one byte can complete.
None           == [kind |-> "none"]
Prints(b)      == [kind |-> "print", ch |-> b]
Executes(b)    == [kind |-> "execute", ch |-> b]

\* The parser goes to a state, with nothing completed or with an action.
Emit(p, st, a) == [p |-> [p EXCEPT !.state = st], a |-> a]
Goto(p, st)    == Emit(p, st, None)

\* A buffer keeps one place free: what comes after it is full is dropped.
Keep(s, b, max) == IF Len(s) < max - 1 THEN Append(s, b) ELSE s
KeepInter(p, b) == [p EXCEPT !.inter = Keep(@, b, MaxInter)]
KeepParam(p, b) == [p EXCEPT !.param = Keep(@, b, MaxParam)]

\* The fields between the separators; digits accumulate in an int that wraps.
parseParams(raw) ==
    IF raw = <<>> THEN <<>>
    ELSE LET add(acc, b) == IF b = ";" THEN [done |-> Append(acc.done, acc.cur), cur |-> 0]
                            ELSE [acc EXCEPT !.cur = Wrap(@ * 10 + Digit(b))]
             all == FoldLeft(add, [done |-> <<>>, cur |-> 0], raw)
         IN  Append(all.done, all.cur)

\* The string collected so far, whoever asks for it, and an empty buffer.
buildOSC(p) ==
    Emit([p EXCEPT !.osc = <<>>], "ground", [kind |-> "osc", payload |-> p.osc])

resetCSI(p) == [p EXCEPT !.inter = <<>>, !.param = <<>>]

buildCSI(p, final) ==
    Emit(resetCSI(p), "ground",
         [kind |-> "csi", final |-> final, inter |-> p.inter, params |-> parseParams(p.param)])

\* ESC \ is the string terminator, whether or not a string was being read.
buildESC(p, final) ==
    LET q == [p EXCEPT !.inter = <<>>]
    IN  IF final = "\\" THEN buildOSC(q)
        ELSE Emit(q, "ground", [kind |-> "esc", final |-> final, inter |-> p.inter])

-----------------------------------------------------------------------------
\* A byte below 0x20.  ESC and CAN leave any state; the OSC buffer stays.
handleC0(p, b) ==
    CASE b = "BEL" /\ p.state = "osc" -> buildOSC(p)
      [] b = "ESC" -> Goto([p EXCEPT !.inter = <<>>], "escape")
      [] b = "CAN" -> Goto(p, "ground")
      [] /\ b \in Executed
         /\ p.state \notin {"osc", "dcsEntry", "dcs"} -> Emit(p, p.state, Executes(b))
      [] OTHER -> Goto(p, p.state)

inGround(p, b) == IF b = "DEL" THEN Goto(p, "ground") ELSE Emit(p, "ground", Prints(b))

inEscape(p, b) ==
    CASE b = "["  -> Goto(resetCSI(p), "csiEntry")
      [] b = "]"  -> Goto([p EXCEPT !.osc = <<>>], "osc")
      [] b = "P"  -> Goto(p, "dcsEntry")
      [] b = "SP" -> Goto(KeepInter(p, b), "escapeInter")
      [] b = "DEL" -> Goto(p, "escape")
      [] OTHER -> buildESC(p, b)

inEscapeInter(p, b) ==
    CASE b = "SP"      -> Goto(KeepInter(p, b), "escapeInter")
      [] IsEscFinal(b) -> buildESC(p, b)
      [] OTHER         -> Goto(p, "ground")

\* A private marker is kept as an intermediate byte, and only right after "[".
inCSIEntry(p, b) ==
    CASE b \in Digits \cup {";"} -> Goto(KeepParam(p, b), "csiParam")
      [] b = "SP"      -> Goto(KeepInter(p, b), "csiInter")
      [] b \in Private -> Goto(KeepInter(p, b), "csiParam")
      [] IsFinal(b)    -> buildCSI(p, b)
      [] b = "DEL"     -> Goto(p, "csiEntry")
      [] OTHER         -> Goto(p, "csiIgnore")

inCSIParam(p, b) ==
    CASE b \in Digits    -> Goto(KeepParam(p, b), "csiParam")
      [] b \in {";", ":"} -> Goto(KeepParam(p, ";"), "csiParam")
      [] b = "SP"        -> Goto(KeepInter(p, b), "csiInter")
      [] IsFinal(b)      -> buildCSI(p, b)
      [] b = "DEL"       -> Goto(p, "csiParam")
      [] OTHER           -> Goto(p, "csiIgnore")

inCSIInter(p, b) ==
    CASE b = "SP"   -> Goto(KeepInter(p, b), "csiInter")
      [] IsFinal(b) -> buildCSI(p, b)
      [] OTHER      -> Goto(p, "csiIgnore")

inCSIIgnore(p, b) == Goto(p, IF IsFinal(b) THEN "ground" ELSE "csiIgnore")

inOSC(p, b) == Goto([p EXCEPT !.osc = Keep(@, b, MaxOSC)], "osc")

\* A bare backslash ends a DCS string.
inDCS(p, b) ==
    IF b = "\\" THEN Emit(p, "ground", [kind |-> "dcs"]) ELSE Goto(p, "dcs")

feedByte(p, b) ==
    IF b \in C0 THEN handleC0(p, b)
    ELSE CASE p.state = "ground"      -> inGround(p, b)
           [] p.state = "escape"      -> inEscape(p, b)
           [] p.state = "escapeInter" -> inEscapeInter(p, b)
           [] p.state = "csiEntry"    -> inCSIEntry(p, b)
           [] p.state = "csiParam"    -> inCSIParam(p, b)
           [] p.state = "csiInter"    -> inCSIInter(p, b)
           [] p.state = "csiIgnore"   -> inCSIIgnore(p, b)
           [] p.state = "osc"         -> inOSC(p, b)
           [] p.state \in {"dcsEntry", "dcs"} -> inDCS(p, b)
=============================================================================
