---------------------------- MODULE MCVtEmulator ----------------------------
(***************************************************************************)
(* Small instance of VtEmulator: the sequences a shell writes at once,     *)
(* whole ones and pieces that later writes complete.                       *)
(***************************************************************************)
EXTENDS VtEmulator

CSI(s) == <<"ESC", "[">> \o s
OSC(s) == <<"ESC", "]">> \o s

\* Characters, controls, cursor movement, erasing.
Plain == {<<"a", "a">>, <<"L3", "CC", "CC">>, <<"CR">>, <<"LF">>, <<"HT">>, <<"BS">>}
Moves == {CSI(<<f>>) : f \in {"A", "B", "C", "D", "E", "F", "G", "d", "s", "u"}}
         \cup {CSI(<<"2", ";", "2", "H">>), <<"ESC", "7">>, <<"ESC", "8">>, <<"ESC", "M">>}
Erasures == {CSI(<<m, f>>) : m \in {"0", "1", "2"}, f \in {"J", "K"}} \cup {CSI(<<"X">>)}
Shifts == {CSI(<<"9", f>>) : f \in {"L", "M", "P", "S", "T", "@"}}
          \cup {CSI(<<"1", ";", "2", "r">>), CSI(<<"2", "r">>)}

\* The pen, modes, reset, shell marks.
Modes == {CSI(<<"3", "8", ";", "5", ";", "1", "m">>), CSI(<<"?", "2", "5", "l">>),
          CSI(<<"?", "4", "7", "h">>), CSI(<<"?", "4", "7", "l">>),
          CSI(<<"?", "1", "0", "4", "9", "h">>), CSI(<<"?", "1", "0", "4", "9", "l">>),
          <<"ESC", "c">>, OSC(<<"1", "3", "3", ";", "C", "BEL">>),
          OSC(<<"1", "3", "3", ";", "D", ";", "1", "1", "1", "ESC", "\\">>)}

\* Pieces: a sequence cut in two, strings that end elsewhere or never.
Pieces == {<<"ESC">>, CSI(<<>>), OSC(<<"1", "3", "3", ";", "A">>), <<"ESC", "P", "a">>,
           <<"\\">>, <<"1", ";">>, <<"?">>, <<"SP">>, <<"CAN">>, <<"BEL">>, <<"NUL">>, <<"DEL">>,
           <<"L3", "CC">>, <<"CC">>, <<"L2x">>}

AllChunks == Plain \cup Moves \cup Erasures \cup Shifts \cup Modes \cup Pieces

\* Ordinary output and erasing, and a parameter that Go's int does not hold.
LongChunks == Plain \cup Erasures \cup {CSI(<<"4", "0", "9", "5", f>>) : f \in {"A", "B", "C", "D"}}

ScreenSizes == {<<2, 3>>, <<1, 0>>}
=============================================================================
