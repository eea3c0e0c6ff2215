------------------------------- MODULE VtPen -------------------------------
(***************************************************************************)
(* Select Graphic Rendition (adapter/secondary/vt/sgr.go): how the         *)
(* parameters of CSI ... m change the pen that characters are written      *)
(* with.                                                                   *)
(***************************************************************************)
EXTENDS VtParser, TLC

\* Colours: the default, <<palette entry>>, <<red, green, blue>>.
ColorDefault == <<>>
DefaultPen   == [fg |-> ColorDefault, bg |-> ColorDefault, attrs |-> {}]

SetAttr == 1 :> "bold" @@ 2 :> "faint" @@ 3 :> "italic" @@ 4 :> "underline" @@ 5 :> "blink"
           @@ 6 :> "blink" @@ 7 :> "inverse" @@ 8 :> "hidden" @@ 9 :> "strike"
ClearAttr == 22 :> {"bold", "faint"} @@ 23 :> {"italic"} @@ 24 :> {"underline"} @@ 25 :> {"blink"}
             @@ 27 :> {"inverse"} @@ 28 :> {"hidden"} @@ 29 :> {"strike"}

clamp8(v)         == IF v < 0 THEN 0 ELSE IF v > 255 THEN 255 ELSE v
paletteIndex(idx) == <<idx + 1>>

\* The sub-parameters after 38 or 48, from position i: how many are used, and
\* the colour.  An incomplete form uses one and gives the default colour.
parseExtendedColor(ps, i) ==
    CASE i > Len(ps) -> [used |-> 0, color |-> ColorDefault]
      [] i + 1 <= Len(ps) /\ ps[i] = 5 ->
            [used |-> 2, color |-> paletteIndex(clamp8(ps[i + 1]))]
      [] i + 3 <= Len(ps) /\ ps[i] = 2 ->
            [used |-> 4, color |-> <<clamp8(ps[i + 1]), clamp8(ps[i + 2]), clamp8(ps[i + 3])>>]
      [] OTHER -> [used |-> 1, color |-> ColorDefault]

\* One code that is not followed by sub-parameters; unknown ones are ignored.
simpleSGR(pen, code) ==
    CASE code = 0 -> DefaultPen
      [] code \in DOMAIN SetAttr   -> [pen EXCEPT !.attrs = @ \cup {SetAttr[code]}]
      [] code \in DOMAIN ClearAttr -> [pen EXCEPT !.attrs = @ \ ClearAttr[code]]
      [] code \in 30..37   -> [pen EXCEPT !.fg = paletteIndex(code - 30)]
      [] code = 39         -> [pen EXCEPT !.fg = ColorDefault]
      [] code \in 40..47   -> [pen EXCEPT !.bg = paletteIndex(code - 40)]
      [] code = 49         -> [pen EXCEPT !.bg = ColorDefault]
      [] code \in 90..97   -> [pen EXCEPT !.fg = paletteIndex(code - 90 + 8)]
      [] code \in 100..107 -> [pen EXCEPT !.bg = paletteIndex(code - 100 + 8)]
      [] OTHER -> pen

\* The loop over the codes, skipping the sub-parameters that were used.
applySGR(pen, ps) ==
    LET step(acc, i) ==
            IF i < acc.next THEN acc
            ELSE IF ps[i] \notin {38, 48} THEN [pen |-> simpleSGR(acc.pen, ps[i]), next |-> i + 1]
            ELSE LET ext == parseExtendedColor(ps, i + 1)
                 IN  [pen  |-> IF ps[i] = 38 THEN [acc.pen EXCEPT !.fg = ext.color]
                                             ELSE [acc.pen EXCEPT !.bg = ext.color],
                      next |-> i + 1 + ext.used]
    IN  IF ps = <<>> THEN DefaultPen
        ELSE FoldLeftDomain(step, [pen |-> pen, next |-> 1], ps).pen
=============================================================================
