------------------------------- MODULE Paper -------------------------------
(***************************************************************************)
(* What a terminal's screen is a window on: an endless roll of cells,      *)
(* numbered from the last time it was cleared, a pen, and the first line   *)
(* that is in the window, which only moves when the pen would leave it at  *)
(* the bottom.                                                             *)
(***************************************************************************)
EXTENDS Integers, Sequences, SequencesExt

CONSTANTS Wide, High, Blank

Fresh == [ink |-> [n \in {} |-> Blank], pen |-> 0, top |-> 0, lost |-> FALSE]

(* The pen may go back over lines, but not above the window: then nothing  *)
(* is promised until the roll is cleared.                                  *)
MoveTo(p, pen) ==
  LET line == pen \div Wide
  IN  [p EXCEPT !.pen = pen,
                !.top = IF line - p.top >= High THEN line - High + 1 ELSE p.top,
                !.lost = p.lost \/ line < p.top]

Write(p, c) ==
  CASE c = "newline" -> MoveTo(p, (p.pen \div Wide + 1) * Wide)
    [] c = "return"  -> MoveTo(p, p.pen - 1)
    [] OTHER         ->
         MoveTo([p EXCEPT !.ink = [n \in DOMAIN p.ink \cup {p.pen} |->
                                     IF n = p.pen THEN c ELSE p.ink[n]]], p.pen + 1)

WriteAll(p, text) == IF p.lost THEN p ELSE FoldLeft(Write, p, text)

Window(p) ==
  [n \in 0 .. Wide * High - 1 |->
     LET place == p.top * Wide + n
     IN  IF place \in DOMAIN p.ink THEN p.ink[place] ELSE Blank]

=============================================================================
