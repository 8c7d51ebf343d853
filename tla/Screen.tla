------------------------------- MODULE Screen -------------------------------
(***************************************************************************)
(* src/screen.c and putchar of src/common.c: the text screen.  A screen is *)
(* its cells, in the order of video memory, and the cursor; an operation   *)
(* maps a screen to a screen.  A cell is its symbol (colours are left      *)
(* out), and a space and the 0 that scrolling leaves are both Blank.       *)
(***************************************************************************)
EXTENDS Integers, Sequences, SequencesExt

CONSTANTS SCREEN_WIDE, SCREEN_HIGH

ASSUME ScreenAssumption ==
  SCREEN_WIDE \in 2 .. 255 /\ SCREEN_HIGH \in 2 .. 255

Cells == 0 .. SCREEN_WIDE * SCREEN_HIGH - 1

Blank == "blank"

clear_screen == [cell |-> [n \in Cells |-> Blank], x |-> 0, y |-> 0]

(* The parameters are bytes.                                               *)
set_cursor_position(s, x, y) ==
  [s EXCEPT !.x = (x % 256) % SCREEN_WIDE, !.y = (y % 256) % SCREEN_HIGH]

(* Mutant of scroll_up: the last line is left as it was.                   *)
scroll_up_keeps_last(s) ==
  LET moved == [s EXCEPT !.cell = [n \in Cells |->
                 IF n + SCREEN_WIDE \in Cells THEN s.cell[n + SCREEN_WIDE] ELSE s.cell[n]]]
  IN  set_cursor_position(moved, s.x, IF s.y = 0 THEN 0 ELSE s.y - 1)

(* Every line is copied over the one above and the last is cleared.        *)
scroll_up(s) ==
  LET moved == [s EXCEPT !.cell = [n \in Cells |->
                 IF n + SCREEN_WIDE \in Cells THEN s.cell[n + SCREEN_WIDE] ELSE Blank]]
  IN  set_cursor_position(moved, s.x, IF s.y = 0 THEN 0 ELSE s.y - 1)

new_line(s) ==
  LET t == IF s.y + 1 = SCREEN_HIGH THEN scroll_up(s) ELSE s
  IN  set_cursor_position(t, 0, t.y + 1)

move_next_cursor_postion(s) ==
  LET wraps == s.x + 1 >= SCREEN_WIDE
      t == IF wraps /\ s.y + 1 = SCREEN_HIGH THEN scroll_up(s) ELSE s
  IN  set_cursor_position(t, t.x + 1, IF wraps THEN t.y + 1 ELSE t.y)

(* From the first cell of the screen the line is -1, a byte of 255.        *)
move_back_cursor_postion(s) ==
  IF s.x = 0 THEN set_cursor_position(s, SCREEN_WIDE - 1, s.y - 1)
  ELSE set_cursor_position(s, s.x - 1, s.y)

print_symbol(s, c) == [s EXCEPT !.cell[s.y * SCREEN_WIDE + s.x] = c]

putchar(s, c) ==
  CASE c = "newline" -> new_line(s)
    [] c = "return"  -> move_back_cursor_postion(s)
    [] OTHER         -> move_next_cursor_postion(print_symbol(s, c))

(* printf of a text whose arguments have been put in.                      *)
printf(s, text) == FoldLeft(putchar, s, text)

=============================================================================
