------------------------------ MODULE Terminal ------------------------------
(***************************************************************************)
(* src/kterminal.c: the loop that reads keys, echoes them on the Screen,   *)
(* collects them in the command buffer and runs a line when it ends.  What *)
(* get_keyboard_key gives it is the subject of Keyboard; nothing else      *)
(* touches the screen or the buffer, so one turn of the loop is one step.  *)
(***************************************************************************)
EXTENDS Screen

CONSTANTS
  Keys,                 \* what get_keyboard_key returns besides 0
  Prompt, HelpText,     \* texts the terminal prints: sequences of symbols
  ClearCmd, HelpCmd,    \* the two commands
  Quote,                \* what is printed around an unknown command
  Residue,              \* texts that may follow the buffer in its heap cell
  MaxKeys               \* bound: how many keys are typed

CMD_BUF_SIZE == SCREEN_HIGH * SCREEN_WIDE

Nul == "nul"

Texts == {Prompt, HelpText, Quote} \cup Residue

(* What cells and bytes may hold.                                          *)
Symbols == {Blank, Nul} \cup Keys \cup UNION {ToSet(text) : text \in Texts}

ASSUME TerminalAssumption ==
  "newline" \in Keys /\ Texts \subseteq Seq(Symbols) /\ MaxKeys \in Nat

VARIABLES
  screen,
  cmd_buf, cur_cmd_buf_pos,
  started,
  keys,                 \* how many keys were typed
  line,                 \* symbols typed since the last newline (history)
  paper                 \* all that was printed (history)

vars == <<screen, cmd_buf, cur_cmd_buf_pos, started, keys, line, paper>>

P == INSTANCE Paper WITH Wide <- SCREEN_WIDE, High <- SCREEN_HIGH

Zeros == [n \in 1 .. CMD_BUF_SIZE |-> Nul]

(* The screen as init_screen leaves it, and a heap cell not yet given.     *)
Init ==
  /\ screen = clear_screen
  /\ cmd_buf = <<>> /\ cur_cmd_buf_pos = 0
  /\ started = FALSE
  /\ keys = 0 /\ line = <<>>
  /\ paper = P!Fresh

(* start_terminal up to its loop, init_buf included.                       *)
start_terminal ==
  /\ ~started
  /\ started' = TRUE
  /\ cmd_buf' = Zeros /\ cur_cmd_buf_pos' = 0
  /\ screen' = printf(screen, Prompt)
  /\ paper' = P!WriteAll(paper, Prompt)
  /\ UNCHANGED <<keys, line>>

IsText(c) == c \notin {"newline", "return"}

add_char_to_buf(c) ==
  IF cur_cmd_buf_pos < CMD_BUF_SIZE /\ IsText(c)
  THEN /\ cmd_buf' = [cmd_buf EXCEPT ![cur_cmd_buf_pos + 1] = c]
       /\ cur_cmd_buf_pos' = cur_cmd_buf_pos + 1
  ELSE UNCHANGED <<cmd_buf, cur_cmd_buf_pos>>

(* Mutant of clear_buf: the position is reset before the bytes are.        *)
clear_buf_position_first == cmd_buf' = cmd_buf /\ cur_cmd_buf_pos' = 0

clear_buf ==
  /\ cmd_buf' = [n \in 1 .. CMD_BUF_SIZE |->
                   IF n <= cur_cmd_buf_pos THEN Nul ELSE cmd_buf[n]]
  /\ cur_cmd_buf_pos' = 0

(* The C string in the buffer.  A full buffer has no 0 at its end: what is *)
(* read goes on with the bytes that follow.                                *)
CString(rest) ==
  LET n == SelectInSeq(cmd_buf, LAMBDA c : c = Nul)
  IN  IF n = 0 THEN cmd_buf \o rest ELSE SubSeq(cmd_buf, 1, n - 1)

(* What run_cmd prints after the newline was echoed.                       *)
Output(cmd) ==
  IF cmd = ClearCmd THEN <<>> ELSE IF cmd = HelpCmd THEN HelpText ELSE Quote \o cmd \o Quote

EchoKey(c) ==
  /\ c # "newline"
  /\ screen' = putchar(screen, c)
  /\ paper' = P!WriteAll(paper, <<c>>)
  /\ add_char_to_buf(c)
  /\ line' = IF IsText(c) THEN Append(line, c) ELSE line

run_cmd(rest) ==
  LET cmd  == CString(rest)
      text == Output(cmd) \o <<"newline">> \o Prompt
  IN  /\ screen' = printf(IF cmd = ClearCmd THEN clear_screen
                          ELSE putchar(screen, "newline"), text)
      /\ paper' = IF cmd = ClearCmd THEN P!WriteAll(P!Fresh, text)
                  ELSE P!WriteAll(paper, <<"newline">> \o text)

EndLine ==
  /\ \E rest \in Residue : run_cmd(rest)
  /\ clear_buf
  /\ line' = <<>>

Loop(c) ==
  /\ started
  /\ keys < MaxKeys
  /\ keys' = keys + 1
  /\ EchoKey(c) \/ (c = "newline" /\ EndLine)
  /\ UNCHANGED started

Next == start_terminal \/ \E c \in Keys : Loop(c)

Spec == Init /\ [][Next]_vars

-----------------------------------------------------------------------------
(* Type correctness; the cursor is on the screen.                          *)
TypeOK ==
  /\ screen.x \in 0 .. SCREEN_WIDE - 1 /\ screen.y \in 0 .. SCREEN_HIGH - 1
  /\ DOMAIN screen.cell = Cells
  /\ started => Len(cmd_buf) = CMD_BUF_SIZE
  /\ cur_cmd_buf_pos \in 0 .. CMD_BUF_SIZE
  /\ started \in BOOLEAN /\ keys \in 0 .. MaxKeys

(* The screen shows the last lines of all that was printed, the cursor     *)
(* where the next symbol goes, through any mix of scrolling, wrapping and  *)
(* backspaces over the ends of lines; unless a backspace went past the     *)
(* first cell of the screen, where move_back_cursor_postion wraps -1.  Even*)
(* then the cursor stays on the screen, as the types say.                  *)
ScreenShowsPaper ==
  /\ TypeOK
  /\ ~paper.lost =>
       /\ screen.cell = P!Window(paper)
       /\ screen.y * SCREEN_WIDE + screen.x = paper.pen - paper.top * SCREEN_WIDE

(* The buffer holds the line that is being typed, cut at its size, and     *)
(* zeros after it: nothing of an earlier line is left to be run again.     *)
BufferHoldsLine ==
  started =>
    /\ cur_cmd_buf_pos = IF Len(line) < CMD_BUF_SIZE THEN Len(line) ELSE CMD_BUF_SIZE
    /\ \A n \in 1 .. CMD_BUF_SIZE : cmd_buf[n] = IF n <= Len(line) THEN line[n] ELSE Nul

=============================================================================
