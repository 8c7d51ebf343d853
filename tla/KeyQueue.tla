------------------------------ MODULE KeyQueue ------------------------------
(***************************************************************************)
(* What the keyboard driver promises the terminal: a bounded queue.  Keys  *)
(* come out once each, in the order they went in; a key that finds the     *)
(* queue full, or being read, may be turned away.                          *)
(***************************************************************************)
EXTENDS Naturals, Sequences

CONSTANTS Char,         \* what a key is translated to
          Capacity      \* how many keys the queue holds

VARIABLES queue,        \* the keys stored and not yet taken
          newest,       \* the key pressed that was stored last
          last          \* the key taken last, or a Char before the first

vars == <<queue, newest, last>>

Init ==
  /\ queue = <<>>
  /\ newest \in Char
  /\ last \in Char

Put ==
  /\ Len(queue) < Capacity
  /\ newest' \in Char
  /\ queue' = Append(queue, newest')
  /\ UNCHANGED last

Take ==
  /\ queue # <<>>
  /\ last' = Head(queue)
  /\ queue' = Tail(queue)
  /\ UNCHANGED newest

Next == Put \/ Take

Spec == Init /\ [][Next]_vars

=============================================================================
