------------------------------ MODULE KeyQueue ------------------------------
(***************************************************************************)
(* What the keyboard driver promises its reader: once it is up, the        *)
(* characters typed come out once each and in the order they went in; one  *)
(* is lost only when Capacity others are waiting.  Before, any may be lost *)
(* but what is kept is in order and was typed.                             *)
(***************************************************************************)
EXTENDS Naturals, Sequences

CONSTANTS Chars, Capacity

VARIABLES queue,    \* typed and not yet read
          taken,    \* what the reader of the current line has got
          typed,    \* how many characters were typed
          up        \* keyboard_init has returned

Init == queue = <<>> /\ taken = <<>> /\ typed = 0 /\ up = FALSE

Put(c) == Len(queue) < Capacity /\ queue' = Append(queue, c)

Lose == (Len(queue) = Capacity \/ ~ up) /\ UNCHANGED queue

Type ==
  /\ typed' = typed + 1 /\ UNCHANGED <<taken, up>>
  /\ Lose \/ \E c \in Chars : Put(c)

Get ==
  /\ up /\ queue # <<>>
  /\ queue' = Tail(queue) /\ taken' = Append(taken, Head(queue))
  /\ UNCHANGED <<typed, up>>

NextLine == up /\ taken' = <<>> /\ UNCHANGED <<queue, typed, up>>

Start == up' = TRUE /\ UNCHANGED <<queue, taken, typed>>

Next == Type \/ Get \/ NextLine \/ Start

Spec == Init /\ [][Next]_<<queue, taken, typed, up>>
=============================================================================
