---------------------------- MODULE OrderedPipe ----------------------------
(***************************************************************************)
(* What a transforming stream promises to who reads it: what is written    *)
(* comes out in order, and 'end' comes once, after all of it.  Zlib        *)
(* implements it.                                                          *)
(***************************************************************************)
EXTENDS Naturals, Sequences

VARIABLES
  written,  \* units accepted; they are numbered from 1
  closed,   \* has end() been called?
  taken,    \* the units the reader has taken
  ended     \* has 'end' been emitted?

vars == <<written, closed, taken, ended>>

Init ==
  /\ written = 0
  /\ closed = FALSE
  /\ taken = <<>>
  /\ ended = FALSE

Accept ==
  /\ ~closed
  /\ written' \in Nat /\ written' > written
  /\ UNCHANGED <<closed, taken, ended>>

Close ==
  /\ closed' = TRUE
  /\ UNCHANGED <<written, taken, ended>>

Take ==
  /\ ~ended
  /\ \E n \in Len(taken) + 1 .. written : taken' = [i \in 1 .. n |-> i]
  /\ UNCHANGED <<written, closed, ended>>

End ==
  /\ closed /\ Len(taken) = written
  /\ ended' = TRUE
  /\ UNCHANGED <<written, closed, taken>>

Next == Accept \/ Close \/ Take \/ End

Spec == Init /\ [][Next]_vars
=============================================================================
