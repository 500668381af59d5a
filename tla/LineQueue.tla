------------------------------ MODULE LineQueue ------------------------------
(***************************************************************************)
(* What the console promises a program: keys are edited until the line     *)
(* ends, and lines are handed over in the order they were typed.           *)
(***************************************************************************)
EXTENDS Naturals, Sequences

CONSTANTS Capacity, Chars, Ends
VARIABLES
  edit,    \* the keys of the line being typed
  ready    \* the keys of finished lines that nobody has read

Room == Len(edit) + Len(ready) < Capacity

Init == edit = <<>> /\ ready = <<>>

\* A key of a line, which the last one that fits ends.
Key(c) ==
  /\ Room
  /\ c \notin Ends
  /\ IF Len(edit) + Len(ready) + 1 < Capacity
       THEN edit' = Append(edit, c) /\ UNCHANGED ready
       ELSE edit' = <<>> /\ ready' = ready \o Append(edit, c)

End(c) == Room /\ c \in Ends /\ edit' = <<>> /\ ready' = ready \o Append(edit, c)

Erase ==
  /\ edit # <<>>
  /\ \E n \in {Len(edit) - 1, 0} : edit' = SubSeq(edit, 1, n)
  /\ UNCHANGED ready

Read == ready # <<>> /\ ready' = Tail(ready) /\ UNCHANGED edit

Next == (\E c \in Chars : Key(c) \/ End(c)) \/ Erase \/ Read

Spec == Init /\ [][Next]_<<edit, ready>>
=============================================================================
