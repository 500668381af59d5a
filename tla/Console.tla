------------------------------- MODULE Console -------------------------------
(***************************************************************************)
(* Input from the console (console.c): a ring of INPUT_BUF characters with *)
(* the indices r (read), w (handed over) and e (edited), unsigned integers *)
(* that only grow and wrap around.  cons.lock makes a key, and a turn of   *)
(* consoleread's loop, one step.  A character is blanked once it is read:  *)
(* its place is written before it is read again.  Readers are not killed.  *)
(***************************************************************************)
EXTENDS Integers, Sequences

CONSTANTS
  INPUT_BUF,
  UINT,         \* where the indices wrap: 2^32
  Keys          \* the characters besides the control characters

ASSUME ConsoleAssumption ==
  INPUT_BUF \in Nat \ {0} /\ UINT \in Nat /\ UINT > INPUT_BUF /\ UINT % INPUT_BUF = 0

VARIABLES
  input,      \* the ring and its indices
  asleep      \* readers that sleep on &input.r

Blank == " "
At(i) == i % INPUT_BUF

ConsoleInit ==
  /\ input = [buf |-> [i \in 0..(INPUT_BUF - 1) |-> Blank], r |-> 0, w |-> 0, e |-> 0]
  /\ asleep = {}

-----------------------------------------------------------------------------
(* consoleintr *)

\* How many characters ^U takes back.
RECURSIVE Killed(_)
Killed(i) ==
  IF i.e = i.w \/ i.buf[At(i.e - 1)] = "\n" THEN 0
  ELSE 1 + Killed([i EXCEPT !.e = (@ - 1) % UINT])

\* A line ends with a newline or ^D, or when the ring is full.
EndsLine(c, i) == c \in {"\n", "^D"} \/ i.e = (i.r + INPUT_BUF) % UINT

HasRoom_off_by_one == (input.e - input.r) % UINT <= INPUT_BUF
HasRoom == (input.e - input.r) % UINT < INPUT_BUF

Stored(c) == [input EXCEPT !.buf[At(input.e)] = c, !.e = (@ + 1) % UINT]

\* A carriage return is a newline.
Canonical(c) == IF c = "\r" THEN "\n" ELSE c

consoleintr(c) ==
  LET i == Stored(Canonical(c)) IN
  CASE c = "^U" ->
         /\ input' = [input EXCEPT !.e = (@ - Killed(input)) % UINT]
         /\ UNCHANGED asleep
    [] c = "^H" ->
         /\ input' = [input EXCEPT !.e = IF input.e # input.w THEN (@ - 1) % UINT ELSE @]
         /\ UNCHANGED asleep
    [] OTHER ->
         IF ~HasRoom THEN UNCHANGED <<input, asleep>>
         ELSE IF EndsLine(Canonical(c), i)
           THEN input' = [i EXCEPT !.w = i.e] /\ asleep' = {}   \* wakeup(&input.r)
         ELSE input' = i /\ UNCHANGED asleep

-----------------------------------------------------------------------------
(* consoleread: a reader that asked for n characters and has got some *)

Empty == input.r = input.w
NextChar == input.buf[At(input.r)]

\* ^D is left for the next read when there is something to return before it.
Took(got) ==
  IF NextChar = "^D" /\ got > 0 THEN input
  ELSE [input EXCEPT !.buf[At(input.r)] = Blank, !.r = (@ + 1) % UINT]

\* What the loop does next.
Outcome(n, got) ==
  IF NextChar = "^D" THEN IF got > 0 THEN "return" ELSE "eof"
  ELSE IF NextChar = "\n" \/ got + 1 = n THEN "return" ELSE "more"

console_sleep_unchecked(p) == p \notin asleep /\ asleep' = asleep \cup {p} /\ UNCHANGED input
console_sleep(p) ==
  /\ p \notin asleep /\ Empty
  /\ asleep' = asleep \cup {p}
  /\ UNCHANGED input

console_take(p, got) ==
  /\ p \notin asleep /\ ~Empty
  /\ input' = Took(got)
  /\ UNCHANGED asleep

-----------------------------------------------------------------------------
(* Properties *)

\* consoleread sleeps only while there is nothing to read: consoleintr wakes
\* the readers each time it moves w, also when the line ends for lack of room.
AwakeForInput == asleep # {} => Empty

\* The ring is the two queues of LineQueue, whatever the indices have wrapped
\* to: no key is lost, repeated, overwritten or read before its line ends.
Segment(a, b) == [i \in 1..((b - a) % UINT) |-> input.buf[At(a + i - 1)]]
Lines == INSTANCE LineQueue WITH
  Capacity <- INPUT_BUF, Chars <- Keys \cup {"\n", "^D"}, Ends <- {"\n", "^D"},
  edit <- Segment(input.w, input.e), ready <- Segment(input.r, input.w)
LinesInOrder == Lines!Spec
=============================================================================
