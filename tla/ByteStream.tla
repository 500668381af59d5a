----------------------------- MODULE ByteStream -----------------------------
(***************************************************************************)
(* What pipes promise: each is a queue of at most PIPESIZE bytes, written  *)
(* at the back through one end and read from the front through the other,  *)
(* which keeps its bytes as long as an end is open.                        *)
(***************************************************************************)
EXTENDS Naturals, Sequences

CONSTANTS
  Pipes, PIPESIZE,
  Payloads   \* the sequences of bytes a write may carry

VARIABLES
  queue,     \* bytes written to a pipe and not read
  readers,   \* pipes whose read end is open,
  writers    \* and those whose write end is

ends == <<readers, writers>>

Init ==
  /\ queue = [pp \in Pipes |-> <<>>]
  /\ readers = {} /\ writers = {}

Create(pp) ==
  /\ pp \notin readers \cup writers
  /\ readers' = readers \cup {pp} /\ writers' = writers \cup {pp}
  /\ UNCHANGED queue

\* A run of the bytes of a write: what there is room for.
Send(pp) ==
  /\ pp \in writers
  /\ \E w \in Payloads : \E i, j \in 1..Len(w) :
       /\ i <= j /\ Len(queue[pp]) + j - i < PIPESIZE
       /\ queue' = [queue EXCEPT ![pp] = @ \o SubSeq(w, i, j)]
  /\ UNCHANGED ends

Receive(pp) ==
  /\ pp \in readers
  /\ \E k \in 1..Len(queue[pp]) : queue' = [queue EXCEPT ![pp] = SubSeq(@, k + 1, Len(@))]
  /\ UNCHANGED ends

\* One end closes; the bytes nobody read go with the second one.
Close(pp) ==
  /\ \/ pp \in readers /\ readers' = readers \ {pp} /\ UNCHANGED writers
     \/ pp \in writers /\ writers' = writers \ {pp} /\ UNCHANGED readers
  /\ queue' = IF pp \in readers' \cup writers' THEN queue ELSE [queue EXCEPT ![pp] = <<>>]

Next == \E pp \in Pipes : Create(pp) \/ Send(pp) \/ Receive(pp) \/ Close(pp)

Spec == Init /\ [][Next]_<<queue, ends>>
=============================================================================
