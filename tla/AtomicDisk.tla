----------------------------- MODULE AtomicDisk -----------------------------
(***************************************************************************)
(* What the logging layer promises to the file system: system calls update *)
(* a cached disk image, several calls form one group, and a crash takes    *)
(* the disk back to an image at which no call was in progress -- never to  *)
(* the middle of a call.  Commit may be delayed as long as one likes.      *)
(***************************************************************************)
CONSTANTS Procs,    \* processes that make file system calls
          Blocks,   \* home blocks of the file system
          Value     \* contents of a block

VARIABLES mem,      \* the image the running system reads and writes
          stable,   \* the image a crash goes back to
          active    \* the processes inside a file system call

vars == <<mem, stable, active>>

TypeOK ==
  /\ mem \in [Blocks -> Value]
  /\ stable \in [Blocks -> Value]
  /\ active \subseteq Procs

Init ==
  /\ stable \in [Blocks -> Value]
  /\ mem = stable
  /\ active = {}

Begin(p) ==
  /\ p \notin active
  /\ active' = active \cup {p}
  /\ UNCHANGED <<mem, stable>>

Write(p, b, v) ==
  /\ p \in active
  /\ mem' = [mem EXCEPT ![b] = v]
  /\ UNCHANGED <<stable, active>>

End(p) ==
  /\ p \in active
  /\ active' = active \ {p}
  /\ UNCHANGED <<mem, stable>>

\* The whole group becomes stable at once, with no call in progress.
Commit ==
  /\ active = {}
  /\ stable' = mem
  /\ UNCHANGED <<mem, active>>

Crash ==
  /\ mem' = stable
  /\ active' = {}
  /\ UNCHANGED stable

Next ==
  \/ \E p \in Procs : Begin(p) \/ End(p)
  \/ \E p \in Procs, b \in Blocks, v \in Value : Write(p, b, v)
  \/ Commit
  \/ Crash

Spec == Init /\ [][Next]_vars
=============================================================================
