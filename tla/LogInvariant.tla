---------------------------- MODULE LogInvariant ----------------------------
(***************************************************************************)
(* The inductive invariant behind the safety properties of Log: what is    *)
(* true between any two steps when sync() is used as QuietSpec says.       *)
(***************************************************************************)
EXTENDS Log

Booting == mode \in {"boot", "rinstall", "rclear"}

\* p is between the start of commit() and its last wakeup or return.
Committer(p) == pc[p] \in CommitPC \cup {"finish"}

Injective(h) == \A i, j \in 1..Len(h) : h[i] = h[j] => i = j

\* The header on disk can always be installed: distinct blocks, enough slots.
HeadInv == Injective(dhead) /\ Len(dhead) <= LOGSIZE

\* Nothing runs before recovery is done, and the cache holds what is on disk.
BootInv ==
  Booting =>
    /\ pc = [p \in Procs |-> "idle"]
    /\ syncing = {} /\ outstanding = 0 /\ ~committing
    /\ buf = [p \in Procs |-> NoBlock]
    /\ touched = [p \in Procs |-> {}]
    /\ dirty = {} /\ cache = home

\* Recovery has copied the first rtail blocks.
RecoveryInv ==
  /\ mode = "boot" => rtail = 0
  /\ mode \in {"rinstall", "rclear"} => lh = dhead /\ rtail <= Len(dhead)
  /\ mode = "rinstall" => \A i \in 1..rtail : home[dhead[i]] = dlog[i]
  /\ mode = "rclear" => \A i \in 1..Len(dhead) : home[dhead[i]] = dlog[i]

\* A committer is alone: no call is active and nobody else commits.  An end_op
\* committer has raised log.committing, which nobody else does.
CommitterInv ==
  /\ syncing \subseteq Syncers
  /\ \A p \in Procs : p \in syncing => Committer(p)
  /\ \A p \in Procs : Committer(p) =>
       /\ p \in syncing \/ committing
       /\ Active = {}
       /\ \A q \in Procs : Committer(q) => q = p
  /\ committing => \E p \in Procs : Committer(p) /\ p \notin syncing

\* What a call has logged is in the header and within what it may log.
CallInv ==
  \A p \in Procs :
    /\ IsFiniteSet(touched[p]) /\ Cardinality(touched[p]) <= OpBlocks
    /\ touched[p] \subseteq Logged(lh)
    /\ ~InOp(p) => touched[p] = {}
    /\ pc[p] = "logging" => /\ buf[p] \in Blocks
                            /\ Cardinality(touched[p] \cup {buf[p]}) <= OpBlocks
    /\ pc[p] # "logging" => buf[p] = NoBlock

\* Someone sleeps only while the log is being committed or used.
SleepInv == (\E p \in Procs : pc[p] = "sleep") => committing \/ outstanding > 0

\* Position i of the log on disk holds the cached contents of its block.
Copied(h, i) == dlog[i] = cache[h[i]]

\* How far the phase of commit() that p is in has come.
PhaseInv ==
  /\ (\A p \in Procs : pc[p] \notin {"install", "zero", "clear"}) => dhead = <<>>
  /\ \A p \in Procs :
       /\ pc[p] = "wlog" => /\ tail[p] <= Len(lh)
                            /\ \A i \in 1..tail[p] : Copied(lh, i)
       /\ pc[p] = "whead" => /\ tail[p] = 0
                             /\ \A i \in 1..Len(lh) : Copied(lh, i)
       /\ pc[p] = "install" => /\ dhead = lh /\ tail[p] <= Len(lh)
                               /\ \A i \in 1..Len(lh) : Copied(lh, i)
                               /\ \A i \in 1..tail[p] : lh[i] \notin dirty
       /\ pc[p] = "zero" => /\ dhead = lh /\ dirty = {}
                            /\ \A i \in 1..Len(lh) : Copied(lh, i)
       /\ pc[p] = "clear" => /\ lh = <<>>
                             /\ \A i \in 1..Len(dhead) : Copied(dhead, i)
       /\ pc[p] = "finish" => lh = <<>>

UpInv ==
  mode = "up" =>
    /\ Injective(lh)
    /\ CommitterInv
    /\ CallInv
    /\ SleepInv
    /\ PhaseInv

\* All of it.
IInv ==
  /\ TypeOK
  /\ HeadInv
  /\ BootInv
  /\ RecoveryInv
  /\ OutstandingCounts
  /\ ReservationKept
  /\ IdleLogHasRoom
  /\ DirtyIsLogged
  /\ CleanIsOnDisk
  /\ UpInv
=============================================================================
