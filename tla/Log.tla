-------------------------------- MODULE Log --------------------------------
(***************************************************************************)
(* The write-ahead log of the kernel (log.c) with delayed group commit:    *)
(* end_op commits only when no call is outstanding and more than half of   *)
(* the log is used; sync() commits on demand.                              *)
(*                                                                         *)
(* Steps are what log.lock, a buffer's sleep lock or one disk write makes  *)
(* atomic.  The entries of lh.block at or past lh.n are never read, so the *)
(* in-memory header and the on-disk header are the sequences of their      *)
(* first n entries.  cache[b] is what bread(b) returns: the buffer if      *)
(* there is one, the disk otherwise.                                       *)
(***************************************************************************)
EXTENDS Naturals, Sequences, FiniteSets

CONSTANTS
  Procs,        \* processes that make file system calls
  Syncers,      \* those of them that also call sync()
  Blocks,       \* home blocks
  NoBlock,      \* "no buffer held"
  Value,        \* contents of a block
  MAXOPBLOCKS,  \* blocks begin_op reserves for one call
  OpBlocks,     \* distinct blocks a call really logs, at most
  LOGSIZE,      \* entries of lh.block
  NLog          \* log.size = sb.nlog: blocks of the on-disk log, header included

ASSUME SetAssumption ==
  /\ IsFiniteSet(Procs)
  /\ Syncers \subseteq Procs
  /\ NoBlock \notin Blocks

ASSUME SizeAssumption ==
  /\ MAXOPBLOCKS \in Nat
  /\ OpBlocks \in Nat
  /\ OpBlocks <= MAXOPBLOCKS
  /\ LOGSIZE \in Nat
  /\ NLog \in Nat \ {0}

\* An idle log below the commit threshold has room for one more call.
ASSUME RoomAssumption == NLog \div 2 + MAXOPBLOCKS <= LOGSIZE

VARIABLES
  mode,         \* "boot", "rinstall", "rclear": in initlog; "up"; "panic"
  rtail,        \* tail of recovery's install_trans
  pc,           \* where each process is
  syncing,      \* processes whose commit() was called by sys_sync
  outstanding,  \* log.outstanding
  committing,   \* log.committing
  lh,           \* log.lh
  tail,         \* loop counter of write_log and install_trans
  buf,          \* the locked buffer a process is passing to log_write
  touched,      \* blocks the current call of a process has logged
  cache,        \* what bread returns for a home block
  dirty,        \* home blocks whose buffer has B_DIRTY
  dhead,        \* on disk: the header block
  dlog,         \* on disk: the log blocks, by position
  home          \* on disk: the home blocks

boot  == <<mode, rtail>>
calls == <<syncing, outstanding, committing, buf, touched>>
kmem  == <<pc, tail, calls>>
bufs  == <<cache, dirty>>
disk  == <<dhead, dlog, home>>
vars  == <<boot, kmem, lh, bufs, disk>>

Slots == 1..LOGSIZE

\* The blocks a header lists.
Logged(h) == {h[i] : i \in 1..Len(h)}

CommitPC == {"wlog", "whead", "install", "zero", "clear"}
PCs == {"idle", "begin", "sleep", "op", "logging", "finish"} \cup CommitPC

InOp(p) == pc[p] \in {"op", "logging"}
Active == {p \in Procs : InOp(p)}

TypeOK ==
  /\ mode \in {"boot", "rinstall", "rclear", "up", "panic"}
  /\ rtail \in Nat
  /\ pc \in [Procs -> PCs]
  /\ syncing \subseteq Procs
  /\ outstanding \in Nat
  /\ committing \in BOOLEAN
  /\ lh \in Seq(Blocks)
  /\ tail \in [Procs -> Nat]
  /\ buf \in [Procs -> Blocks \cup {NoBlock}]
  /\ touched \in [Procs -> SUBSET Blocks]
  /\ cache \in [Blocks -> Value]
  /\ dirty \subseteq Blocks
  /\ dhead \in Seq(Blocks)
  /\ dlog \in [Slots -> Value]
  /\ home \in [Blocks -> Value]

-----------------------------------------------------------------------------
(* Boot.  The kernel's memory is zero, the buffer cache is empty. *)

\* A file system as mkfs leaves it: an empty log header.
Init ==
  /\ mode = "boot"
  /\ rtail = 0
  /\ pc = [p \in Procs |-> "idle"]
  /\ syncing = {}
  /\ outstanding = 0
  /\ committing = FALSE
  /\ lh = <<>>
  /\ tail = [p \in Procs |-> 0]
  /\ buf = [p \in Procs |-> NoBlock]
  /\ touched = [p \in Procs |-> {}]
  /\ dirty = {}
  /\ dhead = <<>>
  /\ dlog \in {[i \in Slots |-> v] : v \in Value}
  /\ home \in {[b \in Blocks |-> v] : v \in Value}
  /\ cache = home

\* Power failure, or reset after a panic: memory is lost, the disk is not.
Crash ==
  /\ mode' = "boot"
  /\ rtail' = 0
  /\ pc' = [p \in Procs |-> "idle"]
  /\ syncing' = {}
  /\ outstanding' = 0
  /\ committing' = FALSE
  /\ lh' = <<>>
  /\ tail' = [p \in Procs |-> 0]
  /\ buf' = [p \in Procs |-> NoBlock]
  /\ touched' = [p \in Procs |-> {}]
  /\ dirty' = {}
  /\ cache' = home
  /\ UNCHANGED disk

read_head ==
  /\ mode = "boot"
  /\ lh' = dhead
  /\ mode' = "rinstall"
  /\ UNCHANGED <<rtail, kmem, bufs, disk>>

\* install_trans reads log block t and overwrites the home block with it,
\* in the cache and on disk; the write clears B_DIRTY.
CopyHome(t) ==
  /\ cache' = [cache EXCEPT ![lh[t]] = dlog[t]]
  /\ home' = [home EXCEPT ![lh[t]] = dlog[t]]
  /\ dirty' = dirty \ {lh[t]}

recover_install ==
  /\ mode = "rinstall"
  /\ IF rtail < Len(lh)
       THEN /\ CopyHome(rtail + 1)
            /\ rtail' = rtail + 1
            /\ UNCHANGED mode
       ELSE /\ mode' = "rclear"
            /\ UNCHANGED <<rtail, bufs, home>>
  /\ UNCHANGED <<kmem, lh, dhead, dlog>>

recover_clear ==
  /\ mode = "rclear"
  /\ lh' = <<>>
  /\ dhead' = <<>>
  /\ rtail' = 0
  /\ mode' = "up"
  /\ UNCHANGED <<kmem, bufs, dlog, home>>

-----------------------------------------------------------------------------
(* begin_op, log_write and end_op. *)

\* wakeup(&log) makes every sleeper run begin_op's loop again.
Woken(q) == IF pc[q] = "sleep" THEN "begin" ELSE pc[q]

\* begin_op's two reasons to sleep.
MustWait_off_by_one == committing \/ Len(lh) + outstanding * MAXOPBLOCKS > LOGSIZE
MustWait == committing \/ Len(lh) + (outstanding + 1) * MAXOPBLOCKS > LOGSIZE

\* end_op's decision to commit; outstanding has not been decremented yet.
DoCommit == outstanding = 1 /\ Len(lh) > NLog \div 2

\* log_write's scan of the header: a block that is there is not added again.
Absorb(h, b) == IF b \in Logged(h) THEN h ELSE Append(h, b)

\* A pass of begin_op's loop, under log.lock; sleep() releases the lock and
\* sleeps in one step, a woken process starts the loop again.
begin_op(p) ==
  /\ mode = "up"
  /\ pc[p] \in {"idle", "begin"}
  /\ IF MustWait
       THEN /\ pc' = [pc EXCEPT ![p] = "sleep"]
            /\ UNCHANGED outstanding
       ELSE /\ pc' = [pc EXCEPT ![p] = "op"]
            /\ outstanding' = outstanding + 1
  /\ UNCHANGED <<boot, syncing, committing, tail, buf, touched, lh, bufs, disk>>

\* bread waits for the sleep lock of a buffer another process holds.
Unlocked(b) == \A q \in Procs : buf[q] # b

\* log_write's limit on the transaction.
TooBig_off_by_one == Len(lh) >= LOGSIZE \/ Len(lh) + 2 >= NLog
TooBig == Len(lh) >= LOGSIZE \/ Len(lh) + 1 >= NLog

\* The caller has locked b's buffer; log_write looks at lh.n before it takes
\* log.lock.
log_write_check(p, b) ==
  /\ mode = "up"
  /\ pc[p] = "op"
  /\ Unlocked(b)
  /\ Cardinality(touched[p] \cup {b}) <= OpBlocks
  /\ IF TooBig \/ outstanding < 1
       THEN /\ mode' = "panic"
            /\ UNCHANGED <<pc, buf>>
       ELSE /\ pc' = [pc EXCEPT ![p] = "logging"]
            /\ buf' = [buf EXCEPT ![p] = b]
            /\ UNCHANGED mode
  /\ UNCHANGED <<rtail, syncing, outstanding, committing, tail, touched, lh, bufs, disk>>

\* The rest of log_write, under log.lock, and brelse.  The new contents v,
\* written while the buffer is locked, become visible here.
log_write(p, v) ==
  LET b == buf[p] IN
  /\ mode = "up"
  /\ pc[p] = "logging"
  /\ cache' = [cache EXCEPT ![b] = v]
  /\ lh' = Absorb(lh, b)
  /\ dirty' = dirty \cup {b}
  /\ touched' = [touched EXCEPT ![p] = @ \cup {b}]
  /\ buf' = [buf EXCEPT ![p] = NoBlock]
  /\ pc' = [pc EXCEPT ![p] = "op"]
  /\ UNCHANGED <<boot, syncing, outstanding, committing, tail, disk>>

\* commit() does nothing for an empty log and starts with write_log.
CommitEntry_head_first == IF Len(lh) > 0 THEN "whead" ELSE "finish"
CommitEntry_dropped == IF Len(lh) > 0 THEN "zero" ELSE "finish"
CommitEntry == IF Len(lh) > 0 THEN "wlog" ELSE "finish"

end_op(p) ==
  /\ mode = "up"
  /\ pc[p] = "op"
  /\ outstanding' = outstanding - 1
  /\ touched' = [touched EXCEPT ![p] = {}]
  /\ mode' = IF committing THEN "panic" ELSE mode
  /\ IF DoCommit
       THEN /\ committing' = TRUE
            /\ pc' = [pc EXCEPT ![p] = CommitEntry]
            /\ tail' = [tail EXCEPT ![p] = 0]
       ELSE /\ pc' = [q \in Procs |-> IF q = p THEN "idle" ELSE Woken(q)]
            /\ UNCHANGED <<committing, tail>>
  /\ UNCHANGED <<rtail, syncing, buf, lh, bufs, disk>>

\* sys_sync calls commit() whatever the other processes are doing.
sys_sync(p) ==
  /\ mode = "up"
  /\ p \in Syncers
  /\ pc[p] = "idle"
  /\ syncing' = syncing \cup {p}
  /\ pc' = [pc EXCEPT ![p] = CommitEntry]
  /\ tail' = [tail EXCEPT ![p] = 0]
  /\ UNCHANGED <<boot, outstanding, committing, buf, touched, lh, bufs, disk>>

-----------------------------------------------------------------------------
(* commit(), one disk write at a time. *)

At(p, phase) == mode = "up" /\ pc[p] = phase

Goto(p, phase) == pc' = [pc EXCEPT ![p] = phase]

write_log_uncounted(p) ==
  /\ At(p, "wlog")
  /\ dlog' = [dlog EXCEPT ![tail[p] + 1] = cache[lh[tail[p] + 1]]]
  /\ UNCHANGED <<boot, kmem, lh, bufs, dhead, home>>
write_log(p) ==
  /\ At(p, "wlog")
  /\ IF tail[p] < Len(lh)
       THEN /\ Unlocked(lh[tail[p] + 1])
            /\ dlog' = [dlog EXCEPT ![tail[p] + 1] = cache[lh[tail[p] + 1]]]
            /\ tail' = [tail EXCEPT ![p] = @ + 1]
            /\ UNCHANGED pc
       ELSE /\ Goto(p, "whead")
            /\ tail' = [tail EXCEPT ![p] = 0]
            /\ UNCHANGED dlog
  /\ UNCHANGED <<boot, calls, lh, bufs, dhead, home>>

\* The commit point.
write_head(p) ==
  /\ At(p, "whead")
  /\ dhead' = lh
  /\ Goto(p, "install")
  /\ UNCHANGED <<boot, calls, tail, lh, bufs, dlog, home>>

install_trans(p) ==
  /\ At(p, "install")
  /\ IF tail[p] < Len(lh)
       THEN /\ Unlocked(lh[tail[p] + 1])
            /\ CopyHome(tail[p] + 1)
            /\ tail' = [tail EXCEPT ![p] = @ + 1]
            /\ UNCHANGED pc
       ELSE /\ Goto(p, "zero")
            /\ UNCHANGED <<tail, bufs, home>>
  /\ UNCHANGED <<boot, calls, lh, dhead, dlog>>

commit_zero(p) ==
  /\ At(p, "zero")
  /\ lh' = <<>>
  /\ Goto(p, "clear")
  /\ UNCHANGED <<boot, calls, tail, bufs, disk>>

commit_clear(p) ==
  /\ At(p, "clear")
  /\ dhead' = lh
  /\ Goto(p, "finish")
  /\ UNCHANGED <<boot, calls, tail, lh, bufs, dlog, home>>

\* end_op after commit(): clear the flag and wake every sleeper.
end_op_finish(p) ==
  /\ At(p, "finish")
  /\ p \notin syncing
  /\ committing' = FALSE
  /\ pc' = [q \in Procs |-> IF q = p THEN "idle" ELSE Woken(q)]
  /\ tail' = [tail EXCEPT ![p] = 0]
  /\ UNCHANGED <<boot, syncing, outstanding, buf, touched, lh, bufs, disk>>

\* sys_sync returns; its result is 0 when lh.n is 0.
sys_sync_return(p) ==
  /\ At(p, "finish")
  /\ p \in syncing
  /\ syncing' = syncing \ {p}
  /\ Goto(p, "idle")
  /\ tail' = [tail EXCEPT ![p] = 0]
  /\ UNCHANGED <<boot, outstanding, committing, buf, touched, lh, bufs, disk>>

-----------------------------------------------------------------------------
Recovery == read_head \/ recover_install \/ recover_clear

CommitStep(p) ==
  \/ write_log(p)
  \/ write_head(p)
  \/ install_trans(p)
  \/ commit_zero(p)
  \/ commit_clear(p)
  \/ end_op_finish(p)
  \/ sys_sync_return(p)

ProcStep(p) ==
  \/ begin_op(p)
  \/ \E b \in Blocks : log_write_check(p, b)
  \/ \E v \in Value : log_write(p, v)
  \/ end_op(p)
  \/ sys_sync(p)
  \/ CommitStep(p)

Next == Recovery \/ Crash \/ \E p \in Procs : ProcStep(p)

Spec == Init /\ [][Next]_vars

\* sync() is called only while nobody else makes a file system call, and
\* nobody starts one before it returns.  Nothing in the code sees to that:
\* it is how a program has to use sync() for commit() to be safe.
SyncUndisturbed == \A p \in syncing : \A q \in Procs \ {p} : pc[q] = "idle"

QuietNext == Next /\ SyncUndisturbed'

QuietSpec == Init /\ [][QuietNext]_vars

\* Every runnable process is scheduled and every disk write completes.  A
\* file system call logs finitely many blocks, so one that keeps reaching
\* end_op takes it.  Nobody has to start a call, and the machine need not crash.
Fairness ==
  /\ WF_vars(Recovery)
  /\ \A p \in Procs :
       /\ WF_vars(pc[p] = "begin" /\ begin_op(p))
       /\ WF_vars(\E v \in Value : log_write(p, v))
       /\ SF_vars(end_op(p))
       /\ WF_vars(CommitStep(p))

FairSpec == Spec /\ Fairness

-----------------------------------------------------------------------------
(* Properties. *)

\* A call stays at least one block below its reservation, and the log on disk
\* has a block for everything that can then be logged.
RegionRoom ==
  /\ OpBlocks < MAXOPBLOCKS
  /\ LOGSIZE + OpBlocks < NLog + MAXOPBLOCKS

\* The same, with one block to spare.
PanicRoom ==
  /\ OpBlocks < MAXOPBLOCKS
  /\ LOGSIZE + OpBlocks + 1 < NLog + MAXOPBLOCKS

\* log.outstanding counts the calls between begin_op and end_op.
OutstandingCounts ==
  mode = "up" => outstanding = Cardinality(Active)

\* An idle log that is not being committed is at most half full: end_op
\* leaves a fuller one only to commit() (log.c:154).
IdleLogHasRoom ==
  mode = "up" /\ outstanding = 0 /\ ~committing => Len(lh) <= NLog \div 2

\* Nobody sleeps on &log unless someone is left who will call wakeup(&log):
\* a call that has yet to reach end_op, or the committer.
SleeperHasWaker ==
  mode = "up" /\ (\E p \in Procs : pc[p] = "sleep") =>
    \E q \in Procs : InOp(q) \/ (pc[q] \in CommitPC \cup {"finish"} /\ q \notin syncing)

\* The blocks begin_op has promised to the running calls and that they have
\* not used yet, one token for each.
Reserved ==
  {t \in Procs \X (1..MAXOPBLOCKS) : InOp(t[1]) /\ t[2] > Cardinality(touched[t[1]])}

\* The check of begin_op keeps its promise: what is logged and what is still
\* reserved fit into lh.block together, however the calls interleave.
ReservationKept ==
  mode = "up" => Len(lh) + Cardinality(Reserved) <= LOGSIZE

\* The log never outgrows its blocks on disk (header plus NLog - 1), although
\* log_write tests lh.n before it takes log.lock (log.c:223).
LogInRegion == mode = "up" => Len(lh) < NLog

\* No call reaches one of the panics of log_write and end_op.
NoPanic == mode # "panic"

\* "The logging system only commits when there are no FS system calls active"
\* (log.c:12), and one process commits at a time.  False as soon as sync() is
\* called during another process's call.
CommitExcludesCalls ==
  \A p \in Procs : mode = "up" /\ pc[p] \in CommitPC =>
    /\ Active = {}
    /\ \A q \in Procs \ {p} : pc[q] \notin CommitPC

\* What end_op's tests of log.outstanding and log.committing do achieve,
\* however sync() is used: a commit that end_op starts overlaps no call and no
\* other such commit, from its first write to its last wakeup.
EndOpCommitsAlone ==
  \A p \in Procs : mode = "up" /\ pc[p] \in CommitPC \cup {"finish"} /\ p \notin syncing =>
    /\ Active = {}
    /\ \A q \in Procs \ ({p} \cup syncing) : pc[q] \notin CommitPC \cup {"finish"}

\* A buffer pinned with B_DIRTY is recorded in the header, so that a later
\* commit writes and unpins it (log.c:210).
DirtyIsLogged == mode = "up" => dirty \subseteq Logged(lh)

\* A buffer without B_DIRTY may be evicted at any time, so it must equal the
\* block on disk.
CleanIsOnDisk == mode = "up" => \A b \in Blocks \ dirty : cache[b] = home[b]

\* The last position at which a header lists b: install_trans goes upwards.
SlotOf(h, b) ==
  CHOOSE i \in 1..Len(h) : h[i] = b /\ \A j \in 1..Len(h) : h[j] = b => j <= i

\* What the home blocks will hold when recover_from_log has run.
Recovered ==
  [b \in Blocks |-> IF b \in Logged(dhead) THEN dlog[SlotOf(dhead, b)] ELSE home[b]]

\* What the running system takes the disk to contain.
Image == IF mode \in {"up", "panic"} THEN cache ELSE Recovered

Disk == INSTANCE AtomicDisk WITH mem <- Image, stable <- Recovered, active <- Active

\* The log implements a disk whose groups of calls are atomic across a crash
\* at any point of commit() and of recovery itself.
CrashAtomic == Disk!Spec

\* When sync() returns 0, everything written before it survives a crash.
SyncDurable ==
  [][\A p \in Procs : sys_sync_return(p) /\ lh = <<>> => Recovered = cache]_vars

\* A process waits in begin_op for ever only while others keep making calls:
\* no wakeup is lost and an idle log always lets it in.
WaitsOnlyForOthers ==
  \A p \in Procs :
    <>[](pc[p] \in {"begin", "sleep"}) => []<>(\E q \in Procs \ {p} : InOp(q))
=============================================================================
