------------------------------- MODULE Bcache -------------------------------
(***************************************************************************)
(* The buffer cache (bio.c) over the disk driver (ide.c), with the sleep   *)
(* lock of every buffer (sleeplock.c).                                     *)
(*                                                                         *)
(* A step is what bcache.lock, the spin lock inside a sleep lock or        *)
(* idelock makes atomic.  Between bread and brelse a process may look at   *)
(* the block, change it and call log_write, which pins the buffer with     *)
(* B_DIRTY, change it and call bwrite, as commit() does, or read another   *)
(* block and keep the first: install_trans and write_log hold a log block  *)
(* and its home block, itrunc the indirect blocks on its way down and      *)
(* below them bfree's bitmap block, four buffers in all.  The code nests   *)
(* them in one order, log block, indirect blocks from the inode down,      *)
(* bitmap block; Rank is that order.  Which of the unused buffers is       *)
(* recycled depends on the order of the MRU list; the model leaves it open.*)
(***************************************************************************)
EXTENDS Naturals, Sequences, FiniteSets

CONSTANTS
  Procs, Nobody,
  Bufs,        \* bcache.buf: NBUF of them
  Blocks, NoBlock,
  Rank,        \* the order in which the callers nest their bread calls
  Value

ASSUME SetAssumption ==
  /\ IsFiniteSet(Procs) /\ Nobody \notin Procs
  /\ IsFiniteSet(Bufs) /\ NoBlock \notin Blocks
  /\ Rank \in [Blocks -> Nat]

VARIABLES
  blockno, refcnt, valid, dirty, data,   \* fields of the buffers
  owner,       \* the pid in the buffer's sleep lock, Nobody when unlocked
  idequeue,    \* buffers waiting for the disk; the first one is being served
  disk,
  pc, cur,     \* where each process is, and the buffer of its last call
  want,        \* want[p][b]: the block p asked bread for and got b, NoBlock when
               \* p has no pointer to b
  written      \* what the last change to a block left in it

fields == <<blockno, refcnt, valid, dirty, data>>
vars == <<fields, owner, idequeue, disk, pc, cur, want, written>>

\* run: outside bio.c, with any number of locked buffers; lock: in
\* acquiresleep; lsleep: asleep there; io: asleep in iderw; release: in brelse,
\* the lock given up.
PCs == {"run", "lock", "lsleep", "io", "release", "panic"}

TypeOK ==
  /\ blockno \in [Bufs -> Blocks \cup {NoBlock}]
  /\ refcnt \in [Bufs -> Nat]
  /\ valid \in [Bufs -> BOOLEAN]
  /\ dirty \in [Bufs -> BOOLEAN]
  /\ data \in [Bufs -> Value]
  /\ owner \in [Bufs -> Procs \cup {Nobody}]
  /\ idequeue \in Seq(Bufs)
  /\ disk \in [Blocks -> Value]
  /\ pc \in [Procs -> PCs]
  /\ cur \in [Procs -> Bufs]
  /\ want \in [Procs -> [Bufs -> Blocks \cup {NoBlock}]]
  /\ written \in [Blocks -> Value]

\* binit, and the caller's memory before its first bread.
Init ==
  /\ blockno = [b \in Bufs |-> NoBlock]
  /\ refcnt = [b \in Bufs |-> 0]
  /\ valid = [b \in Bufs |-> FALSE]
  /\ dirty = [b \in Bufs |-> FALSE]
  /\ \E v \in Value : data = [b \in Bufs |-> v] /\ disk = [x \in Blocks |-> v]
  /\ owner = [b \in Bufs |-> Nobody]
  /\ idequeue = <<>>
  /\ pc = [p \in Procs |-> "run"]
  /\ cur \in {[p \in Procs |-> b] : b \in Bufs}
  /\ want = [p \in Procs |-> [b \in Bufs |-> NoBlock]]
  /\ written = disk

-----------------------------------------------------------------------------
(* bread *)

\* p has returned from bget and not yet from brelse.
Using(p, b) == want[p][b] # NoBlock
\* p may call bread for x: it is running, and x comes after all it holds.
MayRead(p, x) == pc[p] = "run" /\ \A b \in Bufs : Using(p, b) => Rank[want[p][b]] < Rank[x]

Cached(b, x) == blockno[b] = x
Recyclable_dirty(b) == refcnt[b] = 0
Recyclable(b) == refcnt[b] = 0 /\ ~dirty[b]

\* bget under bcache.lock: the buffer of the block,
bget_hit(p, x) ==
  /\ MayRead(p, x)
  /\ \E b \in Bufs :
       /\ Cached(b, x)
       /\ refcnt' = [refcnt EXCEPT ![b] = @ + 1]
       /\ cur' = [cur EXCEPT ![p] = b]
       /\ want' = [want EXCEPT ![p][b] = x]
  /\ pc' = [pc EXCEPT ![p] = "lock"]
  /\ UNCHANGED <<blockno, valid, dirty, data, owner, idequeue, disk, written>>

\* or an unused one.
bget_recycle(p, x) ==
  /\ MayRead(p, x)
  /\ \A b \in Bufs : ~Cached(b, x)
  /\ IF \A b \in Bufs : ~Recyclable(b)
       THEN /\ pc' = [pc EXCEPT ![p] = "panic"]          \* bget: no buffers
            /\ UNCHANGED <<blockno, valid, refcnt, cur, want>>
       ELSE /\ \E b \in Bufs :
                 /\ Recyclable(b)
                 /\ blockno' = [blockno EXCEPT ![b] = x]
                 /\ valid' = [valid EXCEPT ![b] = FALSE]      \* b->flags = 0
                 /\ refcnt' = [refcnt EXCEPT ![b] = 1]
                 /\ cur' = [cur EXCEPT ![p] = b]
                 /\ want' = [want EXCEPT ![p][b] = x]
            /\ pc' = [pc EXCEPT ![p] = "lock"]
  /\ UNCHANGED <<dirty, data, owner, idequeue, disk, written>>

\* A pass of acquiresleep's loop, and the rest of bread: what is not B_VALID
\* goes to the disk.
acquiresleep(p) ==
  LET b == cur[p] IN
  /\ pc[p] = "lock"
  /\ IF owner[b] # Nobody
       THEN /\ pc' = [pc EXCEPT ![p] = "lsleep"]
            /\ UNCHANGED <<owner, idequeue>>
       ELSE /\ owner' = [owner EXCEPT ![b] = p]
            /\ IF valid[b]
                 THEN /\ pc' = [pc EXCEPT ![p] = "run"]
                      /\ UNCHANGED idequeue
                 ELSE /\ pc' = [pc EXCEPT ![p] = "io"]
                      /\ idequeue' = Append(idequeue, b)
  /\ UNCHANGED <<fields, disk, cur, want, written>>

-----------------------------------------------------------------------------
(* The disk *)

\* The transfer of the first queued buffer is done: a write if it is B_DIRTY,
\* a read if not.  wakeup(b) lets its process return from iderw.
IoDone(b) == [p \in Procs |-> IF pc[p] = "io" /\ cur[p] = b THEN "run" ELSE pc[p]]

ideintr(b) ==
  /\ idequeue # <<>> /\ b = Head(idequeue)
  /\ idequeue' = Tail(idequeue)
  /\ IF dirty[b]
       THEN disk' = [disk EXCEPT ![blockno[b]] = data[b]] /\ UNCHANGED data
       ELSE data' = [data EXCEPT ![b] = disk[blockno[b]]] /\ UNCHANGED disk
  /\ valid' = [valid EXCEPT ![b] = TRUE]
  /\ dirty' = [dirty EXCEPT ![b] = FALSE]
  /\ pc' = IoDone(b)
  /\ UNCHANGED <<blockno, refcnt, owner, cur, want, written>>

-----------------------------------------------------------------------------
(* What a process does with the locked buffer *)

\* The caller's change and log_write; the log has room for it (log_check).
log_write(p, b, v) ==
  /\ pc[p] = "run" /\ owner[b] = p
  /\ data' = [data EXCEPT ![b] = v]
  /\ dirty' = [dirty EXCEPT ![b] = TRUE]
  /\ written' = [written EXCEPT ![want[p][b]] = v]
  /\ UNCHANGED <<blockno, refcnt, valid, owner, idequeue, disk, pc, cur, want>>

\* The caller's change, if any, and bwrite: B_DIRTY, then iderw.
bwrite(p, b, v) ==
  /\ pc[p] = "run" /\ owner[b] = p
  /\ data' = [data EXCEPT ![b] = v]
  /\ dirty' = [dirty EXCEPT ![b] = TRUE]
  /\ written' = [written EXCEPT ![want[p][b]] = v]
  /\ idequeue' = Append(idequeue, b)
  /\ cur' = [cur EXCEPT ![p] = b]
  /\ pc' = [pc EXCEPT ![p] = "io"]
  /\ UNCHANGED <<blockno, refcnt, valid, owner, disk, want>>

\* brelse of any of the buffers it holds: first releasesleep, which wakes every
\* process asleep on the lock,
Woken_nobody(b) == pc
Woken(b) == [p \in Procs |-> IF pc[p] = "lsleep" /\ cur[p] = b THEN "lock" ELSE pc[p]]

releasesleep(p, b) ==
  /\ pc[p] = "run" /\ owner[b] = p
  /\ owner' = [owner EXCEPT ![b] = Nobody]
  /\ cur' = [cur EXCEPT ![p] = b]
  /\ pc' = [Woken(b) EXCEPT ![p] = "release"]
  /\ UNCHANGED <<fields, idequeue, disk, want, written>>

\* then, under bcache.lock, one reference less.
brelse(p) ==
  LET b == cur[p] IN
  /\ pc[p] = "release"
  /\ refcnt' = [refcnt EXCEPT ![b] = @ - 1]
  /\ want' = [want EXCEPT ![p][b] = NoBlock]
  /\ pc' = [pc EXCEPT ![p] = "run"]
  /\ UNCHANGED <<blockno, valid, dirty, data, owner, idequeue, disk, cur, written>>

Next ==
  \/ \E p \in Procs, x \in Blocks : bget_hit(p, x) \/ bget_recycle(p, x)
  \/ \E p \in Procs : acquiresleep(p) \/ brelse(p)
  \/ \E p \in Procs, b \in Bufs : releasesleep(p, b)
  \/ \E p \in Procs, b \in Bufs, v \in Value : log_write(p, b, v) \/ bwrite(p, b, v)
  \/ \E b \in Bufs : ideintr(b)

Spec == Init /\ [][Next]_vars

-----------------------------------------------------------------------------
(* Properties *)

\* bio.c promises that a cached copy makes "a synchronization point for disk
\* blocks used by multiple processes": two buffers never hold the same block,
\* although bget's two searches and a recycling race with other processes.
OneCopy ==
  \A b, c \in Bufs : b # c /\ blockno[b] = blockno[c] => blockno[b] = NoBlock

\* b is locked by p and bread or bwrite has returned it.
InHand(p, b) == owner[b] = p /\ ~(pc[p] = "io" /\ cur[p] = b)

\* A buffer a process has a pointer to stays the buffer of the block it asked
\* for, however long acquiresleep slept, however many other buffers it reads
\* and recycles meanwhile; only one of its users has it in hand.
HolderAlone ==
  /\ \A p \in Procs, b \in Bufs : Using(p, b) => blockno[b] = want[p][b]
  /\ \A p \in Procs, b \in Bufs : InHand(p, b) => Using(p, b)

\* bread returns what the last writer of the block left there, and the buffer
\* keeps it while other blocks are read: a buffer log_write pinned is not
\* recycled before bwrite has put it on the disk.
ReadsLatest ==
  \A p \in Procs, b \in Bufs : InHand(p, b) => data[b] = written[want[p][b]]

\* Nobody sleeps for good: a process asleep in acquiresleep has a holder to
\* wake it, one asleep in iderw has its buffer in the disk queue, where no
\* buffer stands twice or without a process waiting for it.
SleepersAreAwaited ==
  /\ \A p \in Procs : pc[p] = "lsleep" => owner[cur[p]] \notin {Nobody, p}
  /\ \A p \in Procs : pc[p] = "io" => \E i \in 1..Len(idequeue) : idequeue[i] = cur[p]
  /\ \A i \in 1..Len(idequeue) :
       /\ \E p \in Procs : pc[p] = "io" /\ cur[p] = idequeue[i]
       /\ \A j \in 1..Len(idequeue) : i # j => idequeue[i] # idequeue[j]

\* bget's panic "no buffers" is out of reach.  It does not hold: log_write may
\* have pinned, and processes may hold, every buffer.
NeverOutOfBuffers == \A p \in Procs : pc[p] # "panic"

\* refcnt is the number of processes between bget and brelse.
Users(b) == {p \in Procs : Using(p, b)}
RefsCounted == \A b \in Bufs : refcnt[b] = Cardinality(Users(b))

\* A valid buffer holds what was last written to its block, and so does the
\* disk unless the buffer is dirty.
Coherent ==
  /\ \A b \in Bufs : dirty[b] => valid[b]
  /\ \A b \in Bufs : valid[b] => blockno[b] # NoBlock /\ data[b] = written[blockno[b]]
  /\ \A x \in Blocks :
       (\A b \in Bufs : blockno[b] = x => ~dirty[b]) => disk[x] = written[x]

\* Pointers, locks and the places of the processes agree.
LocksMatch ==
  /\ \A p \in Procs, b \in Bufs : Using(p, b) => blockno[b] = want[p][b]
  /\ \A p \in Procs : pc[p] \in {"lock", "lsleep", "io", "release"} => Using(p, cur[p])
  /\ \A p \in Procs : pc[p] = "io" => owner[cur[p]] = p
  /\ \A b \in Bufs : owner[b] # Nobody =>
       /\ Using(owner[b], b)
       /\ pc[owner[b]] \in {"lock", "lsleep", "release"} => cur[owner[b]] # b
  /\ \A b \in Bufs : owner[b] # Nobody /\ ~valid[b] =>
       pc[owner[b]] = "io" /\ cur[owner[b]] = b

\* The inductive invariant behind the properties.
CacheInv ==
  /\ TypeOK /\ OneCopy /\ RefsCounted /\ Coherent /\ LocksMatch
  /\ SleepersAreAwaited
=============================================================================
