# A TLA+ model of the xv6 fork in `src/xv6-public`

This directory specifies the kernel and its shell in TLA+, checks the
specifications with TLC on small instances and proves the central facts about the
log and the buffer cache with TLAPS for every value of the constants.
`PROJECT.json` lists, for every definition, the source lines it translates, and
for every run what it checks.

The kernel is xv6 for x86 with three additions: a feedback queue and stride
scheduler with `yield`, `getlev` and `set_cpu_share` (`OS_Project1.md`), threads
inside a process (`OS_Project2.md`), and a file system with double and triple
indirect blocks, a log that delays its commit, `sync`, `get_log_num`, `pread` and
`pwrite` (`OS_Project3.md`).

## 1. Inventory

| Part | State | Operations | Talks to |
|---|---|---|---|
| Log (`log.c`) | `log.lh`, `outstanding`, `committing`; header, log and home blocks on disk | `begin_op`, `log_write`, `end_op`, `commit`, `recover_from_log`, `sys_sync` | buffer cache, every file system call |
| Buffer cache (`bio.c`) | `NBUF` buffers in LRU order, `refcnt`, `B_VALID`, `B_DIRTY` | `bget`, `bread`, `bwrite`, `brelse` | log, disk driver, sleep locks |
| Disk drivers (`ide.c`, `memide.c`) | `idequeue` | `iderw`, `ideintr` | buffer cache, sleep/wakeup |
| Locks (`spinlock.c`, `sleeplock.c`) | `locked`, `ncli` | `acquire`, `release`, `acquiresleep`, `releasesleep` | everything |
| Scheduler (`myscheduler.c`, `scheduler` in `proc.c`) | `MLFQ_queues`, `MLFQ_tick`, `stride_arr` | `push_MLFQ`, `pop_MLFQ`, `exec_MLFQ`, `tick_add_MLFQ`, `boost_priority`, `choose_lowpass`, `set_cpu_share` | process table, timer |
| Process table (`proc.c`) | `ptable`, parents, channels | `allocproc`, `fork`, `exit`, `wait`, `sleep`, `wakeup`, `kill`, `yield` | scheduler, files, memory |
| Threads (`proc.c`) | `master`, `workerthread`, `freeusrspace` | `thread_create`, `thread_join`, `thread_exit` | process table, memory |
| Traps (`trap.c`) | `ticks` | timer tick, forced exit | scheduler |
| Inodes (`fs.c`) | `icache`, block maps, free bitmap | `iget`, `ilock`, `iput`, `bmap`, `itrunc`, `balloc`, `bfree`, `readi`, `writei` | log, buffer cache |
| Names (`fs.c`, `sysfile.c`) | directories | `dirlookup`, `dirlink`, `namex`, `sys_link`, `sys_unlink`, `create` | inodes, log |
| Open files (`file.c`, `sysfile.c`) | `ftable`, descriptors, offsets | `filealloc`, `filedup`, `fileclose`, reads and writes, `pread`, `pwrite` | inodes, pipes |
| Pipes (`pipe.c`) | ring of 512 bytes, `nread`, `nwrite` | `pipewrite`, `piperead`, `pipeclose` | sleep/wakeup |
| Memory (`kalloc.c`, `vm.c`, `exec.c`) | free list, page tables | `kalloc`, `kfree`, `allocuvm`, `deallocuvm`, `copyuvm`, `exec` | process table |
| Console (`console.c`, `kbd.c`, `uart.c`) | input ring `r`, `w`, `e` | `consoleintr`, `consoleread` | sleep/wakeup |
| System calls (`syscall.c`, `sysproc.c`) | none | dispatch, arguments | all of the above |
| Shell (`sh.c`, `init.c`) | the line, the command tree, descriptors, children | `getcmd`, `parsecmd`, `runcmd` | console, pipes, fork and wait |
| Boot, multiprocessor set-up, `mkfs`, other user programs | none, or outside the kernel | | |

What is hard here and tests hardly reach: crashes inside a commit; `sync`
racing with calls; a commit that is delayed, so that the space test of
`begin_op` and the wakeups of `end_op` have to keep sleepers alive; scheduler
tables changed without `ptable.lock`; counters compared by remainder; circular
searches; shares and entries that must stay in step over long sequences of calls;
wakeups between a test and a sleep; the last reference to an inode, a pipe or a
page; counters that wrap; forks that fail half way; slots that are reused.
The list is in `PROJECT.json` under `hazards`, each with its line.

## 2. Modules and runs

| Module | Models | Run | Proofs |
|---|---|---|---|
| `Log`, `AtomicDisk` | `log.c` and what it promises | `LogCrash`, `LogSpace` | `LogInvariant`, `LogCallProofs`, `LogProofs` |
| `Bcache` | `bio.c`, `ide.c`, the sleep lock of a buffer | `Bcache` | `BcacheProofs` |
| `Locks` | `spinlock.c`, `sleeplock.c`, `sleep`, `wakeup`, `sched`, `yield`, the timer | `Locks` | |
| `Sched` | `myscheduler.c`, the scheduler's loop | `SchedQueues`, `SchedLive` | |
| `Procs` | life of processes and threads, pages | `Procs`, `ProcsStale` | |
| `Files`, `ByteStream` | `file.c`, descriptors, `pipe.c` and what pipes promise | `Files` | |
| `Names` | inode cache, directories, path names, the calls on them | `Names` | |
| `Content` | bitmap, `bmap`, `itrunc`, `readi`, `writei`, chunked transfers | `Content` | |
| `Console`, `LineQueue` | input of `console.c` and what it promises | `Shell` | |
| `Parser`, `Shell` | `sh.c`, `init.c`, composed with `Console` | `Shell` | |

`MC*` modules give TLC its constants and symmetries. The modules divide the
kernel along its locks. What one module shows another takes for granted: `Locks`
shows that `sleep` and `wakeup` under a lock lose nothing, the others use them as
one step; `Bcache` shows that a locked buffer holds the last value written,
`Log`, `Names` and `Content` use a block as a variable; `Log` makes a transaction
atomic, `Content` and `Names` take each as it is. `Shell` contains `Console`: the
shell and the programs it starts are the readers of the ring.

All runs except `ProcsStale` pass. `ProcsStale` shows a disagreement between the
code and a comment. Section 9 lists other properties that fail, and how to see
them fail.

## 3. The log

### Modules

`AtomicDisk` is what the log promises: calls change an image, a commit makes the
image stable when no call is active, a crash goes back to the stable image.

`Log` is `log.c`. Its variables carry the names of the code (`lh`, `outstanding`,
`committing`, `tail`); `dhead`, `dlog` and `home` are the disk; `cache` is what
`bread` returns and `dirty` the pinned buffers. A step is what `log.lock`, a
buffer's sleep lock or one disk write makes atomic: `log_write` is the unlocked
test (`log_write_check`) and the locked rest; every block of `write_log` and
`install_trans` is a step; `log.lh.n = 0` and the second `write_head` are two
steps. `Crash` is possible in every state, during recovery too. `sys_sync` is the
call of `commit` without a lock. `Syncers` says who calls it. A disk write is
taken to be atomic (no torn sector).

`OpBlocks` is how many distinct blocks a call logs, at most `MAXOPBLOCKS`, which
is what `begin_op` reserves. `mkfs.c` makes `NLog = LOGSIZE`, header included, so
the disk has room for one block fewer than `lh.block`.

### Runs

| Run | Instance | Shows |
|---|---|---|
| `LogCrash` | 2 processes that also sync, 3 blocks, 2 values, calls of 2 blocks, log of 4 | `CrashAtomic` (implements `AtomicDisk`), `SyncDurable` |
| `LogSpace` | 3 processes, 4 blocks, calls of 1, reservations of 3, log of 6, fairness | `ReservationKept`, `NoPanic`, `WaitsOnlyForOthers` |

The bounds let several calls share a group, the log pass the commit threshold, a
process sleep for space, a block be absorbed, and a crash fall between any two
writes. Processes, blocks and values are symmetric; the liveness run uses no
symmetry.

`sys_sync` calls `commit` without a lock and without a look at outstanding calls, and
while another process is in a call `CrashAtomic` is false (section 9). `QuietSpec` in
`Log` is the specification with `SyncUndisturbed`: `sync` is called only while no other
process is in a call, and no call starts before it returns. Nothing in the code sees
to that; it is how programs have to use `sync`. `LogCrash` checks the steps of
`QuietNext` (action constraint `Undisturbed` in `MCLog`) and every process may sync.
In `LogSpace` calls log two blocks fewer than they reserve, which `NoPanic` needs.

Fairness (`LogSpace`): a process that is awake gets the CPU, disk writes complete,
and a call that keeps being able to end does end, since it logs finitely many
blocks. Nobody has to start a call, and a crash need not happen.

### Proofs

Modules: `LogInvariant` (the invariant), `LogCallProofs` (lemmas, boot, crash,
recovery and the steps of calls), `LogProofs` (the steps of a commit, the
invariance theorem and its corollaries, the implementation of `AtomicDisk`, and what
holds whatever `sync` does).

Assumptions on the constants: `Procs` is finite, `NLog \div 2 + MAXOPBLOCKS <= LOGSIZE`
(an idle log below the commit threshold admits a call; 15 + 10 <= 30 in the kernel).
The theorems are about `QuietSpec`, with any set of processes calling `sync`; without
`SyncUndisturbed` they are false (section 9). `CommitIsExclusive` is the exception: it
is about `Spec`, with `sync` at any time. `LogStaysInRegion` also assumes `RegionRoom` and
`NeverPanics` assumes `PanicRoom`: calls stay one, or two, blocks below their
reservation (with `NLog = LOGSIZE`).

The properties are not inductive by themselves. `IInv` adds, for each phase of
`commit`, how far the copy on disk has come (`PhaseInv`), that a committer is alone
(`CommitterInv`), that what a call has logged is in the header and within its
budget (`CallInv`), that headers list distinct blocks, and what recovery has done
(`RecoveryInv`). `LogInvariance` proves `QuietSpec => []IInv` action by action. From it
follow type correctness, `ReservationsHonoured`, `PinnedAreLogged`, `CacheCoherent`,
`IdleLogAdmits`, `NoLostSleeper`, `LogStaysInRegion` and `NeverPanics`.
`LogImplementsAtomicDisk` maps each step to a step of `AtomicDisk` or a stutter: the
first `write_head` is `Commit`, everything after it leaves the recovered image
alone. `SyncIsDurable` says that a `sync` that returns 0 has made the cache durable,
whoever called it.

`CommitIsExclusive` proves `EndOpCommitsAlone`: what the tests of `outstanding` and
`committing` in `end_op` achieve against calls and other commits of `end_op`, even when
`sync` interferes. Its invariant (`ExclusionInv`) counts: `outstanding` is the number of
calls, `committing` is set while a process is between `end_op` and the end of its commit, and
there is at most one such process. The comment in `log.c:12` promises more (`CommitExcludesCalls`), and fails.

Only model-checked: `WaitsOnlyForOthers`, which is liveness.

## 4. The buffer cache and the disk

`Bcache` has the buffers with `blockno`, `refcnt`, the two flags and the data, the
sleep lock of each, and the disk queue. A step is what `bcache.lock`, the spin lock
inside a sleep lock or `idelock` makes atomic. `bget_hit` and `bget_recycle` are the
two searches of `bget`, `acquiresleep` is one pass of its loop together with the rest
of `bread`, `ideintr` finishes the transfer at the head of the queue. With
buffers locked a process changes one and calls `log_write` (which pins it) or
`bwrite`, releases one, or reads a further block and keeps what it has, as
`install_trans`, `write_log`, `bmap`, `itrunc` and `bfree` do. The callers nest these
calls in one order (log block, indirect blocks from the inode down, bitmap block);
`Rank` is that order, and a process asks only for blocks above those it holds. The
order of the MRU list is left open: `bget` may recycle any buffer that is unused and
clean.

The run `Bcache` has 2 processes, 3 buffers and 4 blocks of two ranks, so that each
process may hold two buffers: buffers are recycled under waiting processes, both
searches of `bget` race, and processes run out of buffers. It checks `ReadsLatest` and
`SleepersAreAwaited`. `bget`'s panic ends behaviours, so deadlock is not checked.
The panic is within reach (`NeverOutOfBuffers`, section 9): in the kernel
`NBUF = LOGSIZE = 30` (`param.h`), the log may pin up to 29 buffers, and `itrunc` holds
four at once.

`BcacheProofs` proves these two, `OneCopy`, `HolderAlone` and `RefsCounted` for finitely
many processes and buffers, any blocks and any order, from `SetAssumption`. The
properties need each other: a buffer with waiting processes is not recycled because
`refcnt` is the number of its users (`RefsCounted`); the holder's data are current
because the one valid buffer of a block agrees with its last change, and the disk does
unless that buffer is dirty (`Coherent`); pointers, owners and places in the code
match (`LocksMatch`). `CacheInv` collects these with the properties and is shown
inductive, one lemma for each action.

## 5. Locks, interrupts and the hand-over of a CPU

`Locks` executes the C functions as sequences of instructions. `todo[x]` is what
thread or scheduler `x` has still to run; an interrupt puts the handler in front.
`pushcli`, `xchg`, the two halves of `release`, `swtch` and the assignment to `intena`
after it are steps of their own. Threads take and give back a sleep lock or call
`sys_sleep`; the timer may strike on any CPU whenever its interrupt flag is set, and
only the CPU `Boot` counts ticks. `owner` is the holder of the sleep lock. Nobody is
killed here: `kill` is in `Files` and `Procs`.

The run has 2 CPUs and 2 threads and checks for deadlock. `NoPanic` covers the
panics of `acquire`, `release`, `popcli` and `sched`; `UserInterruptible` that
interrupts are on in user mode; `OneStack` that a thread made runnable is not
picked before it has left its stack; `SleepLockExcludes` the sleep lock; and
`NoLostWakeup` that a sleeper has its reason or its wakeup still to come.

## 6. The scheduler, processes and threads

### The scheduler

`Sched` models `myscheduler.c` and what feeds it: the loop of `scheduler`, the
timer tick of `trap.c`, `yield`, `sleep`, `wakeup`, `allocproc` and `fork`, `exit`,
`wait`. `mlfq` holds the queues (`hold`, `total`) and the `level` and `fqtick` of the
processes; `arr` is `stride_arr`, whose entry 0 stands for the queues. `Init` is
the state after `userinit` and `NInit - 1` forks: `userinit` clears the stride of
entry 0 after setting it, so it stays 0 until the first `set_cpu_share`.

A step is what `ptable.lock` makes atomic. `push_MLFQ` as called by `allocproc` (find
a slot, fill it) and `set_cpu_share` (check, take an entry, become its owner) hold
no lock and are several steps. `Env` selects the circumstances of a run: `fork`,
`sleep`, `yield`, `nomem` (`copyuvm` fails), `again` (a second `set_cpu_share`), `unlocked`
(others run between those steps; without it they exclude the others, as on one CPU
that is not interrupted there). `fault` records a null `proc` followed by
`choose_lowpass`, a store past `stride_arr` by `set_cpu_share`, and the reduction of
passes above `PassLimit`, which `choose_lowpass` does through a pointer past the array.

Abstractions: processes have one thread. The slot the scheduler's loop is at when
it falls back to it is any runnable one, which covers every position of the loop.
`wait` by the parent is a step of the zombie. A failing `kalloc` in `allocproc`
changes nothing and is left out. `init` never calls `set_cpu_share` (`init.c`). The
kernel's quanta 5, 10, 20, allotments 20, 40, the boost after 200 ticks and the
stride quantum 5 are constants, scaled down in `MCSched`. `MaxTick` and `MaxPass`
bound the counters.

Runs: `SchedQueues` has 2 CPUs, 3 slots, portions 20 and 60, forks and yields, and
checks `QueueConsistent`, `ShareConserved` and `EntryOwned`. Its quanta let a process
reach level 2 after two ticks, stay there, and be boosted from it by the next; two
portions of 60 are refused, 20 and 60 are not. `SchedLive` has 1 CPU and 3 processes
that sleep, under fairness, and checks `NoStarvation`.

What they assume matters. The passing runs leave out the circumstances `unlocked`,
`nomem` and `again`, and with each of them TLC finds the tables inconsistent:
`unlocked` lets two forks take the same slot of a queue and two callers of
`set_cpu_share` both pass the test of 80; `nomem` leaves the slot of a failed fork in
its queue; `again` leaves an entry that no exit releases. So what the passing runs
show holds for single calls that are not interrupted and do not fail.

`SchedQueues` does not check for deadlock: the bounds on ticks and passes end
behaviours. In `SchedLive` the bound on ticks is never reached: `BoostOnTime` holds there,
the boost being late by at most the unfinished quanta of the processes.

Fairness (`SchedLive`): the timer interrupts whoever runs again and again (strong
fairness, as processes may sleep in between), an idle CPU looks for a process, and
a process told to yield does. Wakeups and exits need not happen. The run
has no `fork` and no `yield`, and that matters: a process that yields postpones the
boost without bound (section 9), so that nothing is shown for programs that do.

### Processes, threads and pages

`Procs` is `fork`, `exec`, `growproc`, `exit`, `wait`, `kill`, `thread_create`,
`thread_exit` and `thread_join` over one table and one count of free pages. Every
allocation may fail for want of pages, and what the caller then cleans up, or leaves,
is modelled. `RUNNABLE` stands for running too. `space` holds the pages mapped in each
address space; physical pages are counted, not named, and a page directory with its
page tables counts as one.

`growproc` takes no lock. For a process without threads, whose size nobody else
reads, it is one step; for one with threads it is three: read the size, map or unmap,
store the size. `mappages` panics at a page that is there already.

Programs keep to what the code can take (the guards marked "discipline"): threads
are created and joined by the first thread, each joined once; a process with threads
neither exits nor is killed; once it has had threads it does not exec. Three further
restrictions can be lifted by the constant `Programs`: `fork` (somebody forks once a
slot has held a thread), `shrink` (a process that has had threads gives memory back),
`overlap` (two threads of a process are in `sbrk` or `thread_create` at once). Each of
them breaks `SpaceMatchesSize` (section 9).

`Procs` (4 slots, 2 threads for each process but `init`, 14 pages, `KERNBASE` 6, without
`Programs`) shows `PagesUsedOnce`, `SpaceMatchesSize`, `ParentCanWait`,
`SleepersHaveCause` and `RetvalKept`. The pages are few enough for every allocation
to fail. A `thread_create` that gets no user stack keeps its slot and kernel stack for
good; `PagesUsedOnce` counts these apart (`Stranded`) and says that nothing else is
kept.
`ProcsStale` has `fork` in `Programs` and finds `MasterMeansThread` violated: `thread_join` leaves
`p->master` set, the next `fork` that gets the slot makes a process with a master,
and `wait` skips it for ever. `proc.h:59` says the field is 0 in such a process.

## 7. Files

`Files` models descriptors, `struct file` with its reference count, and pipes: `dup`,
`close`, `pipe` with each of its failures, `fork`, `exit` and `kill` as far as they
touch files, `read` and `write`. A step is what `ftable.lock` or `p->lock` makes
atomic, so that `fileclose` is two steps and `pipewrite` one for each stretch
between sleeps. The run has 2 processes, 1 pipe of 2 bytes, 3 files and 2
descriptors each, writes of 3 bytes and counters modulo 4, so that every write
waits and the counters wrap. It checks `RefCounts`, `PipeLives` (a pipe exists as
long as a file refers to it), `SleepsForAReason`, `KilledStaysAwake` and
`PipeIsStream`, the refinement of `ByteStream`. `SleepsForAReason` makes one
exception, which is the code's: a killed writer returns without waking readers.
`kill` does not take the pipe's lock, so that it may fall between a loop's look at
`p->killed` and the sleep (`KilledMeanwhile`): `KilledStaysAwake` says that these are
the only killed sleepers, that `kill` wakes every other, and that nobody who is killed
goes to sleep again.

`Names` models inodes, the inode cache and directories under `open`, `mkdir`, `mknod`,
`link`, `unlink`, `chdir` and `close`. Taking a lock while another is held starts a
new step. `ilock`'s panic on a free inode and `unlink`'s on a link count of 0 are
modelled. The run has 2 processes, 3 calls in all, 4 inodes, 3 cache entries, absolute
and relative paths of up to 2 elements and `..`, and starts from a disk with a file
under two names, one with a directory, or one from which the current directory of a
process has been removed; `mkfs` makes the root of each. It checks `RefsArePointers` (a
reference count is the number of pointers), `NoUseAfterFree`, `CacheAgrees` (a valid
cached inode agrees with the disk) and `LinksCounted`.

Two histories weaken these, and the code is the reason for both. `stray`:
once somebody has looked up `..` in a removed directory, `NoUseAfterFree` and
`LinksCounted` say nothing, as that entry names an inode that may be free or another
one by now. `orphan`: `create` and `link` lock the directory they found only later and
do not ask whether it has been removed; what they put there keeps a link count that is
too high, and `LinksCounted` says of it only that it is not too low. Section 9 has both
without the exceptions. The bound on calls ends behaviours, so deadlock is not checked
there.

`Content` models what the inode layer does with blocks: the bitmap, `bmap` and
`itrunc` with single to triple indirection, `readi`, `writei`, and the loops of
`file.c` that split a transfer. A block has 2 words, 1 block is direct, and a file
reaches 15 blocks, so that all four kinds of route are used and the largest write
takes three chunks. `flat` is the reference: each file as a sequence.
The run (2 processes, 2 files, 3 calls) checks `ReadsBack`, `BitmapExact`
and `WriteLands`. It makes `pwrite` calls of one and of two chunks; what is expected of
them (`PwriteLands`) fails for two (section 9).

## 8. The console and the shell

`Console` is the input ring with its three wrapping indices; `LineQueue` says what
it promises, a line being edited and lines handed over. `Parser` has the functions
of `sh.c` from `gettoken` to `nulterminate`, working on positions in the line (those
that call each other do so through one recursive function), and beside them the grammar as a definition of its own:
`ParsesGrammar` compares the two. `Shell` puts a typist, the shell, its children and
`init` together. Processes have descriptors, `pipe` and `fork` may fail once, and a
pipe gives end of file when no write end is left.

The run types (`Typed` in `MCShell`) every line of up to 4 characters over a word
character and the operators of lists, pipes and blocks, or over one and redirections,
and of up to 3 over all symbols, with at most two pipes; some longer lines; up to 4
editing keys; `cd`; and a line that does not fit in `buf`. The ring has 4 places with
indices modulo 8, `buf` has 7. It checks
`AwakeForInput`, `ParseRight`, `Wired`, `InSequence`, `LinesInOrder` (refinement of
`LineQueue`) and `PromptReturns`. The typist may stop and the shell then waits for
ever, so deadlock is not checked.

Fairness (`PromptReturns`): the shell and the processes of a line that can run do,
as the scheduler runs every runnable process (`NoStarvation`). Programs are
external and end; nobody has to type.

## 9. Properties that fail

Each of these is a definition of a module that TLC finds violated when a
configuration is changed as said.

| Property | Change | What happens |
|---|---|---|
| `NoPanic` of `Log` | `LogSpace.cfg` with `SPECIFICATION Spec`, 2 processes, 6 blocks, `OpBlocks = 3` and this invariant only | A call that logs the `MAXOPBLOCKS` blocks it was promised (`param.h:10`) panics: `log_write` stops one block early and before it looks for absorption (`log.c:223`). |
| `CrashAtomic`, `SyncDurable`, `CommitExcludesCalls` | `LogCrash.cfg` without its action constraint and symmetry, `Syncers = {p2}`, 2 blocks, `MAXOPBLOCKS = 3`, log of 6, one of them at a time | `sync` commits half of another process's call (`log.c:243`); `log.c:12`: "The logging system only commits when there are no FS system calls active." |
| `DirtyIsLogged` | as for `CrashAtomic` | The `sync` clears the header after a call has added a block, which stays pinned and unwritten. |
| `LogInRegion` | as for `NoPanic` | Two callers pass the unlocked test of `log_write` together and log one block more than the region holds. |
| `NeverOutOfBuffers` | add it to `Bcache.cfg` | Every buffer is pinned or held and `bget` panics (`bio.c:92`). |
| `QueueConsistent` | `SchedQueues.cfg` with `NPROC = 4`, no portions, `Env = {"fork", "unlocked"}` | Two children take the same slot of a queue: `push_MLFQ` runs after `ptable.lock` is released (`proc.c:122`). |
| `QueueConsistent` | `SchedQueues.cfg` with `Env = {"fork", "nomem"}` | The slot of a failed fork stays in its queue (`proc.c:529`). |
| `ShareConserved` | `SchedQueues.cfg` with `NInit = 3`, `Env = {"unlocked"}` | Two callers of `set_cpu_share` both pass the test; `myscheduler.c:324`: "always under 80". |
| `EntryOwned` | `SchedQueues.cfg` with `Env = {"again"}` | The second `set_cpu_share` of a process leaves an entry that no exit releases. |
| `NoFault` | `SchedQueues.cfg` with `PassLimit = 1000`, `Env = {"fork", "unlocked"}` | A scheduler finds the stride of a new entry before its process and follows a null pointer (`myscheduler.c:214`). |
| `NoFault` | add it to `SchedQueues.cfg` | A pass exceeds the limit and `choose_lowpass` stores past `stride_arr` (`myscheduler.c:225`). With `PassLimit = 1000` it holds. |
| `BoostOnTime` | `SchedQueues.cfg` with 1 CPU, `NInit = 1`, no portions, `Allotment <- Allotments`, `Quantum <- LongQuanta`, `BoostTicks = 3`, `MaxTick = 20`, `MaxPass = 20`, `PassLimit = 20`, `Env = {"yield"}` | A process that yields within its quantum postpones the boost without bound (`myscheduler.c:145`). `OS_Project1.md:32` promises one every 100 ticks; the code's threshold is 200, and it looks only at the end of a quantum. |
| `IdleQueuesRunLowPass` | `SchedQueues.cfg` with 1 CPU, `NInit = 3`, portions 20 and 40, `Allotment <- Allotments`, `BoostTicks = 3`, `MaxTick = 8`, `MaxPass = 40`, `PassLimit = 40`, `Env = {}` | `choose_lowpass` ignores its parameter (`myscheduler.c:207`); `OS_Project1.md:126` says the second search starts from entry 1. |
| `FreedWhenUnused` | add it to `Names.cfg` | Two `iput`s of an unlinked inode both see two references and neither frees it (`fs.c:339`); `fs.c:119`: "iput() frees if the reference and link counts have fallen to zero". |
| `NoLockCycle` | add it to `Names.cfg` | `unlink` and `create` hold an inode while `iput` of the directory locks the directory: against a path walk in the other order that is a cycle. |
| `NoPanic` of `Names` | add it to `Names.cfg` | A process in a removed directory looks up `..`, the parent of which has been freed: `ilock` panics "no type" (`fs.c:310`). |
| `LinksExact` | add it to `Names.cfg` | `create` puts a file into a directory that was removed after it was found; its link count stays too high, and it is never freed. `fs.c:101` calls the count "the number of links referring to it". |
| `NoKilledSleeper` | add it to `Files.cfg` | A process killed between its look at `p->killed` and its sleep sleeps on until the pipe changes (`pipe.c:86`). |
| `PwriteLands` | add it to `Content.cfg` | `filepwrite` writes every chunk at the same offset (`file.c:142`); `pwritetest.c:66` (`test_pwrite3`) expects 4096 bytes one after the other. |
| `SpaceMatchesSize` | `Procs.cfg` with `Programs = {"overlap"}` | Two threads in `sbrk` read the same size, and `mappages` panics "remap" (`proc.c:500`); `test_thread2.c:468` (`sbrktest`) expects every thread to get its own memory. |
| `SpaceMatchesSize` | `Procs.cfg` with `Programs = {"shrink"}` | `sbrk` with a negative size unmaps the stack of a thread. |
| `SpaceMatchesSize` | `Procs.cfg` with `Programs = {"fork"}` | A slot is reused with the `freeusrspace` of the process before. |
| `NothingStranded` | add it to `Procs.cfg` | A `thread_create` without memory for a user stack returns and leaves its slot EMBRYO with a kernel stack (`proc.c:274`). |

Found while modelling, outside what the programs of `Procs` do: `exit` marks threads
zombie that may be running (`proc.c:636`), so `wait` frees stacks in use; `fork`
after a join panics at the hole the stack left (`vm.c:328`); `exec` by a thread
frees the address space of the others; a second joiner sleeps for ever, and an
unknown thread is looked up past the table (`proc.c:319`); `growproc` to size 0
frees the pages and reports failure. Of the file system: a write into the triple
indirect range can log 11 blocks where 10 are reserved; no run covers such a call.
Of the shell: `cd` cuts the last character of a line that did not end with a newline,
and `>>` opens its file exactly as `>` does.

## 10. Proved and model-checked

TLAPS proves the invariants of `Log` and `Bcache` and, of `Log`, that it implements
`AtomicDisk` and that `sync` is durable (sections 3 and 4). The parts of the two
inductive invariants that no run lists are proved only; they can be added to
`LogSpace.cfg` (`IInv`) and `Bcache.cfg` (`CacheInv`). Everything else is checked by TLC only: liveness
(`WaitsOnlyForOthers`, `NoStarvation`, `PromptReturns`), which is out of the prover's
reach; `Parser`, whose operators are recursive, and with it `Shell`; the
refinements of `ByteStream` and `LineQueue`; and the invariants of `Sched`, `Locks`, `Procs`, `Files`, `Names` and
`Content`, for which no inductive invariant has been worked out.

## 11. Not modelled

Listed with reasons under `components` in `PROJECT.json`. Boot code, multiprocessor
set-up and device registers are straight-line hardware set-up. Console output, `printf` and
the string functions are pure. `umalloc` has no concurrency and no shared state. The
utilities and tests are programs of the kernel's users: they appear as the inputs
of the models and as the source of what the kernel should do. Page table layout,
segment registers, ELF parsing and argument fetching are data layout without
protocol. Disk errors (`ide.c:118`) have no state in the driver. Thread groups in
the scheduler are left out because `increasealltick` follows an uninitialised
pointer for them (`myscheduler.c:392`).
