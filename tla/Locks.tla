-------------------------------- MODULE Locks --------------------------------
(***************************************************************************)
(* Spin locks, interrupts and the hand-over of a CPU: spinlock.c, sleep,   *)
(* wakeup, sched and yield of proc.c, sleeplock.c, sys_sleep and the timer *)
(* interrupt of trap.c, on several CPUs.                                   *)
(*                                                                         *)
(* A context is a kernel thread or the scheduler of a CPU.  todo[x] is the *)
(* code context x has still to run, a sequence of instructions; a C        *)
(* function is the sequence of instructions it consists of.  An interrupt  *)
(* puts its handler in front of what the CPU was running.                  *)
(*                                                                         *)
(* Nobody is killed here: the tests of killed in trap and sys_sleep are    *)
(* those of processes that are not (kill is in modules Files and Procs).   *)
(***************************************************************************)
EXTENDS Integers, Sequences, TLC

CONSTANTS
  CPUs, Boot,   \* the CPU whose timer counts ticks
  Threads, None

ASSUME BootAssumption == Boot \in CPUs /\ CPUs \cap Threads = {} /\ None \notin CPUs \cup Threads

VARIABLES
  on,             \* the context each CPU is running; a CPU is its own scheduler
  todo,
  IF_,            \* the interrupt flag of each CPU
  ncli, intena,   \* struct cpu
  saved,          \* sched's local variable intena
  lockcpu,        \* spin locks: the CPU recorded in one,
  locked,         \* and whether it is taken
  state, chan,    \* struct proc
  owner,          \* the sleep lock's holder
  ticked          \* has the clock ticked since the thread entered sys_sleep

interrupts == <<IF_, ncli, intena>>
spin == <<lockcpu, locked>>
procs == <<state, chan>>
vars == <<on, todo, interrupts, saved, spin, procs, owner, ticked>>

\* ptable.lock, tickslock and the spin lock inside the sleep lock, whose
\* address is also the channel its waiters sleep on.
SpinLocks == {"ptable", "ticks", "lk"}

-----------------------------------------------------------------------------
(* The code, as sequences of instructions *)

acquire(l) == <<<<"pushcli", l>>, <<"xchg", l>>>>
release(l) == <<<<"clear", l>>, <<"unlock", l>>, <<"popcli", l>>>>

sched == <<<<"swtch", "">>, <<"resume", "">>>>
yield_unlocked ==
  acquire("ptable") \o <<<<"runnable", "">>>> \o release("ptable") \o
  acquire("ptable") \o sched \o release("ptable")
yield == acquire("ptable") \o <<<<"runnable", "">>>> \o sched \o release("ptable")

sleep_gap(ch, l) ==
  release(l) \o acquire("ptable") \o <<<<"sleeping", ch>>>> \o sched \o
  <<<<"tidy", "">>>> \o release("ptable") \o acquire(l)
sleep(ch, l) ==
  acquire("ptable") \o release(l) \o <<<<"sleeping", ch>>>> \o sched \o
  <<<<"tidy", "">>>> \o release("ptable") \o acquire(l)

wakeup(ch) == acquire("ptable") \o <<<<"wakeup1", ch>>>> \o release("ptable")

acquiresleep == acquire("lk") \o <<<<"whilelocked", "">>, <<"take", "">>>> \o release("lk")
releasesleep == acquire("lk") \o <<<<"free", "">>>> \o wakeup("lk") \o release("lk")

sys_sleep == acquire("ticks") \o <<<<"ticks0", "">>, <<"whileticks", "">>>> \o release("ticks")

\* The timer interrupt on CPU c while context x runs; switched: tick_add_MLFQ
\* says that x's quantum is over.
trap(c, x, switched) ==
  (IF c = Boot
     THEN acquire("ticks") \o <<<<"tick", "">>>> \o wakeup("ticks") \o release("ticks")
     ELSE <<>>) \o
  (IF x \in Threads /\ switched THEN yield ELSE <<>>) \o <<<<"iret", "">>>>

\* A pass of scheduler's loop over the processes ends, the next one begins.
scheduler == release("ptable") \o <<<<"sti", "">>>> \o acquire("ptable") \o <<<<"pick", "">>>>

\* A thread's first time slice: forkret, then trapret.
forkret == release("ptable") \o <<<<"iret", "">>>>

Init ==
  /\ on = [c \in CPUs |-> c]
  /\ todo = [x \in CPUs |-> <<<<"sti", "">>>> \o acquire("ptable") \o <<<<"pick", "">>>>]
            @@ [x \in Threads |-> forkret]
  /\ IF_ = [c \in CPUs |-> FALSE]
  /\ ncli = [c \in CPUs |-> 0]
  /\ intena = [c \in CPUs |-> FALSE]
  /\ saved = [t \in Threads |-> FALSE]
  /\ lockcpu = [l \in SpinLocks |-> None]
  /\ locked = [l \in SpinLocks |-> FALSE]
  /\ state = [t \in Threads |-> "RUNNABLE"]
  /\ chan = [t \in Threads |-> ""]
  /\ owner = None
  /\ ticked = [t \in Threads |-> FALSE]

-----------------------------------------------------------------------------
(* The instructions *)

\* CPU c is about to run instruction i with operand a,
At(c, i, a) == todo[on[c]] # <<>> /\ Head(todo[on[c]]) = <<i, a>>
\* and after it the code that follows.
Goto(c, code) == todo' = [todo EXCEPT ![on[c]] = code \o Tail(todo[on[c]])]
Proceed(c) == Goto(c, <<>>)

pushcli_late(c, l) ==
  /\ At(c, "pushcli", l)
  /\ ncli' = [ncli EXCEPT ![c] = @ + 1]
  /\ intena' = [intena EXCEPT ![c] = IF ncli[c] = 0 THEN IF_[c] ELSE @]
  /\ Proceed(c)
  /\ UNCHANGED <<on, IF_, saved, spin, procs, owner, ticked>>
pushcli(c, l) ==
  /\ At(c, "pushcli", l)
  /\ IF_' = [IF_ EXCEPT ![c] = FALSE]
  /\ intena' = [intena EXCEPT ![c] = IF ncli[c] = 0 THEN IF_[c] ELSE @]
  /\ ncli' = [ncli EXCEPT ![c] = @ + 1]
  /\ Proceed(c)
  /\ UNCHANGED <<on, saved, spin, procs, owner, ticked>>

\* The xchg that finds the lock free; until then the CPU spins.
xchg(c, l) ==
  /\ At(c, "xchg", l)
  /\ ~locked[l]
  /\ locked' = [locked EXCEPT ![l] = TRUE]
  /\ lockcpu' = [lockcpu EXCEPT ![l] = c]
  /\ Proceed(c)
  /\ UNCHANGED <<on, interrupts, saved, procs, owner, ticked>>

clear(c, l) ==
  /\ At(c, "clear", l)
  /\ lockcpu' = [lockcpu EXCEPT ![l] = None]
  /\ Proceed(c)
  /\ UNCHANGED <<on, interrupts, saved, locked, procs, owner, ticked>>

unlock(c, l) ==
  /\ At(c, "unlock", l)
  /\ locked' = [locked EXCEPT ![l] = FALSE]
  /\ Proceed(c)
  /\ UNCHANGED <<on, interrupts, saved, lockcpu, procs, owner, ticked>>

popcli(c, l) ==
  /\ At(c, "popcli", l)
  /\ ncli' = [ncli EXCEPT ![c] = @ - 1]
  /\ IF_' = [IF_ EXCEPT ![c] = @ \/ (ncli[c] = 1 /\ intena[c])]
  /\ Proceed(c)
  /\ UNCHANGED <<on, intena, saved, spin, procs, owner, ticked>>

\* sched: to the scheduler, and back when some CPU picks the thread again.
swtch(c) ==
  /\ At(c, "swtch", "")
  /\ saved' = [saved EXCEPT ![on[c]] = intena[c]]
  /\ on' = [on EXCEPT ![c] = c]
  /\ Proceed(c)
  /\ UNCHANGED <<interrupts, spin, procs, owner, ticked>>

resume_keeps(c) ==
  /\ At(c, "resume", "")
  /\ Proceed(c)
  /\ UNCHANGED <<on, interrupts, saved, spin, procs, owner, ticked>>
resume(c) ==
  /\ At(c, "resume", "")
  /\ intena' = [intena EXCEPT ![c] = saved[on[c]]]
  /\ Proceed(c)
  /\ UNCHANGED <<on, IF_, ncli, saved, spin, procs, owner, ticked>>

\* The scheduler goes on to a runnable process, or to the end of its loop.
pick(c) ==
  /\ At(c, "pick", "")
  /\ \/ /\ \E t \in Threads :
             /\ state[t] = "RUNNABLE"
             /\ on' = [on EXCEPT ![c] = t]
             /\ state' = [state EXCEPT ![t] = "RUNNING"]
        /\ UNCHANGED todo
     \/ /\ Goto(c, scheduler)
        /\ UNCHANGED <<on, state>>
  /\ UNCHANGED <<interrupts, saved, spin, chan, owner, ticked>>

\* What yield, sleep and wakeup1 do to the process table.
setstate(c) ==
  /\ \/ /\ At(c, "runnable", "")
        /\ state' = [state EXCEPT ![on[c]] = "RUNNABLE"]
        /\ UNCHANGED chan
     \/ \E ch \in SpinLocks :
          /\ At(c, "sleeping", ch)
          /\ chan' = [chan EXCEPT ![on[c]] = ch]
          /\ state' = [state EXCEPT ![on[c]] = "SLEEPING"]
     \/ /\ At(c, "tidy", "")
        /\ chan' = [chan EXCEPT ![on[c]] = ""]
        /\ UNCHANGED state
     \/ \E ch \in SpinLocks :
          /\ At(c, "wakeup1", ch)
          /\ state' = [t \in Threads |-> IF state[t] = "SLEEPING" /\ chan[t] = ch
                                           THEN "RUNNABLE" ELSE state[t]]
          /\ UNCHANGED chan
  /\ Proceed(c)
  /\ UNCHANGED <<on, interrupts, saved, spin, owner, ticked>>

\* acquiresleep's loop and lk->locked = 1, and lk->locked = 0 in releasesleep.
setowner_once(c) ==
  /\ \/ /\ At(c, "whilelocked", "")
        /\ Goto(c, IF owner = None THEN <<>> ELSE sleep("lk", "lk"))
        /\ UNCHANGED owner
     \/ /\ At(c, "take", "")
        /\ owner' = on[c]
        /\ Proceed(c)
     \/ /\ At(c, "free", "")
        /\ owner' = None
        /\ Proceed(c)
  /\ UNCHANGED <<on, interrupts, saved, spin, procs, ticked>>
setowner(c) ==
  /\ \/ /\ At(c, "whilelocked", "")
        /\ Goto(c, IF owner = None THEN <<>> ELSE sleep("lk", "lk") \o <<<<"whilelocked", "">>>>)
        /\ UNCHANGED owner
     \/ /\ At(c, "take", "")
        /\ owner' = on[c]
        /\ Proceed(c)
     \/ /\ At(c, "free", "")
        /\ owner' = None
        /\ Proceed(c)
  /\ UNCHANGED <<on, interrupts, saved, spin, procs, ticked>>

\* sys_sleep reads ticks, waits until it has grown; the timer counts.
setticks(c) ==
  /\ \/ /\ At(c, "ticks0", "")
        /\ ticked' = [ticked EXCEPT ![on[c]] = FALSE]
        /\ Proceed(c)
     \/ /\ At(c, "whileticks", "") /\ ticked[on[c]]
        /\ Proceed(c)
        /\ UNCHANGED ticked
     \/ /\ At(c, "whileticks", "") /\ ~ticked[on[c]]
        /\ Goto(c, sleep("ticks", "ticks") \o <<<<"whileticks", "">>>>)
        /\ UNCHANGED ticked
     \/ /\ At(c, "tick", "")
        /\ ticked' = [t \in Threads |-> TRUE]
        /\ Proceed(c)
  /\ UNCHANGED <<on, interrupts, saved, spin, procs, owner>>

\* sti in the scheduler, and the return from a trap to where interrupts were on.
sti(c) ==
  /\ At(c, "sti", "") \/ At(c, "iret", "")
  /\ IF_' = [IF_ EXCEPT ![c] = TRUE]
  /\ Proceed(c)
  /\ UNCHANGED <<on, ncli, intena, saved, spin, procs, owner, ticked>>

-----------------------------------------------------------------------------
(* Where code to run comes from *)

\* A thread in user mode makes a system call; a trap gate leaves IF alone.
\* One call locks and unlocks the sleep lock (as a read of an inode does).
syscall(c) ==
  /\ on[c] \in Threads /\ todo[on[c]] = <<>>
  /\ \E code \in {acquiresleep \o <<<<"body", "">>>> \o releasesleep, sys_sleep} :
       todo' = [todo EXCEPT ![on[c]] = code]
  /\ UNCHANGED <<on, interrupts, saved, spin, procs, owner, ticked>>

body(c) ==
  /\ At(c, "body", "")
  /\ Proceed(c)
  /\ UNCHANGED <<on, interrupts, saved, spin, procs, owner, ticked>>

timer(c) ==
  /\ IF_[c]
  /\ IF_' = [IF_ EXCEPT ![c] = FALSE]
  /\ \E switched \in BOOLEAN :
       todo' = [todo EXCEPT ![on[c]] = trap(c, on[c], switched) \o @]
  /\ UNCHANGED <<on, ncli, intena, saved, spin, procs, owner, ticked>>

Next ==
  \E c \in CPUs :
    \/ \E l \in SpinLocks : pushcli(c, l) \/ xchg(c, l) \/ clear(c, l) \/ unlock(c, l) \/ popcli(c, l)
    \/ swtch(c) \/ resume(c) \/ pick(c)
    \/ setstate(c) \/ setowner(c) \/ setticks(c) \/ sti(c)
    \/ syscall(c) \/ body(c) \/ timer(c)

Spec == Init /\ [][Next]_vars

-----------------------------------------------------------------------------
(* Properties *)

Holding(c, l) == locked[l] /\ lockcpu[l] = c

\* No panic of spinlock.c or sched can be reached: no CPU takes a lock it has,
\* gives up one it has not, or reaches swtch with another lock held or with
\* interrupts on, wherever the timer strikes.
NoPanic ==
  \A c \in CPUs :
    /\ \A l \in SpinLocks :
         /\ At(c, "xchg", l) => ~Holding(c, l)
         /\ At(c, "clear", l) => Holding(c, l)
         /\ At(c, "popcli", l) => ~IF_[c] /\ ncli[c] > 0
    /\ At(c, "swtch", "") =>
         Holding(c, "ptable") /\ ncli[c] = 1 /\ ~IF_[c] /\ state[on[c]] # "RUNNING"

\* Interrupts are on, and no cli is outstanding, whenever a thread runs user
\* code: intena belongs to the thread and survives a change of CPU in sched.
UserInterruptible ==
  \A c \in CPUs : todo[on[c]] = <<>> => IF_[c] /\ ncli[c] = 0

\* A thread made RUNNABLE by yield or wakeup is not run by a second CPU before
\* the first is off its kernel stack.
OneStack ==
  \A c, d \in CPUs : c # d => on[c] # on[d]

\* The sleep lock keeps its critical sections apart.
Has(t, i) == \E k \in 1..Len(todo[t]) : todo[t][k] = <<i, "">>
SleepLockExcludes ==
  \A t \in Threads : Has(t, "body") /\ ~Has(t, "take") => owner = t

\* No wakeup is lost: a thread asleep has its reason to sleep, or the wakeup
\* that ends its sleep is still to come.
Ends(ch) == IF ch = "lk" THEN <<"free", "">> ELSE <<"tick", "">>
Pending(ch) ==
  \E x \in CPUs \cup Threads : \E i \in 1..Len(todo[x]) :
    todo[x][i] = <<"wakeup1", ch>> /\ \A j \in 1..i : todo[x][j] # Ends(ch)
NoLostWakeup ==
  \A t \in Threads : state[t] = "SLEEPING" =>
    \/ chan[t] = "lk" /\ (owner # None \/ Pending("lk"))
    \/ chan[t] = "ticks" /\ (~ticked[t] \/ Pending("ticks"))
=============================================================================
