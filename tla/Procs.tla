-------------------------------- MODULE Procs --------------------------------
(***************************************************************************)
(* The life of processes and threads (proc.c) and of the memory they run   *)
(* in (vm.c, kalloc.c, exec.c): fork, exec, sbrk, exit, wait, kill,        *)
(* thread_create, thread_exit and thread_join over one process table and   *)
(* one free list of pages.                                                 *)
(*                                                                         *)
(* RUNNABLE stands for RUNNABLE and RUNNING, who runs is module Sched's    *)
(* business; a process that sleeps in wait or thread_join is SLEEPING on a *)
(* slot of the table.  Sizes are in pages; pages are counted, not named: a *)
(* page that is freed and still used, or neither, upsets the count at the  *)
(* step that does it.  A page directory and the page tables it points to   *)
(* count as one page.  Fields that are always written before they are read *)
(* again are 0 in an unused slot, as is the retvals of a joined thread.    *)
(*                                                                         *)
(* Programs are assumed to keep to what the code can take (the guards      *)
(* marked "discipline"): threads are created by the first thread and       *)
(* joined once, by it; while a process has threads it does not exit and is *)
(* not killed, and once it has had them it does not exec.  The members of  *)
(* Programs are what they may do beyond that and the code cannot take:     *)
(*   "fork"     somebody forks once a slot has held a thread;              *)
(*   "shrink"   a process that has had threads gives memory back;          *)
(*   "overlap"  threads of a process are in sbrk or thread_create at once. *)
(***************************************************************************)
EXTENDS Naturals, FiniteSets

CONSTANTS
  NPROC, NTHRE, NPAGES,
  KERNBASE,           \* pages of user address space
  MaxHeap,            \* bound: sbrk goes no further in a process without threads
  Masters,            \* bound: slots whose programs create threads
  InitSize,           \* pages a program has after exec
  Programs            \* what programs do that the code cannot take

Slots == 1..NPROC
initproc == 1
Vpns == 0..(KERNBASE - 1)
Tindex == 0..(NTHRE - 1)

VARIABLES
  ptable,    \* struct proc; pc and arg: the kernel function a process is in
  space,     \* the pages mapped in the address space made for each process
  free,      \* the length of kmem.freelist
  threaded   \* slots that have held a thread

vars == <<ptable, space, free, threaded>>

NoThreads == [i \in Tindex |-> 0]
Unused ==
  [state |-> "UNUSED", parent |-> 0, master |-> 0, workerthread |-> NoThreads,
   retvals |-> NoThreads, freeusrspace |-> NoThreads, kstack |-> 0, pgdir |-> 0, sz |-> 0,
   killed |-> FALSE, chan |-> 0, tindex |-> 0, pc |-> "user", arg |-> 0, made |-> "proc", rv |-> 0]

First(S) == CHOOSE i \in S : \A j \in S : i <= j

\* userinit: the first process, its directory, stack and only page.
Init ==
  /\ ptable = [s \in Slots |-> IF s = initproc
                 THEN [Unused EXCEPT !.state = "RUNNABLE", !.kstack = 1, !.pgdir = 1, !.sz = 1]
                 ELSE Unused]
  /\ space = [s \in Slots |-> IF s = initproc THEN {0} ELSE {}]
  /\ free = NPAGES - 3
  /\ threaded = {}

-----------------------------------------------------------------------------
(* Address spaces: m.map is what is mapped, m.free the free list *)

kfree(f, n) == f + n
kalloc(f) == f - 1

deallocuvm(m, oldsz, newsz) ==
  LET gone == {v \in m.map : newsz <= v /\ v < oldsz} IN
  [map |-> m.map \ gone, free |-> kfree(m.free, Cardinality(gone))]

\* Map pages as long as kalloc has one.
Grown(m, oldsz, newsz) ==
  LET n == IF newsz - oldsz <= m.free THEN newsz - oldsz ELSE m.free IN
  [map |-> m.map \cup {v \in Vpns : oldsz <= v /\ v < oldsz + n}, free |-> m.free - n]

\* mappages panics ("remap") at a page that is there already.
Remaps(m, oldsz, newsz) ==
  newsz < KERNBASE /\ \E v \in m.map : oldsz <= v /\ v < newsz /\ v - oldsz < m.free

\* allocuvm: all the pages, or none and 0.
allocuvm_keeps(m, oldsz, newsz) ==
  IF newsz >= KERNBASE THEN [ok |-> FALSE, m |-> m]
  ELSE [ok |-> m.free >= newsz - oldsz, m |-> Grown(m, oldsz, newsz)]
allocuvm(m, oldsz, newsz) ==
  IF newsz >= KERNBASE THEN [ok |-> FALSE, m |-> m]
  ELSE IF m.free >= newsz - oldsz THEN [ok |-> TRUE, m |-> Grown(m, oldsz, newsz)]
  ELSE [ok |-> FALSE, m |-> deallocuvm(Grown(m, oldsz, newsz), newsz, oldsz)]

\* freevm: the user pages, then the directory.
freevm(m) == kfree(deallocuvm(m, KERNBASE, 0).free, 1)

\* setupkvm, then sz pages in the new space (the copies copyuvm makes, or what
\* exec loads); on failure freevm takes back what there is.
setupkvm(f) == [map |-> {}, free |-> kalloc(f)]
NewSpace(f, sz) ==
  LET a == allocuvm(setupkvm(f), 0, sz) IN
  IF f = 0 THEN [ok |-> FALSE, map |-> {}, free |-> f]
  ELSE IF a.ok THEN [ok |-> TRUE, map |-> a.m.map, free |-> a.m.free]
  ELSE [ok |-> FALSE, map |-> {}, free |-> freevm(a.m)]

-----------------------------------------------------------------------------
(* Helpers *)

P(s) == ptable[s]
InUser(s) == P(s).state = "RUNNABLE" /\ P(s).pc = "user" /\ ~P(s).killed
Master(s) == IF P(s).master = 0 THEN s ELSE P(s).master
Memory(s) == [map |-> space[P(s).pgdir], free |-> free]
Threadless(s) ==                                                  \* discipline
  P(s).workerthread = NoThreads /\ P(s).freeusrspace = NoThreads /\ P(s).made = "proc"
FirstUnused == LET u == {s \in Slots : P(s).state = "UNUSED"} IN IF u = {} THEN 0 ELSE First(u)

\* wakeup1 on the table t.
wakeup1(t, chan) ==
  [s \in Slots |-> IF t[s].state = "SLEEPING" /\ t[s].chan = chan
                     THEN [t[s] EXCEPT !.state = "RUNNABLE", !.chan = 0] ELSE t[s]]
Vacant(r) ==
  [r EXCEPT !.state = "UNUSED", !.kstack = 0, !.killed = FALSE, !.pgdir = 0, !.sz = 0, !.chan = 0,
            !.tindex = 0, !.rv = 0, !.made = "proc"]
Sleep(s, chan, pc, arg) ==
  ptable' = [ptable EXCEPT ![s].state = "SLEEPING", ![s].chan = chan, ![s].pc = pc, ![s].arg = arg]

-----------------------------------------------------------------------------
(* fork and exec *)

\* allocproc: a slot and a kernel stack.  It clears no field of the slot.
fork_allocproc(s) ==
  /\ InUser(s) /\ Threadless(s)
  /\ "fork" \in Programs \/ threaded = {}                          \* discipline
  /\ FirstUnused # 0 /\ free > 0        \* otherwise fork returns -1 and nothing changed
  /\ ptable' = [ptable EXCEPT ![FirstUnused].state = "EMBRYO", ![FirstUnused].kstack = 1,
                              ![FirstUnused].made = "proc", ![FirstUnused].pc = "user",
                              ![s].pc = "fork", ![s].arg = FirstUnused]
  /\ free' = kalloc(free)
  /\ UNCHANGED <<space, threaded>>

\* copyuvm and the rest.
fork_leaks(s) ==
  LET np == P(s).arg  n == NewSpace(free, P(s).sz) IN
  /\ P(s).pc = "fork"
  /\ IF n.ok
       THEN /\ ptable' = [ptable EXCEPT ![np].pgdir = np, ![np].sz = P(s).sz, ![np].parent = s,
                                        ![np].state = "RUNNABLE", ![s].pc = "user", ![s].arg = 0]
            /\ space' = [space EXCEPT ![np] = n.map]
            /\ free' = n.free
       ELSE /\ ptable' = [ptable EXCEPT ![np].kstack = 0, ![np].state = "UNUSED",
                                        ![s].pc = "user", ![s].arg = 0]
            /\ free' = n.free
            /\ UNCHANGED space
  /\ UNCHANGED threaded
fork(s) ==
  LET np == P(s).arg  n == NewSpace(free, P(s).sz) IN
  /\ P(s).pc = "fork"
  /\ IF n.ok
       THEN /\ ptable' = [ptable EXCEPT ![np].pgdir = np, ![np].sz = P(s).sz, ![np].parent = s,
                                        ![np].state = "RUNNABLE", ![s].pc = "user", ![s].arg = 0]
            /\ space' = [space EXCEPT ![np] = n.map]
            /\ free' = n.free
       ELSE /\ ptable' = [ptable EXCEPT ![np].kstack = 0, ![np].state = "UNUSED",
                                        ![s].pc = "user", ![s].arg = 0]
            /\ free' = kfree(n.free, 1)
            /\ UNCHANGED space
  /\ UNCHANGED threaded

exec(s) ==
  LET n == NewSpace(free, InitSize) IN
  /\ InUser(s) /\ Threadless(s)
  /\ n.ok                                \* otherwise exec returns -1 and nothing changed
  /\ ptable' = [ptable EXCEPT ![s].sz = InitSize]
  /\ space' = [space EXCEPT ![s] = n.map]
  /\ free' = freevm([map |-> space[s], free |-> n.free])
  /\ UNCHANGED threaded

\* Threads of the process that are in a call that picks addresses by its size.
Resizing(m) == {t \in Slots : Master(t) = m /\ P(t).pc \in {"grow", "shrink", "grown", "create"}}
MayResize(m) == Resizing(m) = {} \/ "overlap" \in Programs           \* discipline

\* sbrk by one page up or down.  Nobody but itself looks at the size of a process
\* without threads: what growproc does to it is one step.
Resized(m, oldsz, newsz) ==
  IF newsz > oldsz THEN allocuvm(m, oldsz, newsz) ELSE [ok |-> TRUE, m |-> deallocuvm(m, oldsz, newsz)]
Now(s, m) == space' = [space EXCEPT ![P(s).pgdir] = m.map] /\ free' = m.free
growproc(s) ==
  /\ InUser(s) /\ Threadless(s)
  /\ \E newsz \in {P(s).sz - 1, P(s).sz + 1} \cap 1..MaxHeap :
       LET a == Resized(Memory(s), P(s).sz, newsz) IN
       /\ ptable' = [ptable EXCEPT ![s].sz = IF a.ok THEN newsz ELSE @]
       /\ Now(s, a.m)
  /\ UNCHANGED threaded

\* Threads share the size of the first one, and growproc takes no lock: it reads
\* the size, ...
growproc_read(s) ==
  /\ InUser(s) /\ ~Threadless(Master(s)) /\ MayResize(Master(s))
  /\ \E way \in {"grow", "shrink"} :
       /\ way = "grow" \/ "shrink" \in Programs                      \* discipline
       /\ ptable' = [ptable EXCEPT ![s].pc = way, ![s].arg = P(Master(s)).sz]
  /\ UNCHANGED <<space, free, threaded>>

\* ... maps or unmaps a page there, ...
growproc_map(s) ==
  LET m == Master(s)  sz == P(s).arg
      newsz == IF P(s).pc = "grow" THEN sz + 1 ELSE sz - 1
      remap == Remaps(Memory(m), sz, newsz)
      a == IF remap THEN [ok |-> FALSE, m |-> Memory(m)] ELSE Resized(Memory(m), sz, newsz)
  IN
  /\ P(s).pc \in {"grow", "shrink"}
  /\ ptable' = IF remap THEN [ptable EXCEPT ![s].pc = "panic"]
               ELSE IF a.ok THEN [ptable EXCEPT ![s].pc = "grown", ![s].arg = newsz]
               ELSE [ptable EXCEPT ![s].pc = "user", ![s].arg = 0]
  /\ Now(m, a.m)
  /\ UNCHANGED threaded

\* ... and stores the size.
growproc_store(s) ==
  /\ P(s).pc = "grown"
  /\ ptable' = [ptable EXCEPT ![Master(s)].sz = P(s).arg, ![s].pc = "user", ![s].arg = 0]
  /\ UNCHANGED <<space, free, threaded>>

-----------------------------------------------------------------------------
(* exit, wait and kill *)

\* Children of s become init's.
Abandoned(t, s) == [c \in Slots |-> IF t[c].parent = s THEN [t[c] EXCEPT !.parent = initproc] ELSE t[c]]
WakeInit(t, s) ==
  IF \E c \in Slots : t[c].parent = s /\ t[c].state = "ZOMBIE" THEN wakeup1(t, initproc) ELSE t

exit_silent(s) ==
  /\ P(s).state = "RUNNABLE" /\ P(s).pc = "user"
  /\ s # initproc /\ P(s).master = 0 /\ P(s).workerthread = NoThreads      \* discipline
  /\ ptable' = [Abandoned(wakeup1(ptable, P(s).parent), s) EXCEPT ![s].state = "ZOMBIE"]
  /\ UNCHANGED <<space, free, threaded>>
exit_keeps(s) ==
  /\ P(s).state = "RUNNABLE" /\ P(s).pc = "user"
  /\ s # initproc /\ P(s).master = 0 /\ P(s).workerthread = NoThreads
  /\ ptable' = [wakeup1(ptable, P(s).parent) EXCEPT ![s].state = "ZOMBIE"]
  /\ UNCHANGED <<space, free, threaded>>
exit(s) ==
  /\ P(s).state = "RUNNABLE" /\ P(s).pc = "user"
  /\ s # initproc /\ P(s).master = 0 /\ P(s).workerthread = NoThreads      \* discipline
  /\ ptable' = [Abandoned(WakeInit(wakeup1(ptable, P(s).parent), s), s) EXCEPT ![s].state = "ZOMBIE"]
  /\ UNCHANGED <<space, free, threaded>>

UsedIndex(s) == {i \in Tindex : P(s).workerthread[i] # 0}
Children(s) == {c \in Slots : P(c).parent = s /\ P(c).master = 0}
Zombies(s) == {c \in Children(s) : P(c).state = "ZOMBIE"}

\* The scan of wait: reap the first zombie, give up, or sleep.
wait(s) ==
  /\ InUser(s) \/ (P(s).state = "RUNNABLE" /\ P(s).pc = "wait")
  /\ UNCHANGED threaded
  /\ \/ /\ Zombies(s) # {}
        /\ LET c == First(Zombies(s))
               gone == {c} \cup {P(c).workerthread[i] : i \in UsedIndex(c)}
           IN
           /\ ptable' = [t \in Slots |->
                CASE t \in gone -> Vacant([P(t) EXCEPT !.parent = 0, !.workerthread = NoThreads])
                  [] t = s      -> [P(t) EXCEPT !.pc = "user"]
                  [] OTHER      -> P(t)]
           /\ free' = kfree(freevm(Memory(c)), Cardinality(gone))
           /\ space' = [space EXCEPT ![P(c).pgdir] = {}]
     \/ /\ Zombies(s) = {} /\ (Children(s) = {} \/ P(s).killed)
        /\ ptable' = [ptable EXCEPT ![s].pc = "user"]
        /\ UNCHANGED <<space, free>>
     \/ /\ Zombies(s) = {} /\ Children(s) # {} /\ ~P(s).killed
        /\ Sleep(s, s, "wait", 0)
        /\ UNCHANGED <<space, free>>

kill(t) ==
  /\ P(t).state \in {"RUNNABLE", "SLEEPING"} /\ t # initproc
  /\ P(t).master = 0 /\ P(t).workerthread = NoThreads                      \* discipline
  /\ ptable' = [ptable EXCEPT ![t].killed = TRUE, ![t].state = "RUNNABLE", ![t].chan = 0]
  /\ UNCHANGED <<space, free, threaded>>

-----------------------------------------------------------------------------
(* Threads *)

FreeIndex(s) == {i \in Tindex : P(s).workerthread[i] = 0}

\* allocthread: a slot, a kernel stack and a place among the workers (with no
\* place left it panics, which programs avoid).
thread_create_alloc(s) ==
  LET t == FirstUnused  i == First(FreeIndex(s)) IN
  /\ InUser(s) /\ P(s).made = "proc" /\ s \in Masters /\ MayResize(s)
  /\ FirstUnused # 0 /\ free > 0 /\ FreeIndex(s) # {}
  /\ ptable' = [ptable EXCEPT
        ![t].state = "EMBRYO", ![t].kstack = 1, ![t].made = "thread", ![t].pc = "user",
        ![t].parent = P(s).parent, ![t].master = s, ![t].pgdir = P(s).pgdir, ![t].tindex = i,
        ![s].workerthread[i] = t, ![s].pc = "create", ![s].arg = t]
  /\ free' = kalloc(free)
  /\ threaded' = threaded \cup {t}
  /\ UNCHANGED space

\* allocusrstack: two pages where a joined thread had them, or on top.
Holes(s) == {i \in Tindex : P(s).freeusrspace[i] # 0}
StackBase(s) == IF Holes(s) = {} THEN P(s).sz ELSE P(s).freeusrspace[First(Holes(s))]
allocusrstack(s) == allocuvm(Memory(s), StackBase(s), StackBase(s) + 2)

\* The size of a thread is the top of its stack.  Without a stack the slot stays
\* EMBRYO.
thread_create(s) ==
  LET t == P(s).arg  a == allocusrstack(s)  top == StackBase(s) + 2 IN
  /\ P(s).pc = "create"
  /\ ptable' =
       IF Remaps(Memory(s), StackBase(s), top) THEN [ptable EXCEPT ![s].pc = "panic"]
       ELSE IF a.ok
         THEN [ptable EXCEPT ![t].sz = top, ![t].state = "RUNNABLE",
                 ![s].sz = IF Holes(s) = {} THEN top ELSE @,
                 ![s].freeusrspace = IF Holes(s) = {} THEN @ ELSE [@ EXCEPT ![First(Holes(s))] = 0],
                 ![s].pc = "user", ![s].arg = 0]
         ELSE [ptable EXCEPT ![t].sz = 0, ![s].pc = "user", ![s].arg = 0]
  /\ space' = [space EXCEPT ![P(s).pgdir] = a.m.map]
  /\ free' = a.m.free
  /\ UNCHANGED threaded

\* A thread returns its own slot as value.
thread_exit_first(t) ==
  /\ InUser(t) /\ P(t).made = "thread"
  /\ ptable' = [Abandoned(WakeInit(wakeup1(ptable, P(t).master), t), t) EXCEPT
                  ![P(t).master].retvals[0] = t, ![t].state = "ZOMBIE", ![t].rv = t]
  /\ UNCHANGED <<space, free, threaded>>
thread_exit(t) ==
  /\ InUser(t) /\ P(t).made = "thread"
  /\ ptable' = [Abandoned(WakeInit(wakeup1(ptable, P(t).master), t), t) EXCEPT
                  ![P(t).master].retvals[P(t).tindex] = t, ![t].state = "ZOMBIE", ![t].rv = t]
  /\ UNCHANGED <<space, free, threaded>>

\* deallocstack: the master remembers where the stack was, if it has a place.
Places(s) == {i \in Tindex : P(s).freeusrspace[i] = 0}
deallocstack(t) ==
  deallocuvm([map |-> space[P(t).pgdir], free |-> kfree(free, 1)], P(t).sz, P(t).sz - 2)

\* The end of thread_join.
Joined(s, t) ==
  IF Places(s) = {}
    THEN /\ free' = kfree(free, 1)
         /\ ptable' = [ptable EXCEPT ![s].pc = "user", ![s].arg = 0]
         /\ UNCHANGED space
    ELSE /\ free' = deallocstack(t).free
         /\ space' = [space EXCEPT ![P(t).pgdir] = deallocstack(t).map]
         /\ ptable' = [ptable EXCEPT
               ![s].freeusrspace[First(Places(s))] = P(t).sz - 2, ![s].workerthread[P(t).tindex] = 0,
               ![s].retvals[P(t).tindex] = 0, ![s].pc = "user", ![s].arg = 0, ![t] = Vacant(@)]

thread_join(s, t) ==
  /\ \/ InUser(s) /\ \E i \in Tindex : P(s).workerthread[i] = t /\ P(t).state # "EMBRYO"
     \/ P(s).state = "RUNNABLE" /\ P(s).pc = "join" /\ P(s).arg = t
  /\ UNCHANGED threaded
  /\ \/ P(t).state = "ZOMBIE" /\ Joined(s, t)
     \/ P(t).state # "ZOMBIE" /\ Sleep(s, P(t).master, "join", t) /\ UNCHANGED <<space, free>>

-----------------------------------------------------------------------------

Next ==
  \E s \in Slots :
    \/ fork_allocproc(s) \/ fork(s) \/ exec(s)
    \/ growproc(s) \/ growproc_read(s) \/ growproc_map(s) \/ growproc_store(s)
    \/ exit(s) \/ wait(s) \/ kill(s)
    \/ thread_create_alloc(s) \/ thread_create(s) \/ thread_exit(s)
    \/ \E t \in Slots : thread_join(s, t)

Spec == Init /\ [][Next]_vars

-----------------------------------------------------------------------------
(* What must hold *)

Live(s) == P(s).state \in {"RUNNABLE", "SLEEPING", "ZOMBIE"}
Procs == {s \in Slots : Live(s) /\ P(s).made = "proc"}
Threads == {s \in Slots : Live(s) /\ P(s).made = "thread"}
Mapped(s) == space[P(s).pgdir]

\* Slots somebody in fork or thread_create is making, and slots nobody is: a
\* thread_create that got no user stack returned without giving back the slot and
\* the kernel stack allocthread took.
Making == {P(s).arg : s \in {u \in Slots : P(u).pc \in {"fork", "create"}}}
Stranded == {s \in Slots : P(s).state = "EMBRYO"} \ Making

\* Every page of memory is free, the kernel stack of a process or thread, a
\* directory or mapped once: whatever fork, exec, sbrk, wait and the thread calls
\* did, nothing is freed twice or still in use by a stack or an address space
\* once free (kfree and kalloc keep no record that would notice), and what ran
\* out of memory gave back what it had.  The one exception is stated: a
\* thread_create that gets no user stack keeps a slot and its kernel stack for
\* good; fork and exec never do.
PagesUsedOnce ==
  /\ free + Cardinality({s \in Slots : Live(s) \/ s \in Making}) + Cardinality(Stranded)
          + Cardinality(Procs)
          + Cardinality({w \in Slots \X Vpns : w[2] \in space[w[1]]}) = NPAGES
  /\ \A s \in Stranded : P(s).made = "thread"

\* The exception is the code's, not the calls': no call that has returned, failed
\* or not, keeps memory nobody can give back.  It does not hold: the error path of
\* thread_create after allocthread only returns -1.
NothingStranded == Stranded = {}

\* The size growproc is about to store counts as the size.
Size(s) ==
  LET done == {t \in Slots : Master(t) = s /\ P(t).pc = "grown"} IN
  IF done = {} THEN P(s).sz ELSE P(CHOOSE t \in done : TRUE).arg

\* A process has exactly the pages below its size, but for the holes its joined
\* threads left, and each of its threads has its own two pages for a stack: what
\* growproc, allocusrstack and deallocstack rely on when they pick addresses
\* (mappages panics when a page is there already, copyuvm when one is missing).
\* It is about programs whose threads take turns in sbrk and thread_create, and
\* do not shrink the process: with "overlap" growproc panics, with "shrink" a
\* thread loses its stack.
SpaceMatchesSize ==
  /\ \A s \in Slots : P(s).pc # "panic"
  /\ \A s \in Procs :
       Mapped(s) = (0..(Size(s) - 1)) \
                   UNION {{P(s).freeusrspace[i], P(s).freeusrspace[i] + 1} : i \in Holes(s)}
  /\ \A t \in Threads :
       /\ P(t).master \in Procs /\ P(t).pgdir = P(P(t).master).pgdir
       /\ {P(t).sz - 2, P(t).sz - 1} \subseteq Mapped(t)
       /\ \A u \in Threads \ {t} : P(u).pgdir = P(t).pgdir => P(u).sz # P(t).sz

\* Whoever exits can be collected: the parent of a process is a process that has
\* not itself exited, since exit passes children on to init (and a slot is not
\* reused while it is somebody's parent).
ParentCanWait ==
  \A s \in Procs \ {initproc} : P(s).parent \in Procs /\ P(P(s).parent).state # "ZOMBIE"

\* Nobody sleeps through the exit they wait for: a process asleep in wait has a
\* child and no exited one, a process asleep in thread_join waits for a thread of
\* its own that has not exited.
SleepersHaveCause ==
  \A s \in Slots : P(s).state = "SLEEPING" =>
    /\ P(s).pc = "wait" => Children(s) # {} /\ Zombies(s) = {}
    /\ P(s).pc = "join" => P(s).arg \in Threads /\ P(P(s).arg).state # "ZOMBIE"

\* thread_join hands out the value its thread gave to thread_exit, although the
\* place in retvals belongs to the index, not to the thread.
RetvalKept ==
  \A t \in Threads : P(t).state = "ZOMBIE" => P(P(t).master).retvals[P(t).tindex] = P(t).rv

\* "if 0, this proc is master else thread": what fork made is not a thread.
MasterMeansThread == \A s \in Procs : P(s).master = 0
=============================================================================
