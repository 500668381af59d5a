------------------------------- MODULE Sched -------------------------------
(***************************************************************************)
(* The scheduler (myscheduler.c and the parts of proc.c, trap.c and        *)
(* sysproc.c that feed it): a three-level feedback queue whose share of    *)
(* the CPU is entry 0 of a stride scheduler.                               *)
(*                                                                         *)
(* A step is what ptable.lock makes atomic.  push_MLFQ as allocproc calls  *)
(* it, and set_cpu_share, take no lock and are several steps; Env says     *)
(* whether others may run in between.  The code lets them: what the model  *)
(* shows without "unlocked" in Env is about calls that do not overlap.     *)
(* Threads are left to the model of the process table: every process here  *)
(* has isthread = 0.                                                       *)
(***************************************************************************)
EXTENDS Integers, FiniteSets, SequencesExt

CONSTANTS
  NPROC,          \* slots of ptable, of every queue and of stride_arr
  NInit,          \* processes that exist when the model starts
  NCPU,
  NoProc,
  MAXTICKET,
  Portions,       \* arguments of set_cpu_share
  Quantum,        \* ticks after which a level gives up the CPU: <<5, 10, 20>>
  Allotment,      \* ticks after which a level is left: <<20, 40>>
  BoostTicks,     \* 200
  StrideQuantum,  \* 5
  MaxTick,        \* bound on MLFQ_tick
  MaxPass,        \* bound on the passes
  PassLimit,      \* 200000000, the pass above which choose_lowpass reduces them
  Env             \* which of the circumstances below occur

Slot == 0..NPROC - 1
Level == 0..2
initproc == 0

\* "fork": processes are created.
\* "sleep": processes sleep and are woken.
\* "yield": processes call yield().
\* "nomem": copyuvm may fail.
\* "again": a process of the stride scheduler calls set_cpu_share again.
\* "unlocked": others run during push_MLFQ and set_cpu_share.
Circumstances == {"fork", "sleep", "yield", "nomem", "again", "unlocked"}

ASSUME SchedAssumption ==
  /\ NPROC \in Nat /\ NInit \in 1..NPROC /\ NCPU \in Nat \ {0}
  /\ NoProc \notin Slot
  /\ Portions \subseteq 1..80
  /\ Env \subseteq Circumstances

VARIABLES
  state,      \* p->state
  mlfq,       \* holdingproc and total of the queues, level and fqtick of the processes
  current,    \* MLFQ_queues[].current
  MLFQ_tick,
  arr,        \* stride_arr: stride, pass, share, proc
  isstride,   \* processes with isstride = 1
  mystride,   \* p->mystride, as an index
  yielding,   \* processes that have to yield: a tick ended their quantum, or they asked to
  at,         \* where a process is in fork or set_cpu_share
  arg,        \* the child, or the portion
  idx,        \* the slot or entry it is about to fill
  fault       \* the kernel has followed a null pointer or left an array

queues  == <<mlfq, current, MLFQ_tick>>
strides == <<arr, isstride, mystride>>
kernel  == <<at, arg, idx>>
vars    == <<state, queues, strides, yielding, kernel, fault>>

\* After userinit and NInit - 1 forks.  userinit sets the stride of entry 0
\* and then clears all strides; its share stays 20.
Init ==
  /\ state = [p \in Slot |-> IF p < NInit THEN "RUNNABLE" ELSE "UNUSED"]
  /\ mlfq = [hold |-> [l \in Level |->
                         [i \in Slot |-> IF l = 0 /\ i < NInit THEN i ELSE NoProc]],
             total |-> [l \in Level |-> IF l = 0 THEN NInit ELSE 0],
             level |-> [p \in Slot |-> 0],
             fqtick |-> [p \in Slot |-> 0]]
  /\ current = [l \in Level |-> 0]
  /\ MLFQ_tick = 0
  /\ arr = [stride |-> [i \in Slot |-> 0], pass |-> [i \in Slot |-> 0],
            share |-> [i \in Slot |-> IF i = 0 THEN 20 ELSE 0],
            proc |-> [i \in Slot |-> IF i = 0 THEN initproc ELSE NoProc]]
  /\ isstride = {}
  /\ mystride = [p \in Slot |-> 0]
  /\ yielding = {}
  /\ at = [p \in Slot |-> "user"]
  /\ arg = [p \in Slot |-> 0]
  /\ idx = [p \in Slot |-> 0]
  /\ fault = FALSE

-----------------------------------------------------------------------------
(* The feedback queues. *)

SlotsHolding(m, l, x) == {i \in Slot : m.hold[l][i] = x}

\* p takes slot i of the queue of level l.
Place(m, p, l, i) ==
  [m EXCEPT !.hold[l][i] = p, !.total[l] = @ + 1, !.level[p] = l, !.fqtick[p] = 0]

push_MLFQ(m, p, l) ==
  LET free == SlotsHolding(m, l, NoProc)
  IN  IF free = {} THEN m ELSE Place(m, p, l, Min(free))

\* p's level is 3 in the stride scheduler: then it is in no queue.
Queued(m, p) == m.level[p] \in Level /\ SlotsHolding(m, m.level[p], p) # {}

pop_MLFQ_uncounted(m, p) ==
  IF ~Queued(m, p) THEN m
  ELSE LET l == m.level[p]
       IN  [m EXCEPT !.hold[l][Min(SlotsHolding(m, l, p))] = NoProc, !.fqtick[p] = 0]
pop_MLFQ(m, p) ==
  IF ~Queued(m, p) THEN m
  ELSE LET l == m.level[p]
       IN  [m EXCEPT !.hold[l][Min(SlotsHolding(m, l, p))] = NoProc,
                     !.total[l] = @ - 1, !.fqtick[p] = 0]

level_change_MLFQ(m, p, l) ==
  IF Queued(m, p) THEN push_MLFQ(pop_MLFQ(m, p), p, l) ELSE m

\* Every process of these levels, in table order, goes back to level 0.
Raise(m, levels) ==
  LET up(r, p) == IF r.level[p] \in levels THEN level_change_MLFQ(r, p, 0) ELSE r
  IN  FoldLeft(LAMBDA r, p : CHOOSE s \in {up(x, p) : x \in {r}} : TRUE,
               m, [i \in 1..NPROC |-> i - 1])

boost_priority_level1_only(m) == Raise(m, {1})
boost_priority(m) == Raise(m, {1, 2})

\* The NPROC - 1 positions exec_MLFQ looks at in level l, as distances from
\* the position after the last pick.
Candidates(l) ==
  {k \in 0..NPROC - 2 :
     LET p == mlfq.hold[l][(current[l] + k) % NPROC]
     IN  p # NoProc /\ state[p] = "RUNNABLE"}

\* The levels in which it finds somebody.
Ready == {l \in Level : mlfq.total[l] # 0 /\ Candidates(l) # {}}

\* Its pick: the first one of the first level.
PickLevel == Min(Ready)
PickSlot == (current[PickLevel] + Min(Candidates(PickLevel))) % NPROC

-----------------------------------------------------------------------------
(* Choosing and running a process. *)

Running == {p \in Slot : state[p] = "RUNNING"}
Runnable == {p \in Slot : state[p] = "RUNNABLE"}

\* The steps of push_MLFQ and set_cpu_share exclude all others, unless Env
\* says otherwise.
Quiet == "unlocked" \in Env \/ \A p \in Slot : at[p] \in {"user", "copy"}

\* p runs, in user space or at a point where it can be interrupted.
Executing(p) == ~fault /\ state[p] = "RUNNING" /\ p \notin yielding /\ Quiet

Entries == {i \in Slot : arr.stride[i] # 0}

\* choose_lowpass: the first entry with the lowest pass; entry 0 always competes.
\* It follows the process of every entry in use, and reduces the passes through
\* tmp, which after the loop points past stride_arr.
choose_lowpass(pass) ==
  LET S == {0} \cup {i \in Entries : state[arr.proc[i]] = "RUNNABLE"}
  IN  Min({i \in S : \A j \in S : pass[i] <= pass[j]})

LeavesArray(pass) ==
  (\E i \in Entries : arr.proc[i] = NoProc) \/ pass[choose_lowpass(pass)] > PassLimit

\* What the scheduler loop does for one runnable slot p.  When the queues
\* have nobody, their pass grows and the search is repeated; p itself is run
\* when that fails too.
schedule(p) ==
  LET first  == choose_lowpass(arr.pass)
      bumped == [arr.pass EXCEPT ![0] = @ + arr.stride[0]]
      second == choose_lowpass(bumped)
      run(q) == state' = [state EXCEPT ![q] = "RUNNING"]
  IN
  /\ ~fault /\ Quiet
  /\ p \in Runnable /\ Cardinality(Running) < NCPU
  /\ IF LeavesArray(arr.pass) \/ (first = 0 /\ Ready = {} /\ LeavesArray(bumped))
       THEN fault' = TRUE /\ UNCHANGED <<state, current, arr>>
       ELSE /\ UNCHANGED fault
            /\ \/ first # 0 /\ run(arr.proc[first]) /\ UNCHANGED <<current, arr>>
               \/ /\ first = 0 /\ Ready # {}
                  /\ run(mlfq.hold[PickLevel][PickSlot])
                  /\ current' = [current EXCEPT ![PickLevel] = PickSlot + 1]
                  /\ UNCHANGED arr
               \/ /\ first = 0 /\ Ready = {}
                  /\ bumped[0] <= MaxPass
                  /\ arr' = [arr EXCEPT !.pass = bumped]
                  /\ run(IF second # 0 THEN arr.proc[second] ELSE p)
                  /\ UNCHANGED current
  /\ UNCHANGED <<mlfq, MLFQ_tick, isstride, mystride, yielding, kernel>>

-----------------------------------------------------------------------------
(* The timer, yield, sleep and wakeup. *)

\* boost_priority runs on the first tick past BoostTicks that ends a quantum.
BoostDue_exact(over) == over /\ MLFQ_tick + 1 = BoostTicks + 1
BoostDue(over) == over /\ MLFQ_tick + 1 > BoostTicks

\* A tick of a process of the feedback queues: the queues and whether the
\* process has to yield.
Ticked(p) ==
  LET m == [mlfq EXCEPT !.fqtick[p] = @ + 1]
      l == m.level[p]
      allot == m.fqtick[p]
      moved == IF l < 2 /\ allot >= Allotment[l + 1] THEN level_change_MLFQ(m, p, l + 1) ELSE m
      over == allot % Quantum[l + 1] = 0
      boost == BoostDue(over)
  IN  [mlfq |-> IF boost THEN boost_priority(moved) ELSE moved, over |-> over, boost |-> boost]

tick_add_MLFQ(p) ==
  /\ Executing(p)
  /\ MLFQ_tick < MaxTick
  /\ arr.pass[mystride[p]] + arr.stride[mystride[p]] <= MaxPass
  /\ arr' = [arr EXCEPT !.pass[mystride[p]] = @ + arr.stride[mystride[p]]]
  /\ IF p \in isstride
       THEN /\ mlfq' = [mlfq EXCEPT !.fqtick[p] = @ + 1]
            /\ yielding' = IF mlfq'.fqtick[p] > StrideQuantum THEN yielding \cup {p} ELSE yielding
            /\ UNCHANGED MLFQ_tick
       ELSE \E t \in {Ticked(p)} :
            /\ mlfq' = t.mlfq
            /\ MLFQ_tick' = IF t.boost THEN 0 ELSE MLFQ_tick + 1
            /\ yielding' = IF t.over THEN yielding \cup {p} ELSE yielding
  /\ UNCHANGED <<state, current, isstride, mystride, kernel, fault>>

yield(p) ==
  /\ ~fault /\ Quiet
  /\ p \in yielding /\ state[p] = "RUNNING"
  /\ state' = [state EXCEPT ![p] = "RUNNABLE"]
  /\ yielding' = yielding \ {p}
  /\ UNCHANGED <<queues, strides, kernel, fault>>

\* sys_yield changes fqtick without a lock; its yield() is the next step.
sys_yield(p) ==
  /\ "yield" \in Env /\ Executing(p) /\ at[p] = "user"
  /\ mlfq' = IF mlfq.fqtick[p] > 0 THEN [mlfq EXCEPT !.fqtick[p] = @ - 1] ELSE mlfq
  /\ yielding' = yielding \cup {p}
  /\ UNCHANGED <<state, current, MLFQ_tick, strides, kernel, fault>>

sleep(p) ==
  /\ "sleep" \in Env /\ Executing(p) /\ at[p] = "user"
  /\ state' = [state EXCEPT ![p] = "SLEEPING"]
  /\ UNCHANGED <<queues, strides, yielding, kernel, fault>>

\* What p sleeps for happens, or it is killed.
wakeup(p) ==
  /\ ~fault /\ Quiet /\ state[p] = "SLEEPING"
  /\ state' = [state EXCEPT ![p] = "RUNNABLE"]
  /\ UNCHANGED <<queues, strides, yielding, kernel, fault>>

-----------------------------------------------------------------------------
(* fork: allocproc, with push_MLFQ in two steps, and copyuvm. *)

\* p is at this point of a system call and runs.
Inside(p, where) == ~fault /\ state[p] = "RUNNING" /\ p \notin yielding /\ at[p] = where

Goto(p, where) == at' = [at EXCEPT ![p] = where]

Return(p) ==
  /\ Goto(p, "user")
  /\ arg' = [arg EXCEPT ![p] = 0]
  /\ idx' = [idx EXCEPT ![p] = 0]

allocproc(p) ==
  LET unused == {q \in Slot : state[q] = "UNUSED"} IN
  /\ "fork" \in Env /\ Executing(p) /\ at[p] = "user"
  /\ unused # {}
  /\ state' = [state EXCEPT ![Min(unused)] = "EMBRYO"]
  /\ arg' = [arg EXCEPT ![p] = Min(unused)]
  /\ Goto(p, "push")
  /\ UNCHANGED <<queues, strides, yielding, idx, fault>>

\* push_MLFQ finds a slot; NPROC stands for none.
push_find(p) ==
  /\ Inside(p, "push")
  /\ idx' = [idx EXCEPT ![p] = Min(SlotsHolding(mlfq, 0, NoProc) \cup {NPROC})]
  /\ Goto(p, "store")
  /\ UNCHANGED <<state, queues, strides, yielding, arg, fault>>

\* and fills it.
push_store(p) ==
  /\ Inside(p, "store")
  /\ IF idx[p] < NPROC
       THEN /\ mlfq' = Place(mlfq, arg[p], 0, idx[p])
            /\ isstride' = isstride \ {arg[p]}
       ELSE UNCHANGED <<mlfq, isstride>>
  /\ mystride' = [mystride EXCEPT ![arg[p]] = 0]
  /\ Goto(p, "copy")
  /\ UNCHANGED <<state, current, MLFQ_tick, arr, yielding, arg, idx, fault>>

fork(p) ==
  /\ Inside(p, "copy") /\ Quiet
  /\ \E s \in {"RUNNABLE"} \cup (IF "nomem" \in Env THEN {"UNUSED"} ELSE {}) :
       state' = [state EXCEPT ![arg[p]] = s]
  /\ Return(p)
  /\ UNCHANGED <<queues, strides, yielding, fault>>

-----------------------------------------------------------------------------
(* set_cpu_share, in three steps. *)

\* The shares of the entries after entry 0 that are in use, and n.
total_portion(n) == n + MapThenSumSet(LAMBDA i : arr.share[i], Entries \ {0})

\* (init.c never calls it.)  The check, and what is left goes to the feedback queues.
set_cpu_share(p, n) ==
  LET rest == 100 - total_portion(n) IN
  /\ Executing(p) /\ at[p] = "user"
  /\ p # initproc
  /\ p \in isstride => "again" \in Env
  /\ total_portion(n) <= 80
  /\ arr' = [arr EXCEPT !.share[0] = rest, !.stride[0] = MAXTICKET \div rest]
  /\ arg' = [arg EXCEPT ![p] = n]
  /\ Goto(p, "entry")
  /\ UNCHANGED <<state, queues, isstride, mystride, yielding, idx, fault>>

FreeEntries == Slot \ Entries

\* The new entry starts at the lowest pass.
share_entry(p) ==
  LET j == Min(FreeEntries)
      min_pass == Min({arr.pass[i] : i \in Entries})
  IN
  /\ Inside(p, "entry")
  /\ IF FreeEntries = {}
       THEN fault' = TRUE /\ UNCHANGED <<arr, idx, at>>
       ELSE /\ arr' = [arr EXCEPT !.share[j] = arg[p], !.stride[j] = MAXTICKET \div arg[p],
                                  !.pass[j] = min_pass]
            /\ idx' = [idx EXCEPT ![p] = j]
            /\ Goto(p, "owner")
            /\ UNCHANGED fault
  /\ UNCHANGED <<state, queues, isstride, mystride, yielding, arg>>

\* It is given to p, which leaves the feedback queues.
share_owner_unlinked(p) ==
  /\ Inside(p, "owner")
  /\ arr' = [arr EXCEPT !.proc[idx[p]] = p]
  /\ isstride' = isstride \cup {p}
  /\ mlfq' = [pop_MLFQ([mlfq EXCEPT !.fqtick[p] = 0], p) EXCEPT !.level[p] = 3]
  /\ Return(p)
  /\ UNCHANGED <<state, current, MLFQ_tick, mystride, yielding, fault>>
share_owner(p) ==
  /\ Inside(p, "owner")
  /\ arr' = [arr EXCEPT !.proc[idx[p]] = p]
  /\ mystride' = [mystride EXCEPT ![p] = idx[p]]
  /\ isstride' = isstride \cup {p}
  /\ mlfq' = [pop_MLFQ([mlfq EXCEPT !.fqtick[p] = 0], p) EXCEPT !.level[p] = 3]
  /\ Return(p)
  /\ UNCHANGED <<state, current, MLFQ_tick, yielding, fault>>

-----------------------------------------------------------------------------
(* exit and wait. *)

\* An exiting stride process gives its share back to the feedback queues.
Released_kept(i) ==
  [arr EXCEPT !.stride[i] = 0, !.pass[i] = 0, !.share[i] = 0]
Released(i) ==
  LET rest == arr.share[0] + arr.share[i]
  IN  [arr EXCEPT !.share = [@ EXCEPT ![0] = rest, ![i] = 0],
                  !.stride = [@ EXCEPT ![0] = MAXTICKET \div rest, ![i] = 0],
                  !.pass[i] = 0]

exit(p) ==
  /\ Executing(p) /\ at[p] = "user"
  /\ p # initproc
  /\ IF p \in isstride
       THEN arr' = Released(mystride[p]) /\ UNCHANGED mlfq
       ELSE mlfq' = pop_MLFQ(mlfq, p) /\ UNCHANGED arr
  /\ state' = [state EXCEPT ![p] = "ZOMBIE"]
  /\ UNCHANGED <<current, MLFQ_tick, isstride, mystride, yielding, kernel, fault>>

\* The parent of p reaps it.
wait(p) ==
  /\ ~fault /\ Quiet /\ state[p] = "ZOMBIE"
  /\ state' = [state EXCEPT ![p] = "UNUSED"]
  /\ UNCHANGED <<queues, strides, yielding, kernel, fault>>

-----------------------------------------------------------------------------
Next == \E p \in Slot :
  \/ schedule(p) \/ tick_add_MLFQ(p) \/ yield(p) \/ sys_yield(p) \/ sleep(p) \/ wakeup(p)
  \/ allocproc(p) \/ push_find(p) \/ push_store(p) \/ fork(p)
  \/ (\E n \in Portions : set_cpu_share(p, n)) \/ share_entry(p) \/ share_owner(p)
  \/ exit(p) \/ wait(p)

Spec == Init /\ [][Next]_vars

\* The timer interrupts whoever runs, over and over; a CPU that is free looks
\* for a process; a process that has to yield does.
Fairness ==
  /\ SF_vars(\E p \in Slot : tick_add_MLFQ(p))
  /\ WF_vars(\E p \in Slot : schedule(p))
  /\ \A p \in Slot : WF_vars(yield(p))

FairSpec == Spec /\ Fairness

-----------------------------------------------------------------------------
(* Properties. *)

Settled == \A p \in Slot : at[p] \in {"user", "copy"}
Live(p) == state[p] \notin {"UNUSED", "ZOMBIE"}
Places(p) == {x \in Level \X Slot : mlfq.hold[x[1]][x[2]] = p}

\* Through forks, exits, demotions, boosts and moves to the stride scheduler:
\* a live process that is not in the stride scheduler has one slot, in the
\* queue of its level ("push proc to feedback queue, level is same as array
\* position", myscheduler.c:29), nobody else has one, and total counts them.
QueueConsistent ==
  Settled =>
    /\ \A p \in Slot :
         IF Live(p) /\ p \notin isstride
           THEN Cardinality(Places(p)) = 1 /\ \A x \in Places(p) : x[1] = mlfq.level[p]
           ELSE Places(p) = {}
    /\ \A l \in Level : mlfq.total[l] = Cardinality(Slot \ SlotsHolding(mlfq, l, NoProc))

\* The shares add up to 100 through any sequence of set_cpu_share and exit,
\* and the stride scheduler leaves the feedback queues at least 20
\* (myscheduler.c:324, "always under 80").
ShareConserved ==
  Settled /\ arr.stride[0] # 0 =>
    /\ MapThenSumSet(LAMBDA i : arr.share[i], Entries) = 100
    /\ arr.share[0] >= 20

\* Entries of stride_arr and processes of the stride scheduler belong to each
\* other one to one, through exits and the reuse of slots and entries: an entry
\* in use has a live process whose mystride it is (choose_lowpass follows its
\* proc), and the mystride of such a process is in use and its own (its ticks
\* and its exit go through it).
EntryOwned ==
  Settled =>
    /\ \A i \in Entries \ {0} :
         LET p == arr.proc[i]
         IN  p # NoProc /\ Live(p) /\ p \in isstride /\ mystride[p] = i
    /\ \A p \in isstride : Live(p) =>
         mystride[p] \in Entries \ {0} /\ arr.proc[mystride[p]] = p

\* choose_lowpass meets no entry without a process and stays inside stride_arr,
\* and set_cpu_share finds an entry.
NoFault == ~fault

\* tick_add_MLFQ looks for a boost only at the end of a quantum: it is late by
\* at most the unfinished quanta of the processes, when none of them yields.
BoostOnTime == MLFQ_tick <= BoostTicks + NPROC * (Quantum[3] - 1)

\* A process in the queues that can run is run: boost_priority prevents starvation.
NoStarvation ==
  \A p \in Slot : state[p] = "RUNNABLE" ~> state[p] # "RUNNABLE"

\* When the feedback queues have nobody to run, the stride process with the
\* lowest pass runs (OS_Project1.md:126).
IdleQueuesRunLowPass ==
  [][\A p \in isstride, i \in Entries \ {0} :
       /\ state[p] = "RUNNABLE" /\ state'[p] = "RUNNING" /\ Ready = {}
       /\ state[arr.proc[i]] = "RUNNABLE"
       => arr.pass[mystride[p]] <= arr.pass[i]]_vars
=============================================================================
