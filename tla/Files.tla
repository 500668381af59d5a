------------------------------- MODULE Files -------------------------------
(***************************************************************************)
(* The open-file table (file.c), descriptors (sysfile.c) and pipes         *)
(* (pipe.c), with the parts of fork, exit and kill that touch them.        *)
(*                                                                         *)
(* A step is what ftable.lock or a pipe's lock makes atomic; a system call *)
(* is the sequence of its steps, and call[p] says where p is in it.  Only  *)
(* pipes are open here: inodes are the subject of Names.                   *)
(***************************************************************************)
EXTENDS Naturals, Sequences, FiniteSets

CONSTANTS
  Procs,      \* slots of the process table
  Root,       \* the process that is there at the start
  Pipes,      \* pages kalloc can hand out for pipes
  NOFILE,     \* descriptors of a process
  NFILE,      \* entries of ftable
  PIPESIZE,
  UINT,       \* 2^32: nread and nwrite are uints
  ReadSizes,  \* n of a read()
  Payloads    \* what one write() may carry: sequences of bytes

NoPipe == "none"
NoEnd  == <<>>

\* What a program writes.
Byte == UNION {{s[i] : i \in 1..Len(s)} : s \in Payloads}

ASSUME RootAssumption == Root \in Procs /\ IsFiniteSet(Procs)
ASSUME SizeAssumption == NOFILE \in Nat /\ NFILE \in Nat /\ NoPipe \notin Pipes
ASSUME RingAssumption ==
  PIPESIZE \in Nat \ {0} /\ UINT \in Nat /\ PIPESIZE < UINT /\ UINT % PIPESIZE = 0
ASSUME ArgumentAssumption == ReadSizes \subseteq Nat /\ Payloads \subseteq Seq(Byte)

VARIABLES
  alive,      \* slots in use
  killed,     \* processes with p->killed
  ofile,      \* ofile[p][fd]: an entry of ftable, or 0
  ftable,
  pipes,
  call,       \* the system call each process is in
  abandoned   \* pipes whose last wakeup(&p->nread) a killed writer left out

table == <<ofile, ftable>>
vars  == <<alive, killed, table, pipes, call, abandoned>>

FDs   == 0..(NOFILE - 1)
File  == 1..NFILE

\* struct file: type FD_NONE when pipe = NoPipe.
ClosedFile == [ref |-> 0, pipe |-> NoPipe, writable |-> FALSE]

\* struct pipe, as pipealloc leaves it; a page that is not a pipe is Freed.
NewPipe == [nread |-> 0, nwrite |-> 0, data |-> [i \in 0..(PIPESIZE - 1) |-> "junk"],
            readopen |-> TRUE, writeopen |-> TRUE]
Freed == [nread |-> 0, nwrite |-> 0, data |-> <<>>, readopen |-> FALSE, writeopen |-> FALSE]

\* Bytes in the pipe: uint subtraction.
Used(P) == (P.nwrite + UINT - P.nread) % UINT
Contents(P) == [j \in 1..Used(P) |-> P.data[(P.nread + j - 1) % PIPESIZE]]

\* p->data[p->nwrite++ % PIPESIZE] = addr[i], for the bytes of s.
Put_preincrement(P, s) ==
  [P EXCEPT !.nwrite = (P.nwrite + Len(s)) % UINT,
            !.data = [x \in DOMAIN P.data |->
                        LET J == {j \in 1..Len(s) : (P.nwrite + j) % PIPESIZE = x}
                        IN IF J = {} THEN P.data[x] ELSE s[CHOOSE j \in J : TRUE]]]
Put(P, s) ==
  [P EXCEPT !.nwrite = (P.nwrite + Len(s)) % UINT,
            !.data = [x \in DOMAIN P.data |->
                        LET J == {j \in 1..Len(s) : (P.nwrite + j - 1) % PIPESIZE = x}
                        IN IF J = {} THEN P.data[x] ELSE s[CHOOSE j \in J : TRUE]]]

\* Where a process is: in user space, or in step pc of a call.  todo: files the
\* call still has to close; pend: the end of a pipe fileclose is about to close.
Idle == [pc |-> "user", fd |-> 0, buf |-> <<>>, n |-> 0, todo |-> <<>>, pend |-> NoEnd]
At(pc) == [Idle EXCEPT !.pc = pc]

\* The lowest free descriptor or table entry, 0 or NOFILE if there is none.
fdalloc(of) == IF \E fd \in FDs : of[fd] = 0
                 THEN CHOOSE fd \in FDs : of[fd] = 0 /\ \A e \in FDs : e < fd => of[e] # 0
                 ELSE NOFILE
filealloc == IF \E f \in File : ftable[f].ref = 0
               THEN CHOOSE f \in File : ftable[f].ref = 0 /\ \A g \in File : g < f => ftable[g].ref > 0
               ELSE 0

\* wakeup(chan): a process asleep in step "rsleep" or "wsleep" on pipe pp.
PipeOf(p) == ftable[ofile[p][call[p].fd]].pipe
Awake(cl, from, to, pp) ==
  [q \in Procs |-> IF cl[q].pc = from /\ PipeOf(q) = pp THEN [cl[q] EXCEPT !.pc = to] ELSE cl[q]]

InUser(p) == p \in alive /\ p \notin killed /\ call[p].pc = "user"

Init ==
  /\ alive = {Root}
  /\ killed = {}
  /\ ofile = [p \in Procs |-> [fd \in FDs |-> 0]]
  /\ ftable = [f \in File |-> ClosedFile]
  /\ pipes = [pp \in Pipes |-> Freed]
  /\ call = [p \in Procs |-> Idle]
  /\ abandoned = {}

-----------------------------------------------------------------------------
(* pipe() *)

\* The first filealloc of pipealloc.
sys_pipe(p) ==
  /\ InUser(p)
  /\ filealloc # 0
  /\ ftable' = [ftable EXCEPT ![filealloc].ref = 1]
  /\ call' = [call EXCEPT ![p] = [At("pipe") EXCEPT !.todo = <<filealloc>>]]
  /\ UNCHANGED <<alive, killed, ofile, pipes, abandoned>>

\* The second; "bad" closes the first file.
pipealloc_second(p) ==
  /\ call[p].pc = "pipe"
  /\ IF filealloc = 0
       THEN /\ call' = [call EXCEPT ![p].pc = "close"]
            /\ UNCHANGED ftable
       ELSE /\ ftable' = [ftable EXCEPT ![filealloc].ref = 1]
            /\ call' = [call EXCEPT ![p] = [@ EXCEPT !.pc = "kalloc", !.todo = Append(call[p].todo, filealloc)]]
  /\ UNCHANGED <<alive, killed, ofile, pipes, abandoned>>

\* kalloc, the fields of both files, and sys_pipe's two fdallocs.  What cannot
\* get a page or two descriptors closes both files again.
pipealloc_page(p) ==
  LET rf == call[p].todo[1]
      wf == call[p].todo[2]
      fd0 == fdalloc(ofile[p])
      one == [ofile[p] EXCEPT ![fd0] = rf]
      fd1 == fdalloc(one)
      free == {pp \in Pipes : pipes[pp] = Freed}
  IN
  /\ call[p].pc = "kalloc"
  /\ \/ /\ free = {}
        /\ call' = [call EXCEPT ![p].pc = "close"]
        /\ UNCHANGED <<ofile, ftable, pipes>>
     \/ \E pp \in free :
        /\ pipes' = [pipes EXCEPT ![pp] = NewPipe]
        /\ ftable' = [ftable EXCEPT ![rf] = [@ EXCEPT !.pipe = pp, !.writable = FALSE],
                                    ![wf] = [@ EXCEPT !.pipe = pp, !.writable = TRUE]]
        /\ IF fd0 = NOFILE \/ fd1 = NOFILE
             THEN /\ call' = [call EXCEPT ![p].pc = "close"]
                  /\ UNCHANGED ofile
             ELSE /\ ofile' = [ofile EXCEPT ![p] = [one EXCEPT ![fd1] = wf]]
                  /\ call' = [call EXCEPT ![p] = Idle]
  /\ UNCHANGED <<alive, killed, abandoned>>

-----------------------------------------------------------------------------
(* dup(), close(), fork(), exit(), kill() *)

\* fdalloc takes the descriptor first, filedup then raises the count.
sys_dup_unshared(p, fd) ==
  LET new == fdalloc(ofile[p]) IN
  /\ InUser(p) /\ ofile[p][fd] # 0 /\ new # NOFILE
  /\ ofile' = [ofile EXCEPT ![p][new] = ofile[p][fd]]
  /\ UNCHANGED <<alive, killed, ftable, pipes, call, abandoned>>
sys_dup(p, fd) ==
  LET new == fdalloc(ofile[p]) IN
  /\ InUser(p) /\ ofile[p][fd] # 0 /\ new # NOFILE
  /\ ofile' = [ofile EXCEPT ![p][new] = ofile[p][fd]]
  /\ ftable' = [ftable EXCEPT ![ofile[p][fd]].ref = @ + 1]
  /\ UNCHANGED <<alive, killed, pipes, call, abandoned>>

\* fileclose under ftable.lock.  The last reference empties the entry and leaves
\* the end of the pipe to be closed.
Drop_keeps_type(F) == IF F.ref > 1 THEN [F EXCEPT !.ref = @ - 1] ELSE [F EXCEPT !.ref = 0]
Drop(F) == IF F.ref > 1 THEN [F EXCEPT !.ref = @ - 1] ELSE ClosedFile
Pend(F) == IF F.ref = 1 /\ F.pipe # NoPipe THEN <<F.pipe, F.writable>> ELSE NoEnd

\* A call with nothing left to close returns.
Settled(c) == IF c.pc = "close" /\ c.todo = <<>> /\ c.pend = NoEnd THEN Idle ELSE c

\* Clears the descriptor, which is p's own, and closes the file.
sys_close(p, fd) ==
  LET f == ofile[p][fd] IN
  /\ InUser(p) /\ f # 0
  /\ ftable[f].ref >= 1                    \* panic("fileclose")
  /\ ofile' = [ofile EXCEPT ![p][fd] = 0]
  /\ ftable' = [ftable EXCEPT ![f] = Drop(@)]
  /\ call' = [call EXCEPT ![p] = Settled([At("close") EXCEPT !.pend = Pend(ftable[f])])]
  /\ UNCHANGED <<alive, killed, pipes, abandoned>>

\* The filecloses of a pipe() that failed.
pipe_fileclose(p) ==
  LET f == Head(call[p].todo) IN
  /\ call[p].pc = "close" /\ call[p].pend = NoEnd
  /\ ftable[f].ref >= 1
  /\ ftable' = [ftable EXCEPT ![f] = Drop(@)]
  /\ call' = [call EXCEPT ![p] = Settled([@ EXCEPT !.todo = Tail(call[p].todo), !.pend = Pend(ftable[f])])]
  /\ UNCHANGED <<alive, killed, ofile, pipes, abandoned>>

\* pipeclose, by close() or by exit(): closes an end, wakes the other one, and
\* frees the page with the second end.
pipeclose_silent(p) ==
  LET pp == call[p].pend[1]
      w == call[p].pend[2]
      P == IF w THEN [pipes[pp] EXCEPT !.writeopen = FALSE] ELSE [pipes[pp] EXCEPT !.readopen = FALSE]
  IN
  /\ call[p].pend # NoEnd
  /\ pipes' = [pipes EXCEPT ![pp] = IF P.readopen \/ P.writeopen THEN P ELSE Freed]
  /\ call' = [call EXCEPT ![p] = Settled([@ EXCEPT !.pend = NoEnd])]
  /\ UNCHANGED <<alive, killed, table, abandoned>>
pipeclose(p) ==
  LET pp == call[p].pend[1]
      w == call[p].pend[2]
      P == IF w THEN [pipes[pp] EXCEPT !.writeopen = FALSE] ELSE [pipes[pp] EXCEPT !.readopen = FALSE]
      woken == IF w THEN Awake(call, "rsleep", "read", pp) ELSE Awake(call, "wsleep", "write", pp)
  IN
  /\ call[p].pend # NoEnd
  /\ pipes' = [pipes EXCEPT ![pp] = IF P.readopen \/ P.writeopen THEN P ELSE Freed]
  /\ call' = [woken EXCEPT ![p] = Settled([@ EXCEPT !.pend = NoEnd])]
  /\ abandoned' = IF w THEN abandoned \ {pp} ELSE abandoned
  /\ UNCHANGED <<alive, killed, table>>

\* fork duplicates every descriptor.  The parent's own references keep the
\* files open meanwhile, so the loop of filedups is one step.
fork(p, c) ==
  LET dups(f) == Cardinality({fd \in FDs : ofile[p][fd] = f}) IN
  /\ InUser(p) /\ c \notin alive
  /\ alive' = alive \cup {c}
  /\ ofile' = [ofile EXCEPT ![c] = ofile[p]]
  /\ ftable' = [f \in File |-> [ftable[f] EXCEPT !.ref = @ + dups(f)]]
  /\ UNCHANGED <<killed, pipes, call, abandoned>>

\* exit closes the descriptors in order; a killed process exits when it is about
\* to return to user space.
exit(p) ==
  /\ p \in alive /\ call[p].pc = "user"
  /\ p # Root
  /\ call' = [call EXCEPT ![p] = At("exit")]
  /\ UNCHANGED <<alive, killed, table, pipes, abandoned>>

exit_fileclose(p) ==
  LET fd == CHOOSE x \in FDs : ofile[p][x] # 0 /\ \A e \in FDs : e < x => ofile[p][e] = 0
      f == ofile[p][fd]
  IN
  /\ call[p].pc = "exit" /\ call[p].pend = NoEnd
  /\ \E x \in FDs : ofile[p][x] # 0
  /\ ftable[f].ref >= 1
  /\ ftable' = [ftable EXCEPT ![f] = Drop(@)]
  /\ ofile' = [ofile EXCEPT ![p][fd] = 0]
  /\ call' = [call EXCEPT ![p].pend = Pend(ftable[f])]
  /\ UNCHANGED <<alive, killed, pipes, abandoned>>

\* ZOMBIE, then reaped by wait.
exit_done(p) ==
  /\ call[p].pc = "exit" /\ call[p].pend = NoEnd
  /\ \A x \in FDs : ofile[p][x] = 0
  /\ alive' = alive \ {p}
  /\ killed' = killed \ {p}
  /\ call' = [call EXCEPT ![p] = Idle]
  /\ UNCHANGED <<table, pipes, abandoned>>

\* kill makes a sleeper runnable: it finds p->killed set in its loop.
kill_sleeps_on(p) ==
  /\ p \in alive \ killed /\ p # Root
  /\ killed' = killed \cup {p}
  /\ UNCHANGED <<alive, table, pipes, call, abandoned>>
kill(p) ==
  /\ p \in alive \ killed /\ p # Root
  /\ killed' = killed \cup {p}
  /\ call' = [call EXCEPT ![p].pc = CASE @ = "rsleep" -> "read" [] @ = "wsleep" -> "write" [] OTHER -> @]
  /\ UNCHANGED <<alive, table, pipes, abandoned>>

-----------------------------------------------------------------------------
(* read() and write() on a pipe *)

sys_read(p, fd, n) ==
  /\ InUser(p) /\ ofile[p][fd] # 0 /\ ~ftable[ofile[p][fd]].writable
  /\ call' = [call EXCEPT ![p] = [At("read") EXCEPT !.fd = fd, !.n = n]]
  /\ UNCHANGED <<alive, killed, table, pipes, abandoned>>

sys_write(p, fd, s) ==
  /\ InUser(p) /\ ofile[p][fd] # 0 /\ ftable[ofile[p][fd]].writable
  /\ call' = [call EXCEPT ![p] = [At("write") EXCEPT !.fd = fd, !.buf = s]]
  /\ UNCHANGED <<alive, killed, table, pipes, abandoned>>

\* Slots that have been read are never read again: the model blanks them.
Take(P, k) ==
  [P EXCEPT !.nread = (@ + k) % UINT,
            !.data = [x \in DOMAIN P.data |->
                        IF \E j \in 1..k : (P.nread + j - 1) % PIPESIZE = x THEN "junk" ELSE P.data[x]]]

\* kill takes ptable.lock and not the pipe's lock, so that it may come between a
\* loop's look at p->killed and the sleep that follows; it then wakes nobody.
KilledMeanwhile(p) == killed' \in {killed, killed \cup ({p} \ {Root})}

piperead(p) ==
  LET pp == PipeOf(p)
      P == pipes[pp]
      k == IF call[p].n < Used(P) THEN call[p].n ELSE Used(P)
  IN
  /\ call[p].pc = "read"
  /\ IF Used(P) = 0 /\ P.writeopen
       THEN /\ IF p \in killed
                 THEN call' = [call EXCEPT ![p] = Idle] /\ UNCHANGED killed
                 ELSE call' = [call EXCEPT ![p].pc = "rsleep"] /\ KilledMeanwhile(p)
            /\ UNCHANGED pipes
       ELSE /\ pipes' = [pipes EXCEPT ![pp] = Take(@, k)]
            /\ call' = [Awake(call, "wsleep", "write", pp) EXCEPT ![p] = Idle]
            /\ UNCHANGED killed
  /\ UNCHANGED <<alive, table, abandoned>>

\* One hold of p->lock: copy while there is room; with bytes left over, give up
\* if nobody can read or p is killed, else wake the readers and sleep.
pipewrite(p) ==
  LET pp == PipeOf(p)
      P == pipes[pp]
      room == PIPESIZE - Used(P)
      left == call[p].buf
      k == IF Len(left) < room THEN Len(left) ELSE room
      rest == SubSeq(left, k + 1, Len(left))
      giveup == rest # <<>> /\ (~P.readopen \/ p \in killed)
      woken == IF giveup THEN call ELSE Awake(call, "rsleep", "read", pp)
  IN
  /\ call[p].pc = "write"
  /\ pipes' = [pipes EXCEPT ![pp] = Put(@, SubSeq(left, 1, k))]
  /\ call' = [woken EXCEPT ![p] = IF rest = <<>> \/ giveup THEN Idle
                                    ELSE [@ EXCEPT !.pc = "wsleep", !.buf = rest]]
  /\ abandoned' = IF giveup THEN abandoned \cup {pp} ELSE abandoned \ {pp}
  /\ IF rest = <<>> \/ giveup THEN UNCHANGED killed ELSE KilledMeanwhile(p)
  /\ UNCHANGED <<alive, table>>

-----------------------------------------------------------------------------
ProcStep(p) ==
  \/ pipealloc_second(p) \/ pipealloc_page(p)
  \/ pipe_fileclose(p) \/ pipeclose(p)
  \/ exit_fileclose(p) \/ exit_done(p)
  \/ piperead(p) \/ pipewrite(p)

Syscall(p) ==
  \/ sys_pipe(p)
  \/ exit(p)
  \/ \E c \in Procs : fork(p, c)
  \/ \E fd \in FDs :
       \/ sys_dup(p, fd)
       \/ sys_close(p, fd)
       \/ \E n \in ReadSizes : sys_read(p, fd, n)
       \/ \E s \in Payloads : sys_write(p, fd, s)

Next == \E p \in Procs : ProcStep(p) \/ Syscall(p) \/ kill(p)

Spec == Init /\ [][Next]_vars

-----------------------------------------------------------------------------
(* Properties *)

\* References to f: descriptors, and files a pipe() has yet to install or close.
Open(f) == {x \in Procs \X FDs : ofile[x[1]][x[2]] = f}
Passing(f) ==
  {x \in Procs \X (1..2) : x[2] \in DOMAIN call[x[1]].todo /\ call[x[1]].todo[x[2]] = f}
Held(f) == Cardinality(Open(f)) + Cardinality(Passing(f))

\* f->ref counts the references to f in every interleaving of pipe, dup, close,
\* fork and exit, failed calls included (so "fileclose" and "filedup" never panic).
RefCounts == \A f \in File : ftable[f].ref = Held(f)

\* File f stands for the read (w = FALSE) or write end of pp; who is left to close
\* that end.
FileIsEnd(f, pp, w) == ftable[f].ref > 0 /\ ftable[f].pipe = pp /\ ftable[f].writable = w
EndInUse(pp, w) ==
  (\E f \in File : FileIsEnd(f, pp, w)) \/ (\E p \in Procs : call[p].pend = <<pp, w>>)

\* An end of a pipe is open exactly while a file with a reference stands for it
\* or its pipeclose is on the way, so no read, write or close uses a freed page.
PipeLives ==
  \A pp \in Pipes :
    /\ pipes[pp].readopen <=> EndInUse(pp, FALSE)
    /\ pipes[pp].writeopen <=> EndInUse(pp, TRUE)

\* Nobody sleeps in a pipe for nothing: a sleeping reader waits for bytes some
\* open write end may still bring, a sleeping writer for room some open read end
\* may still make.  The exception is pipewrite's return for a killed writer,
\* which fills the pipe and leaves without wakeup(&p->nread).
SleepsForAReason ==
  \A p \in Procs :
    /\ call[p].pc = "rsleep" =>
         LET P == pipes[PipeOf(p)] IN P.writeopen /\ (Used(P) = 0 \/ PipeOf(p) \in abandoned)
    /\ call[p].pc = "wsleep" =>
         LET P == pipes[PipeOf(p)] IN P.readopen /\ Used(P) = PIPESIZE

\* Pipes are byte streams: the bytes between nread and nwrite are those written
\* and not yet read, in the order they were written, and never more than PIPESIZE
\* are in transit, whatever nread and nwrite wrap to.  Nothing is read or written
\* through a closed end, and pipeclose drops what is left with the second end only.
Stream == INSTANCE ByteStream WITH
  queue <- [pp \in Pipes |-> Contents(pipes[pp])],
  readers <- {pp \in Pipes : pipes[pp].readopen},
  writers <- {pp \in Pipes : pipes[pp].writeopen}
PipeIsStream == Stream!Spec

\* kill gets a process out of a pipe: a sleeper it hits wakes up, and a killed
\* process that is awake does not go to sleep in a pipe again.  The one killed
\* process that sleeps is one that kill hit between its look at p->killed
\* (pipe.c:86, 107) and its sleep; it waits until the pipe changes.
Asleep(p) == call[p].pc \in {"rsleep", "wsleep"}
KilledStaysAwake ==
  [][\A p \in killed' : Asleep(p)' => (p \in killed <=> Asleep(p))]_vars

\* Without that exception; it does not hold.
NoKilledSleeper == \A p \in killed : ~Asleep(p)
=============================================================================
