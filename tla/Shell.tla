-------------------------------- MODULE Shell --------------------------------
(***************************************************************************)
(* The shell at the console: somebody types, main reads a line with gets,  *)
(* a child parses it and runs the tree of commands with runcmd, and init   *)
(* starts another shell when this one ends.                                *)
(*                                                                         *)
(* A process of a line is named by the way from the root of the tree to    *)
(* the command it was forked for, after the number of the line; "at" is    *)
(* the command it has come to.  A pipe is named by its command.  Once a    *)
(* line is parsed only the number of words of a command is kept.           *)
(*                                                                         *)
(* A program is external: it ends by itself, but not before the end of its *)
(* input when that is a pipe, and may read the console, ReadSize           *)
(* characters at a time, when that is its input.                           *)
(***************************************************************************)
EXTENDS Console, Parser

CONSTANTS
  Scripts,     \* what may be typed
  nbuf,        \* sizeof(buf) in main
  ReadSize

VARIABLES
  script,      \* the keys still to be typed
  sh,          \* the shell itself
  run,         \* the processes forked for command lines
  failed       \* a fork1 has failed: it may, once, whatever the other programs do

shvars == <<sh, run, failed>>
vars == <<input, asleep, script, sh, run, failed>>

Shellproc == <<>>
initproc == <<0>>

None == [end |-> "none", of |-> <<>>]
Console == [end |-> "console", of |-> <<>>]
File == [end |-> "file", of |-> <<>>]
Fds == 0..4

Fresh == [pc |-> "getcmd", buf |-> <<>>, line |-> 1]

Init ==
  /\ ConsoleInit
  /\ script \in Scripts
  /\ sh = Fresh
  /\ run = <<>>
  /\ failed = FALSE

-----------------------------------------------------------------------------
(* Descriptors *)

Lowest(f) == CHOOSE d \in Fds : f[d] = None /\ \A c \in 0..(d - 1) : f[c] # None
close(f, d) == [f EXCEPT ![d] = None]
Open(f, file) == [f EXCEPT ![Lowest(f)] = file]
PipeEnd(at, e) == [end |-> e, of |-> at]
pipe(f, at) == Open(Open(f, PipeEnd(at, "r")), PipeEnd(at, "w"))
p0(f, at) == CHOOSE d \in Fds : f[d] = PipeEnd(at, "r")
p1(f, at) == CHOOSE d \in Fds : f[d] = PipeEnd(at, "w")
CloseBoth(f, at) == close(close(f, p0(f, at)), p1(f, at))

\* The child for a side of a pipe: the pipe's end becomes descriptor d.
Attach_open(f, d, e, at) == Open(close(f, d), PipeEnd(at, e))
Attach(f, d, e, at) ==
  LET g == Open(close(f, d), PipeEnd(at, e))
  IN close(close(g, p0(f, at)), p1(f, at))

-----------------------------------------------------------------------------
(* fork1, exit and wait *)

Children(i) == {j \in DOMAIN run : run[j].parent = i}
Zombies(i) == {j \in Children(i) : run[j].pc = "zombie"}
Ended == [pc |-> "zombie", cmd |-> execcmd(0), at |-> <<>>, fds |-> [d \in Fds |-> None],
          got |-> 0]
WithParent(proc, p) ==
  [pc |-> proc.pc, cmd |-> proc.cmd, at |-> proc.at, fds |-> proc.fds, got |-> proc.got,
   parent |-> p]

\* i exits: its children go to init, which waits for whatever has ended.
exit(i) ==
  LET gone == Zombies(i) \cup (IF run[i].parent = initproc THEN {i} ELSE {})
  IN run' = [j \in DOMAIN run \ gone |->
               IF j = i THEN WithParent(Ended, run[i].parent)
               ELSE IF run[j].parent = i THEN WithParent(run[j], initproc)
               ELSE run[j]]

\* i forks a child for one of its commands and goes on as rest.
fork1(i, to, cmd, pc, rest) ==
  \/ /\ LET child == [pc |-> pc, cmd |-> cmd, at |-> Append(run[i].at, to), fds |-> rest.fds,
                      got |-> 0, parent |-> i]
        IN run' = [run EXCEPT ![i] = rest] @@ (child.at :> child)
     /\ UNCHANGED failed
  \/ ~failed /\ failed' = TRUE /\ exit(i)

\* wait returns at once without children.
wait(i, rest) ==
  \/ Children(i) = {} /\ run' = [run EXCEPT ![i] = rest]
  \/ \E j \in Zombies(i) :
       run' = [k \in DOMAIN run \ {j} |-> IF k = i THEN rest ELSE run[k]]

Goto(i, pc) == [run[i] EXCEPT !.pc = pc]
Descend(i, to, cmd) == [run[i] EXCEPT !.pc = "run", !.at = Append(@, to), !.cmd = cmd]

-----------------------------------------------------------------------------
(* runcmd *)

RECURSIVE Shape(_)
Shape(cmd) ==
  CASE cmd.type = "EXEC" -> execcmd(Len(cmd.argv))
    [] cmd.type = "REDIR" -> redircmd(Shape(cmd.cmd), <<>>, cmd.fd)
    [] cmd.type = "BACK" -> backcmd(Shape(cmd.cmd))
    [] cmd.type = "PIPE" -> pipecmd(Shape(cmd.left), Shape(cmd.right))
    [] cmd.type = "LIST" -> listcmd(Shape(cmd.left), Shape(cmd.right))

Runs(i, type) == run[i].pc = "run" /\ run[i].cmd.type = type

\* exec may fail.
runcmd_exec(i) ==
  /\ Runs(i, "EXEC")
  /\ \/ run[i].cmd.argv > 0 /\ run' = [run EXCEPT ![i] = Goto(i, "program")]
     \/ exit(i)
  /\ UNCHANGED <<sh, failed>>

\* open may fail.
runcmd_redir(i) ==
  /\ Runs(i, "REDIR")
  /\ LET c == run[i].cmd
         f == Open(close(run[i].fds, c.fd), File)
     IN \/ run' = [run EXCEPT ![i] = [Descend(i, IF c.fd = 0 THEN "in" ELSE "out", c.cmd)
                                        EXCEPT !.fds = f]]
        \/ exit(i)
  /\ UNCHANGED <<sh, failed>>

runcmd_list(i) ==
  /\ Runs(i, "LIST")
  /\ fork1(i, "first", run[i].cmd.left, "run", Goto(i, "list"))
  /\ UNCHANGED sh

runcmd_then_at_once(i) ==
  /\ run[i].pc = "list"
  /\ run' = [run EXCEPT ![i] = Descend(i, "then", run[i].cmd.right)]
  /\ UNCHANGED <<sh, failed>>
runcmd_then(i) ==
  /\ run[i].pc = "list"
  /\ wait(i, Descend(i, "then", run[i].cmd.right))
  /\ UNCHANGED <<sh, failed>>

\* pipe fails as fork1 does.
runcmd_pipe(i) ==
  /\ Runs(i, "PIPE")
  /\ fork1(i, "left", run[i].cmd.left, "left",
           [Goto(i, "pipe") EXCEPT !.fds = pipe(@, run[i].at)])
  /\ UNCHANGED sh

runcmd_right(i) ==
  /\ run[i].pc = "pipe"
  /\ fork1(i, "right", run[i].cmd.right, "right", Goto(i, "close"))
  /\ UNCHANGED sh

\* What the two children of a pipe do before they run their commands.
runcmd_attach(i) ==
  /\ run[i].pc \in {"left", "right"}
  /\ LET of == SubSeq(i, 1, Len(i) - 1)
         f == IF run[i].pc = "left" THEN Attach(run[i].fds, 1, "w", of)
                                    ELSE Attach(run[i].fds, 0, "r", of)
     IN run' = [run EXCEPT ![i].pc = "run", ![i].fds = f]
  /\ UNCHANGED <<sh, failed>>

runcmd_close_keeps(i) ==
  /\ run[i].pc = "close"
  /\ run' = [run EXCEPT ![i].pc = "wait1"]
  /\ UNCHANGED <<sh, failed>>
runcmd_close(i) ==
  /\ run[i].pc = "close"
  /\ run' = [run EXCEPT ![i].pc = "wait1", ![i].fds = CloseBoth(@, run[i].at)]
  /\ UNCHANGED <<sh, failed>>

runcmd_wait(i) ==
  /\ \/ run[i].pc = "wait1" /\ wait(i, Goto(i, "wait2"))
     \/ run[i].pc = "wait2" /\ wait(i, Goto(i, "exit"))
  /\ UNCHANGED <<sh, failed>>

runcmd_back(i) ==
  /\ Runs(i, "BACK")
  /\ fork1(i, "back", run[i].cmd.cmd, "run", Goto(i, "exit"))
  /\ UNCHANGED sh

runcmd_exit(i) == run[i].pc = "exit" /\ exit(i) /\ UNCHANGED <<sh, failed>>

runcmd(i) ==
  /\ \/ runcmd_exec(i) \/ runcmd_redir(i)
     \/ runcmd_list(i) \/ runcmd_then(i) \/ runcmd_back(i) \/ runcmd_exit(i)
     \/ runcmd_pipe(i) \/ runcmd_right(i) \/ runcmd_attach(i)
     \/ runcmd_close(i) \/ runcmd_wait(i)
  /\ UNCHANGED <<input, asleep, script>>

-----------------------------------------------------------------------------
(* Programs *)

Stdin(i) == run[i].fds[0]
Held(end) == \E j \in DOMAIN run : \E d \in Fds : run[j].fds[d] = end

program_end(i) ==
  /\ run[i].pc = "program" /\ i \notin asleep /\ run[i].got = 0
  /\ Stdin(i).end = "r" => ~Held(PipeEnd(Stdin(i).of, "w"))
  /\ exit(i)
  /\ UNCHANGED <<input, asleep, script, sh, failed>>

program_read(i) ==
  /\ run[i].pc = "program" /\ Stdin(i) = Console
  /\ \/ console_sleep(i) /\ UNCHANGED run
     \/ /\ console_take(i, run[i].got)
        /\ CASE Outcome(ReadSize, run[i].got) = "eof" -> exit(i)
             [] Outcome(ReadSize, run[i].got) = "return" -> run' = [run EXCEPT ![i].got = 0]
             [] OTHER -> run' = [run EXCEPT ![i].got = @ + 1]
  /\ UNCHANGED <<script, sh, failed>>

-----------------------------------------------------------------------------
(* The shell itself and init *)

\* gets has read c: the line ends with a newline, at the end of input, or when
\* buf is full.
gets(c) == IF c = "^D" THEN sh.buf ELSE Append(sh.buf, c)
gets_done(c) == c \in {"^D", "\n"} \/ Len(gets(c)) + 1 >= nbuf

\* A turn of gets; an empty buf means the end of input.
getcmd ==
  /\ sh.pc = "getcmd"
  /\ \/ console_sleep(Shellproc) /\ UNCHANGED sh
     \/ /\ console_take(Shellproc, 0)
        /\ sh' = [sh EXCEPT !.buf = gets(NextChar),
                            !.pc = CASE ~gets_done(NextChar) -> "getcmd"
                                     [] gets(NextChar) = <<>> -> "exit"
                                     [] OTHER -> "command"]
  /\ UNCHANGED <<script, run, failed>>

\* The shell changes its own directory.
IsCd == Len(sh.buf) >= 3 /\ SubSeq(sh.buf, 1, 3) = <<"c", "d", " ">>
main_cd ==
  /\ sh.pc = "command" /\ IsCd
  /\ sh' = [sh EXCEPT !.pc = "getcmd", !.line = @ + 1, !.buf = <<>>]
  /\ UNCHANGED <<input, asleep, script, run, failed>>

\* The child parses the line before it does anything that others can see; the
\* parser's panics exit.
main_fork ==
  /\ sh.pc = "command" /\ ~IsCd
  /\ \/ LET p == parsecmd(sh.buf)
            child == [pc |-> IF p.ok THEN "run" ELSE "exit",
                      cmd |-> IF p.ok THEN Shape(p.cmd) ELSE execcmd(0),
                      at |-> <<sh.line>>, got |-> 0, parent |-> Shellproc,
                      fds |-> [d \in Fds |-> IF d < 3 THEN Console ELSE None]]
        IN /\ run' = run @@ (<<sh.line>> :> child)
           /\ sh' = [sh EXCEPT !.pc = "wait", !.buf = <<>>]
           /\ UNCHANGED failed
     \/ ~failed /\ failed' = TRUE /\ sh' = [sh EXCEPT !.pc = "exit"] /\ UNCHANGED run
  /\ UNCHANGED <<input, asleep, script>>

main_wait ==
  /\ sh.pc = "wait"
  /\ \E j \in Zombies(Shellproc) : run' = [k \in DOMAIN run \ {j} |-> run[k]]
  /\ sh' = [sh EXCEPT !.pc = "getcmd", !.line = @ + 1]
  /\ UNCHANGED <<input, asleep, script, failed>>

\* init waits for the shell and starts the next.
init_main ==
  /\ sh.pc = "exit"
  /\ sh' = [Fresh EXCEPT !.line = sh.line + 1]
  /\ UNCHANGED <<input, asleep, script, run, failed>>

kbdintr ==
  /\ script # <<>>
  /\ consoleintr(Head(script))
  /\ script' = Tail(script)
  /\ UNCHANGED shvars

Next ==
  \/ kbdintr \/ getcmd \/ main_cd \/ main_fork \/ main_wait \/ init_main
  \/ \E i \in DOMAIN run : runcmd(i) \/ program_end(i) \/ program_read(i)

\* Processes that can run are run.
Fairness ==
  /\ WF_vars(main_wait)
  /\ WF_vars(\E i \in DOMAIN run : runcmd(i) \/ program_end(i) \/ program_read(i))

Spec == Init /\ [][Next]_vars /\ Fairness

-----------------------------------------------------------------------------
(* Properties *)

\* parsecmd, on every line that gets to it, agrees with the grammar.
ParseRight == sh.pc = "command" => ParsesGrammar(sh.buf)

\* What descriptor d of the command at the end of a way should be: the last
\* pipe or redirection on the way decides.
Wiring(at, d) ==
  LET turns == IF d = 0 THEN {"right", "in"} ELSE {"left", "out"}
      K == {k \in 2..Len(at) : at[k] \in turns}
      k == CHOOSE m \in K : \A n \in K : n <= m
  IN IF K = {} THEN Console
     ELSE IF at[k] \in {"in", "out"} THEN File
     ELSE PipeEnd(SubSeq(at, 1, k - 1), IF d = 0 THEN "r" ELSE "w")

\* The closes and dups of runcmd leave every program with the input and the
\* output that the command line gives it, and with no other end of a pipe,
\* which would keep a reader from ever seeing the end of its input.
Wired ==
  \A i \in DOMAIN run : run[i].pc = "program" =>
    run[i].fds = [d \in Fds |-> CASE d \in {0, 1} -> Wiring(run[i].at, d)
                                  [] d = 2 -> Console
                                  [] OTHER -> None]

\* Some process works in the foreground on the command at the way w.
Working(w) ==
  \E j \in DOMAIN run : LET a == run[j].at IN
    /\ run[j].pc # "zombie" /\ Len(a) >= Len(w) /\ SubSeq(a, 1, Len(w)) = w
    /\ \A k \in (Len(w) + 1)..Len(a) : a[k] # "back"

\* While no fork fails, the commands of a list are run one after the other
\* and the prompt waits for all of them, pipelines included, that are not in
\* the background.
InSequence ==
  ~failed =>
    /\ sh.pc # "wait" => \A n \in 1..sh.line : ~Working(<<n>>)
    /\ \A i \in DOMAIN run : \A k \in 2..Len(run[i].at) :
         run[i].at[k] = "then" => ~Working(Append(SubSeq(run[i].at, 1, k - 1), "first"))

\* The shell's wait always ends, unless a program waits for the keyboard: no
\* reader of a pipe and no waiting parent is left behind.
PromptReturns == sh.pc = "wait" ~> (sh.pc # "wait" \/ asleep # {})
=============================================================================
