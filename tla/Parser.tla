------------------------------- MODULE Parser --------------------------------
(***************************************************************************)
(* The shell's parser (sh.c), a recursive descent over the command line b. *)
(* A position counts the characters from 1, and Len(b) + 1 stands for es.  *)
(* Words are kept as the code keeps them, by where they begin and end; the *)
(* panics of the parser give Panicked.  A program exits in them.           *)
(***************************************************************************)
EXTENDS Integers, Sequences, SequencesExt

CONSTANT MAXARGS

whitespace == {" ", "\n"}
symbols == {"<", "|", ">", "&", ";", "(", ")"}
NUL == "0"

execcmd(argv) == [type |-> "EXEC", argv |-> argv]
redircmd(cmd, file, fd) == [type |-> "REDIR", cmd |-> cmd, file |-> file, fd |-> fd]
pipecmd(left, right) == [type |-> "PIPE", left |-> left, right |-> right]
listcmd(left, right) == [type |-> "LIST", left |-> left, right |-> right]
backcmd(cmd) == [type |-> "BACK", cmd |-> cmd]

Panicked == [ok |-> FALSE]
Done(pos, cmd) == [ok |-> TRUE, pos |-> pos, cmd |-> cmd]

-----------------------------------------------------------------------------
(* Tokens *)

\* The first position from i on whose character is not one of C.
Span(b, i, C) == CHOOSE j \in i..(Len(b) + 1) :
  (\A k \in i..(j - 1) : b[k] \in C) /\ (j <= Len(b) => b[j] \notin C)
Letters == {"x", "c", "d"}     \* of the characters of words
Skip(b, i) == Span(b, i, whitespace)

peek(b, i, toks) == LET s == Skip(b, i) IN s <= Len(b) /\ b[s] \in toks

Token(tok, b, q, eq) == [tok |-> tok, word |-> <<q, eq>>, pos |-> Skip(b, eq)]
TokenAt(b, q) ==
  IF q > Len(b) THEN Token("end", b, q, q)
  ELSE IF q < Len(b) /\ b[q] = ">" /\ b[q + 1] = ">" THEN Token("+", b, q, q + 2)
  ELSE IF b[q] \in symbols THEN Token(b[q], b, q, q + 1)
  ELSE Token("a", b, q, Span(b, q, Letters))
gettoken(b, i) == TokenAt(b, Skip(b, i))

-----------------------------------------------------------------------------
(* Commands *)

RECURSIVE parseredirs(_, _, _)
parseredirs(cmd, b, i) ==
  LET op == gettoken(b, i)
      file == gettoken(b, op.pos)
  IN IF ~peek(b, i, {"<", ">"}) THEN Done(Skip(b, i), cmd)
     ELSE IF file.tok # "a" THEN Panicked
     ELSE parseredirs(redircmd(cmd, file.word, IF op.tok = "<" THEN 0 ELSE 1), b, file.pos)

\* The code fills in the words of a command that redirections already wrap.
RECURSIVE AddWord(_, _)
AddWord(cmd, word) ==
  IF cmd.type = "EXEC" THEN execcmd(Append(cmd.argv, word))
  ELSE [cmd EXCEPT !.cmd = AddWord(cmd.cmd, word)]

RECURSIVE Arguments(_, _, _, _)
Arguments(cmd, argc, b, i) ==
  LET t == gettoken(b, i)
      r == parseredirs(AddWord(cmd, t.word), b, t.pos)
  IN IF peek(b, i, {"|", ")", "&", ";"}) \/ t.tok = "end" THEN Done(i, cmd)
     ELSE IF t.tok # "a" \/ argc + 1 >= MAXARGS THEN Panicked
     ELSE IF ~r.ok THEN Panicked
     ELSE Arguments(r.cmd, argc + 1, b, r.pos)

\* The functions below call each other through parse, a function of the name
\* of the one called and of the position.
parseblock(parse, b, i) ==
  LET line == parse["line", gettoken(b, i).pos]
  IN IF ~line.ok THEN Panicked
     ELSE IF ~peek(b, line.pos, {")"}) THEN Panicked
     ELSE parseredirs(line.cmd, b, gettoken(b, line.pos).pos)

parseexec(parse, b, i) ==
  IF peek(b, i, {"("}) THEN parseblock(parse, b, i)
  ELSE LET r == parseredirs(execcmd(<<>>), b, i)
       IN IF r.ok THEN Arguments(r.cmd, 0, b, r.pos) ELSE Panicked

parsepipe(parse, b, i) ==
  LET left == parse["exec", i]
      right == parse["pipe", gettoken(b, left.pos).pos]
  IN IF ~left.ok THEN Panicked
     ELSE IF ~peek(b, left.pos, {"|"}) THEN left
     ELSE IF right.ok THEN Done(right.pos, pipecmd(left.cmd, right.cmd)) ELSE Panicked

RECURSIVE Backs(_, _, _)
Backs(cmd, b, i) ==
  IF peek(b, i, {"&"}) THEN Backs(backcmd(cmd), b, gettoken(b, i).pos) ELSE Done(i, cmd)

parseline(parse, b, i) ==
  LET pipe == parse["pipe", i]
      left == Backs(pipe.cmd, b, pipe.pos)
      right == parse["line", gettoken(b, left.pos).pos]
  IN IF ~pipe.ok THEN Panicked
     ELSE IF ~peek(b, left.pos, {";"}) THEN left
     ELSE IF right.ok THEN Done(right.pos, listcmd(left.cmd, right.cmd)) ELSE Panicked

\* The positions that nulterminate overwrites with NUL.
RECURSIVE Ends(_)
Ends_words_only(cmd) ==
  CASE cmd.type = "EXEC" -> {cmd.argv[n][2] : n \in DOMAIN cmd.argv}
    [] cmd.type \in {"REDIR", "BACK"} -> Ends(cmd.cmd)
    [] OTHER -> Ends(cmd.left) \cup Ends(cmd.right)
Ends(cmd) ==
  CASE cmd.type = "EXEC" -> {cmd.argv[n][2] : n \in DOMAIN cmd.argv}
    [] cmd.type = "REDIR" -> Ends(cmd.cmd) \cup {cmd.file[2]}
    [] cmd.type = "BACK" -> Ends(cmd.cmd)
    [] OTHER -> Ends(cmd.left) \cup Ends(cmd.right)

nulterminate(cmd, b) == [i \in DOMAIN b |-> IF i \in Ends(cmd) THEN NUL ELSE b[i]]

\* Nothing may be left over.
Whole(line, b) ==
  IF ~line.ok THEN Panicked
  ELSE IF Skip(b, line.pos) # Len(b) + 1 THEN Panicked
  ELSE [ok |-> TRUE, cmd |-> line.cmd, buf |-> nulterminate(line.cmd, b)]

parsecmd(b) ==
  LET parse[name \in {"line", "pipe", "exec"}, i \in 1..(Len(b) + 1)] ==
        CASE name = "line" -> parseline(parse, b, i)
          [] name = "pipe" -> parsepipe(parse, b, i)
          [] name = "exec" -> parseexec(parse, b, i)
  IN Whole(parse["line", 1], b)

-----------------------------------------------------------------------------
(* The grammar the parser is checked against, over whole token sequences *)

\* Where the tokens of a line begin: >> is one token, and a word goes on to
\* the next blank or symbol.
Starts(b) ==
  LET Breaks(k) == b[k] \in whitespace \cup symbols
      Odd(k) == \E j \in 1..k :
        /\ (k - j) % 2 = 0 /\ \A m \in j..k : b[m] = ">"
        /\ j > 1 => b[j - 1] # ">"
  IN {k \in DOMAIN b :
        /\ b[k] \notin whitespace
        /\ b[k] = ">" => Odd(k)
        /\ ~Breaks(k) => (k = 1 \/ Breaks(k - 1))}

\* The tokens, each the characters up to the next token or blank.
Tokens(b) ==
  LET S == SetToSortSeq(Starts(b), <)
      Blank(k) == b[k] \in whitespace
      Until(k) == CHOOSE e \in k..Len(b) :
        /\ \A m \in k..e : ~Blank(m) /\ (m > k => m \notin Starts(b))
        /\ e < Len(b) => (Blank(e + 1) \/ e + 1 \in Starts(b))
  IN [n \in DOMAIN S |-> SubSeq(b, S[n], Until(S[n]))]

IsRedir(t) == t[1] \in {"<", ">"}
IsWord(t) == t[1] \notin symbols

\* t is words and redirections in any order; the first redirection is the
\* innermost one.
Redirections(t) == SetToSortSeq({n \in DOMAIN t : IsRedir(t[n])}, <)
Files(t) == {n + 1 : n \in {m \in DOMAIN t : IsRedir(t[m])}}
Words(t) == SetToSortSeq({n \in DOMAIN t : IsWord(t[n])} \ Files(t), <)
WellRedirected(t) ==
  /\ \A n \in DOMAIN t : IsWord(t[n]) \/ IsRedir(t[n])
  /\ \A n \in Files(t) : n <= Len(t) /\ IsWord(t[n])
Wrapped(cmd, t) ==
  FoldLeft(LAMBDA c, n : redircmd(c, t[n + 1], IF t[n][1] = "<" THEN 0 ELSE 1),
           cmd, Redirections(t))

Before(t, k) == SubSeq(t, 1, k - 1)
After(t, k) == SubSeq(t, k + 1, Len(t))
Where(t, s) == {k \in DOMAIN t : t[k] = <<s>>}

\* Every way to read t as a line, as a background line, as a pipeline and as
\* one command; read[name, t] gives the readings of parts.
CommandOf(read, t) ==
  (IF WellRedirected(t) /\ Len(Words(t)) < MAXARGS
     THEN {Wrapped(execcmd([n \in DOMAIN Words(t) |-> t[Words(t)[n]]]), t)} ELSE {})
  \cup (IF t # <<>> /\ t[1] = <<"(">>
     THEN UNION {{Wrapped(c, After(t, k)) : c \in read["line", SubSeq(t, 2, k - 1)]} :
            k \in {m \in Where(t, ")") : WellRedirected(After(t, m)) /\ Words(After(t, m)) = <<>>}}
     ELSE {})
PipelineOf(read, t) == read["command", t] \cup
  UNION {{pipecmd(l, r) : l \in read["command", Before(t, k)], r \in read["pipeline", After(t, k)]} :
         k \in Where(t, "|")}
JobOf(read, t) == read["pipeline", t] \cup
  (IF t # <<>> /\ Last(t) = <<"&">> THEN {backcmd(c) : c \in read["job", Front(t)]} ELSE {})
LineOf(read, t) == read["job", t] \cup
  UNION {{listcmd(l, r) : l \in read["job", Before(t, k)], r \in read["line", After(t, k)]} :
         k \in Where(t, ";")}
Readings(tokens) ==
  LET read[name \in {"line", "job", "pipeline", "command"}, t \in Seq(Seq(STRING))] ==
        CASE name = "line" -> LineOf(read, t)
          [] name = "job" -> JobOf(read, t)
          [] name = "pipeline" -> PipelineOf(read, t)
          [] name = "command" -> CommandOf(read, t)
  IN read["line", tokens]

\* A parsed command with its words read as C strings from the buffer.
Str(b, word) == SubSeq(b, word[1], Span(b, word[1], Letters \cup symbols \cup whitespace) - 1)
RECURSIVE Text(_, _)
Text(cmd, b) ==
  CASE cmd.type = "EXEC" -> execcmd([n \in DOMAIN cmd.argv |-> Str(b, cmd.argv[n])])
    [] cmd.type = "REDIR" -> redircmd(Text(cmd.cmd, b), Str(b, cmd.file), cmd.fd)
    [] cmd.type = "BACK" -> backcmd(Text(cmd.cmd, b))
    [] cmd.type = "PIPE" -> pipecmd(Text(cmd.left, b), Text(cmd.right, b))
    [] cmd.type = "LIST" -> listcmd(Text(cmd.left, b), Text(cmd.right, b))

\* parsecmd accepts exactly the lines of the grammar, finds the only way to
\* read each, and leaves every word and file name a string of its own.
ParsesGrammar(b) ==
  LET p == parsecmd(b)
  IN Readings(Tokens(b)) = IF p.ok THEN {Text(p.cmd, p.buf)} ELSE {}
=============================================================================
