------------------------------- MODULE MCShell -------------------------------
EXTENDS Shell

\* All the texts over A of at most n characters, with at most two pipes.
Texts(A, n) ==
  {t \in UNION {[1..m -> A] : m \in 0..n} : Len(SelectSeq(t, LAMBDA c : c = "|")) <= 2}

\* Short lines of every kind, some longer ones, keys that edit a line and a
\* line that does not fit in buf.
Typed ==
  {Append(t, "\n") :
     t \in Texts({"x", "|", ";", "&", "(", ")"}, 4)
             \cup Texts({"x", " ", "<", ">"}, 4) \cup Texts({"x", " "} \cup symbols, 3)
             \cup {<<"x", a, "x", b, "x">> : a, b \in {"|", ";", "&", " "}}
             \cup {<<"(", "x", a, "x", ")">> : a \in {"|", ";", "&"}}
             \cup {<<"(", "x", "&", ")", a, "x">> : a \in {"|", ";"}}}
  \cup Texts({"x", "&", "^H", "^U", "^D", "\n"}, 4)
  \cup {<<"x", " ", "x", ";", "x", "&", "x", "\r">>,
        <<"c", "d", " ", "x", "\n">>}
Characters == Letters \cup symbols \cup {" "}
=============================================================================
