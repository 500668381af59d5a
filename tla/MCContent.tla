----------------------------- MODULE MCContent ------------------------------
(* Content for TLC.                                                          *)
EXTENDS Content, TLC

Symmetric == Permutations(Procs) \cup Permutations(Fds) \cup Permutations(Files)
=============================================================================
