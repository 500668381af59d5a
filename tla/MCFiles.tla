------------------------------ MODULE MCFiles ------------------------------
(* Instances of Files for TLC. *)
EXTENDS Files

\* One byte longer than the pipe: every write waits for a read.
OneWrite == {<<1, 2, 3>>}
=============================================================================
