------------------------------ MODULE MCLocks -------------------------------
(* Locks for TLC: threads are interchangeable, and so are the CPUs whose     *)
(* timer does not count ticks.                                               *)
EXTENDS Locks

ThreadSymmetry == Permutations(Threads)
=============================================================================
