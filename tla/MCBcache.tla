------------------------------ MODULE MCBcache ------------------------------
(* Bcache for TLC: two kinds of block, of which the inner ones may be read  *)
(* while an outer one is held; processes, buffers and the blocks of a kind  *)
(* are interchangeable.                                                     *)
EXTENDS Bcache, TLC

CONSTANTS Outer, Inner
BlocksDef == Outer \cup Inner
RankDef == [x \in BlocksDef |-> IF x \in Outer THEN 0 ELSE 1]

CacheSymmetry ==
  Permutations(Procs) \cup Permutations(Bufs) \cup Permutations(Outer) \cup Permutations(Inner)
=============================================================================
