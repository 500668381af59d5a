------------------------------ MODULE MCNames -------------------------------
(* Names for TLC.                                                            *)
EXTENDS Names, TLC

SomePaths ==
  {[abs |-> TRUE, elems |-> <<"b">>]}
  \cup {[abs |-> FALSE, elems |-> e] : e \in {<<"a">>, <<"a", "b">>, <<"..">>}}
SomeNewPaths == {[abs |-> TRUE, elems |-> <<"b">>], [abs |-> FALSE, elems |-> <<"a", "b">>]}

\* What earlier calls can have made of the disk mkfs makes: a file with two names;
\* a directory; and an empty directory from which a/b was removed while a process
\* was in it.
TwoNames ==
  [EmptyDisk EXCEPT ![2] = [FreeInode EXCEPT !.type = "file", !.nlink = 2],
                    ![ROOTINO].ents = [n \in Name |-> 2]]
OneDirectory ==
  [EmptyDisk EXCEPT ![2] = [FreeInode EXCEPT !.type = "dir", !.nlink = 1, !.parent = ROOTINO],
                    ![ROOTINO].ents["a"] = 2, ![ROOTINO].nlink = 2]
RemovedBelow ==
  [OneDirectory EXCEPT ![3] = [FreeInode EXCEPT !.type = "dir", !.parent = 2]]
AtRoot == [p \in Procs |-> ROOTINO]
SmallStarts ==
  {[disk |-> d, dir |-> AtRoot] : d \in {TwoNames, OneDirectory}}
  \cup {[disk |-> RemovedBelow, dir |-> [AtRoot EXCEPT ![p] = 3]] : p \in Procs}

ProcSymmetry == Permutations(Procs)
=============================================================================
