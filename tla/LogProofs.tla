----------------------------- MODULE LogProofs ------------------------------
(***************************************************************************)
(* Proofs about Log for every number of processes, blocks, contents and    *)
(* every log size: commit() preserves the inductive invariant, the safety  *)
(* properties that follow from it, and that Log implements AtomicDisk.     *)
(***************************************************************************)
EXTENDS LogCallProofs

USE SetAssumption, SizeAssumption DEF Slots

\* During commit() nothing but its own steps changes what the calls see.
LEMMA CommitFrame ==
  ASSUME IInv, mode = "up", NEW p \in Procs, pc[p] \in CommitPC,
         NEW x \in CommitPC \cup {"finish"},
         pc' = [pc EXCEPT ![p] = x], UNCHANGED <<boot, calls>>,
         lh' = lh \/ lh' = <<>>
  PROVE  /\ pc' \in [Procs -> PCs] /\ mode' = "up"
         /\ pc'[p] = x
         /\ \A q \in Procs : q # p => pc'[q] = pc[q] /\ pc[q] \notin CommitPC \cup {"finish"}
         /\ Active = {}
         /\ OutstandingCounts' /\ ReservationKept' /\ IdleLogHasRoom' /\ Injective(lh)'
         /\ CommitterInv' /\ CallInv' /\ SleepInv'
<1> USE DEF boot, calls
<1>t. TypeOK
  BY Zenon DEF IInv
<1>l. Len(lh) \in Nat /\ Len(lh') <= Len(lh) /\ Len(lh') \in Nat
  BY <1>t, LoggedEmpty DEF TypeOK
<1>1. pc' \in [Procs -> PCs] /\ mode' = "up" /\ pc'[p] = x
  BY <1>t, Zenon DEF TypeOK, PCs
<1>2. Committer(p) /\ Active = {}
  BY UpFacts, Zenon DEF CommitterInv, Committer
<1>3. \A q \in Procs : q # p => pc'[q] = pc[q] /\ pc[q] \notin CommitPC \cup {"finish"}
  BY <1>2, <1>t, UpFacts, Zenon DEF CommitterInv, Committer, TypeOK
<1>q. \A q \in Procs : InOp(q)' = InOp(q) /\ Committer(q)' = Committer(q)
  BY <1>1, <1>2, <1>3 DEF InOp, Committer, CommitPC
<1>4. Active' = Active /\ Reserved' = Reserved
  BY <1>q, SameCalls, Zenon
<1>5. OutstandingCounts' /\ ReservationKept' /\ IdleLogHasRoom'
  <2>1. NLog \div 2 \in Int
    OBVIOUS
  <2> QED
    BY <2>1, <1>1, <1>4, <1>l, UpFacts, ReservedFinite
       DEF OutstandingCounts, ReservationKept, IdleLogHasRoom
<1>6. Injective(lh)'
  BY UpFacts, LoggedEmpty, Zenon DEF Injective
<1>7. CommitterInv'
  BY <1>q, <1>4, UpFacts, Zenon DEF CommitterInv
<1>8. CallInv'
  <2>1. \A q \in Procs : touched[q] = {}
    BY <1>2, UpFacts, ZenonT(60) DEF CallInv, Active
  <2>2. \A q \in Procs : pc'[q] = "logging" <=> pc[q] = "logging"
    BY <1>1, <1>3, Zenon DEF CommitPC
  <2> QED
    BY <2>1, <2>2, <1>q, UpFacts, ZenonT(60) DEF CallInv
<1>9. SleepInv'
  BY <1>1, <1>3, UpFacts, Zenon DEF SleepInv, CommitPC
<1> QED
  BY <1>1, <1>2, <1>3, <1>5, <1>6, <1>7, <1>8, <1>9, Zenon

\* Every entry of the header has a block of the log.
LEMMA HeaderFits ==
  ASSUME IInv, mode = "up"
  PROVE  /\ Len(lh) \in Nat /\ Len(lh) <= LOGSIZE
         /\ \A i \in 1..Len(lh) : i \in Slots /\ lh[i] \in Blocks /\ dlog[i] \in Value
<1>1. TypeOK /\ ReservationKept
  BY UpFacts, Zenon
<1>2. Len(lh) \in Nat /\ Len(lh) <= LOGSIZE
  BY <1>1, ReservedFinite DEF TypeOK, ReservationKept
<1> QED
  BY <1>1, <1>2 DEF TypeOK

\* write_log copies the cached blocks into the log one by one.
LEMMA WriteLogInv ==
  ASSUME IInv, NEW p \in Procs, write_log(p)
  PROVE  IInv'
<1> USE DEF write_log, At, bufs
<1>u. mode = "up" /\ pc[p] = "wlog" /\ pc[p] \in CommitPC
  BY ZenonT(60) DEF CommitPC
<1>t. TypeOK
  BY Zenon DEF IInv
<1>h. /\ Len(lh) \in Nat /\ tail[p] \in Nat
      /\ tail[p] < Len(lh) => tail[p] + 1 \in Slots /\ lh[tail[p] + 1] \in Blocks
  BY <1>u, <1>t, HeaderFits, SMTT(60) DEF TypeOK
<1>f. /\ pc' \in [Procs -> PCs] /\ mode' = "up"
      /\ \A q \in Procs : q # p => pc'[q] = pc[q] /\ pc[q] \notin CommitPC \cup {"finish"}
      /\ OutstandingCounts' /\ ReservationKept' /\ IdleLogHasRoom' /\ Injective(lh)'
      /\ CommitterInv' /\ CallInv' /\ SleepInv'
  <2>1. CASE pc' = pc
    <3>1. pc' = [pc EXCEPT ![p] = "wlog"]
      BY <2>1, <1>u, <1>t, SMTT(60) DEF TypeOK
    <3> QED
      BY <3>1, <1>u, CommitFrame, ZenonT(60) DEF CommitPC
  <2>2. CASE pc' = [pc EXCEPT ![p] = "whead"]
    BY <2>2, <1>u, CommitFrame, Zenon DEF CommitPC
  <2> QED
    BY <2>1, <2>2, SMTT(30) DEF Goto
<1>1. TypeOK'
  <2>1. dlog' \in [Slots -> Value]
    BY <1>t, <1>h, SMTT(60) DEF TypeOK
  <2>2. tail' \in [Procs -> Nat]
    BY <1>t, <1>h, SMTT(60) DEF TypeOK
  <2> QED
    BY <2>1, <2>2, <1>f, <1>t, ZenonT(60) DEF TypeOK, boot, calls
<1>2. HeadInv' /\ DirtyIsLogged' /\ CleanIsOnDisk'
  BY <1>u, UpFacts, ZenonT(60) DEF HeadInv, Injective, DirtyIsLogged, CleanIsOnDisk, Logged
<1>3. PhaseInv'
  <2>h. dhead = <<>>
    BY <1>u, <1>f, UpFacts, SMTT(60) DEF PhaseInv, CommitPC
  <2>w. tail[p] <= Len(lh) /\ \A i \in 1..tail[p] : Copied(lh, i)
    BY <1>u, UpFacts, ZenonT(60) DEF PhaseInv
  <2>1. CASE tail[p] < Len(lh)
    <3>1. tail'[p] = tail[p] + 1 /\ pc' = pc
      BY <2>1, <1>t, Zenon DEF TypeOK
    <3>2. ASSUME NEW i \in 1..tail'[p] PROVE Copied(lh, i)'
      <4>1. dlog' = [dlog EXCEPT ![tail[p] + 1] = cache[lh[tail[p] + 1]]]
        BY <2>1, ZenonT(60)
      <4>2. CASE i = tail[p] + 1
        BY <4>1, <4>2, <2>1, <1>h, <1>t, Zenon DEF Copied, TypeOK
      <4>3. CASE i # tail[p] + 1
        <5>1. i \in 1..tail[p] /\ i \in Slots
          BY <4>3, <3>1, <2>1, <1>h
        <5>2. dlog'[i] = dlog[i]
          BY <4>1, <4>3, <5>1, <1>t, Zenon DEF TypeOK
        <5> QED
          BY <5>1, <5>2, <2>w, ZenonT(60) DEF Copied
      <4> QED
        BY <4>2, <4>3, ZenonT(60)
    <3> QED
      BY <2>1, <2>h, <3>1, <3>2, <1>u, <1>h, <1>f DEF PhaseInv, CommitPC
  <2>2. CASE ~(tail[p] < Len(lh))
    <3>1. tail'[p] = 0 /\ pc'[p] = "whead" /\ dlog' = dlog
      BY <2>2, <1>t, Zenon DEF TypeOK, Goto
    <3>2. \A i \in 1..Len(lh) : Copied(lh, i)'
      BY <2>2, <2>w, <3>1, <1>h DEF Copied
    <3> QED
      BY <2>h, <3>1, <3>2, <1>f, Zenon DEF PhaseInv, CommitPC
  <2> QED
    BY <2>1, <2>2, ZenonT(60)
<1> QED
  BY <1>f, <1>1, <1>2, <1>3, UpSuffices, Zenon

\* Writing the header commits what write_log has copied.
LEMMA WriteHeadInv ==
  ASSUME IInv, NEW p \in Procs, write_head(p)
  PROVE  IInv'
<1> USE DEF write_head, At, Goto, bufs
<1>u. mode = "up" /\ pc[p] = "whead" /\ pc[p] \in CommitPC
  BY Zenon DEF CommitPC
<1>t. TypeOK
  BY SMTT(60) DEF IInv
<1>f. /\ pc' \in [Procs -> PCs] /\ mode' = "up" /\ pc'[p] = "install"
      /\ \A q \in Procs : q # p => pc'[q] = pc[q] /\ pc[q] \notin CommitPC \cup {"finish"}
      /\ OutstandingCounts' /\ ReservationKept' /\ IdleLogHasRoom' /\ Injective(lh)'
      /\ CommitterInv' /\ CallInv' /\ SleepInv'
  BY <1>u, CommitFrame, Zenon DEF CommitPC
<1>1. TypeOK'
  BY <1>f, <1>t, ZenonT(60) DEF TypeOK, boot, calls
<1>2. HeadInv' /\ DirtyIsLogged' /\ CleanIsOnDisk'
  BY <1>u, UpFacts, HeaderFits, ZenonT(60) DEF HeadInv, Injective, DirtyIsLogged, CleanIsOnDisk, Logged
<1>3. PhaseInv'
  <2>1. tail[p] = 0 /\ \A i \in 1..Len(lh) : Copied(lh, i)
    BY <1>u, UpFacts, ZenonT(60) DEF PhaseInv
  <2>2. tail'[p] = 0 /\ (\A i \in 1..Len(lh') : Copied(lh, i)') /\ Len(lh') \in Nat
    BY <2>1, <1>1 DEF Copied, TypeOK
  <2> QED
    BY <2>2, <1>f DEF PhaseInv, CommitPC
<1> QED
  BY <1>f, <1>1, <1>2, <1>3, UpSuffices, Zenon

\* install_trans copies committed contents over themselves in the cache and
\* over the old contents on disk.
LEMMA InstallInv ==
  ASSUME IInv, NEW p \in Procs, install_trans(p)
  PROVE  IInv'
<1> USE DEF install_trans, At, bufs
<1> DEFINE t == tail[p] + 1
<1>u. mode = "up" /\ pc[p] = "install" /\ pc[p] \in CommitPC
  BY ZenonT(60) DEF CommitPC
<1>t. TypeOK
  BY ZenonT(60) DEF IInv
<1>h. /\ Len(lh) \in Nat /\ tail[p] \in Nat
      /\ tail[p] < Len(lh) => t \in 1..Len(lh) /\ lh[t] \in Blocks /\ dlog[t] \in Value
  BY <1>u, <1>t, HeaderFits DEF TypeOK
<1>f. /\ pc' \in [Procs -> PCs] /\ mode' = "up"
      /\ \A q \in Procs : q # p => pc'[q] = pc[q] /\ pc[q] \notin CommitPC \cup {"finish"}
      /\ OutstandingCounts' /\ ReservationKept' /\ IdleLogHasRoom' /\ Injective(lh)'
      /\ CommitterInv' /\ CallInv' /\ SleepInv'
  <2>1. CASE pc' = pc
    <3>1. pc' = [pc EXCEPT ![p] = "install"]
      BY <2>1, <1>u, <1>t, SMTT(60) DEF TypeOK
    <3> QED
      BY <3>1, <1>u, CommitFrame, ZenonT(60) DEF CommitPC
  <2>2. CASE pc' = [pc EXCEPT ![p] = "zero"]
    BY <2>2, <1>u, CommitFrame, ZenonT(60) DEF CommitPC
  <2> QED
    BY <2>1, <2>2, SMTT(30) DEF Goto
<1>p. /\ dhead = lh /\ tail[p] <= Len(lh)
      /\ \A i \in 1..Len(lh) : Copied(lh, i)
      /\ \A i \in 1..tail[p] : lh[i] \notin dirty
  BY <1>u, UpFacts, ZenonT(60) DEF PhaseInv
<1>o. DirtyIsLogged /\ CleanIsOnDisk /\ HeadInv
  BY <1>u, UpFacts, ZenonT(60)
<1>1. CASE tail[p] < Len(lh)
  <2>1. /\ cache' = cache
        /\ home' = [home EXCEPT ![lh[t]] = dlog[t]]
        /\ dirty' = dirty \ {lh[t]}
        /\ tail' = [tail EXCEPT ![p] = t]
        /\ pc' = pc /\ lh' = lh /\ dhead' = dhead /\ dlog' = dlog
    <3>1. dlog[t] = cache[lh[t]]
      BY <1>1, <1>h, <1>p, Zenon DEF Copied
    <3>2. /\ cache' = [cache EXCEPT ![lh[t]] = dlog[t]]
          /\ home' = [home EXCEPT ![lh[t]] = dlog[t]]
          /\ dirty' = dirty \ {lh[t]}
          /\ tail' = [tail EXCEPT ![p] = t]
          /\ pc' = pc /\ lh' = lh /\ dhead' = dhead /\ dlog' = dlog
      BY <1>1, ZenonT(60) DEF CopyHome
    <3>3. cache' = cache
      BY <3>1, <3>2, <1>1, <1>h, <1>t, Zenon DEF TypeOK
    <3> QED
      BY <3>2, <3>3, ZenonT(60)
  <2>2. TypeOK'
    <3>1. home' \in [Blocks -> Value] /\ tail' \in [Procs -> Nat] /\ dirty' \subseteq Blocks
      BY <2>1, <1>1, <1>h, <1>t, SMTT(60) DEF TypeOK
    <3> QED
      BY <2>1, <3>1, <1>f, <1>t, ZenonT(60) DEF TypeOK, boot, calls
  <2>3. HeadInv' /\ DirtyIsLogged'
    BY <2>1, <1>o, <1>u, SMTT(60) DEF HeadInv, Injective, DirtyIsLogged, Logged
  <2>4. CleanIsOnDisk'
    <3>1. dlog[t] = cache[lh[t]]
      BY <1>1, <1>h, <1>p, Zenon DEF Copied
    <3> QED
      BY <3>1, <2>1, <1>1, <1>h, <1>o, <1>u, <1>t, SMTT(60) DEF CleanIsOnDisk, TypeOK
  <2>5. PhaseInv'
    <3>1. tail'[p] = t /\ t <= Len(lh)
      BY <2>1, <1>1, <1>h, <1>t, SMTT(30) DEF TypeOK
    <3>2. \A i \in 1..t : lh[i] \notin dirty'
      BY <2>1, <1>p, <1>h, SMTT(60)
    <3>3. \A i \in 1..Len(lh) : Copied(lh, i)'
      BY <2>1, <1>p, Zenon DEF Copied
    <3> QED
      BY <2>1, <3>1, <3>2, <3>3, <1>p, <1>u, <1>f, SMTT(60) DEF PhaseInv, CommitPC
  <2> QED
    BY <1>f, <2>2, <2>3, <2>4, <2>5, UpSuffices, Zenon
<1>2. CASE ~(tail[p] < Len(lh))
  <2>1. /\ UNCHANGED <<tail, cache, dirty, home, lh, dhead, dlog>>
        /\ pc' = [pc EXCEPT ![p] = "zero"]
    BY <1>2, Zenon DEF Goto
  <2>2. TypeOK'
    BY <2>1, <1>f, <1>t, ZenonT(60) DEF TypeOK, boot, calls
  <2>3. HeadInv' /\ DirtyIsLogged' /\ CleanIsOnDisk'
    BY <2>1, <1>o, <1>u, SMTT(60) DEF HeadInv, Injective, DirtyIsLogged, CleanIsOnDisk, Logged
  <2>4. PhaseInv'
    <3>1. dirty = {}
      BY <1>2, <1>h, <1>p, <1>o, <1>u, SMTT(60) DEF DirtyIsLogged, Logged
    <3>2. pc'[p] = "zero" /\ \A i \in 1..Len(lh) : Copied(lh, i)'
      BY <2>1, <1>p, <1>t, Zenon DEF Copied, TypeOK
    <3> QED
      BY <2>1, <3>1, <3>2, <1>p, <1>f, SMTT(60) DEF PhaseInv, CommitPC
  <2> QED
    BY <1>f, <2>2, <2>3, <2>4, UpSuffices, ZenonT(60)
<1> QED
  BY <1>1, <1>2, ZenonT(60)

\* Once every block is installed the in-memory header may be emptied.
LEMMA CommitZeroInv ==
  ASSUME IInv, NEW p \in Procs, commit_zero(p)
  PROVE  IInv'
<1> USE DEF commit_zero, At, Goto, bufs, disk
<1>u. mode = "up" /\ pc[p] = "zero" /\ pc[p] \in CommitPC
  BY Zenon DEF CommitPC
<1>t. TypeOK
  BY SMTT(60) DEF IInv
<1>f. /\ pc' \in [Procs -> PCs] /\ mode' = "up" /\ pc'[p] = "clear"
      /\ \A q \in Procs : q # p => pc'[q] = pc[q] /\ pc[q] \notin CommitPC \cup {"finish"}
      /\ OutstandingCounts' /\ ReservationKept' /\ IdleLogHasRoom' /\ Injective(lh)'
      /\ CommitterInv' /\ CallInv' /\ SleepInv'
  BY <1>u, CommitFrame, Zenon DEF CommitPC
<1>p. dhead = lh /\ dirty = {} /\ \A i \in 1..Len(lh) : Copied(lh, i)
  BY <1>u, UpFacts, ZenonT(60) DEF PhaseInv
<1>1. TypeOK'
  BY <1>f, <1>t, LoggedEmpty, ZenonT(60) DEF TypeOK, boot, calls
<1>2. HeadInv' /\ DirtyIsLogged' /\ CleanIsOnDisk'
  BY <1>p, <1>u, UpFacts, SMTT(60) DEF HeadInv, Injective, DirtyIsLogged, CleanIsOnDisk
<1>3. PhaseInv'
  <2>1. lh' = <<>> /\ \A i \in 1..Len(dhead') : Copied(dhead, i)'
    BY <1>p, Zenon DEF Copied
  <2> QED
    BY <2>1, <1>f, Zenon DEF PhaseInv, CommitPC
<1> QED
  BY <1>f, <1>1, <1>2, <1>3, UpSuffices, Zenon

\* Clearing the header on disk leaves an empty log.
LEMMA CommitClearInv ==
  ASSUME IInv, NEW p \in Procs, commit_clear(p)
  PROVE  IInv'
<1> USE DEF commit_clear, At, Goto, bufs
<1>u. mode = "up" /\ pc[p] = "clear" /\ pc[p] \in CommitPC
  BY Zenon DEF CommitPC
<1>t. TypeOK
  BY Zenon DEF IInv
<1>f. /\ pc' \in [Procs -> PCs] /\ mode' = "up" /\ pc'[p] = "finish"
      /\ \A q \in Procs : q # p => pc'[q] = pc[q] /\ pc[q] \notin CommitPC \cup {"finish"}
      /\ OutstandingCounts' /\ ReservationKept' /\ IdleLogHasRoom' /\ Injective(lh)'
      /\ CommitterInv' /\ CallInv' /\ SleepInv'
  BY <1>u, CommitFrame, ZenonT(60) DEF CommitPC
<1>p. lh = <<>>
  BY <1>u, UpFacts, ZenonT(60) DEF PhaseInv
<1>1. TypeOK'
  BY <1>f, <1>t, SMTT(30) DEF TypeOK, boot, calls
<1>2. HeadInv' /\ DirtyIsLogged' /\ CleanIsOnDisk'
  BY <1>p, <1>u, UpFacts, LoggedEmpty DEF HeadInv, DirtyIsLogged, CleanIsOnDisk, Logged
<1>3. PhaseInv'
  BY <1>p, <1>f, Zenon DEF PhaseInv, CommitPC
<1> QED
  BY <1>f, <1>1, <1>2, <1>3, UpSuffices, Zenon

\* When the committer of end_op is done, everybody who slept tries again.
LEMMA EndOpFinishInv ==
  ASSUME IInv, NEW p \in Procs, end_op_finish(p)
  PROVE  IInv'
<1> USE DEF end_op_finish, At, boot, bufs, disk
<1>u. mode = "up" /\ mode' = "up" /\ pc[p] = "finish" /\ p \notin syncing
  BY Zenon
<1>t. TypeOK
  BY Zenon DEF IInv
<1>c. /\ committing /\ Active = {}
      /\ \A q \in Procs : Committer(q) => q = p
  BY <1>u, UpFacts, ZenonT(60) DEF CommitterInv, Committer
<1>s. syncing = {} /\ lh = <<>>
  BY <1>c, <1>u, <1>t, UpFacts DEF CommitterInv, PhaseInv, TypeOK
<1>x. /\ pc'[p] = "idle"
      /\ \A q \in Procs : q # p => \/ pc'[q] = pc[q] /\ pc[q] # "sleep"
                                   \/ pc[q] = "sleep" /\ pc'[q] = "begin"
  BY Zenon DEF Woken
<1>q. \A q \in Procs : InOp(q)' = InOp(q) /\ ~Committer(q)'
  BY <1>x, <1>c, <1>u, SMTT(60) DEF InOp, Committer, CommitPC
<1>1. TypeOK'
  <2>1. \A q \in Procs : pc'[q] \in PCs
    BY <1>x, <1>t, SMTT(60) DEF TypeOK, PCs
  <2>2. pc' \in [Procs -> PCs] /\ tail' \in [Procs -> Nat]
    BY <2>1, <1>t, SMTT(60) DEF TypeOK
  <2> QED
    BY <2>2, <1>u, <1>t, ZenonT(60) DEF TypeOK
<1>2. HeadInv' /\ DirtyIsLogged' /\ CleanIsOnDisk' /\ Injective(lh)'
  BY <1>u, UpFacts, SMTT(60) DEF HeadInv, Injective, DirtyIsLogged, CleanIsOnDisk, Logged
<1>3. Active' = Active /\ Reserved' = Reserved
  BY <1>q, SameCalls, Zenon
<1>4. OutstandingCounts' /\ ReservationKept'
  BY <1>3, <1>u, UpFacts, Zenon DEF OutstandingCounts, ReservationKept
<1>5. IdleLogHasRoom'
  <2>1. NLog \div 2 \in Nat
    OBVIOUS
  <2> QED
    BY <2>1, <1>s, LoggedEmpty DEF IdleLogHasRoom
<1>6. CommitterInv'
  BY <1>q, <1>s, ZenonT(60) DEF CommitterInv
<1>7. CallInv'
  <2>1. \A q \in Procs : pc'[q] = "logging" <=> pc[q] = "logging"
    BY <1>x, <1>u, Zenon
  <2> QED
    BY <2>1, <1>q, <1>u, UpFacts, ZenonT(60) DEF CallInv
<1>8. SleepInv'
  BY <1>x, SMTT(30) DEF SleepInv
<1>9. PhaseInv'
  <2>1. dhead = <<>>
    BY <1>c, <1>u, UpFacts, Zenon DEF PhaseInv, Committer, CommitPC
  <2> QED
    BY <2>1, <1>q, SMTT(60) DEF PhaseInv, Committer, CommitPC
<1> QED
  BY <1>u, <1>1, <1>2, <1>4, <1>5, <1>6, <1>7, <1>8, <1>9, UpSuffices, Zenon

\* sync() returns with an empty log.
LEMMA SysSyncReturnInv ==
  ASSUME SyncUndisturbed, IInv, NEW p \in Procs, sys_sync_return(p)
  PROVE  IInv'
<1> USE DEF sys_sync_return, At, Goto, boot, bufs, disk
<1>u. mode = "up" /\ mode' = "up" /\ pc[p] = "finish" /\ p \in syncing
  BY Zenon
<1>t. TypeOK
  BY Zenon DEF IInv
<1>s. \A q \in Procs : q # p => pc[q] = "idle"
  BY <1>u, Zenon DEF SyncUndisturbed
<1>o. \A q \in Procs : Committer(q) => q = p
  BY <1>s DEF Committer, CommitPC
<1>l. lh = <<>> /\ dhead = <<>> /\ ~committing
  <2>1. \A q \in Procs : pc[q] \notin {"install", "zero", "clear"}
    BY <1>u, <1>s, SMTT(30)
  <2> QED
    BY <2>1, <1>u, <1>o, UpFacts, Zenon DEF PhaseInv, CommitterInv
<1>x. \A q \in Procs : pc'[q] = "idle"
  BY <1>s, <1>t, Zenon DEF TypeOK
<1>q. \A q \in Procs : InOp(q)' = InOp(q) /\ ~Committer(q)'
  BY <1>x, <1>u, <1>s, SMTT(30) DEF InOp, Committer, CommitPC
<1>1. TypeOK'
  <2>1. pc' \in [Procs -> PCs] /\ tail' \in [Procs -> Nat] /\ syncing' \subseteq Procs
    BY <1>t, SMTT(30) DEF TypeOK, PCs
  <2> QED
    BY <2>1, <1>u, <1>t, Zenon DEF TypeOK
<1>2. HeadInv' /\ DirtyIsLogged' /\ CleanIsOnDisk' /\ Injective(lh)'
  BY <1>u, UpFacts DEF HeadInv, Injective, DirtyIsLogged, CleanIsOnDisk, Logged
<1>3. Active' = Active /\ Reserved' = Reserved
  BY <1>q, SameCalls, Zenon
<1>4. OutstandingCounts' /\ ReservationKept' /\ IdleLogHasRoom'
  BY <1>3, <1>u, UpFacts, SMTT(30) DEF OutstandingCounts, ReservationKept, IdleLogHasRoom
<1>6. CommitterInv'
  <2>1. syncing' = {}
    BY <1>o, <1>u, <1>t, UpFacts, Zenon DEF CommitterInv, TypeOK
  <2> QED
    BY <2>1, <1>q, <1>l, <1>u, Zenon DEF CommitterInv
<1>7. CallInv'
  <2>1. \A q \in Procs : pc[q] # "logging" /\ pc'[q] # "logging"
    BY <1>x, <1>s, <1>u, SMTT(30)
  <2> QED
    BY <2>1, <1>q, <1>u, UpFacts, ZenonT(60) DEF CallInv
<1>8. SleepInv'
  BY <1>x, SMTT(60) DEF SleepInv
<1>9. PhaseInv'
  <2>1. \A q \in Procs : pc'[q] \notin CommitPC \cup {"finish"}
    BY <1>x DEF CommitPC
  <2> QED
    BY <1>l, <2>1, SMTT(30) DEF PhaseInv, CommitPC
<1> QED
  BY <1>u, <1>1, <1>2, <1>4, <1>6, <1>7, <1>8, <1>9, UpSuffices, Zenon

\* No step leaves the invariant.
LEMMA NextInv == SyncUndisturbed /\ IInv /\ [QuietNext]_vars => SyncUndisturbed' /\ IInv'
<1> SUFFICES ASSUME SyncUndisturbed, IInv, [QuietNext]_vars PROVE SyncUndisturbed' /\ IInv'
  BY Zenon
<1>q. SyncUndisturbed'
  BY ZenonT(60) DEF QuietNext, SyncUndisturbed, vars, kmem, calls
<1> SUFFICES IInv'
  BY <1>q, Zenon
<1>1. CASE Recovery \/ Crash
  BY <1>1, CrashInv, ReadHeadInv, RecoverInstallInv, RecoverClearInv, Zenon DEF Recovery
<1>2. ASSUME NEW p \in Procs, ProcStep(p) PROVE IInv'
  <2>1. CASE begin_op(p)
    BY <1>q, <2>1, BeginOpInv, Zenon
  <2>2. CASE \E b \in Blocks : log_write_check(p, b)
    BY <2>2, LogWriteCheckInv, Zenon
  <2>3. CASE \E v \in Value : log_write(p, v)
    BY <2>3, LogWriteInv, Zenon
  <2>4. CASE end_op(p)
    BY <2>4, EndOpInv, Zenon
  <2>5. CASE sys_sync(p)
    BY <1>q, <2>5, SysSyncInv, Zenon
  <2>6. CASE CommitStep(p)
    BY <2>6, WriteLogInv, WriteHeadInv, InstallInv, CommitZeroInv, CommitClearInv,
       EndOpFinishInv, SysSyncReturnInv, Zenon DEF CommitStep
  <2> QED
    BY <1>2, <2>1, <2>2, <2>3, <2>4, <2>5, <2>6, Zenon DEF ProcStep
<1>3. CASE UNCHANGED vars
  <2> USE <1>3 DEF vars, boot, kmem, calls, bufs, disk
  <2>1. Active' = Active /\ Reserved' = Reserved
    BY SMTT(60) DEF Active, Reserved, InOp
  <2>2. (TypeOK /\ HeadInv /\ BootInv /\ RecoveryInv)'
    BY ZenonT(60) DEF IInv, TypeOK, HeadInv, BootInv, RecoveryInv, Booting, Injective
  <2>3. (OutstandingCounts /\ ReservationKept /\ IdleLogHasRoom /\ DirtyIsLogged /\ CleanIsOnDisk)'
    BY <2>1, ZenonT(60) DEF IInv, OutstandingCounts, ReservationKept, IdleLogHasRoom, DirtyIsLogged,
       CleanIsOnDisk, Logged
  <2>4. \A p \in Procs : Committer(p)' = Committer(p) /\ InOp(p)' = InOp(p)
    BY ZenonT(60) DEF Committer, InOp
  <2>5. ASSUME mode = "up"
        PROVE  Injective(lh)' /\ CommitterInv' /\ CallInv' /\ SleepInv' /\ PhaseInv'
    <3>1. Injective(lh) /\ CommitterInv /\ CallInv /\ SleepInv /\ PhaseInv
      BY <2>5, UpFacts, ZenonT(60)
    <3>2. Injective(lh)' /\ SleepInv'
      BY <3>1, ZenonT(60) DEF Injective, SleepInv
    <3>3. CommitterInv'
      BY <3>1, <2>1, <2>4, ZenonT(60) DEF CommitterInv
    <3>4. CallInv'
      BY <3>1, <2>4, ZenonT(60) DEF CallInv, Logged
    <3>5. PhaseInv'
      BY <3>1, ZenonT(60) DEF PhaseInv, Copied
    <3> QED
      BY <3>2, <3>3, <3>4, <3>5, ZenonT(60)
  <2>6. UpInv'
    BY <2>5, ZenonT(60) DEF UpInv
  <2> QED
    BY <2>2, <2>3, <2>6, ZenonT(60) DEF IInv
<1> QED
  BY <1>1, <1>2, <1>3, Zenon DEF QuietNext, Next

-----------------------------------------------------------------------------
(* The theorems. *)

\* The invariant holds in every reachable state when sync() is called only
\* while the others make no calls, by any number of processes in turn.
THEOREM LogInvariance == QuietSpec => []IInv
<1>1. Init => SyncUndisturbed
  BY Zenon DEF Init, SyncUndisturbed
<1> QED
  BY <1>1, NextInv, InitInv, PTL DEF QuietSpec

\* Every variable of the log keeps its type; in particular commit() and
\* recovery never read a log block outside the log.
THEOREM LogTypeCorrect == QuietSpec => []TypeOK
<1>1. IInv => TypeOK
  BY Zenon DEF IInv
<1> QED
  BY <1>1, LogInvariance, PTL

\* begin_op's reservations are honoured: the log never overflows lh.block.
THEOREM ReservationsHonoured == QuietSpec => []ReservationKept
<1>1. IInv => ReservationKept
  BY Zenon DEF IInv
<1> QED
  BY <1>1, LogInvariance, PTL

\* log_write's pinned buffers are those a later commit will write.
THEOREM PinnedAreLogged == QuietSpec => []DirtyIsLogged
<1>1. IInv => DirtyIsLogged
  BY Zenon DEF IInv
<1> QED
  BY <1>1, LogInvariance, PTL

\* A buffer that B_DIRTY does not pin, and bget may recycle, is on disk.
THEOREM CacheCoherent == QuietSpec => []CleanIsOnDisk
<1>1. IInv => CleanIsOnDisk
  BY Zenon DEF IInv
<1> QED
  BY <1>1, LogInvariance, PTL

\* The last end_op leaves the log at most half full, whatever it delays.
THEOREM IdleLogAdmits == QuietSpec => []IdleLogHasRoom
<1>1. IInv => IdleLogHasRoom
  BY Zenon DEF IInv
<1> QED
  BY <1>1, LogInvariance, PTL

\* Whoever sleeps in begin_op has somebody left to wake it.
THEOREM NoLostSleeper == QuietSpec => []SleeperHasWaker
<1>1. ASSUME IInv PROVE SleeperHasWaker
  <2> USE <1>1
  <2> SUFFICES ASSUME mode = "up", \E p \in Procs : pc[p] = "sleep"
               PROVE  \E q \in Procs : InOp(q) \/ (Committer(q) /\ q \notin syncing)
    BY Zenon DEF SleeperHasWaker, Committer
  <2>1. committing \/ outstanding > 0
    BY UpFacts, Zenon DEF SleepInv
  <2>2. CASE committing
    BY <2>2, UpFacts, Zenon DEF CommitterInv
  <2>3. CASE outstanding > 0
    <3>1. Active # {}
      BY <2>3, UpFacts, FS_EmptySet DEF OutstandingCounts
    <3> QED
      BY <3>1, Zenon DEF Active
  <2> QED
    BY <2>1, <2>2, <2>3, Zenon
<1> QED
  BY <1>1, LogInvariance, PTL

\* While a call is active the log has room for what the call may not use.
Slack ==
  mode = "up" => \A p \in Procs : InOp(p) => Len(lh) + MAXOPBLOCKS <= LOGSIZE + OpBlocks

\* It has that much slack because the call still holds its reservation.
LEMMA SlackInLog == IInv => Slack
<1> SUFFICES ASSUME IInv, mode = "up", NEW p \in Procs, InOp(p)
             PROVE  Len(lh) + MAXOPBLOCKS <= LOGSIZE + OpBlocks
  BY Zenon DEF Slack
<1>1. IsFiniteSet(touched[p]) /\ Cardinality(touched[p]) <= OpBlocks
  BY UpFacts, ZenonT(60) DEF CallInv
<1>2. Cardinality(touched[p]) \in Nat
  BY <1>1, FS_CardinalityType, SMTT(30)
<1>3. Cardinality(Reserved) + OpBlocks >= MAXOPBLOCKS
  BY <1>1, <1>2, ReservedByCall, ZenonT(60)
<1>4. Len(lh) \in Nat
  BY HeaderFits, Zenon
<1> QED
  BY <1>3, <1>4, UpFacts, ReservedFinite, SMTT(60) DEF ReservationKept

\* If calls stay below their reservation by as much as RegionRoom asks, the
\* log stays inside its blocks on disk although log_write tests lh.n unlocked.
THEOREM LogStaysInRegion == ASSUME RegionRoom PROVE QuietSpec => []LogInRegion
<1>1. Init => LogInRegion
  BY Zenon DEF Init, LogInRegion
<1>2. ASSUME IInv, IInv', LogInRegion, [QuietNext]_vars PROVE LogInRegion'
  <2> SUFFICES ASSUME mode' = "up" PROVE Len(lh') < NLog
    BY Zenon DEF LogInRegion
  <2>e. Len(<<>>) = 0
    BY Zenon
  <2>1. CASE Recovery \/ Crash
    BY <2>1, <2>e DEF Recovery, read_head, recover_install, recover_clear, Crash
  <2>2. CASE UNCHANGED vars
    BY <2>2, <1>2, Zenon DEF vars, boot, LogInRegion
  <2>3. ASSUME NEW p \in Procs, ProcStep(p) PROVE Len(lh') < NLog
    <3>1. CASE \E v \in Value : log_write(p, v)
      <4>1. InOp(p)'
        BY <1>2, <3>1, ZenonT(60) DEF IInv, log_write, Absorb, InOp, TypeOK, boot
      <4>2. Slack'
        BY <1>2, SlackInLog, PTL
      <4>3. Len(lh') \in Nat
        BY <1>2 DEF IInv, TypeOK
      <4> QED
        BY <4>1, <4>2, <4>3 DEF RegionRoom, Slack
    <3>2. CASE ~\E v \in Value : log_write(p, v)
      <4>1. mode = "up" /\ (lh' = lh \/ lh' = <<>>)
        BY <2>3, <3>2, ZenonT(60) DEF ProcStep, CommitStep, begin_op, log_write_check, TooBig, end_op, DoCommit, sys_sync,
           write_log, write_head, install_trans, commit_zero, commit_clear, end_op_finish,
           sys_sync_return, At, boot
      <4> QED
        BY <4>1, <2>e, <1>2 DEF LogInRegion
    <3> QED
      BY <3>1, <3>2, Zenon
  <2> QED
    BY <1>2, <2>1, <2>2, <2>3, Zenon DEF QuietNext, Next
<1> QED
  BY <1>1, <1>2, LogInvariance, PTL DEF QuietSpec

\* With one block more to spare no call panics, in any interleaving.
THEOREM NeverPanics == ASSUME PanicRoom PROVE QuietSpec => []NoPanic
<1>1. Init => NoPanic
  BY ZenonT(60) DEF Init, NoPanic
<1>2. ASSUME IInv, NoPanic, [QuietNext]_vars PROVE NoPanic'
  <2> USE <1>2 DEF NoPanic
  <2>1. CASE Recovery \/ Crash
    BY <2>1, Zenon DEF Recovery, read_head, recover_install, recover_clear, Crash
  <2>2. CASE UNCHANGED vars
    BY <2>2, SMTT(30) DEF vars, boot
  <2>3. ASSUME NEW p \in Procs, NEW b \in Blocks, log_write_check(p, b) PROVE mode' # "panic"
    <3>1. mode = "up" /\ InOp(p)
      BY <2>3, Zenon DEF log_write_check, TooBig, InOp
    <3>2. Len(lh) + MAXOPBLOCKS <= LOGSIZE + OpBlocks /\ Len(lh) \in Nat /\ outstanding > 0
      BY <3>1, SlackInLog, HeaderFits, CallFacts, Zenon DEF Slack
    <3>3. ~(Len(lh) >= LOGSIZE \/ Len(lh) + 1 >= NLog \/ outstanding < 1)
      <4>1. outstanding \in Nat
        BY SMTT(60) DEF IInv, TypeOK
      <4> QED
        BY <4>1, <3>2, SMTT(60) DEF PanicRoom
    <3> QED
      <4>1. mode' = mode
        BY <2>3, <3>3, ZenonT(60) DEF log_write_check, TooBig
      <4> QED
        BY <4>1, <3>1, ZenonT(60)
  <2>4. ASSUME NEW p \in Procs, end_op(p) PROVE mode' # "panic"
    <3>1. mode = "up" /\ InOp(p)
      BY <2>4, Zenon DEF end_op, DoCommit, InOp
    <3> QED
      BY <2>4, <3>1, CallFacts, SMTT(60) DEF end_op, DoCommit
  <2>5. ASSUME NEW p \in Procs, ProcStep(p) PROVE mode' # "panic"
    BY <2>3, <2>4, <2>5, ZenonT(60) DEF ProcStep, CommitStep, begin_op, log_write, Absorb, sys_sync, write_log,
       write_head, install_trans, commit_zero, commit_clear, end_op_finish, sys_sync_return, boot
  <2> QED
    BY <1>2, <2>1, <2>2, <2>5, Zenon DEF QuietNext, Next
<1> QED
  BY <1>1, <1>2, LogInvariance, PTL DEF QuietSpec

-----------------------------------------------------------------------------
(* Refinement: the log implements AtomicDisk. *)

\* What recovery produces: logged blocks from the log, the others as they are.
RecoveredShape ==
  /\ Recovered = [b \in Blocks |-> Recovered[b]]
  /\ \A i \in 1..Len(dhead) : dhead[i] \in Blocks /\ Recovered[dhead[i]] = dlog[i]
  /\ \A b \in Blocks \ Logged(dhead) : Recovered[b] = home[b]
  /\ Recovered \in [Blocks -> Value]

\* It has that shape whenever the header on disk lists distinct blocks.
LEMMA RecoveredFacts == TypeOK /\ HeadInv => RecoveredShape
<1> SUFFICES ASSUME TypeOK, HeadInv PROVE RecoveredShape
  BY Zenon
<1>1. dhead \in Seq(Blocks) /\ Injective(dhead) /\ Len(dhead) <= LOGSIZE /\ Len(dhead) \in Nat
  BY DEF TypeOK, HeadInv
<1>2. \A i \in 1..Len(dhead) : SlotOf(dhead, dhead[i]) = i
  BY <1>1, SlotUnique, Zenon
<1>3. \A i \in 1..Len(dhead) : dhead[i] \in Blocks /\ dhead[i] \in Logged(dhead)
  BY <1>1, LoggedFacts, Zenon
<1>4. \A i \in 1..Len(dhead) : Recovered[dhead[i]] = dlog[i]
  BY <1>2, <1>3, Zenon DEF Recovered
<1>5. \A b \in Blocks \ Logged(dhead) : Recovered[b] = home[b]
  BY Zenon DEF Recovered
<1>6. \A b \in Blocks : Recovered[b] \in Value
  <2> SUFFICES ASSUME NEW b \in Blocks PROVE Recovered[b] \in Value
    BY Zenon
  <2>1. CASE b \in Logged(dhead)
    <3>1. PICK i \in 1..Len(dhead) : dhead[i] = b
      BY <2>1, <1>1, LoggedFacts, Zenon
    <3>2. dlog[i] \in Value
      BY <1>1 DEF TypeOK
    <3> QED
      BY <3>1, <3>2, <1>4, Zenon
  <2>2. CASE b \notin Logged(dhead)
    BY <2>2, <1>5, ZenonT(60) DEF TypeOK
  <2> QED
    BY <2>1, <2>2, Zenon
<1>7. Recovered = [b \in Blocks |-> Recovered[b]]
  BY Zenon DEF Recovered
<1>8. Recovered \in [Blocks -> Value]
  BY <1>6, <1>7, Zenon
<1> QED
  BY <1>3, <1>4, <1>5, <1>7, <1>8, ZenonT(60) DEF RecoveredShape

\* With an empty header there is nothing to recover.
LEMMA RecoveredEmpty == TypeOK /\ dhead = <<>> => Recovered = home
<1> SUFFICES ASSUME TypeOK, dhead = <<>> PROVE Recovered = home
  BY Zenon
<1>1. \A b \in Blocks : Recovered[b] = home[b]
  BY LoggedEmpty, Zenon DEF Recovered
<1> QED
  BY <1>1, Zenon DEF Recovered, TypeOK

\* Recovery itself never changes what it produces, so it may be interrupted
\* and started again.
LEMMA RecoveryRefines ==
  ASSUME IInv, IInv', Recovery
  PROVE  UNCHANGED <<Image, Recovered, Active>>
<1>t. TypeOK /\ HeadInv /\ BootInv /\ RecoveryInv /\ TypeOK' /\ HeadInv'
  BY Zenon DEF IInv
<1>a. Active' = Active /\ Booting
  BY Zenon DEF Recovery, read_head, recover_install, recover_clear, kmem, Active, InOp, Booting
<1>1. CASE read_head
  <2>1. Recovered' = Recovered
    BY <1>1, ZenonT(60) DEF read_head, disk, Recovered
  <2> QED
    BY <1>1, <1>a, <2>1, Zenon DEF Image, read_head
<1>2. CASE recover_install
  <2>1. dhead' = dhead /\ dlog' = dlog /\ lh = dhead
    BY <1>2, <1>t, Zenon DEF recover_install, RecoveryInv
  <2>2. \A b \in Blocks \ Logged(dhead) : home'[b] = home[b]
    <3>1. CASE rtail < Len(lh)
      <4>1. home' = [home EXCEPT ![lh[rtail + 1]] = dlog[rtail + 1]]
        BY <1>2, <3>1, Zenon DEF recover_install, CopyHome
      <4>2. rtail + 1 \in 1..Len(dhead) /\ home \in [Blocks -> Value]
        BY <1>t, <2>1, <3>1 DEF TypeOK
      <4>3. dhead[rtail + 1] \in Logged(dhead)
        BY <4>2, Zenon DEF Logged
      <4>. QED
        BY <2>1, <4>1, <4>2, <4>3, Zenon
    <3>2. CASE ~(rtail < Len(lh))
      BY <1>2, <3>2, Zenon DEF recover_install, bufs
    <3>. QED
      BY <3>1, <3>2, Zenon
  <2>3. \A b \in Blocks : Recovered'[b] = Recovered[b]
    BY <2>1, <2>2, ZenonT(60) DEF Recovered
  <2>4. Recovered' = Recovered
    BY <2>3, Zenon DEF Recovered
  <2> QED
    BY <1>2, <1>a, <2>4, Zenon DEF Image, recover_install
<1>3. CASE recover_clear
  <2>1. /\ dhead' = <<>> /\ home' = home /\ cache' = home
        /\ \A i \in 1..Len(dhead) : home[dhead[i]] = dlog[i]
    BY <1>3, <1>a, <1>t, Zenon DEF recover_clear, bufs, BootInv, RecoveryInv
  <2>2. Recovered' = home
    <3>1. (TypeOK /\ dhead = <<>> => Recovered = home)'
      BY RecoveredEmpty, PTL
    <3> QED
      BY <3>1, <2>1, <1>t, Zenon
  <2>3. ASSUME NEW b \in Blocks PROVE Recovered[b] = home[b]
    <3>1. CASE b \in Logged(dhead)
      <4>1. PICK i \in 1..Len(dhead) : dhead[i] = b
        BY <3>1, Zenon DEF Logged
      <4> QED
        BY <4>1, <2>1, <1>t, RecoveredFacts, Zenon DEF RecoveredShape
    <3>2. CASE b \notin Logged(dhead)
      BY <3>2, <1>t, RecoveredFacts, SMTT(60) DEF RecoveredShape
    <3> QED
      BY <3>1, <3>2, Zenon
  <2>4. Recovered = home
    BY <2>3, <1>t, RecoveredFacts, SMTT(60) DEF RecoveredShape, TypeOK
  <2> QED
    BY <1>3, <1>a, <2>1, <2>2, <2>4, Zenon DEF Image, recover_clear
<1> QED
  BY <1>1, <1>2, <1>3, Zenon DEF Recovery

\* begin_op, log_write and end_op are Begin, Write and End, or invisible.
LEMMA CallRefines ==
  ASSUME IInv, NEW p \in Procs,
         \/ begin_op(p)
         \/ \E b \in Blocks : log_write_check(p, b)
         \/ \E v \in Value : log_write(p, v)
         \/ end_op(p)
  PROVE  Disk!Next \/ UNCHANGED <<Image, Recovered, Active>>
<1>u. mode = "up" /\ mode' \in {"up", "panic"} /\ disk' = disk
  BY Zenon DEF begin_op, log_write_check, TooBig, log_write, end_op, DoCommit, boot
<1>t. TypeOK
  BY Zenon DEF IInv
<1>r. Recovered' = Recovered
  BY <1>u, ZenonT(60) DEF Recovered, disk
<1>i. Image = cache /\ Image' = cache'
  BY <1>u, Zenon DEF Image
<1>1. CASE begin_op(p)
  <2>1. cache' = cache
    BY <1>1, Zenon DEF begin_op, bufs
  <2>2. CASE pc' = [pc EXCEPT ![p] = "sleep"]
    <3>1. Active' = Active
      BY <2>2, <1>1, <1>t, Zenon DEF begin_op, Active, InOp, TypeOK
    <3> QED
      BY <3>1, <2>1, <1>r, <1>i, SMTT(30)
  <2>3. CASE pc' = [pc EXCEPT ![p] = "op"]
    <3>1. p \notin Active /\ Active' = Active \cup {p}
      BY <2>3, <1>1, <1>t DEF begin_op, Active, InOp, TypeOK
    <3>2. Disk!Begin(p)
      BY <3>1, <2>1, <1>r, <1>i, Zenon DEF Disk!Begin
    <3> QED
      BY <3>2, Zenon DEF Disk!Next
  <2> QED
    BY <1>1, <2>2, <2>3, Zenon DEF begin_op
<1>2. ASSUME NEW b \in Blocks, log_write_check(p, b)
      PROVE  UNCHANGED <<Image, Recovered, Active>>
  <2>1. Active' = Active /\ cache' = cache
    BY <1>2, <1>t, Zenon DEF log_write_check, TooBig, Active, InOp, TypeOK, bufs
  <2> QED
    BY <2>1, <1>r, <1>i, SMTT(30)
<1>3. ASSUME NEW v \in Value, log_write(p, v) PROVE Disk!Next
  <2>1. p \in Active /\ Active' = Active
    BY <1>3, <1>t, SMTT(30) DEF log_write, Absorb, Active, InOp, TypeOK
  <2>2. buf[p] \in Blocks /\ cache' = [cache EXCEPT ![buf[p]] = v]
    BY <1>3, <1>u, UpFacts, ZenonT(60) DEF log_write, Absorb, CallInv
  <2>3. Disk!Write(p, buf[p], v)
    BY <2>1, <2>2, <1>r, <1>i, Zenon DEF Disk!Write
  <2> QED
    BY <2>2, <2>3, SMTT(30) DEF Disk!Next
<1>4. CASE end_op(p)
  <2>1. InOp(p) /\ cache' = cache
    BY <1>4, Zenon DEF end_op, DoCommit, InOp, bufs
  <2>2. ~committing
    BY <2>1, <1>u, CallFacts, SMTT(30)
  <2>3. p \in Active /\ Active' = Active \ {p}
    BY <1>4, <2>2, <1>t, Zenon DEF end_op, DoCommit, Active, InOp, Woken, CommitEntry, TypeOK
  <2>4. Disk!End(p)
    BY <2>1, <2>3, <1>r, <1>i, Zenon DEF Disk!End
  <2> QED
    BY <2>4, Zenon DEF Disk!Next
<1> QED
  BY <1>1, <1>2, <1>3, <1>4, SMTT(30)

\* Of the steps of commit() only the header write is visible: it is Commit.
LEMMA CommitRefines ==
  ASSUME IInv, IInv', NEW p \in Procs, sys_sync(p) \/ CommitStep(p)
  PROVE  Disk!Commit \/ UNCHANGED <<Image, Recovered, Active>>
<1>u. mode = "up" /\ mode' = "up"
  BY ZenonT(60) DEF sys_sync, CommitStep, write_log, write_head, install_trans, commit_zero, commit_clear,
     end_op_finish, sys_sync_return, At, boot
<1>t. TypeOK /\ HeadInv /\ TypeOK' /\ HeadInv'
  BY Zenon DEF IInv
<1>i. Image = cache /\ Image' = cache'
  BY <1>u, Zenon DEF Image
<1>a. Active' = Active
  BY <1>t, ZenonT(60) DEF sys_sync, CommitEntry, CommitStep, write_log, write_head, install_trans, commit_zero,
     commit_clear, end_op_finish, sys_sync_return, At, Goto, Woken, Active, InOp, TypeOK
<1>e. (TypeOK /\ dhead = <<>> => Recovered = home)'
  BY RecoveredEmpty, PTL
<1>c. pc[p] \in CommitPC => /\ Active = {}
                            /\ \A q \in Procs : q # p => pc[q] \notin CommitPC
  BY <1>u, UpFacts, Zenon DEF CommitterInv, Committer
<1>1. CASE sys_sync(p) \/ commit_zero(p) \/ end_op_finish(p) \/ sys_sync_return(p)
  <2>1. disk' = disk /\ cache' = cache
    BY <1>1, Zenon DEF sys_sync, commit_zero, end_op_finish, sys_sync_return, bufs
  <2>2. Recovered' = Recovered
    BY <2>1, ZenonT(60) DEF Recovered, disk
  <2> QED
    BY <2>1, <2>2, <1>a, <1>i, Zenon
<1>2. CASE write_log(p)
  <2>1. /\ dhead = <<>> /\ dhead' = dhead /\ home' = home /\ cache' = cache
    BY <1>2, <1>c, <1>u, UpFacts, Zenon DEF write_log, At, PhaseInv, CommitPC, bufs
  <2>2. Recovered = home /\ Recovered' = home
    BY <2>1, <1>t, <1>e, RecoveredEmpty, SMTT(60)
  <2> QED
    BY <2>1, <2>2, <1>a, <1>i, SMTT(30)
<1>3. CASE write_head(p)
  <2>1. /\ dhead' = lh /\ dlog' = dlog /\ home' = home /\ cache' = cache
        /\ \A i \in 1..Len(lh) : dlog[i] = cache[lh[i]]
        /\ Active = {} /\ pc[p] = "whead"
    BY <1>3, <1>c, <1>u, UpFacts, ZenonT(60) DEF write_head, At, PhaseInv, Copied, CommitPC, bufs
  <2>2. RecoveredShape'
    BY RecoveredFacts, <1>t, PTL
  <2>3. ASSUME NEW b \in Blocks PROVE Recovered'[b] = cache[b]
    <3>1. CASE b \in Logged(lh)
      <4>1. PICK i \in 1..Len(lh) : lh[i] = b
        BY <3>1, ZenonT(60) DEF Logged
      <4> QED
        BY <4>1, <2>1, <2>2, ZenonT(60) DEF RecoveredShape
    <3>2. CASE b \notin Logged(lh)
      <4>1. cache[b] = home[b]
        BY <3>2, <1>u, UpFacts, ZenonT(60) DEF DirtyIsLogged, CleanIsOnDisk
      <4> QED
        BY <4>1, <3>2, <2>1, <2>2, ZenonT(60) DEF RecoveredShape
    <3> QED
      BY <3>1, <3>2, ZenonT(60)
  <2>4. Recovered' = cache
    BY <2>2, <2>3, <1>t, ZenonT(60) DEF RecoveredShape, TypeOK
  <2> QED
    BY <2>1, <2>4, <1>a, <1>i, Zenon DEF Disk!Commit
<1>4. CASE install_trans(p)
  <2>1. /\ dhead' = dhead /\ dlog' = dlog /\ dhead = lh
        /\ \A i \in 1..Len(lh) : dlog[i] = cache[lh[i]] /\ lh[i] \in Logged(dhead)
    BY <1>4, <1>u, UpFacts, ZenonT(60) DEF install_trans, At, PhaseInv, Copied, Logged
  <2>h. tail[p] \in Nat /\ Len(lh) \in Nat
    BY <1>t DEF TypeOK
  <2>2. cache' = cache /\ \A b \in Blocks \ Logged(dhead) : home'[b] = home[b]
    <3>1. CASE tail[p] < Len(lh)
      <4>1. tail[p] + 1 \in 1..Len(lh)
        BY <3>1, <2>h, SMTT(60)
      <4>2. /\ cache' = [cache EXCEPT ![lh[tail[p] + 1]] = cache[lh[tail[p] + 1]]]
            /\ home' = [home EXCEPT ![lh[tail[p] + 1]] = dlog[tail[p] + 1]]
            /\ lh[tail[p] + 1] \in Logged(dhead)
        BY <4>1, <3>1, <2>1, <1>4, Zenon DEF install_trans, CopyHome
      <4> QED
        BY <4>2, <1>t, Zenon DEF TypeOK
    <3>2. CASE ~(tail[p] < Len(lh))
      BY <3>2, <1>4, SMTT(30) DEF install_trans, bufs
    <3> QED
      BY <3>1, <3>2, ZenonT(60)
  <2>3. \A b \in Blocks : Recovered'[b] = Recovered[b]
    BY <2>1, <2>2, Zenon DEF Recovered
  <2>4. Recovered' = Recovered
    BY <2>3, ZenonT(60) DEF Recovered
  <2> QED
    BY <2>2, <2>4, <1>a, <1>i, ZenonT(60)
<1>5. CASE commit_clear(p)
  <2>1. /\ lh = <<>> /\ dhead' = <<>> /\ home' = home /\ cache' = cache
        /\ \A i \in 1..Len(dhead) : dlog[i] = cache[dhead[i]]
    BY <1>5, <1>u, UpFacts, ZenonT(60) DEF commit_clear, At, PhaseInv, Copied, bufs
  <2>2. cache = home
    <3>1. \A b \in Blocks : cache[b] = home[b]
      BY <2>1, <1>u, UpFacts, LoggedEmpty, ZenonT(60) DEF DirtyIsLogged, CleanIsOnDisk
    <3> QED
      BY <3>1, <1>t DEF TypeOK
  <2>3. Recovered' = home
    BY <2>1, <1>e, <1>t, ZenonT(60)
  <2>4. ASSUME NEW b \in Blocks PROVE Recovered[b] = home[b]
    <3>1. CASE b \in Logged(dhead)
      <4>1. PICK i \in 1..Len(dhead) : dhead[i] = b
        BY <3>1, ZenonT(60) DEF Logged
      <4> QED
        BY <4>1, <2>1, <2>2, <1>t, RecoveredFacts, Zenon DEF RecoveredShape
    <3>2. CASE b \notin Logged(dhead)
      BY <3>2, <1>t, RecoveredFacts, SMTT(30) DEF RecoveredShape
    <3> QED
      BY <3>1, <3>2, ZenonT(60)
  <2>5. Recovered = home
    BY <2>4, <1>t, RecoveredFacts, Zenon DEF RecoveredShape, TypeOK
  <2> QED
    BY <2>1, <2>3, <2>5, <1>a, <1>i, ZenonT(60)
<1> QED
  BY <1>1, <1>2, <1>3, <1>4, <1>5, Zenon DEF CommitStep

\* The log implements the atomic disk: after a crash at any point of a call, of
\* commit() or of recovery, the disk is the image of the last group commit.
THEOREM LogImplementsAtomicDisk == QuietSpec => CrashAtomic
<1>1. Init => Disk!Init
  <2> SUFFICES ASSUME Init PROVE Disk!Init
    BY SMTT(30)
  <2>1. TypeOK /\ dhead = <<>> /\ mode = "boot"
    BY InitInv, Zenon DEF IInv, Init
  <2>2. Recovered = home /\ Image = home
    BY <2>1, RecoveredEmpty, Zenon DEF Image
  <2>3. Active = {}
    BY Zenon DEF Init, Active, InOp
  <2> QED
    BY <2>1, <2>2, <2>3, Zenon DEF Disk!Init, TypeOK
<1>2. ASSUME IInv, IInv', [QuietNext]_vars PROVE [Disk!Next]_(Disk!vars)
  <2>1. CASE Recovery
    BY <2>1, <1>2, RecoveryRefines, Zenon DEF Disk!vars
  <2>2. CASE Crash
    <3>1. Recovered' = Recovered /\ Active' = {}
      BY <2>2, ZenonT(60) DEF Crash, Recovered, disk, Active, InOp
    <3>2. Image' = Recovered'
      BY <2>2, Zenon DEF Crash, Image
    <3> QED
      BY <3>1, <3>2, Zenon DEF Disk!Crash, Disk!Next
  <2>3. ASSUME NEW p \in Procs, ProcStep(p) PROVE [Disk!Next]_(Disk!vars)
    <3>1. CASE sys_sync(p) \/ CommitStep(p)
      BY <3>1, <1>2, CommitRefines, Zenon DEF Disk!Next, Disk!vars
    <3>2. CASE ~(sys_sync(p) \/ CommitStep(p))
      BY <3>2, <2>3, <1>2, CallRefines, Zenon DEF ProcStep, Disk!vars
    <3> QED
      BY <3>1, <3>2, Zenon
  <2>4. CASE UNCHANGED vars
    BY <2>4, ZenonT(60) DEF vars, boot, kmem, bufs, disk, Disk!vars, Image, Recovered, Active, InOp
  <2> QED
    BY <1>2, <2>1, <2>2, <2>3, <2>4, Zenon DEF QuietNext, Next
<1> QED
  BY <1>1, <1>2, LogInvariance, PTL DEF QuietSpec, CrashAtomic, Disk!Spec

\* A sync() that no call overlaps makes everything written before it durable.
THEOREM SyncIsDurable == QuietSpec => SyncDurable
<1>1. ASSUME IInv
      PROVE  [\A p \in Procs : sys_sync_return(p) /\ lh = <<>> => Recovered = cache]_vars
  <2> SUFFICES ASSUME NEW p \in Procs, sys_sync_return(p) PROVE Recovered = cache
    BY Zenon
  <2>1. mode = "up" /\ pc[p] = "finish"
    BY Zenon DEF sys_sync_return, At
  <2>2. \A q \in Procs : pc[q] \notin {"install", "zero", "clear"}
    BY <1>1, <2>1, UpFacts, SMTT(30) DEF CommitterInv, Committer, CommitPC
  <2>3. dhead = <<>> /\ lh = <<>>
    BY <1>1, <2>1, <2>2, UpFacts, Zenon DEF PhaseInv
  <2>4. Recovered = home
    BY <1>1, <2>3, RecoveredEmpty, Zenon DEF IInv
  <2>5. \A b \in Blocks : cache[b] = home[b]
    BY <1>1, <2>1, <2>3, UpFacts, LoggedEmpty, Zenon DEF DirtyIsLogged, CleanIsOnDisk
  <2> QED
    BY <1>1, <2>4, <2>5 DEF IInv, TypeOK
<1> QED
  BY <1>1, LogInvariance, PTL DEF SyncDurable

-----------------------------------------------------------------------------
(* What end_op achieves by itself, whoever calls sync() and when. *)

\* log.outstanding and log.committing say who is in a call and whether end_op
\* commits; calls and such commits exclude each other.
ExclusionInv ==
  /\ pc \in [Procs -> PCs] /\ syncing \subseteq Procs /\ outstanding \in Nat
  /\ mode \in {"boot", "rinstall", "rclear", "up", "panic"}
  /\ Booting => pc = [p \in Procs |-> "idle"] /\ outstanding = 0 /\ ~committing /\ syncing = {}
  /\ mode = "up" =>
       /\ outstanding = Cardinality(Active)
       /\ \A p \in syncing : Committer(p)
       /\ committing => Active = {}
       /\ \A p \in Procs : Committer(p) /\ p \notin syncing => committing
       /\ \A p, q \in Procs : Committer(p) /\ p \notin syncing /\ Committer(q) /\ q \notin syncing => p = q

\* A step that changes neither the counters nor who is in a call or commits
\* keeps this.
LEMMA ExclusionKept ==
  ASSUME ExclusionInv, mode = "up", mode' \in {"up", "panic"},
         pc' \in [Procs -> PCs], outstanding' = outstanding, committing' = committing,
         syncing' = syncing,
         \A q \in Procs : InOp(q)' = InOp(q) /\ Committer(q)' = Committer(q)
  PROVE  ExclusionInv'
<1>1. Active' = Active
  BY Zenon DEF Active
<1>2. ~Booting'
  BY SMTT(30) DEF Booting
<1> QED
  BY <1>1, <1>2, ZenonT(30) DEF ExclusionInv

\* Every step does: begin_op tests log.committing, end_op commits only as the
\* last call, and sys_sync touches neither.
LEMMA ExclusionNext == ExclusionInv /\ [Next]_vars => ExclusionInv'
<1> SUFFICES ASSUME ExclusionInv, [Next]_vars PROVE ExclusionInv'
  BY Zenon
<1>t. pc \in [Procs -> PCs] /\ syncing \subseteq Procs /\ outstanding \in Nat
  BY Zenon DEF ExclusionInv
<1>1. CASE Crash
  BY <1>1, SMTT(30) DEF Crash, ExclusionInv, Booting, PCs
<1>2. CASE Recovery
  <2>1. Booting /\ (Booting' \/ mode' = "up") /\ UNCHANGED <<pc, outstanding, committing, syncing>>
    BY <1>2, SMTT(30) DEF Recovery, read_head, recover_install, recover_clear, Booting, kmem, calls
  <2>2. mode' \in {"boot", "rinstall", "rclear", "up", "panic"}
    BY <2>1, SMTT(30) DEF Booting
  <2>3. \A p \in Procs : pc'[p] = "idle"
    BY <2>1, Zenon DEF ExclusionInv
  <2>4. \A p \in Procs : ~InOp(p)' /\ ~Committer(p)'
    BY <2>3, SMTT(30) DEF InOp, Committer, CommitPC
  <2>5. Active' = {} /\ Cardinality({}) = 0
    BY <2>4, FS_EmptySet, Zenon DEF Active
  <2> QED
    BY <2>1, <2>2, <2>4, <2>5, Zenon DEF ExclusionInv
<1>3. ASSUME NEW p \in Procs, begin_op(p) PROVE ExclusionInv'
  <2>m. mode = "up" /\ mode' = "up" /\ pc[p] \in {"idle", "begin"}
        /\ syncing' = syncing /\ committing' = committing
    BY <1>3, Zenon DEF begin_op, boot
  <2>1. CASE MustWait
    <3>1. pc' = [pc EXCEPT ![p] = "sleep"] /\ outstanding' = outstanding
      BY <1>3, <2>1, Zenon DEF begin_op
    <3>2. pc' \in [Procs -> PCs]
      BY <3>1, <1>t, SMTT(30) DEF PCs
    <3>3. \A q \in Procs : InOp(q)' = InOp(q) /\ Committer(q)' = Committer(q)
      BY <3>1, <2>m, <1>t, SMTT(30) DEF InOp, Committer, CommitPC
    <3> QED
      BY <3>1, <3>2, <3>3, <2>m, ExclusionKept, SMTT(30)
  <2>2. CASE ~MustWait
    <3>1. pc' = [pc EXCEPT ![p] = "op"] /\ outstanding' = outstanding + 1 /\ ~committing
      BY <1>3, <2>2, Zenon DEF begin_op, MustWait
    <3>2. pc' \in [Procs -> PCs] /\ outstanding' \in Nat
      BY <3>1, <1>t, SMTT(30) DEF PCs
    <3>3. \A q \in Procs : Committer(q)' = Committer(q) /\ (InOp(q)' <=> InOp(q) \/ q = p)
      BY <3>1, <2>m, <1>t, SMTT(30) DEF InOp, Committer, CommitPC
    <3>4. Active' = Active \cup {p} /\ p \notin Active
      BY <3>3, <2>m, SMTT(30) DEF Active, InOp
    <3>5. Cardinality(Active') = Cardinality(Active) + 1
      BY <3>4, ActiveFinite, FS_AddElement, ZenonT(30)
    <3>6. ~Booting'
      BY <2>m, SMTT(30) DEF Booting
    <3> QED
      BY <3>1, <3>2, <3>3, <3>5, <3>6, <2>m, ZenonT(30) DEF ExclusionInv
  <2> QED
    BY <2>1, <2>2, Zenon
<1>4. ASSUME NEW p \in Procs, end_op(p) PROVE ExclusionInv'
  <2>m. mode = "up" /\ mode' \in {"up", "panic"} /\ pc[p] = "op" /\ syncing' = syncing
        /\ outstanding' = outstanding - 1
    BY <1>4, SMTT(30) DEF end_op
  <2>a. p \in Active /\ ~committing /\ outstanding = Cardinality(Active)
    BY <2>m, Zenon DEF Active, InOp, ExclusionInv
  <2>f. IsFiniteSet(Active) /\ IsFiniteSet(Active \ {p}) /\ Cardinality(Active \ {p}) = outstanding - 1
        /\ Cardinality(Active \ {p}) \in Nat
    BY <2>a, ActiveFinite, FS_RemoveElement, FS_CardinalityType, ZenonT(30)
  <2>n. \A q \in Procs : Committer(q) => q \in syncing
    BY <2>m, <2>a, Zenon DEF ExclusionInv
  <2>b. ~Booting'
    BY <2>m, SMTT(30) DEF Booting
  <2>1. CASE DoCommit
    <3>1. pc' = [pc EXCEPT ![p] = CommitEntry] /\ committing' = TRUE /\ CommitEntry \in {"wlog", "finish"}
      BY <1>4, <2>1, Zenon DEF end_op, CommitEntry
    <3>2. Active \ {p} = {}
      BY <2>1, <2>f, FS_EmptySet, SMTT(30) DEF DoCommit
    <3>3. pc' \in [Procs -> PCs]
      BY <3>1, <1>t, SMTT(30) DEF PCs, CommitPC
    <3>4. Committer(p)' /\ ~InOp(p)' /\ \A q \in Procs \ {p} : (Committer(q)' = Committer(q)) /\ (InOp(q)' = InOp(q))
      BY <3>1, <1>t, SMTT(30) DEF Committer, CommitPC, InOp
    <3>5. Active' = {}
      BY <3>2, <3>4, Zenon DEF Active
    <3>6. outstanding' = 0 /\ Cardinality({}) = 0 /\ outstanding' \in Nat
      BY <2>1, <2>m, <1>t, FS_EmptySet, SMTT(30) DEF DoCommit
    <3>7. p \notin syncing
      BY <2>m, SMTT(30) DEF ExclusionInv, Committer, CommitPC
    <3>8. \A q \in Procs : Committer(q)' /\ q \notin syncing' => q = p
      BY <3>4, <2>n, <2>m, Zenon
    <3>9. \A q \in syncing' : Committer(q)'
      BY <3>4, <3>7, <2>m, <1>t, Zenon DEF ExclusionInv
    <3>10. /\ outstanding' = Cardinality(Active')
           /\ committing' => Active' = {}
           /\ \A q \in Procs : Committer(q)' /\ q \notin syncing' => committing'
           /\ \A q, r \in Procs :
                Committer(q)' /\ q \notin syncing' /\ Committer(r)' /\ r \notin syncing' => q = r
      BY <3>1, <3>5, <3>6, <3>8, Zenon
    <3>11. mode' \in {"boot", "rinstall", "rclear", "up", "panic"} /\ syncing' \subseteq Procs
      BY <2>m, <1>t, SMTT(30)
    <3> QED
      BY <3>3, <3>6, <3>9, <3>10, <3>11, <2>b, Zenon DEF ExclusionInv
  <2>2. CASE ~DoCommit
    <3>1. pc' = [q \in Procs |-> IF q = p THEN "idle" ELSE Woken(q)] /\ committing' = committing
      BY <1>4, <2>2, Zenon DEF end_op
    <3>2. pc' \in [Procs -> PCs]
      BY <3>1, <1>t, SMTT(30) DEF PCs, Woken
    <3>3. \A q \in Procs : (Committer(q)' = Committer(q)) /\ (InOp(q)' <=> InOp(q) /\ q # p)
      BY <3>1, <2>m, <1>t, SMTT(30) DEF Committer, CommitPC, InOp, Woken
    <3>4. Active' = Active \ {p}
      BY <3>3, Zenon DEF Active
    <3>5. outstanding' = Cardinality(Active') /\ outstanding' \in Nat
      BY <3>4, <2>f, <2>m, Zenon
    <3>6. mode' \in {"boot", "rinstall", "rclear", "up", "panic"} /\ syncing' \subseteq Procs
      BY <2>m, <1>t, SMTT(30)
    <3> QED
      BY <3>1, <3>2, <3>3, <3>5, <3>6, <2>a, <2>b, <2>m, <2>n, ZenonT(30) DEF ExclusionInv
  <2> QED
    BY <2>1, <2>2, Zenon
<1>5. ASSUME NEW p \in Procs, sys_sync(p) PROVE ExclusionInv'
  <2>1. /\ mode = "up" /\ mode' = "up" /\ pc[p] = "idle" /\ syncing' = syncing \cup {p}
        /\ pc' = [pc EXCEPT ![p] = CommitEntry] /\ CommitEntry \in {"wlog", "finish"}
        /\ UNCHANGED <<outstanding, committing>>
    BY <1>5, Zenon DEF sys_sync, CommitEntry, boot
  <2>2. pc' \in [Procs -> PCs] /\ syncing' \subseteq Procs
    BY <2>1, <1>t, SMTT(30) DEF PCs, CommitPC
  <2>3. Committer(p)' /\ \A q \in Procs : (InOp(q)' = InOp(q)) /\ (q # p => Committer(q)' = Committer(q))
    BY <2>1, <1>t, SMTT(30) DEF Committer, CommitPC, InOp
  <2>4. Active' = Active
    BY <2>3, Zenon DEF Active
  <2>5. ~Booting'
    BY <2>1, SMTT(30) DEF Booting
  <2>6. \A q \in Procs : Committer(q)' /\ q \notin syncing' => Committer(q) /\ q \notin syncing
    BY <2>1, <2>3, Zenon
  <2>7. \A q \in syncing' : Committer(q)'
    BY <2>1, <2>3, <1>t, Zenon DEF ExclusionInv
  <2> QED
    BY <2>1, <2>2, <2>4, <2>5, <2>6, <2>7, ZenonT(30) DEF ExclusionInv
<1>6. ASSUME NEW p \in Procs, end_op_finish(p) \/ sys_sync_return(p) PROVE ExclusionInv'
  <2>1. /\ mode = "up" /\ mode' = "up" /\ pc[p] = "finish" /\ outstanding' = outstanding
        /\ pc' \in [Procs -> PCs]
        /\ \A q \in Procs : pc'[q] = (IF q = p THEN "idle" ELSE pc[q]) \/ (q # p /\ pc[q] = "sleep" /\ pc'[q] = "begin")
    BY <1>6, <1>t, SMTT(30) DEF end_op_finish, sys_sync_return, At, Goto, Woken, PCs, boot
  <2>2. \/ p \notin syncing /\ syncing' = syncing /\ committing' = FALSE
        \/ p \in syncing /\ syncing' = syncing \ {p} /\ committing' = committing
    BY <1>6, Zenon DEF end_op_finish, sys_sync_return
  <2>3. Committer(p) /\ \A q \in Procs : (InOp(q)' = InOp(q)) /\ (Committer(q)' <=> Committer(q) /\ q # p)
    BY <2>1, SMTT(30) DEF Committer, CommitPC, InOp
  <2>4. Active' = Active
    BY <2>3, Zenon DEF Active
  <2>5. ~Booting' /\ mode' \in {"boot", "rinstall", "rclear", "up", "panic"}
    BY <2>1, SMTT(30) DEF Booting
  <2>6. syncing' \subseteq Procs /\ \A q \in syncing' : Committer(q)'
    BY <2>1, <2>2, <2>3, <1>t, Zenon DEF ExclusionInv
  <2>7. \A q \in Procs : Committer(q)' /\ q \notin syncing' => Committer(q) /\ q \notin syncing /\ q # p
    BY <2>2, <2>3, Zenon
  <2>8. \A q \in Procs : Committer(q)' /\ q \notin syncing' => committing'
    <3>1. CASE p \notin syncing
      BY <3>1, <2>1, <2>3, <2>7, Zenon DEF ExclusionInv
    <3>2. CASE p \in syncing
      <4>1. committing' = committing
        BY <3>2, <2>2, Zenon
      <4> QED
        BY <4>1, <2>1, <2>7, Zenon DEF ExclusionInv
    <3> QED
      BY <3>1, <3>2, Zenon
  <2>9. /\ outstanding' = Cardinality(Active')
        /\ committing' => Active' = {}
        /\ \A q, r \in Procs :
             Committer(q)' /\ q \notin syncing' /\ Committer(r)' /\ r \notin syncing' => q = r
    <3>1. committing' => committing
      BY <2>2, Zenon
    <3> QED
      BY <3>1, <2>1, <2>4, <2>7, Zenon DEF ExclusionInv
  <2>10. outstanding' \in Nat
    BY <2>1, <1>t, Zenon
  <2> QED
    BY <2>1, <2>5, <2>6, <2>8, <2>9, <2>10, Zenon DEF ExclusionInv
<1>7. ASSUME NEW p \in Procs,
             \/ \E b \in Blocks : log_write_check(p, b)
             \/ \E v \in Value : log_write(p, v)
             \/ write_log(p) \/ write_head(p) \/ install_trans(p) \/ commit_zero(p) \/ commit_clear(p)
      PROVE  ExclusionInv'
  <2>1. /\ mode = "up" /\ mode' \in {"up", "panic"}
        /\ UNCHANGED <<outstanding, committing, syncing>>
        /\ \/ pc' = pc
           \/ pc[p] \in {"op", "logging"} /\ (pc' = [pc EXCEPT ![p] = "op"] \/ pc' = [pc EXCEPT ![p] = "logging"])
           \/ /\ pc[p] \in CommitPC
              /\ \E c \in CommitPC \cup {"finish"} : pc' = [pc EXCEPT ![p] = c]
    <3>1. CASE \E b \in Blocks : log_write_check(p, b)
      BY <3>1, SMTT(30) DEF log_write_check
    <3>2. CASE \E v \in Value : log_write(p, v)
      BY <3>2, SMTT(30) DEF log_write, boot
    <3>3. CASE write_log(p) \/ write_head(p)
      BY <3>3, SMTT(30) DEF write_log, write_head, At, Goto, boot, calls, CommitPC
    <3>4. CASE install_trans(p) \/ commit_zero(p) \/ commit_clear(p)
      BY <3>4, SMTT(30) DEF install_trans, commit_zero, commit_clear, At, Goto, boot, calls, CommitPC
    <3> QED
      BY <1>7, <3>1, <3>2, <3>3, <3>4, Zenon
  <2>2. pc' \in [Procs -> PCs]
    BY <2>1, <1>t, SMTT(30) DEF PCs, CommitPC
  <2>3. \A q \in Procs : InOp(q)' = InOp(q) /\ Committer(q)' = Committer(q)
    BY <2>1, <1>t, SMTT(30) DEF InOp, Committer, CommitPC
  <2> QED
    BY <2>1, <2>2, <2>3, ExclusionKept, Zenon
<1>8. CASE UNCHANGED vars
  <2>1. UNCHANGED <<mode, pc, outstanding, committing, syncing>>
    BY <1>8, Zenon DEF vars, boot, kmem, calls
  <2>2. Active' = Active /\ (Booting' = Booting) /\ \A q \in Procs : Committer(q)' = Committer(q)
    BY <2>1, Zenon DEF Active, InOp, Booting, Committer
  <2> QED
    BY <2>1, <2>2, <1>t, ZenonT(30) DEF ExclusionInv
<1> QED
  BY <1>1, <1>2, <1>3, <1>4, <1>5, <1>6, <1>7, <1>8, Zenon DEF Next, ProcStep, CommitStep

\* Whatever sync() does, the commits that end_op starts meet no call and no
\* other such commit.
THEOREM CommitIsExclusive == Spec => []EndOpCommitsAlone
<1>1. Init => ExclusionInv
  BY SMTT(30) DEF Init, ExclusionInv, Booting, PCs
<1>2. ExclusionInv => EndOpCommitsAlone
  BY ZenonT(30) DEF ExclusionInv, EndOpCommitsAlone, Committer
<1> QED
  BY <1>1, <1>2, ExclusionNext, PTL DEF Spec
=============================================================================
