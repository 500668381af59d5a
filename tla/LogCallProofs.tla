--------------------------- MODULE LogCallProofs ----------------------------
(***************************************************************************)
(* The inductive invariant of Log, first part: it holds initially and is   *)
(* preserved by a crash, by recovery and by what a file system call does   *)
(* outside commit().                                                       *)
(***************************************************************************)
EXTENDS LogInvariant, FiniteSetTheorems, TLAPS

USE SetAssumption, SizeAssumption DEF Slots

-----------------------------------------------------------------------------
(* Headers, slots and counting. *)

\* Appending a block to a header adds it to the blocks the header lists.
LEMMA LoggedAppend ==
  ASSUME NEW h \in Seq(Blocks), NEW b \in Blocks
  PROVE  /\ Append(h, b) \in Seq(Blocks)
         /\ Len(Append(h, b)) = Len(h) + 1
         /\ Logged(Append(h, b)) = Logged(h) \cup {b}
         /\ \A i \in 1..Len(h) : Append(h, b)[i] = h[i]
         /\ Append(h, b)[Len(h) + 1] = b
BY DEF Logged

\* The absorption test of log_write keeps the blocks of a header distinct.
LEMMA InjectiveAppend ==
  ASSUME NEW h \in Seq(Blocks), NEW b \in Blocks, Injective(h), b \notin Logged(h)
  PROVE  Injective(Append(h, b))
BY LoggedAppend DEF Logged, Injective

\* A header lists blocks, each of them at one position.
LEMMA LoggedFacts ==
  ASSUME NEW h \in Seq(Blocks)
  PROVE  /\ Logged(h) \subseteq Blocks
         /\ \A i \in 1..Len(h) : h[i] \in Blocks /\ h[i] \in Logged(h)
         /\ \A b \in Logged(h) : \E i \in 1..Len(h) : h[i] = b
         /\ Len(h) \in Nat
BY DEF Logged

\* In a header of distinct blocks the last position of a block is its only one.
LEMMA SlotUnique ==
  ASSUME NEW h \in Seq(Blocks), Injective(h), NEW i \in 1..Len(h)
  PROVE  SlotOf(h, h[i]) = i
BY DEF SlotOf, Injective

\* The empty header lists nothing.
LEMMA LoggedEmpty == Logged(<<>>) = {} /\ Injective(<<>>) /\ Len(<<>>) = 0 /\ <<>> \in Seq(Blocks)
BY DEF Logged, Injective

\* There are finitely many calls in progress.
LEMMA ActiveFinite == IsFiniteSet(Active) /\ Cardinality(Active) \in Nat
<1>1. Active \in SUBSET Procs
  BY Zenon DEF Active
<1> QED
  BY <1>1, FS_Subset, FS_CardinalityType, Zenon

\* There are finitely many reserved blocks, at most MAXOPBLOCKS for each call.
LEMMA ReservedFinite ==
  /\ IsFiniteSet(Reserved)
  /\ Cardinality(Reserved) \in Nat
  /\ Cardinality(Reserved) <= Cardinality(Active) * MAXOPBLOCKS
<1>1. IsFiniteSet(1..MAXOPBLOCKS) /\ Cardinality(1..MAXOPBLOCKS) = MAXOPBLOCKS
  BY FS_Interval
<1>2. /\ IsFiniteSet(Active \X (1..MAXOPBLOCKS))
      /\ Cardinality(Active \X (1..MAXOPBLOCKS)) = Cardinality(Active) * MAXOPBLOCKS
  BY <1>1, ActiveFinite, FS_Product, ZenonT(60)
<1>3. Reserved \in SUBSET (Active \X (1..MAXOPBLOCKS))
  BY Zenon DEF Reserved, Active
<1> QED
  BY <1>2, <1>3, FS_Subset, FS_CardinalityType, Zenon

\* The reservation of a running call that has not used it up.
LEMMA ReservedByCall ==
  ASSUME NEW p \in Procs, InOp(p), Cardinality(touched[p]) \in Nat,
         Cardinality(touched[p]) <= OpBlocks
  PROVE  Cardinality(Reserved) + OpBlocks >= MAXOPBLOCKS
<1> DEFINE T == (OpBlocks + 1)..MAXOPBLOCKS
<1>1. IsFiniteSet(T) /\ Cardinality(T) = MAXOPBLOCKS - OpBlocks
  <2>1. OpBlocks + 1 \in Int /\ MAXOPBLOCKS \in Int
    OBVIOUS
  <2>2. /\ IsFiniteSet(T)
        /\ Cardinality(T) = IF OpBlocks + 1 > MAXOPBLOCKS THEN 0
                            ELSE MAXOPBLOCKS - (OpBlocks + 1) + 1
    BY <2>1, FS_Interval, ZenonT(60)
  <2> QED
    BY <2>2
<1>2. IsFiniteSet({p} \X T) /\ Cardinality({p} \X T) = MAXOPBLOCKS - OpBlocks
  <2>1. IsFiniteSet({p}) /\ Cardinality({p}) = 1
    BY FS_Singleton, ZenonT(60)
  <2>2. IsFiniteSet({p} \X T) /\ Cardinality({p} \X T) = 1 * Cardinality(T)
    BY <1>1, <2>1, FS_Product, ZenonT(60)
  <2> QED
    BY <1>1, <2>2
<1>3. {p} \X T \in SUBSET Reserved
  BY DEF Reserved
<1> QED
  BY <1>2, <1>3, ReservedFinite, FS_Subset

\* A call that neither starts nor ends, nor logs anything, changes no count.
LEMMA SameCalls ==
  ASSUME \A q \in Procs : InOp(q)' = InOp(q), touched' = touched
  PROVE  Active' = Active /\ Reserved' = Reserved
BY Zenon DEF Active, Reserved

-----------------------------------------------------------------------------
(* The invariant holds initially and every action preserves it. *)

\* A fresh disk and zeroed memory satisfy the invariant.
LEMMA InitInv == Init => IInv
<1> SUFFICES ASSUME Init PROVE IInv
  BY Zenon
<1> USE LoggedEmpty DEF Init
<1>1. TypeOK
  BY ZenonT(60) DEF TypeOK, PCs, Slots
<1>2. HeadInv /\ BootInv /\ RecoveryInv
  BY DEF HeadInv, BootInv, RecoveryInv, Booting
<1>3. OutstandingCounts /\ ReservationKept /\ IdleLogHasRoom
  BY Zenon DEF OutstandingCounts, ReservationKept, IdleLogHasRoom
<1>4. DirtyIsLogged /\ CleanIsOnDisk /\ UpInv
  BY Zenon DEF DirtyIsLogged, CleanIsOnDisk, UpInv
<1> QED
  BY <1>1, <1>2, <1>3, <1>4, Zenon DEF IInv

\* A crash loses the memory and keeps a header that can be installed.
LEMMA CrashInv == IInv /\ Crash => IInv'
<1> SUFFICES ASSUME IInv, Crash PROVE IInv'
  BY Zenon
<1> USE LoggedEmpty DEF Crash, disk
<1>1. TypeOK'
  BY Zenon DEF IInv, TypeOK, PCs
<1>2. HeadInv'
  BY Zenon DEF IInv, HeadInv, Injective
<1>3. BootInv' /\ RecoveryInv'
  BY Zenon DEF BootInv, RecoveryInv, Booting
<1>4. (OutstandingCounts /\ ReservationKept /\ IdleLogHasRoom)'
  BY Zenon DEF OutstandingCounts, ReservationKept, IdleLogHasRoom
<1>5. (DirtyIsLogged /\ CleanIsOnDisk /\ UpInv)'
  BY Zenon DEF DirtyIsLogged, CleanIsOnDisk, UpInv
<1> QED
  BY <1>1, <1>2, <1>3, <1>4, <1>5, Zenon DEF IInv

\* read_head copies the header.
LEMMA ReadHeadInv == IInv /\ read_head => IInv'
<1> SUFFICES ASSUME IInv, read_head PROVE IInv'
  BY Zenon
<1> USE DEF read_head, kmem, calls, bufs, disk
<1>1. TypeOK'
  BY Zenon DEF IInv, TypeOK
<1>2. HeadInv'
  BY Zenon DEF IInv, HeadInv, Injective
<1>3. BootInv' /\ RecoveryInv'
  BY DEF IInv, BootInv, RecoveryInv, Booting, TypeOK
<1>4. (OutstandingCounts /\ ReservationKept /\ IdleLogHasRoom)'
  BY Zenon DEF OutstandingCounts, ReservationKept, IdleLogHasRoom
<1>5. (DirtyIsLogged /\ CleanIsOnDisk /\ UpInv)'
  BY Zenon DEF DirtyIsLogged, CleanIsOnDisk, UpInv
<1> QED
  BY <1>1, <1>2, <1>3, <1>4, <1>5, Zenon DEF IInv

\* Recovery installs one block after the other.
LEMMA RecoverInstallInv == IInv /\ recover_install => IInv'
<1> SUFFICES ASSUME IInv, recover_install PROVE IInv'
  BY Zenon
<1> USE DEF recover_install, CopyHome, kmem, calls, bufs
<1>a. /\ lh \in Seq(Blocks) /\ Len(lh) \in Nat /\ rtail \in Nat
      /\ rtail < Len(lh) => lh[rtail + 1] \in Blocks /\ dlog[rtail + 1] \in Value
      /\ lh = dhead
  BY DEF IInv, TypeOK, HeadInv, RecoveryInv
<1>1. TypeOK'
  <2>1. CASE rtail < Len(lh)
    <3>1. cache' \in [Blocks -> Value] /\ home' \in [Blocks -> Value]
      BY <1>a, <2>1, ZenonT(60) DEF IInv, TypeOK
    <3>2. rtail' \in Nat /\ dirty' \subseteq Blocks
      BY <1>a, <2>1 DEF IInv, TypeOK
    <3> QED
      BY <2>1, <3>1, <3>2, Zenon DEF IInv, TypeOK
  <2>2. CASE ~(rtail < Len(lh))
    BY <1>a, <2>2, Zenon DEF IInv, TypeOK
  <2> QED
    BY <2>1, <2>2, Zenon
<1>2. HeadInv'
  BY SMTT(60) DEF IInv, HeadInv, Injective
<1>3. BootInv'
  BY <1>a, SMTT(60) DEF IInv, BootInv, Booting, TypeOK
<1>4. RecoveryInv'
  BY <1>a, SMTT(60) DEF IInv, RecoveryInv, HeadInv, Injective, TypeOK
<1>5. (OutstandingCounts /\ ReservationKept /\ IdleLogHasRoom)'
  BY SMTT(60) DEF OutstandingCounts, ReservationKept, IdleLogHasRoom
<1>6. (DirtyIsLogged /\ CleanIsOnDisk /\ UpInv)'
  BY Zenon DEF DirtyIsLogged, CleanIsOnDisk, UpInv
<1> QED
  BY <1>1, <1>2, <1>3, <1>4, <1>5, <1>6, Zenon DEF IInv

\* Clearing the header ends recovery with an empty, idle log.
LEMMA RecoverClearInv == IInv /\ recover_clear => IInv'
<1> SUFFICES ASSUME IInv, recover_clear PROVE IInv'
  BY Zenon
<1> USE LoggedEmpty DEF recover_clear, kmem, calls, bufs
<1>1. TypeOK'
  BY Zenon DEF IInv, TypeOK
<1>2. HeadInv'
  BY DEF HeadInv
<1>3. BootInv' /\ RecoveryInv'
  BY Zenon DEF BootInv, RecoveryInv, Booting
<1>q. /\ \A p \in Procs : pc[p] = "idle" /\ buf[p] = NoBlock /\ touched[p] = {}
      /\ syncing = {} /\ outstanding = 0 /\ ~committing /\ dirty = {} /\ cache = home
  BY Zenon DEF IInv, BootInv, Booting
<1>4. Active' = {} /\ Cardinality(Active') = 0
  BY <1>q, FS_EmptySet, ZenonT(60) DEF Active, InOp
<1>5. (OutstandingCounts /\ IdleLogHasRoom)'
  BY <1>q, <1>4 DEF OutstandingCounts, IdleLogHasRoom
<1>6. ReservationKept'
  <2>1. Reserved' = {}
    BY <1>4, Zenon DEF Reserved, Active
  <2> QED
    BY <2>1, FS_EmptySet DEF ReservationKept
<1>7. (DirtyIsLogged /\ CleanIsOnDisk)'
  BY <1>q, Zenon DEF DirtyIsLogged, CleanIsOnDisk
<1>8. UpInv'
  <2>1. CommitterInv' /\ SleepInv' /\ PhaseInv'
    BY <1>q, <1>4, Zenon DEF CommitterInv, SleepInv, PhaseInv, Committer, CommitPC
  <2>2. IsFiniteSet({}) /\ Cardinality({}) = 0
    BY FS_EmptySet, Zenon
  <2>3. CallInv'
    <3>1. \A p \in Procs : touched'[p] = {} /\ pc'[p] = "idle" /\ buf'[p] = NoBlock
      BY <1>q, Zenon
    <3>2. \A p \in Procs : IsFiniteSet(touched'[p]) /\ Cardinality(touched'[p]) = 0
      BY <3>1, <2>2, ZenonT(60)
    <3> QED
      BY <3>1, <3>2, SMTT(60) DEF CallInv
  <2> QED
    BY <2>1, <2>3, SMTT(60) DEF UpInv
<1> QED
  BY <1>1, <1>2, <1>3, <1>5, <1>6, <1>7, <1>8, Zenon DEF IInv

\* begin_op lets a call in only with room for all it may log, and otherwise
\* puts it to sleep where somebody will wake it.
LEMMA BeginOpInv ==
  ASSUME SyncUndisturbed', IInv, NEW p \in Procs, begin_op(p)
  PROVE  IInv'
<1> USE DEF begin_op, MustWait, boot, bufs, disk
<1>t. TypeOK
  BY Zenon DEF IInv
<1>u. mode = "up" /\ mode' = "up"
  BY Zenon DEF IInv
<1>i. /\ HeadInv /\ OutstandingCounts /\ ReservationKept /\ IdleLogHasRoom
      /\ DirtyIsLogged /\ CleanIsOnDisk /\ Injective(lh)
      /\ CommitterInv /\ CallInv /\ SleepInv /\ PhaseInv
  BY <1>u, Zenon DEF IInv, UpInv
<1>1. TypeOK'
  <2>1. \/ pc' = [pc EXCEPT ![p] = "sleep"] /\ outstanding' = outstanding
        \/ pc' = [pc EXCEPT ![p] = "op"] /\ outstanding' = outstanding + 1
    BY Zenon
  <2>2. outstanding' \in Nat
    BY <1>t, <2>1 DEF TypeOK
  <2>3. "sleep" \in PCs /\ "op" \in PCs
    BY Zenon DEF PCs
  <2>4. pc' \in [Procs -> PCs]
    BY <1>t, <2>1, <2>3, Zenon DEF TypeOK
  <2> QED
    BY <1>t, <1>u, <2>2, <2>4, Zenon DEF TypeOK
<1>2. HeadInv' /\ BootInv' /\ RecoveryInv' /\ DirtyIsLogged' /\ CleanIsOnDisk' /\ Injective(lh)'
  BY <1>i, <1>u, SMTT(60) DEF HeadInv, Injective, BootInv, RecoveryInv, Booting, DirtyIsLogged,
     CleanIsOnDisk, Logged
<1>p. pc \in [Procs -> PCs] /\ outstanding \in Nat /\ Len(lh) \in Nat
  BY <1>t DEF TypeOK
<1>3. CASE committing \/ Len(lh) + (outstanding + 1) * MAXOPBLOCKS > LOGSIZE
  <2>p. pc' = [pc EXCEPT ![p] = "sleep"] /\ outstanding' = outstanding
    BY <1>3, Zenon
  <2>q. \A q \in Procs : /\ InOp(q)' = InOp(q)
                         /\ Committer(q)' = Committer(q)
                         /\ q # p => pc'[q] = pc[q]
    BY <2>p, <1>p DEF InOp, Committer, CommitPC
  <2>1. Active' = Active /\ Reserved' = Reserved
    BY <2>q, SameCalls, Zenon
  <2>2. (OutstandingCounts /\ ReservationKept /\ IdleLogHasRoom)'
    BY <2>p, <2>1, <1>i, <1>u, Zenon DEF OutstandingCounts, ReservationKept, IdleLogHasRoom
  <2>3. CommitterInv'
    BY <2>q, <2>1, <1>i, SMTT(60) DEF CommitterInv
  <2>4. CallInv'
    BY <2>q, <2>p, <1>p, <1>i, ZenonT(60) DEF CallInv, InOp
  <2>5. SleepInv'
    <3>1. committing \/ outstanding > 0
      <4> SUFFICES ASSUME ~committing, outstanding = 0 PROVE FALSE
        BY <1>p
      <4>1. Len(lh) <= NLog \div 2
        BY <1>i, <1>u, Zenon DEF IdleLogHasRoom
      <4>2. Len(lh) + MAXOPBLOCKS > LOGSIZE
        BY <1>3
      <4>3. NLog \div 2 \in Int
        BY SMTT(60)
      <4> QED
        BY <4>1, <4>2, <4>3, <1>p, RoomAssumption
    <3> QED
      BY <3>1, <2>p, Zenon DEF SleepInv
  <2>6. PhaseInv'
    BY <2>p, <1>p, <1>i, SMTT(60) DEF PhaseInv, Copied
  <2> QED
    BY <1>1, <1>2, <2>2, <2>3, <2>4, <2>5, <2>6, Zenon DEF IInv, UpInv
<1>4. CASE ~(committing \/ Len(lh) + (outstanding + 1) * MAXOPBLOCKS > LOGSIZE)
  <2>p. pc' = [pc EXCEPT ![p] = "op"] /\ outstanding' = outstanding + 1
    BY <1>4, SMTT(60)
  <2>n. \A q \in Procs : ~Committer(q)
    <3> SUFFICES ASSUME NEW q \in Procs, Committer(q) PROVE FALSE
      BY Zenon
    <3>1. q \in syncing
      BY <1>4, <1>i, Zenon DEF CommitterInv
    <3>2. pc[p] \in {"idle", "begin"}
      BY Zenon
    <3>3. q # p
      BY <3>2 DEF Committer, CommitPC
    <3>4. pc'[p] = "op"
      BY <2>p, <1>p, Zenon
    <3>5. pc'[p] = "idle"
      BY <3>1, <3>3, Zenon DEF SyncUndisturbed
    <3> QED
      BY <3>4, <3>5
  <2>q. \A q \in Procs : /\ q # p => pc'[q] = pc[q] /\ (InOp(q)' = InOp(q))
                         /\ ~Committer(q)'
    BY <2>p, <2>n, <1>p, Zenon DEF InOp, Committer, CommitPC
  <2>a. p \notin Active /\ Active' = Active \cup {p}
    BY <2>p, <2>q, <1>p, SMTT(60) DEF Active, InOp
  <2>c. Cardinality(Active') = outstanding + 1
    BY <2>a, <1>i, <1>u, ActiveFinite, FS_AddElement, ZenonT(60) DEF OutstandingCounts
  <2>1. OutstandingCounts'
    BY <2>c, <2>p, Zenon DEF OutstandingCounts
  <2>2. ReservationKept'
    <3>1. (/\ IsFiniteSet(Reserved)
           /\ Cardinality(Reserved) \in Nat
           /\ Cardinality(Reserved) <= Cardinality(Active) * MAXOPBLOCKS)'
      BY ReservedFinite, PTL
    <3>2. Len(lh) + (outstanding + 1) * MAXOPBLOCKS <= LOGSIZE
      BY <1>4, <1>p
    <3> QED
      BY <3>1, <3>2, <2>c, <1>p DEF ReservationKept
  <2>3. IdleLogHasRoom'
    BY <2>p, <1>p DEF IdleLogHasRoom
  <2>4. CommitterInv'
    BY <2>q, <2>n, <1>i, <1>4, SMTT(60) DEF CommitterInv
  <2>5. CallInv'
    BY <2>q, <2>p, <1>p, <1>i, ZenonT(60) DEF CallInv, InOp
  <2>6. SleepInv'
    BY <2>p, <1>p DEF SleepInv
  <2>7. PhaseInv'
    BY <2>p, <1>p, <1>i, SMTT(60) DEF PhaseInv, Copied
  <2> QED
    BY <1>1, <1>2, <2>1, <2>2, <2>3, <2>4, <2>5, <2>6, <2>7, Zenon DEF IInv, UpInv
<1> QED
  BY <1>3, <1>4, Zenon

\* What the invariant says while the system is up.
LEMMA UpFacts ==
  ASSUME IInv, mode = "up"
  PROVE  /\ TypeOK /\ HeadInv /\ OutstandingCounts /\ ReservationKept /\ IdleLogHasRoom
         /\ DirtyIsLogged /\ CleanIsOnDisk /\ Injective(lh)
         /\ CommitterInv /\ CallInv /\ SleepInv /\ PhaseInv
BY SMTT(30) DEF IInv, UpInv

\* What is to be shown of a step that leaves the system up.
LEMMA UpSuffices ==
  ASSUME mode' = "up",
         TypeOK', HeadInv', OutstandingCounts', ReservationKept', IdleLogHasRoom',
         DirtyIsLogged', CleanIsOnDisk', Injective(lh)',
         CommitterInv', CallInv', SleepInv', PhaseInv'
  PROVE  IInv'
BY SMTT(60) DEF IInv, UpInv, BootInv, RecoveryInv, Booting

\* While a call is active nobody is committing.
LEMMA CallFacts ==
  ASSUME IInv, mode = "up", NEW p \in Procs, InOp(p)
  PROVE  /\ ~committing /\ p \notin syncing
         /\ \A q \in Procs : pc[q] \notin CommitPC \cup {"finish"}
         /\ outstanding > 0
<1>1. p \in Active
  BY SMTT(60) DEF Active
<1>2. outstanding = Cardinality(Active) /\ Cardinality(Active) # 0
  BY <1>1, UpFacts, ActiveFinite, FS_EmptySet, Zenon DEF OutstandingCounts
<1>3. CommitterInv
  BY UpFacts, SMTT(60)
<1> QED
  BY <1>1, <1>2, <1>3, ActiveFinite DEF CommitterInv, Committer

\* log_write's test of lh.n, made before it takes log.lock.
LEMMA LogWriteCheckInv ==
  ASSUME IInv, NEW p \in Procs, NEW b \in Blocks, log_write_check(p, b)
  PROVE  IInv'
<1> USE DEF log_write_check, TooBig, bufs, disk
<1>u. mode = "up"
  BY SMTT(60)
<1>t. TypeOK /\ HeadInv
  BY Zenon DEF IInv
<1>n. "logging" \in PCs
  BY SMTT(60) DEF PCs
<1>1. CASE mode' = "panic"
  <2>1. TypeOK' /\ HeadInv'
    BY <1>1, <1>t, Zenon DEF TypeOK, HeadInv, Injective
  <2> QED
    BY <1>1, <2>1, SMTT(60) DEF IInv, BootInv, RecoveryInv, Booting, OutstandingCounts,
       ReservationKept, IdleLogHasRoom, DirtyIsLogged, CleanIsOnDisk, UpInv
<1>2. CASE mode' # "panic"
  <2>p. /\ mode' = "up"
        /\ pc' = [pc EXCEPT ![p] = "logging"]
        /\ buf' = [buf EXCEPT ![p] = b]
    BY <1>2, ZenonT(60)
  <2>1. TypeOK'
    <3>1. pc' \in [Procs -> PCs] /\ buf' \in [Procs -> Blocks \cup {NoBlock}]
      BY <2>p, <1>t, <1>n, SMTT(60) DEF TypeOK
    <3> QED
      BY <3>1, <2>p, <1>t, SMTT(60) DEF TypeOK
  <2>2. HeadInv' /\ DirtyIsLogged' /\ CleanIsOnDisk' /\ Injective(lh)'
    BY <1>u, UpFacts, SMTT(60) DEF HeadInv, Injective, DirtyIsLogged, CleanIsOnDisk, Logged
  <2>q. \A q \in Procs : /\ InOp(q)' = InOp(q)
                         /\ Committer(q)' = Committer(q)
                         /\ q # p => pc'[q] = pc[q] /\ buf'[q] = buf[q]
    BY <2>p, <1>t, SMTT(60) DEF TypeOK, InOp, Committer, CommitPC
  <2>3. Active' = Active /\ Reserved' = Reserved
    BY <2>q, SameCalls, SMTT(60)
  <2>4. (OutstandingCounts /\ ReservationKept /\ IdleLogHasRoom)'
    BY <2>3, <1>u, UpFacts, SMTT(60) DEF OutstandingCounts, ReservationKept, IdleLogHasRoom
  <2>5. CommitterInv'
    BY <2>q, <2>3, <1>u, UpFacts, Zenon DEF CommitterInv
  <2>6. CallInv'
    BY <2>q, <2>p, <1>t, <1>u, UpFacts, ZenonT(60) DEF CallInv, TypeOK, InOp
  <2>7. SleepInv'
    BY <2>p, <1>t, <1>u, UpFacts, SMTT(60) DEF SleepInv, TypeOK
  <2>8. PhaseInv'
    BY <2>p, <1>t, <1>u, UpFacts, SMTT(60) DEF PhaseInv, Copied, TypeOK
  <2> QED
    BY <2>p, <2>1, <2>2, <2>4, <2>5, <2>6, <2>7, <2>8, UpSuffices, ZenonT(60)
<1> QED
  BY <1>1, <1>2, Zenon

\* Logging a block uses up one reserved block, unless it is absorbed.
LEMMA LogWriteReservation ==
  ASSUME IInv, NEW p \in Procs, NEW v \in Value, log_write(p, v)
  PROVE  ReservationKept'
<1> DEFINE b == buf[p]
<1> DEFINE c == Cardinality(touched[p])
<1>u. mode = "up" /\ pc[p] = "logging"
  BY Zenon DEF log_write, Absorb
<1>i. TypeOK /\ CallInv /\ ReservationKept
  BY <1>u, UpFacts, SMTT(30)
<1>b. b \in Blocks
  BY <1>u, <1>i, ZenonT(60) DEF CallInv
<1>h. lh \in Seq(Blocks) /\ Len(lh) \in Nat
  BY <1>i, SMTT(60) DEF TypeOK
<1>f. IsFiniteSet(touched[p]) /\ c \in Nat
  BY <1>i, FS_CardinalityType, ZenonT(60) DEF CallInv
<1>q. \A q \in Procs : /\ InOp(q)' = InOp(q)
                       /\ q # p => touched'[q] = touched[q]
  BY <1>u, <1>i, SMTT(60) DEF log_write, Absorb, TypeOK, InOp
<1>p. touched'[p] = touched[p] \cup {b} /\ InOp(p)
  BY <1>u, <1>i, Zenon DEF log_write, Absorb, TypeOK, InOp
<1>1. CASE b \in touched[p]
  <2>1. touched' = touched
    BY <1>1, <1>i DEF log_write, Absorb, TypeOK
  <2>2. lh' = lh
    BY <1>1, <1>i, ZenonT(60) DEF log_write, Absorb, CallInv
  <2>3. Reserved' = Reserved
    BY <2>1, <1>q, SameCalls, Zenon
  <2> QED
    BY <2>2, <2>3, <1>u, <1>i, SMTT(60) DEF ReservationKept
<1>2. CASE b \notin touched[p]
  <2>1. Cardinality(touched'[p]) = c + 1
    BY <1>2, <1>p, <1>f, FS_AddElement, ZenonT(60)
  <2>2. c + 1 <= MAXOPBLOCKS
    BY <2>1, <1>p, <1>u, <1>i, <1>f, SMTT(60) DEF CallInv
  <2>3. <<p, c + 1>> \in Reserved
    BY <2>2, <1>p, <1>f DEF Reserved
  <2>4. Reserved' = Reserved \ {<<p, c + 1>>}
    <3>1. ASSUME NEW q \in Procs, NEW k \in 1..MAXOPBLOCKS
          PROVE  <<q, k>> \in Reserved' <=> <<q, k>> \in Reserved /\ <<q, k>> # <<p, c + 1>>
      <4>1. CASE q = p
        <5>1. <<p, k>> \in Reserved <=> k > c
          BY <1>p, SMTT(60) DEF Reserved
        <5>2. <<p, k>> \in Reserved' <=> k > c + 1
          BY <1>p, <1>q, <2>1, ZenonT(60) DEF Reserved
        <5> QED
          BY <4>1, <5>1, <5>2, <1>f, SMTT(60)
      <4>2. CASE q # p
        BY <4>2, <1>q, SMTT(60) DEF Reserved
      <4> QED
        BY <4>1, <4>2, SMTT(60)
    <3>2. Reserved \subseteq Procs \X (1..MAXOPBLOCKS) /\ Reserved' \subseteq Procs \X (1..MAXOPBLOCKS)
      BY SMTT(60) DEF Reserved
    <3> QED
      BY <3>1, <3>2
  <2>5. Cardinality(Reserved') = Cardinality(Reserved) - 1
    <3>1. \A t \in Reserved : Cardinality(Reserved \ {t}) = Cardinality(Reserved) - 1
      BY ReservedFinite, FS_RemoveElement, ZenonT(60)
    <3> QED
      BY <3>1, <2>3, <2>4, ZenonT(60)
  <2>6. Len(lh') <= Len(lh) + 1 /\ Len(lh') \in Nat
    BY <1>b, <1>h, LoggedAppend, SMTT(60) DEF log_write, Absorb
  <2> QED
    BY <2>5, <2>6, <1>u, <1>i, <1>h, ReservedFinite DEF ReservationKept
<1> QED
  BY <1>1, <1>2, Zenon

\* log_write records the block, pins its buffer and keeps the header distinct.
LEMMA LogWriteInv ==
  ASSUME IInv, NEW p \in Procs, NEW v \in Value, log_write(p, v)
  PROVE  IInv'
<1> DEFINE b == buf[p]
<1>u. mode = "up" /\ mode' = "up" /\ pc[p] = "logging"
  BY Zenon DEF log_write, Absorb, boot
<1>t. TypeOK
  BY Zenon DEF IInv
<1>b. b \in Blocks
  BY <1>u, UpFacts, ZenonT(60) DEF CallInv
<1>l. /\ lh' \in Seq(Blocks) /\ Logged(lh') = Logged(lh) \cup {b}
      /\ Injective(lh')
  <2>1. lh \in Seq(Blocks) /\ Injective(lh)
    BY <1>t, <1>u, UpFacts, ZenonT(60) DEF TypeOK
  <2>2. CASE b \in Logged(lh)
    <3>1. lh' = lh
      BY <2>2, ZenonT(60) DEF log_write, Absorb
    <3>2. Logged(lh) = Logged(lh) \cup {b}
      BY <2>2, Zenon
    <3> QED
      BY <2>1, <3>1, <3>2, ZenonT(60)
  <2>3. CASE b \notin Logged(lh)
    <3>1. lh' = Append(lh, b)
      BY <2>3, ZenonT(60) DEF log_write, Absorb
    <3> QED
      BY <1>b, <2>1, <2>3, <3>1, LoggedAppend, InjectiveAppend, ZenonT(60)
  <2> QED
    BY <2>2, <2>3, ZenonT(60)
<1>n. InOp(p) /\ "op" \in PCs
  BY <1>u, Zenon DEF InOp, PCs
<1>c. /\ ~committing /\ outstanding > 0
      /\ \A q \in Procs : pc[q] \notin CommitPC \cup {"finish"}
  BY <1>n, <1>u, CallFacts, SMTT(60)
<1>q. \A q \in Procs : /\ q # p => /\ pc'[q] = pc[q] /\ touched'[q] = touched[q]
                                   /\ buf'[q] = buf[q]
                       /\ InOp(q)' = InOp(q)
                       /\ Committer(q)' = Committer(q)
  BY <1>u, <1>t, SMTT(60) DEF log_write, Absorb, TypeOK, InOp, Committer, CommitPC
<1>p. pc'[p] = "op" /\ touched'[p] = touched[p] \cup {b} /\ buf'[p] = NoBlock
  BY <1>t, SMTT(60) DEF log_write, Absorb, TypeOK
<1>1. TypeOK'
  <2>1. pc' \in [Procs -> PCs] /\ buf' \in [Procs -> Blocks \cup {NoBlock}]
    BY <1>t, <1>n, SMTT(60) DEF log_write, Absorb, TypeOK
  <2>2. cache' \in [Blocks -> Value] /\ dirty' \subseteq Blocks
    BY <1>t, <1>b, SMTT(60) DEF log_write, Absorb, TypeOK
  <2>3. touched' \in [Procs -> SUBSET Blocks]
    BY <1>t, <1>b, SMTT(60) DEF log_write, Absorb, TypeOK
  <2> QED
    BY <2>1, <2>2, <2>3, <1>l, <1>t, SMTT(60) DEF log_write, Absorb, TypeOK, boot, disk
<1>2. HeadInv'
  BY <1>u, UpFacts, SMTT(60) DEF log_write, Absorb, HeadInv, Injective, disk
<1>a. Active' = Active
  BY <1>q, SMTT(60) DEF Active
<1>3. OutstandingCounts' /\ IdleLogHasRoom'
  BY <1>a, <1>c, <1>u, UpFacts DEF OutstandingCounts, IdleLogHasRoom, log_write, Absorb
<1>4. ReservationKept'
  BY LogWriteReservation, SMTT(60)
<1>5. DirtyIsLogged' /\ Injective(lh)'
  BY <1>l, <1>u, UpFacts, SMTT(60) DEF DirtyIsLogged, log_write, Absorb, Injective
<1>6. CleanIsOnDisk'
  BY <1>t, <1>b, <1>u, UpFacts, SMTT(60) DEF CleanIsOnDisk, log_write, Absorb, disk, TypeOK
<1>7. CommitterInv'
  BY <1>q, <1>a, <1>u, UpFacts, Zenon DEF CommitterInv, log_write, Absorb
<1>8. CallInv'
  <2>1. IsFiniteSet(touched'[p]) /\ Cardinality(touched'[p]) <= OpBlocks
    <3>1. IsFiniteSet(touched[p]) /\ Cardinality(touched[p] \cup {b}) <= OpBlocks
      BY <1>u, UpFacts, ZenonT(60) DEF CallInv
    <3>2. IsFiniteSet(touched[p] \cup {b})
      BY <3>1, FS_AddElement, SMTT(60)
    <3> QED
      BY <3>1, <3>2, <1>p, ZenonT(60)
  <2>2. touched'[p] \subseteq Logged(lh')
    BY <1>p, <1>l, <1>u, UpFacts, ZenonT(60) DEF CallInv
  <2>3. ASSUME NEW q \in Procs, q # p
        PROVE  /\ IsFiniteSet(touched'[q]) /\ Cardinality(touched'[q]) <= OpBlocks
               /\ touched'[q] \subseteq Logged(lh')
               /\ ~InOp(q)' => touched'[q] = {}
               /\ pc'[q] = "logging" =>
                     buf'[q] \in Blocks /\ Cardinality(touched'[q] \cup {buf'[q]}) <= OpBlocks
               /\ pc'[q] # "logging" => buf'[q] = NoBlock
    BY <2>3, <1>q, <1>l, <1>u, UpFacts, ZenonT(60) DEF CallInv
  <2> QED
    BY <2>1, <2>2, <2>3, <1>p, <1>q, <1>n, ZenonT(60) DEF CallInv
<1>9. SleepInv'
  BY <1>c, SMTT(60) DEF SleepInv, log_write, Absorb
<1>10. PhaseInv'
  BY <1>c, <1>q, <1>p, <1>u, UpFacts, ZenonT(60) DEF PhaseInv, CommitPC, log_write, Absorb, disk
<1> QED
  BY <1>u, <1>1, <1>2, <1>3, <1>4, <1>5, <1>6, <1>7, <1>8, <1>9, <1>10, UpSuffices, SMTT(60)

\* The last end_op of a more than half full log starts the commit; any other
\* end_op wakes the sleepers.
LEMMA EndOpInv ==
  ASSUME IInv, NEW p \in Procs, end_op(p)
  PROVE  IInv'
<1>u. mode = "up" /\ pc[p] = "op"
  BY Zenon DEF end_op, DoCommit
<1>t. TypeOK
  BY Zenon DEF IInv
<1>n. InOp(p)
  BY <1>u, Zenon DEF InOp
<1>c. /\ ~committing /\ outstanding > 0 /\ p \notin syncing
      /\ \A q \in Procs : pc[q] \notin CommitPC \cup {"finish"}
  BY <1>n, <1>u, CallFacts, SMTT(60)
<1>m. mode' = "up" /\ outstanding' = outstanding - 1
  BY <1>c, <1>u, Zenon DEF end_op, DoCommit
<1>e. CommitEntry \in {"wlog", "finish"} /\ (CommitEntry = "finish" => lh = <<>>)
  BY <1>t, SMTT(60) DEF CommitEntry, TypeOK
<1>k. \A q \in Procs : Woken(q) \in PCs /\ Woken(q) # "sleep"
  BY <1>t, SMTT(60) DEF Woken, PCs, TypeOK
<1>x. \A q \in Procs : /\ q # p => \/ pc'[q] = pc[q]
                                   \/ pc[q] = "sleep" /\ pc'[q] = "begin"
                       /\ pc'[p] \in {"idle", "wlog", "finish"}
                       /\ q # p => touched'[q] = touched[q]
                       /\ touched'[p] = {}
  BY <1>c, <1>e, <1>t, SMTT(60) DEF end_op, DoCommit, Woken, TypeOK
<1>q. \A q \in Procs : q # p => InOp(q)' = InOp(q) /\ Committer(q)' = Committer(q)
  BY <1>x DEF InOp, Committer, CommitPC
<1>a. Active' = Active \ {p} /\ p \in Active
  BY <1>q, <1>x, <1>n, ZenonT(60) DEF Active, InOp
<1>o. outstanding = Cardinality(Active) /\ Cardinality(Active') = outstanding - 1
  BY <1>a, <1>u, UpFacts, ActiveFinite, FS_RemoveElement, ZenonT(60) DEF OutstandingCounts
<1>1. TypeOK'
  <2>1. pc' \in [Procs -> PCs]
    <3>1. CASE pc' = [pc EXCEPT ![p] = CommitEntry]
      BY <3>1, <1>e, <1>t, SMTT(60) DEF TypeOK, PCs, CommitPC
    <3>2. CASE pc' = [q \in Procs |-> IF q = p THEN "idle" ELSE Woken(q)]
      BY <3>2, <1>k, SMTT(60) DEF PCs
    <3> QED
      BY <3>1, <3>2, <1>c, SMTT(60) DEF end_op, DoCommit
  <2>2. touched' \in [Procs -> SUBSET Blocks] /\ tail' \in [Procs -> Nat]
    <3>1. touched' = [touched EXCEPT ![p] = {}]
      BY SMTT(60) DEF end_op
    <3>2. tail' = [tail EXCEPT ![p] = 0] \/ tail' = tail
      BY Zenon DEF end_op
    <3>3. tail' \in [Procs -> Nat]
      <4>t. tail \in [Procs -> Nat]
        BY <1>t, Zenon DEF TypeOK
      <4>1. CASE tail' = [tail EXCEPT ![p] = 0]
        BY <4>1, <4>t, SMTT(60)
      <4> QED
        BY <3>2, <4>1, <4>t, Zenon
    <3> QED
      BY <3>1, <3>3, <1>t, SMTT(60) DEF TypeOK
  <2>3. outstanding' \in Nat
    BY <1>m, <1>c, <1>t, SMTT(60) DEF TypeOK
  <2> QED
    BY <2>1, <2>2, <2>3, <1>m, <1>t, ZenonT(60) DEF end_op, DoCommit, TypeOK, bufs, disk
<1>2. HeadInv' /\ DirtyIsLogged' /\ CleanIsOnDisk' /\ Injective(lh)'
  BY <1>u, UpFacts, Zenon DEF end_op, DoCommit, HeadInv, Injective, DirtyIsLogged, CleanIsOnDisk, Logged, bufs, disk
<1>3. OutstandingCounts'
  BY <1>m, <1>o, Zenon DEF OutstandingCounts
<1>4. ReservationKept'
  <2>1. Reserved' \in SUBSET Reserved
    <3>1. ASSUME NEW q \in Procs, NEW k \in 1..MAXOPBLOCKS, <<q, k>> \in Reserved'
          PROVE  <<q, k>> \in Reserved
      <4>1. InOp(q)' /\ k > Cardinality(touched'[q])
        BY <3>1, SMTT(60) DEF Reserved
      <4>2. q # p
        BY <4>1, <1>x, Zenon DEF InOp
      <4> QED
        BY <4>1, <4>2, <1>x, <1>q, Zenon DEF Reserved
    <3>2. Reserved' \subseteq Procs \X (1..MAXOPBLOCKS)
      BY SMTT(60) DEF Reserved
    <3> QED
      BY <3>1, <3>2, SMTT(30)
  <2>2. Cardinality(Reserved') <= Cardinality(Reserved) /\ Cardinality(Reserved') \in Nat
    BY <2>1, ReservedFinite, FS_Subset, FS_CardinalityType, SMTT(60)
  <2>3. lh' = lh /\ Len(lh) \in Nat
    BY <1>t, SMTT(60) DEF end_op, DoCommit, TypeOK
  <2> QED
    BY <2>2, <2>3, <1>u, UpFacts, ReservedFinite DEF ReservationKept
<1>5. IdleLogHasRoom'
  <2>1. Len(lh) \in Nat /\ NLog \div 2 \in Int
    BY <1>t DEF TypeOK
  <2> QED
    BY <2>1, <1>c, <1>t, <1>m, SMTT(60) DEF end_op, DoCommit, IdleLogHasRoom, TypeOK
<1>6. CommitterInv'
  <2>1. CASE outstanding = 1 /\ Len(lh) > NLog \div 2
    <3>1. committing' /\ syncing' = syncing /\ pc'[p] = CommitEntry
      BY <2>1, <1>c, <1>t, Zenon DEF end_op, DoCommit, TypeOK
    <3>2. Committer(p)'
      BY <3>1, <1>e, SMTT(60) DEF Committer, CommitPC
    <3>3. Active' = {}
      BY <2>1, <1>o, <1>a, ActiveFinite, FS_Subset, FS_EmptySet
    <3>4. \A q \in Procs : Committer(q)' => q = p
      BY <1>q, <1>c, ZenonT(60) DEF Committer
    <3>5. syncing = {}
      BY <1>c, <1>u, <1>t, UpFacts, SMTT(60) DEF CommitterInv, Committer, TypeOK
    <3> QED
      BY <3>1, <3>2, <3>3, <3>4, <3>5, SMTT(60) DEF CommitterInv
  <2>2. CASE ~(outstanding = 1 /\ Len(lh) > NLog \div 2)
    <3>1. ~committing' /\ syncing' = syncing /\ pc'[p] = "idle"
      BY <2>2, <1>c, <1>t, SMTT(30) DEF end_op, DoCommit, TypeOK
    <3>4. \A q \in Procs : ~Committer(q)'
      BY <3>1, <1>q, <1>c, ZenonT(60) DEF Committer, CommitPC
    <3>5. syncing = {}
      BY <1>c, <1>u, <1>t, UpFacts, Zenon DEF CommitterInv, Committer, TypeOK
    <3> QED
      BY <3>1, <3>4, <3>5, SMTT(60) DEF CommitterInv
  <2> QED
    BY <2>1, <2>2, SMTT(60)
<1>7. CallInv'
  <2>1. buf' = buf /\ lh' = lh
    BY Zenon DEF end_op, DoCommit
  <2>2. IsFiniteSet({}) /\ Cardinality({}) = 0
    BY FS_EmptySet, Zenon
  <2>3. IsFiniteSet(touched'[p]) /\ Cardinality(touched'[p]) = 0
    BY <2>2, <1>x, ZenonT(60)
  <2>4. ASSUME NEW q \in Procs, q # p
        PROVE  /\ IsFiniteSet(touched'[q]) /\ Cardinality(touched'[q]) <= OpBlocks
               /\ touched'[q] \subseteq Logged(lh')
               /\ ~InOp(q)' => touched'[q] = {}
               /\ pc'[q] = "logging" =>
                     buf'[q] \in Blocks /\ Cardinality(touched'[q] \cup {buf'[q]}) <= OpBlocks
               /\ pc'[q] # "logging" => buf'[q] = NoBlock
    BY <2>1, <2>4, <1>q, <1>x, <1>u, UpFacts, ZenonT(60) DEF CallInv
  <2>5. buf'[p] = NoBlock /\ pc'[p] # "logging" /\ touched'[p] = {}
    BY <2>1, <1>x, <1>u, UpFacts, ZenonT(60) DEF CallInv
  <2>6. Cardinality(touched'[p]) <= OpBlocks /\ touched'[p] \subseteq Logged(lh')
    <3>1. Cardinality(touched'[p]) <= OpBlocks
      BY <2>3, SMTT(60)
    <3>2. touched'[p] \subseteq Logged(lh')
      BY <2>5, ZenonT(60)
    <3> QED
      BY <3>1, <3>2, SMTT(60)
  <2>7. ASSUME NEW q \in Procs
        PROVE  /\ IsFiniteSet(touched'[q]) /\ Cardinality(touched'[q]) <= OpBlocks
               /\ touched'[q] \subseteq Logged(lh')
               /\ ~InOp(q)' => touched'[q] = {}
               /\ pc'[q] = "logging" =>
                     buf'[q] \in Blocks /\ Cardinality(touched'[q] \cup {buf'[q]}) <= OpBlocks
               /\ pc'[q] # "logging" => buf'[q] = NoBlock
    BY <2>3, <2>4, <2>5, <2>6, ZenonT(60)
  <2> QED
    BY <2>7, ZenonT(60) DEF CallInv
<1>8. SleepInv'
  BY <1>c, <1>k, <1>t, SMTT(60) DEF end_op, DoCommit, SleepInv, TypeOK
<1>9. PhaseInv'
  <2>1. dhead = <<>> /\ dhead' = dhead /\ lh' = lh
    BY <1>c, <1>u, UpFacts, Zenon DEF PhaseInv, CommitPC, end_op, DoCommit, disk
  <2>2. \A q \in Procs : q # p => pc'[q] \notin CommitPC \cup {"finish"}
    BY <1>x, <1>c, ZenonT(60) DEF CommitPC
  <2>3. pc'[p] = "wlog" => tail'[p] = 0
    BY <1>c, <1>t, SMTT(60) DEF end_op, DoCommit, TypeOK
  <2>4. pc'[p] = "finish" => lh = <<>>
    BY <1>c, <1>e, <1>t, SMTT(60) DEF end_op, DoCommit, TypeOK
  <2>5. Len(lh') \in Nat
    BY <1>1, SMTT(60) DEF TypeOK
  <2> QED
    BY <2>1, <2>2, <2>3, <2>4, <2>5, <1>x, SMTT(60) DEF PhaseInv, CommitPC
<1> QED
  BY <1>m, <1>1, <1>2, <1>3, <1>4, <1>5, <1>6, <1>7, <1>8, <1>9, UpSuffices, SMTT(60)

\* A process may start a commit at any time while the others are idle.
LEMMA SysSyncInv ==
  ASSUME SyncUndisturbed', IInv, NEW p \in Procs, sys_sync(p)
  PROVE  IInv'
<1> USE DEF sys_sync, boot, bufs, disk
<1>u. mode = "up" /\ mode' = "up" /\ pc[p] = "idle"
  BY Zenon
<1>t. TypeOK
  BY Zenon DEF IInv
<1>s. \A q \in Procs : pc[q] = "idle" /\ (q # p => pc'[q] = "idle")
  <2> SUFFICES ASSUME NEW q \in Procs, q # p PROVE pc[q] = "idle" /\ pc'[q] = "idle"
    BY <1>u, Zenon
  <2>1. pc'[q] = "idle"
    BY Zenon DEF SyncUndisturbed
  <2> QED
    BY <2>1, <1>t, Zenon DEF TypeOK
<1>e. CommitEntry \in {"wlog", "finish"} /\ (CommitEntry = "finish" => lh = <<>>)
  BY <1>t, SMTT(60) DEF CommitEntry, TypeOK
<1>p. pc'[p] = CommitEntry /\ tail'[p] = 0
  BY <1>t, Zenon DEF TypeOK
<1>n. \A q \in Procs : ~Committer(q) /\ ~InOp(q) /\ ~InOp(q)' /\ (q # p => ~Committer(q)')
  BY <1>s, <1>p, <1>e, SMTT(60) DEF Committer, CommitPC, InOp
<1>1. TypeOK'
  <2>1. pc' \in [Procs -> PCs]
    BY <1>e, <1>t, SMTT(60) DEF TypeOK, PCs, CommitPC
  <2>2. tail' \in [Procs -> Nat] /\ syncing' \subseteq Procs
    BY <1>t, SMTT(60) DEF TypeOK
  <2> QED
    BY <2>1, <2>2, <1>u, <1>t, Zenon DEF TypeOK
<1>2. HeadInv' /\ DirtyIsLogged' /\ CleanIsOnDisk' /\ Injective(lh)'
  BY <1>u, UpFacts, SMTT(60) DEF HeadInv, Injective, DirtyIsLogged, CleanIsOnDisk, Logged
<1>q. \A q \in Procs : InOp(q)' = InOp(q)
  BY <1>n DEF InOp
<1>3. Active' = Active /\ Reserved' = Reserved /\ Active = {}
  <2>1. Active = {}
    BY <1>n, Zenon DEF Active
  <2> QED
    BY <2>1, <1>q, SameCalls, Zenon
<1>4. (OutstandingCounts /\ ReservationKept /\ IdleLogHasRoom)'
  BY <1>3, <1>u, UpFacts, SMTT(60) DEF OutstandingCounts, ReservationKept, IdleLogHasRoom
<1>5. CommitterInv'
  <2>1. Committer(p)' /\ p \in syncing' /\ syncing' \subseteq Syncers
    BY <1>p, <1>e, <1>u, UpFacts, SMTT(60) DEF Committer, CommitPC, CommitterInv
  <2>2. ~committing /\ syncing = {}
    BY <1>n, <1>u, <1>t, UpFacts, Zenon DEF CommitterInv, TypeOK
  <2> QED
    BY <2>1, <2>2, <1>3, <1>n, Zenon DEF CommitterInv
<1>6. CallInv'
  <2>1. \A q \in Procs : pc'[q] # "logging" /\ pc[q] # "logging"
    BY <1>s, <1>p, <1>e, SMTT(60)
  <2> QED
    BY <2>1, <1>q, <1>u, UpFacts, Zenon DEF CallInv
<1>7. SleepInv'
  <2>1. \A q \in Procs : pc'[q] # "sleep"
    BY <1>s, <1>p, <1>e, SMTT(60)
  <2> QED
    BY <2>1, Zenon DEF SleepInv
<1>8. PhaseInv'
  <2>1. dhead = <<>> /\ Len(lh) \in Nat
    BY <1>u, <1>s, <1>t, UpFacts DEF PhaseInv, TypeOK
  <2>2. \A q \in Procs : pc'[q] \notin {"whead", "install", "zero", "clear"}
    BY <1>s, <1>p, <1>e, SMTT(60)
  <2>3. \A q \in Procs : pc'[q] \in {"wlog", "finish"} => q = p
    BY <1>s, SMTT(60)
  <2> QED
    BY <2>1, <2>2, <2>3, <1>p, <1>e, SMTT(60) DEF PhaseInv
<1> QED
  BY <1>u, <1>1, <1>2, <1>4, <1>5, <1>6, <1>7, <1>8, UpSuffices, Zenon
=============================================================================
