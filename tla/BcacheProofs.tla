---------------------------- MODULE BcacheProofs ----------------------------
(***************************************************************************)
(* The buffer cache keeps its properties for any number of processes,      *)
(* buffers and blocks, and any number of buffers held by a process.        *)
(* CacheInv is inductive: one lemma for each action, one step in it for    *)
(* each conjunct.                                                          *)
(***************************************************************************)
EXTENDS Bcache, FiniteSetTheorems, TLAPS

\* What a process gets from bget is one pointer.
LEMMA OnePointer ==
  ASSUME TypeOK, NEW p \in Procs, NEW b \in Bufs, NEW x \in Blocks,
         want' = [want EXCEPT ![p][b] = x]
  PROVE  /\ want' \in [Procs -> [Bufs -> Blocks \cup {NoBlock}]]
         /\ \A q \in Procs, c \in Bufs :
              want'[q][c] = IF q = p /\ c = b THEN x ELSE want[q][c]
BY SMTT(60) DEF TypeOK

\* The users of a buffer are finitely many.
LEMMA UsersFinite ==
  ASSUME NEW b \in Bufs
  PROVE  IsFiniteSet(Users(b)) /\ Cardinality(Users(b)) \in Nat
BY FS_Subset, FS_CardinalityType, SetAssumption, Zenon DEF Users

\* Nothing is dirty, valid or locked at boot.
LEMMA InitInv == Init => CacheInv
<1> SUFFICES ASSUME Init PROVE CacheInv
  BY Zenon
<1>1. TypeOK
  BY SMTT(60) DEF Init, TypeOK, PCs
<1>u. \A p \in Procs, b \in Bufs : ~Using(p, b)
  BY Zenon DEF Init, Using
<1>2. OneCopy
  BY Zenon DEF Init, OneCopy
<1>3. RefsCounted
  <2> SUFFICES ASSUME NEW b \in Bufs PROVE refcnt[b] = Cardinality(Users(b))
    BY Zenon DEF RefsCounted
  <2>1. Users(b) = {}
    BY <1>u, Zenon DEF Users
  <2> QED
    BY <2>1, FS_EmptySet, Zenon DEF Init
<1>4. Coherent
  BY Zenon DEF Init, Coherent
<1>5. LocksMatch
  BY <1>u, Zenon DEF Init, LocksMatch
<1>6. SleepersAreAwaited
  BY DEF Init, SleepersAreAwaited
<1> QED
  BY <1>1, <1>2, <1>3, <1>4, <1>5, <1>6, Zenon DEF CacheInv

-----------------------------------------------------------------------------
(* bread *)

\* One more user of b: its count and its users grow together.
LEMMA UserJoins ==
  ASSUME CacheInv, NEW p \in Procs, NEW b \in Bufs, NEW x \in Blocks, ~Using(p, b),
         want' = [want EXCEPT ![p][b] = x], refcnt' = [refcnt EXCEPT ![b] = @ + 1]
  PROVE  RefsCounted'
<1>t. TypeOK
  BY Zenon DEF CacheInv
<1>w. \A q \in Procs, c \in Bufs : want'[q][c] = IF q = p /\ c = b THEN x ELSE want[q][c]
  BY <1>t, OnePointer, Zenon
<1>u. \A q \in Procs, c \in Bufs : Using(q, c)' <=> Using(q, c) \/ (q = p /\ c = b)
  BY <1>w, SetAssumption, SMTT(60) DEF Using
<1> SUFFICES ASSUME NEW c \in Bufs
             PROVE  refcnt'[c] = Cardinality(Users(c)')
  BY Zenon DEF RefsCounted
<1>1. CASE c = b
  <2>1. Users(c)' = Users(c) \cup {p} /\ p \notin Users(c)
    BY <1>1, <1>u, Zenon DEF Users
  <2>2. Cardinality(Users(c)') = Cardinality(Users(c)) + 1
    BY <2>1, UsersFinite, FS_AddElement, ZenonT(60)
  <2> QED
    BY <1>1, <2>2, Zenon DEF CacheInv, RefsCounted, TypeOK
<1>2. CASE c # b
  <2>1. Users(c)' = Users(c)
    BY <1>2, <1>u, Zenon DEF Users
  <2> QED
    BY <1>2, <2>1, Zenon DEF CacheInv, RefsCounted, TypeOK
<1> QED
  BY <1>1, <1>2, Zenon

\* A running process takes a pointer to a buffer that is now its block's and was
\* no other block's for any user, and goes to lock it.
LEMMA PointerTaken ==
  ASSUME CacheInv, NEW p \in Procs, NEW b \in Bufs, NEW x \in Blocks, pc[p] = "run",
         ~Using(p, b), blockno'[b] = x, want' = [want EXCEPT ![p][b] = x],
         cur' = [cur EXCEPT ![p] = b], pc' = [pc EXCEPT ![p] = "lock"],
         \A q \in Procs : Using(q, b) => blockno[b] = x,
         \A c \in Bufs : c # b => blockno'[c] = blockno[c] /\ valid'[c] = valid[c],
         owner[b] = Nobody \/ valid'[b] = valid[b],
         UNCHANGED <<owner, idequeue>>
  PROVE  LocksMatch' /\ SleepersAreAwaited'
<1>t. /\ TypeOK /\ LocksMatch /\ SleepersAreAwaited
      /\ cur \in [Procs -> Bufs] /\ owner \in [Bufs -> Procs \cup {Nobody}]
  BY Zenon DEF CacheInv, TypeOK
<1>w. \A q \in Procs, c \in Bufs : want'[q][c] = IF q = p /\ c = b THEN x ELSE want[q][c]
  BY <1>t, OnePointer, Zenon
<1>u. \A q \in Procs, c \in Bufs : Using(q, c)' <=> Using(q, c) \/ (q = p /\ c = b)
  BY <1>w, SetAssumption, SMTT(60) DEF Using
<1>q. /\ pc'[p] = "lock" /\ cur'[p] = b
      /\ \A q \in Procs : q # p => pc'[q] = pc[q] /\ cur'[q] = cur[q]
  BY <1>t, SMTT(60) DEF TypeOK
<1>1. \A q \in Procs, c \in Bufs : Using(q, c)' => blockno'[c] = want'[q][c]
  <2> SUFFICES ASSUME NEW q \in Procs, NEW c \in Bufs, Using(q, c)'
               PROVE  blockno'[c] = want'[q][c]
    BY Zenon
  <2>1. CASE q = p /\ c = b
    BY <1>w, <2>1, SMTT(60)
  <2>2. CASE ~(q = p /\ c = b)
    <3>1. Using(q, c) /\ want'[q][c] = want[q][c] /\ blockno[c] = want[q][c]
      BY <1>t, <1>u, <1>w, <2>2, SMTT(60) DEF LocksMatch
    <3> QED
      BY <3>1, Zenon
  <2> QED
    BY <2>1, <2>2, Zenon
<1>2. \A q \in Procs : pc'[q] \in {"lock", "lsleep", "io", "release"} => Using(q, cur[q])'
  <2> SUFFICES ASSUME NEW q \in Procs, pc'[q] \in {"lock", "lsleep", "io", "release"}
               PROVE  Using(q, cur[q])'
    BY Zenon
  <2>1. CASE q = p
    BY <1>q, <1>w, <2>1, SetAssumption, SMTT(60) DEF Using
  <2>2. CASE q # p
    BY <1>t, <1>q, <1>w, <2>2, SetAssumption, SMTT(60) DEF LocksMatch, Using
  <2> QED
    BY <2>1, <2>2, Zenon
<1>3. \A q \in Procs : pc'[q] = "io" => owner'[cur'[q]] = q
  BY <1>t, <1>q, SMTT(60) DEF LocksMatch
<1>4. ASSUME NEW c \in Bufs, owner'[c] # Nobody
      PROVE  /\ Using(owner[c], c)'
             /\ pc'[owner'[c]] \in {"lock", "lsleep", "release"} => cur'[owner'[c]] # c
  <2>1. owner'[c] = owner[c] /\ owner[c] \in Procs
    BY <1>t, <1>4, Zenon
  <2>2. Using(owner[c], c)
    BY <1>t, <1>4, <2>1, Zenon DEF LocksMatch
  <2>3. Using(owner[c], c)'
    BY <2>1, <2>2, <1>w, SetAssumption, SMTT(60) DEF Using
  <2>4. owner[c] = p => c # b
    BY <2>2, Zenon
  <2>5. pc'[owner'[c]] \in {"lock", "lsleep", "release"} => cur'[owner'[c]] # c
    BY <1>t, <1>4, <1>q, <2>1, <2>4, SMTT(60) DEF LocksMatch
  <2> QED
    BY <2>3, <2>5, Zenon
<1>5. ASSUME NEW c \in Bufs, owner'[c] # Nobody, ~valid'[c]
      PROVE  pc'[owner'[c]] = "io" /\ cur'[owner'[c]] = c
  <2>1. owner'[c] = owner[c] /\ owner[c] \in Procs /\ owner[c] # Nobody /\ valid'[c] = valid[c]
    BY <1>t, <1>5, Zenon
  <2>2. pc[owner[c]] = "io" /\ cur[owner[c]] = c
    BY <1>t, <1>5, <2>1, Zenon DEF LocksMatch
  <2>3. owner[c] # p
    BY <2>2, SMTT(60)
  <2> QED
    BY <1>q, <2>1, <2>2, <2>3, Zenon
<1>6. LocksMatch'
  BY <1>1, <1>2, <1>3, <1>4, <1>5, Zenon DEF LocksMatch
<1>7. \A q \in Procs : pc'[q] = "lsleep" => owner'[cur'[q]] \notin {Nobody, q}
  BY <1>t, <1>q, SMTT(60) DEF SleepersAreAwaited
<1>8. \A q \in Procs : pc'[q] = "io" => \E i \in 1..Len(idequeue') : idequeue'[i] = cur'[q]
  BY <1>t, <1>q, SMTT(60) DEF SleepersAreAwaited
<1>9. \A i \in 1..Len(idequeue') :
        /\ \E q \in Procs : pc'[q] = "io" /\ cur'[q] = idequeue'[i]
        /\ \A j \in 1..Len(idequeue') : i # j => idequeue'[i] # idequeue'[j]
  BY <1>t, <1>q, SMTT(60) DEF SleepersAreAwaited
<1>10. SleepersAreAwaited'
  BY <1>7, <1>8, <1>9, Zenon DEF SleepersAreAwaited
<1> QED
  BY <1>6, <1>10, Zenon

\* A process does not use the buffer of a block it may read: what it holds is of
\* lower rank.
LEMMA NotHeldYet ==
  ASSUME CacheInv, NEW p \in Procs, NEW b \in Bufs, NEW x \in Blocks,
         MayRead(p, x), blockno[b] = x
  PROVE  ~Using(p, b)
<1> SUFFICES ASSUME Using(p, b) PROVE FALSE
  BY Zenon
<1>1. want[p][b] = x
  BY Zenon DEF CacheInv, LocksMatch
<1>2. Rank[x] < Rank[x] /\ Rank[x] \in Nat
  BY <1>1, SetAssumption, Zenon DEF MayRead
<1> QED
  BY <1>2

\* bget finds the block cached.
LEMMA HitStep ==
  ASSUME CacheInv, NEW p \in Procs, NEW x \in Blocks, bget_hit(p, x)
  PROVE  CacheInv'
<1> PICK b \in Bufs : /\ blockno[b] = x
                      /\ refcnt' = [refcnt EXCEPT ![b] = @ + 1]
                      /\ cur' = [cur EXCEPT ![p] = b]
                      /\ want' = [want EXCEPT ![p][b] = x]
  BY ZenonT(60) DEF bget_hit, Cached
<1>0. /\ MayRead(p, x) /\ pc[p] = "run" /\ pc' = [pc EXCEPT ![p] = "lock"]
      /\ UNCHANGED <<blockno, valid, dirty, data, owner, idequeue, disk, written>>
  BY Zenon DEF bget_hit, MayRead
<1>n. ~Using(p, b)
  BY <1>0, NotHeldYet, Zenon
<1>t. TypeOK
  BY Zenon DEF CacheInv
<1>1. TypeOK'
  <2>1. want' \in [Procs -> [Bufs -> Blocks \cup {NoBlock}]]
    BY <1>t, OnePointer, Zenon
  <2>2. refcnt' \in [Bufs -> Nat] /\ pc' \in [Procs -> PCs] /\ cur' \in [Procs -> Bufs]
    BY <1>0, <1>t, SMTT(60) DEF TypeOK, PCs
  <2> QED
    BY <1>0, <1>t, <2>1, <2>2, Zenon DEF TypeOK
<1>2. OneCopy' /\ Coherent'
  BY <1>0, Zenon DEF CacheInv, OneCopy, Coherent
<1>3. RefsCounted'
  BY <1>n, UserJoins, ZenonT(60)
<1>4. LocksMatch' /\ SleepersAreAwaited'
  <2>1. /\ blockno'[b] = x /\ \A q \in Procs : Using(q, b) => blockno[b] = x
        /\ \A c \in Bufs : c # b => blockno'[c] = blockno[c] /\ valid'[c] = valid[c]
        /\ owner[b] = Nobody \/ valid'[b] = valid[b]
    BY <1>0, Zenon
  <2> QED
    BY <1>0, <1>n, <2>1, PointerTaken, ZenonT(60)
<1> QED
  BY <1>1, <1>2, <1>3, <1>4, Zenon DEF CacheInv

\* A recyclable buffer is nobody's.
LEMMA RecyclableUnused ==
  ASSUME CacheInv, NEW b \in Bufs, refcnt[b] = 0
  PROVE  (\A q \in Procs : ~Using(q, b)) /\ owner[b] = Nobody
<1>1. Users(b) = {}
  BY UsersFinite, FS_EmptySet, Zenon DEF CacheInv, RefsCounted
<1>2. \A q \in Procs : ~Using(q, b)
  BY <1>1, Zenon DEF Users
<1>3. owner[b] = Nobody
  BY <1>2, SMTT(60) DEF CacheInv, LocksMatch, TypeOK
<1> QED
  BY <1>2, <1>3, Zenon

\* The buffers keep their users and blocks when a caller of bread or bwrite
\* goes on to lock, read or write one, or panics.
LEMMA SamePointers ==
  ASSUME CacheInv, UNCHANGED <<blockno, refcnt, want>>
  PROVE  /\ OneCopy' /\ RefsCounted'
         /\ \A q \in Procs, c \in Bufs : Using(q, c)' <=> Using(q, c)
BY Zenon DEF CacheInv, OneCopy, RefsCounted, Users, Using

\* bget recycles a buffer, or panics for want of one.
LEMMA RecycleStep ==
  ASSUME CacheInv, NEW p \in Procs, NEW x \in Blocks, bget_recycle(p, x)
  PROVE  CacheInv'
<1>0. /\ pc[p] = "run" /\ \A b \in Bufs : blockno[b] # x
      /\ UNCHANGED <<dirty, data, owner, idequeue, disk, written>>
  BY Zenon DEF bget_recycle, Cached, MayRead
<1>t. TypeOK
  BY Zenon DEF CacheInv
<1>a. CASE \A b \in Bufs : ~Recyclable(b)
  <2>0. /\ pc' = [pc EXCEPT ![p] = "panic"]
        /\ UNCHANGED <<blockno, valid, refcnt, cur, want>>
    BY <1>a, Zenon DEF bget_recycle
  <2>1. TypeOK'
    BY <1>0, <2>0, Zenon DEF CacheInv, TypeOK, PCs
  <2>2. OneCopy' /\ RefsCounted'
    BY <2>0, SamePointers, Zenon
  <2>5. Coherent'
    BY <1>0, <2>0, Zenon DEF CacheInv, Coherent
  <2>3. LocksMatch'
    BY <1>0, <2>0, SMTT(60) DEF CacheInv, LocksMatch, TypeOK, Using
  <2>4. SleepersAreAwaited'
    BY <1>0, <2>0, SMTT(60) DEF CacheInv, SleepersAreAwaited, TypeOK
  <2> QED
    BY <2>1, <2>2, <2>3, <2>4, <2>5, Zenon DEF CacheInv
<1>b. CASE ~\A b \in Bufs : ~Recyclable(b)
  <2> PICK b \in Bufs : /\ refcnt[b] = 0 /\ ~dirty[b]
                        /\ blockno' = [blockno EXCEPT ![b] = x]
                        /\ valid' = [valid EXCEPT ![b] = FALSE]
                        /\ refcnt' = [refcnt EXCEPT ![b] = 1]
                        /\ cur' = [cur EXCEPT ![p] = b]
                        /\ want' = [want EXCEPT ![p][b] = x]
    BY <1>b, Zenon DEF bget_recycle, Recyclable
  <2>0. pc' = [pc EXCEPT ![p] = "lock"]
    BY <1>b, Zenon DEF bget_recycle
  <2>u. (\A q \in Procs : ~Using(q, b)) /\ owner[b] = Nobody
    BY RecyclableUnused, Zenon
  <2>1. TypeOK'
    <3>1. want' \in [Procs -> [Bufs -> Blocks \cup {NoBlock}]]
      BY <1>t, OnePointer, Zenon
    <3>2. refcnt' \in [Bufs -> Nat] /\ pc' \in [Procs -> PCs]
      BY <1>t, <2>0, SMTT(60) DEF TypeOK, PCs
    <3> QED
      BY <1>0, <1>t, <3>1, <3>2, Zenon DEF TypeOK
  <2>2. OneCopy'
    BY <1>0, Zenon DEF CacheInv, OneCopy, TypeOK
  <2>3. RefsCounted'
    <3>1. refcnt' = [refcnt EXCEPT ![b] = @ + 1]
      OBVIOUS
    <3> QED
      BY <2>u, <3>1, UserJoins, Zenon
  <2>4. Coherent'
    <3>1. \A c \in Bufs : dirty'[c] => valid'[c]
      BY <1>0, Zenon DEF CacheInv, Coherent, TypeOK
    <3>2. \A c \in Bufs : valid'[c] => blockno'[c] # NoBlock /\ data'[c] = written'[blockno'[c]]
      BY <1>0, Zenon DEF CacheInv, Coherent, TypeOK
    <3>3. ASSUME NEW y \in Blocks, \A c \in Bufs : blockno'[c] = y => ~dirty'[c]
          PROVE  disk'[y] = written'[y]
      <4>1. \A c \in Bufs : blockno[c] = y => ~dirty[c]
        BY <1>0, <3>3, Zenon DEF CacheInv, TypeOK
      <4> QED
        BY <1>0, <4>1, Zenon DEF CacheInv, Coherent
    <3> QED
      BY <3>1, <3>2, <3>3, Zenon DEF Coherent
  <2>5. LocksMatch' /\ SleepersAreAwaited'
    <3>1. /\ blockno'[b] = x
          /\ \A c \in Bufs : c # b => blockno'[c] = blockno[c] /\ valid'[c] = valid[c]
      BY <1>t, SMTT(60) DEF TypeOK
    <3>2. ~Using(p, b) /\ \A q \in Procs : Using(q, b) => blockno[b] = x
      BY <2>u, Zenon
    <3>3. owner[b] = Nobody \/ valid'[b] = valid[b]
      BY <2>u, Zenon
    <3> QED
      BY <1>0, <2>0, <3>1, <3>2, <3>3, PointerTaken, ZenonT(60)
  <2> QED
    BY <2>1, <2>2, <2>3, <2>4, <2>5, Zenon DEF CacheInv
<1> QED
  BY <1>a, <1>b, Zenon

\* A process that has the lock of a buffer nobody waits to have read or written
\* queues it for the disk.
LEMMA Queued ==
  ASSUME CacheInv, NEW p \in Procs, NEW b \in Bufs,
         pc[p] \in {"lock", "run"}, pc' = [pc EXCEPT ![p] = "io"],
         cur' = [cur EXCEPT ![p] = b],
         owner' = [owner EXCEPT ![b] = p], idequeue' = Append(idequeue, b),
         \A q \in Procs : pc[q] = "io" => cur[q] # b
  PROVE  SleepersAreAwaited'
<1>0. /\ idequeue \in Seq(Bufs) /\ pc \in [Procs -> PCs] /\ owner \in [Bufs -> Procs \cup {Nobody}]
      /\ cur \in [Procs -> Bufs] /\ SleepersAreAwaited
  BY Zenon DEF CacheInv, TypeOK
<1>1. /\ Len(idequeue') = Len(idequeue) + 1 /\ Len(idequeue) \in Nat
      /\ idequeue'[Len(idequeue) + 1] = b
      /\ \A i \in 1..Len(idequeue) : idequeue'[i] = idequeue[i]
  BY <1>0, SMTT(60)
<1>q. /\ pc'[p] = "io" /\ cur'[p] = b
      /\ \A q \in Procs : q # p => pc'[q] = pc[q] /\ cur'[q] = cur[q]
  BY <1>0, SMTT(60)
<1>2. \A i \in 1..Len(idequeue) : idequeue[i] # b
  BY <1>0, SMTT(60) DEF SleepersAreAwaited
<1>3. ASSUME NEW q \in Procs, pc'[q] = "lsleep"
      PROVE  owner'[cur'[q]] \notin {Nobody, q}
  <2>1. q # p /\ pc[q] = "lsleep" /\ cur'[q] = cur[q] /\ cur[q] \in Bufs
    BY <1>0, <1>q, <1>3, SMTT(60)
  <2>2. owner[cur[q]] \notin {Nobody, q}
    BY <1>0, <2>1, Zenon DEF SleepersAreAwaited
  <2> QED
    BY <1>0, <2>1, <2>2, SetAssumption, SMTT(60)
<1>4. ASSUME NEW q \in Procs, pc'[q] = "io"
      PROVE  \E i \in 1..Len(idequeue') : idequeue'[i] = cur'[q]
  <2>1. CASE q = p
    BY <1>1, <1>q, <2>1, SMTT(60)
  <2>2. CASE q # p
    <3>1. PICK i \in 1..Len(idequeue) : idequeue[i] = cur[q]
      BY <1>0, <1>4, <1>q, <2>2, Zenon DEF SleepersAreAwaited
    <3> QED
      BY <1>1, <1>q, <2>2, <3>1, SMTT(60)
  <2> QED
    BY <2>1, <2>2, Zenon
<1>5. ASSUME NEW i \in 1..Len(idequeue')
      PROVE  /\ \E q \in Procs : pc'[q] = "io" /\ cur'[q] = idequeue'[i]
             /\ \A j \in 1..Len(idequeue') : i # j => idequeue'[i] # idequeue'[j]
  <2>1. CASE i = Len(idequeue) + 1
    BY <1>q, <1>1, <1>2, <2>1, SMTT(60)
  <2>2. CASE i # Len(idequeue) + 1
    <3>1. i \in 1..Len(idequeue)
      BY <1>1, <2>2
    <3>2. PICK q \in Procs : pc[q] = "io" /\ cur[q] = idequeue[i]
      BY <1>0, <3>1, Zenon DEF SleepersAreAwaited
    <3>3. pc'[q] = "io" /\ cur'[q] = idequeue'[i]
      BY <1>q, <1>1, <3>1, <3>2, SMTT(60)
    <3>4. \A j \in 1..Len(idequeue') : i # j => idequeue'[i] # idequeue'[j]
      BY <1>0, <1>1, <1>2, <3>1, SMTT(60) DEF SleepersAreAwaited
    <3> QED
      BY <3>3, <3>4, Zenon
  <2> QED
    BY <2>1, <2>2, Zenon
<1> QED
  BY <1>3, <1>4, <1>5, Zenon DEF SleepersAreAwaited

\* acquiresleep: the lock is free or the process sleeps; bread then returns or
\* queues the buffer for the disk.
LEMMA AcquireStep ==
  ASSUME CacheInv, NEW p \in Procs, acquiresleep(p)
  PROVE  CacheInv'
<1> DEFINE b == cur[p]
<1>0. /\ b \in Bufs /\ pc[p] = "lock"
      /\ UNCHANGED <<blockno, refcnt, valid, dirty, data, disk, cur, want, written>>
  BY Zenon DEF acquiresleep, CacheInv, TypeOK, fields
<1>t. /\ LocksMatch /\ SleepersAreAwaited /\ pc \in [Procs -> PCs] /\ cur \in [Procs -> Bufs]
      /\ owner \in [Bufs -> Procs \cup {Nobody}]
  BY Zenon DEF CacheInv, TypeOK
<1>1. OneCopy' /\ RefsCounted' /\ \A q \in Procs, c \in Bufs : Using(q, c)' <=> Using(q, c)
  BY <1>0, SamePointers, Zenon
<1>2. Coherent'
  BY <1>0, Zenon DEF CacheInv, Coherent
<1>3. Using(p, b) /\ owner[b] # p
  BY <1>0, <1>t, SetAssumption, SMTT(60) DEF LocksMatch
<1>a. CASE owner[b] # Nobody
  <2>0. pc' = [pc EXCEPT ![p] = "lsleep"] /\ UNCHANGED <<owner, idequeue>>
    BY <1>a, Zenon DEF acquiresleep
  <2>1. TypeOK'
    BY <1>0, <2>0, Zenon DEF CacheInv, TypeOK, PCs
  <2>2. LocksMatch'
    BY <1>0, <1>t, <1>3, <2>0, SMTT(60) DEF LocksMatch, Using
  <2>3. SleepersAreAwaited'
    BY <1>0, <1>a, <1>t, <1>3, <2>0, SMTT(60) DEF SleepersAreAwaited
  <2> QED
    BY <1>1, <1>2, <2>1, <2>2, <2>3, Zenon DEF CacheInv
<1>b. CASE owner[b] = Nobody /\ valid[b]
  <2>0. /\ pc' = [pc EXCEPT ![p] = "run"] /\ owner' = [owner EXCEPT ![b] = p]
        /\ UNCHANGED idequeue
    BY <1>b, Zenon DEF acquiresleep
  <2>1. TypeOK'
    BY <1>0, <2>0, Zenon DEF CacheInv, TypeOK, PCs
  <2>2. LocksMatch'
    BY <1>0, <1>b, <1>t, <1>3, <2>0, SetAssumption, SMTT(60) DEF LocksMatch, Using
  <2>3. SleepersAreAwaited'
    BY <1>0, <1>b, <1>t, <2>0, SetAssumption, SMTT(60) DEF SleepersAreAwaited
  <2> QED
    BY <1>1, <1>2, <2>1, <2>2, <2>3, Zenon DEF CacheInv
<1>c. CASE owner[b] = Nobody /\ ~valid[b]
  <2>0. /\ pc' = [pc EXCEPT ![p] = "io"] /\ owner' = [owner EXCEPT ![b] = p]
        /\ idequeue' = Append(idequeue, b)
    BY <1>c, Zenon DEF acquiresleep
  <2>1. TypeOK'
    BY <1>0, <2>0, SMTT(60) DEF CacheInv, TypeOK, PCs
  <2>2. LocksMatch'
    BY <1>0, <1>c, <1>t, <1>3, <2>0, SetAssumption, SMTT(60) DEF LocksMatch, Using
  <2>3. SleepersAreAwaited'
    <3>1. \A q \in Procs : pc[q] = "io" => cur[q] # b
      BY <1>c, <1>t, SetAssumption, SMTT(60) DEF LocksMatch
    <3>2. cur' = [cur EXCEPT ![p] = b]
      BY <1>0, <1>t, SMTT(60)
    <3> QED
      BY <1>0, <2>0, <3>1, <3>2, Queued, ZenonT(60)
  <2> QED
    BY <1>1, <1>2, <2>1, <2>2, <2>3, Zenon DEF CacheInv
<1>d. valid[b] \in BOOLEAN
  BY <1>0, Zenon DEF CacheInv, TypeOK
<1> QED
  BY <1>a, <1>b, <1>c, <1>d, Zenon

-----------------------------------------------------------------------------
(* The disk *)

\* ideintr takes the first buffer off the queue and wakes the one process
\* that waits for it.
LEMMA Dequeued ==
  ASSUME CacheInv, idequeue # <<>>, idequeue' = Tail(idequeue),
         pc' = IoDone(Head(idequeue)), UNCHANGED <<cur, owner>>
  PROVE  SleepersAreAwaited'
<1> DEFINE b == Head(idequeue)
<1>0. /\ idequeue \in Seq(Bufs) /\ pc \in [Procs -> PCs]
      /\ \A q \in Procs : pc'[q] = IF pc[q] = "io" /\ cur[q] = b THEN "run" ELSE pc[q]
  BY Zenon DEF CacheInv, TypeOK, IoDone
<1>1. /\ Len(idequeue) \in Nat /\ Len(idequeue) >= 1 /\ b = idequeue[1]
      /\ Len(idequeue') = Len(idequeue) - 1
      /\ \A i \in 1..Len(idequeue') : i + 1 \in 1..Len(idequeue) /\ idequeue'[i] = idequeue[i + 1]
  BY <1>0
<1> HIDE DEF b
<1>2. \A i, j \in 1..Len(idequeue) : i # j => idequeue[i] # idequeue[j]
  BY Zenon DEF CacheInv, SleepersAreAwaited
<1>3. \A q \in Procs : pc'[q] = "lsleep" => owner'[cur'[q]] \notin {Nobody, q}
  BY <1>0, Zenon DEF CacheInv, SleepersAreAwaited
<1>4. ASSUME NEW q \in Procs, pc'[q] = "io"
      PROVE  \E i \in 1..Len(idequeue') : idequeue'[i] = cur'[q]
  <2>1. pc[q] = "io" /\ cur[q] # b
    BY <1>0, <1>4, Zenon
  <2>2. PICK i \in 1..Len(idequeue) : idequeue[i] = cur[q]
    BY <2>1, SMTT(60) DEF CacheInv, SleepersAreAwaited
  <2>3. i # 1
    BY <1>1, <2>1, <2>2, Zenon
  <2>4. i - 1 \in 1..Len(idequeue') /\ i = (i - 1) + 1
    BY <1>1, <2>2, <2>3
  <2>5. idequeue'[i - 1] = cur'[q]
    BY <1>1, <2>2, <2>4, Zenon
  <2> QED
    BY <2>4, <2>5, ZenonT(60)
<1>5. ASSUME NEW i \in 1..Len(idequeue')
      PROVE  /\ \E q \in Procs : pc'[q] = "io" /\ cur'[q] = idequeue'[i]
             /\ \A j \in 1..Len(idequeue') : i # j => idequeue'[i] # idequeue'[j]
  <2>1. PICK q \in Procs : pc[q] = "io" /\ cur[q] = idequeue[i + 1]
    BY <1>1, Zenon DEF CacheInv, SleepersAreAwaited
  <2>2. idequeue[i + 1] # b
    BY <1>1, <1>2
  <2>3. pc'[q] = "io" /\ cur'[q] = idequeue'[i]
    BY <1>0, <1>1, <2>1, <2>2, SMTT(60)
  <2>4. \A j \in 1..Len(idequeue') : i # j => idequeue'[i] # idequeue'[j]
    BY <1>1, <1>2
  <2> QED
    BY <2>3, <2>4, Zenon
<1> QED
  BY <1>3, <1>4, <1>5, ZenonT(60) DEF SleepersAreAwaited

\* The disk interrupt makes the buffer and the disk agree.
LEMMA InterruptStep ==
  ASSUME CacheInv, NEW b \in Bufs, ideintr(b)
  PROVE  CacheInv'
<1>0. /\ idequeue # <<>> /\ b = Head(idequeue) /\ idequeue' = Tail(idequeue)
      /\ valid' = [valid EXCEPT ![b] = TRUE] /\ dirty' = [dirty EXCEPT ![b] = FALSE]
      /\ pc' = IoDone(b)
      /\ UNCHANGED <<blockno, refcnt, owner, cur, want, written>>
  BY Zenon DEF ideintr
<1>p. \A q \in Procs : pc'[q] = IF pc[q] = "io" /\ cur[q] = b THEN "run" ELSE pc[q]
  BY <1>0, SMTT(60) DEF IoDone
<1>t. /\ TypeOK /\ LocksMatch /\ valid \in [Bufs -> BOOLEAN]
      /\ owner \in [Bufs -> Procs \cup {Nobody}] /\ cur \in [Procs -> Bufs]
  BY Zenon DEF CacheInv, TypeOK
<1>w. PICK w \in Procs : pc[w] = "io" /\ cur[w] = b
  <2>1. 1 \in 1..Len(idequeue) /\ idequeue[1] = b
    BY <1>0, SMTT(60) DEF CacheInv, TypeOK
  <2> QED
    BY <2>1, Zenon DEF CacheInv, SleepersAreAwaited
<1>x. blockno[b] \in Blocks /\ owner[b] = w
  BY <1>t, <1>w, SMTT(60) DEF LocksMatch, Using, TypeOK
<1>y. dirty[b] => valid[b] /\ data[b] = written[blockno[b]]
  BY SMTT(60) DEF CacheInv, Coherent
<1>z. ~dirty[b] => disk[blockno[b]] = written[blockno[b]]
  BY <1>x, SetAssumption, Zenon DEF CacheInv, Coherent, OneCopy
<1>1. TypeOK'
  <2>1. idequeue' \in Seq(Bufs)
    BY <1>0, SMTT(60) DEF CacheInv, TypeOK
  <2>2. pc' \in [Procs -> PCs]
    BY <1>0, Zenon DEF CacheInv, TypeOK, IoDone, PCs
  <2>3. disk' \in [Blocks -> Value] /\ data' \in [Bufs -> Value]
    BY <1>x, ZenonT(60) DEF ideintr, CacheInv, TypeOK
  <2> QED
    BY <1>0, <2>1, <2>2, <2>3, ZenonT(60) DEF CacheInv, TypeOK
<1>2. OneCopy' /\ RefsCounted' /\ \A q \in Procs, c \in Bufs : Using(q, c)' <=> Using(q, c)
  BY <1>0, SamePointers, Zenon
<1>4. Coherent'
  <2>1. \A c \in Bufs : dirty'[c] => valid'[c]
    BY <1>0, Zenon DEF CacheInv, Coherent, TypeOK
  <2>2. ASSUME NEW c \in Bufs, valid'[c]
        PROVE  blockno'[c] # NoBlock /\ data'[c] = written'[blockno'[c]]
    <3>1. CASE c = b
      <4>1. data'[b] = written[blockno[b]]
        BY <1>y, <1>z, SMTT(60) DEF ideintr, CacheInv, TypeOK
      <4> QED
        BY <1>0, <1>x, <3>1, <4>1, SetAssumption, SMTT(60)
    <3>2. CASE c # b
      <4>1. data'[c] = data[c] /\ valid[c]
        BY <1>0, <2>2, <3>2 DEF ideintr, CacheInv, TypeOK
      <4> QED
        BY <1>0, <4>1, Zenon DEF CacheInv, Coherent
    <3> QED
      BY <3>1, <3>2, Zenon
  <2>3. ASSUME NEW y \in Blocks, \A c \in Bufs : blockno'[c] = y => ~dirty'[c]
        PROVE  disk'[y] = written'[y]
    <3>1. CASE y = blockno[b]
      BY <1>0, <1>y, <1>z, <3>1, SMTT(60) DEF ideintr, CacheInv, TypeOK
    <3>2. CASE y # blockno[b]
      <4>1. \A c \in Bufs : blockno[c] = y => ~dirty[c]
        BY <1>0, <2>3, <3>2, Zenon DEF CacheInv, TypeOK
      <4>2. disk'[y] = disk[y]
        BY <3>2, SMTT(60) DEF ideintr, CacheInv, TypeOK
      <4> QED
        BY <1>0, <4>1, <4>2, Zenon DEF CacheInv, Coherent
    <3> QED
      BY <3>1, <3>2, SMTT(60)
  <2> QED
    BY <2>1, <2>2, <2>3, SMTT(60) DEF Coherent
<1>5. LocksMatch'
  <2>1. \A q \in Procs, c \in Bufs : Using(q, c)' => blockno'[c] = want'[q][c]
    BY <1>0, <1>t, SMTT(60) DEF LocksMatch, Using
  <2>2. \A q \in Procs : pc'[q] \in {"lock", "lsleep", "io", "release"} => Using(q, cur[q])'
    BY <1>0, <1>p, <1>t, <1>2, SMTT(60) DEF LocksMatch, Using
  <2>3. \A q \in Procs : pc'[q] = "io" => owner'[cur'[q]] = q
    BY <1>0, <1>p, <1>t, SMTT(60) DEF LocksMatch
  <2>4. \A c \in Bufs : owner'[c] # Nobody =>
          /\ Using(owner[c], c)'
          /\ pc'[owner'[c]] \in {"lock", "lsleep", "release"} => cur'[owner'[c]] # c
    BY <1>0, <1>p, <1>t, SMTT(60) DEF LocksMatch, Using
  <2>5. ASSUME NEW c \in Bufs, owner'[c] # Nobody, ~valid'[c]
        PROVE  pc'[owner'[c]] = "io" /\ cur'[owner'[c]] = c
    <3>1. c # b /\ valid'[c] = valid[c] /\ owner'[c] = owner[c] /\ owner[c] \in Procs
      BY <1>0, <1>t, <2>5, Zenon
    <3>2. pc[owner[c]] = "io" /\ cur[owner[c]] = c
      BY <1>t, <2>5, <3>1, Zenon DEF LocksMatch
    <3> QED
      BY <1>0, <1>p, <3>1, <3>2, SMTT(60)
  <2> QED
    BY <2>1, <2>2, <2>3, <2>4, <2>5, Zenon DEF LocksMatch
<1>6. SleepersAreAwaited'
  BY <1>0, Dequeued, Zenon
<1> QED
  BY <1>1, <1>2, <1>4, <1>5, <1>6, Zenon DEF CacheInv

-----------------------------------------------------------------------------
(* What a process does with the locked buffers *)

\* The holder's change is what the block was last given, and no other buffer
\* holds the block.
LEMMA ChangeCoherent ==
  ASSUME CacheInv, NEW p \in Procs, NEW b \in Bufs, NEW v \in Value,
         pc[p] = "run", owner[b] = p,
         data' = [data EXCEPT ![b] = v], dirty' = [dirty EXCEPT ![b] = TRUE],
         written' = [written EXCEPT ![want[p][b]] = v], UNCHANGED <<blockno, valid, disk>>
  PROVE  Coherent' /\ want[p][b] \in Blocks
<1> DEFINE x == want[p][b]
<1>0. blockno[b] = x /\ x \in Blocks /\ valid[b]
  BY SetAssumption, SMTT(60) DEF CacheInv, LocksMatch, Using, TypeOK
<1>1. \A c \in Bufs : c # b => blockno[c] # x
  BY <1>0, SetAssumption, SMTT(60) DEF CacheInv, OneCopy
<1> HIDE DEF x
<1>w. written' = [written EXCEPT ![x] = v]
  BY DEF x
<1>2. \A c \in Bufs : dirty'[c] => valid'[c]
  BY <1>0, SMTT(60) DEF CacheInv, Coherent, TypeOK
<1>3. ASSUME NEW c \in Bufs, valid'[c]
      PROVE  blockno'[c] # NoBlock /\ data'[c] = written'[blockno'[c]]
  <2>1. CASE c = b
    BY <1>0, <1>w, <2>1, SetAssumption, SMTT(60) DEF CacheInv, TypeOK
  <2>2. CASE c # b
    BY <1>1, <1>3, <1>w, <2>2, SMTT(60) DEF CacheInv, TypeOK, Coherent
  <2> QED
    BY <2>1, <2>2, SMTT(60)
<1>4. ASSUME NEW y \in Blocks, \A c \in Bufs : blockno'[c] = y => ~dirty'[c]
      PROVE  disk'[y] = written'[y]
  <2>1. y # x
    BY <1>0, <1>4, Zenon DEF CacheInv, TypeOK
  <2>2. \A c \in Bufs : blockno[c] = y => ~dirty[c]
    BY <1>0, <1>4, <2>1, Zenon DEF CacheInv, TypeOK
  <2> QED
    BY <1>w, <2>1, <2>2, Zenon DEF CacheInv, Coherent, TypeOK
<1>5. Coherent'
  BY <1>2, <1>3, <1>4, SMTT(60) DEF Coherent
<1> QED
  BY <1>0, <1>5, Zenon DEF x

\* log_write pins the buffer.
LEMMA LogWriteStep ==
  ASSUME CacheInv, NEW p \in Procs, NEW b \in Bufs, NEW v \in Value, log_write(p, b, v)
  PROVE  CacheInv'
<1>0. /\ pc[p] = "run" /\ owner[b] = p
      /\ data' = [data EXCEPT ![b] = v] /\ dirty' = [dirty EXCEPT ![b] = TRUE]
      /\ written' = [written EXCEPT ![want[p][b]] = v]
      /\ UNCHANGED <<blockno, refcnt, valid, owner, idequeue, disk, pc, cur, want>>
  BY Zenon DEF log_write
<1>1. Coherent' /\ want[p][b] \in Blocks
  BY <1>0, ChangeCoherent, ZenonT(60)
<1>2. TypeOK'
  BY <1>0, <1>1, Zenon DEF CacheInv, TypeOK
<1>3. OneCopy' /\ RefsCounted'
  BY <1>0, SamePointers, Zenon
<1>4. LocksMatch'
  BY <1>0, SMTT(60) DEF CacheInv, LocksMatch, Using
<1>5. SleepersAreAwaited'
  BY <1>0, SMTT(60) DEF CacheInv, SleepersAreAwaited
<1> QED
  BY <1>1, <1>2, <1>3, <1>4, <1>5, Zenon DEF CacheInv

\* bwrite queues the buffer and keeps its lock.
LEMMA BwriteStep ==
  ASSUME CacheInv, NEW p \in Procs, NEW b \in Bufs, NEW v \in Value, bwrite(p, b, v)
  PROVE  CacheInv'
<1>0. /\ pc[p] = "run" /\ owner[b] = p
      /\ data' = [data EXCEPT ![b] = v] /\ dirty' = [dirty EXCEPT ![b] = TRUE]
      /\ written' = [written EXCEPT ![want[p][b]] = v]
      /\ idequeue' = Append(idequeue, b) /\ pc' = [pc EXCEPT ![p] = "io"]
      /\ cur' = [cur EXCEPT ![p] = b]
      /\ UNCHANGED <<blockno, refcnt, valid, owner, disk, want>>
  BY Zenon DEF bwrite
<1>t. /\ LocksMatch /\ pc \in [Procs -> PCs] /\ cur \in [Procs -> Bufs]
      /\ owner \in [Bufs -> Procs \cup {Nobody}]
  BY Zenon DEF CacheInv, TypeOK
<1>u. Using(p, b)
  BY <1>0, <1>t, SetAssumption, SMTT(60) DEF LocksMatch
<1>v. valid[b]
  BY <1>0, <1>t, SetAssumption, SMTT(60) DEF LocksMatch
<1>1. Coherent' /\ want[p][b] \in Blocks
  BY <1>0, ChangeCoherent, ZenonT(60)
<1>2. TypeOK'
  <2>1. idequeue' \in Seq(Bufs)
    BY <1>0, SMTT(60) DEF CacheInv, TypeOK
  <2> QED
    BY <1>0, <1>1, <2>1, Zenon DEF CacheInv, TypeOK, PCs
<1>3. OneCopy' /\ RefsCounted' /\ \A q \in Procs, c \in Bufs : Using(q, c)' <=> Using(q, c)
  BY <1>0, SamePointers, Zenon
<1>4. LocksMatch'
  BY <1>0, <1>t, <1>u, <1>v, SMTT(60) DEF LocksMatch, Using
<1>5. SleepersAreAwaited'
  <2>1. \A q \in Procs : pc[q] = "io" => cur[q] # b
    BY <1>0, <1>t, SMTT(60) DEF LocksMatch
  <2>2. owner' = [owner EXCEPT ![b] = p]
    BY <1>0, <1>t, SMTT(60)
  <2> QED
    BY <1>0, <2>1, <2>2, Queued, ZenonT(60)
<1> QED
  BY <1>1, <1>2, <1>3, <1>4, <1>5, Zenon DEF CacheInv

\* releasesleep leaves nobody asleep on the lock it frees.
LEMMA ReleaseStep ==
  ASSUME CacheInv, NEW p \in Procs, NEW b \in Bufs, releasesleep(p, b)
  PROVE  CacheInv'
<1>0. /\ pc[p] = "run" /\ owner[b] = p /\ owner' = [owner EXCEPT ![b] = Nobody]
      /\ cur' = [cur EXCEPT ![p] = b] /\ pc' = [Woken(b) EXCEPT ![p] = "release"]
      /\ UNCHANGED <<blockno, refcnt, valid, dirty, data, idequeue, disk, want, written>>
  BY Zenon DEF releasesleep, fields
<1>t. /\ LocksMatch /\ SleepersAreAwaited /\ pc \in [Procs -> PCs] /\ cur \in [Procs -> Bufs]
      /\ owner \in [Bufs -> Procs \cup {Nobody}]
  BY Zenon DEF CacheInv, TypeOK
<1>p. /\ pc'[p] = "release" /\ cur'[p] = b
      /\ \A q \in Procs : q # p =>
           /\ pc'[q] = IF pc[q] = "lsleep" /\ cur[q] = b THEN "lock" ELSE pc[q]
           /\ cur'[q] = cur[q]
  BY <1>0, <1>t, SMTT(60) DEF Woken
<1>o. \A c \in Bufs : owner'[c] = IF c = b THEN Nobody ELSE owner[c]
  BY <1>0, <1>t, Zenon
<1>u. Using(p, b)
  BY <1>0, <1>t, SetAssumption, SMTT(60) DEF LocksMatch
<1>1. TypeOK'
  <2>1. pc' \in [Procs -> PCs]
    BY <1>0, <1>t, Zenon DEF PCs, Woken
  <2>2. cur' \in [Procs -> Bufs] /\ owner' \in [Bufs -> Procs \cup {Nobody}]
    BY <1>0, <1>t, Zenon
  <2> QED
    BY <1>0, <2>1, <2>2, Zenon DEF CacheInv, TypeOK
<1>2. Coherent'
  BY <1>0, Zenon DEF CacheInv, Coherent
<1>3. OneCopy' /\ RefsCounted' /\ \A q \in Procs, c \in Bufs : Using(q, c)' <=> Using(q, c)
  BY <1>0, SamePointers, Zenon
<1>i. \A q \in Procs : pc'[q] = "io" <=> pc[q] = "io"
  BY <1>0, <1>p, SMTT(60)
<1>4. LocksMatch'
  <2>1. \A q \in Procs, c \in Bufs : Using(q, c)' => blockno'[c] = want'[q][c]
    BY <1>0, <1>t, SMTT(60) DEF LocksMatch, Using
  <2>2. \A q \in Procs : pc'[q] \in {"lock", "lsleep", "io", "release"} => Using(q, cur[q])'
    BY <1>0, <1>p, <1>t, <1>u, SMTT(60) DEF LocksMatch, Using
  <2>3. \A q \in Procs : pc'[q] = "io" => owner'[cur'[q]] = q
    <3> SUFFICES ASSUME NEW q \in Procs, pc'[q] = "io" PROVE owner'[cur'[q]] = q
      BY Zenon
    <3>1. q # p /\ pc[q] = "io" /\ cur'[q] = cur[q] /\ owner[cur[q]] = q /\ cur[q] \in Bufs
      BY <1>i, <1>p, <1>t, <1>0, SMTT(60) DEF LocksMatch
    <3>2. cur[q] # b
      BY <1>0, <3>1, Zenon
    <3> QED
      BY <1>o, <3>1, <3>2, SMTT(60)
  <2>c. ASSUME NEW c \in Bufs, owner'[c] # Nobody
        PROVE  /\ c # b /\ owner'[c] = owner[c] /\ owner[c] \in Procs /\ owner[c] # Nobody
               /\ owner[c] # p => cur'[owner[c]] = cur[owner[c]]
    BY <1>o, <1>p, <1>t, <2>c, SMTT(60)
  <2>4. ASSUME NEW c \in Bufs, owner'[c] # Nobody
        PROVE  /\ Using(owner[c], c)'
               /\ pc'[owner'[c]] \in {"lock", "lsleep", "release"} => cur'[owner'[c]] # c
    <3>1. Using(owner[c], c)'
      BY <1>0, <1>t, <2>4, <2>c, SMTT(60) DEF LocksMatch, Using
    <3>2. CASE owner[c] = p
      BY <1>p, <2>4, <2>c, <3>1, <3>2, SMTT(60)
    <3>3. CASE owner[c] # p
      <4>1. pc[owner[c]] \in {"lock", "lsleep", "release"} => cur[owner[c]] # c
        BY <1>t, <2>4, <2>c, Zenon DEF LocksMatch
      <4>2. pc'[owner[c]] \in {"lock", "lsleep", "release"} =>
              pc[owner[c]] \in {"lock", "lsleep", "release"}
        BY <1>p, <2>4, <2>c, <3>3, SMTT(60)
      <4> QED
        BY <2>4, <2>c, <3>1, <3>3, <4>1, <4>2, SMTT(60)
    <3> QED
      BY <3>2, <3>3, Zenon
  <2>5. ASSUME NEW c \in Bufs, owner'[c] # Nobody, ~valid'[c]
        PROVE  pc'[owner'[c]] = "io" /\ cur'[owner'[c]] = c
    <3>1. pc[owner[c]] = "io" /\ cur[owner[c]] = c
      BY <1>0, <1>t, <2>5, <2>c, Zenon DEF LocksMatch
    <3>2. owner[c] # p
      BY <1>0, <3>1, SMTT(60)
    <3> QED
      BY <1>i, <2>5, <2>c, <3>1, <3>2, SMTT(60)
  <2> QED
    BY <2>1, <2>2, <2>3, <2>4, <2>5, Zenon DEF LocksMatch
<1>5. SleepersAreAwaited'
  <2>1. \A q \in Procs : pc'[q] = "lsleep" => owner'[cur'[q]] \notin {Nobody, q}
    <3> SUFFICES ASSUME NEW q \in Procs, pc'[q] = "lsleep"
                 PROVE  owner'[cur'[q]] \notin {Nobody, q}
      BY Zenon
    <3>1. q # p /\ pc[q] = "lsleep" /\ cur[q] # b /\ cur'[q] = cur[q] /\ cur[q] \in Bufs
      BY <1>p, <1>t, SMTT(60)
    <3> QED
      BY <1>o, <1>t, <3>1, SMTT(60) DEF SleepersAreAwaited
  <2>2. \A q \in Procs : pc[q] = "io" => cur'[q] = cur[q]
    BY <1>0, <1>p, SMTT(60)
  <2>3. \A q \in Procs : pc'[q] = "io" => \E i \in 1..Len(idequeue') : idequeue'[i] = cur'[q]
    BY <1>0, <1>i, <1>t, <2>2, SMTT(60) DEF SleepersAreAwaited
  <2>4. \A i \in 1..Len(idequeue') :
          /\ \E q \in Procs : pc'[q] = "io" /\ cur'[q] = idequeue'[i]
          /\ \A j \in 1..Len(idequeue') : i # j => idequeue'[i] # idequeue'[j]
    BY <1>0, <1>i, <1>t, <2>2, SMTT(60) DEF SleepersAreAwaited
  <2> QED
    BY <2>1, <2>3, <2>4, Zenon DEF SleepersAreAwaited
<1> QED
  BY <1>1, <1>2, <1>3, <1>4, <1>5, Zenon DEF CacheInv

\* brelse gives back the reference its bget took.
LEMMA BrelseStep ==
  ASSUME CacheInv, NEW p \in Procs, brelse(p)
  PROVE  CacheInv'
<1> PICK b \in Bufs : b = cur[p]
  BY Zenon DEF CacheInv, TypeOK
<1>0. /\ pc[p] = "release" /\ refcnt' = [refcnt EXCEPT ![b] = @ - 1]
      /\ want' = [want EXCEPT ![p][b] = NoBlock] /\ pc' = [pc EXCEPT ![p] = "run"]
      /\ UNCHANGED <<blockno, valid, dirty, data, owner, idequeue, disk, cur, written>>
  BY Zenon DEF brelse
<1>t. /\ TypeOK /\ LocksMatch /\ SleepersAreAwaited /\ pc \in [Procs -> PCs]
      /\ cur \in [Procs -> Bufs] /\ owner \in [Bufs -> Procs \cup {Nobody}] /\ b \in Bufs
  BY Zenon DEF CacheInv, TypeOK
<1>w. /\ want' \in [Procs -> [Bufs -> Blocks \cup {NoBlock}]]
      /\ \A q \in Procs, c \in Bufs :
           want'[q][c] = IF q = p /\ c = b THEN NoBlock ELSE want[q][c]
  BY <1>0, <1>t, SMTT(60) DEF TypeOK
<1>v. \A q \in Procs, c \in Bufs : Using(q, c)' <=> Using(q, c) /\ ~(q = p /\ c = b)
  BY <1>w, SMTT(60) DEF Using
<1>r. Using(p, b)
  BY <1>0, <1>t, SMTT(60) DEF LocksMatch
<1>q. pc'[p] = "run" /\ \A q \in Procs : q # p => pc'[q] = pc[q]
  BY <1>0, <1>t, SMTT(60)
<1>s. owner[b] # p
  BY <1>0, <1>t, SetAssumption, SMTT(60) DEF LocksMatch
<1>u. /\ Users(b)' = Users(b) \ {p} /\ p \in Users(b)
      /\ \A c \in Bufs : c # b => Users(c)' = Users(c)
  <2>1. Users(b)' = Users(b) \ {p}
    BY <1>t, <1>v, ZenonT(60) DEF Users
  <2>2. p \in Users(b)
    BY <1>r, Zenon DEF Users
  <2>3. \A c \in Bufs : c # b => Users(c)' = Users(c)
    BY <1>v, ZenonT(60) DEF Users
  <2> QED
    BY <2>1, <2>2, <2>3, Zenon
<1>c. Cardinality(Users(b)') = Cardinality(Users(b)) - 1
  BY <1>t, <1>u, UsersFinite, FS_RemoveElement, ZenonT(60)
<1>1. TypeOK'
  <2>1. IsFiniteSet(Users(b)) /\ Cardinality(Users(b)) \in Nat
    BY <1>t, UsersFinite, Zenon
  <2>2. Cardinality(Users(b)) # 0
    BY <1>u, <2>1, FS_EmptySet, Zenon
  <2>3. refcnt[b] - 1 \in Nat
    BY <1>t, <2>1, <2>2, SMTT(60) DEF CacheInv, RefsCounted
  <2>4. refcnt' \in [Bufs -> Nat]
    BY <1>0, <1>t, <2>3, Zenon DEF TypeOK
  <2> QED
    BY <1>0, <1>w, <2>4, Zenon DEF CacheInv, TypeOK, PCs
<1>2. OneCopy' /\ Coherent'
  BY <1>0, Zenon DEF CacheInv, OneCopy, Coherent
<1>3. RefsCounted'
  <2> SUFFICES ASSUME NEW c \in Bufs PROVE refcnt'[c] = Cardinality(Users(c)')
    BY Zenon DEF RefsCounted
  <2>1. CASE c = b
    <3>1. refcnt'[b] = refcnt[b] - 1
      BY <1>0, <1>t, Zenon DEF TypeOK
    <3>2. refcnt[b] = Cardinality(Users(b))
      BY <1>t, Zenon DEF CacheInv, RefsCounted
    <3> QED
      BY <1>c, <2>1, <3>1, <3>2, Zenon
  <2>2. CASE c # b
    BY <1>0, <1>u, <2>2, Zenon DEF CacheInv, RefsCounted, TypeOK
  <2> QED
    BY <2>1, <2>2, SMTT(60)
<1>4. LocksMatch'
  <2>1. \A q \in Procs, c \in Bufs : Using(q, c)' => blockno'[c] = want'[q][c]
    BY <1>0, <1>t, <1>v, <1>w, SMTT(60) DEF LocksMatch
  <2>2. \A q \in Procs : pc'[q] \in {"lock", "lsleep", "io", "release"} => Using(q, cur[q])'
    BY <1>0, <1>q, <1>t, <1>w, SMTT(60) DEF LocksMatch, Using
  <2>3. \A q \in Procs : pc'[q] = "io" => owner'[cur'[q]] = q
    BY <1>0, <1>q, <1>t, SMTT(60) DEF LocksMatch
  <2>4. \A c \in Bufs : owner'[c] # Nobody =>
          /\ Using(owner[c], c)'
          /\ pc'[owner'[c]] \in {"lock", "lsleep", "release"} => cur'[owner'[c]] # c
    BY <1>0, <1>q, <1>s, <1>t, <1>w, SMTT(60) DEF LocksMatch, Using
  <2>5. \A c \in Bufs : owner'[c] # Nobody /\ ~valid'[c] =>
          pc'[owner'[c]] = "io" /\ cur'[owner'[c]] = c
    BY <1>0, <1>q, <1>t, SMTT(60) DEF LocksMatch
  <2> QED
    BY <2>1, <2>2, <2>3, <2>4, <2>5, Zenon DEF LocksMatch
<1>5. SleepersAreAwaited'
  BY <1>0, <1>q, <1>t, SMTT(60) DEF SleepersAreAwaited
<1> QED
  BY <1>1, <1>2, <1>3, <1>4, <1>5, Zenon DEF CacheInv

-----------------------------------------------------------------------------
(* Theorems *)

\* Every step keeps CacheInv, and so does a step that changes nothing.
LEMMA StepInv == CacheInv /\ [Next]_vars => CacheInv'
<1> SUFFICES ASSUME CacheInv, [Next]_vars PROVE CacheInv'
  BY Zenon
<1>1. CASE Next
  BY <1>1, HitStep, RecycleStep, AcquireStep, ReleaseStep, BrelseStep, LogWriteStep,
     BwriteStep, InterruptStep, SMTT(60) DEF Next
<1>2. CASE UNCHANGED vars
  BY <1>2 DEF vars, fields, CacheInv, TypeOK, OneCopy, RefsCounted, Users, Using, Coherent,
              LocksMatch, SleepersAreAwaited
<1> QED
  BY <1>1, <1>2, Zenon

\* bget, iderw, ideintr, log_write, bwrite and brelse keep CacheInv, whatever
\* the number of processes, buffers and blocks.
THEOREM CacheInvariance == Spec => []CacheInv
BY InitInv, StepInv, PTL DEF Spec

\* bget never makes a second copy of a cached block.
THEOREM OneCopyAlways == Spec => []OneCopy
<1>1. CacheInv => OneCopy
  BY Zenon DEF CacheInv
<1> QED
  BY <1>1, CacheInvariance, PTL

\* A buffer stays the buffer of the block each of its users asked bread for,
\* and the one that has its lock is one of them.
THEOREM HoldersAreAlone == Spec => []HolderAlone
<1>1. CacheInv => HolderAlone
  <2> SUFFICES ASSUME CacheInv PROVE HolderAlone
    BY Zenon
  <2>1. \A p \in Procs, b \in Bufs : Using(p, b) => blockno[b] = want[p][b]
    BY SMTT(60) DEF CacheInv, LocksMatch
  <2>2. \A p \in Procs, b \in Bufs : InHand(p, b) => Using(p, b)
    BY SetAssumption, SMTT(60) DEF CacheInv, LocksMatch, InHand
  <2> QED
    BY <2>1, <2>2, Zenon DEF HolderAlone
<1> QED
  BY <1>1, CacheInvariance, PTL

\* refcnt counts the processes between bget and brelse, so that bget recycles no
\* buffer somebody has a pointer to, however many buffers a process holds.
THEOREM ReferencesExact == Spec => []RefsCounted
<1>1. CacheInv => RefsCounted
  BY Zenon DEF CacheInv
<1> QED
  BY <1>1, CacheInvariance, PTL

\* bread returns the last thing any process put in the block with log_write or
\* bwrite, whether it finds the block cached or reads it from the disk.
THEOREM BreadReadsLatest == Spec => []ReadsLatest
<1>1. CacheInv => ReadsLatest
  <2> SUFFICES ASSUME CacheInv, NEW p \in Procs, NEW b \in Bufs, InHand(p, b)
               PROVE  data[b] = written[want[p][b]]
    BY Zenon DEF ReadsLatest
  <2>1. owner[b] = p /\ p # Nobody /\ ~(pc[p] = "io" /\ cur[p] = b)
    BY SetAssumption, Zenon DEF InHand
  <2>2. Using(p, b) /\ valid[b]
    BY <2>1, SMTT(60) DEF CacheInv, LocksMatch
  <2> QED
    BY <2>2, SMTT(60) DEF CacheInv, LocksMatch, Coherent
<1> QED
  BY <1>1, CacheInvariance, PTL

\* A process asleep in acquiresleep has another process that holds the lock and
\* will wake it, one asleep in iderw has its buffer in the disk queue once.
THEOREM NoSleeperForgotten == Spec => []SleepersAreAwaited
<1>1. CacheInv => SleepersAreAwaited
  BY Zenon DEF CacheInv
<1> QED
  BY <1>1, CacheInvariance, PTL
=============================================================================
