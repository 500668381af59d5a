-------------------------------- MODULE Names --------------------------------
(***************************************************************************)
(* Inodes, the inode cache, directories and path names (fs.c) under the    *)
(* system calls that use them (sysfile.c): open, mkdir, mknod, link,       *)
(* unlink, chdir and close, by processes that run at the same time.        *)
(*                                                                         *)
(* A step is a stretch of code in which the process holds the lock of what *)
(* it touches and waits for no other: ilock ... iunlock around a lookup is *)
(* one step, an ilock made while another inode is locked starts a new one. *)
(* What a directory holds is a function from names to inode numbers, 0 for *)
(* no entry; the contents of files are left to module Content.             *)
(*                                                                         *)
(* A process keeps its pointers into the cache in the registers w (namex's *)
(* ip), ip, dp and put (iput's argument), in its descriptor and in cwd.  A *)
(* pointer is moved, not copied, from one to the next; 0 is no pointer.    *)
(* A process that panics takes no further step.                            *)
(***************************************************************************)
EXTENDS Naturals, Sequences, FiniteSets

CONSTANTS
  Procs, Nobody,
  NINODES,        \* sb.ninodes: inode numbers are 1..NINODES - 1
  NINODE,         \* entries in the cache
  Name,
  Paths,          \* what the programs pass: from the root or not, Name's and ".."'s
  NewPaths,       \* what they pass to link as the second
  Calls,          \* the system calls they make,
  MaxCalls,       \* and how many, in all
  Starts          \* file systems to start from, and current directories

ROOTINO == 1
Inums == 1..(NINODES - 1)
Slots == 1..NINODE
Parenting == {"create", "mkdir", "mknod", "unlink"}

VARIABLES
  dinode,    \* inodes on disk, with the entries of a directory
  icache,    \* the cache: inum, ref, valid, type, nlink and the lock's owner
  r,         \* the registers of a call in progress
  file, cwd, \* the descriptor a process may have open; its directory
  made,      \* calls made so far
  orphan,    \* inodes whose entry was made in a directory already removed
  stray      \* somebody has looked up ".." in a directory already removed

history == <<orphan, stray>>
vars == <<dinode, icache, r, file, cwd, made, history>>

NoEntries == [n \in Name |-> 0]
FreeInode == [type |-> "free", nlink |-> 0, ents |-> NoEntries, parent |-> 0]
NoSlot == [inum |-> 0, ref |-> 0, valid |-> FALSE, type |-> "free", nlink |-> 0, lock |-> Nobody]
NoPath == [abs |-> FALSE, elems |-> <<>>]
Idle == [pc |-> "idle", op |-> "", path |-> <<>>, path2 |-> NoPath, name |-> "",
         w |-> 0, ip |-> 0, dp |-> 0, put |-> 0, then |-> ""]

\* What mkfs makes: the root directory, without files.
EmptyDisk ==
  [i \in Inums |-> IF i = ROOTINO
     THEN [FreeInode EXCEPT !.type = "dir", !.nlink = 1, !.parent = ROOTINO]
     ELSE FreeInode]

\* A process has the root as its current directory (userinit, fork), or where a
\* chdir took it.
Init ==
  \E st \in Starts :
    /\ dinode = st.disk
    /\ icache = [s \in Slots |->
         LET in == {p \in Procs : st.dir[p] = s} IN
         IF in = {} THEN NoSlot
         ELSE [NoSlot EXCEPT !.inum = s, !.ref = Cardinality(in), !.valid = TRUE,
                             !.type = st.disk[s].type, !.nlink = st.disk[s].nlink]]
    /\ cwd = st.dir
    /\ r = [p \in Procs |-> Idle]
    /\ file = [p \in Procs |-> 0]
    /\ made = 0
    /\ orphan = {} /\ stray = FALSE

-----------------------------------------------------------------------------
(* The inode cache *)

First(S) == CHOOSE x \in S : \A y \in S : x <= y

\* iget: the entry of the inode, or the first free one.
iget_slot(i) ==
  LET cached == {s \in Slots : icache[s].ref > 0 /\ icache[s].inum = i}
      empty  == {s \in Slots : icache[s].ref = 0}
  IN  IF cached # {} THEN First(cached) ELSE First(empty)
iget(c, i) ==
  LET s == iget_slot(i) IN
  IF c[s].ref > 0 THEN [c EXCEPT ![s].ref = @ + 1]
  ELSE [c EXCEPT ![s] = [NoSlot EXCEPT !.inum = i, !.ref = 1]]

idup(c, s) == [c EXCEPT ![s].ref = @ + 1]

\* ilock reads the inode unless the entry is valid; what the caller sees.  It
\* panics ("ilock: no type") when the inode it reads is free.
Unlocked(s) == icache[s].lock = Nobody
NoType(s) == ~icache[s].valid /\ dinode[icache[s].inum].type = "free"
MayLock(s) == Unlocked(s) /\ ~NoType(s)
ilock(s) ==
  LET e == icache[s] IN
  IF e.valid THEN e
  ELSE [e EXCEPT !.valid = TRUE, !.type = dinode[e.inum].type, !.nlink = dinode[e.inum].nlink]

\* iupdate writes the entry's fields to the inode on disk.
iupdate(d, e) == [d EXCEPT ![e.inum].type = e.type, ![e.inum].nlink = e.nlink]

\* dirlookup and dirlink in the directory that e stands for.
dirlookup(e, n) == IF n = ".." THEN dinode[e.inum].parent ELSE dinode[e.inum].ents[n]

FromRemoved(e, n) == n = ".." /\ e.nlink = 0

dirlink(d, e, n, i) == [d EXCEPT ![e.inum].ents[n] = i]

\* The inode whose lock a process is about to take.
Wants(p) ==
  LET x == r[p] IN
  CASE x.pc = "put" -> x.put
    [] x.pc = "walk" /\ x.path # <<>> -> x.w
    [] x.pc \in {"open", "chdir"} -> x.w
    [] x.pc = "link" -> IF x.ip = 0 THEN x.w ELSE x.dp
    [] x.pc \in {"unlink", "create", "mkdir", "mknod"} -> x.dp
    [] x.pc \in {"undo", "unlink_entry", "exists", "create_entry"} -> x.ip
    [] OTHER -> 0

ilock_panic(p) ==
  /\ Wants(p) # 0 /\ r[p].pc # "put"
  /\ Unlocked(Wants(p)) /\ NoType(Wants(p))
  /\ r' = [r EXCEPT ![p].pc = "panic"]
  /\ UNCHANGED <<dinode, icache, file, cwd, made, history>>

\* iunlockput, iput: drop the pointer s, then go on at t.
Put(x, s, t) == [x EXCEPT !.pc = "put", !.put = s, !.then = t]

\* iput, with the lock taken: is this the last pointer to a file without links?
iput_uncounted(p) ==
  LET s == r[p].put IN
  /\ r[p].pc = "put"
  /\ Unlocked(s)
  /\ IF icache[s].valid /\ icache[s].nlink = 0
       THEN /\ icache' = [icache EXCEPT ![s].lock = p]
            /\ r' = [r EXCEPT ![p].pc = "free"]
       ELSE /\ r' = [r EXCEPT ![p].pc = "deref"]
            /\ UNCHANGED icache
  /\ UNCHANGED <<dinode, file, cwd, made, history>>
iput(p) ==
  LET s == r[p].put IN
  /\ r[p].pc = "put"
  /\ Unlocked(s)
  /\ IF icache[s].valid /\ icache[s].nlink = 0 /\ icache[s].ref = 1
       THEN /\ icache' = [icache EXCEPT ![s].lock = p]
            /\ r' = [r EXCEPT ![p].pc = "free"]
       ELSE /\ r' = [r EXCEPT ![p].pc = "deref"]
            /\ UNCHANGED icache
  /\ UNCHANGED <<dinode, file, cwd, made, history>>

\* itrunc, type = 0, iupdate, valid = 0, and the lock given up.
iput_free_stays_valid(p) ==
  LET s == r[p].put IN
  /\ r[p].pc = "free"
  /\ dinode' = [dinode EXCEPT ![icache[s].inum] = FreeInode]
  /\ icache' = [icache EXCEPT ![s].type = "free", ![s].lock = Nobody]
  /\ r' = [r EXCEPT ![p].pc = "deref"]
  /\ UNCHANGED <<file, cwd, made, history>>
iput_free(p) ==
  LET s == r[p].put IN
  /\ r[p].pc = "free"
  /\ dinode' = [dinode EXCEPT ![icache[s].inum] = FreeInode]
  /\ icache' = [icache EXCEPT ![s].valid = FALSE, ![s].type = "free", ![s].lock = Nobody]
  /\ r' = [r EXCEPT ![p].pc = "deref"]
  /\ UNCHANGED <<file, cwd, made, history>>

\* ref-- under icache.lock.
iput_deref(p) ==
  LET s == r[p].put IN
  /\ r[p].pc = "deref"
  /\ icache' = [icache EXCEPT ![s] = IF icache[s].ref = 1 THEN NoSlot
                                         ELSE [icache[s] EXCEPT !.ref = @ - 1]]
  /\ r' = [r EXCEPT ![p] = IF r[p].then = "idle" THEN Idle
                             ELSE [r[p] EXCEPT !.pc = r[p].then, !.put = 0, !.then = ""]]
  /\ UNCHANGED <<dinode, file, cwd, made, history>>

-----------------------------------------------------------------------------
(* Path names *)

\* namex starts at the root or at the current directory.
Origin(p, abs) == IF abs THEN iget_slot(ROOTINO) ELSE cwd[p]
AtOrigin(c, p, abs) == IF abs THEN iget(c, ROOTINO) ELSE idup(c, cwd[p])

\* The arguments are fetched, begin_op has let the call in.
Start(p, op, path, path2) ==
  /\ r[p].pc = "idle" /\ made < MaxCalls
  /\ made' = made + 1
  /\ icache' = AtOrigin(icache, p, path.abs)
  /\ r' = [r EXCEPT ![p] = [Idle EXCEPT !.pc = "walk", !.op = op, !.path = path.elems,
                                        !.path2 = path2, !.w = Origin(p, path.abs)]]
  /\ UNCHANGED <<dinode, file, cwd, history>>

\* nameiparent rather than namei: the calls that make or remove an entry, and
\* sys_link once it has its first inode.
ToParent(x) == x.op \in Parenting \/ (x.op = "link" /\ x.ip # 0)

\* Where a call goes when a lookup fails: sys_link may have to undo its nlink++.
Failed(x) == IF x.op = "link" /\ x.ip # 0 THEN "undo" ELSE "idle"

\* A turn of namex's loop: lock the directory, look the next name up, unlock,
\* and drop the directory; or stop, with the parent in dp or the inode in w.
namex(p) ==
  LET x == r[p]
      e == ilock(x.w)
      n == dirlookup(e, Head(x.path))
      locked == [icache EXCEPT ![x.w] = e]
      drop == [x EXCEPT !.w = 0]
  IN
  /\ x.pc = "walk"
  /\ IF x.path = <<>>
       THEN /\ r' = [r EXCEPT ![p] = IF ToParent(x) THEN Put(drop, x.w, Failed(x))
                                     ELSE [x EXCEPT !.pc = x.op]]
            /\ UNCHANGED icache
       ELSE /\ MayLock(x.w)
            /\ IF e.type # "dir"
                 THEN /\ r' = [r EXCEPT ![p] = Put(drop, x.w, Failed(x))]
                      /\ icache' = locked
               ELSE IF ToParent(x) /\ Len(x.path) = 1
                 THEN /\ r' = [r EXCEPT ![p] = [drop EXCEPT !.pc = x.op, !.dp = x.w,
                                                            !.name = Head(x.path), !.path = <<>>]]
                      /\ icache' = locked
               ELSE IF n = 0
                 THEN /\ r' = [r EXCEPT ![p] = Put(drop, x.w, Failed(x))]
                      /\ icache' = locked
               ELSE /\ r' = [r EXCEPT ![p] =
                               Put([x EXCEPT !.w = iget_slot(n), !.path = Tail(x.path)], x.w, "walk")]
                    /\ icache' = iget(locked, n)
  /\ stray' = (stray \/ (x.path # <<>> /\ FromRemoved(e, Head(x.path))))
  /\ UNCHANGED <<dinode, file, cwd, made, orphan>>

-----------------------------------------------------------------------------
(* sys_open without O_CREATE, sys_chdir, sys_close *)

\* What sys_open does with the locked inode in slot s: a descriptor if one is
\* free (files and descriptors are counted in module Files), or iunlockput.
Opened(p, s) ==
  IF file[p] = 0
    THEN /\ file' = [file EXCEPT ![p] = s]
         /\ r' = [r EXCEPT ![p] = Idle]
    ELSE /\ r' = [r EXCEPT ![p] = Put([Idle EXCEPT !.op = "open"], s, "idle")]
         /\ UNCHANGED file

sys_open(p) ==
  LET s == r[p].w  e == ilock(s) IN
  /\ r[p].pc = "open"
  /\ MayLock(s)
  /\ icache' = [icache EXCEPT ![s] = e]
  /\ \E omode \in {"O_RDONLY", "O_RDWR"} :
       IF e.type = "dir" /\ omode # "O_RDONLY"
         THEN /\ r' = [r EXCEPT ![p] = Put([@ EXCEPT !.w = 0], s, "idle")]
              /\ UNCHANGED file
         ELSE Opened(p, s)
  /\ UNCHANGED <<dinode, cwd, made, history>>

sys_chdir_keeps(p) ==
  LET s == r[p].w  e == ilock(s) IN
  /\ r[p].pc = "chdir"
  /\ MayLock(s)
  /\ icache' = [icache EXCEPT ![s] = e]
  /\ IF e.type # "dir"
       THEN /\ r' = [r EXCEPT ![p] = Put([@ EXCEPT !.w = 0], s, "idle")]
            /\ UNCHANGED cwd
       ELSE /\ r' = [r EXCEPT ![p] = Idle]
            /\ cwd' = [cwd EXCEPT ![p] = s]
  /\ UNCHANGED <<dinode, file, made, history>>
sys_chdir(p) ==
  LET s == r[p].w  e == ilock(s) IN
  /\ r[p].pc = "chdir"
  /\ MayLock(s)
  /\ icache' = [icache EXCEPT ![s] = e]
  /\ IF e.type # "dir"
       THEN /\ r' = [r EXCEPT ![p] = Put([@ EXCEPT !.w = 0], s, "idle")]
            /\ UNCHANGED cwd
       ELSE /\ r' = [r EXCEPT ![p] = Put([@ EXCEPT !.w = 0], cwd[p], "idle")]
            /\ cwd' = [cwd EXCEPT ![p] = s]
  /\ UNCHANGED <<dinode, file, made, history>>

\* The last reference to the open file goes away: fileclose calls iput.
sys_close(p) ==
  /\ r[p].pc = "idle" /\ file[p] # 0 /\ made < MaxCalls
  /\ made' = made + 1
  /\ r' = [r EXCEPT ![p] = Put([Idle EXCEPT !.op = "close"], file[p], "idle")]
  /\ file' = [file EXCEPT ![p] = 0]
  /\ UNCHANGED <<dinode, icache, cwd, history>>

-----------------------------------------------------------------------------
(* sys_link *)

\* The old path's inode is a file: one link more, written before the entry is.
sys_link(p) ==
  LET s == r[p].w  new == r[p].path2  e == ilock(s)  e1 == [e EXCEPT !.nlink = @ + 1] IN
  /\ r[p].pc = "link" /\ r[p].ip = 0
  /\ MayLock(s)
  /\ IF e.type = "dir"
       THEN /\ r' = [r EXCEPT ![p] = Put([@ EXCEPT !.w = 0], s, "idle")]
            /\ icache' = [icache EXCEPT ![s] = e]
            /\ UNCHANGED dinode
       ELSE /\ r' = [r EXCEPT ![p] = [@ EXCEPT !.pc = "walk", !.ip = s, !.path = new.elems,
                                               !.path2 = NoPath, !.w = Origin(p, new.abs)]]
            /\ icache' = AtOrigin([icache EXCEPT ![s] = e1], p, new.abs)
            /\ dinode' = iupdate(dinode, e1)
  /\ UNCHANGED <<file, cwd, made, history>>

\* dirlink does not ask whether the directory still has a link itself.
Orphaned(d, i) == IF d.nlink = 0 THEN orphan \cup {i} ELSE orphan

\* The new path's directory: dirlink, which drops the inode it finds under the
\* name while the directory stays locked.
link_entry(p) ==
  LET x == r[p]  s == x.dp  e == ilock(s)  n == dirlookup(e, x.name) IN
  /\ x.pc = "link" /\ x.dp # 0
  /\ MayLock(s)
  /\ IF n # 0
       THEN /\ icache' = iget([icache EXCEPT ![s] = [e EXCEPT !.lock = p]], n)
            /\ r' = [r EXCEPT ![p] = Put(x, iget_slot(n), "link_bad")]
            /\ UNCHANGED <<dinode, orphan>>
       ELSE /\ icache' = [icache EXCEPT ![s] = e]
            /\ dinode' = dirlink(dinode, e, x.name, icache[x.ip].inum)
            /\ r' = [r EXCEPT ![p] = Put([x EXCEPT !.dp = 0], s, "putip")]
            /\ orphan' = Orphaned(e, icache[x.ip].inum)
  /\ stray' = (stray \/ FromRemoved(e, x.name))
  /\ UNCHANGED <<file, cwd, made>>

link_bad(p) ==
  LET x == r[p] IN
  /\ x.pc = "link_bad"
  /\ icache' = [icache EXCEPT ![x.dp].lock = Nobody]
  /\ r' = [r EXCEPT ![p] = Put([x EXCEPT !.dp = 0], x.dp, "undo")]
  /\ UNCHANGED <<dinode, file, cwd, made, history>>

\* bad: the link is taken back.
link_undo_keeps(p) ==
  LET x == r[p]  e == ilock(x.ip) IN
  /\ x.pc = "undo"
  /\ MayLock(x.ip)
  /\ icache' = [icache EXCEPT ![x.ip] = e]
  /\ dinode' = iupdate(dinode, e)
  /\ r' = [r EXCEPT ![p] = Put([x EXCEPT !.ip = 0], x.ip, "idle")]
  /\ UNCHANGED <<file, cwd, made, history>>
link_undo(p) ==
  LET x == r[p]  e == [ilock(x.ip) EXCEPT !.nlink = @ - 1] IN
  /\ x.pc = "undo"
  /\ MayLock(x.ip)
  /\ icache' = [icache EXCEPT ![x.ip] = e]
  /\ dinode' = iupdate(dinode, e)
  /\ r' = [r EXCEPT ![p] = Put([x EXCEPT !.ip = 0], x.ip, "idle")]
  /\ UNCHANGED <<file, cwd, made, history>>

\* The second of two iputs, of ip; its lock, if held, is given up first.
put_ip(p) ==
  LET x == r[p] IN
  /\ x.pc = "putip"
  /\ icache' = [icache EXCEPT ![x.ip].lock = IF @ = p THEN Nobody ELSE @]
  /\ r' = [r EXCEPT ![p] = Put([x EXCEPT !.ip = 0], x.ip, "idle")]
  /\ UNCHANGED <<dinode, file, cwd, made, history>>

-----------------------------------------------------------------------------
(* sys_unlink *)

isdirempty(i) == \A n \in Name : dinode[i].ents[n] = 0

sys_unlink(p) ==
  LET x == r[p]  s == x.dp  e == ilock(s)  n == dirlookup(e, x.name) IN
  /\ x.pc = "unlink"
  /\ MayLock(s)
  /\ IF x.name = ".." \/ n = 0
       THEN /\ icache' = [icache EXCEPT ![s] = e]
            /\ r' = [r EXCEPT ![p] = Put([x EXCEPT !.dp = 0], s, "idle")]
       ELSE /\ icache' = iget([icache EXCEPT ![s] = [e EXCEPT !.lock = p]], n)
            /\ r' = [r EXCEPT ![p].pc = "unlink_entry", ![p].ip = iget_slot(n)]
  /\ UNCHANGED <<dinode, file, cwd, made, history>>

\* With both locked: erase the entry, unlock the directory and drop it.
unlink_entry(p) ==
  LET x == r[p]  e == ilock(x.ip)  d == icache[x.dp]
      d1 == IF e.type = "dir" THEN [d EXCEPT !.nlink = @ - 1] ELSE d
  IN
  /\ x.pc = "unlink_entry"
  /\ MayLock(x.ip)
  /\ IF e.nlink < 1                      \* panic("unlink: nlink < 1")
       THEN /\ r' = [r EXCEPT ![p].pc = "panic"]
            /\ UNCHANGED <<dinode, icache>>
     ELSE IF e.type = "dir" /\ ~isdirempty(e.inum)
       THEN /\ icache' = [icache EXCEPT ![x.ip] = e]
            /\ r' = [r EXCEPT ![p] = Put([x EXCEPT !.ip = 0], x.ip, "unlink_bad")]
            /\ UNCHANGED dinode
       ELSE /\ icache' = [icache EXCEPT ![x.ip] = [e EXCEPT !.lock = p],
                                        ![x.dp] = [d1 EXCEPT !.lock = Nobody]]
            /\ dinode' = iupdate([dinode EXCEPT ![d.inum].ents[x.name] = 0], d1)
            /\ r' = [r EXCEPT ![p] = Put([x EXCEPT !.dp = 0], x.dp, "unlink_ip")]
  /\ UNCHANGED <<file, cwd, made, history>>

unlink_bad(p) ==
  LET x == r[p] IN
  /\ x.pc = "unlink_bad"
  /\ icache' = [icache EXCEPT ![x.dp].lock = Nobody]
  /\ r' = [r EXCEPT ![p] = Put([x EXCEPT !.dp = 0], x.dp, "idle")]
  /\ UNCHANGED <<dinode, file, cwd, made, history>>

\* One link less; ip has been locked since unlink_entry.
unlink_ip(p) ==
  LET x == r[p]  e == [icache[x.ip] EXCEPT !.nlink = @ - 1, !.lock = Nobody] IN
  /\ x.pc = "unlink_ip"
  /\ icache' = [icache EXCEPT ![x.ip] = e]
  /\ dinode' = iupdate(dinode, e)
  /\ r' = [r EXCEPT ![p] = Put([x EXCEPT !.ip = 0], x.ip, "idle")]
  /\ UNCHANGED <<file, cwd, made, history>>

-----------------------------------------------------------------------------
(* create, for sys_open with O_CREATE, sys_mkdir and sys_mknod *)

TypeOf(op) == CASE op = "create" -> "file" [] op = "mkdir" -> "dir" [] op = "mknod" -> "dev"
FreeInums == {i \in Inums : dinode[i].type = "free"}
ialloc(i, type) == [dinode EXCEPT ![i] = [FreeInode EXCEPT !.type = type]]

\* The name exists, or ialloc marks a free inode allocated.  Without a free
\* inode ialloc panics: the call goes no further.
create(p) ==
  LET x == r[p]  s == x.dp  e == ilock(s)  n == dirlookup(e, x.name)  i == First(FreeInums) IN
  /\ x.pc \in {"create", "mkdir", "mknod"}
  /\ MayLock(s)
  /\ IF n # 0
       THEN /\ icache' = iget([icache EXCEPT ![s] = e], n)
            /\ r' = [r EXCEPT ![p] = Put([x EXCEPT !.dp = 0, !.ip = iget_slot(n)], s, "exists")]
            /\ UNCHANGED dinode
       ELSE /\ FreeInums # {}
            /\ dinode' = ialloc(i, TypeOf(x.op))
            /\ icache' = iget([icache EXCEPT ![s] = [e EXCEPT !.lock = p]], i)
            /\ r' = [r EXCEPT ![p].pc = "create_entry", ![p].ip = iget_slot(i)]
  /\ stray' = (stray \/ FromRemoved(e, x.name))
  /\ UNCHANGED <<file, cwd, made, orphan>>

create_exists(p) ==
  LET x == r[p]  e == ilock(x.ip) IN
  /\ x.pc = "exists"
  /\ MayLock(x.ip)
  /\ icache' = [icache EXCEPT ![x.ip] = e]
  /\ IF x.op = "create" /\ e.type = "file"
       THEN Opened(p, x.ip)
       ELSE /\ r' = [r EXCEPT ![p] = Put([x EXCEPT !.ip = 0], x.ip, "idle")]
            /\ UNCHANGED file
  /\ UNCHANGED <<dinode, cwd, made, history>>

\* The new inode's fields, "..", the entry; the directory is unlocked and
\* dropped while the new inode stays locked.
create_entry(p) ==
  LET x == r[p]
      e == [ilock(x.ip) EXCEPT !.nlink = 1, !.lock = p]
      d == icache[x.dp]
      d1 == IF x.op = "mkdir" THEN [d EXCEPT !.nlink = @ + 1] ELSE d
  IN
  /\ x.pc = "create_entry"
  /\ MayLock(x.ip)
  /\ icache' = [icache EXCEPT ![x.ip] = e, ![x.dp] = [d1 EXCEPT !.lock = Nobody]]
  /\ dinode' = iupdate(iupdate(dirlink([dinode EXCEPT ![e.inum].parent = IF x.op = "mkdir" THEN d.inum ELSE 0],
                                       d, x.name, e.inum), e), d1)
  /\ r' = [r EXCEPT ![p] = Put([x EXCEPT !.dp = 0], x.dp,
                               IF x.op = "create" THEN "created" ELSE "putip")]
  /\ orphan' = Orphaned(d, e.inum)
  /\ UNCHANGED <<file, cwd, made, stray>>

created(p) ==
  /\ r[p].pc = "created"
  /\ icache' = [icache EXCEPT ![r[p].ip].lock = Nobody]
  /\ Opened(p, r[p].ip)
  /\ UNCHANGED <<dinode, cwd, made, history>>

-----------------------------------------------------------------------------

Begin(p) ==
  \E op \in Calls \ {"close"}, path \in Paths :
    \E path2 \in IF op = "link" THEN NewPaths ELSE {NoPath} : Start(p, op, path, path2)

Next ==
  \E p \in Procs :
    \/ Begin(p) \/ namex(p) \/ ilock_panic(p)
    \/ iput(p) \/ iput_free(p) \/ iput_deref(p)
    \/ sys_open(p) \/ sys_chdir(p) \/ sys_close(p)
    \/ sys_link(p) \/ link_entry(p) \/ link_bad(p) \/ link_undo(p) \/ put_ip(p)
    \/ sys_unlink(p) \/ unlink_entry(p) \/ unlink_bad(p) \/ unlink_ip(p)
    \/ create(p) \/ create_exists(p) \/ create_entry(p) \/ created(p)

Spec == Init /\ [][Next]_vars

-----------------------------------------------------------------------------
(* Properties *)

Ptr(p, k) == CASE k = "file" -> file[p] [] k = "cwd" -> cwd[p] [] OTHER -> r[p][k]
Regs == {"w", "ip", "dp", "file", "cwd"}

\* "ip->ref tracks the number of in-memory pointers to the entry" (fs.c), so no
\* entry in use is recycled and none is kept for ever.
RefsArePointers ==
  \A s \in Slots : icache[s].ref =
    Cardinality({<<p, k>> \in Procs \X (Regs \cup {"put"}) : Ptr(p, k) = s})

\* A pointer, whether from a lookup, a descriptor or cwd, never leads to an
\* inode that iput has freed, as long as nobody looks up ".." in a directory that
\* was removed while they were in it.  That entry still names the parent, which
\* may be gone too, or be another inode by now, and dirlookup does not ask.
NoUseAfterFree ==
  ~stray => \A p \in Procs, k \in Regs :
              Ptr(p, k) # 0 => dinode[icache[Ptr(p, k)].inum].type # "free"

\* Without that condition ilock's panic "no type" is within reach: a process in
\* a/b, when a/b and then a are removed, looks up "..".  (Does not hold.)
NoPanic == \A p \in Procs : r[p].pc # "panic"

\* An entry that is valid agrees with the disk, also when its inode has been
\* freed and allocated again behind it.
CacheAgrees ==
  \A s \in Slots : icache[s].valid =>
    LET d == dinode[icache[s].inum] IN icache[s].type = d.type /\ icache[s].nlink = d.nlink

\* nlink is "the number of links referring to it" (fs.c): the entries with the
\* inode's number, the ".." of the directories below it, and the links that
\* sys_link and sys_unlink are about to make or have just erased.  It is never
\* less, so no inode is freed while an entry names it.  It may stay more for the
\* inodes in orphan: create and sys_link find the directory, lock it only later,
\* and do not ask whether it has been removed meanwhile; what they put there keeps
\* its link when the directory is freed, and is never freed itself.  And nothing is
\* said once somebody has looked up ".." in a removed directory: that can reach a
\* new inode between ialloc and the nlink = 1 of create.
Entries(i) == {<<d, n>> \in Inums \X Name : dinode[d].type = "dir" /\ dinode[d].ents[n] = i}
Below(i) == {n \in Name : dinode[i].ents[n] # 0 /\ dinode[dinode[i].ents[n]].type = "dir"}
Linking(i) ==
  {p \in Procs :
     /\ r[p].ip # 0 /\ icache[r[p].ip].inum = i
     /\ \/ r[p].op = "link" /\ "putip" \notin {r[p].pc, r[p].then}
        \/ r[p].op = "unlink" /\ "unlink_ip" \in {r[p].pc, r[p].then}}
Links(i) == Cardinality(Entries(i)) + Cardinality(Below(i)) + Cardinality(Linking(i))
            + (IF i = ROOTINO THEN 1 ELSE 0)
LinksCounted ==
  ~stray => \A i \in Inums : dinode[i].type # "free" =>
    /\ dinode[i].nlink >= Links(i)
    /\ i \notin orphan => dinode[i].nlink = Links(i)

\* Without the exception of orphan; it does not hold.
LinksExact ==
  ~stray => \A i \in Inums : dinode[i].type # "free" => dinode[i].nlink = Links(i)

\* "iput() frees if the reference and link counts have fallen to zero" (fs.c).
FreedWhenUnused ==
  \A i \in Inums : dinode[i].type # "free" /\ dinode[i].nlink = 0 =>
    \E s \in Slots : icache[s].ref > 0 /\ icache[s].inum = i

\* No processes wait in a circle for each other's inode locks.
NoLockCycle ==
  \A S \in SUBSET Procs : S # {} =>
    \E p \in S : Wants(p) = 0 \/ icache[Wants(p)].lock \notin S
=============================================================================
