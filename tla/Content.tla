------------------------------- MODULE Content -------------------------------
(***************************************************************************)
(* The contents of files: the block bitmap, bmap with its single, double   *)
(* and triple indirect blocks, itrunc, writei and readi (fs.c), and the    *)
(* read, write, pread and pwrite that split a transfer into chunks         *)
(* (file.c).                                                               *)
(*                                                                         *)
(* A block is W words, whether it holds data or block numbers (512 bytes   *)
(* or 128 numbers in the code).  What a process does with an inode locked  *)
(* and inside one transaction is a step; it touches the bitmap only        *)
(* through balloc and bfree, each atomic under the bitmap block's lock and *)
(* each about a block no other process has.                                *)
(***************************************************************************)
EXTENDS Naturals, Sequences, FiniteSets, FiniteSetsExt

CONSTANTS
  Procs, Files, Fds,
  W,             \* words in a block: BSIZE, and NINDIRECT
  NDIRECT,
  NBLOCKS,       \* data blocks are 1..NBLOCKS - 1
  MAXOPBLOCKS,
  WriteSizes,    \* arguments of write,
  PwriteSizes,   \* of pwrite,
  Offsets,       \* and where it writes; of read
  ReadSizes,
  MaxCalls       \* calls in all

ASSUME SizeAssumption ==
  /\ W \in Nat \ {0} /\ NDIRECT \in Nat /\ NBLOCKS \in Nat /\ MAXOPBLOCKS \in Nat
  /\ \A n \in WriteSizes \cup PwriteSizes \cup ReadSizes : n \in 1..99

VARIABLES
  disk,      \* the data blocks
  used,      \* the bitmap: the blocks marked in use
  inode,     \* addrs and size of each file
  fd,        \* struct file: the file and the offset
  call,      \* the write or pwrite a process is in
  made,      \* calls started; also the mark on the words a call writes
  flat,      \* each file as a sequence of words: what the calls should leave
  last       \* the last completed transfer, while nobody has written over it

vars == <<disk, used, inode, fd, call, made, flat, last>>

NDOUINDIRECT == W * W
NTRIINDIRECT == W * W * W
MAXFILE == NDIRECT + W + NDOUINDIRECT + NTRIINDIRECT
Zeroed == [i \in 0..(W - 1) |-> 0]
Addrs == 0..(NDIRECT + 2)
NoCall == [kind |-> "none", d |-> 0, n |-> 0, i |-> 0, off |-> 0, from |-> 0, mark |-> 0, alone |-> TRUE]
NoTransfer == [kind |-> "none", n |-> 0, file |-> 0, from |-> 0, mark |-> 0]

Init ==
  /\ disk = [b \in 1..(NBLOCKS - 1) |-> Zeroed]
  /\ used = {}
  /\ inode = [f \in Files |-> [addrs |-> [a \in Addrs |-> 0], size |-> 0]]
  /\ fd \in [Fds -> {[file |-> f, off |-> 0] : f \in Files}]
  /\ call = [p \in Procs |-> NoCall]
  /\ made = 0
  /\ flat = [f \in Files |-> <<>>]
  /\ last = NoTransfer

-----------------------------------------------------------------------------
(* Blocks *)

\* balloc: the first free block; its callers mark it and zero it.
balloc(u) == CHOOSE b \in 1..(NBLOCKS - 1) : b \notin u /\ \A c \in 1..(b - 1) : c \in u

\* The entry of addrs that leads to block bn of a file, and the index to follow
\* in each indirect block on the way.
Route_swapped(bn) ==
  LET b1 == bn - NDIRECT
      b2 == b1 - W
      b3 == b2 - NDOUINDIRECT
  IN  IF bn < NDIRECT THEN [addr |-> bn, index |-> <<>>]
      ELSE IF b1 < W THEN [addr |-> NDIRECT, index |-> <<b1>>]
      ELSE IF b2 < NDOUINDIRECT
        THEN [addr |-> NDIRECT + 1, index |-> <<b2 \div W, b2 % W>>]
      ELSE [addr |-> NDIRECT + 2,
            index |-> <<b3 \div NDOUINDIRECT, (b3 % NDOUINDIRECT) \div W, b3 \div NDOUINDIRECT>>]
Route(bn) ==
  LET b1 == bn - NDIRECT
      b2 == b1 - W
      b3 == b2 - NDOUINDIRECT
  IN  IF bn < NDIRECT THEN [addr |-> bn, index |-> <<>>]
      ELSE IF b1 < W THEN [addr |-> NDIRECT, index |-> <<b1>>]
      ELSE IF b2 < NDOUINDIRECT
        THEN [addr |-> NDIRECT + 1, index |-> <<b2 \div W, b2 % W>>]
      ELSE [addr |-> NDIRECT + 2,
            index |-> <<b3 \div NDOUINDIRECT,
                        (b3 % NDOUINDIRECT) \div W,
                        (b3 % NDOUINDIRECT) % W>>]

\* One level down from block s.at, allocating the block that is not there.
Descend(s, i) ==
  LET b == balloc(s.used) IN
  IF s.disk[s.at][i] # 0 THEN [s EXCEPT !.at = s.disk[s.at][i]]
  ELSE [s EXCEPT !.used = @ \cup {b}, !.disk = [@ EXCEPT ![b] = Zeroed, ![s.at] = [@ EXCEPT ![i] = b]],
                 !.at = b]

\* bmap: s.at is the block that holds block bn of the file.
bmap(s, bn) ==
  LET rt == Route(bn)
      b  == balloc(s.used)
      level[i \in 0..Len(rt.index)] ==
        IF i > 0 THEN Descend(level[i - 1], rt.index[i])
        ELSE IF s.addrs[rt.addr] # 0 THEN [s EXCEPT !.at = s.addrs[rt.addr]]
        ELSE [s EXCEPT !.used = @ \cup {b}, !.disk[b] = Zeroed, !.addrs[rt.addr] = b, !.at = b]
  IN  level[Len(rt.index)]

\* The blocks an indirect block names.
Named(b) == {disk[b][i] : i \in DOMAIN disk[b]} \ {0}
NamedBy(S) == UNION {Named(b) : b \in S}

bfree(u, blocks) == u \ blocks

\* itrunc frees the direct blocks, then what hangs from each indirect block and
\* the block itself.
Freed_shallow(f) ==
  LET top(a) == {inode[f].addrs[a]} \ {0}
      one == top(NDIRECT)
      two == top(NDIRECT + 1)
      three == top(NDIRECT + 2)
  IN  UNION {top(a) : a \in 0..(NDIRECT - 1)}
      \cup one \cup NamedBy(one)
      \cup two \cup NamedBy(two) \cup NamedBy(NamedBy(two))
      \cup three \cup NamedBy(three) \cup NamedBy(NamedBy(NamedBy(three)))
Freed(f) ==
  LET top(a) == {inode[f].addrs[a]} \ {0}
      one == top(NDIRECT)
      two == top(NDIRECT + 1)
      three == top(NDIRECT + 2)
  IN  UNION {top(a) : a \in 0..(NDIRECT - 1)}
      \cup one \cup NamedBy(one)
      \cup two \cup NamedBy(two) \cup NamedBy(NamedBy(two))
      \cup three \cup NamedBy(three) \cup NamedBy(NamedBy(three))
      \cup NamedBy(NamedBy(NamedBy(three)))

-----------------------------------------------------------------------------
(* Transfers *)

\* Word k of the data of the call with this mark.
Word(mark, k) == 100 * mark + k

\* writei: n words of a call, from word i on, to offset off of file f.
writei_ok(f, off, n) == off <= inode[f].size /\ off + n <= MAXFILE * W
writei(f, off, mark, i, n) ==
  LET s0 == [disk |-> disk, used |-> used, addrs |-> inode[f].addrs, at |-> 0]
      store(s, k) ==
        LET s1 == bmap(s, (off + k) \div W) IN
        [s1 EXCEPT !.disk[s1.at][(off + k) % W] = Word(mark, i + k)]
      stored[k \in 0..n] == IF k = 0 THEN s0 ELSE store(stored[k - 1], k - 1)
  IN  /\ disk' = stored[n].disk
      /\ used' = stored[n].used
      /\ inode' = [inode EXCEPT ![f] = [addrs |-> stored[n].addrs, size |-> Max({@.size, off + n})]]

\* The same on the sequence: the words replace what was there, or extend it.
Splice(c, off, mark, i, n) ==
  [k \in 1..Max({Len(c), off + n}) |->
     IF k \in (off + 1)..(off + n) THEN Word(mark, i + k - off - 1) ELSE c[k]]

\* write and pwrite begin.
Begin(p, kind, d, n, off) ==
  /\ call[p] = NoCall /\ made < MaxCalls
  /\ made' = made + 1
  /\ call' = [call EXCEPT ![p] = [kind |-> kind, d |-> d, n |-> n, i |-> 0, off |-> off,
                                  from |-> IF kind = "write" THEN fd[d].off ELSE off,
                                  mark |-> made + 1, alone |-> TRUE]]
  /\ UNCHANGED <<disk, used, inode, fd, flat, last>>
sys_write(p) == \E d \in Fds, n \in WriteSizes : Begin(p, "write", d, n, 0)
sys_pwrite(p) == \E d \in Fds, n \in PwriteSizes, off \in Offsets : Begin(p, "pwrite", d, n, off)

\* What of a transfer should fit the log, and so goes into one transaction.
Chunk == ((MAXOPBLOCKS - 1 - 1 - 2) \div 2) * W

\* The calls in progress on file f, no longer alone with it.
Busy(q, f) == call[q] # NoCall /\ fd[call[q].d].file = f
Disturbed(f) ==
  [q \in Procs |-> IF Busy(q, f) THEN [call[q] EXCEPT !.alone = FALSE] ELSE call[q]]

\* A turn of the loop in filewrite and filepwrite.  write advances the file's
\* offset; pwrite writes at the offset it was given.
Transfer(p, off, n1, fd1) ==
  LET c == call[p]  f == fd[c.d].file IN
  /\ IF writei_ok(f, off, n1)
       THEN /\ writei(f, off, c.mark, c.i, n1)
            /\ flat' = [flat EXCEPT ![f] = Splice(@, off, c.mark, c.i, n1)]
            /\ fd' = fd1
            /\ IF c.i + n1 = c.n
                 THEN /\ call' = [Disturbed(f) EXCEPT ![p] = NoCall]
                      /\ last' = IF c.alone
                                   THEN [kind |-> c.kind, n |-> c.n, file |-> f,
                                         from |-> c.from, mark |-> c.mark]
                                   ELSE NoTransfer
                 ELSE /\ call' = [Disturbed(f) EXCEPT ![p] = [c EXCEPT !.i = c.i + n1]]
                      /\ last' = NoTransfer
       ELSE /\ call' = [call EXCEPT ![p] = NoCall]          \* -1, chunks written or not
            /\ UNCHANGED <<disk, used, inode, fd, flat, last>>
  /\ UNCHANGED made
Part(c) == Min({c.n - c.i, Chunk})

filewrite_stuck(p) ==
  LET c == call[p] IN
  /\ c.kind = "write"
  /\ Transfer(p, fd[c.d].off, Part(c), fd)
filewrite(p) ==
  LET c == call[p] IN
  /\ c.kind = "write"
  /\ Transfer(p, fd[c.d].off, Part(c), [fd EXCEPT ![c.d].off = @ + Part(c)])
filepwrite(p) ==
  LET c == call[p] IN
  /\ c.kind = "pwrite"
  /\ Transfer(p, c.off, Part(c), fd)

\* readi takes what is left of the file at most; pread leaves the offset alone.
readi(f, off, n) == Min({n, inode[f].size - off})
fileread(p, d, n) ==
  /\ call[p] = NoCall
  /\ fd[d].off < inode[fd[d].file].size
  /\ fd' = [fd EXCEPT ![d].off = @ + readi(fd[d].file, @, n)]
  /\ call' = Disturbed(fd[d].file)
  /\ UNCHANGED <<disk, used, inode, made, flat, last>>
sys_read(p) == \E d \in Fds, n \in ReadSizes : fileread(p, d, n)

\* The file has no link and no user left: iput truncates it.  Its number is
\* free for a new file, opened at offset 0.
itrunc(f) ==
  /\ \A p \in Procs : ~Busy(p, f)
  /\ inode[f].size > 0
  /\ used' = bfree(used, Freed(f))
  /\ inode' = [inode EXCEPT ![f] = [addrs |-> [a \in Addrs |-> 0], size |-> 0]]
  /\ fd' = [d \in Fds |-> IF fd[d].file = f THEN [fd[d] EXCEPT !.off = 0] ELSE fd[d]]
  /\ flat' = [flat EXCEPT ![f] = <<>>]
  /\ last' = NoTransfer
  /\ UNCHANGED <<disk, call, made>>

Next ==
  \/ \E p \in Procs : sys_write(p) \/ sys_pwrite(p) \/ sys_read(p) \/ filewrite(p) \/ filepwrite(p)
  \/ \E f \in Files : itrunc(f)

Spec == Init /\ [][Next]_vars

-----------------------------------------------------------------------------
(* Properties *)

\* Follow the route without allocating; 0 is no block.
Levels(f, bn) ==
  LET rt == Route(bn)
      level[i \in 0..Len(rt.index)] ==
        IF i = 0 THEN inode[f].addrs[rt.addr]
        ELSE IF level[i - 1] = 0 THEN 0 ELSE disk[level[i - 1]][rt.index[i]]
  IN  level
BlockOf(f, bn) == Levels(f, bn)[Len(Route(bn).index)]
Owned(f) ==
  UNION {LET l == Levels(f, bn) IN {l[i] : i \in DOMAIN l} : bn \in 0..(MAXFILE - 1)} \ {0}

\* Every file reads back, word for word, as the sequence the writes to it make,
\* through direct, single, double and triple indirect blocks: no write to one
\* file changes another, no block is zeroed under its owner.
ReadsBack ==
  \A f \in Files :
    /\ Len(flat[f]) = inode[f].size
    /\ \A bn \in 0..(MAXFILE - 1) : bn * W < inode[f].size =>
         LET b == BlockOf(f, bn) IN
         /\ b # 0
         /\ \A k \in 1..W : bn * W + k <= inode[f].size => disk[b][k - 1] = flat[f][bn * W + k]

\* The blocks marked in use are those some file leads to, each along one route:
\* itrunc's loops give back exactly what bmap took, so bfree never meets a free
\* block and no block is lost.
BitmapExact ==
  LET owned == [f \in Files |-> Owned(f)] IN
  /\ used = UNION {owned[f] : f \in Files}
  /\ \A f, g \in Files : f # g => owned[f] \cap owned[g] = {}
  /\ \A f \in Files :
       LET blocks == [bn \in 0..(MAXFILE - 1) |-> BlockOf(f, bn)]
           there == {bn \in DOMAIN blocks : blocks[bn] # 0}
       IN  Cardinality({blocks[bn] : bn \in there}) = Cardinality(there)

\* The n words of the last completed transfer are where it was asked to put them.
Landed == \A k \in 1..last.n : flat[last.file][last.from + k] = Word(last.mark, k - 1)

\* A write that returned n, with no other call on the file meanwhile, left its n
\* words from the file's offset on, however many of filewrite's chunks it took
\* and whatever other files' chunks fell between them.
WriteLands == last.kind = "write" => Landed

\* The same of pwrite and the offset it was given, which pwritetest.c
\* (test_pwrite3) expects.  It holds for one chunk only: filepwrite writes every
\* chunk at the same offset (file.c:142).
PwriteLands == last.kind = "pwrite" => Landed
=============================================================================
