------------------------------ MODULE FileData ------------------------------
(***************************************************************************)
(* The contents of files: balloc, bfree, bmap, itrunc, readi and writei of *)
(* kernel/fs.c, under fileread and filewrite of file.c.  Processes share   *)
(* open files, and with them an offset.                                    *)
(*                                                                         *)
(* A block is BSIZE cells; a cell holds a byte, or, in an indirect block,  *)
(* an address.  A round of writei's loop is one step: the inode is locked, *)
(* but writers of other inodes allocate blocks in between.  The log is     *)
(* what AtomicDisk promises: a crash returns to the last commit.  A block  *)
(* changed without log_write is not in it, unless it is pinned already;    *)
(* the buffer cache may then drop the change.                              *)
(***************************************************************************)
EXTENDS Integers, Sequences, FiniteSets

CONSTANTS Proc,        \* positive numbers; process p writes bytes p
          File, Ino,
          ip,          \* file -> inode
          NBLOCKS,     \* blocks 1..NBLOCKS hold data
          NDIRECT,
          BSIZE,       \* cells in a block
          MaxWrite,    \* what filewrite writes in one transaction
          Writes, Reads,  \* sizes passed to write and read
          Images,      \* the disk images to start from
          MaxCalls,    \* bound: writes and truncations
          UintMax,     \* the largest unsigned int, above MAXFILE * BSIZE
          Nobody

NINDIRECT == BSIZE
MAXFILE == NDIRECT + NINDIRECT
Block == 1..NBLOCKS
Cells == 0..BSIZE-1
Zeros == [c \in Cells |-> 0]

VARIABLES
  fs,       \* used blocks, their cells, and addrs and size of the inodes
  pinned,   \* blocks in the log of the open transaction
  stable,   \* fs on the disk, as of the last commit
  lock,     \* inode -> process
  off,      \* f->off
  l,        \* the call of each process: file, bytes left, bytes of this round, done
  txn, calls

vars == <<fs, pinned, stable, lock, off, l, txn, calls>>

Idle == [pc |-> "user", f |-> 0, left |-> 0, n1 |-> 0, tot |-> 0]

Init ==
  /\ fs \in Images
  /\ pinned = {}
  /\ stable = fs
  /\ lock = [i \in Ino |-> Nobody]
  /\ off = [f \in File |-> 0]
  /\ l = [p \in Proc |-> Idle]
  /\ txn = {}
  /\ calls = 0
-----------------------------------------------------------------------------
(* Blocks.  An operator returns the new fs and an address, 0 for none. *)

Smallest(S) == CHOOSE b \in S : \A c \in S : b <= c

(* Faulty variants, named for the fault. *)
IndirectKept(s, i) ==
  [s EXCEPT !.used = @ \ {s.addrs[i][k] : k \in 0..NDIRECT},
            !.addrs[i] = [k \in 0..NDIRECT |-> 0], !.size[i] = 0]
NotZeroed(s) ==
  LET b == Smallest(Block \ s.used) IN
  IF s.used = Block THEN [fs |-> s, addr |-> 0]
  ELSE [fs |-> [s EXCEPT !.used = @ \cup {b}], addr |-> b]

\* The first free block, zeroed.
balloc(s) ==
  LET b == Smallest(Block \ s.used) IN
  IF s.used = Block THEN [fs |-> s, addr |-> 0]
  ELSE [fs |-> [s EXCEPT !.used = @ \cup {b}, !.blk[b] = Zeros], addr |-> b]

\* ip->addrs[k], allocated if need be.
Addr(s, i, k) ==
  LET r == balloc(s) IN
  IF s.addrs[i][k] # 0 THEN [fs |-> s, addr |-> s.addrs[i][k]]
  ELSE IF r.addr = 0 THEN r
  ELSE [r EXCEPT !.fs.addrs[i][k] = r.addr]

\* The address of block bn of inode i, allocated if need be.
bmap(s, i, bn) ==
  LET r == Addr(s, i, IF bn < NDIRECT THEN bn ELSE NDIRECT)
      cell == bn - NDIRECT
      a == balloc(r.fs) IN
  IF bn < NDIRECT \/ r.addr = 0 THEN r
  ELSE IF r.fs.blk[r.addr][cell] # 0 THEN [r EXCEPT !.addr = r.fs.blk[r.addr][cell]]
  ELSE IF a.addr = 0 THEN a
  ELSE [a EXCEPT !.fs.blk[r.addr][cell] = a.addr]

\* The blocks bmap logged: those it took, and an indirect block it changed.
Logged(s, t) == {b \in Block : b \in t.used \ s.used \/ s.blk[b] # t.blk[b]}

\* The blocks of inode i, and those its indirect block lists.
Direct(s, i) == {s.addrs[i][k] : k \in 0..NDIRECT} \ {0}
Indirect(s, i) ==
  IF s.addrs[i][NDIRECT] = 0 THEN {}
  ELSE {s.blk[s.addrs[i][NDIRECT]][c] : c \in Cells} \ {0}

itrunc(s, i) ==
  [s EXCEPT !.used = @ \ (Direct(s, i) \cup Indirect(s, i)),
            !.addrs[i] = [k \in 0..NDIRECT |-> 0], !.size[i] = 0]
-----------------------------------------------------------------------------
(* read and write *)

Uint(n) == n % (UintMax + 1)

\* The bytes readi delivers.
readi(i, o, n) ==
  IF o > fs.size[i] \/ Uint(o + n) < o THEN 0
  ELSE IF Uint(o + n) > fs.size[i] THEN fs.size[i] - o ELSE n

fileread(p, f, n) ==
  /\ l[p].pc = "user" /\ lock[ip[f]] = Nobody
  /\ off' = [off EXCEPT ![f] = @ + readi(ip[f], @, Uint(n))]
  /\ UNCHANGED <<fs, pinned, stable, lock, l, txn, calls>>

Round(n) == IF n > MaxWrite THEN MaxWrite ELSE n

begin(p, x) ==
  /\ l' = [l EXCEPT ![p] = x]
  /\ txn' = txn \cup {p}

filewrite(p, f, n) ==
  /\ l[p].pc = "user" /\ calls < MaxCalls
  /\ calls' = calls + 1
  /\ begin(p, [Idle EXCEPT !.pc = "ilock", !.f = f, !.left = n, !.n1 = Round(n)])
  /\ UNCHANGED <<fs, pinned, stable, lock, off>>

\* open with O_TRUNC; iput does the same to an inode without links.
open_trunc(p, f) ==
  /\ l[p].pc = "user" /\ calls < MaxCalls
  /\ calls' = calls + 1
  /\ begin(p, [Idle EXCEPT !.pc = "itrunc", !.f = f])
  /\ UNCHANGED <<fs, pinned, stable, lock, off>>

truncate(p) ==
  LET i == ip[l[p].f] IN
  /\ l[p].pc = "itrunc" /\ lock[i] = Nobody
  /\ fs' = itrunc(fs, i)
  /\ l' = [l EXCEPT ![p].pc = "end"]
  /\ UNCHANGED <<pinned, stable, lock, off, txn, calls>>

\* ilock, and the tests at the start of writei.
ilock(p) ==
  LET i == ip[l[p].f]
      o == off[l[p].f] IN
  /\ l[p].pc = "ilock" /\ lock[i] = Nobody
  /\ IF o > fs.size[i] \/ Uint(o + l[p].n1) < o \/ o + l[p].n1 > MAXFILE * BSIZE
     THEN l' = [l EXCEPT ![p].pc = "end", ![p].left = 0] /\ UNCHANGED lock
     ELSE l' = [l EXCEPT ![p].pc = "writei"] /\ lock' = [lock EXCEPT ![i] = p]
  /\ UNCHANGED <<fs, pinned, stable, off, txn, calls>>

\* One round of writei's loop: process p writes cells p.  The copy from user
\* memory may fail after some cells; the loop ends, with tot as it was.
writei(p) ==
  LET i == ip[l[p].f]
      o == off[l[p].f] + l[p].tot
      first == o % BSIZE
      m == IF l[p].n1 - l[p].tot < BSIZE - first THEN l[p].n1 - l[p].tot ELSE BSIZE - first
      r == bmap(fs, i, o \div BSIZE)
      Copied(k) == [r.fs EXCEPT !.blk[r.addr] =
                      [c \in Cells |-> IF first <= c /\ c < first + k THEN p ELSE @[c]]] IN
  /\ l[p].pc = "writei" /\ l[p].tot < l[p].n1
  /\ \/ /\ r.addr = 0
        /\ fs' = r.fs
        /\ pinned' = pinned \cup Logged(fs, r.fs)
        /\ l' = [l EXCEPT ![p].pc = "iupdate"]
     \/ /\ r.addr # 0
        /\ fs' = Copied(m)
        /\ pinned' = pinned \cup Logged(fs, r.fs) \cup {r.addr}
        /\ l' = [l EXCEPT ![p].tot = @ + m]
     \/ /\ r.addr # 0
        /\ \E k \in 0..m-1 : fs' = Copied(k)
        /\ pinned' = pinned \cup Logged(fs, r.fs)
        /\ l' = [l EXCEPT ![p].pc = "iupdate"]
  /\ UNCHANGED <<stable, lock, off, txn, calls>>

\* The end of writei, and of filewrite's round: the new size and offset.
iupdate(p) ==
  LET i == ip[l[p].f]
      o == off[l[p].f] + l[p].tot IN
  /\ l[p].pc = "iupdate" \/ (l[p].pc = "writei" /\ l[p].tot = l[p].n1)
  /\ fs' = [fs EXCEPT !.size[i] = IF o > @ THEN o ELSE @]
  /\ off' = [off EXCEPT ![l[p].f] = o]
  /\ lock' = [lock EXCEPT ![i] = Nobody]
  /\ l' = [l EXCEPT ![p].pc = "end",
                    ![p].left = IF l[p].tot = l[p].n1 THEN @ - l[p].tot ELSE 0]
  /\ UNCHANGED <<pinned, stable, txn, calls>>

\* end_op, and the next round of a long write, in a transaction of its own.
end_op(p) ==
  /\ l[p].pc = "end"
  /\ IF txn # {p} THEN UNCHANGED <<pinned, stable>>
     ELSE /\ stable' = [fs EXCEPT !.blk =
               [b \in Block |-> IF b \in pinned THEN @[b] ELSE stable.blk[b]]]
          /\ pinned' = {}
  /\ txn' = txn \ {p}
  /\ l' = [l EXCEPT ![p] =
       IF @.left = 0 THEN Idle
       ELSE [@ EXCEPT !.pc = "again", !.n1 = Round(l[p].left), !.tot = 0]]
  /\ UNCHANGED <<fs, lock, off, calls>>

begin_op(p) ==
  /\ l[p].pc = "again"
  /\ begin(p, [l[p] EXCEPT !.pc = "ilock"])
  /\ UNCHANGED <<fs, pinned, stable, lock, off, calls>>

\* The buffer of a block is recycled, and the block read again later.
bget(b) ==
  /\ b \notin pinned /\ fs.blk[b] # stable.blk[b]
  /\ fs' = [fs EXCEPT !.blk[b] = stable.blk[b]]
  /\ UNCHANGED <<pinned, stable, lock, off, l, txn, calls>>

\* Power failure; the files are opened anew.
crash ==
  /\ fs' = stable /\ pinned' = {}
  /\ lock' = [i \in Ino |-> Nobody]
  /\ off' = [f \in File |-> 0]
  /\ l' = [p \in Proc |-> Idle]
  /\ txn' = {}
  /\ UNCHANGED <<stable, calls>>

Step(p) == truncate(p) \/ ilock(p) \/ writei(p) \/ iupdate(p) \/ end_op(p) \/ begin_op(p)

Call(p, f) ==
  \/ open_trunc(p, f)
  \/ \E n \in Writes : filewrite(p, f, n)
  \/ \E n \in Reads : fileread(p, f, n)

Next == crash \/ (\E b \in Block : bget(b)) \/ \E p \in Proc : Step(p) \/ \E f \in File : Call(p, f)

Spec == Init /\ [][Next]_vars
-----------------------------------------------------------------------------
(* Properties *)

Pointers(s) ==
  {<<i, "d", k, s.addrs[i][k]>> : i \in Ino, k \in 0..NDIRECT}
  \cup UNION {{<<i, "i", c, s.blk[s.addrs[i][NDIRECT]][c]>> : c \in Cells} :
              i \in {j \in Ino : s.addrs[j][NDIRECT] # 0}}

BlockAt(s, i, bn) ==
  IF bn < NDIRECT THEN s.addrs[i][bn]
  ELSE IF s.addrs[i][NDIRECT] = 0 THEN 0
  ELSE s.blk[s.addrs[i][NDIRECT]][bn - NDIRECT]

\* Now and after any crash, the blocks in use are those some inode points to,
\* each from one place: none is lost when an allocation, a copy or the machine
\* fails half-way, and none is freed twice.  And a file has no hole, so that
\* readi, which runs outside a transaction, never allocates a block.
BlocksAccounted ==
  \A s \in {fs, stable} :
    LET P == {x \in Pointers(s) : x[4] # 0} IN
    /\ {x[4] : x \in P} = s.used /\ Cardinality(P) = Cardinality(s.used)
    /\ \A i \in Ino, bn \in 0..MAXFILE-1 :
         bn * BSIZE < s.size[i] => BlockAt(s, i, bn) # 0

Contents(s, i) ==
  [k \in 1..s.size[i] |-> s.blk[BlockAt(s, i, (k - 1) \div BSIZE)][(k - 1) % BSIZE]]

\* Bytes in the cache that no commit will save.
Loose(i) ==
  {k \in 1..fs.size[i] :
     LET b == BlockAt(fs, i, (k - 1) \div BSIZE)
         c == (k - 1) % BSIZE
     IN b \notin pinned /\ fs.blk[b][c] # stable.blk[b][c]}

Abstract == INSTANCE ByteFiles WITH Byte <- Proc,
              bytes <- [i \in Ino |-> Contents(fs, i)],
              saved <- [i \in Ino |-> Contents(stable, i)],
              loose <- [i \in Ino |-> Loose(i)]

\* A read moves the offset to the end of the file at most, for every n a
\* caller may pass, -1 included, which is the largest unsigned int.
StaysInside == \A f \in File : off'[f] > off[f] => off'[f] <= fs'.size[ip[f]]

\* Files are arrays of bytes: a write changes its own run of bytes, in its own
\* file, to what was written, whether blocks are direct, indirect or new,
\* whoever else allocates or frees blocks; only the bytes of a write whose copy
\* failed may be dropped again; a crash takes all files to the last commit; and
\* nobody reads beyond the end.
IsByteFiles == Abstract!Spec /\ [][StaysInside]_vars
=============================================================================
