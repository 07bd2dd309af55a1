----------------------------- MODULE FileSystem -----------------------------
(***************************************************************************)
(* Inodes, directories, path names and open files: kernel/fs.c, file.c and *)
(* the system calls of sysfile.c, for several processes, with crashes.     *)
(*                                                                         *)
(* A step runs from one ilock to the next, or through one iput: what is    *)
(* done under an inode's sleep lock is seen by nobody else before the lock *)
(* is released.  An iput that frees an inode takes three steps, for others *)
(* can have the inode before it has counted down.  The log appears as it   *)
(* does to this layer (AtomicDisk): the operations of a transaction reach  *)
(* the disk together, when the last of them ends, and a crash returns the  *)
(* disk to that point.                                                     *)
(*                                                                         *)
(* An inode's directory entries stand for its size, addrs and blocks; the  *)
(* bytes of plain files are in FileData.  The table of inodes is indexed   *)
(* by inum, since no two of its entries hold the same one.                 *)
(***************************************************************************)
EXTENDS Integers, Sequences, SequencesExt, FiniteSets

CONSTANTS Proc,
          NINODES,    \* inodes on the disk; 1 is the root
          NFILE, NOFILE,
          Requests,   \* calls made, with a path [abs |-> BOOLEAN, names |-> Seq]
          Trees,      \* the file trees to start from
          MaxSlots,   \* bound: entries of a directory, with "." and ".."
          MaxCalls,   \* bound: system calls made
          Nobody      \* no process

Inum == 1..NINODES
ROOTINO == 1
File == 1..NFILE
Fd == 1..NOFILE
NoCopy == [type |-> "unread", nlink |-> 0, ents |-> <<>>]   \* valid == 0

ASSUME FileSystemAssumption ==
  /\ NINODES \in Nat \ {0} /\ NFILE \in Nat /\ NOFILE \in Nat
  /\ MaxSlots \in Nat /\ MaxCalls \in Nat
  /\ Nobody \notin Proc

VARIABLES
  dinode,   \* the inodes on the disk, as read through the buffer cache
  stable,   \* the inodes on the disk, as a crash would leave them
  itable,   \* inum -> ref, the holder of the sleep lock, the copy
  ftable,   \* file -> ref, ip
  ofile, cwd,
  txn,      \* processes between begin_op and end_op
  l,        \* what each process executes, and its local variables
  lost,     \* history: inodes without links when a crash hit, those named in
            \* a directory removed before, and those that iput misses
  calls, panic

disk == <<dinode, stable>>
files == <<ftable, ofile, cwd>>
vars == <<disk, itable, files, txn, l, lost, calls, panic>>

Idle == [pc |-> "user", op |-> "", path |-> <<>>, new |-> <<>>,
         dp |-> 0, ip |-> 0, puts |-> <<>>, freeing |-> 0]
None == [Idle EXCEPT !.pc = "none"]

Free == [type |-> "free", nlink |-> 0, ents |-> <<>>]
Dirent(name, inum) == [name |-> name, inum |-> inum]
EmptyDir(i, parent) == [type |-> "DIR", nlink |-> 1,
                        ents |-> <<Dirent(".", i), Dirent("..", parent)>>]

\* One process runs, in some directory of a tree that is on the disk.
Init ==
  /\ dinode \in Trees
  /\ stable = dinode
  /\ \E first \in Proc, d \in {i \in Inum : dinode[i].type = "DIR"} :
       /\ cwd = [p \in Proc |-> IF p = first THEN d ELSE 0]
       /\ l = [p \in Proc |-> IF p = first THEN Idle ELSE None]
       /\ itable = [i \in Inum |-> [ref |-> IF i = d THEN 1 ELSE 0,
                                    lock |-> Nobody, copy |-> IF i = d THEN dinode[i] ELSE NoCopy]]
  /\ ftable = [f \in File |-> [ref |-> 0, ip |-> 0]]
  /\ ofile = [p \in Proc |-> [fd \in Fd |-> 0]]
  /\ txn = {}
  /\ lost = {}
  /\ calls = 0
  /\ panic = ""
-----------------------------------------------------------------------------
(* Faulty variants, named for the fault. *)

SharedUncounted(t, i) == t
AnyReferenceIsLast(i) == itable[i].copy # NoCopy /\ itable[i].copy.nlink = 0
CountedBeforeDrop(i) ==
  itable[i].ref = 2 /\ itable[i].copy # NoCopy /\ itable[i].copy.nlink = 0
ChecksOneSlotTooFew(d) == \A k \in 4..Len(d.ents) : d.ents[k].inum = 0
OnlyDotDot == {".."}

-----------------------------------------------------------------------------
(* The inode table *)

iget(t, i) == [t EXCEPT ![i].ref = @ + 1]
idup(t, i) == [t EXCEPT ![i].ref = @ + 1]

\* ip as ilock leaves it: read from the disk unless the copy is valid.
Inode(i) == IF itable[i].copy = NoCopy THEN dinode[i] ELSE itable[i].copy
Loaded(i) == [itable EXCEPT ![i].copy = Inode(i)]

LockFree(i) == itable[i].lock = Nobody
NoType(i) == itable[i].copy = NoCopy /\ dinode[i].type = "free"

\* ilock(ip) returns to the caller.
ilock(i) == LockFree(i) /\ ~NoType(i)

\* The caller keeps the lock, with ip->xxx = d, or gives it up.
Holding(t, p, i, d) == [t EXCEPT ![i].lock = p, ![i].copy = d]
iunlock(t, i, d) == [t EXCEPT ![i].lock = Nobody, ![i].copy = d]

iupdate(i, d) == [dinode EXCEPT ![i] = d]

\* ialloc takes the first free inode.
FreeInodes == {i \in Inum : dinode[i].type = "free"}
FirstFree == CHOOSE i \in FreeInodes : \A k \in FreeInodes : i <= k

\* The tests of iput.
LastUse(i) == itable[i].ref = 1 /\ itable[i].copy # NoCopy /\ itable[i].copy.nlink = 0

\* ip->ref--.  An entry without references is recycled by iget, which reads
\* the inode again.
Dropped(t, i) == [t EXCEPT ![i].ref = @ - 1,
                           ![i].copy = IF t[i].ref = 1 THEN NoCopy ELSE @]
-----------------------------------------------------------------------------
(* Directories *)

Used(d, name) == {k \in DOMAIN d.ents : d.ents[k].inum # 0 /\ d.ents[k].name = name}
Smallest(S) == CHOOSE k \in S : \A m \in S : k <= m

\* The inum dirlookup finds, or 0.
dirlookup(d, name) ==
  IF Used(d, name) = {} THEN 0 ELSE d.ents[Smallest(Used(d, name))].inum

Slot(d) == Smallest({k \in DOMAIN d.ents : d.ents[k].inum = 0} \cup {Len(d.ents) + 1})

\* dirlink(dp, name, inum) succeeds, leaving dp = Linked(...).  A new slot
\* may need a block, and the disk may be full.
CanLink(d, name) == dirlookup(d, name) = 0 /\ Slot(d) <= MaxSlots
CannotLink(d, name) == dirlookup(d, name) # 0 \/ Slot(d) > Len(d.ents)
Linked(d, name, inum) ==
  LET e == Dirent(name, inum) IN
  [d EXCEPT !.ents = IF Slot(d) > Len(@) THEN Append(@, e) ELSE [@ EXCEPT ![Slot(d)] = e]]

isdirempty(d) == \A k \in 3..Len(d.ents) : d.ents[k].inum = 0

\* sys_unlink writes a zeroed entry.
Unlinked(d, name) ==
  [d EXCEPT !.ents[Smallest(Used(d, name))] = Dirent("", 0)]
-----------------------------------------------------------------------------
(* Transactions, and the steps common to the system calls *)

At(p, s) == l[p].pc = s /\ l[p].puts = <<>> /\ l[p].freeing = 0

\* The next step of p is at s, with the other locals as f says.
Go(p, s, f) == l' = [l EXCEPT ![p] = [f EXCEPT !.pc = s]]

\* p goes on to s once it has put the inodes in q, in this order.
GoAfterPuts(p, s, q) ==
  Go(p, s, [l[p] EXCEPT !.dp = 0, !.ip = IF s = "end" THEN 0 ELSE @, !.puts = q])

\* What the transaction writes is on the disk once nobody is inside one.
end_op(p) ==
  /\ At(p, "end")
  /\ txn' = txn \ {p}
  /\ stable' = IF txn = {p} THEN dinode ELSE stable
  /\ l' = [l EXCEPT ![p] = IF @.op # "exit" THEN Idle
                           ELSE IF cwd[p] = 0 THEN None
                           ELSE [Idle EXCEPT !.pc = "exit"]]
  /\ UNCHANGED <<dinode, itable, files, calls, panic>>

\* iput(ip).  With the last reference to an inode without links goes the
\* inode; its lock is then taken with itable.lock held, so nobody may have it.
\* The free inode is written here; iput_unlock and iput_freed follow.
iput(p) ==
  /\ l[p].puts # <<>> /\ l[p].freeing = 0
  /\ LET i == Head(l[p].puts)
         rest == [l[p] EXCEPT !.puts = Tail(@)] IN
     IF ~LastUse(i)
       THEN /\ itable' = Dropped(itable, i)
            /\ l' = [l EXCEPT ![p] = rest]
            /\ UNCHANGED <<dinode, panic>>
       ELSE IF ~LockFree(i)
       THEN panic' = "sched locks" /\ UNCHANGED <<dinode, itable, l>>
       ELSE /\ dinode' = iupdate(i, Free)
            /\ itable' = Holding(itable, p, i, Free)
            /\ l' = [l EXCEPT ![p] = [rest EXCEPT !.freeing = i]]
            /\ UNCHANGED panic
  /\ UNCHANGED <<stable, files, txn, calls>>

\* ip->valid = 0; releasesleep.  From here on the inode may be somebody else's.
iput_unlock(p) ==
  /\ l[p].freeing # 0 /\ itable[l[p].freeing].lock = p
  /\ itable' = iunlock(itable, l[p].freeing, NoCopy)
  /\ UNCHANGED <<disk, files, txn, l, calls, panic>>

\* ip->ref--, whatever has become of the inode in between.
iput_freed(p) ==
  /\ l[p].freeing # 0 /\ itable[l[p].freeing].lock # p
  /\ itable' = Dropped(itable, l[p].freeing)
  /\ l' = [l EXCEPT ![p].freeing = 0]
  /\ UNCHANGED <<disk, files, txn, calls, panic>>

\* The inode a process locks next.
Target(p) == IF l[p].pc \in {"unlink2", "create2", "link_bad"} THEN l[p].ip ELSE l[p].dp
Locking == {"walk", "link1", "link2", "link_bad", "unlink1", "unlink2", "create1",
            "create2", "create_found", "open1", "chdir1"}

\* ilock finds an inode that is free on the disk.
ilock_panic(p) ==
  /\ At(p, l[p].pc) /\ l[p].pc \in Locking
  /\ LockFree(Target(p)) /\ NoType(Target(p))
  /\ panic' = "ilock: no type"
  /\ UNCHANGED <<disk, itable, files, txn, l, calls>>
-----------------------------------------------------------------------------
(* Path names *)

\* nameiparent or namei, and the step its caller takes next.
WantsParent(x) == x.op \in {"unlink", "create", "mkdir", "mknod"} \/ x.ip # 0
AfterWalk(x) ==
  CASE x.op = "link" -> IF x.ip = 0 THEN "link1" ELSE "link2"
    [] x.op = "unlink" -> "unlink1"
    [] x.op \in {"create", "mkdir", "mknod"} -> "create1"
    [] x.op \in {"open", "open_write"} -> "open1"
    [] x.op = "chdir" -> "chdir1"
Failed(x) == IF x.ip # 0 THEN "link_bad" ELSE "end"

\* The start of namex: a reference to the root or the current directory.
From(p, path) == IF path.abs THEN ROOTINO ELSE cwd[p]
StartWalk(p, x, path) ==
  LET y == [x EXCEPT !.path = path.names, !.dp = From(p, path)] IN
  Go(p, IF path.names = <<>> /\ ~WantsParent(y) THEN AfterWalk(y) ELSE "walk", y)

\* One round of namex's loop, or its end without an element to strip.
walk(p) ==
  LET x == l[p]
      d == Inode(x.dp)
      name == Head(x.path)
      next == dirlookup(d, name) IN
  /\ At(p, "walk")
  /\ IF x.path = <<>>
     THEN GoAfterPuts(p, Failed(x), <<x.dp>>) /\ UNCHANGED itable
     ELSE /\ ilock(x.dp)
          /\ CASE d.type = "DIR" /\ WantsParent(x) /\ Len(x.path) = 1 ->
                    /\ itable' = Loaded(x.dp)
                    /\ Go(p, AfterWalk(x), x)
               [] d.type = "DIR" /\ ~(WantsParent(x) /\ Len(x.path) = 1) /\ next # 0 ->
                    /\ itable' = iget(Loaded(x.dp), next)
                    /\ Go(p, IF Len(x.path) = 1 THEN AfterWalk(x) ELSE "walk",
                          [x EXCEPT !.path = Tail(@), !.dp = next, !.puts = <<x.dp>>])
               [] OTHER ->
                    /\ itable' = Loaded(x.dp)
                    /\ GoAfterPuts(p, Failed(x), <<x.dp>>)
  /\ UNCHANGED <<disk, files, txn, calls, panic>>

\* begin_op() and the first name of a system call.
Ops == {"link", "unlink", "create", "mkdir", "mknod", "open", "open_write", "chdir"}
begin(p, op, path, new) ==
  /\ op \in Ops
  /\ At(p, "user") /\ calls < MaxCalls
  /\ calls' = calls + 1
  /\ txn' = txn \cup {p}
  /\ itable' = iget(itable, From(p, path))
  /\ StartWalk(p, [Idle EXCEPT !.op = op, !.new = new], path)
  /\ UNCHANGED <<disk, files, panic>>
-----------------------------------------------------------------------------
(* link *)

link1(p) ==
  LET i == l[p].dp
      d == Inode(i)
      more == [d EXCEPT !.nlink = @ + 1] IN
  /\ At(p, "link1") /\ ilock(i)
  /\ IF d.type = "DIR"
     THEN /\ itable' = Loaded(i)
          /\ GoAfterPuts(p, "end", <<i>>)
          /\ UNCHANGED dinode
     ELSE /\ dinode' = iupdate(i, more)
          /\ itable' = iget(iunlock(itable, i, more), From(p, l[p].new))
          /\ StartWalk(p, [l[p] EXCEPT !.ip = i, !.new = <<>>], l[p].new)
  /\ UNCHANGED <<stable, files, txn, calls, panic>>

link2(p) ==
  LET i == l[p].dp
      d == Inode(i)
      name == Head(l[p].path) IN
  /\ At(p, "link2") /\ ilock(i)
  /\ \/ /\ CanLink(d, name)
        /\ dinode' = iupdate(i, Linked(d, name, l[p].ip))
        /\ itable' = iunlock(itable, i, Linked(d, name, l[p].ip))
        /\ GoAfterPuts(p, "end", <<i, l[p].ip>>)
     \/ /\ CannotLink(d, name)
        /\ itable' = Loaded(i)
        /\ GoAfterPuts(p, "link_bad", <<i>>)
        /\ UNCHANGED dinode
  /\ UNCHANGED <<stable, files, txn, calls, panic>>

link_bad(p) ==
  LET i == l[p].ip
      less == [Inode(i) EXCEPT !.nlink = @ - 1] IN
  /\ At(p, "link_bad") /\ ilock(i)
  /\ dinode' = iupdate(i, less)
  /\ itable' = iunlock(itable, i, less)
  /\ GoAfterPuts(p, "end", <<i>>)
  /\ UNCHANGED <<stable, files, txn, calls, panic>>
-----------------------------------------------------------------------------
(* unlink *)

Dots == {".", ".."}

unlink1(p) ==
  LET i == l[p].dp
      name == Head(l[p].path)
      found == dirlookup(Inode(i), name) IN
  /\ At(p, "unlink1") /\ ilock(i)
  /\ IF name \in Dots \/ found = 0
     THEN /\ itable' = Loaded(i)
          /\ GoAfterPuts(p, "end", <<i>>)
     ELSE /\ itable' = iget(Holding(itable, p, i, Inode(i)), found)
          /\ Go(p, "unlink2", [l[p] EXCEPT !.ip = found])
  /\ UNCHANGED <<disk, files, txn, calls, panic>>

\* With dp locked, the inode found in it.
unlink2(p) ==
  LET i == l[p].ip
      j == l[p].dp
      d == Inode(i)
      isdir == d.type = "DIR"
      parent == [Unlinked(Inode(j), Head(l[p].path)) EXCEPT !.nlink = IF isdir THEN @ - 1 ELSE @]
      child == [d EXCEPT !.nlink = @ - 1] IN
  /\ At(p, "unlink2") /\ ilock(i)
  /\ CASE d.nlink < 1 ->
            /\ panic' = "unlink: nlink < 1"
            /\ UNCHANGED <<dinode, itable, l>>
       [] d.nlink >= 1 /\ isdir /\ ~isdirempty(d) ->
            /\ itable' = iunlock(Loaded(i), j, Inode(j))
            /\ GoAfterPuts(p, "end", <<i, j>>)
            /\ UNCHANGED <<dinode, panic>>
       [] OTHER ->
            /\ dinode' = [dinode EXCEPT ![j] = parent, ![i] = child]
            /\ itable' = iunlock(iunlock(itable, j, parent), i, child)
            /\ GoAfterPuts(p, "end", <<j, i>>)
            /\ UNCHANGED panic
  /\ UNCHANGED <<stable, files, txn, calls>>
-----------------------------------------------------------------------------
(* create, and the calls that use it: open with O_CREATE, mkdir, mknod *)

Type(op) == CASE op = "create" -> "FILE" [] op = "mkdir" -> "DIR" [] op = "mknod" -> "DEVICE"

create1(p) ==
  LET i == l[p].dp
      found == dirlookup(Inode(i), Head(l[p].path))
      new == FirstFree IN
  /\ At(p, "create1") /\ ilock(i)
  /\ CASE found # 0 ->
            /\ itable' = iget(Loaded(i), found)
            /\ Go(p, "create_found", [l[p] EXCEPT !.dp = found, !.puts = <<i>>])
            /\ UNCHANGED dinode
       [] found = 0 /\ FreeInodes = {} ->
            /\ itable' = Loaded(i)
            /\ GoAfterPuts(p, "end", <<i>>)
            /\ UNCHANGED dinode
       [] OTHER ->
            /\ dinode' = iupdate(new, [Free EXCEPT !.type = Type(l[p].op)])
            /\ itable' = iget(Holding(itable, p, i, Inode(i)), new)
            /\ Go(p, "create2", [l[p] EXCEPT !.ip = new])
  /\ UNCHANGED <<stable, files, txn, calls, panic>>

\* The name exists: only open may have it, and only a file or a device.
create_found(p) ==
  LET i == l[p].dp IN
  /\ At(p, "create_found") /\ ilock(i)
  /\ IF l[p].op = "create" /\ Inode(i).type \in {"FILE", "DEVICE"}
     THEN /\ itable' = Holding(itable, p, i, Inode(i))
          /\ Go(p, "opened", l[p])
     ELSE /\ itable' = Loaded(i)
          /\ GoAfterPuts(p, "end", <<i>>)
  /\ UNCHANGED <<disk, files, txn, calls, panic>>

\* With dp locked, the new inode.  Its own entries and the entry for it may
\* each find the disk full.
create2(p) ==
  LET i == l[p].ip
      j == l[p].dp
      isdir == l[p].op = "mkdir"
      name == Head(l[p].path)
      made == IF isdir THEN EmptyDir(i, j) ELSE [Inode(i) EXCEPT !.nlink = 1]
      parent == [Linked(Inode(j), name, i) EXCEPT !.nlink = IF isdir THEN @ + 1 ELSE @] IN
  /\ At(p, "create2") /\ ilock(i)
  /\ \/ /\ CanLink(Inode(j), name)
        /\ dinode' = [dinode EXCEPT ![i] = made, ![j] = parent]
        /\ itable' = Holding(iunlock(itable, j, parent), p, i, made)
        /\ Go(p, IF l[p].op = "create" THEN "opened" ELSE "made",
              [l[p] EXCEPT !.dp = i, !.ip = 0, !.puts = <<j>>])
     \/ \E bad \in (IF isdir THEN {Inode(i)} ELSE {})
                    \cup (IF CannotLink(Inode(j), name) THEN {[made EXCEPT !.nlink = 0]} ELSE {}) :
        /\ dinode' = iupdate(i, bad)
        /\ itable' = iunlock(iunlock(itable, i, bad), j, Inode(j))
        /\ GoAfterPuts(p, "end", <<i, j>>)
  /\ UNCHANGED <<stable, files, txn, calls, panic>>

\* mkdir and mknod let go of what they made.
made(p) ==
  LET i == l[p].dp IN
  /\ At(p, "made")
  /\ itable' = iunlock(itable, i, Inode(i))
  /\ GoAfterPuts(p, "end", <<i>>)
  /\ UNCHANGED <<disk, files, txn, calls, panic>>
-----------------------------------------------------------------------------
(* open, chdir *)

FreeFd(p) == {fd \in Fd : ofile[p][fd] = 0}
FreeFile == {f \in File : ftable[f].ref = 0}

\* The end of sys_open: filealloc and fdalloc, or a failure of one of them or
\* of the test of a device's major number.
Opens(p, i) ==
  \/ /\ FreeFile # {} /\ FreeFd(p) # {}
     /\ LET f == Smallest(FreeFile) fd == Smallest(FreeFd(p)) IN
        /\ ftable' = [ftable EXCEPT ![f] = [ref |-> 1, ip |-> i]]
        /\ ofile' = [ofile EXCEPT ![p][fd] = f]
     /\ Go(p, "end", [l[p] EXCEPT !.dp = 0])
  \/ /\ FreeFile = {} \/ FreeFd(p) = {} \/ Inode(i).type = "DEVICE"
     /\ GoAfterPuts(p, "end", <<i>>)
     /\ UNCHANGED <<ftable, ofile>>

opened(p) ==
  /\ At(p, "opened")
  /\ Opens(p, l[p].dp)
  /\ itable' = iunlock(itable, l[p].dp, Inode(l[p].dp))
  /\ UNCHANGED <<disk, cwd, txn, calls, panic>>

open1(p) ==
  LET i == l[p].dp IN
  /\ At(p, "open1") /\ ilock(i)
  /\ itable' = Loaded(i)
  /\ IF Inode(i).type = "DIR" /\ l[p].op = "open_write"
     THEN GoAfterPuts(p, "end", <<i>>) /\ UNCHANGED <<ftable, ofile>>
     ELSE Opens(p, i)
  /\ UNCHANGED <<disk, cwd, txn, calls, panic>>

chdir1(p) ==
  LET i == l[p].dp IN
  /\ At(p, "chdir1") /\ ilock(i)
  /\ itable' = Loaded(i)
  /\ IF Inode(i).type # "DIR"
     THEN GoAfterPuts(p, "end", <<i>>) /\ UNCHANGED cwd
     ELSE GoAfterPuts(p, "end", <<cwd[p]>>) /\ cwd' = [cwd EXCEPT ![p] = i]
  /\ UNCHANGED <<disk, ftable, ofile, txn, calls, panic>>
-----------------------------------------------------------------------------
(* Open files, fork and exit *)

\* fileclose(ofile[p][fd]), the descriptor cleared, then s: with the last
\* reference to the file goes its reference to the inode, in a transaction.
fileclose(p, fd, s) ==
  LET f == ofile[p][fd] IN
  /\ ofile' = [ofile EXCEPT ![p][fd] = 0]
  /\ IF ftable[f].ref > 1
     THEN /\ ftable' = [ftable EXCEPT ![f].ref = @ - 1]
          /\ UNCHANGED <<txn, l>>
     ELSE /\ ftable' = [ftable EXCEPT ![f] = [ref |-> 0, ip |-> 0]]
          /\ txn' = txn \cup {p}
          /\ l' = [l EXCEPT ![p] = [Idle EXCEPT !.pc = "end", !.op = s,
                                                !.puts = <<ftable[f].ip>>]]
  /\ UNCHANGED <<disk, itable, cwd, calls, panic>>

sys_close(p, fd) == At(p, "user") /\ ofile[p][fd] # 0 /\ fileclose(p, fd, "close")

sys_dup(p, fd) ==
  /\ At(p, "user") /\ ofile[p][fd] # 0 /\ FreeFd(p) # {}
  /\ ofile' = [ofile EXCEPT ![p][Smallest(FreeFd(p))] = ofile[p][fd]]
  /\ ftable' = [ftable EXCEPT ![ofile[p][fd]].ref = @ + 1]
  /\ UNCHANGED <<disk, itable, cwd, txn, l, calls, panic>>

\* filestat, and fileread of an inode: ilock, look, iunlock.
filestat(p, fd) ==
  /\ At(p, "user") /\ ofile[p][fd] # 0
  /\ LET i == ftable[ofile[p][fd]].ip IN
     /\ LockFree(i)
     /\ IF NoType(i)
        THEN panic' = "ilock: no type" /\ UNCHANGED itable
        ELSE itable' = Loaded(i) /\ UNCHANGED panic
  /\ UNCHANGED <<disk, files, txn, l, calls>>

\* The part of fork that copies the open files and the current directory.
fork(p, q) ==
  /\ At(p, "user") /\ l[q].pc = "none"
  /\ l' = [l EXCEPT ![q] = Idle]
  /\ ofile' = [ofile EXCEPT ![q] = ofile[p]]
  /\ ftable' = [f \in File |->
       [ftable[f] EXCEPT !.ref = @ + Cardinality({fd \in Fd : ofile[p][fd] = f})]]
  /\ cwd' = [cwd EXCEPT ![q] = cwd[p]]
  /\ itable' = idup(itable, cwd[p])
  /\ UNCHANGED <<disk, txn, calls, panic>>

\* exit closes the open files one by one, then puts the current directory.
\* Somebody stays: init does not exit.
exit(p) ==
  /\ At(p, "user") /\ \E q \in Proc \ {p} : l[q].pc \notin {"none", "exit"} /\ l[q].op # "exit"
  /\ Go(p, "exit", Idle)
  /\ UNCHANGED <<disk, itable, files, txn, calls, panic>>

exit_files(p) ==
  LET open == Fd \ FreeFd(p) IN
  /\ At(p, "exit")
  /\ IF open # {}
     THEN fileclose(p, Smallest(open), "exit")
     ELSE /\ txn' = txn \cup {p}
          /\ cwd' = [cwd EXCEPT ![p] = 0]
          /\ Go(p, "end", [Idle EXCEPT !.op = "exit", !.puts = <<cwd[p]>>])
          /\ UNCHANGED <<disk, itable, ftable, ofile, calls, panic>>

\* Power failure and restart: recovery returns the disk to the last commit,
\* and init starts in the root directory.
crash ==
  /\ dinode' = stable
  /\ \E first \in Proc :
       /\ cwd' = [p \in Proc |-> IF p = first THEN ROOTINO ELSE 0]
       /\ l' = [p \in Proc |-> IF p = first THEN Idle ELSE None]
  /\ itable' = [i \in Inum |-> [ref |-> IF i = ROOTINO THEN 1 ELSE 0,
                                lock |-> Nobody, copy |-> NoCopy]]
  /\ ftable' = [f \in File |-> [ref |-> 0, ip |-> 0]]
  /\ ofile' = [p \in Proc |-> [fd \in Fd |-> 0]]
  /\ txn' = {}
  /\ lost' = lost \cup {i \in Inum : stable[i].type # "free" /\ stable[i].nlink = 0}
  /\ UNCHANGED <<stable, calls, panic>>
-----------------------------------------------------------------------------
Call(p) ==
  /\ At(p, "user")
  /\ \/ \E r \in Requests : begin(p, r.op, r.path, r.new)
     \/ \E fd \in Fd : sys_close(p, fd) \/ sys_dup(p, fd) \/ filestat(p, fd)
     \/ \E q \in Proc : fork(p, q)
     \/ exit(p)

Step(p) ==
  \/ end_op(p) \/ iput(p) \/ iput_unlock(p) \/ iput_freed(p) \/ ilock_panic(p) \/ walk(p)
  \/ link1(p) \/ link2(p) \/ link_bad(p)
  \/ unlink1(p) \/ unlink2(p)
  \/ create1(p) \/ create_found(p) \/ create2(p) \/ made(p)
  \/ opened(p) \/ open1(p) \/ chdir1(p)
  \/ exit_files(p)

\* Directories without a name that get an entry, and what they name.
Stray ==
  LET D == {d \in Inum : /\ dinode[d].type = "DIR" /\ dinode[d].nlink = 0
                         /\ Len(dinode[d].ents) > 1 /\ dinode'[d].ents # dinode[d].ents}
  IN D \cup UNION {{dinode'[d].ents[k].inum : k \in 3..Len(dinode'[d].ents)} : d \in D}

\* Inodes that were allocated anew, and have no links, when the iput that had
\* freed them before counts down their last reference.
Missed ==
  {i \in Inum : /\ dinode[i].type # "free" /\ dinode[i].nlink = 0 /\ itable[i].ref = 1
                /\ \E p \in Proc : l[p].freeing = i /\ l'[p].freeing = 0}

Next ==
  /\ panic = ""
  /\ \/ crash
     \/ (\E p \in Proc : Call(p) \/ Step(p)) /\ lost' = lost \cup Stray \cup Missed

Spec == Init /\ [][Next]_vars
-----------------------------------------------------------------------------
(* Properties *)

\* The kernel never panics: no process locks an inode that has been freed
\* (fs.c:314), looks a name up in something else than a directory, unlinks an
\* inode without links, or waits for the lock of an inode that iput is about
\* to free (fs.c:344), whatever others do between its namei and its ilock.
NoPanic ==
  /\ panic = ""
  /\ \A p \in Proc : At(p, l[p].pc) /\ l[p].pc \in {"link2", "unlink1", "create1"} =>
       Inode(l[p].dp).type = "DIR"

\* Reference counts are exact: ip->ref counts the open files, the current
\* directories and the calls in progress that point to the inode, and f->ref
\* the descriptors of all processes, through fork, dup, every error path and
\* the three steps of iput.
RefExact ==
  /\ \A i \in Inum :
       itable[i].ref = Cardinality({f \in File : ftable[f].ip = i})
                     + Cardinality({p \in Proc : cwd[p] = i})
                     + Cardinality({p \in Proc : l[p].dp = i})
                     + Cardinality({p \in Proc : l[p].ip = i})
                     + Cardinality({p \in Proc : l[p].freeing = i})
                     + Cardinality({x \in Proc \X {1, 2} :
                         x[2] \in DOMAIN l[x[1]].puts /\ l[x[1]].puts[x[2]] = i})
  /\ \A f \in File :
       ftable[f].ref = Cardinality({x \in Proc \X Fd : ofile[x[1]][x[2]] = f})

\* When no call is in progress, an inode without links that is still allocated
\* is in use, for whoever drops the last reference frees it, even when several
\* drop theirs together.  There are three ways for the code to leave one behind,
\* and no others: a crash while it is in use; an entry made in a directory that
\* had been removed; and an iput that frees the inode and, before it gets to
\* ip->ref-- (fs.c:360), is overtaken by a create that takes the inode and
\* fails, whose own iput sees two references: neither of them frees it then.
UnusedIsFreed ==
  txn = {} => \A i \in Inum :
    dinode[i].type # "free" /\ dinode[i].nlink = 0 => itable[i].ref > 0 \/ i \in lost

\* Whenever the machine stops, the disk holds a tree: what an entry names is
\* allocated and has as many links as entries, no directory has a name twice,
\* and every directory but the root has just one name, a ".." for the
\* directory of that name, and a link for each subdirectory.  Only what was
\* created in a directory already removed may have links without a name.
TreeOnDisk ==
  LET Ents(d) == stable[d].ents
      Names == UNION {{<<d, k>> : k \in {k \in 3..Len(Ents(d)) : Ents(d)[k].inum # 0}} : d \in Inum}
      To(i) == {x \in Names : Ents(x[1])[x[2]].inum = i}
      Subdirs(d) == {x \in Names : x[1] = d /\ stable[Ents(d)[x[2]].inum].type = "DIR"}
  IN \A d \in Inum :
       LET named == To(d) IN
       /\ named # {} => stable[d].type # "free" /\ stable[d].nlink >= Cardinality(named)
       /\ named = {} /\ d # ROOTINO /\ d \notin lost => stable[d].nlink = 0
       /\ stable[d].type # "DIR" /\ d \notin lost => stable[d].nlink = Cardinality(named)
       /\ \A j, k \in 1..Len(Ents(d)) :
            j < k /\ Ents(d)[k].inum # 0 /\ Ents(d)[j].inum # 0 => Ents(d)[j].name # Ents(d)[k].name
       /\ stable[d].type = "DIR" /\ (d = ROOTINO \/ named # {}) =>
            /\ stable[d].nlink = 1 + Cardinality(Subdirs(d))
            /\ \A x \in named : named = {x} /\ Ents(d)[2] = Dirent("..", x[1])

Waits(p) == At(p, l[p].pc) /\ l[p].pc \in Locking

\* No set of processes waits for inode locks that they hold themselves: a
\* parent directory is locked before its entry, and never the other way round.
NoDeadlock ==
  \A S \in SUBSET Proc : S # {} =>
    \E p \in S : ~Waits(p) \/ itable[Target(p)].lock \notin S
=============================================================================
