---------------------------- MODULE BufferCache -----------------------------
(***************************************************************************)
(* The buffer cache, kernel/bio.c, with the uses the log makes of it.      *)
(* Each stretch under bcache.lock is one step; b->lock is a sleep lock     *)
(* (module SleepLock), taken in one step when it is free.  A buffer that   *)
(* has been changed is either written at once or pinned by log_write and   *)
(* written, then unpinned, by install_trans.                               *)
(***************************************************************************)
EXTENDS Integers, Sequences, FiniteSets

CONSTANTS Proc,      \* users of a buffer: a process that holds several at a
                     \* time stands for as many users
          Block, Data,
          Buf,       \* the NBUF buffers
          MaxPins,   \* blocks a transaction may pin (LOGSIZE)
          None

ASSUME CacheAssumption ==
  /\ IsFiniteSet(Buf) /\ IsFiniteSet(Proc) /\ MaxPins \in Nat
  /\ None \notin Proc /\ None \notin Buf /\ None \notin Block

VARIABLES
  blockno, valid, refcnt, data, lock,   \* struct buf
  lru,      \* the list from bcache.head.next to head.prev
  disk,     \* the blocks on disk
  pinned,   \* blocks that log_write has pinned
  pc, mine  \* each process: where it is, and its buffer

bufs == <<blockno, valid, refcnt, data, lock, lru>>
vars == <<bufs, disk, pinned, pc, mine>>

\* The list that binit links up, each buffer once.
AllBuffers == CHOOSE q \in [1..Cardinality(Buf) -> Buf] :
  \A u \in Buf : \E k \in 1..Cardinality(Buf) : q[k] = u

Init ==
  /\ blockno = [u \in Buf |-> None]      \* dev 0, which nobody uses
  /\ valid = [u \in Buf |-> FALSE]
  /\ refcnt = [u \in Buf |-> 0]
  /\ disk \in [Block -> Data]
  /\ \E d \in Data : data = [u \in Buf |-> d]
  /\ lock = [u \in Buf |-> None]
  /\ lru = AllBuffers
  /\ pinned = {}
  /\ pc = [p \in Proc |-> "idle"]
  /\ mine = [p \in Proc |-> None]

(* Faulty variants, named for the fault. *)
CachedCopyKept(u) == valid[u]
PinnedAnew(b) == TRUE

\* The buffer that caches b, if there is one.
Cached(b) == {u \in Buf : blockno[u] = b}

\* What the first loop of bget finds.
Hit(b) == Cached(b)

\* The buffers that bget may recycle.
Unused == {u \in Buf : refcnt[u] = 0}

\* Where a buffer is in the list.
Place(u) == CHOOSE k \in DOMAIN lru : lru[k] = u

\* The one nearest to the tail of the list.
LeastRecent(S) == CHOOSE u \in S : \A v \in S : Place(v) <= Place(u)

\* b->valid of a buffer given to another block.
Recycled(u) == FALSE

\* brelse unlinks an unused buffer and links it at the head of the list.
MovedToFront(u) ==
  <<u>> \o (SubSeq(lru, 1, Place(u) - 1) \o SubSeq(lru, Place(u) + 1, Len(lru)))

bunpin(u) == [refcnt EXCEPT ![u] = @ - 1]
Released(u) == [refcnt EXCEPT ![u] = @ - 1]

\* log_write pins a block that is not yet in the transaction.
NewInLog(b) == b \notin pinned
-----------------------------------------------------------------------------
\* bread(b): bget under bcache.lock, before acquiresleep.
bget(p, b) ==
  /\ pc[p] = "idle"
  /\ IF Hit(b) # {}
       THEN /\ mine' = [mine EXCEPT ![p] = CHOOSE u \in Hit(b) : TRUE]
            /\ refcnt' = [refcnt EXCEPT ![mine'[p]] = @ + 1]
            /\ pc' = [pc EXCEPT ![p] = "lock"]
            /\ UNCHANGED <<blockno, valid>>
       ELSE IF Unused # {}
       THEN /\ mine' = [mine EXCEPT ![p] = LeastRecent(Unused)]
            /\ blockno' = [blockno EXCEPT ![mine'[p]] = b]
            /\ valid' = [valid EXCEPT ![mine'[p]] = Recycled(mine'[p])]
            /\ refcnt' = [refcnt EXCEPT ![mine'[p]] = 1]
            /\ pc' = [pc EXCEPT ![p] = "lock"]
       ELSE /\ pc' = [pc EXCEPT ![p] = "panic"]
            /\ UNCHANGED <<mine, blockno, valid, refcnt>>
  /\ UNCHANGED <<data, lock, lru, disk, pinned>>

acquiresleep(p) ==
  /\ pc[p] = "lock" /\ lock[mine[p]] = None
  /\ lock' = [lock EXCEPT ![mine[p]] = p]
  /\ pc' = [pc EXCEPT ![p] = "check"]
  /\ UNCHANGED <<blockno, valid, refcnt, data, lru, disk, pinned, mine>>

\* The rest of bread: virtio_disk_rw if the buffer is not valid.
bread(p) ==
  /\ pc[p] = "check"
  /\ data' = IF valid[mine[p]] THEN data
             ELSE [data EXCEPT ![mine[p]] = disk[blockno[mine[p]]]]
  /\ valid' = [valid EXCEPT ![mine[p]] = TRUE]
  /\ pc' = [pc EXCEPT ![p] = "holds"]
  /\ UNCHANGED <<blockno, refcnt, lock, lru, disk, pinned, mine>>

\* The holder changes the buffer and writes it (write_log, write_head).
bwrite(p, d) ==
  /\ pc[p] = "holds" /\ blockno[mine[p]] \notin pinned
  /\ data' = [data EXCEPT ![mine[p]] = d]
  /\ disk' = [disk EXCEPT ![blockno[mine[p]]] = d]
  /\ UNCHANGED <<blockno, valid, refcnt, lock, lru, pinned, pc, mine>>

\* The holder changes the buffer and calls log_write, which pins it.
log_write(p, d) ==
  LET b == blockno[mine[p]] IN
  /\ pc[p] = "holds" /\ Cardinality(pinned \cup {b}) <= MaxPins
  /\ data' = [data EXCEPT ![mine[p]] = d]
  /\ refcnt' = IF NewInLog(b) THEN [refcnt EXCEPT ![mine[p]] = @ + 1] ELSE refcnt
  /\ pinned' = pinned \cup {b}
  /\ UNCHANGED <<blockno, valid, lock, lru, disk, pc, mine>>

\* install_trans: bwrite and bunpin of a logged block.
install(p) ==
  LET b == blockno[mine[p]] IN
  /\ pc[p] = "holds" /\ b \in pinned
  /\ disk' = [disk EXCEPT ![b] = data[mine[p]]]
  /\ refcnt' = bunpin(mine[p])
  /\ pinned' = pinned \ {b}
  /\ UNCHANGED <<blockno, valid, data, lock, lru, pc, mine>>

\* brelse: releasesleep first, the reference count after that.
releasesleep(p) ==
  /\ pc[p] = "holds"
  /\ lock' = [lock EXCEPT ![mine[p]] = None]
  /\ pc' = [pc EXCEPT ![p] = "brelse"]
  /\ UNCHANGED <<blockno, valid, refcnt, data, lru, disk, pinned, mine>>

brelse(p) ==
  LET u == mine[p] IN
  /\ pc[p] = "brelse"
  /\ refcnt' = Released(u)
  /\ lru' = IF refcnt'[u] = 0 THEN MovedToFront(u) ELSE lru
  /\ mine' = [mine EXCEPT ![p] = None]
  /\ pc' = [pc EXCEPT ![p] = "idle"]
  /\ UNCHANGED <<blockno, valid, data, lock, disk, pinned>>

Next ==
  \E p \in Proc :
    \/ \E b \in Block : bget(p, b)
    \/ acquiresleep(p) \/ bread(p) \/ install(p) \/ releasesleep(p) \/ brelse(p)
    \/ \E d \in Data : bwrite(p, d) \/ log_write(p, d)

Spec == Init /\ [][Next]_vars
-----------------------------------------------------------------------------
(* Properties *)

\* b->refcnt counts the processes that use or wait for the buffer and the
\* log's pin, so no buffer with a user or a pin is ever recycled; and bget does
\* not panic when the NBUF buffers exceed the log's pins by one per process
\* that holds a buffer.
RefcntExact ==
  /\ \A u \in Buf :
       refcnt[u] = Cardinality({p \in Proc : mine[p] = u})
                     + (IF blockno[u] \in pinned THEN 1 ELSE 0)
  /\ Cardinality(Buf) >= Cardinality(Proc) + MaxPins => \A p \in Proc : pc[p] # "panic"

\* The cache is coherent: together with the disk it is a store in which each
\* block has one value, held by one process at a time.
Value(b) == IF \E u \in Cached(b) : valid[u]
              THEN data[CHOOSE u \in Cached(b) : valid[u]]
              ELSE disk[b]
Holder(b) == LET H == {p \in Proc : pc[p] = "holds" /\ blockno[mine[p]] = b}
             IN  IF H = {} THEN None ELSE CHOOSE p \in H : TRUE
Store == INSTANCE BlockStore WITH val    <- [b \in Block |-> Value(b)],
                                  holder <- [b \in Block |-> Holder(b)]
IsBlockStore == Store!Spec
=============================================================================
