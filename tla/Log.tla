-------------------------------- MODULE Log --------------------------------
(***************************************************************************)
(* The write-ahead log of the file system, kernel/log.c, together with the *)
(* part of the buffer cache it relies on (pinned buffers are not recycled, *)
(* kernel/bio.c) and the disk.                                             *)
(*                                                                         *)
(* Processes run FS system calls: begin_op, any number of                  *)
(* bread/modify/log_write/brelse, end_op.  The process whose end_op finds  *)
(* no other call outstanding runs commit, one disk write per step.  A      *)
(* crash may come between any two steps and may tear the data block that   *)
(* is being written; the header block is 4*(1+LOGSIZE) < 512 bytes, one    *)
(* sector, and is written whole.  After a crash initproc runs initlog      *)
(* before anything else uses the disk, and it may crash as well.           *)
(*                                                                         *)
(* Steps under log.lock are single actions.  Log blocks and the header     *)
(* are only changed through bwrite by the process that is committing or    *)
(* recovering, so their cached copies are not kept apart from the disk.    *)
(***************************************************************************)
EXTENDS Integers, Sequences, FiniteSets

CONSTANTS Proc,         \* processes that make FS system calls
          initproc,     \* the process that runs initlog at boot
          Block,        \* home block numbers
          Data,         \* contents of a block
          Torn,         \* contents of a block whose write a crash cut short
          Absent,       \* the block is not in the buffer cache
          MAXOPBLOCKS,  \* max # of blocks an FS op may write (param.h)
          LOGSIZE,      \* room in the in-memory header (param.h)
          NLOG,         \* log.size: header and log blocks on disk (mkfs.c)
          OpBlocks      \* distinct blocks the ops of this instance write

ASSUME LogAssumption ==
  /\ IsFiniteSet(Proc)
  /\ initproc \in Proc
  /\ Torn \notin Data /\ Absent \notin Data /\ Torn # Absent
  /\ MAXOPBLOCKS \in Nat \ {0} /\ LOGSIZE \in Nat /\ NLOG \in Nat
  /\ MAXOPBLOCKS <= LOGSIZE
  /\ OpBlocks \in Nat /\ OpBlocks <= MAXOPBLOCKS

VARIABLES
  home,         \* disk: home location of each block
  dlog,         \* disk: log blocks, 1 .. LOGSIZE
  hdr,          \* disk: the block numbers in the header block
  cache,        \* buffer cache: contents of each cached block, or Absent
  pin,          \* references the log holds on each buffer (bpin/bunpin)
  lh,           \* log.lh: block[0..n-1]
  outstanding,  \* log.outstanding
  committing,   \* log.committing
  pc,           \* where each process is
  tail,         \* loop variable of write_log and install_trans
  used          \* distinct blocks logged by the system call in progress

disk == <<home, dlog, hdr>>
mem  == <<cache, pin, lh, outstanding, committing>>
vars == <<disk, mem, pc, tail, used>>

BootPC   == {"read_head", "recover", "recover_clear"}
CommitPC == {"commit", "write_log", "write_head", "install", "clear_head",
             "end"}
PC == {"idle", "begin", "sleep", "op", "panic"} \cup BootPC \cup CommitPC

Entries(s) == {s[i] : i \in DOMAIN s}

\* A panic inside log_write or end_op spins holding log.lock for ever.
LockFree == \A p \in Proc : pc[p] # "panic"
Up == pc[initproc] \notin BootPC

\* What bread(b) leaves in the cache: the cached copy, else the disk's.
Bread(b) == IF cache[b] = Absent THEN home[b] ELSE cache[b]

(* Faulty variants of the definitions below, named for the fault; they stand
   in for them only to show that a property notices. *)
NoWakeup(f) == f
OpNotCounted == Len(lh) + outstanding * MAXOPBLOCKS > LOGSIZE
OneBlockShort(p) == tail[p] + 1 < Len(lh)

\* wakeup(&log): every sleeper goes back to the top of begin_op's loop.
Wakeup(f) == [p \in Proc |-> IF f[p] = "sleep" THEN "begin" ELSE f[p]]

\* No room for another op: the condition on which begin_op waits.
LogFull == Len(lh) + (outstanding + 1) * MAXOPBLOCKS > LOGSIZE

\* The transaction already has an entry for b.
Absorbed(b) == b \in Entries(lh)

bpin(b)   == [pin EXCEPT ![b] = @ + 1]
bunpin(b) == [pin EXCEPT ![b] = @ - 1]

\* The op that is ending is the last one outstanding.
LastOp == outstanding - 1 = 0

\* The loops of write_log and install_trans have a block to go.
MoreBlocks(p) == tail[p] < Len(lh)

Init == /\ home \in [Block -> Data]
        /\ dlog = [i \in 1..LOGSIZE |-> Torn]   \* nothing logged yet
        /\ hdr = <<>>
        /\ cache = [b \in Block |-> Absent]
        /\ pin = [b \in Block |-> 0]
        /\ lh = <<>>
        /\ outstanding = 0
        /\ committing = FALSE
        /\ pc = [p \in Proc |-> IF p = initproc THEN "read_head" ELSE "idle"]
        /\ tail = [p \in Proc |-> 0]
        /\ used = [p \in Proc |-> {}]
-----------------------------------------------------------------------------
(* System calls *)

begin_op(p) ==
  /\ Up /\ LockFree
  /\ pc[p] \in {"idle", "begin"}
  /\ IF committing \/ LogFull
       THEN /\ pc' = [pc EXCEPT ![p] = "sleep"]
            /\ UNCHANGED <<outstanding, used>>
       ELSE /\ pc' = [pc EXCEPT ![p] = "op"]
            /\ outstanding' = outstanding + 1
            /\ used' = [used EXCEPT ![p] = {}]
  /\ UNCHANGED <<disk, cache, pin, lh, committing, tail>>

\* bread(b), modify it to d, log_write, brelse.
log_write(p, b, d) ==
  /\ LockFree
  /\ pc[p] = "op"
  /\ Cardinality(used[p] \cup {b}) <= OpBlocks
  /\ IF Len(lh) >= LOGSIZE \/ Len(lh) >= NLOG - 1 \/ outstanding < 1
       THEN /\ pc' = [pc EXCEPT ![p] = "panic"]
            /\ UNCHANGED <<cache, pin, lh, used>>
       ELSE /\ cache' = [cache EXCEPT ![b] = d]
            /\ used' = [used EXCEPT ![p] = @ \cup {b}]
            /\ IF Absorbed(b)
                 THEN UNCHANGED <<lh, pin>>
                 ELSE /\ lh' = Append(lh, b)
                      /\ pin' = bpin(b)
            /\ UNCHANGED pc
  /\ UNCHANGED <<disk, outstanding, committing, tail>>

end_op(p) ==
  /\ LockFree
  /\ pc[p] = "op"
  /\ outstanding' = outstanding - 1
  /\ IF committing
       THEN /\ pc' = [pc EXCEPT ![p] = "panic"]
            /\ UNCHANGED committing
       ELSE IF LastOp
         THEN /\ committing' = TRUE
              /\ pc' = [pc EXCEPT ![p] = "commit"]
         ELSE /\ pc' = Wakeup([pc EXCEPT ![p] = "idle"])
              /\ UNCHANGED committing
  /\ UNCHANGED <<disk, cache, pin, lh, tail, used>>
-----------------------------------------------------------------------------
(* Commit, by the process whose end_op was the last *)

SingleBlockSkipped(p) ==
  /\ pc[p] = "commit"
  /\ pc' = [pc EXCEPT ![p] = IF Len(lh) > 1 THEN "write_log" ELSE "end"]
  /\ tail' = [tail EXCEPT ![p] = 0]
  /\ UNCHANGED <<disk, mem, used>>

commit(p) ==
  /\ pc[p] = "commit"
  /\ pc' = [pc EXCEPT ![p] = IF Len(lh) > 0 THEN "write_log" ELSE "end"]
  /\ tail' = [tail EXCEPT ![p] = 0]
  /\ UNCHANGED <<disk, mem, used>>

\* One iteration, or the exit, of write_log's loop.
write_log(p) ==
  /\ pc[p] = "write_log"
  /\ IF MoreBlocks(p)
       THEN LET b == lh[tail[p] + 1] IN
            /\ cache' = [cache EXCEPT ![b] = Bread(b)]
            /\ dlog' = [dlog EXCEPT ![tail[p] + 1] = Bread(b)]
            /\ tail' = [tail EXCEPT ![p] = @ + 1]
            /\ UNCHANGED pc
       ELSE /\ pc' = [pc EXCEPT ![p] = "write_head"]
            /\ UNCHANGED <<cache, dlog, tail>>
  /\ UNCHANGED <<home, hdr, pin, lh, outstanding, committing, used>>

\* The header block is written twice, with the entries to install and then
\* with none; next is where the caller goes on.
write_head(p, at, next) ==
  /\ pc[p] = at
  /\ hdr' = lh
  /\ tail' = [tail EXCEPT ![p] = 0]
  /\ pc' = [pc EXCEPT ![p] = next]
  /\ UNCHANGED <<home, dlog, mem, used>>

\* One iteration of install_trans's loop, or its exit and log.lh.n = 0.
install_trans(p, at, recovering, next) ==
  /\ pc[p] = at
  /\ IF MoreBlocks(p)
       THEN LET b == lh[tail[p] + 1] IN
            /\ cache' = [cache EXCEPT ![b] = dlog[tail[p] + 1]]
            /\ home' = [home EXCEPT ![b] = dlog[tail[p] + 1]]
            /\ pin' = IF recovering THEN pin ELSE bunpin(b)
            /\ tail' = [tail EXCEPT ![p] = @ + 1]
            /\ UNCHANGED <<lh, pc>>
       ELSE /\ lh' = <<>>
            /\ pc' = [pc EXCEPT ![p] = next]
            /\ UNCHANGED <<cache, home, pin, tail>>
  /\ UNCHANGED <<dlog, hdr, outstanding, committing, used>>

\* The rest of end_op, once commit has returned.
end_commit(p) ==
  /\ LockFree
  /\ pc[p] = "end"
  /\ committing' = FALSE
  /\ pc' = Wakeup([pc EXCEPT ![p] = "idle"])
  /\ UNCHANGED <<disk, cache, pin, lh, outstanding, tail, used>>

CommitStep(p) ==
  \/ commit(p)
  \/ write_log(p)
  \/ write_head(p, "write_head", "install")
  \/ install_trans(p, "install", FALSE, "clear_head")
  \/ write_head(p, "clear_head", "end")
  \/ end_commit(p)
-----------------------------------------------------------------------------
(* Boot: fsinit calls initlog in the first process *)

read_head(p) ==
  /\ pc[p] = "read_head"
  /\ lh' = hdr
  /\ tail' = [tail EXCEPT ![p] = 0]
  /\ pc' = [pc EXCEPT ![p] = "recover"]
  /\ UNCHANGED <<disk, cache, pin, outstanding, committing, used>>

recover_from_log(p) ==
  \/ read_head(p)
  \/ install_trans(p, "recover", TRUE, "recover_clear")
  \/ write_head(p, "recover_clear", "idle")
-----------------------------------------------------------------------------
(* Buffer cache and crashes *)

PinIgnored(b) ==
  /\ cache[b] # Absent
  /\ cache' = [cache EXCEPT ![b] = Absent]
  /\ UNCHANGED <<disk, pin, lh, outstanding, committing, pc, tail, used>>

\* A buffer without references is recycled for another block (bget).
recycle(b) ==
  /\ pin[b] = 0
  /\ cache[b] # Absent
  /\ cache' = [cache EXCEPT ![b] = Absent]
  /\ UNCHANGED <<disk, pin, lh, outstanding, committing, pc, tail, used>>

\* Anyone may read a block; reads need no transaction (fileread).
bread(b) ==
  /\ Up
  /\ cache[b] = Absent
  /\ cache' = [cache EXCEPT ![b] = home[b]]
  /\ UNCHANGED <<disk, pin, lh, outstanding, committing, pc, tail, used>>

\* Disk blocks with a write under way.
WritingLog ==
  {tail[p] + 1 :
     p \in {q \in Proc : pc[q] = "write_log" /\ tail[q] < Len(lh)}}
WritingHome ==
  {lh[tail[p] + 1] :
     p \in {q \in Proc : pc[q] \in {"install", "recover"}
                      /\ tail[q] < Len(lh)}}

crash ==
  /\ \E T \in SUBSET WritingLog :
       dlog' = [i \in 1..LOGSIZE |-> IF i \in T THEN Torn ELSE dlog[i]]
  /\ \E T \in SUBSET WritingHome :
       home' = [b \in Block |-> IF b \in T THEN Torn ELSE home[b]]
  /\ UNCHANGED hdr
  /\ cache' = [b \in Block |-> Absent]
  /\ pin' = [b \in Block |-> 0]
  /\ lh' = <<>>
  /\ outstanding' = 0
  /\ committing' = FALSE
  /\ pc' = [p \in Proc |-> IF p = initproc THEN "read_head" ELSE "idle"]
  /\ tail' = [p \in Proc |-> 0]
  /\ used' = [p \in Proc |-> {}]
-----------------------------------------------------------------------------
Next ==
  \/ \E p \in Proc : \/ begin_op(p) \/ end_op(p)
                     \/ CommitStep(p) \/ recover_from_log(p)
                     \/ \E b \in Block, d \in Data : log_write(p, b, d)
  \/ \E b \in Block : recycle(b) \/ bread(b)
  \/ crash

\* The scheduler runs every runnable process again and again: recovery and
\* a commit go on, a woken process retries, and a system call comes to its
\* end_op.  Nobody is obliged to start a call, and log.lock grants no order.
Fairness ==
  \A p \in Proc : /\ WF_vars(CommitStep(p))
                  /\ WF_vars(recover_from_log(p))
                  /\ WF_vars(end_op(p))
                  /\ WF_vars(pc[p] = "begin" /\ begin_op(p))

Spec == Init /\ [][Next]_vars
FairSpec == Spec /\ Fairness
-----------------------------------------------------------------------------
(* Properties *)

\* The contents of b after a crash now and a complete recovery.
Durable(b) ==
  IF b \in Entries(hdr) THEN dlog[CHOOSE i \in DOMAIN hdr : hdr[i] = b]
                        ELSE home[b]

\* The contents of b as the file system sees them.
View(b) == IF Up THEN Bread(b) ELSE Durable(b)

TypeOK ==
  /\ home \in [Block -> Data \cup {Torn}]
  /\ dlog \in [1..LOGSIZE -> Data \cup {Torn}]
  /\ hdr \in Seq(Block) /\ Len(hdr) <= LOGSIZE
  /\ cache \in [Block -> Data \cup {Torn, Absent}]
  /\ pin \in [Block -> 0..1]
  /\ lh \in Seq(Block) /\ Len(lh) <= LOGSIZE
  /\ outstanding \in Nat
  /\ committing \in BOOLEAN
  /\ pc \in [Proc -> PC]
  /\ tail \in [Proc -> 0..LOGSIZE]
  /\ used \in [Proc -> SUBSET Block]

\* The group of system calls committed last is what a crash leaves, whatever
\* it interrupts: the calls' writes become durable together, after all of
\* them have ended, and recovery restores exactly that state, even when it is
\* itself interrupted; readers of the running system always see the latest
\* write, whether the cache has kept the block or not.
Atomic == INSTANCE AtomicDisk
            WITH vol     <- [b \in Block |-> View(b)],
                 durable <- [b \in Block |-> Durable(b)],
                 active  <- {p \in Proc : pc[p] \in {"op", "panic"}}
CrashAtomic == Atomic!Spec

\* Whatever the header block names can be installed: every log block it
\* counts holds complete contents, no block number is there twice, and a home
\* block that a crash has torn is one of those recovery will overwrite.
CommittedLogIntact ==
  /\ \A i \in DOMAIN hdr : dlog[i] \in Data
  /\ \A i, j \in DOMAIN hdr : hdr[i] = hdr[j] => i = j
  /\ \A b \in Block : home[b] = Torn => b \in Entries(hdr)

\* A buffer that bget may recycle holds nothing the disk does not have: the
\* bpin of log_write lasts until install_trans has written the block home.
UnpinnedIsClean ==
  \A b \in Block : pin[b] = 0 /\ cache[b] # Absent => cache[b] = home[b]

\* Log appends are synchronous (log.c:31): once the last call has ended and
\* its end_op has returned, a crash loses nothing.
QuietIsDurable ==
  Up /\ outstanding = 0 /\ ~committing =>
    \A b \in Block : Durable(b) = View(b)

\* Once a commit runs it is the only one and no call is in progress, so that
\* it cannot write an unfinished call's updates (log.c:13-16).
CommitIsExclusive ==
  \A p, q \in Proc :
    pc[p] \in CommitPC => /\ committing
                          /\ pc[q] # "op"
                          /\ q # p => pc[q] \notin CommitPC

\* begin_op lets a call in only when "this op might exhaust log space"
\* (log.c:134) is ruled out: log_write never meets a full log, and end_op
\* never meets a commit in progress.
NoLogPanic == \A p \in Proc : pc[p] # "panic"

\* While processes wait to begin, calls keep being admitted: begin_op cannot
\* leave all of them waiting on one another (a crash ends the wait too).
SomeoneEnters ==
  (\E p \in Proc : pc[p] \in {"begin", "sleep"}) ~>
    (\E p \in Proc : pc[p] = "op") \/ ~Up
=============================================================================
