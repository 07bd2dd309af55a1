-------------------------------- MODULE Pipe --------------------------------
(***************************************************************************)
(* A pipe, kernel/pipe.c, from the moment pipealloc has returned it:       *)
(* processes that hold its ends write, read, close them and pass them on,  *)
(* and may be killed at any point.                                         *)
(*                                                                         *)
(* pi->lock is explicit, because kill() does not take it: a kill may come  *)
(* between the killed() test and the sleep() of the same loop iteration.   *)
(* sleep() releases pi->lock and marks the process asleep in one step      *)
(* (p->lock makes it so; see module Proc).                                 *)
(***************************************************************************)
EXTENDS Integers, Sequences, FiniteSets

CONSTANTS Proc,      \* processes that may hold an end
          creator,   \* the process that called pipe()
          Byte,      \* values of a byte
          PIPESIZE,  \* size of data[]
          UintMod,   \* 2^32: nread and nwrite are uint and wrap around
          MaxN,      \* bound: largest n of a read or write call
          None       \* nobody holds the lock

ASSUME PipeAssumption ==
  /\ creator \in Proc
  /\ None \notin Proc
  /\ PIPESIZE \in Nat \ {0} /\ UintMod \in Nat
  /\ PIPESIZE < UintMod /\ UintMod % PIPESIZE = 0
  /\ MaxN \in Nat

VARIABLES
  data, nread, nwrite, readopen, writeopen,   \* struct pipe
  lock,      \* holder of pi->lock, or None
  freed,     \* the page has been given back with kfree
  fd,        \* which ends each process holds ("r", "w")
  killed,    \* p->killed
  pc,        \* where each process is
  left       \* bytes the call in progress still has to move: n - i

pipe == <<data, nread, nwrite, readopen, writeopen>>
vars == <<pipe, lock, freed, fd, killed, pc, left>>

ReadPC  == {"r_acquire", "r_wait", "r_sleep", "r_asleep", "r_loop"}

(* Faulty variants, named for the fault. *)
NobodyWoken(f) == f
FreeOnFirstClose(r, w) == ~r \/ ~w

\* wakeup(chan): f after every process asleep on that channel has been woken;
\* each then has to take the lock again before it goes on.
Wakeup(f, asleep, woken) ==
  [p \in Proc |-> IF f[p] = asleep THEN woken ELSE f[p]]
WakeReaders(f) == Wakeup(f, "r_asleep", "r_acquire")
WakeWriters(f) == Wakeup(f, "w_asleep", "w_acquire")

Full  == nwrite = (nread + PIPESIZE) % UintMod
Empty == nread = nwrite

\* The ends pipeclose leaves open decide whether the page is freed.
LastClose(r, w) == ~r /\ ~w

Init ==
  /\ data \in [0..PIPESIZE-1 -> Byte]
  /\ nread = 0 /\ nwrite = 0
  /\ readopen = TRUE /\ writeopen = TRUE
  /\ lock = None
  /\ freed = FALSE
  /\ fd = [p \in Proc |-> IF p = creator THEN {"r", "w"} ELSE {}]
  /\ killed = [p \in Proc |-> FALSE]
  /\ pc = [p \in Proc |-> "user"]
  /\ left = [p \in Proc |-> 0]

Goto(p, l) == pc' = [pc EXCEPT ![p] = l]

Acquire(p, at, next) ==
  /\ pc[p] = at
  /\ lock = None
  /\ lock' = p
  /\ Goto(p, next)
  /\ UNCHANGED <<pipe, freed, fd, killed, left>>

\* sleep(chan, &pi->lock), up to the point where the process is asleep.
Sleep(p, at, asleep) ==
  /\ pc[p] = at
  /\ lock' = None
  /\ Goto(p, asleep)
  /\ UNCHANGED <<pipe, freed, fd, killed, left>>

\* release(&pi->lock) and return; f is pc after any wakeup.
Return(p, f) ==
  /\ lock' = None
  /\ pc' = [f EXCEPT ![p] = "user"]
  /\ left' = [left EXCEPT ![p] = 0]
-----------------------------------------------------------------------------
(* pipewrite *)

\* The call, up to acquire(&pi->lock).
Enter(p, e, k, next) ==
  /\ pc[p] = "user" /\ e \in fd[p] /\ ~killed[p]
  /\ lock = None
  /\ lock' = p
  /\ left' = [left EXCEPT ![p] = k]
  /\ Goto(p, next)
  /\ UNCHANGED <<pipe, freed, fd, killed>>

pipewrite(p, k) == Enter(p, "w", k, "w_loop")

\* Give up: no reader is left, or the caller has been killed.
WriteFails(p) ==
  /\ pc[p] = "w_loop" /\ left[p] > 0
  /\ ~readopen \/ killed[p]
  /\ Return(p, pc)
  /\ UNCHANGED <<pipe, freed, fd, killed>>

WriteFull(p) ==
  /\ pc[p] = "w_loop" /\ left[p] > 0
  /\ readopen /\ ~killed[p] /\ Full
  /\ pc' = [WakeReaders(pc) EXCEPT ![p] = "w_sleep"]
  /\ UNCHANGED <<pipe, lock, freed, fd, killed, left>>

StoresAtReadIndex(p, c) ==
  /\ pc[p] = "w_loop" /\ left[p] > 0
  /\ readopen /\ ~killed[p] /\ ~Full
  /\ data' = [data EXCEPT ![nread % PIPESIZE] = c]
  /\ nwrite' = (nwrite + 1) % UintMod
  /\ left' = [left EXCEPT ![p] = @ - 1]
  /\ UNCHANGED <<nread, readopen, writeopen, lock, freed, fd, killed, pc>>

WriteByte(p, c) ==
  /\ pc[p] = "w_loop" /\ left[p] > 0
  /\ readopen /\ ~killed[p] /\ ~Full
  /\ data' = [data EXCEPT ![nwrite % PIPESIZE] = c]
  /\ nwrite' = (nwrite + 1) % UintMod
  /\ left' = [left EXCEPT ![p] = @ - 1]
  /\ UNCHANGED <<nread, readopen, writeopen, lock, freed, fd, killed, pc>>

\* All bytes are in, or copyin has failed.
WriteDone(p) ==
  /\ pc[p] = "w_loop"
  /\ left[p] = 0 \/ (readopen /\ ~killed[p] /\ ~Full)
  /\ Return(p, WakeReaders(pc))
  /\ UNCHANGED <<pipe, freed, fd, killed>>

WriteStep(p) ==
  \/ Acquire(p, "w_acquire", "w_loop")
  \/ WriteFails(p)
  \/ WriteFull(p)
  \/ \E c \in Byte : WriteByte(p, c)
  \/ WriteDone(p)
  \/ Sleep(p, "w_sleep", "w_asleep")
-----------------------------------------------------------------------------
(* piperead *)

piperead(p, k) == Enter(p, "r", k, "r_wait")

ReadWait(p) ==
  /\ pc[p] = "r_wait"
  /\ IF Empty /\ writeopen /\ killed[p]
       THEN Return(p, pc)
       ELSE /\ Goto(p, IF Empty /\ writeopen THEN "r_sleep" ELSE "r_loop")
            /\ UNCHANGED <<lock, left>>
  /\ UNCHANGED <<pipe, freed, fd, killed>>

\* A byte is consumed even when copyout then fails and ends the call.
ReadByte(p, copied) ==
  /\ pc[p] = "r_loop" /\ left[p] > 0 /\ ~Empty
  /\ nread' = (nread + 1) % UintMod
  /\ IF copied
       THEN left' = [left EXCEPT ![p] = @ - 1] /\ UNCHANGED <<pc, lock>>
       ELSE Return(p, WakeWriters(pc))
  /\ UNCHANGED <<data, nwrite, readopen, writeopen, freed, fd, killed>>

ReadDone(p) ==
  /\ pc[p] = "r_loop"
  /\ left[p] = 0 \/ Empty
  /\ Return(p, WakeWriters(pc))
  /\ UNCHANGED <<pipe, freed, fd, killed>>

ReadStep(p) ==
  \/ Acquire(p, "r_acquire", "r_wait")
  \/ ReadWait(p)
  \/ Sleep(p, "r_sleep", "r_asleep")
  \/ \E copied \in BOOLEAN : ReadByte(p, copied)
  \/ ReadDone(p)
-----------------------------------------------------------------------------
(* Ends: fork and dup share them, close and exit give them up *)

filedup(p, q, e) ==
  /\ pc[p] = "user" /\ e \in fd[p] /\ ~killed[p]
  /\ pc[q] = "user" /\ e \notin fd[q] /\ ~killed[q]
  /\ fd' = [fd EXCEPT ![q] = @ \cup {e}]
  /\ UNCHANGED <<pipe, lock, freed, killed, pc, left>>

\* Only the last close of an end reaches pipeclose.
fileclose(p, e) ==
  /\ pc[p] = "user" /\ e \in fd[p]
  /\ fd' = [fd EXCEPT ![p] = @ \ {e}]
  /\ IF \A q \in Proc : e \notin fd'[q]
       THEN Goto(p, IF e = "r" THEN "close_r" ELSE "close_w")
       ELSE UNCHANGED pc
  /\ UNCHANGED <<pipe, lock, freed, killed, left>>

ClosesQuietly(p) ==
  /\ pc[p] \in {"close_r", "close_w"}
  /\ lock = None
  /\ readopen' = (readopen /\ pc[p] = "close_w")
  /\ writeopen' = (writeopen /\ pc[p] = "close_r")
  /\ Goto(p, "user")
  /\ freed' = LastClose(readopen', writeopen')
  /\ UNCHANGED <<data, nread, nwrite, lock, fd, killed, left>>

pipeclose(p) ==
  /\ pc[p] \in {"close_r", "close_w"}
  /\ lock = None
  /\ IF pc[p] = "close_w"
       THEN /\ writeopen' = FALSE /\ UNCHANGED readopen
            /\ pc' = [WakeReaders(pc) EXCEPT ![p] = "user"]
       ELSE /\ readopen' = FALSE /\ UNCHANGED writeopen
            /\ pc' = [WakeWriters(pc) EXCEPT ![p] = "user"]
  /\ freed' = LastClose(readopen', writeopen')
  /\ UNCHANGED <<data, nread, nwrite, lock, fd, killed, left>>

\* kill(): wakes the victim if it is asleep, whatever it waits for.
kill(q) ==
  /\ ~killed[q]
  /\ killed' = [killed EXCEPT ![q] = TRUE]
  /\ pc' = [pc EXCEPT ![q] = CASE @ = "r_asleep" -> "r_acquire"
                               [] @ = "w_asleep" -> "w_acquire"
                               [] OTHER -> @]
  /\ UNCHANGED <<pipe, lock, freed, fd, left>>
-----------------------------------------------------------------------------
Next ==
  \/ \E p \in Proc : \/ \E k \in 0..MaxN : pipewrite(p, k) \/ piperead(p, k)
                     \/ WriteStep(p) \/ ReadStep(p)
                     \/ \E q \in Proc, e \in {"r", "w"} : filedup(p, q, e)
                     \/ \E e \in {"r", "w"} : fileclose(p, e)
                     \/ pipeclose(p)
                     \/ kill(p)

\* A process inside a call goes on (it holds the lock or spins for it), and a
\* killed process exits and so closes what it holds.  Nobody has to start a
\* call.  The spinlock itself promises no order: only weak fairness.
Fairness ==
  \A p \in Proc :
    /\ WF_vars(WriteStep(p)) /\ WF_vars(ReadStep(p)) /\ WF_vars(pipeclose(p))
    /\ WF_vars(killed[p] /\ \E e \in {"r", "w"} : fileclose(p, e))

Spec == Init /\ [][Next]_vars
FairSpec == Spec /\ Fairness
-----------------------------------------------------------------------------
(* Properties *)

\* Bytes written and not yet read.
Count == (nwrite - nread) % UintMod

\* The ring buffer with its wrapping counters is a first-in first-out stream:
\* no interleaving of readers, writers, closes and kills loses, duplicates or
\* reorders a byte between nwrite++ and nread++, or adds one to a pipe that
\* has no reader.
Stream == INSTANCE BoundedStream
            WITH Capacity <- PIPESIZE,
                 q     <- [k \in 1..Count |-> data[(nread + k - 1) % PIPESIZE]],
                 ropen <- readopen,
                 wopen <- writeopen
IsStream == Stream!Spec

\* The page is never touched after kfree: when it is freed nobody holds an
\* end, is inside a call on the pipe, or is asleep on one of its channels.
FreedIsUnused ==
  freed => /\ lock = None
           /\ \A p \in Proc : fd[p] = {} /\ pc[p] = "user"

\* A reader sleeps only while there is nothing to read and a writer is left;
\* otherwise a wakeup is on its way: the writer that holds the lock has not
\* finished.  The one exception in the code: a writer that is killed after it
\* has stored a byte returns -1 without a wakeup (pipe.c:84-87).
SleepingReader ==
  (\E r \in Proc : pc[r] = "r_asleep") =>
    \/ Empty /\ writeopen
    \/ \E w \in Proc : lock = w /\ pc[w] = "w_loop"
    \/ \E w \in Proc : killed[w]

\* A writer sleeps only while the pipe is full and a reader is left, or the
\* reader that holds the lock is about to wake it.
SleepingWriter ==
  (\E w \in Proc : pc[w] = "w_asleep") =>
    \/ Full /\ readopen
    \/ \E r \in Proc : lock = r /\ pc[r] = "r_loop"

\* Nobody sleeps without cause, and readers and writers never wait for one
\* another: with the lock free they are not asleep on both channels, not even
\* after a kill.
SleepsForCause ==
  /\ SleepingReader /\ SleepingWriter
  /\ ~ /\ lock = None
       /\ \E r \in Proc : pc[r] = "r_asleep"
       /\ \E w \in Proc : pc[w] = "w_asleep"

\* A reader blocked on a pipe is woken once every other process has been
\* killed: their exits close the write end.  The reader may not hold the
\* write end itself, and the holders must not be inside piperead: a process
\* killed between killed() and sleep() (pipe.c:114-118) sleeps on, and keeps
\* the write end open for ever.  (With a live third process that reads for
\* ever the spinlock could starve the closing one: acquire is not fair.)
ReaderSeesEOF ==
  \A r \in Proc :
    (/\ pc[r] = "r_asleep" /\ "w" \notin fd[r]
     /\ \A w \in Proc \ {r} :
          killed[w] /\ ("w" \in fd[w] => pc[w] \notin ReadPC))
      ~> pc[r] # "r_asleep"
=============================================================================
