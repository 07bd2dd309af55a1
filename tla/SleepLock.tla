----------------------------- MODULE SleepLock ------------------------------
(***************************************************************************)
(* Sleep locks, kernel/sleeplock.c, on top of sleep() and wakeup() of      *)
(* kernel/proc.c with the locks those use: the spin lock lk->lk and each   *)
(* process's p->lock.  sleep() holds both for a moment, gives up lk->lk    *)
(* first, and is SLEEPING only after that; wakeup() looks at one process   *)
(* at a time, under its p->lock.  The same pattern guards every sleeper of *)
(* the kernel (log, pipes, buffers, inodes, disk, console).                *)
(***************************************************************************)
CONSTANTS Proc, None

ASSUME SleepLockAssumption == None \notin Proc

VARIABLES
  pid,     \* lk->locked and lk->pid: the holder of the sleep lock, or None
  lk,      \* the process that holds lk->lk, or None
  plock,   \* the processes whose own p->lock is held by their sleep()
  pc,      \* where each process is
  todo     \* processes that a wakeup() loop has still to look at

vars == <<pid, lk, plock, pc, todo>>

PC == {"user", "acquire", "test", "sleep", "release", "state", "SLEEPING",
       "holds", "give", "wakeup"}

Init ==
  /\ pid = None /\ lk = None
  /\ plock = {}
  /\ pc = [p \in Proc |-> "user"]
  /\ todo = [p \in Proc |-> {}]

(* Faulty variants, named for the fault. *)
ProcLockNotTaken(q) == TRUE
NeverLocked == FALSE

\* acquire(&q->lock) in wakeup() has to wait for q's sleep() to let go.
ProcLockFree(q) == q \notin plock

locked == pid # None

\* Whom the loop of wakeup() looks at.
Others(p) == Proc \ {p}

Goto(p, l) == pc' = [pc EXCEPT ![p] = l]
-----------------------------------------------------------------------------
acquiresleep(p) ==
  /\ pc[p] = "user"
  /\ Goto(p, "acquire")
  /\ UNCHANGED <<pid, lk, plock, todo>>

\* acquire(&lk->lk), on entry and again at the end of sleep().
acquire(p) ==
  /\ pc[p] = "acquire"
  /\ lk = None
  /\ lk' = p
  /\ Goto(p, "test")
  /\ UNCHANGED <<pid, plock, todo>>

GivesWay(p) ==
  /\ pc[p] = "test"
  /\ IF locked THEN Goto(p, "sleep") /\ UNCHANGED <<pid, lk>>
     ELSE IF \E q \in Proc : pc[q] = "acquire"
            THEN lk' = None /\ Goto(p, "acquire") /\ UNCHANGED pid
            ELSE pid' = p /\ lk' = None /\ Goto(p, "holds")
  /\ UNCHANGED <<plock, todo>>

test(p) ==
  /\ pc[p] = "test"
  /\ IF locked
       THEN Goto(p, "sleep") /\ UNCHANGED <<pid, lk>>
       ELSE pid' = p /\ lk' = None /\ Goto(p, "holds")
  /\ UNCHANGED <<plock, todo>>

\* sleep(lk, &lk->lk): acquire(&p->lock) ...
sleep(p) ==
  /\ pc[p] = "sleep"
  /\ plock' = plock \cup {p}
  /\ Goto(p, "release")
  /\ UNCHANGED <<pid, lk, todo>>

\* ... release(lk) ...
sleep_release(p) ==
  /\ pc[p] = "release"
  /\ lk' = None
  /\ Goto(p, "state")
  /\ UNCHANGED <<pid, plock, todo>>

\* ... state = SLEEPING; sched(), whose scheduler releases p->lock.
sleep_sched(p) ==
  /\ pc[p] = "state"
  /\ plock' = plock \ {p}
  /\ Goto(p, "SLEEPING")
  /\ UNCHANGED <<pid, lk, todo>>

releasesleep(p) ==
  /\ pc[p] = "holds"
  /\ Goto(p, "give")
  /\ UNCHANGED <<pid, lk, plock, todo>>

give(p) ==
  /\ pc[p] = "give"
  /\ lk = None
  /\ lk' = p
  /\ pid' = None
  /\ todo' = [todo EXCEPT ![p] = Others(p)]
  /\ Goto(p, "wakeup")
  /\ UNCHANGED plock

\* One iteration of wakeup(lk).
wakeup(p, q) ==
  /\ pc[p] = "wakeup" /\ q \in todo[p]
  /\ ProcLockFree(q)
  /\ todo' = [todo EXCEPT ![p] = @ \ {q}]
  /\ pc' = IF pc[q] = "SLEEPING" THEN [pc EXCEPT ![q] = "acquire"] ELSE pc
  /\ UNCHANGED <<pid, lk, plock>>

given(p) ==
  /\ pc[p] = "wakeup" /\ todo[p] = {}
  /\ lk' = None
  /\ Goto(p, "user")
  /\ UNCHANGED <<pid, plock, todo>>

\* kill() makes a sleeping process runnable; acquiresleep tests again.
kill(q) ==
  /\ q \notin plock
  /\ pc[q] = "SLEEPING"
  /\ Goto(q, "acquire")
  /\ UNCHANGED <<pid, lk, plock, todo>>
-----------------------------------------------------------------------------
Step(p) ==
  \/ acquire(p) \/ test(p) \/ sleep(p) \/ sleep_release(p) \/ sleep_sched(p)
  \/ give(p) \/ (\E q \in Proc : wakeup(p, q)) \/ given(p)

Next == \E p \in Proc : acquiresleep(p) \/ releasesleep(p) \/ Step(p) \/ kill(p)

Spec == Init /\ [][Next]_vars

\* A process that is in the kernel goes on, and holders give the lock back.
Fairness == \A p \in Proc : WF_vars(Step(p)) /\ WF_vars(releasesleep(p))
FairSpec == Spec /\ Fairness
-----------------------------------------------------------------------------
(* Properties *)

TypeOK ==
  /\ pid \in Proc \cup {None} /\ lk \in Proc \cup {None}
  /\ plock \in SUBSET Proc
  /\ pc \in [Proc -> PC]
  /\ todo \in [Proc -> SUBSET Proc]
  /\ \A p \in Proc : lk = p <=> pc[p] \in {"test", "sleep", "release", "wakeup"}

\* No wakeup is lost: while someone is asleep in acquiresleep, or has given
\* up lk->lk on the way there, the lock is held, or the process that has just
\* released it has not come past the sleeper yet.
NoLostWakeup ==
  \A p \in Proc : pc[p] \in {"state", "SLEEPING"} =>
    locked \/ \E r \in Proc : pc[r] = "wakeup" /\ p \in todo[r]

\* Between acquiresleep and releasesleep a process is the holder, so
\* holdingsleep tells it the truth, and it is the only one.
HolderIsAlone ==
  \A p \in Proc : pc[p] \in {"holds", "give"} <=> pid = p

\* Sleep locks implement mutual exclusion.
M == INSTANCE Mutex WITH holder <- pid
IsMutex == M!Spec

\* A free lock that somebody wants is taken: it never stays free while its
\* waiters sleep.
Handover ==
  (~locked /\ \E p \in Proc : pc[p] \in {"acquire", "SLEEPING"}) ~> locked
=============================================================================
