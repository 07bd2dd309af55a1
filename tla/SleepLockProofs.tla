-------------------------- MODULE SleepLockProofs ---------------------------
(* Proofs about SleepLock, for any set of processes. *)
EXTENDS SleepLock, TLAPS

\* p->lock is held by sleep() exactly from its acquire to the switch.
PlockInv == \A p \in Proc : p \in plock <=> pc[p] \in {"release", "state"}

\* From the test that found the lock taken until it is woken, a process either
\* still sees the lock taken or is on the list of the wakeup under way.
WaitInv ==
  \A p \in Proc : pc[p] \in {"sleep", "release", "state", "SLEEPING"} =>
    locked \/ \E r \in Proc : pc[r] = "wakeup" /\ p \in todo[r]

\* The inductive invariant.
IInv == TypeOK /\ HolderIsAlone /\ PlockInv /\ WaitInv

\* All processes start outside, with both locks free.
LEMMA InitIInv == Init => IInv
  BY SleepLockAssumption
  DEF Init, IInv, TypeOK, HolderIsAlone, PlockInv, WaitInv, PC, locked

\* A call that only moves its process outside of the waiting states.
LEMMA CallIInv ==
  ASSUME IInv, NEW p \in Proc, acquiresleep(p) \/ releasesleep(p)
  PROVE  IInv'
  BY SleepLockAssumption
  DEF acquiresleep, releasesleep, Goto, IInv, TypeOK, HolderIsAlone, PlockInv,
      WaitInv, PC, locked

\* The way into the lock, or to sleep.
LEMMA AcquireIInv ==
  ASSUME IInv, NEW p \in Proc,
         acquire(p) \/ test(p) \/ sleep(p) \/ sleep_release(p) \/ sleep_sched(p)
  PROVE  IInv'
<1>. USE SleepLockAssumption
     DEF Goto, IInv, TypeOK, HolderIsAlone, PlockInv, WaitInv, PC, locked
<1>1. CASE acquire(p)
  BY <1>1 DEF acquire
<1>2. CASE test(p)
  BY <1>2 DEF test
<1>3. CASE sleep(p)
  BY <1>3 DEF sleep
<1>4. CASE sleep_release(p)
  BY <1>4 DEF sleep_release
<1>5. CASE sleep_sched(p)
  BY <1>5 DEF sleep_sched
<1>. QED  BY <1>1, <1>2, <1>3, <1>4, <1>5

\* The way out: the list of the new wakeup holds everyone who may be waiting,
\* and a process leaves it awake.
LEMMA ReleaseIInv ==
  ASSUME IInv, NEW p \in Proc,
         give(p) \/ (\E q \in Proc : wakeup(p, q)) \/ given(p) \/ kill(p)
  PROVE  IInv'
<1>. USE SleepLockAssumption
     DEF Goto, IInv, TypeOK, HolderIsAlone, PlockInv, WaitInv, PC, locked
<1>1. CASE give(p)
  BY <1>1 DEF give, Others
<1>2. ASSUME NEW q \in Proc, wakeup(p, q)
      PROVE  IInv'
  BY <1>2 DEF wakeup, ProcLockFree
<1>3. CASE given(p)
  BY <1>3 DEF given
<1>4. CASE kill(p)
  BY <1>4 DEF kill
<1>. QED  BY <1>1, <1>2, <1>3, <1>4

\* Every reachable state of the sleep lock satisfies the inductive invariant.
THEOREM Invariance == Spec => []IInv
<1>1. ASSUME IInv, [Next]_vars
      PROVE  IInv'
  <2>1. CASE Next
    <3>1. PICK p \in Proc : acquiresleep(p) \/ releasesleep(p) \/ Step(p) \/ kill(p)
      BY <2>1 DEF Next
    <3>. QED  BY <1>1, <3>1, CallIInv, AcquireIInv, ReleaseIInv DEF Step
  <2>2. CASE UNCHANGED vars
    BY <1>1, <2>2
    DEF vars, IInv, TypeOK, HolderIsAlone, PlockInv, WaitInv, locked
  <2>. QED  BY <1>1, <2>1, <2>2
<1>. QED  BY InitIInv, <1>1, PTL DEF Spec

\* The variables of sleeplock.c keep their types, and lk->lk is held exactly
\* where the code holds it.
THEOREM TypeCorrect == Spec => []TypeOK
<1>1. IInv => TypeOK
  BY DEF IInv
<1>. QED  BY <1>1, Invariance, PTL

\* sleep() and wakeup() lose no wakeup, for any number of processes.
THEOREM WakeupsNotLost == Spec => []NoLostWakeup
<1>1. IInv => NoLostWakeup
  BY DEF IInv, WaitInv, NoLostWakeup
<1>. QED  BY <1>1, Invariance, PTL

\* The holder of a sleep lock is alone, and holdingsleep recognises it.
THEOREM HolderAlone == Spec => []HolderIsAlone
<1>1. IInv => HolderIsAlone
  BY DEF IInv
<1>. QED  BY <1>1, Invariance, PTL

\* Sleep locks implement mutual exclusion: every step of acquiresleep and
\* releasesleep takes a free lock, gives back one's own, or leaves it alone.
THEOREM SleepLockIsMutex == Spec => IsMutex
<1>1. Init => M!Init
  BY DEF Init, M!Init
<1>2. ASSUME IInv, [Next]_vars
      PROVE  [M!Next]_pid
  <2>1. CASE Next
    <3>1. PICK p \in Proc : acquiresleep(p) \/ releasesleep(p) \/ Step(p) \/ kill(p)
      BY <2>1 DEF Next
    <3>2. CASE test(p)
      BY <3>2 DEF test, locked, M!Next, M!Take
    <3>3. CASE give(p)
      BY <1>2, <3>3 DEF give, IInv, HolderIsAlone, M!Next, M!Give
    <3>4. CASE ~test(p) /\ ~give(p)
      BY <3>1, <3>4 DEF acquiresleep, releasesleep, Step, acquire, sleep,
         sleep_release, sleep_sched, wakeup, given, kill
    <3>. QED  BY <3>2, <3>3, <3>4
  <2>2. CASE UNCHANGED vars
    BY <2>2 DEF vars
  <2>. QED  BY <1>2, <2>1, <2>2
<1>. QED  BY <1>1, <1>2, Invariance, PTL DEF Spec, IsMutex, M!Spec
=============================================================================
