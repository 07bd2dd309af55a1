----------------------------- MODULE ProcProofs -----------------------------
(***************************************************************************)
(* Theorems about processes, for any number of CPUs and any size of the    *)
(* table: no process is on two CPUs, no slot is freed while somebody runs  *)
(* in it, sched() does not panic, no exit is missed by a parent asleep in  *)
(* wait(), and the family tree stays rooted at init.                       *)
(***************************************************************************)
EXTENDS Proc, WellFoundedInduction, TLAPS

\* What is assumed of the constants.
Setting == NPROC \in Nat \ {0} /\ None \notin CPU

Exiting == {"reparent", "adopt_wakeup", "exit_wakeup", "exit_zombie"}
Waiting == {"wait_scan", "wait_end", "wait_sleep"}
Holding == Exiting \cup Waiting      \* wait_lock
Switching == {"sched", "resume"}     \* p->lock
Places == Interruptible \cup Holding \cup Switching
Forking == {"fork_parent", "fork_run"}

\* What a process is doing, whether or not it has been preempted there.
Point(p) == IF pc[p] \in Switching THEN ret[p] ELSE pc[p]

Live(p) == state[p] \in {"RUNNABLE", "RUNNING", "SLEEPING"}
-----------------------------------------------------------------------------
(* The inductive invariant *)

TypeOK ==
  /\ state \in [Proc -> {"UNUSED", "USED", "RUNNABLE", "RUNNING", "SLEEPING", "ZOMBIE"}]
  /\ parent \in [Proc -> Proc \cup {Null}]
  /\ chan \in [Proc -> Proc \cup {Null}]
  /\ lock \in [Proc -> CPU \cup {None}]
  /\ wait_lock \in CPU \cup {None}
  /\ cproc \in [CPU -> Proc \cup {Null}]
  /\ thread \in [CPU -> {"scheduler", "process"}]
  /\ pc \in [Proc -> Places]
  /\ ret \in [Proc -> Interruptible]
  /\ i \in [Proc -> 1..NPROC+1]
  /\ j \in [Proc -> 1..NPROC+1]

\* Process p is c->proc: it runs, or it is in the switch to or from it.
OnCpu(c, p) ==
  \/ /\ thread[c] = "process" /\ pc[p] \notin Switching
     /\ lock[p] = None /\ state[p] = "RUNNING"
  \/ /\ thread[c] = "process" /\ pc[p] = "resume"
     /\ lock[p] = c /\ state[p] = "RUNNING"
  \/ /\ \/ thread[c] = "process" /\ pc[p] = "sched"
        \/ thread[c] = "scheduler" /\ pc[p] = "resume"
     /\ lock[p] = c /\ state[p] \in {"RUNNABLE", "SLEEPING", "ZOMBIE"}
OffCpu(p) == pc[p] = "resume" /\ lock[p] = None /\ state[p] # "RUNNING"

CpuInv ==
  /\ \A c \in CPU : thread[c] = "process" => cproc[c] # Null
  /\ \A c, d \in CPU : cproc[c] = cproc[d] /\ cproc[c] # Null => c = d
  /\ \A c \in CPU, p \in Proc : cproc[c] = p => OnCpu(c, p)
  /\ \A p \in Proc : (\A c \in CPU : cproc[c] # p) => OffCpu(p)

\* wait_lock is held by the CPU whose process is in exit or wait.
WaitLockInv ==
  \A c \in CPU :
    wait_lock = c <=> \E p \in Proc : Executes(c, p) /\ pc[p] \in Holding

\* Locals that have their initial values.
LocalsAt(p) ==
  /\ pc[p] \notin Switching => ret[p] = "user"
  /\ pc[p] \notin {"adopt_wakeup", "exit_wakeup"} => j[p] = 1
  /\ Point(p) = "user" => i[p] = 1
LocalsInv == \A p \in Proc : LocalsAt(p)

\* The slot that fork has taken is the forker's alone, and nobody's child
\* before fork says so.
ForkInv ==
  /\ \A p \in Proc : Point(p) \in Forking =>
       /\ i[p] \in Proc /\ state[i[p]] = "USED"
       /\ parent[i[p]] = IF Point(p) = "fork_run" THEN p ELSE Null
  /\ \A p, q \in Proc :
       Point(p) \in Forking /\ Point(q) \in Forking /\ i[p] = i[q] => p = q

\* Parents are alive, whoever holds wait_lock.
FamilyInv ==
  /\ Live(initproc)
  /\ \A q \in Proc : state[q] = "UNUSED" => parent[q] = Null
  /\ \A q \in Proc : state[q] = "USED" /\ parent[q] # Null =>
       Point(parent[q]) = "fork_run" /\ i[parent[q]] = q
  /\ \A q \in Proc : parent[q] # Null => Live(parent[q])
  /\ \A q \in Children : parent[q] # Null
  /\ \A S \in SUBSET Children : S # {} => \E p \in S : parent[p] \notin S

\* How far exit and wait have come.
ScanAt(p) ==
  /\ pc[p] \in Exiting => p # initproc
  /\ pc[p] \in {"reparent", "adopt_wakeup"} =>
       \A q \in Proc : q < i[p] => parent[q] # p
  /\ pc[p] \in {"exit_wakeup", "exit_zombie"} => \A q \in Proc : parent[q] # p
  /\ (pc[p] = "exit_wakeup" /\ j[p] > parent[p]) \/ pc[p] = "exit_zombie" =>
       state[parent[p]] # "SLEEPING"
  /\ pc[p] = "wait_scan" =>
       \A q \in Proc : q < i[p] /\ parent[q] = p => state[q] # "ZOMBIE"
  /\ pc[p] \in {"wait_end", "wait_sleep"} =>
       \A q \in Proc : parent[q] = p => state[q] # "ZOMBIE"
ScanInv == \A p \in Proc : ScanAt(p)

\* Who adopts for init is on its way to init's slot.
Adopting == \E h \in Proc : pc[h] = "adopt_wakeup" /\ j[h] = initproc

\* A sleeper waits for its own children, and has none that has exited, but for
\* init while somebody is about to wake it.
NoticeInv ==
  /\ \A p \in Proc : state[p] = "SLEEPING" => chan[p] = p
  /\ \A p, q \in Proc : state[p] = "SLEEPING" /\ parent[q] = p /\ state[q] = "ZOMBIE"
       => p = initproc /\ Adopting

IInv == /\ TypeOK /\ CpuInv /\ WaitLockInv /\ LocalsInv
        /\ ForkInv /\ FamilyInv /\ ScanInv /\ NoticeInv
-----------------------------------------------------------------------------
(* What the parts of the invariant depend on *)

\* The slots are numbered from 1, and init has the first.
LEMMA Slots ==
  ASSUME Setting
  PROVE  /\ NPROC \in Nat /\ NPROC >= 1 /\ None \notin CPU
         /\ Proc = 1..NPROC /\ Null = 0 /\ Null \notin Proc
         /\ initproc = 1 /\ initproc \in Proc
  BY DEF Setting, Proc, Null, initproc

\* The places of a process are apart.
LEMMA PlacesApart ==
  /\ Interruptible \cap Switching = {} /\ Interruptible \cap Holding = {}
  /\ Holding \cap Switching = {} /\ Forking \cap Holding = {}
  /\ Forking \cap Switching = {} /\ Forking \subseteq Interruptible
  /\ Exiting \subseteq Holding /\ Waiting \subseteq Holding
  BY Zenon DEF Interruptible, Switching, Holding, Exiting, Waiting, Forking

\* A process that runs outside the switches is RUNNING and its lock is free.
LEMMA Running ==
  ASSUME IInv, NEW c \in CPU, NEW p \in Proc, Executes(c, p), pc[p] \notin Switching
  PROVE  /\ state[p] = "RUNNING" /\ lock[p] = None /\ ret[p] = "user"
         /\ Point(p) = pc[p]
<1>1. OnCpu(c, p) /\ LocalsAt(p)
  BY Zenon DEF IInv, CpuInv, LocalsInv, Executes
<1>. QED  BY Zenon, <1>1 DEF OnCpu, LocalsAt, Point, Switching

\* A process outside the switches is on some CPU.
LEMMA SomeCpu ==
  ASSUME IInv, NEW p \in Proc, pc[p] \notin Switching
  PROVE  \E c \in CPU : Executes(c, p)
<1>1. PICK c \in CPU : cproc[c] = p
  BY Zenon DEF IInv, CpuInv, OffCpu, Switching
<1>2. OnCpu(c, p)
  BY Zenon, <1>1 DEF IInv, CpuInv
<1>. QED  BY Zenon, <1>1, <1>2 DEF OnCpu, Executes, Switching

\* A slot whose lock is free, and that is not RUNNING, is on no CPU.
LEMMA Abandoned ==
  ASSUME Setting, IInv, NEW q \in Proc, lock[q] = None, state[q] # "RUNNING",
         NEW c \in CPU
  PROVE  cproc[c] # q
<1>. SUFFICES ASSUME cproc[c] = q PROVE FALSE
  BY Zenon
<1>1. OnCpu(c, q) /\ c # None
  BY Zenon, Slots DEF IInv, CpuInv
<1>. QED  BY Zenon, <1>1 DEF OnCpu

\* One process at a time is in the part of exit and wait that wait_lock guards.
LEMMA HolderAlone ==
  ASSUME Setting, IInv, NEW p \in Proc, pc[p] \in Holding
  PROVE  /\ wait_lock # None
         /\ \A q \in Proc : pc[q] \in Holding => q = p
<1>1. PICK c \in CPU : Executes(c, p)
  BY Zenon, SomeCpu, PlacesApart
<1>2. wait_lock = c /\ c # None
  BY Zenon, <1>1, Slots DEF IInv, WaitLockInv
<1>3. ASSUME NEW q \in Proc, pc[q] \in Holding PROVE q = p
  <2>1. PICK d \in CPU : Executes(d, q)
    BY Zenon, <1>3, SomeCpu, PlacesApart
  <2>2. wait_lock = d
    BY Zenon, <1>3, <2>1 DEF IInv, WaitLockInv
  <2>. QED  BY Zenon, <1>1, <1>2, <2>1, <2>2 DEF Executes
<1>. QED  BY Zenon, <1>2, <1>3

\* With wait_lock free nobody is there.
LEMMA NobodyHolds ==
  ASSUME Setting, IInv, wait_lock = None
  PROVE  \A q \in Proc : pc[q] \notin Holding
  BY Zenon, HolderAlone

\* Who exits has a parent, and is not its own.
LEMMA Exiter ==
  ASSUME Setting, IInv, NEW p \in Proc, pc[p] \in Exiting
  PROVE  /\ p # initproc /\ p \in Children /\ state[p] = "RUNNING"
         /\ parent[p] \in Proc /\ parent[p] # p
<1>1. PICK c \in CPU : Executes(c, p)
  BY Zenon, SomeCpu, PlacesApart
<1>2. state[p] = "RUNNING"
  BY Zenon, <1>1, Running, PlacesApart
<1>3. p # initproc
  BY Zenon DEF IInv, ScanInv, ScanAt
<1>4. p \in Children
  BY Zenon, <1>2, <1>3 DEF Children
<1>5. parent[p] \in Proc
  BY <1>4 DEF IInv, TypeOK, FamilyInv
<1>6. parent[p] # p
  <2>1. {p} \in SUBSET Children /\ {p} # {}
    BY Zenon, <1>4
  <2>2. \E q \in {p} : parent[q] \notin {p}
    BY Zenon, <2>1 DEF IInv, FamilyInv
  <2>. QED  BY Zenon, <2>2
<1>. QED  BY Zenon, <1>2, <1>3, <1>4, <1>5, <1>6

\* A step of p leaves the position of the others, and their locks, alone.
Others(p) ==
  \A q \in Proc : q # p =>
    /\ pc'[q] = pc[q] /\ ret'[q] = ret[q] /\ i'[q] = i[q] /\ j'[q] = j[q]
    /\ lock'[q] = lock[q]

\* A step of p, on CPU c, that does not switch, and changes the state of
\* others only where they are on no CPU.
LEMMA CpuStep ==
  ASSUME Setting, IInv, NEW c \in CPU, NEW p \in Proc, Executes(c, p), Others(p),
         cproc' = cproc, thread' = thread, OnCpu(c, p)',
         \A q \in Proc : q # p =>
           \/ state'[q] = state[q]
           \/ lock[q] = None /\ state[q] # "RUNNING" /\ state'[q] # "RUNNING"
  PROVE  CpuInv'
<1>1. \A d \in CPU : thread'[d] = "process" => cproc'[d] # Null
  BY Zenon DEF IInv, CpuInv
<1>2. \A d, e \in CPU : cproc'[d] = cproc'[e] /\ cproc'[d] # Null => d = e
  BY Zenon DEF IInv, CpuInv
<1>3. ASSUME NEW d \in CPU, NEW q \in Proc, cproc'[d] = q PROVE OnCpu(d, q)'
  <2>1. CASE q = p
    <3>1. d = c
      BY Zenon, <1>3, <2>1, Slots DEF IInv, CpuInv, Executes
    <3>. QED  BY Zenon, <2>1, <3>1
  <2>2. CASE q # p
    <3>1. OnCpu(d, q) /\ cproc[d] = q
      BY Zenon, <1>3 DEF IInv, CpuInv
    <3>2. state'[q] = state[q]
      BY Zenon, <2>2, <3>1, Abandoned
    <3>3. pc'[q] = pc[q] /\ lock'[q] = lock[q] /\ thread'[d] = thread[d]
      BY Zenon, <2>2 DEF Others
    <3>. QED  BY Zenon, <3>1, <3>2, <3>3 DEF OnCpu
  <2>. QED  BY Zenon, <2>1, <2>2
<1>4. ASSUME NEW q \in Proc, \A d \in CPU : cproc'[d] # q PROVE OffCpu(q)'
  <2>1. OffCpu(q) /\ q # p
    BY Zenon, <1>4 DEF IInv, CpuInv, Executes
  <2>2. state'[q] # "RUNNING"
    BY Zenon, <2>1 DEF OffCpu
  <2>3. pc'[q] = pc[q] /\ lock'[q] = lock[q]
    BY Zenon, <2>1 DEF Others
  <2>. QED  BY Zenon, <2>1, <2>2, <2>3 DEF OffCpu
<1>. QED  BY Zenon, <1>1, <1>2, <1>3, <1>4 DEF CpuInv

\* wait_lock is kept, taken or given back by p.
LEMMA WaitLockStep ==
  ASSUME Setting, IInv, NEW c \in CPU, NEW p \in Proc, Executes(c, p), Others(p),
         cproc' = cproc, thread' = thread,
         \/ wait_lock' = wait_lock /\ (pc'[p] \in Holding <=> pc[p] \in Holding)
         \/ wait_lock = None /\ wait_lock' = c /\ pc'[p] \in Holding
         \/ wait_lock' = None /\ pc[p] \in Holding /\ pc'[p] \notin Holding
  PROVE  WaitLockInv'
<1>1. \A d \in CPU, q \in Proc : Executes(d, q)' <=> Executes(d, q)
  BY Zenon DEF Executes
<1>2. \A d \in CPU : Executes(d, p) => d = c
  BY Zenon, Slots DEF IInv, CpuInv, Executes
<1>3. \A d \in CPU : d # None
  BY Zenon, Slots
<1>4. ASSUME NEW d \in CPU
      PROVE  wait_lock' = d <=> \E q \in Proc : Executes(d, q) /\ pc'[q] \in Holding
  <2>1. wait_lock = d <=> \E q \in Proc : Executes(d, q) /\ pc[q] \in Holding
    BY Zenon DEF IInv, WaitLockInv
  <2>2. \A q \in Proc : q # p => pc'[q] = pc[q]
    BY Zenon DEF Others
  <2>3. CASE wait_lock' = wait_lock /\ (pc'[p] \in Holding <=> pc[p] \in Holding)
    BY Zenon, <2>1, <2>2, <2>3
  <2>4. CASE wait_lock = None /\ wait_lock' = c /\ pc'[p] \in Holding
    <3>1. \A q \in Proc : pc[q] \notin Holding
      BY Zenon, <2>4, NobodyHolds
    <3>2. \A q \in Proc : pc'[q] \in Holding => q = p
      BY Zenon, <2>2, <3>1
    <3>. QED  BY Zenon, <1>2, <2>4, <3>2
  <2>5. CASE wait_lock' = None /\ pc[p] \in Holding /\ pc'[p] \notin Holding
    <3>1. \A q \in Proc : pc[q] \in Holding => q = p
      BY Zenon, <2>5, HolderAlone
    <3>2. \A q \in Proc : pc'[q] \notin Holding
      BY Zenon, <2>2, <2>5, <3>1
    <3>. QED  BY Zenon, <1>3, <2>5, <3>2
  <2>. QED  BY Zenon, <2>3, <2>4, <2>5
<1>. QED  BY Zenon, <1>1, <1>4 DEF WaitLockInv

\* The locals of the others are as they were.
LEMMA LocalsStep ==
  ASSUME IInv, NEW p \in Proc, Others(p), LocalsAt(p)' PROVE LocalsInv'
<1>1. ASSUME NEW q \in Proc, q # p PROVE LocalsAt(q)'
  <2>1. LocalsAt(q)
    BY Zenon DEF IInv, LocalsInv
  <2>2. pc'[q] = pc[q] /\ ret'[q] = ret[q] /\ i'[q] = i[q] /\ j'[q] = j[q]
    BY Zenon, <1>1 DEF Others
  <2>. QED  BY Zenon, <2>1, <2>2 DEF LocalsAt, Point
<1>. QED  BY Zenon, <1>1 DEF LocalsInv

\* Nobody is born, dies or changes parents, and no fork gets on.
LEMMA FamilyKept ==
  ASSUME Setting, IInv, parent' = parent,
         \A q \in Proc : state'[q] = state[q] \/ (Live(q) /\ Live(q)'),
         \A q \in Proc : \/ Point(q)' = Point(q) /\ i'[q] = i[q]
                         \/ Point(q) \notin Forking /\ Point(q)' \notin Forking
  PROVE  ForkInv' /\ FamilyInv'
<1>1. /\ \A q \in Proc : state'[q] = "USED" <=> state[q] = "USED"
      /\ \A q \in Proc : state'[q] = "UNUSED" <=> state[q] = "UNUSED"
      /\ \A q \in Proc : Live(q)' <=> Live(q)
  BY Zenon DEF Live
<1>2. \A q \in Proc : Point(q)' \in Forking =>
        Point(q)' = Point(q) /\ i'[q] = i[q]
  BY Zenon
<1>3. \A q \in Proc : Point(q) = "fork_run" =>
        Point(q)' = "fork_run" /\ i'[q] = i[q]
  BY Zenon DEF Forking
<1>4. ForkInv'
  <2>1. ASSUME NEW p \in Proc, Point(p)' \in Forking
        PROVE  /\ i'[p] \in Proc /\ state'[i'[p]] = "USED"
               /\ parent'[i'[p]] = IF Point(p)' = "fork_run" THEN p ELSE Null
    <3>1. Point(p)' = Point(p) /\ i'[p] = i[p] /\ Point(p) \in Forking
      BY Zenon, <1>2, <2>1
    <3>2. /\ i[p] \in Proc /\ state[i[p]] = "USED"
          /\ parent[i[p]] = IF Point(p) = "fork_run" THEN p ELSE Null
      BY Zenon, <3>1 DEF IInv, ForkInv
    <3>3. state'[i[p]] = "USED"
      BY Zenon, <1>1, <3>2
    <3>. QED  BY Zenon, <3>1, <3>2, <3>3
  <2>2. ASSUME NEW p \in Proc, NEW q \in Proc,
               Point(p)' \in Forking, Point(q)' \in Forking, i'[p] = i'[q]
        PROVE  p = q
    <3>1. Point(p) \in Forking /\ Point(q) \in Forking /\ i[p] = i[q]
      BY Zenon, <1>2, <2>2
    <3>. QED  BY Zenon, <3>1 DEF IInv, ForkInv
  <2>. QED  BY Zenon, <2>1, <2>2 DEF ForkInv
<1>5. Children' = Children
  BY Zenon, <1>1 DEF Children
<1>6. \A q \in Proc : parent[q] # Null => parent[q] \in Proc
  BY Zenon DEF IInv, TypeOK
<1>7. FamilyInv'
  <2>1. Live(initproc)'
    BY Zenon, <1>1, Slots DEF IInv, FamilyInv
  <2>2. \A q \in Proc : state'[q] = "UNUSED" => parent'[q] = Null
    BY Zenon, <1>1 DEF IInv, FamilyInv
  <2>3. \A q \in Proc : state'[q] = "USED" /\ parent'[q] # Null =>
          Point(parent[q])' = "fork_run" /\ i'[parent[q]] = q
    BY Zenon, <1>1, <1>3, <1>6 DEF IInv, FamilyInv
  <2>4. \A q \in Proc : parent'[q] # Null => Live(parent[q])'
    BY Zenon, <1>1, <1>6 DEF IInv, FamilyInv
  <2>5. \A q \in Children' : parent'[q] # Null
    BY Zenon, <1>5 DEF IInv, FamilyInv
  <2>6. \A S \in SUBSET Children' : S # {} => \E p \in S : parent'[p] \notin S
    BY Zenon, <1>5 DEF IInv, FamilyInv
  <2>. QED  BY Zenon, <2>1, <2>2, <2>3, <2>4, <2>5, <2>6 DEF FamilyInv, Point, Live
<1>. QED  BY Zenon, <1>4, <1>7

\* The scans of the others are their own affair.
LEMMA ScanOne ==
  ASSUME NEW p \in Proc, ScanAt(p)', \A q \in Proc : q # p => pc'[q] \notin Holding
  PROVE  ScanInv'
<1>1. ASSUME NEW q \in Proc, q # p PROVE ScanAt(q)'
  BY Zenon, <1>1 DEF ScanAt, Holding, Exiting, Waiting
<1>. QED  BY Zenon, <1>1 DEF ScanInv

\* Nobody is in a scan.
LEMMA ScanNone ==
  ASSUME \A q \in Proc : pc'[q] \notin Holding PROVE ScanInv'
<1>1. ASSUME NEW q \in Proc PROVE ScanAt(q)'
  BY Zenon DEF ScanAt, Holding, Exiting, Waiting
<1>. QED  BY Zenon, <1>1 DEF ScanInv

\* Nobody exits or goes to sleep.
Calm == /\ parent' = parent
        /\ \A q \in Proc : state'[q] = state[q] \/ state'[q] \notin {"SLEEPING", "ZOMBIE"}
        /\ \A q \in Proc : chan'[q] = chan[q] \/ state'[q] # "SLEEPING"

\* Who is outside exit and wait leaves the scans alone.
LEMMA ScanKept ==
  ASSUME Setting, IInv, Calm,
         \A q \in Proc : \/ pc'[q] = pc[q] /\ i'[q] = i[q] /\ j'[q] = j[q]
                         \/ pc'[q] \notin Holding
  PROVE  ScanInv'
<1>1. ASSUME NEW q \in Proc PROVE ScanAt(q)'
  <2>1. CASE pc'[q] \notin Holding
    BY Zenon, <2>1 DEF ScanAt, Holding, Exiting, Waiting
  <2>2. CASE pc'[q] = pc[q] /\ i'[q] = i[q] /\ j'[q] = j[q]
    <3>1. ScanAt(q) /\ parent' = parent
      BY Zenon DEF IInv, ScanInv, Calm
    <3>2. \A r \in Proc : state[r] # "ZOMBIE" => state'[r] # "ZOMBIE"
      BY Zenon DEF Calm
    <3>3. CASE (pc[q] = "exit_wakeup" /\ j[q] > parent[q]) \/ pc[q] = "exit_zombie"
      <4>1. state[parent[q]] # "SLEEPING" => state'[parent[q]] # "SLEEPING"
        <5>1. parent[q] \in Proc
          BY Zenon, <3>3, Exiter DEF Exiting
        <5>. QED  BY Zenon, <5>1 DEF Calm
      <4>. QED  BY Zenon, <2>2, <3>1, <3>2, <4>1 DEF ScanAt
    <3>4. CASE ~((pc[q] = "exit_wakeup" /\ j[q] > parent[q]) \/ pc[q] = "exit_zombie")
      BY Zenon, <2>2, <3>1, <3>2, <3>4 DEF ScanAt
    <3>. QED  BY Zenon, <3>3, <3>4
  <2>. QED  BY Zenon, <2>1, <2>2
<1>. QED  BY Zenon, <1>1 DEF ScanInv

\* Sleepers sleep on, or wake up.
LEMMA NoticeKept ==
  ASSUME IInv, Calm,
         \A q \in Proc : pc[q] = "adopt_wakeup" => pc'[q] = pc[q] /\ j'[q] = j[q]
  PROVE  NoticeInv'
<1>1. \A p \in Proc : state'[p] = "SLEEPING" => state[p] = "SLEEPING" /\ chan'[p] = chan[p]
  BY Zenon DEF Calm
<1>2. \A p \in Proc : state'[p] = "ZOMBIE" => state[p] = "ZOMBIE"
  BY Zenon DEF Calm
<1>3. Adopting => Adopting'
  BY Zenon DEF Adopting
<1>4. \A p \in Proc : state'[p] = "SLEEPING" => chan'[p] = p
  BY Zenon, <1>1 DEF IInv, NoticeInv
<1>5. \A p, q \in Proc : state'[p] = "SLEEPING" /\ parent'[q] = p /\ state'[q] = "ZOMBIE"
        => p = initproc /\ Adopting'
  BY Zenon, <1>1, <1>2, <1>3 DEF IInv, NoticeInv, Calm
<1>. QED  BY Zenon, <1>4, <1>5 DEF NoticeInv

\* A step outside exit, wait and the last part of fork, that may wake others.
LEMMA QuietStep ==
  ASSUME Setting, IInv, TypeOK', NEW c \in CPU, NEW p \in Proc, Executes(c, p),
         Others(p), UNCHANGED <<cproc, thread, wait_lock, parent>>,
         OnCpu(c, p)', LocalsAt(p)', state[p] = "RUNNING",
         state'[p] \in {"RUNNING", "RUNNABLE"},
         pc[p] \notin Holding, pc'[p] \notin Holding,
         \/ Point(p)' = Point(p) /\ i'[p] = i[p]
         \/ Point(p) \notin Forking /\ Point(p)' \notin Forking,
         \A q \in Proc : q # p =>
           \/ state'[q] = state[q]
           \/ lock[q] = None /\ state[q] = "SLEEPING" /\ state'[q] = "RUNNABLE",
         \A q \in Proc : chan'[q] = chan[q] \/ state'[q] # "SLEEPING"
  PROVE  IInv'
<1>1. CpuInv'
  <2>1. \A q \in Proc : q # p =>
          \/ state'[q] = state[q]
          \/ lock[q] = None /\ state[q] # "RUNNING" /\ state'[q] # "RUNNING"
    BY Zenon
  <2>. QED  BY Zenon, <2>1, CpuStep
<1>2. WaitLockInv'
  BY Zenon, WaitLockStep
<1>3. LocalsInv'
  BY Zenon, LocalsStep
<1>4. ForkInv' /\ FamilyInv'
  <2>1. \A q \in Proc : state'[q] = state[q] \/ (Live(q) /\ Live(q)')
    BY Zenon DEF Live
  <2>2. \A q \in Proc : q # p => Point(q)' = Point(q) /\ i'[q] = i[q]
    BY Zenon DEF Others, Point
  <2>. QED  BY Zenon, <2>1, <2>2, FamilyKept
<1>5. Calm
  BY Zenon DEF Calm
<1>6. \A q \in Proc : \/ pc'[q] = pc[q] /\ i'[q] = i[q] /\ j'[q] = j[q]
                      \/ pc'[q] \notin Holding
  BY Zenon DEF Others
<1>7. \A q \in Proc : pc[q] = "adopt_wakeup" => pc'[q] = pc[q] /\ j'[q] = j[q]
  BY Zenon DEF Others, Holding, Exiting
<1>8. ScanInv' /\ NoticeInv'
  BY Zenon, <1>5, <1>6, <1>7, ScanKept, NoticeKept
<1>. QED  BY Zenon, <1>1, <1>2, <1>3, <1>4, <1>8 DEF IInv
-----------------------------------------------------------------------------
(* The initial state and the switches *)

\* userinit leaves init RUNNABLE and nobody running.
LEMMA InitInv == Setting /\ Init => IInv
<1>. SUFFICES ASSUME Setting, Init PROVE IInv
  BY Zenon
<1>1. TypeOK
  BY Slots DEF Init, TypeOK, Places, Switching, Interruptible
<1>2. /\ \A p \in Proc : pc[p] = "resume" /\ ret[p] = "user" /\ i[p] = 1 /\ j[p] = 1
      /\ \A p \in Proc : lock[p] = None /\ parent[p] = Null
      /\ \A c \in CPU : cproc[c] = Null /\ thread[c] = "scheduler"
      /\ \A p \in Proc : state[p] = IF p = initproc THEN "RUNNABLE" ELSE "UNUSED"
      /\ wait_lock = None
  BY Zenon DEF Init
<1>3. \A p \in Proc : Point(p) = "user" /\ pc[p] \notin Holding /\ pc[p] \in Switching
  BY Zenon, <1>2 DEF Point, Switching, Holding, Exiting, Waiting
<1>4. CpuInv
  <2>1. \A p \in Proc : OffCpu(p)
    BY Zenon, <1>2 DEF OffCpu
  <2>2. \A c \in CPU, p \in Proc : cproc[c] # p
    BY <1>2, Slots
  <2>. QED  BY Zenon, <1>2, <2>1, <2>2 DEF CpuInv
<1>5. WaitLockInv
  BY Zenon, <1>2, <1>3, Slots DEF WaitLockInv
<1>6. LocalsInv
  BY Zenon, <1>2, <1>3 DEF LocalsInv, LocalsAt
<1>7. ForkInv
  <2>1. \A p \in Proc : Point(p) \notin Forking
    BY Zenon, <1>3 DEF Forking
  <2>. QED  BY Zenon, <2>1 DEF ForkInv
<1>8. FamilyInv
  <2>1. Children = {}
    BY Zenon, <1>2 DEF Children
  <2>2. Live(initproc)
    BY Zenon, <1>2, Slots DEF Live
  <2>. QED  BY Zenon, <1>2, <2>1, <2>2 DEF FamilyInv
<1>9. ScanInv
  BY Zenon, <1>3 DEF ScanInv, ScanAt, Holding, Exiting, Waiting
<1>10. NoticeInv
  BY Zenon, <1>2 DEF NoticeInv
<1>. QED  BY Zenon, <1>1, <1>4, <1>5, <1>6, <1>7, <1>8, <1>9, <1>10 DEF IInv

\* A switch changes nothing that exit, wait and fork go by.
LEMMA SwitchStep ==
  ASSUME Setting, IInv, TypeOK', CpuInv',
         UNCHANGED <<wait_lock, parent, chan, ret, i, j>>,
         \A q \in Proc : pc'[q] = pc[q] \/ (pc[q] = "sched" /\ pc'[q] = "resume"),
         \A q \in Proc : state'[q] = state[q]
                         \/ (state[q] = "RUNNABLE" /\ state'[q] = "RUNNING"),
         \A d \in CPU, q \in Proc : pc[q] \in Holding => (Executes(d, q)' <=> Executes(d, q))
  PROVE  IInv'
<1>1. \A q \in Proc : /\ pc'[q] \in Holding <=> pc[q] \in Holding
                      /\ pc'[q] \in Switching <=> pc[q] \in Switching
                      /\ pc'[q] = pc[q] \/ pc'[q] \notin Holding
  BY Zenon DEF Holding, Exiting, Waiting, Switching
<1>2. \A q \in Proc : Point(q)' = Point(q)
  BY Zenon, <1>1 DEF Point, Switching
<1>3. WaitLockInv'
  BY Zenon, <1>1 DEF IInv, WaitLockInv
<1>4. LocalsInv'
  <2>1. ASSUME NEW q \in Proc PROVE LocalsAt(q)'
    <3>1. LocalsAt(q)
      BY Zenon DEF IInv, LocalsInv
    <3>2. pc'[q] \notin {"adopt_wakeup", "exit_wakeup"} =>
            pc[q] \notin {"adopt_wakeup", "exit_wakeup"}
      BY Zenon
    <3>. QED  BY Zenon, <1>1, <1>2, <3>1, <3>2 DEF LocalsAt
  <2>. QED  BY Zenon, <2>1 DEF LocalsInv
<1>5. ForkInv' /\ FamilyInv'
  <2>1. \A q \in Proc : state'[q] = state[q] \/ (Live(q) /\ Live(q)')
    BY Zenon DEF Live
  <2>. QED  BY Zenon, <1>2, <2>1, FamilyKept
<1>6. Calm
  BY Zenon DEF Calm
<1>7. \A q \in Proc : pc[q] = "adopt_wakeup" => pc'[q] = pc[q] /\ j'[q] = j[q]
  BY Zenon
<1>8. ScanInv' /\ NoticeInv'
  BY Zenon, <1>1, <1>6, <1>7, ScanKept, NoticeKept
<1>. QED  BY Zenon, <1>3, <1>4, <1>5, <1>8 DEF IInv

\* scheduler() switches to a RUNNABLE process: nobody else has it.
LEMMA SchedulerStep ==
  ASSUME Setting, IInv, NEW c \in CPU, NEW p \in Proc, scheduler(c, p) PROVE IInv'
<1>1. /\ thread[c] = "scheduler" /\ cproc[c] = Null
      /\ lock[p] = None /\ state[p] = "RUNNABLE"
      /\ UNCHANGED <<wait_lock, parent, chan, ret, i, j, pc>>
  BY Zenon DEF scheduler, Runnable, locals
<1>2. TypeOK'
  BY Zenon DEF scheduler, locals, IInv, TypeOK
<1>3. /\ lock'[p] = c /\ state'[p] = "RUNNING" /\ cproc'[c] = p /\ thread'[c] = "process"
      /\ \A q \in Proc : q # p => lock'[q] = lock[q] /\ state'[q] = state[q]
      /\ \A d \in CPU : d # c => cproc'[d] = cproc[d] /\ thread'[d] = thread[d]
  BY Zenon DEF scheduler, IInv, TypeOK
<1>4. \A d \in CPU : cproc[d] # p
  BY Zenon, <1>1, Abandoned
<1>5. OffCpu(p)
  BY Zenon, <1>4 DEF IInv, CpuInv
<1>6. CpuInv'
  <2>1. ASSUME NEW d \in CPU, thread'[d] = "process" PROVE cproc'[d] # Null
    <3>1. CASE d = c
      BY Zenon, <1>3, <3>1, Slots
    <3>2. CASE d # c
      BY Zenon, <1>3, <2>1, <3>2 DEF IInv, CpuInv
    <3>. QED  BY Zenon, <3>1, <3>2
  <2>2. ASSUME NEW d \in CPU, NEW e \in CPU, cproc'[d] = cproc'[e], cproc'[d] # Null
        PROVE  d = e
    <3>1. \A x \in CPU : x # c => cproc'[x] = cproc[x] /\ cproc[x] # p
      BY Zenon, <1>3, <1>4
    <3>2. CASE d = c
      BY Zenon, <1>3, <2>2, <3>1, <3>2
    <3>3. CASE e = c
      BY Zenon, <1>3, <2>2, <3>1, <3>3
    <3>4. CASE d # c /\ e # c
      <4>1. cproc[d] = cproc[e] /\ cproc[d] # Null
        BY Zenon, <2>2, <3>1, <3>4
      <4>. QED  BY Zenon, <4>1 DEF IInv, CpuInv
    <3>. QED  BY Zenon, <3>2, <3>3, <3>4
  <2>3. ASSUME NEW d \in CPU, NEW q \in Proc, cproc'[d] = q PROVE OnCpu(d, q)'
    <3>1. CASE d = c
      <4>1. q = p
        BY Zenon, <1>3, <2>3, <3>1
      <4>. QED  BY Zenon, <1>1, <1>3, <1>5, <3>1, <4>1 DEF OnCpu, OffCpu
    <3>2. CASE d # c
      <4>1. q # p /\ OnCpu(d, q)
        BY Zenon, <1>3, <1>4, <2>3, <3>2 DEF IInv, CpuInv
      <4>. QED  BY Zenon, <1>1, <1>3, <3>2, <4>1 DEF OnCpu
    <3>. QED  BY Zenon, <3>1, <3>2
  <2>4. ASSUME NEW q \in Proc, \A d \in CPU : cproc'[d] # q PROVE OffCpu(q)'
    <3>1. q # p /\ \A d \in CPU : cproc[d] # q
      BY Zenon, <1>1, <1>3, <2>4, Slots
    <3>2. OffCpu(q)
      BY Zenon, <3>1 DEF IInv, CpuInv
    <3>. QED  BY Zenon, <1>1, <1>3, <3>1, <3>2 DEF OffCpu
  <2>. QED  BY Zenon, <2>1, <2>2, <2>3, <2>4 DEF CpuInv
<1>7. \A d \in CPU, q \in Proc : pc[q] \in Holding => (Executes(d, q)' <=> Executes(d, q))
  <2>1. pc[p] \notin Holding
    BY Zenon, <1>5 DEF OffCpu, Holding, Exiting, Waiting
  <2>2. ASSUME NEW d \in CPU, NEW q \in Proc, pc[q] \in Holding
        PROVE  Executes(d, q)' <=> Executes(d, q)
    <3>1. q # p
      BY Zenon, <2>1, <2>2
    <3>2. CASE d = c
      <4>1. ~Executes(d, q)
        BY Zenon, <1>1, <3>2 DEF Executes
      <4>2. ~(Executes(d, q)')
        BY Zenon, <1>3, <3>1, <3>2 DEF Executes
      <4>. QED  BY Zenon, <4>1, <4>2
    <3>3. CASE d # c
      BY Zenon, <1>3, <3>3 DEF Executes
    <3>. QED  BY Zenon, <3>2, <3>3
  <2>. QED  BY Zenon, <2>2
<1>8. \A q \in Proc : state'[q] = state[q]
                      \/ (state[q] = "RUNNABLE" /\ state'[q] = "RUNNING")
  BY Zenon, <1>1, <1>3
<1>9. \A q \in Proc : pc'[q] = pc[q] \/ (pc[q] = "sched" /\ pc'[q] = "resume")
  BY Zenon, <1>1
<1>. QED  BY Zenon, <1>1, <1>2, <1>6, <1>7, <1>8, <1>9, SwitchStep

\* sched() switches to the scheduler, with p->lock held.
LEMMA SchedStep ==
  ASSUME Setting, IInv, NEW c \in CPU, NEW p \in Proc, sched(c, p) PROVE IInv'
<1>1. /\ cproc[c] = p /\ thread[c] = "process" /\ pc[p] = "sched"
      /\ UNCHANGED <<wait_lock, parent, chan, ret, i, j, state, lock, cproc>>
  BY Zenon DEF sched, At, struct, locals
<1>2. TypeOK'
  BY Zenon DEF sched, Goto, struct, locals, IInv, TypeOK, Places, Switching
<1>3. /\ pc'[p] = "resume" /\ thread'[c] = "scheduler"
      /\ \A q \in Proc : q # p => pc'[q] = pc[q]
      /\ \A d \in CPU : d # c => thread'[d] = thread[d]
  BY Zenon DEF sched, Goto, IInv, TypeOK
<1>4. lock[p] = c /\ state[p] \in {"RUNNABLE", "SLEEPING", "ZOMBIE"}
  <2>1. OnCpu(c, p)
    BY Zenon, <1>1 DEF IInv, CpuInv
  <2>. QED  BY Zenon, <1>1, <2>1 DEF OnCpu, Switching
<1>5. \A d \in CPU : cproc[d] = p => d = c
  BY Zenon, <1>1, Slots DEF IInv, CpuInv
<1>6. CpuInv'
  <2>1. \A d \in CPU : thread'[d] = "process" => cproc'[d] # Null
    BY Zenon, <1>1, <1>3 DEF IInv, CpuInv
  <2>2. \A d, e \in CPU : cproc'[d] = cproc'[e] /\ cproc'[d] # Null => d = e
    BY Zenon, <1>1 DEF IInv, CpuInv
  <2>3. ASSUME NEW d \in CPU, NEW q \in Proc, cproc'[d] = q PROVE OnCpu(d, q)'
    <3>1. CASE d = c
      <4>1. q = p
        BY Zenon, <1>1, <2>3, <3>1
      <4>. QED  BY Zenon, <1>1, <1>3, <1>4, <3>1, <4>1 DEF OnCpu
    <3>2. CASE d # c
      <4>1. q # p /\ OnCpu(d, q)
        BY Zenon, <1>1, <1>5, <2>3, <3>2 DEF IInv, CpuInv
      <4>. QED  BY Zenon, <1>1, <1>3, <3>2, <4>1 DEF OnCpu
    <3>. QED  BY Zenon, <3>1, <3>2
  <2>4. ASSUME NEW q \in Proc, \A d \in CPU : cproc'[d] # q PROVE OffCpu(q)'
    <3>1. q # p /\ OffCpu(q)
      BY Zenon, <1>1, <2>4 DEF IInv, CpuInv
    <3>. QED  BY Zenon, <1>1, <1>3, <3>1 DEF OffCpu
  <2>. QED  BY Zenon, <2>1, <2>2, <2>3, <2>4 DEF CpuInv
<1>7. \A d \in CPU, q \in Proc : pc[q] \in Holding => (Executes(d, q)' <=> Executes(d, q))
  <2>1. pc[p] \notin Holding
    BY Zenon, <1>1 DEF Holding, Exiting, Waiting
  <2>. QED  BY Zenon, <1>1, <1>3, <2>1 DEF Executes
<1>8. \A q \in Proc : pc'[q] = pc[q] \/ (pc[q] = "sched" /\ pc'[q] = "resume")
  BY Zenon, <1>1, <1>3
<1>9. \A q \in Proc : state'[q] = state[q]
                      \/ (state[q] = "RUNNABLE" /\ state'[q] = "RUNNING")
  BY Zenon, <1>1
<1>. QED  BY Zenon, <1>1, <1>2, <1>6, <1>7, <1>8, <1>9, SwitchStep

\* The scheduler releases the lock of the process that switched to it.
LEMMA SwitchedStep ==
  ASSUME Setting, IInv, NEW c \in CPU, switched(c) PROVE IInv'
<1>. DEFINE p == cproc[c]
<1>1. /\ thread[c] = "scheduler" /\ p # Null
      /\ UNCHANGED <<wait_lock, parent, chan, ret, i, j, state, thread, pc>>
  BY Zenon DEF switched, struct, locals
<1>2. p \in Proc
  BY Zenon, <1>1 DEF IInv, TypeOK
<1>3. TypeOK'
  BY Zenon DEF switched, struct, locals, IInv, TypeOK
<1>4. /\ lock'[p] = None /\ cproc'[c] = Null
      /\ \A q \in Proc : q # p => lock'[q] = lock[q]
      /\ \A d \in CPU : d # c => cproc'[d] = cproc[d]
  BY Zenon, <1>2 DEF switched, IInv, TypeOK
<1>5. pc[p] = "resume" /\ state[p] \in {"RUNNABLE", "SLEEPING", "ZOMBIE"}
  <2>1. OnCpu(c, p)
    BY Zenon, <1>2 DEF IInv, CpuInv
  <2>. QED  BY Zenon, <1>1, <2>1 DEF OnCpu, Switching
<1>6. \A d \in CPU : cproc[d] = p => d = c
  BY Zenon, <1>1 DEF IInv, CpuInv
<1>7. CpuInv'
  <2>1. \A d \in CPU : thread'[d] = "process" => cproc'[d] # Null
    BY Zenon, <1>1, <1>4 DEF IInv, CpuInv
  <2>2. \A d, e \in CPU : cproc'[d] = cproc'[e] /\ cproc'[d] # Null => d = e
    BY Zenon, <1>4 DEF IInv, CpuInv
  <2>3. ASSUME NEW d \in CPU, NEW q \in Proc, cproc'[d] = q PROVE OnCpu(d, q)'
    <3>1. d # c
      BY Zenon, <1>4, <2>3, Slots
    <3>2. q # p /\ OnCpu(d, q)
      BY Zenon, <1>4, <1>6, <2>3, <3>1 DEF IInv, CpuInv
    <3>. QED  BY Zenon, <1>1, <1>4, <3>2 DEF OnCpu
  <2>4. ASSUME NEW q \in Proc, \A d \in CPU : cproc'[d] # q PROVE OffCpu(q)'
    <3>1. CASE q = p
      BY Zenon, <1>1, <1>4, <1>5, <3>1 DEF OffCpu
    <3>2. CASE q # p
      <4>1. \A d \in CPU : cproc[d] # q
        BY Zenon, <1>4, <2>4, <3>2
      <4>2. OffCpu(q)
        BY Zenon, <4>1 DEF IInv, CpuInv
      <4>. QED  BY Zenon, <1>1, <1>4, <3>2, <4>2 DEF OffCpu
    <3>. QED  BY Zenon, <3>1, <3>2
  <2>. QED  BY Zenon, <2>1, <2>2, <2>3, <2>4 DEF CpuInv
<1>8. \A d \in CPU, q \in Proc : pc[q] \in Holding => (Executes(d, q)' <=> Executes(d, q))
  <2>1. ASSUME NEW d \in CPU, NEW q \in Proc PROVE Executes(d, q)' <=> Executes(d, q)
    <3>1. CASE d = c
      BY Zenon, <1>1, <3>1 DEF Executes
    <3>2. CASE d # c
      BY Zenon, <1>1, <1>4, <3>2 DEF Executes
    <3>. QED  BY Zenon, <3>1, <3>2
  <2>. QED  BY Zenon, <2>1
<1>9. /\ \A q \in Proc : pc'[q] = pc[q] \/ (pc[q] = "sched" /\ pc'[q] = "resume")
      /\ \A q \in Proc : state'[q] = state[q]
                         \/ (state[q] = "RUNNABLE" /\ state'[q] = "RUNNING")
  BY Zenon, <1>1
<1>. QED  BY Zenon, <1>1, <1>3, <1>7, <1>8, <1>9, SwitchStep
-----------------------------------------------------------------------------
(* Steps that leave p where the scheduler can preempt it *)

\* What the others are doing is not changed by a step of p.
LEMMA OthersPoint ==
  ASSUME NEW p \in Proc, Others(p)
  PROVE  \A q \in Proc : q # p => Point(q)' = Point(q) /\ i'[q] = i[q]
  BY Zenon DEF Others, Point

\* A step of p outside the switches.
LEMMA Stays ==
  ASSUME Setting, IInv, NEW c \in CPU, NEW p \in Proc, Executes(c, p), Others(p),
         UNCHANGED <<cproc, thread, lock, ret>>,
         pc[p] \notin Switching, pc'[p] \notin Switching, state'[p] = state[p],
         pc'[p] \notin {"adopt_wakeup", "exit_wakeup"} => j'[p] = 1,
         pc'[p] = "user" => i'[p] = 1,
         \A q \in Proc : q # p =>
           \/ state'[q] = state[q]
           \/ lock[q] = None /\ state[q] # "RUNNING" /\ state'[q] # "RUNNING"
  PROVE  CpuInv' /\ LocalsInv' /\ OnCpu(c, p)' /\ LocalsAt(p)'
<1>1. state[p] = "RUNNING" /\ lock[p] = None /\ ret[p] = "user"
  BY Zenon, Running
<1>2. OnCpu(c, p)'
  BY Zenon, <1>1 DEF OnCpu, Executes
<1>3. LocalsAt(p)'
  BY Zenon, <1>1 DEF LocalsAt, Point
<1>. QED  BY Zenon, <1>2, <1>3, CpuStep, LocalsStep

\* A step outside exit, wait, the last part of fork and the switches.
LEMMA PlainStep ==
  ASSUME Setting, IInv, TypeOK', NEW c \in CPU, NEW p \in Proc, Executes(c, p),
         Others(p), UNCHANGED <<cproc, thread, wait_lock, lock, parent, ret, j>>,
         pc[p] \in Interruptible \ Forking, pc'[p] \in Interruptible \ Forking,
         state'[p] = state[p],
         pc'[p] = "user" => i'[p] = 1,
         \A q \in Proc : q # p =>
           \/ state'[q] = state[q]
           \/ lock[q] = None /\ state[q] = "SLEEPING" /\ state'[q] = "RUNNABLE",
         \A q \in Proc : chan'[q] = chan[q] \/ state'[q] # "SLEEPING"
  PROVE  IInv'
<1>1. /\ pc[p] \notin Switching /\ pc'[p] \notin Switching
      /\ pc[p] \notin Holding /\ pc'[p] \notin Holding
      /\ pc[p] \notin Forking /\ pc'[p] \notin Forking
  BY Zenon, PlacesApart
<1>2. state[p] = "RUNNING" /\ Point(p) = pc[p] /\ Point(p)' = pc'[p]
  BY Zenon, <1>1, Running DEF Point
<1>3. j'[p] = 1
  <2>1. LocalsAt(p)
    BY Zenon DEF IInv, LocalsInv
  <2>. QED  BY Zenon, <1>1, <2>1 DEF LocalsAt, Holding, Exiting
<1>4. \A q \in Proc : q # p =>
        \/ state'[q] = state[q]
        \/ lock[q] = None /\ state[q] # "RUNNING" /\ state'[q] # "RUNNING"
  BY Zenon
<1>5. OnCpu(c, p)' /\ LocalsAt(p)'
  BY Zenon, <1>1, <1>3, <1>4, Stays
<1>. QED  BY Zenon, <1>1, <1>2, <1>5, QuietStep

\* Back from the switch, with p->lock given back.
LEMMA ResumeStep ==
  ASSUME Setting, IInv, NEW c \in CPU, NEW p \in Proc, resume(c, p) PROVE IInv'
<1>1. /\ Executes(c, p) /\ pc[p] = "resume"
      /\ UNCHANGED <<cproc, thread, wait_lock, parent, state, i, j>>
  BY Zenon DEF resume, At, Executes, cpus
<1>2. ret[p] \in Interruptible /\ LocalsAt(p)
  BY Zenon DEF IInv, TypeOK, LocalsInv
<1>3. TypeOK'
  BY Zenon, <1>2 DEF resume, Goto, cpus, IInv, TypeOK, Places, Interruptible
<1>4. /\ pc'[p] = ret[p] /\ ret'[p] = "user" /\ lock'[p] = None
      /\ \A q \in Proc : q # p => chan'[q] = chan[q]
      /\ Others(p)
  BY Zenon DEF resume, Goto, IInv, TypeOK, Others
<1>5. /\ pc'[p] \notin Switching /\ pc'[p] \notin Holding /\ pc[p] \notin Holding
      /\ pc[p] \in Switching
  BY Zenon, <1>1, <1>2, <1>4, PlacesApart DEF Switching
<1>6. state[p] = "RUNNING"
  <2>1. OnCpu(c, p)
    BY Zenon, <1>1 DEF IInv, CpuInv, Executes
  <2>2. "resume" # "sched" /\ "process" # "scheduler"
    BY Zenon
  <2>. QED  BY Zenon, <1>1, <2>1, <2>2 DEF OnCpu, Executes, Switching
<1>7. Point(p)' = Point(p) /\ i'[p] = i[p]
  BY Zenon, <1>1, <1>4, <1>5 DEF Point
<1>8. OnCpu(c, p)'
  BY Zenon, <1>1, <1>4, <1>5, <1>6 DEF OnCpu, Executes
<1>9. LocalsAt(p)'
  BY Zenon, <1>1, <1>2, <1>4, <1>7 DEF LocalsAt
<1>10. /\ \A q \in Proc : q # p => state'[q] = state[q]
       /\ \A q \in Proc : chan'[q] = chan[q] \/ state'[q] # "SLEEPING"
       /\ state'[p] \in {"RUNNING", "RUNNABLE"}
  BY Zenon, <1>1, <1>4, <1>6
<1>. QED  BY Zenon, <1>1, <1>3, <1>4, <1>5, <1>6, <1>7, <1>8, <1>9, <1>10, QuietStep

\* yield() on a timer interrupt.
LEMMA YieldStep ==
  ASSUME Setting, IInv, NEW c \in CPU, NEW p \in Proc, yield(c, p) PROVE IInv'
<1>1. /\ Executes(c, p) /\ pc[p] \in Interruptible
      /\ UNCHANGED <<cproc, thread, wait_lock, parent, chan, i, j>>
  BY Zenon DEF yield, InterruptsOn, At, Executes, cpus
<1>2. LocalsAt(p)
  BY Zenon DEF IInv, LocalsInv
<1>3. TypeOK'
  BY Zenon, <1>1 DEF yield, Goto, cpus, IInv, TypeOK, Places, Switching
<1>4. /\ pc'[p] = "sched" /\ ret'[p] = pc[p] /\ lock'[p] = c /\ state'[p] = "RUNNABLE"
      /\ \A q \in Proc : q # p => state'[q] = state[q]
      /\ Others(p)
  BY Zenon DEF yield, Goto, IInv, TypeOK, Others
<1>5. /\ pc[p] \notin Switching /\ pc[p] \notin Holding
      /\ pc'[p] \in Switching /\ pc'[p] \notin Holding
  BY Zenon, <1>1, <1>4, PlacesApart DEF Switching
<1>6. state[p] = "RUNNING"
  BY Zenon, <1>1, <1>5, Running
<1>7. Point(p)' = Point(p) /\ i'[p] = i[p]
  BY Zenon, <1>1, <1>4, <1>5 DEF Point
<1>8. OnCpu(c, p)'
  BY Zenon, <1>1, <1>4 DEF OnCpu, Executes
<1>9. LocalsAt(p)'
  <2>1. pc[p] \notin {"adopt_wakeup", "exit_wakeup"}
    BY Zenon, <1>5 DEF Holding, Exiting
  <2>. QED  BY Zenon, <1>1, <1>2, <1>5, <1>7, <2>1 DEF LocalsAt
<1>10. /\ \A q \in Proc : q # p => state'[q] = state[q]
       /\ \A q \in Proc : chan'[q] = chan[q] \/ state'[q] # "SLEEPING"
       /\ state'[p] \in {"RUNNING", "RUNNABLE"}
  BY Zenon, <1>1, <1>4
<1>. QED  BY Zenon, <1>1, <1>3, <1>4, <1>5, <1>6, <1>7, <1>8, <1>9, <1>10, QuietStep

\* The start of fork.
LEMMA ForkStep ==
  ASSUME Setting, IInv, NEW c \in CPU, NEW p \in Proc, fork(c, p) PROVE IInv'
<1>1. /\ Executes(c, p) /\ pc[p] = "user"
      /\ UNCHANGED <<cproc, thread, wait_lock, lock, parent, ret, i, j, state, chan>>
  BY Zenon DEF fork, Syscall, At, Executes, cpus, struct, locals
<1>2. TypeOK'
  BY Zenon DEF fork, Syscall, Goto, cpus, struct, locals, IInv, TypeOK, Places, Interruptible
<1>3. pc'[p] = "alloc" /\ Others(p)
  BY Zenon DEF fork, Syscall, Goto, struct, locals, IInv, TypeOK, Others
<1>4. pc[p] \in Interruptible \ Forking /\ pc'[p] \in Interruptible \ Forking
  BY Zenon, <1>1, <1>3 DEF Interruptible, Forking
<1>. QED  BY Zenon, <1>1, <1>2, <1>3, <1>4, PlainStep

\* The start of kill.
LEMMA KillStep ==
  ASSUME Setting, IInv, NEW c \in CPU, NEW p \in Proc, NEW k \in KillPid, kill(c, p, k)
  PROVE  IInv'
<1>1. /\ Executes(c, p) /\ pc[p] = "user"
      /\ UNCHANGED <<cproc, thread, wait_lock, lock, parent, ret, i, j, state, chan>>
  BY Zenon DEF kill, Syscall, At, Executes, cpus, struct
<1>2. TypeOK'
  BY Zenon DEF kill, Syscall, Goto, cpus, struct, IInv, TypeOK, Places, Interruptible
<1>3. pc'[p] = "kill" /\ Others(p)
  BY Zenon DEF kill, Syscall, Goto, struct, IInv, TypeOK, Others
<1>4. pc[p] \in Interruptible \ Forking /\ pc'[p] \in Interruptible \ Forking
  BY Zenon, <1>1, <1>3 DEF Interruptible, Forking
<1>. QED  BY Zenon, <1>1, <1>2, <1>3, <1>4, PlainStep

\* The way back from a system call.
LEMMA ReturnType ==
  ASSUME Setting, TypeOK, NEW p \in Proc, Return(p)
  PROVE  /\ pc' \in [Proc -> Places] /\ ret' \in [Proc -> Interruptible]
         /\ i' \in [Proc -> 1..NPROC+1] /\ j' \in [Proc -> 1..NPROC+1]
<1>1. "user" \in Places /\ 1 \in 1..NPROC+1
  BY Slots DEF Places, Interruptible
<1>. QED  BY Zenon, <1>1 DEF Return, Goto, TypeOK

\* One slot of kill's scan, which may wake a sleeper.
LEMMA KillScanStep ==
  ASSUME Setting, IInv, NEW c \in CPU, NEW p \in Proc, kill_scan(c, p) PROVE IInv'
<1>1. /\ Executes(c, p) /\ pc[p] = "kill"
      /\ UNCHANGED <<cproc, thread, wait_lock, lock, parent, ret, j, chan>>
  BY Zenon DEF kill_scan, At, Executes, cpus, struct, Return, Advance
<1>2. state[p] = "RUNNING"
  BY Zenon, <1>1, Running DEF Switching
<1>3. i[p] \in Nat /\ (~(i[p] > NPROC) => i[p] \in Proc)
  BY Slots DEF IInv, TypeOK
<1>4. pc[p] \in Interruptible \ Forking
  BY Zenon, <1>1 DEF Interruptible, Forking
<1>5. CASE i[p] > NPROC
  <2>1. Return(p) /\ state' = state
    BY Zenon, <1>5 DEF kill_scan, struct
  <2>2. TypeOK'
    BY Zenon, <1>1, <2>1, ReturnType DEF IInv, TypeOK
  <2>3. pc'[p] = "user" /\ i'[p] = 1 /\ Others(p)
    BY Zenon, <1>1, <2>1 DEF Return, Goto, IInv, TypeOK, Others
  <2>4. pc'[p] \in Interruptible \ Forking
    BY Zenon, <2>3 DEF Interruptible, Forking
  <2>. QED  BY Zenon, <1>1, <1>4, <2>1, <2>2, <2>3, <2>4, PlainStep
<1>6. CASE ~(i[p] > NPROC) /\ pid[i[p]] = target[p]
  <2>1. /\ Return(p) /\ lock[i[p]] = None
        /\ state' = [state EXCEPT ![i[p]] = IF @ = "SLEEPING" THEN "RUNNABLE" ELSE @]
    BY Zenon, <1>6 DEF kill_scan
  <2>2. TypeOK'
    <3>1. \A x : x \in {"UNUSED", "USED", "RUNNABLE", "RUNNING", "SLEEPING", "ZOMBIE"} =>
            (IF x = "SLEEPING" THEN "RUNNABLE" ELSE x)
               \in {"UNUSED", "USED", "RUNNABLE", "RUNNING", "SLEEPING", "ZOMBIE"}
      BY Zenon
    <3>2. state' \in [Proc -> {"UNUSED", "USED", "RUNNABLE", "RUNNING", "SLEEPING", "ZOMBIE"}]
      BY Zenon, <1>3, <1>6, <2>1, <3>1 DEF IInv, TypeOK
    <3>. QED  BY Zenon, <1>1, <2>1, <3>2, ReturnType DEF IInv, TypeOK
  <2>3. pc'[p] = "user" /\ i'[p] = 1 /\ Others(p)
    BY Zenon, <1>1, <2>1 DEF Return, Goto, IInv, TypeOK, Others
  <2>4. pc'[p] \in Interruptible \ Forking
    BY Zenon, <2>3 DEF Interruptible, Forking
  <2>5. \A q \in Proc :
          \/ state'[q] = state[q]
          \/ lock[q] = None /\ state[q] = "SLEEPING" /\ state'[q] = "RUNNABLE"
    BY Zenon, <1>3, <1>6, <2>1 DEF IInv, TypeOK
  <2>6. state'[p] = state[p]
    BY Zenon, <1>2, <2>5
  <2>. QED  BY Zenon, <1>1, <1>4, <2>2, <2>3, <2>4, <2>5, <2>6, PlainStep
<1>7. CASE ~(i[p] > NPROC) /\ pid[i[p]] # target[p]
  <2>1. Advance(p) /\ state' = state /\ pc' = pc
    BY Zenon, <1>7 DEF kill_scan, struct
  <2>2. TypeOK'
    BY <1>1, <1>3, <1>7, <2>1, Slots DEF Advance, IInv, TypeOK
  <2>3. Others(p)
    BY Zenon, <1>1, <2>1 DEF Advance, IInv, TypeOK, Others
  <2>4. pc'[p] = "kill"
    BY Zenon, <1>1, <2>1
  <2>. QED  BY Zenon, <1>1, <1>4, <2>1, <2>2, <2>3, <2>4, PlainStep
<1>. QED  BY Zenon, <1>5, <1>6, <1>7
-----------------------------------------------------------------------------
(* fork *)

\* allocproc takes a slot: nobody is in it, and nobody's fork has it.
LEMMA AllocStep ==
  ASSUME Setting, IInv, NEW c \in CPU, NEW p \in Proc, Executes(c, p), pc[p] = "alloc",
         i[p] \in Proc, lock[i[p]] = None, state[i[p]] = "UNUSED",
         state' = [state EXCEPT ![i[p]] = "USED"],
         pc' = [pc EXCEPT ![p] = "fork_parent", ![i[p]] = "resume"],
         UNCHANGED <<parent, chan, lock, wait_lock, cproc, thread, ret, i, j>>
  PROVE  IInv'
<1>. DEFINE n == i[p]
<1>1. state[p] = "RUNNING" /\ Point(p) = "alloc" /\ pc[p] \notin Switching
  BY Zenon, Running DEF Switching
<1>2. n # p /\ n # initproc /\ parent[n] = Null
  BY Zenon, <1>1 DEF IInv, FamilyInv, Live
<1>3. pc[n] = "resume"
  <2>1. \A d \in CPU : cproc[d] # n
    BY Zenon, Abandoned
  <2>. QED  BY Zenon, <2>1 DEF IInv, CpuInv, OffCpu
<1>4. TypeOK'
  BY Zenon DEF IInv, TypeOK, Places, Interruptible, Switching
<1>5. /\ pc'[p] = "fork_parent" /\ state'[n] = "USED" /\ state'[p] = state[p]
      /\ \A q \in Proc : q # n => state'[q] = state[q]
      /\ Others(p)
  BY Zenon, <1>2, <1>3 DEF IInv, TypeOK, Others
<1>6. pc'[p] \notin Switching /\ pc[p] \notin Holding /\ pc'[p] \notin Holding
  BY Zenon, <1>5 DEF Switching, Holding, Exiting, Waiting
<1>7. Point(p)' = "fork_parent"
  BY Zenon, <1>5, <1>6 DEF Point
<1>8. \A q \in Proc : q # p => Point(q)' = Point(q)
  BY Zenon, <1>5, OthersPoint
<1>9. CpuInv' /\ LocalsInv'
  <2>1. j[p] = 1
    BY Zenon DEF IInv, LocalsInv, LocalsAt
  <2>. QED  BY Zenon, <1>1, <1>5, <1>6, <2>1, Stays
<1>10. WaitLockInv'
  BY Zenon, <1>5, <1>6, WaitLockStep
<1>11. \A q \in Proc : Point(q) \in Forking => i[q] \in Proc /\ i[q] # n
  BY Zenon DEF IInv, ForkInv
<1>12. ForkInv'
  <2>1. ASSUME NEW q \in Proc, Point(q)' \in Forking
        PROVE  /\ i[q] \in Proc /\ state'[i[q]] = "USED"
               /\ parent[i[q]] = IF Point(q)' = "fork_run" THEN q ELSE Null
    <3>1. CASE q = p
      BY Zenon, <1>2, <1>5, <1>7, <3>1
    <3>2. CASE q # p
      <4>1. Point(q)' = Point(q) /\ Point(q) \in Forking
        BY Zenon, <1>8, <2>1, <3>2
      <4>. QED  BY Zenon, <1>5, <1>11, <4>1 DEF IInv, ForkInv
    <3>. QED  BY Zenon, <3>1, <3>2
  <2>2. ASSUME NEW q \in Proc, NEW r \in Proc, Point(q)' \in Forking,
               Point(r)' \in Forking, i[q] = i[r]
        PROVE  q = r
    BY Zenon, <1>8, <1>11, <2>2 DEF IInv, ForkInv
  <2>. QED  BY Zenon, <2>1, <2>2 DEF ForkInv
<1>13. FamilyInv'
  <2>1. Children' = Children
    BY Zenon, <1>5 DEF Children
  <2>2. \A q \in Proc : Live(q) => Live(q)'
    BY Zenon, <1>5 DEF Live
  <2>3. \A q \in Proc : parent[q] # Null => parent[q] \in Proc
    BY Zenon DEF IInv, TypeOK
  <2>4. Live(initproc)'
    BY Zenon, <2>2, Slots DEF IInv, FamilyInv
  <2>5. \A q \in Proc : state'[q] = "UNUSED" => parent[q] = Null
    BY Zenon, <1>5 DEF IInv, FamilyInv
  <2>6. ASSUME NEW q \in Proc, state'[q] = "USED", parent[q] # Null
        PROVE  Point(parent[q])' = "fork_run" /\ i[parent[q]] = q
    <3>1. q # n /\ state[q] = "USED"
      BY Zenon, <1>2, <1>5, <2>6
    <3>2. Point(parent[q]) = "fork_run" /\ i[parent[q]] = q
      BY Zenon, <2>6, <3>1 DEF IInv, FamilyInv
    <3>3. parent[q] # p
      BY Zenon, <1>1, <3>2
    <3>. QED  BY Zenon, <1>8, <2>3, <2>6, <3>2, <3>3
  <2>7. \A q \in Proc : parent[q] # Null => Live(parent[q])'
    BY Zenon, <2>2, <2>3 DEF IInv, FamilyInv
  <2>8. /\ \A q \in Children' : parent[q] # Null
        /\ \A S \in SUBSET Children' : S # {} => \E q \in S : parent[q] \notin S
    BY Zenon, <2>1 DEF IInv, FamilyInv
  <2>. QED  BY Zenon, <2>4, <2>5, <2>6, <2>7, <2>8 DEF FamilyInv, Point, Live
<1>14. Calm
  BY Zenon, <1>5 DEF Calm
<1>15. ScanInv' /\ NoticeInv'
  <2>1. \A q \in Proc : \/ pc'[q] = pc[q] /\ i'[q] = i[q] /\ j'[q] = j[q]
                        \/ pc'[q] \notin Holding
    BY Zenon, <1>5, <1>6 DEF Others
  <2>2. \A q \in Proc : pc[q] = "adopt_wakeup" => pc'[q] = pc[q] /\ j'[q] = j[q]
    BY Zenon, <1>5, <1>6 DEF Others, Holding, Exiting
  <2>. QED  BY Zenon, <1>14, <2>1, <2>2, ScanKept, NoticeKept
<1>. QED  BY Zenon, <1>4, <1>9, <1>10, <1>12, <1>13, <1>15 DEF IInv

\* One slot of allocproc's scan.
LEMMA AllocprocStep ==
  ASSUME Setting, IInv, NEW c \in CPU, NEW p \in Proc, allocproc(c, p) PROVE IInv'
<1>1. /\ Executes(c, p) /\ pc[p] = "alloc"
      /\ UNCHANGED <<cproc, thread, wait_lock, lock, ret, j>>
  BY Zenon DEF allocproc, At, Executes, cpus, locals, Return, Advance
<1>2. i[p] \in Nat /\ (~(i[p] > NPROC) => i[p] \in Proc)
  BY Slots DEF IInv, TypeOK
<1>3. pc[p] \in Interruptible \ Forking
  BY Zenon, <1>1 DEF Interruptible, Forking
<1>4. CASE i[p] > NPROC /\ Return(p) /\ UNCHANGED struct
  <2>1. state' = state /\ parent' = parent /\ chan' = chan
    BY Zenon, <1>4 DEF struct
  <2>2. TypeOK'
    BY Zenon, <1>1, <1>4, <2>1, ReturnType DEF IInv, TypeOK
  <2>3. pc'[p] = "user" /\ i'[p] = 1 /\ Others(p)
    BY Zenon, <1>1, <1>4 DEF Return, Goto, IInv, TypeOK, Others
  <2>4. pc'[p] \in Interruptible \ Forking
    BY Zenon, <2>3 DEF Interruptible, Forking
  <2>. QED  BY Zenon, <1>1, <1>3, <2>1, <2>2, <2>3, <2>4, PlainStep
<1>5. CASE ~(i[p] > NPROC) /\ Advance(p) /\ UNCHANGED <<struct, pc>>
  <2>1. state' = state /\ parent' = parent /\ chan' = chan /\ pc' = pc
    BY Zenon, <1>5 DEF struct
  <2>2. TypeOK'
    BY <1>1, <1>2, <1>5, <2>1, Slots DEF Advance, IInv, TypeOK
  <2>3. Others(p)
    BY Zenon, <1>1, <1>5, <2>1 DEF Advance, IInv, TypeOK, Others
  <2>4. pc'[p] = "alloc"
    BY Zenon, <1>1, <2>1
  <2>. QED  BY Zenon, <1>1, <1>3, <2>1, <2>2, <2>3, <2>4, PlainStep
<1>6. CASE ~(i[p] > NPROC) /\ Unused(i[p]) /\ Freed(i[p]) /\ Return(p)
  <2>1. i[p] \in Proc /\ state[i[p]] = "UNUSED" /\ parent[i[p]] = Null
    BY Zenon, <1>2, <1>6 DEF Unused, IInv, FamilyInv
  <2>2. state' = state /\ parent' = parent
    BY Zenon, <1>6, <2>1 DEF Freed, IInv, TypeOK
  <2>3. \A q \in Proc : chan'[q] = chan[q] \/ state'[q] # "SLEEPING"
    BY Zenon, <1>6, <2>1, <2>2 DEF Freed, IInv, TypeOK
  <2>4. chan' \in [Proc -> Proc \cup {Null}]
    BY Zenon, <1>6 DEF Freed, IInv, TypeOK
  <2>5. TypeOK'
    BY Zenon, <1>1, <1>6, <2>2, <2>4, ReturnType DEF IInv, TypeOK
  <2>6. pc'[p] = "user" /\ i'[p] = 1 /\ Others(p)
    BY Zenon, <1>1, <1>6 DEF Return, Goto, IInv, TypeOK, Others
  <2>7. pc'[p] \in Interruptible \ Forking
    BY Zenon, <2>6 DEF Interruptible, Forking
  <2>. QED  BY Zenon, <1>1, <1>3, <2>2, <2>3, <2>5, <2>6, <2>7, PlainStep
<1>7. CASE /\ ~(i[p] > NPROC) /\ Unused(i[p]) /\ lock[i[p]] = None
           /\ state' = [state EXCEPT ![i[p]] = "USED"]
           /\ pc' = [pc EXCEPT ![p] = "fork_parent", ![i[p]] = "resume"]
           /\ UNCHANGED <<parent, chan, locals>>
  <2>1. i[p] \in Proc /\ state[i[p]] = "UNUSED"
    BY Zenon, <1>2, <1>7 DEF Unused
  <2>2. i' = i
    BY Zenon, <1>7 DEF locals
  <2>. QED  BY Zenon, <1>1, <1>7, <2>1, <2>2, AllocStep
<1>. QED  BY Zenon, <1>4, <1>5, <1>6, <1>7 DEF allocproc

\* What fork knows of the slot it has taken.
LEMMA ForkedSlot ==
  ASSUME Setting, IInv, NEW c \in CPU, NEW p \in Proc, Executes(c, p), pc[p] \in Forking
  PROVE  /\ Point(p) = pc[p] /\ state[p] = "RUNNING" /\ i[p] \in Proc /\ j[p] = 1
         /\ state[i[p]] = "USED"
         /\ parent[i[p]] = IF pc[p] = "fork_run" THEN p ELSE Null
         /\ i[p] # p /\ i[p] # initproc /\ i[p] \notin Children
         /\ \A q \in Proc : Point(q) \in Forking /\ q # p => i[q] \in Proc /\ i[q] # i[p]
         /\ \A q \in Proc : parent[q] # i[p]
<1>1. state[p] = "RUNNING" /\ Point(p) = pc[p]
  BY Zenon, Running, PlacesApart
<1>2. /\ i[p] \in Proc /\ state[i[p]] = "USED"
      /\ parent[i[p]] = IF pc[p] = "fork_run" THEN p ELSE Null
  BY Zenon, <1>1 DEF IInv, ForkInv
<1>3. i[p] # p /\ i[p] # initproc /\ ~Live(i[p])
  BY Zenon, <1>1, <1>2 DEF IInv, FamilyInv, Live
<1>4. i[p] \notin Children
  BY Zenon, <1>2 DEF Children
<1>5. \A q \in Proc : Point(q) \in Forking /\ q # p => i[q] \in Proc /\ i[q] # i[p]
  BY Zenon, <1>1 DEF IInv, ForkInv
<1>6. \A q \in Proc : parent[q] # i[p]
  BY Zenon, <1>2, <1>3, Slots DEF IInv, FamilyInv
<1>7. j[p] = 1
  <2>1. LocalsAt(p) /\ pc[p] \notin Holding
    BY Zenon, PlacesApart DEF IInv, LocalsInv
  <2>. QED  BY Zenon, <2>1 DEF LocalsAt, Holding, Exiting
<1>. QED  BY Zenon, <1>1, <1>2, <1>3, <1>4, <1>5, <1>6, <1>7

\* fork makes the new process its child, under wait_lock.
LEMMA ForkParentStep ==
  ASSUME Setting, IInv, NEW c \in CPU, NEW p \in Proc, fork_parent(c, p) PROVE IInv'
<1>. DEFINE n == i[p]
<1>1. /\ Executes(c, p) /\ pc[p] = "fork_parent" /\ wait_lock = None
      /\ UNCHANGED <<state, chan, lock, wait_lock, cproc, thread, ret, i, j>>
  BY Zenon DEF fork_parent, At, Executes, cpus, locals
<1>2. /\ Point(p) = "fork_parent" /\ state[p] = "RUNNING" /\ n \in Proc /\ j[p] = 1
      /\ state[n] = "USED" /\ n # p /\ n \notin Children
      /\ \A q \in Proc : Point(q) \in Forking /\ q # p => i[q] \in Proc /\ i[q] # n
  <2>1. pc[p] \in Forking
    BY Zenon, <1>1 DEF Forking
  <2>2. /\ Point(p) = pc[p] /\ state[p] = "RUNNING" /\ i[p] \in Proc /\ j[p] = 1
        /\ state[i[p]] = "USED"
        /\ parent[i[p]] = IF pc[p] = "fork_run" THEN p ELSE Null
        /\ i[p] # p /\ i[p] # initproc /\ i[p] \notin Children
        /\ \A q \in Proc : Point(q) \in Forking /\ q # p => i[q] \in Proc /\ i[q] # i[p]
        /\ \A q \in Proc : parent[q] # i[p]
    BY Zenon, <1>1, <2>1, ForkedSlot
  <2>. QED  BY Zenon, <1>1, <2>2
<1>3. /\ pc'[p] = "fork_run" /\ parent'[n] = p
      /\ \A q \in Proc : q # n => parent'[q] = parent[q]
      /\ Others(p)
  BY Zenon, <1>1, <1>2 DEF fork_parent, Goto, IInv, TypeOK, Others
<1>4. TypeOK'
  <2>1. parent' \in [Proc -> Proc \cup {Null}]
    BY Zenon DEF fork_parent, IInv, TypeOK
  <2>2. pc' \in [Proc -> Places]
    BY Zenon DEF fork_parent, Goto, IInv, TypeOK, Places, Interruptible
  <2>. QED  BY Zenon, <1>1, <2>1, <2>2 DEF IInv, TypeOK
<1>5. /\ pc[p] \notin Switching /\ pc'[p] \notin Switching
      /\ pc[p] \notin Holding /\ pc'[p] \notin Holding
  BY Zenon, <1>1, <1>3 DEF Switching, Holding, Exiting, Waiting
<1>6. Point(p)' = "fork_run"
  BY Zenon, <1>3, <1>5 DEF Point
<1>7. \A q \in Proc : q # p => Point(q)' = Point(q)
  BY Zenon, <1>3, OthersPoint
<1>8. CpuInv' /\ LocalsInv'
  BY Zenon, <1>1, <1>2, <1>3, <1>5, Stays
<1>9. WaitLockInv'
  BY Zenon, <1>1, <1>3, <1>5, WaitLockStep
<1>10. ForkInv'
  <2>1. ASSUME NEW q \in Proc, Point(q)' \in Forking
        PROVE  /\ i[q] \in Proc /\ state[i[q]] = "USED"
               /\ parent'[i[q]] = IF Point(q)' = "fork_run" THEN q ELSE Null
    <3>1. CASE q = p
      BY Zenon, <1>2, <1>3, <1>6, <3>1
    <3>2. CASE q # p
      <4>1. Point(q)' = Point(q) /\ Point(q) \in Forking
        BY Zenon, <1>7, <2>1, <3>2
      <4>. QED  BY Zenon, <1>2, <1>3, <3>2, <4>1 DEF IInv, ForkInv
    <3>. QED  BY Zenon, <3>1, <3>2
  <2>2. ASSUME NEW q \in Proc, NEW r \in Proc, Point(q)' \in Forking,
               Point(r)' \in Forking, i[q] = i[r]
        PROVE  q = r
    BY Zenon, <1>2, <1>7, <2>2 DEF IInv, ForkInv
  <2>. QED  BY Zenon, <1>1, <2>1, <2>2 DEF ForkInv
<1>11. FamilyInv'
  <2>1. Children' = Children
    BY Zenon, <1>1 DEF Children
  <2>2. \A q \in Proc : Live(q)' <=> Live(q)
    BY Zenon, <1>1 DEF Live
  <2>3. \A q \in Proc : parent[q] # Null => parent[q] \in Proc
    BY Zenon DEF IInv, TypeOK
  <2>4. Live(initproc)'
    BY Zenon, <2>2, Slots DEF IInv, FamilyInv
  <2>5. \A q \in Proc : state'[q] = "UNUSED" => parent'[q] = Null
    BY Zenon, <1>1, <1>2, <1>3 DEF IInv, FamilyInv
  <2>6. ASSUME NEW q \in Proc, state'[q] = "USED", parent'[q] # Null
        PROVE  Point(parent[q])' = "fork_run" /\ i'[parent'[q]] = q
    <3>1. CASE q = n
      BY Zenon, <1>1, <1>3, <1>6, <3>1 DEF Point
    <3>2. CASE q # n
      <4>1. parent'[q] = parent[q] /\ parent[q] # Null /\ state[q] = "USED"
        BY Zenon, <1>1, <1>3, <2>6, <3>2
      <4>2. Point(parent[q]) = "fork_run" /\ i[parent[q]] = q
        BY Zenon, <4>1 DEF IInv, FamilyInv
      <4>3. parent[q] # p
        BY Zenon, <1>2, <4>2
      <4>4. pc'[parent[q]] = pc[parent[q]]
        BY Zenon, <1>3, <2>3, <4>1, <4>3 DEF Others
      <4>. QED  BY Zenon, <1>1, <4>1, <4>2, <4>4 DEF Point
    <3>. QED  BY Zenon, <3>1, <3>2
  <2>7. ASSUME NEW q \in Proc, parent'[q] # Null PROVE Live(parent[q])'
    <3>1. CASE q = n
      BY Zenon, <1>1, <1>2, <1>3, <3>1 DEF Live
    <3>2. CASE q # n
      <4>1. parent'[q] = parent[q] /\ Live(parent[q])
        BY Zenon, <1>3, <2>7, <3>2 DEF IInv, FamilyInv
      <4>. QED  BY Zenon, <1>1, <4>1 DEF Live
    <3>. QED  BY Zenon, <3>1, <3>2
  <2>8. \A q \in Children : q \in Proc /\ parent'[q] = parent[q]
    BY Zenon, <1>2, <1>3 DEF Children
  <2>9. \A q \in Children' : parent'[q] # Null
    BY Zenon, <2>1, <2>8 DEF IInv, FamilyInv
  <2>10. ASSUME NEW S \in SUBSET Children', S # {} PROVE \E q \in S : parent'[q] \notin S
    <3>1. PICK q \in S : parent[q] \notin S
      BY Zenon, <2>1, <2>10 DEF IInv, FamilyInv
    <3>. QED  BY Zenon, <2>1, <2>8, <3>1
  <2>. QED  BY Zenon, <2>4, <2>5, <2>6, <2>7, <2>9, <2>10 DEF FamilyInv, Point, Live
<1>12. ScanInv'
  <2>1. \A q \in Proc : pc'[q] \notin Holding
    BY Zenon, <1>1, <1>3, <1>5, NobodyHolds DEF Others
  <2>. QED  BY Zenon, <2>1, ScanNone
<1>13. NoticeInv'
  <2>1. \A q \in Proc : state'[q] = "SLEEPING" => chan'[q] = q
    BY Zenon, <1>1 DEF IInv, NoticeInv
  <2>2. ~Adopting
    BY Zenon, <1>1, NobodyHolds DEF Adopting, Holding, Exiting
  <2>3. ASSUME NEW r \in Proc, NEW q \in Proc, state'[r] = "SLEEPING",
               parent'[q] = r, state'[q] = "ZOMBIE"
        PROVE  FALSE
    <3>1. q # n /\ parent[q] = r
      BY Zenon, <1>1, <1>2, <1>3, <2>3
    <3>. QED  BY Zenon, <1>1, <2>2, <2>3, <3>1 DEF IInv, NoticeInv
  <2>. QED  BY Zenon, <2>1, <2>3 DEF NoticeInv
<1>. QED  BY Zenon, <1>4, <1>8, <1>9, <1>10, <1>11, <1>12, <1>13 DEF IInv

\* fork lets the new process go.
LEMMA ForkRunStep ==
  ASSUME Setting, IInv, NEW c \in CPU, NEW p \in Proc, fork_run(c, p) PROVE IInv'
<1>. DEFINE n == i[p]
<1>1. /\ Executes(c, p) /\ pc[p] = "fork_run" /\ lock[n] = None
      /\ UNCHANGED <<parent, chan, lock, wait_lock, cproc, thread, ret, j>>
  BY Zenon DEF fork_run, At, Executes, cpus, Return
<1>2. /\ Point(p) = "fork_run" /\ state[p] = "RUNNING" /\ n \in Proc /\ j[p] = 1
      /\ state[n] = "USED" /\ n # p /\ n # initproc /\ n \notin Children /\ parent[n] = p
      /\ \A q \in Proc : Point(q) \in Forking /\ q # p => i[q] \in Proc /\ i[q] # n
      /\ \A q \in Proc : parent[q] # n
  <2>1. pc[p] \in Forking
    BY Zenon, <1>1 DEF Forking
  <2>2. /\ Point(p) = pc[p] /\ state[p] = "RUNNING" /\ i[p] \in Proc /\ j[p] = 1
        /\ state[i[p]] = "USED"
        /\ parent[i[p]] = IF pc[p] = "fork_run" THEN p ELSE Null
        /\ i[p] # p /\ i[p] # initproc /\ i[p] \notin Children
        /\ \A q \in Proc : Point(q) \in Forking /\ q # p => i[q] \in Proc /\ i[q] # i[p]
        /\ \A q \in Proc : parent[q] # i[p]
    BY Zenon, <1>1, <2>1, ForkedSlot
  <2>. QED  BY Zenon, <1>1, <2>2
<1>3. /\ pc'[p] = "user" /\ i'[p] = 1 /\ state'[n] = "RUNNABLE" /\ state'[p] = state[p]
      /\ \A q \in Proc : q # n => state'[q] = state[q]
      /\ Others(p)
  BY Zenon, <1>1, <1>2 DEF fork_run, Return, Goto, IInv, TypeOK, Others
<1>4. TypeOK'
  BY Zenon, <1>1, <1>2, Slots DEF fork_run, Return, Goto, IInv, TypeOK, Places, Interruptible
<1>5. /\ pc[p] \notin Switching /\ pc'[p] \notin Switching
      /\ pc[p] \notin Holding /\ pc'[p] \notin Holding
  BY Zenon, <1>1, <1>3 DEF Switching, Holding, Exiting, Waiting
<1>6. Point(p)' = "user" /\ Point(p)' \notin Forking
  BY Zenon, <1>3, <1>5 DEF Point, Forking
<1>7. \A q \in Proc : q # p => Point(q)' = Point(q) /\ i'[q] = i[q]
  BY Zenon, <1>3, OthersPoint
<1>8. CpuInv' /\ LocalsInv'
  <2>1. \A q \in Proc : q # p =>
          \/ state'[q] = state[q]
          \/ lock[q] = None /\ state[q] # "RUNNING" /\ state'[q] # "RUNNING"
    BY Zenon, <1>1, <1>2, <1>3
  <2>. QED  BY Zenon, <1>1, <1>2, <1>3, <1>5, <2>1, Stays
<1>9. WaitLockInv'
  BY Zenon, <1>1, <1>3, <1>5, WaitLockStep
<1>10. ForkInv'
  <2>1. \A q \in Proc : Point(q)' \in Forking =>
          /\ q # p /\ Point(q)' = Point(q) /\ Point(q) \in Forking
          /\ i'[q] = i[q] /\ i[q] \in Proc /\ i[q] # n
    BY Zenon, <1>2, <1>6, <1>7
  <2>2. ASSUME NEW q \in Proc, Point(q)' \in Forking
        PROVE  /\ i'[q] \in Proc /\ state'[i'[q]] = "USED"
               /\ parent[i'[q]] = IF Point(q)' = "fork_run" THEN q ELSE Null
    <3>1. Point(q)' = Point(q) /\ i'[q] = i[q] /\ Point(q) \in Forking /\ i[q] # n
      BY Zenon, <2>1, <2>2
    <3>2. /\ i[q] \in Proc /\ state[i[q]] = "USED"
          /\ parent[i[q]] = IF Point(q) = "fork_run" THEN q ELSE Null
      BY Zenon, <3>1 DEF IInv, ForkInv
    <3>3. state'[i[q]] = "USED"
      BY Zenon, <1>3, <3>1, <3>2
    <3>. QED  BY Zenon, <3>1, <3>2, <3>3
  <2>3. \A q, r \in Proc :
          Point(q)' \in Forking /\ Point(r)' \in Forking /\ i'[q] = i'[r] => q = r
    BY Zenon, <2>1 DEF IInv, ForkInv
  <2>. QED  BY Zenon, <1>1, <2>2, <2>3 DEF ForkInv
<1>11. FamilyInv'
  <2>1. Children' = Children \cup {n}
    BY Zenon, <1>2, <1>3 DEF Children
  <2>2. \A q \in Proc : Live(q) => Live(q)'
    BY Zenon, <1>2, <1>3 DEF Live
  <2>3. \A q \in Proc : parent[q] # Null => parent[q] \in Proc
    BY Zenon DEF IInv, TypeOK
  <2>4. Live(initproc)'
    BY Zenon, <2>2, Slots DEF IInv, FamilyInv
  <2>5. \A q \in Proc : state'[q] = "UNUSED" => parent[q] = Null
    BY Zenon, <1>3 DEF IInv, FamilyInv
  <2>6. ASSUME NEW q \in Proc, state'[q] = "USED", parent[q] # Null
        PROVE  Point(parent[q])' = "fork_run" /\ i'[parent[q]] = q
    <3>1. q # n /\ state[q] = "USED"
      BY Zenon, <1>3, <2>6
    <3>2. Point(parent[q]) = "fork_run" /\ i[parent[q]] = q /\ parent[q] \in Proc
      BY Zenon, <2>3, <2>6, <3>1 DEF IInv, FamilyInv
    <3>3. parent[q] # p
      BY Zenon, <3>1, <3>2
    <3>4. /\ pc'[parent[q]] = pc[parent[q]] /\ ret'[parent[q]] = ret[parent[q]]
          /\ i'[parent[q]] = i[parent[q]]
      BY Zenon, <1>3, <3>2, <3>3 DEF Others
    <3>. QED  BY Zenon, <1>1, <3>2, <3>4 DEF Point
  <2>7. ASSUME NEW q \in Proc, parent[q] # Null PROVE Live(parent[q])'
    <3>1. Live(parent[q]) /\ parent[q] \in Proc /\ parent[q] # n
      BY Zenon, <1>2, <2>3, <2>7 DEF IInv, FamilyInv
    <3>2. state'[parent[q]] = state[parent[q]]
      BY Zenon, <1>3, <3>1
    <3>. QED  BY Zenon, <1>1, <3>1, <3>2 DEF Live
  <2>8. \A q \in Children' : parent[q] # Null
    BY Zenon, <1>2, <2>1, Slots DEF IInv, FamilyInv
  <2>9. ASSUME NEW S \in SUBSET Children', S # {} PROVE \E q \in S : parent[q] \notin S
    <3>1. CASE \E q \in S : q # n
      <4>1. S \ {n} \in SUBSET Children /\ S \ {n} # {}
        BY Zenon, <2>1, <3>1
      <4>2. PICK q \in S \ {n} : parent[q] \notin S \ {n}
        BY Zenon, <4>1 DEF IInv, FamilyInv
      <4>3. q \in Proc
        BY Zenon, <4>1, <4>2 DEF Children
      <4>. QED  BY Zenon, <1>2, <4>2, <4>3
    <3>2. CASE \A q \in S : q = n
      BY Zenon, <1>2, <2>9, <3>2
    <3>. QED  BY Zenon, <3>1, <3>2
  <2>. QED  BY Zenon, <1>1, <2>4, <2>5, <2>6, <2>7, <2>8, <2>9 DEF FamilyInv, Point, Live
<1>12. Calm
  BY Zenon, <1>1, <1>3 DEF Calm
<1>13. ScanInv' /\ NoticeInv'
  <2>1. \A q \in Proc : \/ pc'[q] = pc[q] /\ i'[q] = i[q] /\ j'[q] = j[q]
                        \/ pc'[q] \notin Holding
    BY Zenon, <1>3, <1>5 DEF Others
  <2>2. \A q \in Proc : pc[q] = "adopt_wakeup" => pc'[q] = pc[q] /\ j'[q] = j[q]
    BY Zenon, <1>1, <1>3, <1>5 DEF Others, Holding, Exiting
  <2>. QED  BY Zenon, <1>12, <2>1, <2>2, ScanKept, NoticeKept
<1>. QED  BY Zenon, <1>4, <1>8, <1>9, <1>10, <1>11, <1>13 DEF IInv
-----------------------------------------------------------------------------
(* exit *)

\* What holds of the process that is in exit or wait.
LEMMA Holder ==
  ASSUME Setting, IInv, NEW c \in CPU, NEW p \in Proc, Executes(c, p), pc[p] \in Holding
  PROVE  /\ state[p] = "RUNNING" /\ lock[p] = None /\ ret[p] = "user"
         /\ Point(p) = pc[p] /\ pc[p] \notin Switching /\ pc[p] \notin Forking
         /\ \A q \in Proc : q # p => pc[q] \notin Holding
<1>1. pc[p] \notin Switching /\ pc[p] \notin Forking
  BY Zenon, PlacesApart
<1>2. \A q \in Proc : q # p => pc[q] \notin Holding
  BY Zenon, HolderAlone
<1>. QED  BY Zenon, <1>1, <1>2, Running

\* A step of p that has nothing to do with fork.
LEMMA AwayFromFork ==
  ASSUME NEW p \in Proc, Others(p), pc[p] \notin Switching, pc'[p] \notin Switching,
         pc[p] \notin Forking, pc'[p] \notin Forking
  PROVE  \A q \in Proc : \/ Point(q)' = Point(q) /\ i'[q] = i[q]
                         \/ Point(q) \notin Forking /\ Point(q)' \notin Forking
<1>1. Point(p) \notin Forking /\ Point(p)' \notin Forking
  BY Zenon DEF Point
<1>. QED  BY Zenon, <1>1, OthersPoint

\* A process other than init takes wait_lock; init panics.
LEMMA ExitStep ==
  ASSUME Setting, IInv, NEW c \in CPU, NEW p \in Proc, exit(c, p) PROVE IInv'
<1>1. /\ Executes(c, p) /\ pc[p] = "user"
      /\ UNCHANGED <<state, parent, chan, lock, cproc, thread, ret, i, j>>
  BY Zenon DEF exit, At, Executes, cpus, struct, locals
<1>2. pc[p] \in Interruptible \ Forking
  BY Zenon, <1>1 DEF Interruptible, Forking
<1>3. CASE p = initproc
  <2>1. TypeOK'
    BY Zenon, <1>1, <1>3 DEF exit, Goto, IInv, TypeOK, Places, Interruptible
  <2>2. pc'[p] = "panic" /\ wait_lock' = wait_lock /\ Others(p)
    BY Zenon, <1>1, <1>3 DEF exit, Goto, IInv, TypeOK, Others
  <2>3. pc'[p] \in Interruptible \ Forking
    BY Zenon, <2>2 DEF Interruptible, Forking
  <2>. QED  BY Zenon, <1>1, <1>2, <2>1, <2>2, <2>3, PlainStep
<1>4. CASE p # initproc
  <2>1. TypeOK'
    BY Zenon, <1>1, <1>4 DEF exit, Goto, IInv, TypeOK, Places, Holding, Exiting
  <2>2. pc'[p] = "reparent" /\ wait_lock = None /\ wait_lock' = c /\ Others(p)
    BY Zenon, <1>1, <1>4 DEF exit, Goto, IInv, TypeOK, Others
  <2>3. /\ pc[p] \notin Switching /\ pc'[p] \notin Switching /\ pc'[p] \in Holding
        /\ pc[p] \notin Forking /\ pc'[p] \notin Forking
    BY Zenon, <1>1, <2>2 DEF Switching, Holding, Exiting, Forking
  <2>4. i[p] = 1 /\ j[p] = 1
    <3>1. LocalsAt(p) /\ Point(p) = "user"
      BY Zenon, <1>1, <2>3, Running DEF IInv, LocalsInv
    <3>. QED  BY Zenon, <1>1, <3>1 DEF LocalsAt
  <2>5. CpuInv' /\ LocalsInv'
    BY Zenon, <1>1, <2>2, <2>3, <2>4, Stays
  <2>6. WaitLockInv'
    BY Zenon, <1>1, <2>2, <2>3, WaitLockStep
  <2>7. ForkInv' /\ FamilyInv'
    BY Zenon, <1>1, <2>2, <2>3, AwayFromFork, FamilyKept
  <2>8. ScanInv'
    <3>1. \A q \in Proc : ~(q < 1)
      BY Slots
    <3>2. ScanAt(p)'
      BY Zenon, <1>1, <1>4, <2>2, <2>4, <3>1 DEF ScanAt
    <3>3. \A q \in Proc : q # p => pc'[q] \notin Holding
      BY Zenon, <2>2, NobodyHolds DEF Others
    <3>. QED  BY Zenon, <3>2, <3>3, ScanOne
  <2>9. NoticeInv'
    <3>1. Calm
      BY Zenon, <1>1 DEF Calm
    <3>2. \A q \in Proc : pc[q] = "adopt_wakeup" => pc'[q] = pc[q] /\ j'[q] = j[q]
      BY Zenon, <1>1, <2>2 DEF Others
    <3>. QED  BY Zenon, <3>1, <3>2, NoticeKept
  <2>. QED  BY Zenon, <2>1, <2>5, <2>6, <2>7, <2>8, <2>9 DEF IInv
<1>. QED  BY Zenon, <1>3, <1>4

\* The first of some slots is the least of them.
LEMMA FirstIsLeast ==
  ASSUME Setting, NEW S, S \subseteq Proc, S # {}
  PROVE  First(S) \in S /\ \A r \in S : First(S) <= r
<1>1. S \subseteq Nat
  BY Slots
<1>2. PICK d \in S : \A e \in S : ~(<<e, d>> \in OpToRel(<, Nat))
  BY Zenon, <1>1, NatLessThanWellFounded, WFMin
<1>3. \A e \in S : d <= e
  <2>. TAKE e \in S
  <2>1. d \in Nat /\ e \in Nat
    BY Zenon, <1>1
  <2>2. ~(e < d)
    BY Zenon, <1>2, <2>1 DEF OpToRel
  <2>. QED  BY <2>1, <2>2
<1>. QED  BY Zenon, <1>3 DEF First

\* The next child of p in its scan.
LEMMA NextKid ==
  ASSUME Setting, IInv, NEW p \in Proc, Kids(p) # {}
  PROVE  /\ First(Kids(p)) \in Proc /\ First(Kids(p)) >= i[p]
         /\ parent[First(Kids(p))] = p
         /\ \A r \in Proc : r >= i[p] /\ parent[r] = p => First(Kids(p)) <= r
<1>1. Kids(p) \subseteq Proc
  BY Zenon DEF Kids
<1>2. First(Kids(p)) \in Kids(p) /\ \A r \in Kids(p) : First(Kids(p)) <= r
  BY Zenon, <1>1, FirstIsLeast
<1>. QED  BY Zenon, <1>2 DEF Kids

\* reparent comes to the end of the table.
LEMMA ReparentDone ==
  ASSUME Setting, IInv, NEW c \in CPU, NEW p \in Proc, Executes(c, p), pc[p] = "reparent",
         Kids(p) = {}, Goto(p, "exit_wakeup"),
         UNCHANGED <<state, parent, chan, lock, wait_lock, cproc, thread, ret, i, j>>
  PROVE  IInv'
<1>1. TypeOK'
  BY Zenon DEF Goto, IInv, TypeOK, Places, Holding, Exiting
<1>2. pc'[p] = "exit_wakeup" /\ Others(p)
  BY Zenon DEF Goto, IInv, TypeOK, Others
<1>3. /\ pc[p] \in Holding /\ pc'[p] \in Holding /\ pc[p] \in Exiting
      /\ pc'[p] \notin Switching /\ pc'[p] \notin Forking
  BY Zenon, <1>2 DEF Switching, Holding, Exiting, Forking
<1>4. /\ pc[p] \notin Switching /\ pc[p] \notin Forking
      /\ \A q \in Proc : q # p => pc[q] \notin Holding
  BY Zenon, <1>3, Holder
<1>5. CpuInv' /\ LocalsInv'
  BY Zenon, <1>2, <1>3, <1>4, Stays
<1>6. WaitLockInv'
  BY Zenon, <1>2, <1>3, WaitLockStep
<1>7. ForkInv' /\ FamilyInv'
  BY Zenon, <1>2, <1>3, <1>4, AwayFromFork, FamilyKept
<1>8. p # initproc /\ parent[p] \in Proc
  BY Zenon, <1>3, Exiter
<1>9. \A q \in Proc : parent[q] # p
  <2>1. \A q \in Proc : q < i[p] => parent[q] # p
    BY Zenon DEF IInv, ScanInv, ScanAt
  <2>2. i[p] \in Nat
    BY Slots DEF IInv, TypeOK
  <2>. QED  BY <2>1, <2>2, Slots DEF Kids
<1>10. ScanInv'
  <2>1. j[p] = 1
    BY Zenon DEF IInv, LocalsInv, LocalsAt
  <2>2. ~(j'[p] > parent'[p])
    BY <1>8, <2>1, Slots
  <2>3. ScanAt(p)'
    BY Zenon, <1>2, <1>8, <1>9, <2>2 DEF ScanAt
  <2>4. \A q \in Proc : q # p => pc'[q] \notin Holding
    BY Zenon, <1>2, <1>4 DEF Others
  <2>. QED  BY Zenon, <2>3, <2>4, ScanOne
<1>11. NoticeInv'
  <2>1. Calm
    BY Zenon DEF Calm
  <2>2. \A q \in Proc : pc[q] = "adopt_wakeup" => pc'[q] = pc[q] /\ j'[q] = j[q]
    BY Zenon, <1>2 DEF Others
  <2>. QED  BY Zenon, <2>1, <2>2, NoticeKept
<1>. QED  BY Zenon, <1>1, <1>5, <1>6, <1>7, <1>10, <1>11 DEF IInv

\* reparent gives a child to init, and goes on to wake init.
LEMMA ReparentOne ==
  ASSUME Setting, IInv, NEW c \in CPU, NEW p \in Proc, Executes(c, p), pc[p] = "reparent",
         NEW n \in Proc, n >= i[p], parent[n] = p,
         \A r \in Proc : r >= i[p] /\ parent[r] = p => n <= r,
         parent' = [parent EXCEPT ![n] = initproc],
         Goto(p, "adopt_wakeup"), i' = [i EXCEPT ![p] = n + 1],
         UNCHANGED <<state, chan, lock, wait_lock, cproc, thread, ret, j>>
  PROVE  IInv'
<1>1. TypeOK'
  <2>1. parent' \in [Proc -> Proc \cup {Null}]
    BY Zenon, Slots DEF IInv, TypeOK
  <2>2. pc' \in [Proc -> Places]
    BY Zenon DEF Goto, IInv, TypeOK, Places, Holding, Exiting
  <2>3. n + 1 \in 1..NPROC+1
    BY Slots
  <2>4. i' \in [Proc -> 1..NPROC+1]
    BY Zenon, <2>3 DEF IInv, TypeOK
  <2>. QED  BY Zenon, <2>1, <2>2, <2>4 DEF IInv, TypeOK
<1>2. /\ pc'[p] = "adopt_wakeup" /\ i'[p] = n + 1 /\ Others(p)
      /\ parent'[n] = initproc /\ \A q \in Proc : q # n => parent'[q] = parent[q]
  BY Zenon DEF Goto, IInv, TypeOK, Others
<1>3. /\ pc[p] \in Holding /\ pc'[p] \in Holding /\ pc[p] \in Exiting
      /\ pc'[p] \notin Switching /\ pc'[p] \notin Forking
  BY Zenon, <1>2 DEF Switching, Holding, Exiting, Forking
<1>4. /\ pc[p] \notin Switching /\ pc[p] \notin Forking /\ Point(p) = "reparent"
      /\ \A q \in Proc : q # p => pc[q] \notin Holding
  BY Zenon, <1>3, Holder
<1>5. CpuInv' /\ LocalsInv'
  BY Zenon, <1>2, <1>3, <1>4, Stays
<1>6. WaitLockInv'
  BY Zenon, <1>2, <1>3, WaitLockStep
<1>7. p # initproc /\ parent[p] \in Proc /\ p # Null
  BY Zenon, <1>3, Exiter, Slots
<1>8. state[n] # "UNUSED" /\ state[n] # "USED"
  BY Zenon, <1>4, <1>7 DEF IInv, FamilyInv
<1>9. \A q \in Proc : \/ Point(q)' = Point(q) /\ i'[q] = i[q]
                      \/ Point(q) \notin Forking /\ Point(q)' \notin Forking
  BY Zenon, <1>2, <1>3, <1>4, AwayFromFork
<1>10. ForkInv'
  <2>1. ASSUME NEW q \in Proc, Point(q)' \in Forking
        PROVE  /\ i'[q] \in Proc /\ state[i'[q]] = "USED"
               /\ parent'[i'[q]] = IF Point(q)' = "fork_run" THEN q ELSE Null
    <3>1. Point(q)' = Point(q) /\ i'[q] = i[q] /\ Point(q) \in Forking
      BY Zenon, <1>9, <2>1
    <3>2. /\ i[q] \in Proc /\ state[i[q]] = "USED"
          /\ parent[i[q]] = IF Point(q) = "fork_run" THEN q ELSE Null
      BY Zenon, <3>1 DEF IInv, ForkInv
    <3>3. i[q] # n
      BY Zenon, <1>8, <3>2
    <3>. QED  BY Zenon, <1>2, <3>1, <3>2, <3>3
  <2>2. \A q, r \in Proc :
          Point(q)' \in Forking /\ Point(r)' \in Forking /\ i'[q] = i'[r] => q = r
    BY Zenon, <1>9 DEF IInv, ForkInv
  <2>. QED  BY Zenon, <2>1, <2>2 DEF ForkInv
<1>11. FamilyInv'
  <2>1. Children' = Children
    BY Zenon DEF Children
  <2>2. \A q \in Proc : parent[q] # Null => parent[q] \in Proc
    BY Zenon DEF IInv, TypeOK
  <2>3. Live(initproc) /\ Live(initproc)'
    BY Zenon DEF IInv, FamilyInv, Live
  <2>4. \A q \in Proc : state'[q] = "UNUSED" => parent'[q] = Null
    BY Zenon, <1>2, <1>8 DEF IInv, FamilyInv
  <2>5. ASSUME NEW q \in Proc, state'[q] = "USED", parent'[q] # Null
        PROVE  Point(parent[q])' = "fork_run" /\ i'[parent'[q]] = q
    <3>1. q # n /\ parent'[q] = parent[q] /\ state[q] = "USED"
      BY Zenon, <1>2, <1>8, <2>5
    <3>2. Point(parent[q]) = "fork_run" /\ i[parent[q]] = q /\ parent[q] \in Proc
      BY Zenon, <2>2, <2>5, <3>1 DEF IInv, FamilyInv
    <3>3. parent[q] # p
      BY Zenon, <1>4, <3>2
    <3>4. /\ pc'[parent[q]] = pc[parent[q]] /\ ret'[parent[q]] = ret[parent[q]]
          /\ i'[parent[q]] = i[parent[q]]
      BY Zenon, <1>2, <3>2, <3>3 DEF Others
    <3>. QED  BY Zenon, <3>1, <3>2, <3>4 DEF Point
  <2>6. ASSUME NEW q \in Proc, parent'[q] # Null PROVE Live(parent[q])'
    <3>1. CASE q = n
      BY Zenon, <1>2, <2>3, <3>1 DEF Live
    <3>2. CASE q # n
      <4>1. parent'[q] = parent[q] /\ Live(parent[q])
        BY Zenon, <1>2, <2>6, <3>2 DEF IInv, FamilyInv
      <4>. QED  BY Zenon, <4>1 DEF Live
    <3>. QED  BY Zenon, <3>1, <3>2
  <2>7. \A q \in Children : q \in Proc /\ q # initproc
    BY Zenon DEF Children
  <2>8. ASSUME NEW q \in Children' PROVE parent'[q] # Null
    <3>1. q \in Proc /\ parent[q] # Null
      BY Zenon, <2>1, <2>7 DEF IInv, FamilyInv
    <3>2. initproc # Null
      BY Zenon, Slots
    <3>. QED  BY Zenon, <1>2, <3>1, <3>2
  <2>9. ASSUME NEW S \in SUBSET Children', S # {} PROVE \E q \in S : parent'[q] \notin S
    <3>1. CASE n \in S
      BY Zenon, <1>2, <2>1, <2>7, <3>1
    <3>2. CASE n \notin S
      <4>1. PICK q \in S : parent[q] \notin S
        BY Zenon, <2>1, <2>9 DEF IInv, FamilyInv
      <4>2. q \in Proc /\ q # n
        BY Zenon, <2>1, <2>7, <3>2
      <4>. QED  BY Zenon, <1>2, <4>1, <4>2
    <3>. QED  BY Zenon, <3>1, <3>2
  <2>. QED  BY Zenon, <2>3, <2>4, <2>5, <2>6, <2>8, <2>9 DEF FamilyInv, Point, Live
<1>12. ScanInv'
  <2>1. \A q \in Proc : q < i[p] => parent[q] # p
    BY Zenon DEF IInv, ScanInv, ScanAt
  <2>2. i[p] \in Nat
    BY Slots DEF IInv, TypeOK
  <2>3. \A q \in Proc : q < n + 1 => parent'[q] # p
    <3>1. \A x, y, z \in Nat : x < z + 1 => x < y \/ x = z \/ (x >= y /\ ~(z <= x))
      OBVIOUS
    <3>2. Proc \subseteq Nat
      BY Slots
    <3>3. \A q \in Proc : q < n + 1 => q < i[p] \/ q = n \/ (q >= i[p] /\ ~(n <= q))
      BY Zenon, <2>2, <3>1, <3>2
    <3>. QED  BY Zenon, <1>2, <1>7, <2>1, <3>3
  <2>4. ScanAt(p)'
    BY Zenon, <1>2, <1>7, <2>3 DEF ScanAt
  <2>5. \A q \in Proc : q # p => pc'[q] \notin Holding
    BY Zenon, <1>2, <1>4 DEF Others
  <2>. QED  BY Zenon, <2>4, <2>5, ScanOne
<1>13. NoticeInv'
  <2>1. Adopting'
    <3>1. j'[p] = initproc
      BY Zenon, Slots DEF IInv, LocalsInv, LocalsAt
    <3>. QED  BY Zenon, <1>2, <3>1 DEF Adopting
  <2>2. \A q \in Proc : state'[q] = "SLEEPING" => chan'[q] = q
    BY Zenon DEF IInv, NoticeInv
  <2>3. ASSUME NEW r \in Proc, NEW q \in Proc, state[r] = "SLEEPING", parent'[q] = r,
               state[q] = "ZOMBIE"
        PROVE  r = initproc
    <3>1. CASE q = n
      BY Zenon, <1>2, <2>3, <3>1
    <3>2. CASE q # n
      <4>1. parent[q] = r
        BY Zenon, <1>2, <2>3, <3>2
      <4>. QED  BY Zenon, <2>3, <4>1 DEF IInv, NoticeInv
    <3>. QED  BY Zenon, <3>1, <3>2
  <2>. QED  BY Zenon, <2>1, <2>2, <2>3 DEF NoticeInv
<1>. QED  BY Zenon, <1>1, <1>5, <1>6, <1>10, <1>11, <1>12, <1>13 DEF IInv

\* reparent.
LEMMA ReparentStep ==
  ASSUME Setting, IInv, NEW c \in CPU, NEW p \in Proc, reparent(c, p) PROVE IInv'
<1>1. /\ Executes(c, p) /\ pc[p] = "reparent"
      /\ UNCHANGED <<state, chan, lock, wait_lock, cproc, thread, ret, j>>
  BY Zenon DEF reparent, At, Executes, cpus
<1>2. CASE Kids(p) = {}
  <2>1. Goto(p, "exit_wakeup") /\ UNCHANGED <<parent, i>>
    BY Zenon, <1>2 DEF reparent
  <2>. QED  BY Zenon, <1>1, <1>2, <2>1, ReparentDone
<1>3. CASE Kids(p) # {}
  <2>. DEFINE n == First(Kids(p))
  <2>1. /\ parent' = [parent EXCEPT ![n] = initproc]
        /\ Goto(p, "adopt_wakeup") /\ i' = [i EXCEPT ![p] = n + 1]
    BY Zenon, <1>3 DEF reparent, NewParent, AfterAdoption
  <2>2. /\ n \in Proc /\ n >= i[p] /\ parent[n] = p
        /\ \A r \in Proc : r >= i[p] /\ parent[r] = p => n <= r
    BY Zenon, <1>3, NextKid
  <2>. HIDE DEF n
  <2>. QED  BY Zenon, <1>1, <2>1, <2>2, ReparentOne
<1>. QED  BY Zenon, <1>2, <1>3

\* One slot of wakeup's scan, whoever is woken.
LEMMA WakeupStep ==
  ASSUME Setting, IInv, NEW c \in CPU, NEW p \in Proc, NEW ch,
         NEW l \in {"adopt_wakeup", "exit_wakeup"}, NEW next \in {"reparent", "exit_zombie"},
         wakeup(c, p, ch, l, next)
  PROVE  /\ TypeOK' /\ CpuInv' /\ WaitLockInv' /\ LocalsInv' /\ ForkInv' /\ FamilyInv'
         /\ Executes(c, p) /\ pc[p] = l /\ Others(p) /\ Calm
         /\ UNCHANGED <<parent, chan, i>>
         /\ \A q \in Proc : q # p => pc'[q] \notin Holding
         /\ \A q \in Proc : \/ state'[q] = state[q]
                            \/ state[q] = "SLEEPING" /\ state'[q] = "RUNNABLE"
         /\ j[p] \in 1..NPROC+1
         /\ \/ j[p] > NPROC /\ pc'[p] = next /\ j'[p] = 1
            \/ /\ j[p] \in Proc /\ pc'[p] = l /\ j'[p] = j[p] + 1
               /\ j[p] # p /\ SleepsOn(j[p], ch) => state'[j[p]] = "RUNNABLE"
<1>1. /\ Executes(c, p) /\ pc[p] = l
      /\ UNCHANGED <<parent, chan, lock, wait_lock, cproc, thread, ret, i>>
  BY Zenon DEF wakeup, At, Executes, cpus
<1>2. j[p] \in 1..NPROC+1 /\ j \in [Proc -> 1..NPROC+1]
      /\ pc \in [Proc -> Places] /\ next \in Places
  BY Zenon DEF IInv, TypeOK, Places, Holding, Exiting
<1>3. pc[p] \in Holding /\ next \in Holding
  BY Zenon, <1>1 DEF Holding, Exiting
<1>4. /\ pc[p] \notin Switching /\ pc[p] \notin Forking /\ state[p] = "RUNNING"
      /\ \A q \in Proc : q # p => pc[q] \notin Holding
  BY Zenon, <1>1, <1>3, Holder
<1>5. next \notin Switching /\ next \notin Forking
  BY Zenon, <1>3, PlacesApart
<1>6. next \notin {"adopt_wakeup", "exit_wakeup"} /\ next # "user"
  BY Zenon
<1>7. /\ TypeOK' /\ Others(p)
      /\ pc'[p] \in {l, next} /\ (pc'[p] # l => j'[p] = 1)
      /\ \A q \in Proc : \/ state'[q] = state[q]
                         \/ /\ lock[q] = None /\ state[q] = "SLEEPING"
                            /\ state'[q] = "RUNNABLE" /\ q # p
      /\ \/ j[p] > NPROC /\ pc'[p] = next /\ j'[p] = 1
         \/ /\ j[p] \in Proc /\ pc'[p] = l /\ j'[p] = j[p] + 1
            /\ j[p] # p /\ SleepsOn(j[p], ch) => state'[j[p]] = "RUNNABLE"
  <2>1. CASE j[p] > NPROC
    <3>1. j' = [j EXCEPT ![p] = 1] /\ pc' = [pc EXCEPT ![p] = next] /\ state' = state
      BY Zenon, <2>1 DEF wakeup, Goto
    <3>2. j' \in [Proc -> 1..NPROC+1] /\ pc' \in [Proc -> Places]
      BY <1>2, <3>1, Slots
    <3>3. TypeOK'
      BY Zenon, <1>1, <3>1, <3>2 DEF IInv, TypeOK
    <3>4. pc'[p] = next /\ j'[p] = 1 /\ Others(p)
      BY Zenon, <1>1, <1>2, <3>1 DEF Others
    <3>. QED  BY Zenon, <2>1, <3>1, <3>3, <3>4
  <2>2. CASE ~(j[p] > NPROC)
    <3>1. /\ j' = [j EXCEPT ![p] = @ + 1] /\ pc' = pc
          /\ j[p] # p => lock[j[p]] = None
          /\ state' = IF j[p] # p /\ SleepsOn(j[p], ch)
                        THEN [state EXCEPT ![j[p]] = "RUNNABLE"] ELSE state
      BY Zenon, <2>2 DEF wakeup
    <3>2. j[p] \in Proc
      BY <1>2, <2>2, Slots
    <3>3. j' \in [Proc -> 1..NPROC+1]
      BY <1>2, <2>2, <3>1, Slots
    <3>4. state' \in [Proc -> {"UNUSED", "USED", "RUNNABLE", "RUNNING", "SLEEPING", "ZOMBIE"}]
      BY Zenon, <3>1, <3>2 DEF IInv, TypeOK
    <3>5. TypeOK'
      BY Zenon, <1>1, <3>1, <3>3, <3>4 DEF IInv, TypeOK
    <3>6. pc'[p] = l /\ j'[p] = j[p] + 1 /\ Others(p)
      BY Zenon, <1>1, <1>2, <3>1 DEF Others
    <3>7. /\ \A q \in Proc : \/ state'[q] = state[q]
                             \/ /\ lock[q] = None /\ state[q] = "SLEEPING"
                                /\ state'[q] = "RUNNABLE" /\ q # p
          /\ j[p] # p /\ SleepsOn(j[p], ch) => state'[j[p]] = "RUNNABLE"
      BY Zenon, <3>1, <3>2 DEF SleepsOn, IInv, TypeOK
    <3>. QED  BY Zenon, <3>2, <3>5, <3>6, <3>7
  <2>. QED  BY Zenon, <2>1, <2>2
<1>8. /\ pc'[p] \in Holding /\ pc'[p] \notin Switching /\ pc'[p] \notin Forking
      /\ pc'[p] # "user"
  BY Zenon, <1>1, <1>3, <1>4, <1>5, <1>6, <1>7
<1>9. CpuInv' /\ LocalsInv'
  <2>1. pc'[p] \notin {"adopt_wakeup", "exit_wakeup"} => j'[p] = 1
    BY Zenon, <1>7
  <2>2. state'[p] = state[p]
    BY Zenon, <1>7
  <2>3. \A q \in Proc : q # p =>
          \/ state'[q] = state[q]
          \/ lock[q] = None /\ state[q] # "RUNNING" /\ state'[q] # "RUNNING"
    BY Zenon, <1>7
  <2>. QED  BY Zenon, <1>1, <1>4, <1>7, <1>8, <2>1, <2>2, <2>3, Stays
<1>10. WaitLockInv'
  BY Zenon, <1>1, <1>3, <1>7, <1>8, WaitLockStep
<1>11. ForkInv' /\ FamilyInv'
  <2>1. \A q \in Proc : state'[q] = state[q] \/ (Live(q) /\ Live(q)')
    BY Zenon, <1>7 DEF Live
  <2>2. \A q \in Proc : \/ Point(q)' = Point(q) /\ i'[q] = i[q]
                        \/ Point(q) \notin Forking /\ Point(q)' \notin Forking
    BY Zenon, <1>4, <1>7, <1>8, AwayFromFork
  <2>. QED  BY Zenon, <1>1, <2>1, <2>2, FamilyKept
<1>12. Calm
  BY Zenon, <1>1, <1>7 DEF Calm
<1>13. \A q \in Proc : q # p => pc'[q] \notin Holding
  BY Zenon, <1>4, <1>7 DEF Others
<1>14. \A q \in Proc : \/ state'[q] = state[q]
                       \/ state[q] = "SLEEPING" /\ state'[q] = "RUNNABLE"
  BY Zenon, <1>7
<1>. QED  BY Zenon, <1>1, <1>2, <1>7, <1>9, <1>10, <1>11, <1>12, <1>13, <1>14

\* wakeup(initproc): past its slot, init does not sleep.
LEMMA AdoptWakeupStep ==
  ASSUME Setting, IInv, NEW c \in CPU, NEW p \in Proc, adopt_wakeup(c, p) PROVE IInv'
<1>1. /\ TypeOK' /\ CpuInv' /\ WaitLockInv' /\ LocalsInv' /\ ForkInv' /\ FamilyInv'
      /\ pc[p] = "adopt_wakeup" /\ Others(p) /\ UNCHANGED <<parent, chan, i>>
      /\ \A q \in Proc : q # p => pc'[q] \notin Holding
      /\ \A q \in Proc : \/ state'[q] = state[q]
                         \/ state[q] = "SLEEPING" /\ state'[q] = "RUNNABLE"
      /\ \/ j[p] > NPROC /\ pc'[p] = "reparent" /\ j'[p] = 1
         \/ /\ j[p] \in Proc /\ pc'[p] = "adopt_wakeup" /\ j'[p] = j[p] + 1
            /\ j[p] # p /\ SleepsOn(j[p], initproc) => state'[j[p]] = "RUNNABLE"
  BY Zenon, WakeupStep DEF adopt_wakeup
<1>2. ScanAt(p) /\ p # initproc
  BY Zenon, <1>1 DEF IInv, ScanInv, ScanAt, Exiting
<1>3. ScanInv'
  <2>1. pc'[p] \in {"reparent", "adopt_wakeup"}
    BY Zenon, <1>1
  <2>2. \A q \in Proc : q < i'[p] => parent'[q] # p
    BY Zenon, <1>1, <1>2 DEF ScanAt
  <2>3. ScanAt(p)'
    BY Zenon, <1>2, <2>1, <2>2 DEF ScanAt
  <2>. QED  BY Zenon, <1>1, <2>3, ScanOne
<1>4. NoticeInv'
  <2>1. \A q \in Proc : state'[q] = "SLEEPING" => state[q] = "SLEEPING" /\ chan'[q] = q
    BY Zenon, <1>1 DEF IInv, NoticeInv
  <2>2. \A q \in Proc : state'[q] = "ZOMBIE" => state[q] = "ZOMBIE"
    BY Zenon, <1>1
  <2>3. ASSUME NEW r \in Proc, NEW q \in Proc, state'[r] = "SLEEPING", parent'[q] = r,
               state'[q] = "ZOMBIE"
        PROVE  FALSE
    <3>1. r = initproc /\ Adopting /\ state[initproc] = "SLEEPING" /\ chan[initproc] = initproc
      <4>1. state[r] = "SLEEPING" /\ parent[q] = r /\ state[q] = "ZOMBIE"
        BY Zenon, <1>1, <2>1, <2>2, <2>3
      <4>2. r = initproc /\ Adopting /\ chan[r] = r
        BY Zenon, <4>1 DEF IInv, NoticeInv
      <4>. QED  BY Zenon, <4>1, <4>2
    <3>2. \A h \in Proc : pc[h] = "adopt_wakeup" => h = p
      <4>1. \A h \in Proc : pc[h] = "adopt_wakeup" => pc[h] \in Holding
        BY Zenon DEF Holding, Exiting
      <4>. QED  BY Zenon, <1>1, <4>1, HolderAlone
    <3>3. j[p] = initproc
      BY Zenon, <3>1, <3>2 DEF Adopting
    <3>4. ~(j[p] > NPROC)
      BY <3>3, Slots
    <3>5. state'[initproc] = "RUNNABLE"
      BY Zenon, <1>1, <1>2, <3>1, <3>3, <3>4 DEF SleepsOn
    <3>. QED  BY Zenon, <2>3, <3>1, <3>5
  <2>. QED  BY Zenon, <2>1, <2>3 DEF NoticeInv
<1>. QED  BY Zenon, <1>1, <1>3, <1>4 DEF IInv

\* wakeup(p->parent): past its slot, the parent does not sleep.
LEMMA ExitWakeupStep ==
  ASSUME Setting, IInv, NEW c \in CPU, NEW p \in Proc, exit_wakeup(c, p) PROVE IInv'
<1>. DEFINE r == parent[p]
<1>1. /\ TypeOK' /\ CpuInv' /\ WaitLockInv' /\ LocalsInv' /\ ForkInv' /\ FamilyInv'
      /\ pc[p] = "exit_wakeup" /\ Others(p) /\ Calm /\ UNCHANGED <<parent, chan, i>>
      /\ \A q \in Proc : q # p => pc'[q] \notin Holding
      /\ \A q \in Proc : \/ state'[q] = state[q]
                         \/ state[q] = "SLEEPING" /\ state'[q] = "RUNNABLE"
      /\ j[p] \in 1..NPROC+1
      /\ \/ j[p] > NPROC /\ pc'[p] = "exit_zombie" /\ j'[p] = 1
         \/ /\ j[p] \in Proc /\ pc'[p] = "exit_wakeup" /\ j'[p] = j[p] + 1
            /\ j[p] # p /\ SleepsOn(j[p], r) => state'[j[p]] = "RUNNABLE"
  BY Zenon, WakeupStep DEF exit_wakeup
<1>2. ScanAt(p) /\ p # initproc /\ r \in Proc /\ r # p
  <2>1. pc[p] \in Exiting
    BY Zenon, <1>1 DEF Exiting
  <2>. QED  BY Zenon, <2>1, Exiter DEF IInv, ScanInv
<1>3. j[p] > r => state[r] # "SLEEPING"
  BY Zenon, <1>1, <1>2 DEF ScanAt
<1>4. state[r] # "SLEEPING" => state'[r] # "SLEEPING"
  BY Zenon, <1>1, <1>2
<1>5. pc'[p] = "exit_zombie" => state'[r] # "SLEEPING"
  <2>1. j[p] > NPROC => j[p] > r
    BY <1>1, <1>2, Slots
  <2>. QED  BY Zenon, <1>1, <1>3, <1>4, <2>1
<1>6. pc'[p] = "exit_wakeup" /\ j'[p] > r => state'[r] # "SLEEPING"
  <2>. SUFFICES ASSUME pc'[p] = "exit_wakeup", j'[p] > r PROVE state'[r] # "SLEEPING"
    BY Zenon
  <2>1. /\ j[p] \in Proc /\ j'[p] = j[p] + 1
        /\ j[p] # p /\ SleepsOn(j[p], r) => state'[j[p]] = "RUNNABLE"
    BY Zenon, <1>1
  <2>2. j[p] > r \/ j[p] = r
    BY <1>2, <2>1, Slots
  <2>3. CASE j[p] > r
    BY Zenon, <1>3, <1>4, <2>3
  <2>4. CASE j[p] = r
    <3>1. state[r] = "SLEEPING" => chan[r] = r
      BY Zenon, <1>2 DEF IInv, NoticeInv
    <3>2. state[r] = "SLEEPING" => state'[r] = "RUNNABLE"
      BY Zenon, <1>2, <2>1, <2>4, <3>1 DEF SleepsOn
    <3>. QED  BY Zenon, <1>4, <3>2
  <2>. QED  BY Zenon, <2>2, <2>3, <2>4
<1>7. ScanInv'
  <2>1. pc'[p] \in {"exit_wakeup", "exit_zombie"}
    BY Zenon, <1>1
  <2>2. \A q \in Proc : parent'[q] # p
    BY Zenon, <1>1, <1>2 DEF ScanAt
  <2>3. parent' = parent
    BY Zenon, <1>1
  <2>4. ScanAt(p)'
    BY Zenon, <1>2, <1>5, <1>6, <2>1, <2>2, <2>3 DEF ScanAt
  <2>. QED  BY Zenon, <1>1, <2>4, ScanOne
<1>8. NoticeInv'
  <2>1. \A q \in Proc : pc[q] = "adopt_wakeup" => pc'[q] = pc[q] /\ j'[q] = j[q]
    BY Zenon, <1>1 DEF Others
  <2>. QED  BY Zenon, <1>1, <2>1, NoticeKept
<1>. QED  BY Zenon, <1>1, <1>7, <1>8 DEF IInv

\* The last step of exit: the process is a ZOMBIE and gives up wait_lock.
LEMMA ExitZombieStep ==
  ASSUME Setting, IInv, NEW c \in CPU, NEW p \in Proc, exit_zombie(c, p) PROVE IInv'
<1>1. /\ Executes(c, p) /\ pc[p] = "exit_zombie" /\ wait_lock' = None
      /\ UNCHANGED <<parent, chan, cproc, thread, ret, j>>
  BY Zenon DEF exit_zombie, At, Executes, cpus
<1>2. TypeOK'
  <2>1. "sched" \in Places /\ 1 \in 1..NPROC+1
    BY Slots DEF Places, Switching
  <2>2. /\ pc' \in [Proc -> Places] /\ i' \in [Proc -> 1..NPROC+1]
        /\ lock' \in [Proc -> CPU \cup {None}]
    BY Zenon, <2>1 DEF exit_zombie, Goto, IInv, TypeOK
  <2>3. state' \in [Proc -> {"UNUSED", "USED", "RUNNABLE", "RUNNING", "SLEEPING", "ZOMBIE"}]
    BY Zenon DEF exit_zombie, IInv, TypeOK
  <2>. QED  BY Zenon, <1>1, <2>2, <2>3 DEF IInv, TypeOK
<1>3. /\ pc'[p] = "sched" /\ i'[p] = 1 /\ lock'[p] = c /\ state'[p] = "ZOMBIE" /\ Others(p)
      /\ \A q \in Proc : q # p => state'[q] = state[q]
  BY Zenon, <1>1 DEF exit_zombie, Goto, IInv, TypeOK, Others
<1>4. pc[p] \in Holding /\ pc[p] \in Exiting /\ pc'[p] \in Switching /\ pc'[p] \notin Holding
  BY Zenon, <1>1, <1>3 DEF Switching, Holding, Exiting, Waiting
<1>5. /\ state[p] = "RUNNING" /\ ret[p] = "user"
      /\ Point(p) = pc[p] /\ pc[p] \notin Forking
      /\ \A q \in Proc : q # p => pc[q] \notin Holding
  BY Zenon, <1>1, <1>4, Holder
<1>6. Point(p)' = "user"
  BY Zenon, <1>1, <1>4, <1>5 DEF Point
<1>7. /\ p # initproc /\ parent[p] \in Proc /\ \A q \in Proc : parent[q] # p
      /\ state[parent[p]] # "SLEEPING" /\ p \in Children
  <2>1. ScanAt(p)
    BY Zenon DEF IInv, ScanInv
  <2>. QED  BY Zenon, <1>1, <1>4, <2>1, Exiter DEF ScanAt
<1>8. CpuInv'
  <2>1. OnCpu(c, p)'
    BY Zenon, <1>1, <1>3 DEF OnCpu, Executes
  <2>. QED  BY Zenon, <1>1, <1>3, <2>1, CpuStep
<1>9. WaitLockInv'
  BY Zenon, <1>1, <1>3, <1>4, WaitLockStep
<1>10. LocalsInv'
  <2>1. j'[p] = 1
    BY Zenon, <1>1 DEF IInv, LocalsInv, LocalsAt
  <2>2. LocalsAt(p)'
    BY Zenon, <1>3, <1>4, <2>1 DEF LocalsAt
  <2>. QED  BY Zenon, <1>3, <2>2, LocalsStep
<1>11. \A q \in Proc : \/ Point(q)' = Point(q) /\ i'[q] = i[q]
                       \/ Point(q) \notin Forking /\ Point(q)' \notin Forking
  <2>1. Point(p)' \notin Forking
    BY Zenon, <1>6 DEF Forking
  <2>. QED  BY Zenon, <1>3, <1>5, <2>1, OthersPoint
<1>12. ForkInv'
  <2>1. ASSUME NEW q \in Proc, Point(q)' \in Forking
        PROVE  /\ i'[q] \in Proc /\ state'[i'[q]] = "USED"
               /\ parent[i'[q]] = IF Point(q)' = "fork_run" THEN q ELSE Null
    <3>1. Point(q)' = Point(q) /\ i'[q] = i[q] /\ Point(q) \in Forking
      BY Zenon, <1>11, <2>1
    <3>2. /\ i[q] \in Proc /\ state[i[q]] = "USED"
          /\ parent[i[q]] = IF Point(q) = "fork_run" THEN q ELSE Null
      BY Zenon, <3>1 DEF IInv, ForkInv
    <3>. QED  BY Zenon, <1>3, <1>5, <3>1, <3>2
  <2>2. \A q, r \in Proc :
          Point(q)' \in Forking /\ Point(r)' \in Forking /\ i'[q] = i'[r] => q = r
    BY Zenon, <1>11 DEF IInv, ForkInv
  <2>. QED  BY Zenon, <1>1, <2>1, <2>2 DEF ForkInv
<1>13. FamilyInv'
  <2>1. Children' = Children
    BY Zenon, <1>3, <1>5 DEF Children
  <2>2. \A q \in Proc : q # p => (Live(q)' <=> Live(q))
    BY Zenon, <1>3 DEF Live
  <2>3. \A q \in Proc : parent[q] # Null => parent[q] \in Proc
    BY Zenon DEF IInv, TypeOK
  <2>4. Live(initproc)'
    BY Zenon, <1>7, <2>2, Slots DEF IInv, FamilyInv
  <2>5. \A q \in Proc : state'[q] = "UNUSED" => parent[q] = Null
    BY Zenon, <1>3 DEF IInv, FamilyInv
  <2>6. ASSUME NEW q \in Proc, state'[q] = "USED", parent[q] # Null
        PROVE  Point(parent[q])' = "fork_run" /\ i'[parent[q]] = q
    <3>1. state[q] = "USED"
      BY Zenon, <1>3, <2>6
    <3>2. Point(parent[q]) = "fork_run" /\ i[parent[q]] = q
      BY Zenon, <2>6, <3>1 DEF IInv, FamilyInv
    <3>3. parent[q] \in Proc /\ parent[q] # p
      BY Zenon, <1>7, <2>3, <2>6
    <3>. QED  BY Zenon, <1>1, <1>3, <3>2, <3>3, OthersPoint
  <2>7. \A q \in Proc : parent[q] # Null => Live(parent[q])'
    BY Zenon, <1>1, <1>7, <2>2, <2>3 DEF IInv, FamilyInv
  <2>8. /\ \A q \in Children' : parent[q] # Null
        /\ \A S \in SUBSET Children' : S # {} => \E q \in S : parent[q] \notin S
    BY Zenon, <2>1 DEF IInv, FamilyInv
  <2>. QED  BY Zenon, <1>1, <2>4, <2>5, <2>6, <2>7, <2>8 DEF FamilyInv, Point, Live
<1>14. ScanInv'
  <2>1. \A q \in Proc : pc'[q] \notin Holding
    BY Zenon, <1>3, <1>4, <1>5 DEF Others
  <2>. QED  BY Zenon, <2>1, ScanNone
<1>15. NoticeInv'
  <2>1. ~Adopting
    <3>1. \A h \in Proc : pc[h] = "adopt_wakeup" => pc[h] \in Holding
      BY Zenon DEF Holding, Exiting
    <3>. QED  BY Zenon, <1>1, <1>5, <3>1 DEF Adopting
  <2>2. \A q \in Proc : state'[q] = "SLEEPING" => q # p /\ state[q] = "SLEEPING" /\ chan'[q] = q
    BY Zenon, <1>1, <1>3 DEF IInv, NoticeInv
  <2>3. ASSUME NEW r \in Proc, NEW q \in Proc, state'[r] = "SLEEPING", parent'[q] = r,
               state'[q] = "ZOMBIE"
        PROVE  FALSE
    <3>1. state[r] = "SLEEPING" /\ parent[q] = r
      BY Zenon, <1>1, <2>2, <2>3
    <3>2. CASE q = p
      BY Zenon, <1>7, <3>1, <3>2
    <3>3. CASE q # p
      BY Zenon, <1>3, <2>1, <2>3, <3>1, <3>3 DEF IInv, NoticeInv
    <3>. QED  BY Zenon, <3>2, <3>3
  <2>. QED  BY Zenon, <2>2, <2>3 DEF NoticeInv
<1>. QED  BY Zenon, <1>2, <1>8, <1>9, <1>10, <1>12, <1>13, <1>14, <1>15 DEF IInv
-----------------------------------------------------------------------------
(* wait *)

\* acquire(&wait_lock) and the start of a scan.
LEMMA WaitStep ==
  ASSUME Setting, IInv, NEW c \in CPU, NEW p \in Proc, wait(c, p) PROVE IInv'
<1>1. /\ Executes(c, p) /\ pc[p] \in {"wait", "user"} /\ wait_lock = None /\ wait_lock' = c
      /\ UNCHANGED <<state, parent, chan, lock, cproc, thread, ret, j>>
  BY Zenon DEF wait, At, Executes, cpus, struct
<1>2. TypeOK'
  <2>1. "wait_scan" \in Places /\ 1 \in 1..NPROC+1
    BY Slots DEF Places, Holding, Waiting
  <2>2. pc' \in [Proc -> Places] /\ i' \in [Proc -> 1..NPROC+1]
    BY Zenon, <2>1 DEF wait, Goto, IInv, TypeOK
  <2>. QED  BY Zenon, <1>1, <2>2 DEF IInv, TypeOK
<1>3. pc'[p] = "wait_scan" /\ i'[p] = 1 /\ Others(p)
  BY Zenon, <1>1 DEF wait, Goto, IInv, TypeOK, Others
<1>4. /\ pc[p] \notin Switching /\ pc'[p] \notin Switching /\ pc'[p] \in Holding
      /\ pc[p] \notin Forking /\ pc'[p] \notin Forking /\ pc[p] # "adopt_wakeup"
      /\ pc[p] # "exit_wakeup"
  BY Zenon, <1>1, <1>3 DEF Switching, Holding, Waiting, Forking
<1>5. CpuInv' /\ LocalsInv'
  <2>1. j'[p] = 1
    BY Zenon, <1>1, <1>4 DEF IInv, LocalsInv, LocalsAt
  <2>. QED  BY Zenon, <1>1, <1>3, <1>4, <2>1, Stays
<1>6. WaitLockInv'
  BY Zenon, <1>1, <1>3, <1>4, WaitLockStep
<1>7. ForkInv' /\ FamilyInv'
  BY Zenon, <1>1, <1>3, <1>4, AwayFromFork, FamilyKept
<1>8. ScanInv'
  <2>1. \A q \in Proc : ~(q < 1)
    BY Slots
  <2>2. ScanAt(p)'
    BY Zenon, <1>3, <2>1 DEF ScanAt, Exiting
  <2>3. \A q \in Proc : q # p => pc'[q] \notin Holding
    BY Zenon, <1>1, <1>3, NobodyHolds DEF Others
  <2>. QED  BY Zenon, <2>2, <2>3, ScanOne
<1>9. NoticeInv'
  <2>1. Calm
    BY Zenon, <1>1 DEF Calm
  <2>2. \A q \in Proc : pc[q] = "adopt_wakeup" => pc'[q] = pc[q] /\ j'[q] = j[q]
    BY Zenon, <1>3, <1>4 DEF Others
  <2>. QED  BY Zenon, <2>1, <2>2, NoticeKept
<1>. QED  BY Zenon, <1>2, <1>5, <1>6, <1>7, <1>8, <1>9 DEF IInv

\* The scan of wait goes on, or is over, or is followed by sleep.
LEMMA WaitGoesOn ==
  ASSUME Setting, IInv, NEW c \in CPU, NEW p \in Proc, Executes(c, p),
         pc[p] \in Waiting, pc'[p] \in Waiting, TypeOK', Others(p), ScanAt(p)',
         UNCHANGED <<state, parent, chan, lock, wait_lock, cproc, thread, ret, j>>
  PROVE  IInv'
<1>1. /\ pc[p] \in Holding /\ pc'[p] \in Holding
      /\ pc'[p] \notin Switching /\ pc'[p] \notin Forking /\ pc'[p] # "user"
      /\ pc[p] \notin {"adopt_wakeup", "exit_wakeup"}
  BY Zenon DEF Waiting, Holding, Switching, Forking
<1>2. /\ pc[p] \notin Switching /\ pc[p] \notin Forking
      /\ \A q \in Proc : q # p => pc[q] \notin Holding
  BY Zenon, <1>1, Holder
<1>3. CpuInv' /\ LocalsInv'
  <2>1. j'[p] = 1
    BY Zenon, <1>1 DEF IInv, LocalsInv, LocalsAt
  <2>. QED  BY Zenon, <1>1, <1>2, <2>1, Stays
<1>4. WaitLockInv'
  BY Zenon, <1>1, WaitLockStep
<1>5. ForkInv' /\ FamilyInv'
  BY Zenon, <1>1, <1>2, AwayFromFork, FamilyKept
<1>6. ScanInv'
  <2>1. \A q \in Proc : q # p => pc'[q] \notin Holding
    BY Zenon, <1>2 DEF Others
  <2>. QED  BY Zenon, <2>1, ScanOne
<1>7. NoticeInv'
  <2>1. Calm
    BY Zenon DEF Calm
  <2>2. \A q \in Proc : pc[q] = "adopt_wakeup" => pc'[q] = pc[q] /\ j'[q] = j[q]
    BY Zenon, <1>1 DEF Others
  <2>. QED  BY Zenon, <2>1, <2>2, NoticeKept
<1>. QED  BY Zenon, <1>3, <1>4, <1>5, <1>6, <1>7 DEF IInv

\* wait returns, without a child.
LEMMA WaitReturns ==
  ASSUME Setting, IInv, NEW c \in CPU, NEW p \in Proc, Executes(c, p), pc[p] \in Waiting,
         Return(p), wait_lock' = None,
         UNCHANGED <<state, parent, chan, lock, cproc, thread>>
  PROVE  IInv'
<1>1. TypeOK'
  BY Zenon, ReturnType DEF IInv, TypeOK
<1>2. pc'[p] = "user" /\ i'[p] = 1 /\ Others(p) /\ ret' = ret /\ j' = j
  BY Zenon DEF Return, Goto, IInv, TypeOK, Others
<1>3. /\ pc[p] \in Holding /\ pc'[p] \notin Holding
      /\ pc'[p] \notin Switching /\ pc'[p] \notin Forking
      /\ pc[p] \notin {"adopt_wakeup", "exit_wakeup"}
  BY Zenon, <1>2 DEF Waiting, Exiting, Holding, Switching, Forking
<1>4. /\ pc[p] \notin Switching /\ pc[p] \notin Forking
      /\ \A q \in Proc : q # p => pc[q] \notin Holding
  BY Zenon, <1>3, Holder
<1>5. CpuInv' /\ LocalsInv'
  <2>1. j'[p] = 1
    BY Zenon, <1>2, <1>3 DEF IInv, LocalsInv, LocalsAt
  <2>. QED  BY Zenon, <1>2, <1>3, <1>4, <2>1, Stays
<1>6. WaitLockInv'
  BY Zenon, <1>2, <1>3, WaitLockStep
<1>7. ForkInv' /\ FamilyInv'
  BY Zenon, <1>2, <1>3, <1>4, AwayFromFork, FamilyKept
<1>8. ScanInv'
  <2>1. \A q \in Proc : pc'[q] \notin Holding
    BY Zenon, <1>2, <1>3, <1>4 DEF Others
  <2>. QED  BY Zenon, <2>1, ScanNone
<1>9. NoticeInv'
  <2>1. Calm
    BY Zenon DEF Calm
  <2>2. \A q \in Proc : pc[q] = "adopt_wakeup" => pc'[q] = pc[q] /\ j'[q] = j[q]
    BY Zenon, <1>2, <1>3 DEF Others
  <2>. QED  BY Zenon, <2>1, <2>2, NoticeKept
<1>. QED  BY Zenon, <1>1, <1>5, <1>6, <1>7, <1>8, <1>9 DEF IInv

\* wait frees a ZOMBIE child, in which nobody is any more, and returns.
LEMMA WaitFrees ==
  ASSUME Setting, IInv, NEW c \in CPU, NEW p \in Proc, Executes(c, p), pc[p] = "wait_scan",
         NEW n \in Proc, state[n] = "ZOMBIE", lock[n] = None, Freed(n),
         Return(p), wait_lock' = None, UNCHANGED <<lock, cproc, thread>>
  PROVE  IInv'
<1>1. TypeOK'
  <2>1. /\ state' \in [Proc -> {"UNUSED", "USED", "RUNNABLE", "RUNNING", "SLEEPING", "ZOMBIE"}]
        /\ parent' \in [Proc -> Proc \cup {Null}] /\ chan' \in [Proc -> Proc \cup {Null}]
    BY Zenon DEF Freed, IInv, TypeOK
  <2>. QED  BY Zenon, <2>1, ReturnType DEF IInv, TypeOK
<1>2. /\ pc'[p] = "user" /\ i'[p] = 1 /\ Others(p) /\ ret' = ret /\ j' = j
      /\ state'[n] = "UNUSED" /\ parent'[n] = Null
      /\ \A q \in Proc : q # n =>
           state'[q] = state[q] /\ parent'[q] = parent[q] /\ chan'[q] = chan[q]
  BY Zenon DEF Freed, Return, Goto, IInv, TypeOK, Others
<1>3. /\ pc[p] \in Holding /\ pc'[p] \notin Holding
      /\ pc'[p] \notin Switching /\ pc'[p] \notin Forking
  BY Zenon, <1>2 DEF Waiting, Exiting, Holding, Switching, Forking
<1>4. /\ pc[p] \notin Switching /\ pc[p] \notin Forking /\ state[p] = "RUNNING"
      /\ Point(p) = "wait_scan" /\ \A q \in Proc : q # p => pc[q] \notin Holding
  BY Zenon, <1>3, Holder
<1>5. n # p /\ n # initproc /\ \A q \in Proc : parent[q] # n
  <2>1. ~Live(n) /\ n # Null
    BY Zenon, Slots DEF Live
  <2>. QED  BY Zenon, <1>4, <2>1 DEF IInv, FamilyInv
<1>6. CpuInv' /\ LocalsInv'
  <2>1. j'[p] = 1
    BY Zenon, <1>2 DEF IInv, LocalsInv, LocalsAt
  <2>2. \A q \in Proc : q # p =>
          \/ state'[q] = state[q]
          \/ lock[q] = None /\ state[q] # "RUNNING" /\ state'[q] # "RUNNING"
    BY Zenon, <1>2
  <2>3. state'[p] = state[p]
    BY Zenon, <1>2, <1>5
  <2>. QED  BY Zenon, <1>2, <1>3, <1>4, <2>1, <2>2, <2>3, Stays
<1>7. WaitLockInv'
  BY Zenon, <1>2, <1>3, WaitLockStep
<1>8. \A q \in Proc : \/ Point(q)' = Point(q) /\ i'[q] = i[q]
                      \/ Point(q) \notin Forking /\ Point(q)' \notin Forking
  BY Zenon, <1>2, <1>3, <1>4, AwayFromFork
<1>9. ForkInv'
  <2>1. ASSUME NEW q \in Proc, Point(q)' \in Forking
        PROVE  /\ i'[q] \in Proc /\ state'[i'[q]] = "USED"
               /\ parent'[i'[q]] = IF Point(q)' = "fork_run" THEN q ELSE Null
    <3>1. Point(q)' = Point(q) /\ i'[q] = i[q] /\ Point(q) \in Forking
      BY Zenon, <1>8, <2>1
    <3>2. /\ i[q] \in Proc /\ state[i[q]] = "USED"
          /\ parent[i[q]] = IF Point(q) = "fork_run" THEN q ELSE Null
      BY Zenon, <3>1 DEF IInv, ForkInv
    <3>3. i[q] # n
      BY Zenon, <3>2
    <3>. QED  BY Zenon, <1>2, <3>1, <3>2, <3>3
  <2>2. \A q, r \in Proc :
          Point(q)' \in Forking /\ Point(r)' \in Forking /\ i'[q] = i'[r] => q = r
    BY Zenon, <1>8 DEF IInv, ForkInv
  <2>. QED  BY Zenon, <2>1, <2>2 DEF ForkInv
<1>10. FamilyInv'
  <2>1. Children' = Children \ {n}
    BY Zenon, <1>2 DEF Children
  <2>2. \A q \in Proc : parent[q] # Null => parent[q] \in Proc
    BY Zenon DEF IInv, TypeOK
  <2>3. Live(initproc)'
    BY Zenon, <1>2, <1>5, Slots DEF IInv, FamilyInv, Live
  <2>4. \A q \in Proc : state'[q] = "UNUSED" => parent'[q] = Null
    BY Zenon, <1>2 DEF IInv, FamilyInv
  <2>5. ASSUME NEW q \in Proc, state'[q] = "USED", parent'[q] # Null
        PROVE  Point(parent[q])' = "fork_run" /\ i'[parent'[q]] = q
    <3>1. q # n /\ parent'[q] = parent[q] /\ state[q] = "USED"
      BY Zenon, <1>2, <2>5
    <3>2. Point(parent[q]) = "fork_run" /\ i[parent[q]] = q /\ parent[q] \in Proc
      BY Zenon, <2>2, <2>5, <3>1 DEF IInv, FamilyInv
    <3>3. parent[q] # p
      BY Zenon, <1>4, <3>2
    <3>4. /\ pc'[parent[q]] = pc[parent[q]] /\ ret'[parent[q]] = ret[parent[q]]
          /\ i'[parent[q]] = i[parent[q]]
      BY Zenon, <1>2, <3>2, <3>3 DEF Others
    <3>. QED  BY Zenon, <3>1, <3>2, <3>4 DEF Point
  <2>6. ASSUME NEW q \in Proc, parent'[q] # Null PROVE Live(parent[q])'
    <3>1. q # n /\ parent'[q] = parent[q] /\ parent[q] \in Proc /\ parent[q] # n
      BY Zenon, <1>2, <1>5, <2>2, <2>6
    <3>2. Live(parent[q]) /\ state'[parent[q]] = state[parent[q]]
      BY Zenon, <1>2, <2>6, <3>1 DEF IInv, FamilyInv
    <3>. QED  BY Zenon, <3>1, <3>2 DEF Live
  <2>7. \A q \in Children' : q \in Children /\ parent'[q] = parent[q]
    <3>1. \A q \in Children' : q \in Children /\ q \in Proc /\ q # n
      BY Zenon, <2>1 DEF Children
    <3>. QED  BY Zenon, <1>2, <3>1
  <2>8. \A q \in Children' : parent'[q] # Null
    BY Zenon, <2>7 DEF IInv, FamilyInv
  <2>9. ASSUME NEW S \in SUBSET Children', S # {} PROVE \E q \in S : parent'[q] \notin S
    <3>1. PICK q \in S : parent[q] \notin S
      BY Zenon, <2>7, <2>9 DEF IInv, FamilyInv
    <3>. QED  BY Zenon, <2>7, <3>1
  <2>. QED  BY Zenon, <2>3, <2>4, <2>5, <2>6, <2>8, <2>9 DEF FamilyInv, Point, Live
<1>11. ScanInv'
  <2>1. \A q \in Proc : pc'[q] \notin Holding
    BY Zenon, <1>2, <1>3, <1>4 DEF Others
  <2>. QED  BY Zenon, <2>1, ScanNone
<1>12. NoticeInv'
  <2>1. ~Adopting
    <3>1. \A h \in Proc : pc[h] = "adopt_wakeup" => pc[h] \in Holding
      BY Zenon DEF Holding, Exiting
    <3>. QED  BY Zenon, <1>4, <3>1 DEF Adopting
  <2>2. \A q \in Proc : state'[q] = "SLEEPING" => state[q] = "SLEEPING" /\ chan'[q] = q
    BY Zenon, <1>2 DEF IInv, NoticeInv
  <2>3. ASSUME NEW r \in Proc, NEW q \in Proc, state'[r] = "SLEEPING", parent'[q] = r,
               state'[q] = "ZOMBIE"
        PROVE  FALSE
    <3>1. q # n
      BY Zenon, <1>2, <2>3
    <3>. QED  BY Zenon, <1>2, <2>1, <2>2, <2>3, <3>1 DEF IInv, NoticeInv
  <2>. QED  BY Zenon, <2>2, <2>3 DEF NoticeInv
<1>. QED  BY Zenon, <1>1, <1>6, <1>7, <1>9, <1>10, <1>11, <1>12 DEF IInv

\* One child of wait's scan.
LEMMA WaitScanStep ==
  ASSUME Setting, IInv, NEW c \in CPU, NEW p \in Proc, wait_scan(c, p) PROVE IInv'
<1>. DEFINE n == First(Kids(p))
<1>1. Executes(c, p) /\ pc[p] = "wait_scan" /\ UNCHANGED <<lock, cproc, thread>>
  BY Zenon DEF wait_scan, At, Executes, cpus
<1>2. i[p] \in Nat /\ \A q \in Proc : q < i[p] /\ parent[q] = p => state[q] # "ZOMBIE"
  <2>1. \A q \in Proc : q < i[p] /\ parent[q] = p => state[q] # "ZOMBIE"
    BY Zenon, <1>1 DEF IInv, ScanInv, ScanAt
  <2>. QED  BY <2>1, Slots DEF IInv, TypeOK
<1>3. pc[p] \in Waiting
  BY Zenon, <1>1 DEF Waiting
<1>4. CASE Kids(p) = {} /\ Goto(p, "wait_end") /\ UNCHANGED <<struct, wait_lock, locals>>
  <2>1. UNCHANGED <<state, parent, chan, wait_lock, ret, i, j>>
    BY Zenon, <1>4 DEF struct, locals
  <2>2. TypeOK'
    BY Zenon, <1>1, <1>4, <2>1 DEF Goto, IInv, TypeOK, Places, Holding, Waiting
  <2>3. pc'[p] = "wait_end" /\ Others(p)
    BY Zenon, <1>1, <1>4, <2>1 DEF Goto, IInv, TypeOK, Others
  <2>4. \A q \in Proc : parent'[q] = p => state'[q] # "ZOMBIE"
    BY <1>2, <1>4, <2>1, Slots DEF Kids
  <2>5. ScanAt(p)'
    BY Zenon, <2>3, <2>4 DEF ScanAt, Exiting
  <2>6. pc'[p] \in Waiting
    BY Zenon, <2>3 DEF Waiting
  <2>. QED  BY Zenon, <1>1, <1>3, <2>1, <2>2, <2>3, <2>5, <2>6, WaitGoesOn
<1>5. CASE Kids(p) # {}
  <2>1. /\ n \in Proc /\ n >= i[p] /\ parent[n] = p
        /\ \A r \in Proc : r >= i[p] /\ parent[r] = p => n <= r
    BY Zenon, <1>5, NextKid
  <2>2. CASE /\ state[n] # "ZOMBIE" /\ i' = [i EXCEPT ![p] = n + 1]
             /\ UNCHANGED <<struct, wait_lock, pc, ret, j>>
    <3>. HIDE DEF n
    <3>1. UNCHANGED <<state, parent, chan, wait_lock, ret, j, pc>>
      BY Zenon, <2>2 DEF struct
    <3>2. TypeOK'
      <4>1. n + 1 \in 1..NPROC+1
        BY <2>1, Slots
      <4>2. i' \in [Proc -> 1..NPROC+1]
        BY Zenon, <2>2, <4>1 DEF IInv, TypeOK
      <4>. QED  BY Zenon, <1>1, <3>1, <4>2 DEF IInv, TypeOK
    <3>3. i'[p] = n + 1 /\ Others(p)
      BY Zenon, <1>1, <2>2, <3>1 DEF IInv, TypeOK, Others
    <3>4. \A q \in Proc : q < n + 1 /\ parent[q] = p => state[q] # "ZOMBIE"
      BY <1>2, <2>1, <2>2, Slots
    <3>5. ScanAt(p)'
      BY Zenon, <1>1, <3>1, <3>3, <3>4 DEF ScanAt, Exiting
    <3>. QED  BY Zenon, <1>1, <1>3, <3>1, <3>2, <3>3, <3>5, WaitGoesOn
  <2>3. CASE wait_lock' = None /\ Return(p) /\ UNCHANGED struct
    <3>1. UNCHANGED <<state, parent, chan>>
      BY Zenon, <2>3 DEF struct
    <3>. QED  BY Zenon, <1>1, <1>3, <2>3, <3>1, WaitReturns
  <2>4. CASE /\ state[n] = "ZOMBIE" /\ ChildLockFree(n) /\ Freed(n)
             /\ wait_lock' = None /\ Return(p)
    <3>1. lock[n] = None
      BY Zenon, <2>4 DEF ChildLockFree
    <3>. HIDE DEF n
    <3>. QED  BY Zenon, <1>1, <2>1, <2>4, <3>1, WaitFrees
  <2>. QED  BY Zenon, <1>5, <2>2, <2>3, <2>4 DEF wait_scan
<1>. QED  BY Zenon, <1>4, <1>5 DEF wait_scan

\* The end of the scan.
LEMMA WaitEndStep ==
  ASSUME Setting, IInv, NEW c \in CPU, NEW p \in Proc, wait_end(c, p) PROVE IInv'
<1>1. /\ Executes(c, p) /\ pc[p] = "wait_end"
      /\ UNCHANGED <<state, parent, chan, lock, cproc, thread>>
  BY Zenon DEF wait_end, At, Executes, cpus, struct
<1>2. pc[p] \in Waiting
  BY Zenon, <1>1 DEF Waiting
<1>3. CASE wait_lock' = None /\ Return(p)
  BY Zenon, <1>1, <1>2, <1>3, WaitReturns
<1>4. CASE Goto(p, "wait_sleep") /\ UNCHANGED <<wait_lock, locals>>
  <2>1. UNCHANGED <<wait_lock, ret, i, j>>
    BY Zenon, <1>4 DEF locals
  <2>2. TypeOK'
    BY Zenon, <1>1, <1>4, <2>1 DEF Goto, IInv, TypeOK, Places, Holding, Waiting
  <2>3. pc'[p] = "wait_sleep" /\ Others(p)
    BY Zenon, <1>1, <1>4, <2>1 DEF Goto, IInv, TypeOK, Others
  <2>4. \A q \in Proc : parent'[q] = p => state'[q] # "ZOMBIE"
    BY Zenon, <1>1 DEF IInv, ScanInv, ScanAt
  <2>5. ScanAt(p)'
    BY Zenon, <2>3, <2>4 DEF ScanAt, Exiting
  <2>6. pc'[p] \in Waiting
    BY Zenon, <2>3 DEF Waiting
  <2>. QED  BY Zenon, <1>1, <1>2, <2>1, <2>2, <2>3, <2>5, <2>6, WaitGoesOn
<1>. QED  BY Zenon, <1>3, <1>4 DEF wait_end

\* sleep(p, &wait_lock): no child has exited when p goes to sleep.
LEMMA WaitSleepStep ==
  ASSUME Setting, IInv, NEW c \in CPU, NEW p \in Proc, wait_sleep(c, p) PROVE IInv'
<1>1. /\ Executes(c, p) /\ pc[p] = "wait_sleep" /\ wait_lock' = None
      /\ UNCHANGED <<parent, cproc, thread, i, j>>
  BY Zenon DEF wait_sleep, At, Executes, cpus
<1>2. TypeOK'
  BY Zenon, <1>1 DEF wait_sleep, Goto, IInv, TypeOK, Places, Switching, Interruptible
<1>3. /\ pc'[p] = "sched" /\ ret'[p] = "wait" /\ lock'[p] = c /\ state'[p] = "SLEEPING"
      /\ chan'[p] = p /\ Others(p)
      /\ \A q \in Proc : q # p => state'[q] = state[q] /\ chan'[q] = chan[q]
  BY Zenon, <1>1 DEF wait_sleep, Goto, IInv, TypeOK, Others
<1>4. /\ pc[p] \in Holding /\ pc'[p] \in Switching /\ pc'[p] \notin Holding
      /\ pc[p] \notin {"adopt_wakeup", "exit_wakeup"}
  BY Zenon, <1>1, <1>3 DEF Switching, Holding, Exiting, Waiting
<1>5. /\ state[p] = "RUNNING" /\ Point(p) = pc[p] /\ pc[p] \notin Forking
      /\ \A q \in Proc : q # p => pc[q] \notin Holding
  BY Zenon, <1>1, <1>4, Holder
<1>6. Point(p)' = "wait"
  BY Zenon, <1>3, <1>4 DEF Point
<1>7. CpuInv'
  <2>1. OnCpu(c, p)'
    BY Zenon, <1>1, <1>3 DEF OnCpu, Executes
  <2>. QED  BY Zenon, <1>1, <1>3, <2>1, CpuStep
<1>8. WaitLockInv'
  BY Zenon, <1>1, <1>3, <1>4, WaitLockStep
<1>9. LocalsInv'
  <2>1. j'[p] = 1
    BY Zenon, <1>1, <1>4 DEF IInv, LocalsInv, LocalsAt
  <2>2. LocalsAt(p)'
    BY Zenon, <1>4, <1>6, <2>1 DEF LocalsAt
  <2>. QED  BY Zenon, <1>3, <2>2, LocalsStep
<1>10. ForkInv' /\ FamilyInv'
  <2>1. \A q \in Proc : state'[q] = state[q] \/ (Live(q) /\ Live(q)')
    BY Zenon, <1>3, <1>5 DEF Live
  <2>2. Point(p)' \notin Forking
    BY Zenon, <1>6 DEF Forking
  <2>3. \A q \in Proc : \/ Point(q)' = Point(q) /\ i'[q] = i[q]
                        \/ Point(q) \notin Forking /\ Point(q)' \notin Forking
    BY Zenon, <1>3, <1>5, <2>2, OthersPoint
  <2>. QED  BY Zenon, <1>1, <2>1, <2>3, FamilyKept
<1>11. ScanInv'
  <2>1. \A q \in Proc : pc'[q] \notin Holding
    BY Zenon, <1>3, <1>4, <1>5 DEF Others
  <2>. QED  BY Zenon, <2>1, ScanNone
<1>12. NoticeInv'
  <2>1. ~Adopting
    <3>1. \A h \in Proc : pc[h] = "adopt_wakeup" => pc[h] \in Holding
      BY Zenon DEF Holding, Exiting
    <3>. QED  BY Zenon, <1>1, <1>5, <3>1 DEF Adopting
  <2>2. \A q \in Proc : state'[q] = "SLEEPING" => chan'[q] = q
    BY Zenon, <1>3 DEF IInv, NoticeInv
  <2>3. \A q \in Proc : parent[q] = p => state[q] # "ZOMBIE"
    BY Zenon, <1>1 DEF IInv, ScanInv, ScanAt
  <2>4. ASSUME NEW r \in Proc, NEW q \in Proc, state'[r] = "SLEEPING", parent'[q] = r,
               state'[q] = "ZOMBIE"
        PROVE  FALSE
    <3>1. state[q] = "ZOMBIE" /\ parent[q] = r
      BY Zenon, <1>1, <1>3, <2>4
    <3>2. r # p
      BY Zenon, <2>3, <3>1
    <3>. QED  BY Zenon, <1>3, <2>1, <2>4, <3>1, <3>2 DEF IInv, NoticeInv
  <2>. QED  BY Zenon, <2>2, <2>4 DEF NoticeInv
<1>. QED  BY Zenon, <1>2, <1>7, <1>8, <1>9, <1>10, <1>11, <1>12 DEF IInv
-----------------------------------------------------------------------------
(* The theorems *)

\* Every step of every process and scheduler preserves the invariant.
LEMMA NextInv == Setting /\ IInv /\ [Next]_vars => IInv'
<1>. SUFFICES ASSUME Setting, IInv, [Next]_vars PROVE IInv'
  BY Zenon
<1>1. CASE UNCHANGED vars
  <2>1. UNCHANGED <<state, parent, chan, lock, wait_lock, cproc, thread, pc, ret, i, j>>
    BY Zenon, <1>1 DEF vars, struct, cpus, locals
  <2>2. TypeOK'
    BY Zenon, <2>1 DEF IInv, TypeOK
  <2>3. CpuInv' /\ WaitLockInv'
    <3>1. ASSUME NEW c \in CPU, NEW p \in Proc PROVE OnCpu(c, p)' <=> OnCpu(c, p)
      BY Zenon, <2>1 DEF OnCpu
    <3>2. \A p \in Proc : OffCpu(p)' <=> OffCpu(p)
      BY Zenon, <2>1 DEF OffCpu
    <3>3. \A c \in CPU, p \in Proc : Executes(c, p)' <=> Executes(c, p)
      BY Zenon, <2>1 DEF Executes
    <3>4. CpuInv'
      BY Zenon, <2>1, <3>1, <3>2 DEF IInv, CpuInv
    <3>5. WaitLockInv'
      BY Zenon, <2>1, <3>3 DEF IInv, WaitLockInv
    <3>. QED  BY Zenon, <3>4, <3>5
  <2>4. LocalsInv' /\ ForkInv'
    BY Zenon, <2>1 DEF IInv, LocalsInv, LocalsAt, Point, ForkInv
  <2>5. FamilyInv'
    BY Zenon, <2>1 DEF IInv, FamilyInv, Live, Point, Children
  <2>6. ScanInv' /\ NoticeInv'
    BY Zenon, <2>1 DEF IInv, ScanInv, ScanAt, NoticeInv, Adopting
  <2>. QED  BY Zenon, <2>2, <2>3, <2>4, <2>5, <2>6 DEF IInv
<1>2. ASSUME NEW c \in CPU, switched(c) PROVE IInv'
  BY Zenon, <1>2, SwitchedStep
<1>3. ASSUME NEW c \in CPU, NEW p \in Proc, scheduler(c, p) \/ yield(c, p) PROVE IInv'
  BY Zenon, <1>3, SchedulerStep, YieldStep
<1>4. ASSUME NEW c \in CPU, NEW p \in Proc,
             fork(c, p) \/ exit(c, p) \/ wait(c, p) \/ \E k \in KillPid : kill(c, p, k)
      PROVE  IInv'
  BY Zenon, <1>4, ForkStep, ExitStep, WaitStep, KillStep
<1>5. ASSUME NEW c \in CPU, NEW p \in Proc, Step(c, p) PROVE IInv'
  <2>1. CASE resume(c, p) \/ sched(c, p)
    BY Zenon, <2>1, ResumeStep, SchedStep
  <2>2. CASE allocproc(c, p) \/ fork_parent(c, p) \/ fork_run(c, p)
    BY Zenon, <2>2, AllocprocStep, ForkParentStep, ForkRunStep
  <2>3. CASE reparent(c, p) \/ adopt_wakeup(c, p) \/ exit_wakeup(c, p) \/ exit_zombie(c, p)
    BY Zenon, <2>3, ReparentStep, AdoptWakeupStep, ExitWakeupStep, ExitZombieStep
  <2>4. CASE wait_scan(c, p) \/ wait_end(c, p) \/ wait_sleep(c, p)
    BY Zenon, <2>4, WaitScanStep, WaitEndStep, WaitSleepStep
  <2>5. CASE kill_scan(c, p)
    BY Zenon, <2>5, KillScanStep
  <2>. QED  BY Zenon, <1>5, <2>1, <2>2, <2>3, <2>4, <2>5 DEF Step
<1>. QED  BY Zenon, <1>1, <1>2, <1>3, <1>4, <1>5 DEF Next

\* The invariant: who is on which CPU with which lock, who is whose parent, and
\* how far exit and wait have come under wait_lock.
THEOREM ProcessInvariant == ASSUME Setting PROVE Spec => []IInv
<1>1. Init => IInv
  BY Zenon, InitInv
<1>2. IInv /\ [Next]_vars => IInv'
  BY Zenon, NextInv
<1>. QED  BY <1>1, <1>2, PTL DEF Spec

\* A process runs on one CPU at a time, a RUNNING process on exactly one: the
\* scheduler takes only RUNNABLE processes and keeps p->lock across the switch.
THEOREM RunsOnOneCpu == ASSUME Setting PROVE Spec => []OneCpu
<1>1. IInv => OneCpu
  <2>. SUFFICES ASSUME IInv PROVE OneCpu
    BY Zenon
  <2>1. \A c, d \in CPU : cproc[c] = cproc[d] /\ cproc[c] # Null => c = d
    BY Zenon DEF IInv, CpuInv
  <2>2. ASSUME NEW p \in Proc, state[p] = "RUNNING" PROVE \E c \in CPU : Executes(c, p)
    <3>1. PICK c \in CPU : cproc[c] = p
      BY Zenon, <2>2 DEF IInv, CpuInv, OffCpu
    <3>2. OnCpu(c, p)
      BY Zenon, <3>1 DEF IInv, CpuInv
    <3>. QED  BY Zenon, <2>2, <3>1, <3>2 DEF OnCpu, Executes
  <2>. QED  BY Zenon, <2>1, <2>2 DEF OneCpu
<1>. QED  BY <1>1, ProcessInvariant, PTL

\* freeproc and allocproc find nobody at home: wait frees a slot only with its
\* lock free, which the exiting process holds until it is off its CPU.
THEOREM FreedSlotsAreIdle == ASSUME Setting PROVE Spec => []FreedIsGone
<1>1. IInv => FreedIsGone
  <2>. SUFFICES ASSUME IInv, NEW p \in Proc, state[p] \in {"UNUSED", "USED"}, NEW c \in CPU
                PROVE  cproc[c] # p
    BY Zenon DEF FreedIsGone
  <2>1. OnCpu(c, p) => state[p] \in {"RUNNING", "RUNNABLE", "SLEEPING", "ZOMBIE"}
    BY Zenon DEF OnCpu
  <2>2. ~OnCpu(c, p)
    BY Zenon, <2>1
  <2>. QED  BY Zenon, <2>2 DEF IInv, CpuInv
<1>. QED  BY <1>1, ProcessInvariant, PTL

\* sched() never panics: its caller holds p->lock and no other lock, and has
\* changed its state.
THEOREM SchedNeverPanics == ASSUME Setting PROVE Spec => []SchedChecks
<1>1. IInv => SchedChecks
  <2>. SUFFICES ASSUME IInv, NEW c \in CPU, NEW p \in Proc, At(c, p, "sched")
                PROVE  /\ lock[p] = c /\ wait_lock # c /\ state[p] # "RUNNING"
                       /\ \A q \in Proc \ {p} : lock[q] # c
    BY Zenon DEF SchedChecks
  <2>1. cproc[c] = p /\ thread[c] = "process" /\ pc[p] = "sched" /\ OnCpu(c, p)
    BY Zenon DEF At, IInv, CpuInv
  <2>2. lock[p] = c /\ state[p] # "RUNNING"
    BY Zenon, <2>1 DEF OnCpu, Switching
  <2>3. wait_lock # c
    <3>1. pc[p] \notin Holding
      BY Zenon, <2>1 DEF Holding, Exiting, Waiting
    <3>. QED  BY Zenon, <2>1, <3>1 DEF IInv, WaitLockInv, Executes
  <2>4. ASSUME NEW q \in Proc, q # p, lock[q] = c PROVE FALSE
    <3>1. c # None
      BY Zenon, Slots
    <3>2. PICK d \in CPU : cproc[d] = q
      BY Zenon, <2>4, <3>1 DEF IInv, CpuInv, OffCpu
    <3>3. OnCpu(d, q)
      BY Zenon, <3>2 DEF IInv, CpuInv
    <3>4. d = c
      BY Zenon, <2>4, <3>1, <3>3 DEF OnCpu
    <3>. QED  BY Zenon, <2>1, <2>4, <3>2, <3>4
  <2>. QED  BY Zenon, <2>2, <2>3, <2>4
<1>. QED  BY <1>1, ProcessInvariant, PTL

\* No exit is missed, an orphan's no more than any other: with wait_lock free,
\* nobody asleep in wait() has a child that has exited.
THEOREM ExitsNeverMissed == ASSUME Setting PROVE Spec => []NoMissedExit
<1>1. IInv => NoMissedExit
  <2>. SUFFICES ASSUME IInv, wait_lock = None, NEW p \in Proc, NEW q \in Proc,
                       state[p] = "SLEEPING", parent[q] = p, state[q] = "ZOMBIE"
                PROVE  FALSE
    BY Zenon DEF NoMissedExit
  <2>1. ~Adopting
    <3>1. \A h \in Proc : pc[h] = "adopt_wakeup" => pc[h] \in Holding
      BY Zenon DEF Holding, Exiting
    <3>. QED  BY Zenon, <3>1, NobodyHolds DEF Adopting
  <2>. QED  BY Zenon, <2>1 DEF IInv, NoticeInv
<1>. QED  BY <1>1, ProcessInvariant, PTL

\* The family tree stays rooted at init: parents are alive, since exit hands
\* its children to init before it is a ZOMBIE, and there is no cycle.
THEOREM FamilyStaysRooted == ASSUME Setting PROVE Spec => []TreeRooted
<1>1. IInv => TreeRooted
  <2>. SUFFICES ASSUME IInv PROVE TreeRooted
    BY Zenon
  <2>1. ASSUME NEW p \in Children
        PROVE  parent[p] \in Proc /\ state[parent[p]] \notin {"UNUSED", "USED", "ZOMBIE"}
    <3>1. p \in Proc /\ parent[p] # Null /\ Live(parent[p])
      BY Zenon DEF Children, IInv, FamilyInv
    <3>2. parent[p] \in Proc
      BY Zenon, <3>1 DEF IInv, TypeOK
    <3>3. state[parent[p]] \notin {"UNUSED", "USED", "ZOMBIE"}
      BY Zenon, <3>1 DEF Live
    <3>. QED  BY Zenon, <3>2, <3>3
  <2>2. \A S \in SUBSET Children : S # {} => \E p \in S : parent[p] \notin S
    BY Zenon DEF IInv, FamilyInv
  <2>. QED  BY Zenon, <2>1, <2>2 DEF TreeRooted
<1>. QED  BY <1>1, ProcessInvariant, PTL
=============================================================================
