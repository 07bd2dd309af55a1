--------------------------- MODULE SpinlockProofs ---------------------------
(***************************************************************************)
(* Proofs about Spinlock: for any CPUs, threads and locks.                 *)
(***************************************************************************)
EXTENDS Spinlock, FiniteSetTheorems, TLAPS

\* Inside acquire up to the swap, and where push_off has counted a lock that
\* is not, or no longer, among those held.
Taking  == {"push_off", "holding", "compare", "spin", "set_cpu"}
Counted == {"holding", "compare", "spin", "set_cpu", "unlock", "pop_off"}
Between == {"set_cpu", "unlock"}

\* Where a scheduler, and where a thread, can be.
SchedulerPC == {"run", "switched", "back", "pop_off"} \cup Taking \cup Between
Leaving  == {"w_stvec", "sret", "user", "usertrap"}
ThreadPC == {"run", "switched", "new", "forkret", "pop_off"}
              \cup Taking \cup Between \cup Leaving

Frame == [pc : {"run", "push_off"}, lk : Locks \cup {None}, old : BOOLEAN,
          held : SUBSET Locks]

\* Types; no context is at a panic.
TypeOK ==
  /\ locked \in [Locks -> BOOLEAN] /\ holder \in [Locks -> CPU \cup {None}]
  /\ noff \in [CPU -> Nat] /\ intena \in [CPU -> BOOLEAN]
  /\ sie \in [CPU -> BOOLEAN]
  /\ stvec \in [CPU -> {"kernelvec", "uservec"}]
  /\ tp \in [CPU -> CPU \cup {None}]
  /\ on \in [CPU -> Context]
  /\ pc \in [Context -> SchedulerPC \cup ThreadPC]
  /\ held \in [Context -> SUBSET Locks]
  /\ lk \in [Context -> Locks \cup {None}]
  /\ old \in [Context -> BOOLEAN] /\ keep \in [Context -> BOOLEAN]
  /\ hartid \in [Context -> CPU \cup {None}]
  /\ frame \in [Context -> Frame \cup {NoFrame}]
  /\ enabled \in [Context -> BOOLEAN]

\* A context is on one CPU at most; the scheduler of a CPU is away exactly
\* while a thread runs there; a context that is on no CPU holds nothing.
OnInv ==
  /\ \A c \in CPU : on[c] \in Thread \cup {c}
  /\ \A c, d \in CPU : on[c] = on[d] => c = d
  /\ \A c \in CPU : /\ pc[c] \in SchedulerPC
                    /\ pc[c] = "switched" <=> on[c] # c
                    /\ pc[c] = "switched" => held[c] = {} /\ Base(c)
  /\ \A t \in Thread : /\ pc[t] \in ThreadPC
                       /\ pc[t] \in {"new", "switched"} <=> \A c \in CPU : on[c] # t
                       /\ pc[t] \in {"new", "switched"} => held[t] = {}
                       /\ pc[t] = "new" => Base(t)
                       /\ pc[t] = "switched" => keep[t] = Expected(t)

\* lk->locked and lk->cpu tell who holds a lock, except between the swap and
\* the store to lk->cpu of acquire and of release.
HolderInv ==
  /\ \A c \in CPU, k \in Context, l \in Locks :
       on[c] = k /\ l \in held[k] => locked[l] /\ holder[l] = c
  /\ \A c \in CPU, l \in Locks : holder[l] = c => l \in held[on[c]]
  /\ \A k \in Context : pc[k] \in Between =>
       lk[k] \in Locks /\ locked[lk[k]] /\ holder[lk[k]] = None
  /\ \A j, k \in Context :
       pc[j] \in Between /\ pc[k] \in Between /\ lk[j] = lk[k] => j = k

\* The locks a context holds, and the one it takes next, are in order.
OrderAt(k) ==
  /\ IsFiniteSet(held[k])
  /\ pc[k] \in Taking => /\ lk[k] \in Locks
                         /\ held[k] \cap Thread = {}
                         /\ lk[k] \in Lock => held[k] = {}
  /\ pc[k] \in Leaving => held[k] = {} /\ Base(k)
  /\ pc[k] \in {"back", "forkret"} => Base(k) /\ \E t \in Thread : held[k] = {t}

\* c->noff counts the locks of the context on c.
DepthAt(c, k) ==
  noff[c] = Cardinality(held[k]) + (IF pc[k] \in Counted THEN 1 ELSE 0)

\* No lock is held or counted.
Free(k) == held[k] = {} /\ pc[k] \notin Counted

\* Interrupts are off under a lock, in a handler and on the way to user space,
\* and otherwise as the context expects; while they are off for a lock,
\* c->intena remembers that.
IntrAt(c, k) ==
  /\ sie[c] => Free(k) /\ Base(k) /\ pc[k] \in {"run", "push_off", "user"}
  /\ pc[k] \in {"run", "push_off"} /\ held[k] = {} => sie[c] = Expected(k)
  /\ pc[k] = "push_off" /\ held[k] = {} => old[k] = Expected(k)
  /\ ~Free(k) /\ pc[k] \notin {"back", "forkret"} => intena[c] = Expected(k)
  /\ stvec[c] = "uservec" <=> pc[k] \in {"user", "sret", "usertrap"}
  /\ pc[k] # "user" => tp[c] = c
  /\ pc[k] \in {"sret", "user"} => hartid[k] = c

\* What has been interrupted had its interrupts on, and so held no lock.
FrameAt(k) ==
  ~Base(k) => /\ enabled[k] /\ frame[k].held = {}
              /\ frame[k].pc = "push_off" => frame[k].old /\ frame[k].lk \in Locks

\* The inductive invariant.
IInv == /\ TypeOK /\ OnInv /\ HolderInv
        /\ \A k \in Context : OrderAt(k) /\ FrameAt(k)
        /\ \A c \in CPU, k \in Context : on[c] = k => DepthAt(c, k) /\ IntrAt(c, k)
-----------------------------------------------------------------------------
(* What the actions have in common: a step of context k on CPU c touches    *)
(* no other context and no other CPU.                                      *)

\* Schedulers, threads and p->locks are among the contexts and the locks.
LEMMA Names ==
  /\ CPU \subseteq Context /\ Thread \subseteq Context
  /\ Lock \subseteq Locks /\ Thread \subseteq Locks
  BY Zenon DEF Context, Locks

\* Where a context that is on a CPU can be.
Running(k) == (IF k \in CPU THEN SchedulerPC ELSE ThreadPC) \ {"new", "switched"}

\* What the invariant says of the context k that runs on CPU c ...
At(c, k) == OrderAt(k) /\ FrameAt(k) /\ DepthAt(c, k) /\ IntrAt(c, k)

\* ... and what follows from it for c->noff.
HereInv(c, k) ==
  /\ on[c] = k /\ k \in Thread \cup {c}
  /\ \A d \in CPU : on[d] = k => d = c
  /\ pc[k] \in Running(k)
  /\ noff[c] = 0 <=> Free(k)
  /\ noff[c] = 1 <=> \/ held[k] = {} /\ pc[k] \in Counted
                     \/ pc[k] \notin Counted /\ Cardinality(held[k]) = 1
  /\ Cardinality(held[k]) \in Nat
  /\ OrderAt(k) /\ FrameAt(k) /\ DepthAt(c, k) /\ IntrAt(c, k)

\* All of HereInv follows from the invariant.
LEMMA Here ==
  ASSUME Distinct, IInv, NEW c \in CPU, NEW k \in Context, on[c] = k
  PROVE  HereInv(c, k)
<1>1. k \in Thread \cup {c} /\ \A d \in CPU : on[d] = k => d = c
  BY Zenon DEF IInv, OnInv
<1>2. pc[k] \in Running(k)
  BY <1>1 DEF IInv, OnInv, SchedulerPC, Taking, Between, Running, Distinct
<1>3. OrderAt(k) /\ FrameAt(k) /\ DepthAt(c, k) /\ IntrAt(c, k)
  BY Zenon DEF IInv
<1>4. Cardinality(held[k]) \in Nat /\ (Cardinality(held[k]) = 0 <=> held[k] = {})
  BY Zenon, <1>3, FS_CardinalityType, FS_EmptySet DEF OrderAt
<1>. QED  BY <1>1, <1>2, <1>3, <1>4 DEF HereInv, Free, DepthAt

\* What a step of context k on CPU c leaves alone.
Elsewhere(c, k) ==
  /\ on' = on
  /\ \A d \in CPU \ {c} :
       /\ noff'[d] = noff[d] /\ intena'[d] = intena[d]
       /\ sie'[d] = sie[d] /\ stvec'[d] = stvec[d] /\ tp'[d] = tp[d]
  /\ \A j \in Context \ {k} :
       /\ pc'[j] = pc[j] /\ held'[j] = held[j] /\ lk'[j] = lk[j]
       /\ old'[j] = old[j] /\ keep'[j] = keep[j] /\ hartid'[j] = hartid[j]
       /\ frame'[j] = frame[j] /\ enabled'[j] = enabled[j]

\* It preserves the invariant if it does so for k and c.
LEMMA LocalStep ==
  ASSUME Distinct, IInv, NEW c \in CPU, NEW k \in Context, HereInv(c, k),
         Elsewhere(c, k), TypeOK', HolderInv', pc'[k] \in Running(k), At(c, k)'
  PROVE  IInv'
<1>1. OnInv'
  BY Names DEF IInv, OnInv, HereInv, Elsewhere, Running, SchedulerPC, ThreadPC, Taking,
     Between, Leaving, Base, Expected, Distinct
<1>2. ASSUME NEW j \in Context PROVE OrderAt(j)' /\ FrameAt(j)'
  BY DEF IInv, Elsewhere, At, OrderAt, FrameAt, Base
<1>3. ASSUME NEW d \in CPU, NEW j \in Context, on'[d] = j
      PROVE  DepthAt(d, j)' /\ IntrAt(d, j)'
  <2>1. CASE d = c
    BY Zenon, <1>3, <2>1 DEF HereInv, Elsewhere, At
  <2>2. CASE d # c
    <3>1. j # k /\ DepthAt(d, j) /\ IntrAt(d, j)
      BY Zenon, <1>3, <2>2 DEF IInv, HereInv, Elsewhere
    <3>. QED  BY Zenon, <2>2, <3>1 DEF Elsewhere, DepthAt, IntrAt, Expected, Base, Free
  <2>. QED  BY Zenon, <2>1, <2>2
<1>. QED  BY Zenon, <1>1, <1>2, <1>3 DEF IInv

\* The locks of the context on CPU c name c.
LEMMA HolderOf ==
  ASSUME HolderInv, NEW c \in CPU, on[c] \in Context, NEW l \in Locks, l \in held[on[c]]
  PROVE  locked[l] /\ holder[l] = c
  BY DEF HolderInv

\* A step that neither takes nor releases a lock disturbs no holder.
LEMMA HolderSame ==
  ASSUME HolderInv, NEW c \in CPU, NEW k \in Context, Elsewhere(c, k),
         pc[k] \notin Between, pc'[k] \notin Between, UNCHANGED <<locked, holder, held>>
  PROVE  HolderInv'
  BY DEF HolderInv, Elsewhere
-----------------------------------------------------------------------------
(* acquire *)

\* acquire(), up to the read of the interrupt flag by push_off().
LEMMA AcquireIInv ==
  ASSUME Distinct, IInv, NEW c \in CPU, NEW k \in Context, NEW l \in Locks,
         acquire(c, k, l)
  PROVE  IInv'
<1>1. HereInv(c, k) /\ pc[k] = "run" /\ MayTake(k, l)
  BY Zenon, Here DEF acquire, Runs
<1>2. TypeOK' /\ Elsewhere(c, k)
  BY Zenon, Names DEF IInv, TypeOK, Elsewhere, acquire, Goto, lock, cpu, regs, SchedulerPC, Taking
<1>3. /\ pc'[k] = "push_off" /\ lk'[k] = l /\ old'[k] = sie[c]
      /\ UNCHANGED <<lock, cpu, regs, held, hartid, frame, enabled>>
  BY Zenon DEF IInv, TypeOK, acquire, Goto
<1>4. HolderInv'
  BY Zenon, <1>1, <1>2, <1>3, HolderSame DEF IInv, Between, lock
<1>5. At(c, k)' /\ pc'[k] \in Running(k)
  BY Zenon, <1>1, <1>3 DEF HereInv, At, OrderAt, FrameAt, DepthAt, IntrAt, Free, Expected, Base,
     Running, SchedulerPC, ThreadPC, MayTake, Taking, Counted, Leaving, lock, cpu, regs
<1>. QED  BY Zenon, <1>1, <1>2, <1>4, <1>5, LocalStep

\* The rest of push_off(): the first lock saves the flag in c->intena.
LEMMA PushOffIInv ==
  ASSUME Distinct, IInv, NEW c \in CPU, NEW k \in Context, push_off(c, k)
  PROVE  IInv'
<1>1. HereInv(c, k) /\ pc[k] = "push_off" /\ mycpu(c) = c
  BY Here DEF push_off, Runs, HereInv, IntrAt, mycpu
<1>2. TypeOK' /\ Elsewhere(c, k)
  BY <1>1, Names DEF IInv, TypeOK, Elsewhere, push_off, Goto, lock, SchedulerPC, Taking
<1>3. /\ pc'[k] = "holding" /\ sie'[c] = FALSE /\ noff'[c] = noff[c] + 1
      /\ intena'[c] = (IF noff[c] = 0 THEN old[k] ELSE intena[c])
      /\ UNCHANGED <<lock, stvec, tp, held, lk, hartid, frame, enabled>>
  BY Zenon, <1>1 DEF IInv, TypeOK, push_off, Goto
<1>4. HolderInv'
  BY Zenon, <1>1, <1>2, <1>3, HolderSame DEF IInv, Between, lock
<1>5. OrderAt(k)' /\ FrameAt(k)' /\ DepthAt(c, k)' /\ pc'[k] \in Running(k)
  BY <1>1, <1>3 DEF HereInv, OrderAt, FrameAt, DepthAt, Base, Running, SchedulerPC, ThreadPC,
     Taking, Counted, Leaving
<1>6. IntrAt(c, k)'
  BY Zenon, <1>1, <1>3 DEF HereInv, IntrAt, Free, Expected, Base, Counted
<1>. QED  BY Zenon, <1>1, <1>2, <1>4, <1>5, <1>6, LocalStep DEF At

\* holding(lk) cannot find this CPU in lk->cpu: its context would hold a lock
\* that it is about to take.
LEMMA HoldingIInv ==
  ASSUME Distinct, IInv, NEW c \in CPU, NEW k \in Context, holding(c, k)
  PROVE  IInv'
<1>1. HereInv(c, k) /\ pc[k] \in {"holding", "compare"} /\ mycpu(c) = c
  BY Zenon, Here DEF holding, Runs, HereInv, IntrAt, mycpu
<1>2. PICK l \in {"compare", "spin"} : Goto(k, l)
  <2>1. lk[k] \in Locks /\ lk[k] \notin held[k]
    BY Zenon, <1>1 DEF HereInv, OrderAt, Taking, Locks
  <2>2. holder[lk[k]] # c
    BY Zenon, <1>1, <2>1 DEF IInv, HolderInv, HereInv
  <2>. QED  BY Zenon, <1>1, <2>2 DEF holding
<1>3. TypeOK' /\ Elsewhere(c, k)
  BY Zenon, <1>2, Names DEF IInv, TypeOK, Elsewhere, holding, Goto, lock, cpu, regs, SchedulerPC, Taking
<1>4. /\ pc'[k] \in {"compare", "spin"}
      /\ UNCHANGED <<lock, cpu, regs, held, lk, hartid, frame, enabled>>
  BY Zenon, <1>2 DEF IInv, TypeOK, holding, Goto
<1>5. HolderInv'
  BY Zenon, <1>1, <1>3, <1>4, HolderSame DEF IInv, Between, lock
<1>6. At(c, k)' /\ pc'[k] \in Running(k)
  BY Zenon, <1>1, <1>4 DEF HereInv, At, OrderAt, FrameAt, DepthAt, IntrAt, Free, Expected, Base,
     Running, SchedulerPC, ThreadPC, Taking, Counted, Leaving, cpu, regs
<1>. QED  BY Zenon, <1>1, <1>3, <1>5, <1>6, LocalStep

\* The swap that finds lk->locked clear: nobody is between it and lk->cpu.
LEMMA TestAndSetIInv ==
  ASSUME Distinct, IInv, NEW c \in CPU, NEW k \in Context, test_and_set(c, k)
  PROVE  IInv'
<1>1. HereInv(c, k) /\ pc[k] = "spin" /\ lk[k] \in Locks /\ ~locked[lk[k]]
  BY Here DEF test_and_set, Runs, HereInv, OrderAt, Taking
<1>2. TypeOK' /\ Elsewhere(c, k)
  BY Zenon, Names DEF IInv, TypeOK, Elsewhere, test_and_set, Goto, cpu, regs, SchedulerPC, Taking
<1>3. /\ pc'[k] = "set_cpu" /\ locked' = [locked EXCEPT ![lk[k]] = TRUE]
      /\ UNCHANGED <<holder, cpu, regs, held, lk, hartid, frame, enabled>>
  BY Zenon DEF IInv, TypeOK, test_and_set, Goto
<1>4. HolderInv'
  <2>1. holder[lk[k]] = None
    BY <1>1 DEF IInv, TypeOK, HolderInv
  <2>2. locked'[lk[k]] /\ \A l \in Locks : locked[l] => locked'[l]
    BY Zenon, <1>1, <1>3 DEF IInv, TypeOK
  <2>3. \A j \in Context : pc[j] \in Between => lk[j] # lk[k]
    BY Zenon, <1>1 DEF IInv, HolderInv
  <2>. QED  BY <1>1, <1>2, <1>3, <2>1, <2>2, <2>3 DEF IInv, HolderInv, Elsewhere
<1>5. At(c, k)' /\ pc'[k] \in Running(k)
  BY Zenon, <1>1, <1>3 DEF HereInv, At, OrderAt, FrameAt, DepthAt, IntrAt, Free, Expected, Base,
     Running, SchedulerPC, ThreadPC, Taking, Counted, Leaving, cpu, regs
<1>. QED  BY Zenon, <1>1, <1>2, <1>4, <1>5, LocalStep

\* The end of acquire(): one more lock is held.
LEMMA SetCpuIInv ==
  ASSUME Distinct, IInv, NEW c \in CPU, NEW k \in Context, set_cpu(c, k)
  PROVE  IInv'
<1>1. /\ HereInv(c, k) /\ pc[k] = "set_cpu" /\ mycpu(c) = c
      /\ lk[k] \in Locks /\ lk[k] \notin held[k]
  <2>1. HereInv(c, k) /\ pc[k] = "set_cpu"
    BY Zenon, Here DEF set_cpu, Runs
  <2>. QED  BY Zenon, <2>1 DEF HereInv, IntrAt, OrderAt, mycpu, Taking, Locks
<1>2. /\ IsFiniteSet(held[k] \cup {lk[k]})
      /\ Cardinality(held[k] \cup {lk[k]}) = Cardinality(held[k]) + 1
  BY Zenon, <1>1, FS_AddElement DEF HereInv, OrderAt
<1>3. TypeOK' /\ Elsewhere(c, k)
  BY Zenon, <1>1, Names DEF IInv, TypeOK, Elsewhere, set_cpu, Goto, cpu, regs, SchedulerPC
<1>4. /\ pc'[k] = "run" /\ held'[k] = held[k] \cup {lk[k]}
      /\ holder' = [holder EXCEPT ![lk[k]] = c]
      /\ UNCHANGED <<locked, cpu, regs, hartid, frame, enabled>>
  BY Zenon, <1>1 DEF IInv, TypeOK, set_cpu, Goto
<1>5. HolderInv'
  <2>1. locked[lk[k]] /\ holder[lk[k]] = None
    BY Zenon, <1>1 DEF IInv, HolderInv, Between
  <2>2. \A j \in Context : pc[j] \in Between /\ lk[j] = lk[k] => j = k
    BY Zenon, <1>1 DEF IInv, HolderInv, Between
  <2>3. \A d \in CPU, j \in Context : on[d] = j => lk[k] \notin held[j]
    BY <1>1, <2>1 DEF IInv, HolderInv, Distinct
  <2>4. holder'[lk[k]] = c /\ \A l \in Locks \ {lk[k]} : holder'[l] = holder[l]
    BY Zenon, <1>1, <1>4 DEF IInv, TypeOK
  <2>5. pc'[k] \notin Between
    BY Zenon, <1>4 DEF Between
  <2>. USE <1>1, <1>3, <1>4, <2>4, <2>5 DEF IInv, HolderInv, HereInv, Elsewhere
  <2>6. \A d \in CPU, j \in Context, l \in Locks :
          on'[d] = j /\ l \in held'[j] => locked'[l] /\ holder'[l] = d
    BY <2>1, <2>3
  <2>7. \A d \in CPU, l \in Locks : holder'[l] = d => l \in held'[on'[d]]
    BY <2>1 DEF TypeOK
  <2>8. \A j \in Context : pc'[j] \in Between =>
          lk'[j] \in Locks /\ locked'[lk'[j]] /\ holder'[lk'[j]] = None
    BY <2>2
  <2>. QED  BY <2>6, <2>7, <2>8
<1>6. At(c, k)' /\ pc'[k] \in Running(k)
  BY <1>1, <1>2, <1>4 DEF HereInv, At, OrderAt, FrameAt, DepthAt, IntrAt, Free, Expected, Base,
     Running, SchedulerPC, ThreadPC, Taking, Counted, Leaving, cpu, regs
<1>. QED  BY Zenon, <1>1, <1>3, <1>5, <1>6, LocalStep
-----------------------------------------------------------------------------
(* release *)

\* release(), up to the clearing of lk->cpu; its holding() check succeeds.
LEMMA ReleaseIInv ==
  ASSUME Distinct, IInv, NEW c \in CPU, NEW k \in Context, NEW l \in Locks,
         release(c, k, l)
  PROVE  IInv'
<1>1. /\ HereInv(c, k) /\ pc[k] \in {"run", "back", "forkret"} /\ l \in held[k]
      /\ mycpu(c) = c /\ locked[l] /\ holder[l] = c
  <2>1. HereInv(c, k) /\ pc[k] \in {"run", "back", "forkret"} /\ l \in held[k]
    BY Zenon, Here DEF release
  <2>2. locked[l] /\ holder[l] = c
    BY Zenon, <2>1 DEF IInv, HolderInv, HereInv
  <2>. QED  BY Zenon, <2>1, <2>2 DEF HereInv, IntrAt, mycpu
<1>2. IsFiniteSet(held[k] \ {l}) /\ Cardinality(held[k] \ {l}) = Cardinality(held[k]) - 1
  <2>1. IsFiniteSet(held[k])
    BY Zenon, <1>1 DEF HereInv, OrderAt
  <2>. QED  BY Zenon, <1>1, <2>1, FS_RemoveElement
<1>3. /\ Goto(k, "unlock") /\ holder' = [holder EXCEPT ![l] = None]
      /\ lk' = [lk EXCEPT ![k] = l] /\ held' = [held EXCEPT ![k] = @ \ {l}]
      /\ enabled' = IF pc[k] = "run" THEN enabled ELSE [enabled EXCEPT ![k] = intena[c]]
      /\ UNCHANGED <<locked, cpu, regs, on, old, keep, hartid, frame>>
  BY Zenon, <1>1 DEF release
<1>4. TypeOK' /\ Elsewhere(c, k)
  <2>1. enabled' \in [Context -> BOOLEAN] /\ \A j \in Context \ {k} : enabled'[j] = enabled[j]
    BY Zenon, <1>3 DEF IInv, TypeOK
  <2>2. TypeOK'
    BY Zenon, <1>3, <2>1, Names DEF IInv, TypeOK, Goto, cpu, regs, SchedulerPC, Between
  <2>3. Elsewhere(c, k)
    BY Zenon, <1>3, <2>1 DEF IInv, TypeOK, Elsewhere, Goto, cpu, regs
  <2>. QED  BY Zenon, <2>2, <2>3
<1>5. /\ pc'[k] = "unlock" /\ held'[k] = held[k] \ {l} /\ lk'[k] = l
      /\ enabled'[k] = (IF pc[k] = "run" THEN enabled[k] ELSE intena[c])
  BY Zenon, <1>3 DEF IInv, TypeOK, Goto
<1>6. HolderInv'
  <2>1. holder'[l] = None /\ \A m \in Locks \ {l} : holder'[m] = holder[m]
    BY Zenon, <1>3 DEF IInv, TypeOK
  <2>2. on' = on /\ \A j \in Context \ {k} : held'[j] = held[j] /\ pc'[j] = pc[j] /\ lk'[j] = lk[j]
    BY Zenon, <1>4 DEF Elsewhere
  <2>3. on[c] = k /\ \A d \in CPU : on[d] = k => d = c
    BY Zenon, <1>1 DEF HereInv
  <2>4. \A d \in CPU, j \in Context, m \in Locks :
          on'[d] = j /\ m \in held'[j] => locked'[m] /\ holder'[m] = d
    BY <1>1, <1>3, <1>5, <2>1, <2>2, <2>3 DEF IInv, HolderInv
  <2>5. \A d \in CPU, m \in Locks : holder'[m] = d => m \in held'[on'[d]]
    BY <1>5, <2>1, <2>2, <2>3 DEF IInv, TypeOK, HolderInv, Distinct
  <2>6. \A j \in Context : pc'[j] \in Between =>
          lk'[j] \in Locks /\ locked'[lk'[j]] /\ holder'[lk'[j]] = None
    BY <1>1, <1>3, <1>5, <2>1, <2>2 DEF IInv, HolderInv
  <2>7. \A i, j \in Context :
          pc'[i] \in Between /\ pc'[j] \in Between /\ lk'[i] = lk'[j] => i = j
    <3>1. HolderInv /\ on[c] \in Context /\ l \in held[on[c]] /\ c # None
      BY Zenon, <1>1, <2>3 DEF IInv, Distinct
    <3>2. holder[l] # None
      BY Zenon, <3>1, HolderOf
    <3>3. \A j \in Context : pc[j] \in Between => lk[j] # l
      BY Zenon, <3>1, <3>2 DEF HolderInv
    <3>4. \A i, j \in Context \ {k} :
            pc[i] \in Between /\ pc[j] \in Between /\ lk[i] = lk[j] => i = j
      BY Zenon, <3>1 DEF HolderInv
    <3>. QED  BY Zenon, <1>5, <2>2, <3>3, <3>4
  <2>. QED  BY Zenon, <2>4, <2>5, <2>6, <2>7 DEF HolderInv
<1>7. OrderAt(k)' /\ FrameAt(k)' /\ DepthAt(c, k)' /\ pc'[k] \in Running(k)
  <2>1. OrderAt(k)' /\ FrameAt(k)'
    BY Zenon, <1>1, <1>2, <1>3, <1>5 DEF HereInv, OrderAt, FrameAt, Base, Taking, Leaving
  <2>2. DepthAt(c, k)'
    <3>1. pc[k] \notin Counted /\ pc'[k] \in Counted /\ noff'[c] = noff[c]
      BY Zenon, <1>1, <1>3, <1>5 DEF Counted, cpu
    <3>0. Cardinality(held[k]) \in Nat /\ DepthAt(c, k)
      BY Zenon, <1>1 DEF HereInv
    <3>2. /\ noff[c] = Cardinality(held[k]) /\ Cardinality(held[k]) \in Nat
          /\ Cardinality(held'[k]) = Cardinality(held[k]) - 1
      BY <1>2, <1>5, <3>0, <3>1 DEF DepthAt
    <3>. QED  BY <3>1, <3>2 DEF DepthAt
  <2>3. pc'[k] \in Running(k)
    BY Zenon, <1>5 DEF Running, SchedulerPC, ThreadPC, Between
  <2>. QED  BY Zenon, <2>1, <2>2, <2>3
<1>8. IntrAt(c, k)'
  <2>1. ~sie[c] /\ frame'[k] = frame[k]
    BY Zenon, <1>1, <1>3 DEF HereInv, IntrAt, Free
  <2>2. intena[c] = Expected(k)'
    <3>1. CASE pc[k] = "run"
      <4>1. intena[c] = Expected(k) /\ enabled'[k] = enabled[k]
        BY Zenon, <1>1, <1>5, <3>1 DEF HereInv, IntrAt, Free
      <4>. QED  BY Zenon, <2>1, <4>1 DEF Expected, Base
    <3>2. CASE pc[k] # "run"
      <4>1. Base(k) /\ enabled'[k] = intena[c] /\ intena[c] \in BOOLEAN
        BY Zenon, <1>1, <1>5, <3>2 DEF HereInv, OrderAt, IInv, TypeOK
      <4>. QED  BY Zenon, <2>1, <4>1 DEF Expected, Base
    <3>. QED  BY Zenon, <3>1, <3>2
  <2>. QED  BY Zenon, <1>1, <1>3, <1>5, <2>1, <2>2 DEF HereInv, IntrAt, Free, Counted, cpu, regs
<1>. QED  BY Zenon, <1>1, <1>4, <1>6, <1>7, <1>8, LocalStep DEF At

\* The store that frees the lock.
LEMMA UnlockIInv ==
  ASSUME Distinct, IInv, NEW c \in CPU, NEW k \in Context, unlock(c, k)
  PROVE  IInv'
<1>1. HereInv(c, k) /\ pc[k] = "unlock" /\ lk[k] \in Locks /\ holder[lk[k]] = None
  BY Zenon, Here DEF IInv, HolderInv, Between, unlock, Runs
<1>2. TypeOK' /\ Elsewhere(c, k)
  BY Zenon, <1>1, Names DEF IInv, TypeOK, Elsewhere, unlock, Goto, cpu, regs, SchedulerPC
<1>3. /\ pc'[k] = "pop_off" /\ locked' = [locked EXCEPT ![lk[k]] = FALSE]
      /\ UNCHANGED <<holder, cpu, regs, held, hartid, frame, enabled>>
  BY Zenon DEF IInv, TypeOK, unlock, Goto
<1>4. HolderInv'
  <2>1. \A j \in Context \ {k} : pc[j] \in Between => lk[j] # lk[k]
    BY Zenon, <1>1 DEF IInv, HolderInv, Between
  <2>2. \A d \in CPU, j \in Context : on[d] = j => lk[k] \notin held[j]
    BY <1>1 DEF IInv, HolderInv, Distinct
  <2>3. pc'[k] \notin Between /\ \A l \in Locks \ {lk[k]} : locked'[l] = locked[l]
    BY Zenon, <1>1, <1>3 DEF IInv, TypeOK, Between
  <2>4. on' = on /\ \A j \in Context \ {k} : pc'[j] = pc[j] /\ lk'[j] = lk[j]
    BY Zenon, <1>2 DEF Elsewhere
  <2>5. HolderInv /\ UNCHANGED <<holder, held>>
    BY Zenon, <1>3 DEF IInv
  <2>6. ASSUME NEW d \in CPU, NEW j \in Context, NEW l \in Locks, on'[d] = j, l \in held'[j]
        PROVE  locked'[l] /\ holder'[l] = d
    <3>1. on[d] = j /\ l \in held[j] /\ l # lk[k]
      BY Zenon, <2>2, <2>4, <2>5, <2>6
    <3>2. locked[l] /\ holder[l] = d
      BY Zenon, <2>5, <3>1, HolderOf
    <3>. QED  BY Zenon, <2>3, <2>5, <3>1, <3>2
  <2>7. \A d \in CPU, l \in Locks : holder'[l] = d => l \in held'[on'[d]]
    BY Zenon, <2>4, <2>5 DEF HolderInv
  <2>8. ASSUME NEW j \in Context, pc'[j] \in Between
        PROVE  lk'[j] \in Locks /\ locked'[lk'[j]] /\ holder'[lk'[j]] = None
    <3>1. j # k /\ lk'[j] = lk[j] /\ pc[j] \in Between
      BY Zenon, <2>3, <2>4, <2>8
    <3>. QED  BY Zenon, <2>1, <2>3, <2>5, <3>1 DEF HolderInv
  <2>9. \A i, j \in Context :
          pc'[i] \in Between /\ pc'[j] \in Between /\ lk'[i] = lk'[j] => i = j
    BY Zenon, <2>3, <2>4, <2>5 DEF HolderInv
  <2>. QED  BY Zenon, <2>6, <2>7, <2>8, <2>9 DEF HolderInv
<1>5. At(c, k)' /\ pc'[k] \in Running(k)
  BY Zenon, <1>1, <1>3 DEF HereInv, At, OrderAt, FrameAt, DepthAt, IntrAt, Free, Expected, Base,
     Running, SchedulerPC, ThreadPC, Taking, Counted, Leaving, cpu, regs
<1>. QED  BY Zenon, <1>1, <1>2, <1>4, <1>5, LocalStep

\* pop_off() finds interrupts off and noff positive; the last lock gives back
\* the interrupts the first one took.
LEMMA PopOffIInv ==
  ASSUME Distinct, IInv, NEW c \in CPU, NEW k \in Context, pop_off(c, k)
  PROVE  IInv'
<1>1. HereInv(c, k) /\ pc[k] = "pop_off" /\ mycpu(c) = c /\ ~sie[c] /\ ~(noff[c] < 1)
  <2>1. HereInv(c, k) /\ pc[k] = "pop_off"
    BY Zenon, Here DEF pop_off, Runs
  <2>. QED  BY <2>1 DEF IInv, TypeOK, HereInv, IntrAt, Free, Counted, mycpu
<1>2. /\ Goto(k, "run") /\ noff' = [noff EXCEPT ![c] = @ - 1]
      /\ sie' = [sie EXCEPT ![c] = noff[c] = 1 /\ intena[c]]
      /\ UNCHANGED <<lock, intena, stvec, tp, on, held, lk, old, keep, hartid, frame, enabled>>
  BY Zenon, <1>1 DEF pop_off
<1>3. TypeOK' /\ Elsewhere(c, k)
  BY <1>1, <1>2, Names DEF IInv, TypeOK, Elsewhere, Goto, lock, SchedulerPC
<1>4. pc'[k] = "run" /\ noff'[c] = noff[c] - 1 /\ sie'[c] = (noff[c] = 1 /\ intena[c])
  BY Zenon, <1>2 DEF IInv, TypeOK, Goto
<1>5. HolderInv'
  BY Zenon, <1>1, <1>2, <1>3, <1>4, HolderSame DEF IInv, Between, lock
<1>6. OrderAt(k)' /\ FrameAt(k)' /\ DepthAt(c, k)' /\ pc'[k] \in Running(k)
  <2>1. OrderAt(k)' /\ FrameAt(k)' /\ pc'[k] \in Running(k)
    BY Zenon, <1>1, <1>2, <1>4 DEF HereInv, OrderAt, FrameAt, Base, Running, SchedulerPC,
       ThreadPC, Taking, Leaving
  <2>2. /\ noff[c] = Cardinality(held[k]) + 1 /\ Cardinality(held[k]) \in Nat
        /\ held'[k] = held[k] /\ pc'[k] \notin Counted
    BY Zenon, <1>1, <1>2, <1>4 DEF HereInv, DepthAt, Counted
  <2>3. DepthAt(c, k)'
    BY <1>4, <2>2 DEF DepthAt
  <2>. QED  BY Zenon, <2>1, <2>3
<1>7. IntrAt(c, k)'
  BY Zenon, <1>1, <1>2, <1>4 DEF HereInv, IntrAt, Free, Expected, Base, Counted
<1>. QED  BY Zenon, <1>1, <1>3, <1>5, <1>6, <1>7, LocalStep DEF At
-----------------------------------------------------------------------------
(* Traps *)

\* A trap from user space goes to uservec, which finds the CPU in the trapframe.
LEMMA TrapIInv ==
  ASSUME Distinct, IInv, NEW c \in CPU, NEW k \in Context, trap(c, k)
  PROVE  IInv'
<1>1. HereInv(c, k) /\ pc[k] = "user" /\ stvec[c] = "uservec" /\ hartid[k] = c /\ k \in Thread
  <2>1. HereInv(c, k) /\ pc[k] = "user"
    BY Zenon, Here DEF trap, Runs
  <2>. QED  BY Zenon, <2>1 DEF HereInv, IntrAt, Running, SchedulerPC, Taking, Between
<1>2. TypeOK' /\ Elsewhere(c, k)
  BY Zenon, <1>1, Names DEF IInv, TypeOK, Elsewhere, trap, Goto, lock, cpu, ThreadPC, Leaving
<1>3. /\ pc'[k] = "usertrap" /\ sie'[c] = FALSE /\ tp'[c] = c
      /\ UNCHANGED <<lock, cpu, stvec, held, lk, frame, enabled>>
  BY Zenon, <1>1 DEF IInv, TypeOK, trap, Goto
<1>4. HolderInv'
  BY Zenon, <1>1, <1>2, <1>3, HolderSame DEF IInv, Between, lock
<1>5. At(c, k)' /\ pc'[k] \in Running(k)
  BY Zenon, <1>1, <1>3 DEF HereInv, At, OrderAt, FrameAt, DepthAt, IntrAt, Free, Expected, Base,
     Running, ThreadPC, Taking, Counted, Leaving, cpu, Distinct
<1>. QED  BY Zenon, <1>1, <1>2, <1>4, <1>5, LocalStep

\* usertrap() may turn interrupts on once traps go to kernelvec.
LEMMA UsertrapIInv ==
  ASSUME Distinct, IInv, NEW c \in CPU, NEW k \in Context, NEW syscall \in BOOLEAN,
         usertrap(c, k, syscall)
  PROVE  IInv'
<1>1. HereInv(c, k) /\ pc[k] = "usertrap" /\ held[k] = {} /\ Base(k) /\ k \in Thread
  <2>1. HereInv(c, k) /\ pc[k] = "usertrap"
    BY Zenon, Here DEF usertrap, Runs
  <2>. QED  BY Zenon, <2>1 DEF HereInv, OrderAt, Leaving, Running, SchedulerPC, Taking, Between
<1>2. TypeOK' /\ Elsewhere(c, k)
  BY Zenon, <1>1, Names DEF IInv, TypeOK, Elsewhere, usertrap, Goto, lock, cpu, ThreadPC
<1>3. /\ pc'[k] = "run" /\ sie'[c] = syscall /\ enabled'[k] = syscall /\ stvec'[c] = "kernelvec"
      /\ UNCHANGED <<lock, cpu, tp, held, lk, hartid, frame>>
  BY Zenon, <1>1 DEF IInv, TypeOK, usertrap, Goto
<1>4. HolderInv'
  BY Zenon, <1>1, <1>2, <1>3, HolderSame DEF IInv, Between, lock
<1>5. At(c, k)' /\ pc'[k] \in Running(k)
  BY Zenon, <1>1, <1>3 DEF HereInv, At, OrderAt, FrameAt, DepthAt, IntrAt, Free, Expected, Base,
     Running, ThreadPC, Taking, Counted, Leaving, cpu, Distinct
<1>. QED  BY Zenon, <1>1, <1>2, <1>4, <1>5, LocalStep

\* usertrapret() turns interrupts off before it touches stvec.
LEMMA UsertrapretIInv ==
  ASSUME Distinct, IInv, NEW c \in CPU, NEW k \in Context, usertrapret(c, k)
  PROVE  IInv'
<1>1. HereInv(c, k) /\ pc[k] = "run" /\ held[k] = {} /\ Base(k) /\ k \in Thread
  BY Zenon, Here DEF usertrapret, Runs
<1>2. TypeOK' /\ Elsewhere(c, k)
  BY Zenon, <1>1, Names DEF IInv, TypeOK, Elsewhere, usertrapret, Goto, lock, cpu, ThreadPC, Leaving
<1>3. /\ pc'[k] = "w_stvec" /\ sie'[c] = FALSE /\ enabled'[k] = FALSE
      /\ UNCHANGED <<lock, cpu, stvec, tp, held, lk, hartid, frame>>
  BY Zenon, <1>1 DEF IInv, TypeOK, usertrapret, Goto
<1>4. HolderInv'
  BY Zenon, <1>1, <1>2, <1>3, HolderSame DEF IInv, Between, lock
<1>5. At(c, k)' /\ pc'[k] \in Running(k)
  BY Zenon, <1>1, <1>3 DEF HereInv, At, OrderAt, FrameAt, DepthAt, IntrAt, Free, Expected, Base,
     Running, ThreadPC, Taking, Counted, Leaving, cpu, Distinct
<1>. QED  BY Zenon, <1>1, <1>2, <1>4, <1>5, LocalStep

\* It saves the CPU in the trapframe.
LEMMA WStvecIInv ==
  ASSUME Distinct, IInv, NEW c \in CPU, NEW k \in Context, w_stvec(c, k)
  PROVE  IInv'
<1>1. /\ HereInv(c, k) /\ pc[k] = "w_stvec" /\ held[k] = {} /\ Base(k) /\ k \in Thread
      /\ tp[c] = c
  <2>1. HereInv(c, k) /\ pc[k] = "w_stvec"
    BY Zenon, Here DEF w_stvec, Runs
  <2>. QED  BY Zenon, <2>1 DEF HereInv, IntrAt, OrderAt, Leaving, Running, SchedulerPC, Taking, Between
<1>2. TypeOK' /\ Elsewhere(c, k)
  BY Zenon, <1>1, Names DEF IInv, TypeOK, Elsewhere, w_stvec, Goto, lock, cpu, ThreadPC, Leaving
<1>3. /\ pc'[k] = "sret" /\ stvec'[c] = "uservec" /\ hartid'[k] = c
      /\ UNCHANGED <<lock, cpu, sie, tp, held, lk, frame, enabled>>
  BY Zenon, <1>1 DEF IInv, TypeOK, w_stvec, Goto
<1>4. HolderInv'
  BY Zenon, <1>1, <1>2, <1>3, HolderSame DEF IInv, Between, lock
<1>5. At(c, k)' /\ pc'[k] \in Running(k)
  BY Zenon, <1>1, <1>3 DEF HereInv, At, OrderAt, FrameAt, DepthAt, IntrAt, Free, Expected, Base,
     Running, ThreadPC, Taking, Counted, Leaving, cpu, Distinct
<1>. QED  BY Zenon, <1>1, <1>2, <1>4, <1>5, LocalStep

\* The return to user space, with interrupts on.
LEMMA SretIInv ==
  ASSUME Distinct, IInv, NEW c \in CPU, NEW k \in Context, sret(c, k)
  PROVE  IInv'
<1>1. HereInv(c, k) /\ pc[k] = "sret" /\ held[k] = {} /\ Base(k) /\ k \in Thread
  <2>1. HereInv(c, k) /\ pc[k] = "sret"
    BY Zenon, Here DEF sret, Runs
  <2>. QED  BY Zenon, <2>1 DEF HereInv, OrderAt, Leaving, Running, SchedulerPC, Taking, Between
<1>2. TypeOK' /\ Elsewhere(c, k)
  BY Zenon, <1>1, Names DEF IInv, TypeOK, Elsewhere, sret, Goto, lock, cpu, ThreadPC, Leaving
<1>3. /\ pc'[k] = "user" /\ sie'[c] = TRUE
      /\ UNCHANGED <<lock, cpu, stvec, held, lk, hartid, frame, enabled>>
  BY Zenon, <1>1 DEF IInv, TypeOK, sret, Goto
<1>4. HolderInv'
  BY Zenon, <1>1, <1>2, <1>3, HolderSame DEF IInv, Between, lock
<1>5. At(c, k)' /\ pc'[k] \in Running(k)
  BY Zenon, <1>1, <1>3 DEF HereInv, At, OrderAt, FrameAt, DepthAt, IntrAt, Free, Expected, Base,
     Running, ThreadPC, Taking, Counted, Leaving, cpu, Distinct
<1>. QED  BY Zenon, <1>1, <1>2, <1>4, <1>5, LocalStep

\* An interrupt finds no lock held: locks turn interrupts off.
LEMMA KerneltrapIInv ==
  ASSUME Distinct, IInv, NEW c \in CPU, NEW k \in Context, kerneltrap(c, k)
  PROVE  IInv'
<1>1. /\ HereInv(c, k) /\ pc[k] \in {"run", "push_off"} /\ held[k] = {}
      /\ Expected(k) /\ stvec[c] = "kernelvec"
      /\ pc[k] = "push_off" => old[k] /\ lk[k] \in Locks
  <2>1. HereInv(c, k) /\ sie[c] /\ pc[k] # "user"
    BY Zenon, Here DEF kerneltrap
  <2>2. /\ pc[k] \in {"run", "push_off"} /\ held[k] = {} /\ Expected(k)
        /\ pc[k] = "push_off" => old[k]
    BY Zenon, <2>1 DEF HereInv, IntrAt, Free
  <2>3. pc[k] = "push_off" => lk[k] \in Locks
    BY Zenon, <2>1 DEF HereInv, OrderAt, Taking
  <2>4. stvec[c] = "kernelvec"
    BY <2>1, <2>2 DEF HereInv, IntrAt, IInv, TypeOK
  <2>. QED  BY Zenon, <2>1, <2>2, <2>3, <2>4
<1>2. /\ frame' = [frame EXCEPT ![k] = [pc |-> pc[k], lk |-> lk[k], old |-> old[k],
                                        held |-> {}]]
      /\ UNCHANGED held
      /\ lk' = [lk EXCEPT ![k] = None] /\ old' = [old EXCEPT ![k] = FALSE]
      /\ sie' = [sie EXCEPT ![c] = FALSE] /\ Goto(k, "run")
      /\ UNCHANGED <<lock, cpu, stvec, tp, on, keep, hartid, enabled>>
  BY Zenon, <1>1 DEF kerneltrap, IInv, TypeOK
<1>3. TypeOK' /\ Elsewhere(c, k)
  BY Zenon, <1>1, <1>2, Names DEF IInv, TypeOK, Elsewhere, Goto, lock, cpu, SchedulerPC, Frame
<1>4. /\ pc'[k] = "run" /\ sie'[c] = FALSE /\ ~Base(k)' /\ Expected(k)' = FALSE
      /\ frame'[k] = [pc |-> pc[k], lk |-> lk[k], old |-> old[k], held |-> {}]
  BY Zenon, <1>2 DEF IInv, TypeOK, Goto, Base, Expected, NoFrame
<1>5. HolderInv'
  BY Zenon, <1>1, <1>2, <1>3, <1>4, HolderSame DEF IInv, Between, lock
<1>6. OrderAt(k)' /\ FrameAt(k)' /\ DepthAt(c, k)' /\ pc'[k] \in Running(k)
  <2>1. OrderAt(k)' /\ pc'[k] \in Running(k)
    BY Zenon, <1>1, <1>2, <1>4 DEF HereInv, OrderAt, Running, SchedulerPC, ThreadPC, Taking, Leaving
  <2>2. FrameAt(k)'
    <3>0. enabled'[k]
      BY Zenon, <1>1, <1>2 DEF Expected
    <3>1. /\ frame'[k].held = {} /\ frame'[k].pc = pc[k] /\ frame'[k].old = old[k]
          /\ frame'[k].lk = lk[k] /\ enabled'[k]
      BY <1>4, <3>0
    <3>. QED  BY Zenon, <1>1, <3>1 DEF FrameAt
  <2>3. DepthAt(c, k)'
    BY Zenon, <1>1, <1>2, <1>4 DEF HereInv, DepthAt, Counted, cpu
  <2>. QED  BY Zenon, <2>1, <2>2, <2>3
<1>7. IntrAt(c, k)'
  BY Zenon, <1>1, <1>2, <1>4 DEF HereInv, IntrAt, Free, Counted, cpu
<1>. QED  BY Zenon, <1>1, <1>3, <1>5, <1>6, <1>7, LocalStep DEF At

\* The return from it gives back what it interrupted, on whatever CPU.
LEMMA KerneltrapretIInv ==
  ASSUME Distinct, IInv, NEW c \in CPU, NEW k \in Context, kerneltrapret(c, k)
  PROVE  IInv'
<1>1. /\ HereInv(c, k) /\ pc[k] = "run" /\ held[k] = {} /\ enabled[k]
      /\ frame[k] \in Frame /\ frame[k].held = {}
      /\ frame[k].pc = "push_off" => frame[k].old /\ frame[k].lk \in Locks
  BY Zenon, Here DEF kerneltrapret, Runs, Base, IInv, TypeOK, FrameAt
<1>2. /\ pc' = [pc EXCEPT ![k] = frame[k].pc] /\ frame[k].pc \in {"run", "push_off"}
      /\ lk' = [lk EXCEPT ![k] = frame[k].lk] /\ old' = [old EXCEPT ![k] = frame[k].old]
      /\ UNCHANGED held
      /\ frame' = [frame EXCEPT ![k] = NoFrame] /\ sie' = [sie EXCEPT ![c] = TRUE]
      /\ UNCHANGED <<lock, cpu, stvec, tp, on, keep, hartid, enabled>>
  BY Zenon, <1>1 DEF kerneltrapret, IInv, TypeOK, Frame
<1>3. TypeOK' /\ Elsewhere(c, k)
  BY Zenon, <1>1, <1>2, Names DEF IInv, TypeOK, Elsewhere, lock, cpu, SchedulerPC, Taking, Frame
<1>4. /\ pc'[k] = frame[k].pc /\ lk'[k] = frame[k].lk /\ old'[k] = frame[k].old
      /\ sie'[c] = TRUE /\ Base(k)' /\ Expected(k)' = TRUE
  BY Zenon, <1>1, <1>2 DEF IInv, TypeOK, Base, Expected
<1>5. HolderInv'
  BY Zenon, <1>1, <1>2, <1>3, <1>4, HolderSame DEF IInv, Between, lock
<1>6. OrderAt(k)' /\ FrameAt(k)' /\ DepthAt(c, k)' /\ pc'[k] \in Running(k)
  <2>1. pc'[k] \in Running(k)
    BY <1>2, <1>4 DEF Running, SchedulerPC, ThreadPC, Taking
  <2>2. OrderAt(k)'
    <3>1. /\ IsFiniteSet(held'[k]) /\ held'[k] = {} /\ pc'[k] \in {"run", "push_off"}
          /\ pc'[k] = "push_off" => lk'[k] \in Locks
      BY Zenon, <1>1, <1>2, <1>4 DEF HereInv, OrderAt
    <3>. QED  BY Zenon, <3>1 DEF OrderAt, Taking, Leaving
  <2>3. FrameAt(k)' /\ DepthAt(c, k)'
    BY Zenon, <1>1, <1>2, <1>4 DEF HereInv, FrameAt, DepthAt, Counted, cpu
  <2>. QED  BY Zenon, <2>1, <2>2, <2>3
<1>7. IntrAt(c, k)'
  BY Zenon, <1>1, <1>2, <1>4 DEF HereInv, IntrAt, Frame, Free, Counted, cpu
<1>. QED  BY Zenon, <1>1, <1>3, <1>5, <1>6, <1>7, LocalStep DEF At
-----------------------------------------------------------------------------
(* Switches *)

\* The scheduler turns interrupts on, with no lock held.
LEMMA SchedulerIInv ==
  ASSUME Distinct, IInv, NEW c \in CPU, scheduler(c)
  PROVE  IInv'
<1>1. HereInv(c, c) /\ pc[c] = "run" /\ held[c] = {} /\ Base(c)
  BY Zenon, Here, Names DEF scheduler, Runs
<1>2. TypeOK' /\ Elsewhere(c, c)
  BY Zenon, <1>1, Names DEF IInv, TypeOK, Elsewhere, scheduler, lock, cpu
<1>3. /\ sie'[c] = TRUE /\ enabled'[c] = TRUE
      /\ UNCHANGED <<lock, cpu, stvec, tp, pc, held, lk, hartid, frame>>
  BY Zenon, <1>1, Names DEF IInv, TypeOK, scheduler
<1>4. HolderInv'
  BY Zenon, <1>1, <1>2, <1>3, Names, HolderSame DEF IInv, Between, lock
<1>5. At(c, c)' /\ pc'[c] \in Running(c)
  BY Zenon, <1>1, <1>3 DEF HereInv, At, OrderAt, FrameAt, DepthAt, IntrAt, Free, Expected, Base,
     Counted, Taking, Leaving, cpu
<1>. QED  BY Zenon, <1>1, <1>2, <1>4, <1>5, Names, LocalStep

\* A switch between the scheduler of c and thread t, from context k to context
\* j, moves the CPU and the p->lock of t and touches no other context.
Switch(c, t, k, j) ==
  /\ on[c] = k /\ on'[c] = j /\ held[k] = {t} /\ held'[k] = {} /\ held'[j] = {t}
  /\ pc[k] = "run" /\ pc'[k] = "switched"
  /\ pc'[j] \in (IF j = c THEN {"back"} ELSE {"run", "forkret"})
  /\ \A d \in CPU \ {c} : /\ on'[d] = on[d] /\ on[d] \notin {k, j}
                          /\ intena'[d] = intena[d]
  /\ \A i \in Context \ {k, j} : pc'[i] = pc[i] /\ held'[i] = held[i] /\ keep'[i] = keep[i]
  /\ UNCHANGED <<locked, holder, noff, sie, stvec, tp, lk, old, hartid, frame, enabled>>

\* It preserves the invariant if what is switched out can go on where it was,
\* and what is switched in finds its c->intena.
LEMMA SwitchStep ==
  ASSUME Distinct, IInv, NEW c \in CPU, NEW t \in Thread, NEW k \in {c, t}, NEW j \in {c, t},
         k # j, HereInv(c, k), Switch(c, t, k, j), TypeOK',
         k = c => Base(c),
         k = t => keep'[t] = Expected(t),
         pc'[j] \in {"back", "forkret"} => Base(j),
         pc'[j] = "run" => intena'[c] = Expected(j)
  PROVE  IInv'
<1>0. TypeOK /\ OnInv /\ HolderInv
  BY Zenon DEF IInv
<1>1. /\ on[c] = k /\ on'[c] = j
      /\ \A d \in CPU \ {c} : on'[d] = on[d] /\ on[d] \notin {k, j}
  BY Zenon DEF Switch
<1>2. \A i \in Context : (Base(i)' <=> Base(i)) /\ Expected(i)' = Expected(i)
  BY Zenon DEF Switch, Base, Expected
<1>3. \A i \in Context \ {k, j} : pc'[i] = pc[i] /\ held'[i] = held[i] /\ keep'[i] = keep[i]
  BY Zenon DEF Switch
<1>4. OnInv'
  <2>1. ASSUME NEW d \in CPU PROVE on'[d] \in Thread \cup {d}
    <3>1. on[d] \in Thread \cup {d}
      BY Zenon, <1>0 DEF OnInv
    <3>. QED  BY Zenon, <1>1, <3>1
  <2>2. ASSUME NEW d \in CPU, NEW e \in CPU, on'[d] = on'[e] PROVE d = e
    <3>1. on[d] = on[e] => d = e
      BY Zenon, <1>0 DEF OnInv
    <3>. QED  BY Zenon, <1>1, <2>2, <3>1
  <2>3. ASSUME NEW d \in CPU
        PROVE  /\ pc'[d] \in SchedulerPC
               /\ pc'[d] = "switched" <=> on'[d] # d
               /\ pc'[d] = "switched" => held'[d] = {} /\ Base(d)'
    <3>1. CASE d = c
      BY Zenon, <1>1, <1>2, <3>1, Names DEF Switch, SchedulerPC
    <3>2. CASE d # c
      <4>1. pc'[d] = pc[d] /\ held'[d] = held[d] /\ on'[d] = on[d] /\ (Base(d)' <=> Base(d))
        BY Zenon, <1>1, <1>2, <1>3, <3>2, Names DEF Distinct
      <4>. QED  BY Zenon, <1>0, <4>1 DEF OnInv
    <3>. QED  BY Zenon, <3>1, <3>2
  <2>4. ASSUME NEW i \in Thread
        PROVE  /\ pc'[i] \in ThreadPC
               /\ pc'[i] \in {"new", "switched"} <=> \A d \in CPU : on'[d] # i
               /\ pc'[i] \in {"new", "switched"} => held'[i] = {}
               /\ pc'[i] = "new" => Base(i)'
               /\ pc'[i] = "switched" => keep'[i] = Expected(i)'
    <3>1. CASE i = t
      <4>1. CASE k = t
        BY Zenon, <1>1, <1>2, <3>1, <4>1, Names DEF Switch, ThreadPC
      <4>2. CASE j = t
        BY Zenon, <1>1, <3>1, <4>2, Names DEF Switch, ThreadPC
      <4>. QED  BY Zenon, <4>1, <4>2
    <3>2. CASE i # t
      <4>1. /\ pc'[i] = pc[i] /\ held'[i] = held[i] /\ keep'[i] = keep[i] /\ i \notin {k, j}
            /\ (Base(i)' <=> Base(i)) /\ Expected(i)' = Expected(i)
        BY Zenon, <1>2, <1>3, <3>2, Names DEF Distinct
      <4>2. \A d \in CPU : on'[d] = i <=> on[d] = i
        BY Zenon, <1>1, <4>1
      <4>3. /\ pc[i] \in ThreadPC
            /\ pc[i] \in {"new", "switched"} <=> \A d \in CPU : on[d] # i
            /\ pc[i] \in {"new", "switched"} => held[i] = {}
            /\ pc[i] = "new" => Base(i)
            /\ pc[i] = "switched" => keep[i] = Expected(i)
        BY Zenon, <1>0 DEF OnInv
      <4>. QED  BY Zenon, <4>1, <4>2, <4>3
    <3>. QED  BY Zenon, <3>1, <3>2
  <2>. QED  BY Zenon, <2>1, <2>2, <2>3, <2>4 DEF OnInv
<1>5. HolderInv'
  <2>1. ASSUME NEW d \in CPU, NEW i \in Context, NEW l \in Locks, on'[d] = i, l \in held'[i]
        PROVE  locked'[l] /\ holder'[l] = d
    <3>1. CASE d = c
      <4>1. on[c] = k /\ t \in held[k] /\ l = t /\ UNCHANGED <<locked, holder>>
        BY Zenon, <1>1, <2>1, <3>1 DEF Switch
      <4>2. t \in Locks /\ k \in Context
        BY Zenon, Names
      <4>3. locked[t] /\ holder[t] = c
        BY Zenon, <1>0, <4>1, <4>2, HolderOf
      <4>. QED  BY Zenon, <3>1, <4>1, <4>3
    <3>2. CASE d # c
      <4>1. on[d] = i /\ l \in held[i]
        BY Zenon, <1>1, <1>3, <2>1, <3>2
      <4>2. UNCHANGED <<locked, holder>>
        BY Zenon DEF Switch
      <4>. QED  BY Zenon, <1>0, <4>1, <4>2 DEF HolderInv
    <3>. QED  BY Zenon, <3>1, <3>2
  <2>2. ASSUME NEW d \in CPU, NEW l \in Locks, holder'[l] = d
        PROVE  l \in held'[on'[d]]
    <3>0. holder[l] = d
      BY Zenon, <2>2 DEF Switch
    <3>1. on[d] \in Context /\ l \in held[on[d]]
      <4>1. on[d] \in Context
        BY Zenon, <1>0 DEF TypeOK
      <4>. QED  BY Zenon, <1>0, <3>0, <4>1 DEF HolderInv
    <3>2. CASE d = c
      BY Zenon, <1>1, <3>1, <3>2 DEF Switch
    <3>3. CASE d # c
      <4>1. on'[d] = on[d] /\ on[d] \in Context \ {k, j}
        BY Zenon, <1>1, <3>1, <3>3
      <4>. QED  BY Zenon, <1>3, <3>1, <4>1
    <3>. QED  BY Zenon, <3>2, <3>3
  <2>3. \A i \in Context : pc'[i] \in Between => pc[i] \in Between
    BY Zenon DEF Switch, Between
  <2>4. UNCHANGED <<locked, holder, lk>>
    BY Zenon DEF Switch
  <2>5. \A i \in Context : pc'[i] \in Between =>
          lk'[i] \in Locks /\ locked'[lk'[i]] /\ holder'[lk'[i]] = None
    BY Zenon, <1>0, <2>3, <2>4 DEF HolderInv
  <2>6. \A h, i \in Context :
          pc'[h] \in Between /\ pc'[i] \in Between /\ lk'[h] = lk'[i] => h = i
    BY Zenon, <1>0, <2>3, <2>4 DEF HolderInv
  <2>. QED  BY Zenon, <2>1, <2>2, <2>5, <2>6 DEF HolderInv
<1>6. IsFiniteSet({}) /\ IsFiniteSet({t}) /\ Cardinality({t}) = 1
  BY Zenon, FS_EmptySet, FS_Singleton
<1>7. ASSUME NEW i \in Context PROVE OrderAt(i)' /\ FrameAt(i)'
  <2>1. FrameAt(i)'
    BY Zenon DEF IInv, FrameAt, Base, Switch
  <2>2. CASE i \in {k, j}
    BY Zenon, <1>2, <1>6, <2>1, <2>2 DEF Switch, OrderAt, Taking, Leaving
  <2>3. CASE i \notin {k, j}
    <3>1. pc'[i] = pc[i] /\ held'[i] = held[i] /\ lk'[i] = lk[i] /\ (Base(i)' <=> Base(i))
      BY Zenon, <1>2, <1>3, <2>3 DEF Switch
    <3>. QED  BY Zenon, <2>1, <3>1 DEF IInv, OrderAt
  <2>. QED  BY Zenon, <2>2, <2>3
<1>8. DepthAt(c, j)' /\ IntrAt(c, j)'
  <2>1. noff[c] = 1
    BY Zenon, <1>6 DEF HereInv, Switch, Counted
  <2>2. noff'[c] = 1 /\ Cardinality(held'[j]) = 1 /\ pc'[j] \notin Counted
    BY Zenon, <1>6, <2>1 DEF Switch, Counted
  <2>3. DepthAt(c, j)'
    BY <2>2 DEF DepthAt
  <2>4. ~sie[c] /\ stvec[c] # "uservec" /\ tp[c] = c
    BY Zenon DEF HereInv, Switch, IntrAt, Free
  <2>5. /\ ~sie'[c] /\ stvec'[c] # "uservec" /\ tp'[c] = c /\ held'[j] = {t}
        /\ pc'[j] \in {"run", "back", "forkret"}
    BY Zenon, <2>4 DEF Switch
  <2>6. pc'[j] = "run" => intena'[c] = Expected(j)'
    BY Zenon, <1>2, Names
  <2>7. IntrAt(c, j)'
    BY Zenon, <2>5, <2>6 DEF IntrAt
  <2>. QED  BY Zenon, <2>3, <2>7
<1>9. ASSUME NEW d \in CPU \ {c}, NEW i \in Context, on'[d] = i
      PROVE  DepthAt(d, i)' /\ IntrAt(d, i)'
  <2>1. i \notin {k, j} /\ DepthAt(d, i) /\ IntrAt(d, i)
    BY Zenon, <1>1, <1>9 DEF IInv
  <2>2. /\ pc'[i] = pc[i] /\ held'[i] = held[i] /\ intena'[d] = intena[d]
        /\ (Base(i)' <=> Base(i)) /\ Expected(i)' = Expected(i)
    BY Zenon, <1>2, <1>3, <1>9, <2>1 DEF Switch
  <2>. QED  BY Zenon, <1>9, <2>1, <2>2 DEF Switch, DepthAt, IntrAt, Free
<1>. QED  BY Zenon, <1>1, <1>4, <1>5, <1>7, <1>8, <1>9 DEF IInv

\* The scheduler hands the p->lock it holds, and the CPU, to the thread, which
\* was on no CPU and finds c->intena as it left it.
LEMMA SwtchIInv ==
  ASSUME Distinct, IInv, NEW c \in CPU, NEW t \in Thread, swtch(c, t)
  PROVE  IInv'
<1>1. /\ HereInv(c, c) /\ pc[c] = "run" /\ Base(c) /\ held[c] = {t} /\ tp[c] = c /\ c # t
      /\ pc[t] \in {"new", "switched"}
  <2>1. HereInv(c, c) /\ pc[c] = "run" /\ c # t
    BY Zenon, Here, Names DEF swtch, Runs, Distinct
  <2>. QED  BY Zenon, <2>1 DEF swtch, HereInv, IntrAt
<1>2. /\ held[t] = {} /\ \A d \in CPU : on[d] # t
      /\ pc[t] = "new" => Base(t)
      /\ pc[t] = "switched" => keep[t] = Expected(t)
  BY Zenon, <1>1 DEF IInv, OnInv
<1>3. TypeOK'
  <2>1. pc' \in [Context -> SchedulerPC \cup ThreadPC]
    <3>1. PICK l \in {"run", "forkret"} : pc' = [pc EXCEPT ![c] = "switched", ![t] = l]
      BY Zenon DEF swtch
    <3>. QED  BY Zenon, <3>1 DEF IInv, TypeOK, SchedulerPC, ThreadPC
  <2>2. intena' \in [CPU -> BOOLEAN] /\ keep' \in [Context -> BOOLEAN]
    BY Zenon, <1>1, Names DEF IInv, TypeOK, swtch, Intena, mycpu
  <2>3. held' \in [Context -> SUBSET Locks] /\ on' \in [CPU -> Context]
    BY Zenon, Names DEF IInv, TypeOK, swtch
  <2>. QED  BY Zenon, <2>1, <2>2, <2>3 DEF IInv, TypeOK, swtch, lock, regs
<1>4. /\ Switch(c, t, c, t)
      /\ pc'[t] = "run" => intena'[c] = Expected(t)
      /\ pc'[t] = "forkret" => Base(t)
  <2>0. TypeOK /\ on[c] = c /\ \A d \in CPU \ {c} : on[d] # c
    BY Zenon, <1>1 DEF IInv, HereInv
  <2>1. on'[c] = t /\ \A d \in CPU \ {c} : on'[d] = on[d]
    BY Zenon, <2>0 DEF TypeOK, swtch
  <2>2. held'[c] = {} /\ held'[t] = {t} /\ \A i \in Context \ {c, t} : held'[i] = held[i]
    BY Zenon, <1>1, <2>0, Names DEF TypeOK, swtch
  <2>3. /\ pc'[c] = "switched" /\ \A i \in Context \ {c, t} : pc'[i] = pc[i]
        /\ pc'[t] = (IF pc[t] = "new" THEN "forkret" ELSE "run")
    BY Zenon, <1>1, <2>0, Names DEF TypeOK, swtch
  <2>4. /\ \A i \in Context \ {c, t} : keep'[i] = keep[i]
        /\ \A d \in CPU \ {c} : intena'[d] = intena[d]
        /\ pc[t] = "switched" => intena'[c] = keep[t]
    BY Zenon, <1>1, <2>0, Names DEF TypeOK, swtch, Intena, mycpu
  <2>5. UNCHANGED <<locked, holder, noff, sie, stvec, tp, lk, old, hartid, frame, enabled>>
    BY Zenon DEF swtch, lock, regs
  <2>6. Switch(c, t, c, t)
    BY Zenon, <1>1, <1>2, <2>0, <2>1, <2>2, <2>3, <2>4, <2>5 DEF Switch
  <2>. QED  BY Zenon, <1>1, <1>2, <2>3, <2>4, <2>6
<1>5. pc'[t] # "back"
  BY Zenon, <1>1, <1>4 DEF Switch
<1>. QED  BY Zenon, <1>1, <1>3, <1>4, <1>5, SwitchStep

\* sched() finds what it checks for, and hands p->lock to the scheduler.
LEMMA SchedIInv ==
  ASSUME Distinct, IInv, NEW c \in CPU, NEW t \in Thread, sched(c, t)
  PROVE  IInv'
<1>1. /\ HereInv(c, t) /\ pc[t] = "run" /\ held[t] = {t} /\ tp[c] = c /\ c # t
      /\ ~sie[c] /\ intena[c] = Expected(t) /\ noff[c] = 1 /\ locked[t] /\ holder[t] = c
  <2>1. HereInv(c, t) /\ pc[t] = "run" /\ held[t] = {t} /\ c # t
    BY Zenon, Here, Names DEF sched, Runs, Distinct
  <2>2. ~sie[c] /\ intena[c] = Expected(t) /\ tp[c] = c
    BY Zenon, <2>1 DEF HereInv, IntrAt, Free
  <2>3. Cardinality({t}) = 1
    BY Zenon, FS_Singleton
  <2>4. noff[c] = 1
    BY Zenon, <2>1, <2>3 DEF HereInv, Counted
  <2>5. on[c] = t /\ t \in held[t]
    BY Zenon, <2>1 DEF HereInv
  <2>6. locked[t] /\ holder[t] = c
    <3>1. HolderInv /\ t \in Locks /\ t \in Context
      BY Zenon, Names DEF IInv
    <3>. QED  BY Zenon, <2>5, <3>1, HolderOf
  <2>. QED  BY Zenon, <2>1, <2>2, <2>4, <2>6
<1>2. on[c] = t /\ on[c] # c /\ pc[c] = "switched" /\ held[c] = {} /\ Base(c)
  BY Zenon, <1>1 DEF IInv, OnInv, HereInv
<1>3. /\ keep' = [keep EXCEPT ![t] = Expected(t)] /\ on' = [on EXCEPT ![c] = c]
      /\ held' = [held EXCEPT ![t] = {}, ![c] = {t}]
      /\ pc' = [pc EXCEPT ![t] = "switched", ![c] = "back"]
      /\ UNCHANGED <<lock, cpu, regs, lk, old, hartid, frame, enabled>>
  BY Zenon, <1>1 DEF sched, mycpu
<1>4. TypeOK'
  BY Zenon, <1>1, <1>3, Names DEF IInv, TypeOK, lock, cpu, regs, SchedulerPC, ThreadPC, Expected
<1>5. Switch(c, t, t, c)
  <2>0. TypeOK /\ OnInv
    BY Zenon DEF IInv
  <2>1. ASSUME NEW d \in CPU \ {c} PROVE on'[d] = on[d] /\ on[d] \notin {t, c}
    <3>1. on'[d] = on[d]
      BY Zenon, <1>3, <2>0 DEF TypeOK
    <3>2. on[d] # on[c] /\ on[d] \in Thread \cup {d}
      BY Zenon, <2>0 DEF OnInv
    <3>. QED  BY Zenon, <1>2, <3>1, <3>2 DEF Distinct
  <2>2. /\ on'[c] = c /\ held'[t] = {} /\ held'[c] = {t} /\ pc'[t] = "switched" /\ pc'[c] = "back"
        /\ \A i \in Context \ {t, c} : pc'[i] = pc[i] /\ held'[i] = held[i] /\ keep'[i] = keep[i]
    BY Zenon, <1>1, <1>3, Names DEF IInv, TypeOK
  <2>3. UNCHANGED <<locked, holder, noff, intena, sie, stvec, tp, lk, old, hartid, frame, enabled>>
    BY Zenon, <1>3 DEF lock, cpu, regs
  <2>. QED  BY Zenon, <1>1, <1>2, <2>1, <2>2, <2>3 DEF Switch
<1>6. keep'[t] = Expected(t) /\ pc'[c] = "back"
  BY Zenon, <1>1, <1>3, Names DEF IInv, TypeOK
<1>. QED  BY Zenon, <1>1, <1>2, <1>4, <1>5, <1>6, SwitchStep
-----------------------------------------------------------------------------
\* At boot every CPU is in its scheduler, with interrupts off and no lock held.
LEMMA InitIInv == ASSUME Distinct, Init PROVE IInv
<1>. USE Names DEF Init, Distinct
<1>1. TypeOK
  BY Zenon DEF TypeOK, SchedulerPC, ThreadPC
<1>2. OnInv
  BY Zenon DEF OnInv, Context, SchedulerPC, ThreadPC, Base, Expected
<1>3. HolderInv
  BY Zenon DEF HolderInv, Between
<1>4. \A k \in Context : OrderAt(k) /\ FrameAt(k)
  BY Zenon, FS_EmptySet DEF OrderAt, FrameAt, Base, Taking, Leaving
<1>5. \A c \in CPU, k \in Context : on[c] = k => DepthAt(c, k) /\ IntrAt(c, k)
  <2>1. ASSUME NEW c \in CPU PROVE DepthAt(c, c)
    BY FS_EmptySet DEF DepthAt, Counted
  <2>2. ASSUME NEW c \in CPU PROVE IntrAt(c, c)
    BY Zenon DEF IntrAt, Free, Base, Expected, Counted
  <2>. QED  BY Zenon, <2>1, <2>2
<1>. QED  BY Zenon, <1>1, <1>2, <1>3, <1>4, <1>5 DEF IInv

\* Every step preserves the invariant.
LEMMA NextIInv == ASSUME Distinct, IInv, [Next]_vars PROVE IInv'
<1>1. CASE UNCHANGED vars
  <2>. USE <1>1 DEF vars, lock, cpu, regs
  <2>1. TypeOK' /\ HolderInv'
    BY Zenon DEF TypeOK, HolderInv, IInv
  <2>2. OnInv'
    BY Zenon DEF OnInv, Base, Expected, IInv
  <2>3. \A k \in Context : (OrderAt(k) /\ FrameAt(k))'
    BY Zenon DEF OrderAt, FrameAt, Base, IInv
  <2>4. \A c \in CPU, k \in Context : on'[c] = k => DepthAt(c, k) /\ IntrAt(c, k)
    BY Zenon DEF IInv
  <2>5. \A c \in CPU, k \in Context : (DepthAt(c, k)' <=> DepthAt(c, k))
    BY Zenon DEF DepthAt
  <2>6. ASSUME NEW c \in CPU, NEW k \in Context PROVE IntrAt(c, k)' <=> IntrAt(c, k)
    <3>1. (Free(k)' <=> Free(k)) /\ (Base(k)' <=> Base(k)) /\ Expected(k)' = Expected(k)
      BY Zenon DEF Free, Base, Expected
    <3>. QED  BY Zenon, <3>1 DEF IntrAt
  <2>. QED  BY Zenon, <2>1, <2>2, <2>3, <2>4, <2>5, <2>6 DEF IInv
<1>2. ASSUME NEW c \in CPU, NEW k \in Context,
             \/ \E l \in Locks : acquire(c, k, l) \/ release(c, k, l)
             \/ push_off(c, k) \/ holding(c, k) \/ test_and_set(c, k) \/ set_cpu(c, k)
             \/ unlock(c, k) \/ pop_off(c, k)
      PROVE  IInv'
  BY Zenon, <1>2, AcquireIInv, ReleaseIInv, PushOffIInv, HoldingIInv, TestAndSetIInv,
     SetCpuIInv, UnlockIInv, PopOffIInv
<1>3. ASSUME NEW c \in CPU, NEW k \in Context,
             \/ trap(c, k) \/ (\E syscall \in BOOLEAN : usertrap(c, k, syscall))
             \/ usertrapret(c, k) \/ w_stvec(c, k) \/ sret(c, k)
             \/ kerneltrap(c, k) \/ kerneltrapret(c, k)
      PROVE  IInv'
  BY Zenon, <1>3, TrapIInv, UsertrapIInv, UsertrapretIInv, WStvecIInv, SretIInv,
     KerneltrapIInv, KerneltrapretIInv
<1>4. ASSUME NEW c \in CPU, NEW k \in Context,
             \/ k = c /\ scheduler(c)
             \/ k \in Thread /\ (swtch(c, k) \/ sched(c, k))
      PROVE  IInv'
  BY Zenon, <1>4, SchedulerIInv, SwtchIInv, SchedIInv
<1>. QED  BY Zenon, <1>1, <1>2, <1>3, <1>4 DEF Next

\* The invariant is strong enough.
LEMMA IInvSound == ASSUME Distinct, IInv PROVE LocksSound
<1>1. \A k \in Context : pc[k] # "panic"
  BY Zenon DEF IInv, TypeOK, SchedulerPC, ThreadPC, Taking, Between, Leaving
<1>2. ASSUME NEW j \in Context, NEW k \in Context, held[j] \cap held[k] # {}
      PROVE  j = k
  <2>1. PICK l \in Locks : l \in held[j] /\ l \in held[k]
    BY Zenon, <1>2 DEF IInv, TypeOK
  <2>2. PICK c \in CPU : on[c] = j
    BY Zenon, <2>1 DEF IInv, OnInv, Context
  <2>3. PICK d \in CPU : on[d] = k
    BY Zenon, <2>1 DEF IInv, OnInv, Context
  <2>. QED  BY <2>1, <2>2, <2>3 DEF IInv, HolderInv
<1>3. ASSUME NEW c \in CPU, NEW k \in Context, on[c] = k
      PROVE  /\ pc[k] # "user" => mycpu(c) = c
             /\ sie[c] => held[k] = {} /\ Base(k)
             /\ pc[k] = "run" /\ held[k] = {} => sie[c] = Expected(k)
  BY Zenon, <1>3 DEF IInv, IntrAt, Free, mycpu
<1>. QED  BY Zenon, <1>1, <1>2, <1>3 DEF LocksSound

\* For any CPUs, threads and locks: spin locks exclude each other's holders,
\* keep interrupts out and give them back across preemption and migration, and
\* no panic in acquire, release, pop_off, sched, usertrap or kerneltrap is
\* reached.
THEOREM SpinLocksSound == Distinct => (Spec => []LocksSound)
<1>. SUFFICES ASSUME Distinct PROVE Spec => []LocksSound
  OBVIOUS
<1>1. Init => IInv
  BY Zenon, InitIInv
<1>2. IInv /\ [Next]_vars => IInv'
  BY Zenon, NextIInv
<1>3. IInv => LocksSound
  BY Zenon, IInvSound
<1>. QED  BY <1>1, <1>2, <1>3, PTL DEF Spec
=============================================================================
