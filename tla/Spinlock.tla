------------------------------ MODULE Spinlock ------------------------------
(***************************************************************************)
(* Spin locks and interrupts, kernel/spinlock.c, with the traps that make  *)
(* them necessary (kernel/trap.c) and the switches between kernel threads  *)
(* (kernel/proc.c) across which a lock and c->intena are handed over.      *)
(*                                                                         *)
(* A context is the kernel thread of a process, or the scheduler of a CPU, *)
(* named by that CPU.  The p->lock of thread t is the lock named t.  What  *)
(* the locks protect is abstracted: a context takes and releases locks in  *)
(* the order the kernel's callers keep to (MayTake), and a thread that has *)
(* been switched out may be found RUNNABLE (see module Proc for when).     *)
(***************************************************************************)
EXTENDS Integers, FiniteSets

CONSTANTS CPU, Thread,
          Lock,     \* the locks other than the p->lock of a process
          None

\* What the proofs assume of the constants.
Distinct ==
  /\ CPU \cap Thread = {} /\ Lock \cap Thread = {}
  /\ None \notin CPU

Context == CPU \cup Thread
Locks == Lock \cup Thread
NoFrame == [pc |-> "none"]

VARIABLES
  locked, holder,        \* lk->locked, lk->cpu
  noff, intena,          \* struct cpu
  sie,                   \* SSTATUS_SIE: this CPU takes interrupts
  stvec,                 \* where it goes when it does
  tp,                    \* its register tp, from which mycpu() tells the CPU
  on,                    \* the context that runs on each CPU
  pc,                    \* where each context is
  held,                  \* the locks its code is between acquire and release of
  lk, old, keep,         \* locals, while in use: lk of acquire and release,
                         \* old of push_off, intena of sched
  hartid,                \* p->trapframe->kernel_hartid, while in user space
  frame,                 \* what an interrupt of this context has interrupted
  enabled                \* what its code last set its interrupts to

lock == <<locked, holder>>
cpu  == <<noff, intena>>
regs == <<sie, stvec, tp>>
vars == <<lock, cpu, regs, on, pc, held, lk, old, keep, hartid, frame, enabled>>

Init ==
  /\ locked = [l \in Locks |-> FALSE] /\ holder = [l \in Locks |-> None]
  /\ noff = [c \in CPU |-> 0] /\ intena = [c \in CPU |-> FALSE]
  /\ sie = [c \in CPU |-> FALSE]
  /\ stvec = [c \in CPU |-> "kernelvec"]
  /\ tp = [c \in CPU |-> c]
  /\ on = [c \in CPU |-> c]
  /\ pc = [k \in Context |-> IF k \in CPU THEN "run" ELSE "new"]
  /\ held = [k \in Context |-> {}]
  /\ lk = [k \in Context |-> None]
  /\ old = [k \in Context |-> FALSE] /\ keep = [k \in Context |-> FALSE]
  /\ hartid = [k \in Context |-> None]
  /\ frame = [k \in Context |-> NoFrame]
  /\ enabled = [k \in Context |-> FALSE]

(* A faulty variant, named for the fault. *)
IntenaOfTheCpu(c, t) == intena[tp[c]]

mycpu(c) == tp[c]
Runs(c, k, l) == on[c] = k /\ pc[k] = l
Goto(k, l) == pc' = [pc EXCEPT ![k] = l]

\* The context runs the code of its own, not that of an interrupt.
Base(k) == frame[k] = NoFrame

\* One data lock and, after it, one p->lock; the scheduler itself takes only
\* the p->lock of the process it looks at.
MayTake(k, l) ==
  /\ held[k] \cap Thread = {}
  /\ l \in Lock => held[k] = {} /\ ~(k \in CPU /\ Base(k))
-----------------------------------------------------------------------------
(* acquire and release.  Each access to state that another CPU, or an      *)
(* interrupt on this one, may read or write is a step.                     *)

\* push_off(): old = intr_get() ...
acquire(c, k, l) ==
  /\ Runs(c, k, "run") /\ MayTake(k, l)
  /\ lk' = [lk EXCEPT ![k] = l]
  /\ old' = [old EXCEPT ![k] = sie[c]]
  /\ Goto(k, "push_off")
  /\ UNCHANGED <<lock, cpu, regs, on, held, keep, hartid, frame, enabled>>

\* ... and the rest, on what may by now be another CPU.
push_off(c, k) ==
  /\ Runs(c, k, "push_off")
  /\ sie' = [sie EXCEPT ![c] = FALSE]
  /\ intena' = IF noff[mycpu(c)] = 0
                 THEN [intena EXCEPT ![mycpu(c)] = old[k]] ELSE intena
  /\ noff' = [noff EXCEPT ![mycpu(c)] = @ + 1]
  /\ old' = [old EXCEPT ![k] = FALSE]
  /\ Goto(k, "holding")
  /\ UNCHANGED <<lock, stvec, tp, on, held, lk, keep, hartid, frame, enabled>>

\* holding(lk) reads lk->locked and then lk->cpu, without the lock.
holding(c, k) ==
  /\ \/ Runs(c, k, "holding") /\ Goto(k, IF locked[lk[k]] THEN "compare" ELSE "spin")
     \/ Runs(c, k, "compare") /\ Goto(k, IF holder[lk[k]] = mycpu(c) THEN "panic" ELSE "spin")
  /\ UNCHANGED <<lock, cpu, regs, on, held, lk, old, keep, hartid, frame, enabled>>

test_and_set(c, k) ==
  /\ Runs(c, k, "spin") /\ ~locked[lk[k]]
  /\ locked' = [locked EXCEPT ![lk[k]] = TRUE]
  /\ Goto(k, "set_cpu")
  /\ UNCHANGED <<holder, cpu, regs, on, held, lk, old, keep, hartid, frame, enabled>>

set_cpu(c, k) ==
  /\ Runs(c, k, "set_cpu")
  /\ holder' = [holder EXCEPT ![lk[k]] = mycpu(c)]
  /\ held' = [held EXCEPT ![k] = @ \cup {lk[k]}]
  /\ lk' = [lk EXCEPT ![k] = None]
  /\ Goto(k, "run")
  /\ UNCHANGED <<locked, cpu, regs, on, old, keep, hartid, frame, enabled>>

\* After a switch the scheduler, and a new thread in forkret, release the lock
\* with the c->intena they find.
release(c, k, l) ==
  /\ on[c] = k /\ pc[k] \in {"run", "back", "forkret"} /\ l \in held[k]
  /\ IF locked[l] /\ holder[l] = mycpu(c)
       THEN holder' = [holder EXCEPT ![l] = None] /\ Goto(k, "unlock")
       ELSE Goto(k, "panic") /\ UNCHANGED holder
  /\ lk' = [lk EXCEPT ![k] = l]
  /\ held' = [held EXCEPT ![k] = @ \ {l}]
  /\ enabled' = IF pc[k] = "run" THEN enabled ELSE [enabled EXCEPT ![k] = intena[mycpu(c)]]
  /\ UNCHANGED <<locked, cpu, regs, on, old, keep, hartid, frame>>

unlock(c, k) ==
  /\ Runs(c, k, "unlock")
  /\ locked' = [locked EXCEPT ![lk[k]] = FALSE]
  /\ lk' = [lk EXCEPT ![k] = None]
  /\ Goto(k, "pop_off")
  /\ UNCHANGED <<holder, cpu, regs, on, held, old, keep, hartid, frame, enabled>>

pop_off(c, k) ==
  /\ Runs(c, k, "pop_off")
  /\ IF sie[c] \/ noff[mycpu(c)] < 1
       THEN Goto(k, "panic") /\ UNCHANGED <<noff, sie>>
       ELSE /\ noff' = [noff EXCEPT ![mycpu(c)] = @ - 1]
            /\ sie' = [sie EXCEPT ![c] = noff[mycpu(c)] = 1 /\ intena[mycpu(c)]]
            /\ Goto(k, "run")
  /\ UNCHANGED <<lock, intena, stvec, tp, on, held, lk, old, keep, hartid, frame, enabled>>
-----------------------------------------------------------------------------
(* Traps.  The hardware turns interrupts off on every trap. *)

\* A system call, fault or interrupt in user space; uservec, trampoline.S.
trap(c, k) ==
  /\ Runs(c, k, "user")
  /\ sie' = [sie EXCEPT ![c] = FALSE]
  /\ tp' = [tp EXCEPT ![c] = hartid[k]]
  /\ hartid' = [hartid EXCEPT ![k] = None]
  /\ Goto(k, IF stvec[c] = "uservec" THEN "usertrap" ELSE "panic")
  /\ UNCHANGED <<lock, cpu, stvec, on, held, lk, old, keep, frame, enabled>>

\* Only a system call turns interrupts on, once the trap registers are saved.
usertrap(c, k, syscall) ==
  /\ Runs(c, k, "usertrap")
  /\ stvec' = [stvec EXCEPT ![c] = "kernelvec"]
  /\ sie' = [sie EXCEPT ![c] = syscall]
  /\ enabled' = [enabled EXCEPT ![k] = syscall]
  /\ Goto(k, "run")
  /\ UNCHANGED <<lock, cpu, tp, on, held, lk, old, keep, hartid, frame>>

usertrapret(c, k) ==
  /\ Runs(c, k, "run") /\ k \in Thread /\ Base(k) /\ held[k] = {}
  /\ sie' = [sie EXCEPT ![c] = FALSE]
  /\ enabled' = [enabled EXCEPT ![k] = FALSE]
  /\ Goto(k, "w_stvec")
  /\ UNCHANGED <<lock, cpu, stvec, tp, on, held, lk, old, keep, hartid, frame>>

w_stvec(c, k) ==
  /\ Runs(c, k, "w_stvec")
  /\ stvec' = [stvec EXCEPT ![c] = "uservec"]
  /\ hartid' = [hartid EXCEPT ![k] = tp[c]]
  /\ Goto(k, "sret")
  /\ UNCHANGED <<lock, cpu, sie, tp, on, held, lk, old, keep, frame, enabled>>

\* userret, trampoline.S; SSTATUS_SPIE turns interrupts on in user space, where
\* tp is the program's own.
sret(c, k) ==
  /\ Runs(c, k, "sret")
  /\ sie' = [sie EXCEPT ![c] = TRUE]
  /\ tp' = [tp EXCEPT ![c] = None]
  /\ Goto(k, "user")
  /\ UNCHANGED <<lock, cpu, stvec, on, held, lk, old, keep, hartid, frame, enabled>>

\* An interrupt in the kernel: kernelvec, and kerneltrap up to devintr, whose
\* drivers take and release locks of their own and may wake processes.
kerneltrap(c, k) ==
  /\ on[c] = k /\ sie[c] /\ pc[k] # "user" /\ Base(k)
  /\ frame' = [frame EXCEPT ![k] = [pc |-> pc[k], lk |-> lk[k], old |-> old[k],
                                    held |-> held[k]]]
  /\ held' = [held EXCEPT ![k] = {}]
  /\ lk' = [lk EXCEPT ![k] = None] /\ old' = [old EXCEPT ![k] = FALSE]
  /\ sie' = [sie EXCEPT ![c] = FALSE]
  /\ Goto(k, IF stvec[c] = "kernelvec" THEN "run" ELSE "panic")
  /\ UNCHANGED <<lock, cpu, stvec, tp, on, keep, hartid, enabled>>

\* The end of kerneltrap: sstatus, and with it SPIE, is restored.
kerneltrapret(c, k) ==
  /\ Runs(c, k, "run") /\ ~Base(k) /\ held[k] = {}
  /\ pc' = [pc EXCEPT ![k] = frame[k].pc]
  /\ lk' = [lk EXCEPT ![k] = frame[k].lk]
  /\ old' = [old EXCEPT ![k] = frame[k].old]
  /\ held' = [held EXCEPT ![k] = frame[k].held]
  /\ frame' = [frame EXCEPT ![k] = NoFrame]
  /\ sie' = [sie EXCEPT ![c] = TRUE]
  /\ UNCHANGED <<lock, cpu, stvec, tp, on, keep, hartid, enabled>>
-----------------------------------------------------------------------------
(* Switches *)

\* intr_on() at the top of scheduler()'s loop, and before its wfi.
scheduler(c) ==
  /\ Runs(c, c, "run") /\ Base(c) /\ held[c] = {}
  /\ sie' = [sie EXCEPT ![c] = TRUE]
  /\ enabled' = [enabled EXCEPT ![c] = TRUE]
  /\ UNCHANGED <<lock, cpu, stvec, tp, on, pc, held, lk, old, keep, hartid, frame>>

\* c->intena when thread t is back from its swtch.
Intena(c, t) == keep[t]

\* scheduler()'s swtch to a process: to the end of its sched(), or to forkret.
swtch(c, t) ==
  /\ Runs(c, c, "run") /\ Base(c) /\ held[c] = {t}
  /\ \/ /\ pc[t] = "switched"
        /\ pc' = [pc EXCEPT ![c] = "switched", ![t] = "run"]
        /\ intena' = [intena EXCEPT ![mycpu(c)] = Intena(c, t)]
        /\ keep' = [keep EXCEPT ![t] = FALSE]
     \/ /\ pc[t] = "new"
        /\ pc' = [pc EXCEPT ![c] = "switched", ![t] = "forkret"]
        /\ UNCHANGED <<intena, keep>>
  /\ on' = [on EXCEPT ![c] = t]
  /\ held' = [held EXCEPT ![c] = {}, ![t] = {t}]
  /\ UNCHANGED <<lock, noff, regs, lk, old, hartid, frame, enabled>>

\* sched(), called by yield, sleep and exit with p->lock held and nothing else.
sched(c, t) ==
  /\ Runs(c, t, "run") /\ held[t] = {t}
  /\ IF ~(locked[t] /\ holder[t] = mycpu(c)) \/ noff[mycpu(c)] # 1 \/ sie[c]
       THEN Goto(t, "panic") /\ UNCHANGED <<on, held, keep>>
       ELSE /\ keep' = [keep EXCEPT ![t] = intena[mycpu(c)]]
            /\ on' = [on EXCEPT ![c] = c]
            /\ held' = [held EXCEPT ![t] = {}, ![c] = {t}]
            /\ pc' = [pc EXCEPT ![t] = "switched", ![c] = "back"]
  /\ UNCHANGED <<lock, cpu, regs, lk, old, hartid, frame, enabled>>
-----------------------------------------------------------------------------
Next ==
  \E c \in CPU, k \in Context :
    \/ \E l \in Locks : acquire(c, k, l) \/ release(c, k, l)
    \/ push_off(c, k) \/ holding(c, k) \/ test_and_set(c, k) \/ set_cpu(c, k)
    \/ unlock(c, k) \/ pop_off(c, k)
    \/ trap(c, k) \/ (\E syscall \in BOOLEAN : usertrap(c, k, syscall))
    \/ usertrapret(c, k) \/ w_stvec(c, k) \/ sret(c, k)
    \/ kerneltrap(c, k) \/ kerneltrapret(c, k)
    \/ k = c /\ scheduler(c)
    \/ k \in Thread /\ (swtch(c, k) \/ sched(c, k))

Spec == Init /\ [][Next]_vars
-----------------------------------------------------------------------------
(* Properties *)

\* What a context's code expects of its interrupts while it holds no lock: off
\* in an interrupt handler, otherwise as it last set them.
Expected(k) == Base(k) /\ enabled[k]

\* A spin lock has one holder at a time, across interrupts, preemptions and
\* switches; a CPU takes no interrupt while its context holds one, or in an
\* interrupt handler; when a context has released its last lock its interrupts
\* are as it had set them, on whatever CPU it now is; mycpu() is that CPU; and
\* no panic of acquire, release, pop_off, sched, usertrap or kerneltrap is
\* reached.
LocksSound ==
  /\ \A k \in Context : pc[k] # "panic"
  /\ \A j, k \in Context : held[j] \cap held[k] # {} => j = k
  /\ \A c \in CPU, k \in Context : on[c] = k =>
       /\ pc[k] # "user" => mycpu(c) = c
       /\ sie[c] => held[k] = {} /\ Base(k)
       /\ pc[k] = "run" /\ held[k] = {} => sie[c] = Expected(k)
=============================================================================
