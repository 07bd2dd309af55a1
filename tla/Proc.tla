-------------------------------- MODULE Proc --------------------------------
(***************************************************************************)
(* Processes, kernel/proc.c: fork, exit, wait, kill, sleep and wakeup, and *)
(* the per-CPU scheduler, on several CPUs.                                 *)
(*                                                                         *)
(* Every p->lock and wait_lock is explicit.  As in the code a spinlock     *)
(* belongs to a CPU, not to a process: p->lock is taken by the scheduler   *)
(* and released by the process it switches to, and the other way round.    *)
(* A stretch of code between acquire and release of one p->lock is one     *)
(* step, except where it gives up or takes another of these locks on the   *)
(* way; the locks taken inside (pid_lock, kmem, ftable, itable) are leaves *)
(* and are not modelled.  The table is scanned slot by slot, as in the     *)
(* code, but reparent and wait, which hold wait_lock, step from child to   *)
(* child; the scheduler's position in its endless scan is left open.       *)
(***************************************************************************)
EXTENDS Integers, FiniteSets

CONSTANTS CPU,
          NPROC,     \* slots of the process table, at least one
          MaxPid,    \* bound: pids handed out before fork is no longer called
          KillPid,   \* pids that kill is called with
          None       \* no CPU

Proc == 1..NPROC
initproc == 1
Null == 0            \* a null struct proc *, or chan 0

VARIABLES
  state, parent, killed, chan, pid,   \* struct proc
  lock,        \* p->lock: the CPU that holds it, or None
  wait_lock,   \* the CPU that holds wait_lock, or None
  nextpid,
  cproc,       \* c->proc
  thread,      \* what runs on a CPU: its scheduler or c->proc
  pc, ret,     \* where each process is, and where sched() returns to
  i, j,        \* positions of its scans of the table (j: the one of wakeup)
  havekids,    \* the local of wait
  target       \* the argument of kill

struct == <<state, parent, killed, chan, pid>>
locals == <<ret, i, j, havekids, target>>
cpus == <<cproc, thread>>
vars == <<struct, lock, wait_lock, nextpid, cpus, pc, locals>>

Interruptible == {"user", "alloc", "fork_parent", "fork_run", "wait", "kill",
                  "panic"}

Init ==
  /\ state = [p \in Proc |-> IF p = initproc THEN "RUNNABLE" ELSE "UNUSED"]
  /\ parent = [p \in Proc |-> Null]
  /\ killed = [p \in Proc |-> FALSE]
  /\ chan = [p \in Proc |-> Null]
  /\ pid = [p \in Proc |-> IF p = initproc THEN 1 ELSE 0]
  /\ lock = [p \in Proc |-> None]
  /\ wait_lock = None
  /\ nextpid = 2
  /\ cproc = [c \in CPU |-> Null]
  /\ thread = [c \in CPU |-> "scheduler"]
  /\ pc = [p \in Proc |-> "resume"]
  /\ ret = [p \in Proc |-> "user"]
  /\ i = [p \in Proc |-> 1] /\ j = [p \in Proc |-> 1]
  /\ havekids = [p \in Proc |-> FALSE]
  /\ target = [p \in Proc |-> 0]

\* Process p executes on CPU c and stands at l.
At(c, p, l) == cproc[c] = p /\ thread[c] = "process" /\ pc[p] = l

(* Faulty variants, named for the fault. *)
ChildLockNotTaken(q) == TRUE
InitNotWoken(p) == "reparent"
OrphanKeepsParent(q, p) == parent[q]

Goto(p, l) == pc' = [pc EXCEPT ![p] = l]

\* Back from a system call; its locals are gone.
Return(p) ==
  /\ Goto(p, "user")
  /\ i' = [i EXCEPT ![p] = 1]
  /\ havekids' = [havekids EXCEPT ![p] = FALSE]
  /\ target' = [target EXCEPT ![p] = 0]
  /\ UNCHANGED <<ret, j>>

\* The next slot of a scan.
Advance(p) == i' = [i EXCEPT ![p] = @ + 1] /\ UNCHANGED <<ret, j, havekids, target>>

\* A process that has been killed starts no system call (usertrap).
Syscall(c, p, l) ==
  /\ At(c, p, "user") /\ ~killed[p]
  /\ Goto(p, l)
  /\ UNCHANGED <<struct, lock, wait_lock, nextpid, cpus>>

-----------------------------------------------------------------------------
(* The scheduler and the switch to and from a process *)

Runnable(p) == state[p] = "RUNNABLE"

\* scheduler(): p->lock is kept across the switch.
scheduler(c, p) ==
  /\ thread[c] = "scheduler" /\ cproc[c] = Null
  /\ lock[p] = None /\ Runnable(p)
  /\ lock' = [lock EXCEPT ![p] = c]
  /\ state' = [state EXCEPT ![p] = "RUNNING"]
  /\ cproc' = [cproc EXCEPT ![c] = p]
  /\ thread' = [thread EXCEPT ![c] = "process"]
  /\ UNCHANGED <<parent, killed, chan, pid, wait_lock, nextpid, pc, locals>>

\* The process comes out of sched(), or of forkret, with p->lock held.
resume(c, p) ==
  /\ At(c, p, "resume")
  /\ chan' = [chan EXCEPT ![p] = Null]
  /\ lock' = [lock EXCEPT ![p] = None]
  /\ Goto(p, ret[p])
  /\ ret' = [ret EXCEPT ![p] = "user"]
  /\ UNCHANGED <<state, parent, killed, pid, wait_lock, nextpid, cpus,
                 i, j, havekids, target>>

\* sched(): on to the scheduler of this CPU.
sched(c, p) ==
  /\ At(c, p, "sched")
  /\ thread' = [thread EXCEPT ![c] = "scheduler"]
  /\ Goto(p, "resume")
  /\ UNCHANGED <<struct, lock, wait_lock, nextpid, cproc, locals>>

\* scheduler() after the process has switched back.
switched(c) ==
  /\ thread[c] = "scheduler" /\ cproc[c] # Null
  /\ lock' = [lock EXCEPT ![cproc[c]] = None]
  /\ cproc' = [cproc EXCEPT ![c] = Null]
  /\ UNCHANGED <<struct, wait_lock, nextpid, thread, pc, locals>>

\* Interrupts are on: push_off has turned them off if a spinlock is held.
InterruptsOn(c, p) == \E l \in Interruptible : At(c, p, l)

\* A timer interrupt makes the process give up its CPU.
yield(c, p) ==
  /\ InterruptsOn(c, p)
  /\ lock[p] = None
  /\ lock' = [lock EXCEPT ![p] = c]
  /\ state' = [state EXCEPT ![p] = "RUNNABLE"]
  /\ ret' = [ret EXCEPT ![p] = pc[p]]
  /\ Goto(p, "sched")
  /\ UNCHANGED <<parent, killed, chan, pid, wait_lock, nextpid, cpus,
                 i, j, havekids, target>>
-----------------------------------------------------------------------------
(* fork *)

fork(c, p) ==
  /\ nextpid <= MaxPid
  /\ Syscall(c, p, "alloc")
  /\ UNCHANGED locals

Unused(q) == state[q] = "UNUSED"

\* freeproc(q)
Freed(q) ==
  /\ state' = [state EXCEPT ![q] = "UNUSED"]
  /\ parent' = [parent EXCEPT ![q] = Null]
  /\ killed' = [killed EXCEPT ![q] = FALSE]
  /\ chan' = [chan EXCEPT ![q] = Null]
  /\ pid' = [pid EXCEPT ![q] = 0]

\* One slot of allocproc's scan.  When memory runs out the slot is freed
\* again; otherwise fork copies the parent before it releases np->lock.
allocproc(c, p) ==
  /\ At(c, p, "alloc")
  /\ IF i[p] > NPROC
       THEN Return(p) /\ UNCHANGED <<struct, nextpid>>
       ELSE /\ lock[i[p]] = None
            /\ \/ /\ ~Unused(i[p])
                  /\ Advance(p)
                  /\ UNCHANGED <<struct, nextpid, pc>>
               \/ /\ Unused(i[p])
                  /\ nextpid' = nextpid + 1
                  /\ Freed(i[p])
                  /\ Return(p)
               \/ /\ Unused(i[p])
                  /\ nextpid' = nextpid + 1
                  /\ pid' = [pid EXCEPT ![i[p]] = nextpid]
                  /\ state' = [state EXCEPT ![i[p]] = "USED"]
                  /\ pc' = [pc EXCEPT ![p] = "fork_parent", ![i[p]] = "resume"]
                  /\ UNCHANGED <<parent, killed, chan, locals>>
  /\ UNCHANGED <<lock, wait_lock, cpus>>

fork_parent(c, p) ==
  /\ At(c, p, "fork_parent")
  /\ wait_lock = None
  /\ parent' = [parent EXCEPT ![i[p]] = p]
  /\ Goto(p, "fork_run")
  /\ UNCHANGED <<state, killed, chan, pid, lock, wait_lock, nextpid, cpus, locals>>

fork_run(c, p) ==
  /\ At(c, p, "fork_run")
  /\ lock[i[p]] = None
  /\ state' = [state EXCEPT ![i[p]] = "RUNNABLE"]
  /\ Return(p)
  /\ UNCHANGED <<parent, killed, chan, pid, lock, wait_lock, nextpid, cpus>>
-----------------------------------------------------------------------------
(* exit *)

\* A process exits because it wants to, or because it has been killed.
exit(c, p) ==
  /\ At(c, p, "user")
  /\ IF p = initproc
       THEN Goto(p, "panic") /\ UNCHANGED wait_lock
       ELSE wait_lock = None /\ wait_lock' = c /\ Goto(p, "reparent")
  /\ UNCHANGED <<struct, lock, nextpid, cpus, locals>>

AfterAdoption(p) == "adopt_wakeup"
NewParent(q, p) == initproc

\* The children of p from slot i[p] on; wait_lock protects the parent fields.
Kids(p) == {q \in Proc : q >= i[p] /\ parent[q] = p}
First(S) == CHOOSE q \in S : \A r \in S : q <= r

\* reparent's scan, one child a step; wakeup(initproc) follows each adoption.
reparent(c, p) ==
  /\ At(c, p, "reparent")
  /\ IF Kids(p) = {}
       THEN Goto(p, "exit_wakeup") /\ UNCHANGED <<parent, i>>
       ELSE LET q == First(Kids(p)) IN
            /\ parent' = [parent EXCEPT ![q] = NewParent(q, p)]
            /\ Goto(p, AfterAdoption(p))
            /\ i' = [i EXCEPT ![p] = q + 1]
  /\ UNCHANGED <<state, killed, chan, pid, lock, wait_lock, nextpid, cpus,
                 ret, j, havekids, target>>

SleepsOn(q, ch) == state[q] = "SLEEPING" /\ chan[q] = ch

\* One slot of wakeup(ch)'s scan, called at l and returning to next.
wakeup(c, p, ch, l, next) ==
  /\ At(c, p, l)
  /\ IF j[p] > NPROC
       THEN /\ j' = [j EXCEPT ![p] = 1]
            /\ Goto(p, next)
            /\ UNCHANGED state
       ELSE /\ j[p] # p => lock[j[p]] = None
            /\ j' = [j EXCEPT ![p] = @ + 1]
            /\ state' = IF j[p] # p /\ SleepsOn(j[p], ch)
                          THEN [state EXCEPT ![j[p]] = "RUNNABLE"]
                          ELSE state
            /\ UNCHANGED pc
  /\ UNCHANGED <<parent, killed, chan, pid, lock, wait_lock, nextpid, cpus,
                 ret, i, havekids, target>>

adopt_wakeup(c, p) == wakeup(c, p, initproc, "adopt_wakeup", "reparent")
exit_wakeup(c, p) == wakeup(c, p, parent[p], "exit_wakeup", "exit_zombie")

exit_zombie(c, p) ==
  /\ At(c, p, "exit_zombie")
  /\ lock[p] = None
  /\ lock' = [lock EXCEPT ![p] = c]
  /\ state' = [state EXCEPT ![p] = "ZOMBIE"]
  /\ wait_lock' = None
  /\ Goto(p, "sched")
  /\ i' = [i EXCEPT ![p] = 1]
  /\ UNCHANGED <<parent, killed, chan, pid, nextpid, cpus, ret, j, havekids, target>>
-----------------------------------------------------------------------------
(* wait *)

\* acquire(&wait_lock), on entry and again at the end of sleep().
wait(c, p) ==
  /\ At(c, p, "wait") \/ (At(c, p, "user") /\ ~killed[p])
  /\ wait_lock = None
  /\ wait_lock' = c
  /\ Goto(p, "wait_scan")
  /\ i' = [i EXCEPT ![p] = 1]
  /\ havekids' = [havekids EXCEPT ![p] = FALSE]
  /\ UNCHANGED <<struct, lock, nextpid, cpus, ret, j, target>>

ChildLockFree(q) == lock[q] = None

\* The scan for an exited child, one child a step.  copyout of its status may
\* fail, except for init, which passes a null pointer (user/init.c:51).
wait_scan(c, p) ==
  LET q == First(Kids(p)) IN
  /\ At(c, p, "wait_scan")
  /\ \/ /\ Kids(p) = {}
        /\ Goto(p, "wait_end")
        /\ UNCHANGED <<struct, wait_lock, locals>>
     \/ /\ Kids(p) # {} /\ ChildLockFree(q)
        /\ \/ /\ state[q] # "ZOMBIE"
              /\ i' = [i EXCEPT ![p] = q + 1]
              /\ havekids' = [havekids EXCEPT ![p] = TRUE]
              /\ UNCHANGED <<struct, wait_lock, pc, ret, j, target>>
           \/ /\ state[q] = "ZOMBIE" /\ p # initproc
              /\ wait_lock' = None
              /\ Return(p)
              /\ UNCHANGED struct
           \/ /\ state[q] = "ZOMBIE"
              /\ Freed(q)
              /\ wait_lock' = None
              /\ Return(p)
  /\ UNCHANGED <<lock, nextpid, cpus>>

\* killed(p) takes and releases p->lock before sleep() takes it again.
wait_end(c, p) ==
  /\ At(c, p, "wait_end")
  /\ lock[p] = None
  /\ IF ~havekids[p] \/ killed[p]
       THEN wait_lock' = None /\ Return(p)
       ELSE Goto(p, "wait_sleep") /\ UNCHANGED <<wait_lock, locals>>
  /\ UNCHANGED <<struct, lock, nextpid, cpus>>

\* sleep(p, &wait_lock)
wait_sleep(c, p) ==
  /\ At(c, p, "wait_sleep")
  /\ lock[p] = None
  /\ lock' = [lock EXCEPT ![p] = c]
  /\ wait_lock' = None
  /\ chan' = [chan EXCEPT ![p] = p]
  /\ state' = [state EXCEPT ![p] = "SLEEPING"]
  /\ ret' = [ret EXCEPT ![p] = "wait"]
  /\ Goto(p, "sched")
  /\ UNCHANGED <<parent, killed, pid, nextpid, cpus, i, j, havekids, target>>
-----------------------------------------------------------------------------
(* kill *)

kill(c, p, k) ==
  /\ Syscall(c, p, "kill")
  /\ target' = [target EXCEPT ![p] = k]
  /\ UNCHANGED <<ret, i, j, havekids>>

\* One slot of kill's scan.
kill_scan(c, p) ==
  /\ At(c, p, "kill")
  /\ IF i[p] > NPROC
       THEN Return(p) /\ UNCHANGED struct
       ELSE /\ lock[i[p]] = None
            /\ IF pid[i[p]] = target[p]
                 THEN /\ killed' = [killed EXCEPT ![i[p]] = TRUE]
                      /\ state' = [state EXCEPT ![i[p]] =
                                     IF @ = "SLEEPING" THEN "RUNNABLE" ELSE @]
                      /\ Return(p)
                      /\ UNCHANGED <<parent, chan, pid>>
                 ELSE Advance(p) /\ UNCHANGED <<struct, pc>>
  /\ UNCHANGED <<lock, wait_lock, nextpid, cpus>>
-----------------------------------------------------------------------------
Step(c, p) ==
  \/ resume(c, p) \/ sched(c, p)
  \/ allocproc(c, p) \/ fork_parent(c, p) \/ fork_run(c, p)
  \/ reparent(c, p) \/ adopt_wakeup(c, p) \/ exit_wakeup(c, p) \/ exit_zombie(c, p)
  \/ wait_scan(c, p) \/ wait_end(c, p) \/ wait_sleep(c, p)
  \/ kill_scan(c, p)

Next ==
  \/ \E c \in CPU : switched(c)
  \/ \E c \in CPU, p \in Proc :
       \/ scheduler(c, p) \/ Step(c, p) \/ yield(c, p)
       \/ fork(c, p) \/ exit(c, p) \/ wait(c, p)
       \/ \E k \in KillPid : kill(c, p, k)

Spec == Init /\ [][Next]_vars
-----------------------------------------------------------------------------
(* Properties *)

Executes(c, p) == cproc[c] = p /\ thread[c] = "process"

\* A process runs on one CPU at a time, and a RUNNING process on exactly one:
\* no race between schedulers, yield, wakeup, kill and exit puts one kernel
\* stack on two CPUs, or strands a RUNNING process on none.
OneCpu ==
  /\ \A c, d \in CPU : cproc[c] = cproc[d] /\ cproc[c] # Null => c = d
  /\ \A p \in Proc : state[p] = "RUNNING" => \E c \in CPU : Executes(c, p)

\* freeproc finds nobody at home: a slot that is free, or not yet RUNNABLE,
\* is on no CPU, not even in the switch out of exit() (proc.c:404).
FreedIsGone ==
  \A p \in Proc : state[p] \in {"UNUSED", "USED"} => \A c \in CPU : cproc[c] # p

\* No exit is missed: a process asleep in wait() has no ZOMBIE child, its own
\* or adopted, unless the exiting child or its parent, which holds wait_lock,
\* is still on its way to wake it.
NoMissedExit ==
  wait_lock = None =>
    \A p, q \in Proc : state[p] = "SLEEPING" /\ parent[q] = p => state[q] # "ZOMBIE"

\* The family tree stays rooted: with wait_lock free, whatever exits, every
\* process that is past fork() has a parent that is alive, and its line of
\* ancestors ends at init, without a cycle.
Children == {p \in Proc \ {initproc} : state[p] \notin {"UNUSED", "USED"}}
TreeRooted ==
  wait_lock = None =>
    /\ \A p \in Children :
         parent[p] \in Proc /\ state[parent[p]] \notin {"UNUSED", "USED", "ZOMBIE"}
    /\ \A S \in SUBSET Children : S # {} => \E p \in S : parent[p] \notin S

\* sched() never panics: the process holds its own lock and no other, and
\* has changed its state.
SchedChecks ==
  \A c \in CPU, p \in Proc : At(c, p, "sched") =>
    /\ lock[p] = c /\ wait_lock # c /\ state[p] # "RUNNING"
    /\ \A q \in Proc \ {p} : lock[q] # c

\* kill(pid) marks the process with the given pid (proc.c:589), so a slot
\* that holds no process is never marked.
KilledIsLive == \A p \in Proc : killed[p] => state[p] # "UNUSED"
=============================================================================
