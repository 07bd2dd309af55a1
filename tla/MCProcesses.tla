---------------------------- MODULE MCProcesses -----------------------------
(***************************************************************************)
(* Spin locks and the process table, for TLC: a thread, the schedulers and *)
(* their interrupts at the spin locks; a family of four that exits; a      *)
(* small table in which slots are used again and a process is killed.      *)
(* They share no state here; part says which of them a behaviour is one    *)
(* of.                                                                     *)
(***************************************************************************)
EXTENDS Spinlock, TLC

CONSTANTS c1, c2, t1, data

VARIABLES part,
          state, parent, killed, chan, pid, plock, wait_lock, nextpid,
          cproc, thread, ppc, ret, i, j, havekids, target,
          state2, parent2, killed2, chan2, pid2, plock2, wait_lock2, nextpid2,
          cproc2, thread2, ppc2, ret2, i2, j2, havekids2, target2

family == <<state, parent, killed, chan, pid, plock, wait_lock, nextpid,
            cproc, thread, ppc, ret, i, j, havekids, target>>
small == <<state2, parent2, killed2, chan2, pid2, plock2, wait_lock2, nextpid2,
           cproc2, thread2, ppc2, ret2, i2, j2, havekids2, target2>>

\* init and three more, all of them there; nobody is killed.
Family == INSTANCE Proc WITH
  NPROC <- 4, MaxPid <- 4, KillPid <- {}, lock <- plock, pc <- ppc

\* init and two more slots; kill is called for the first child.
Small == INSTANCE Proc WITH
  NPROC <- 3, MaxPid <- 3, KillPid <- {2},
  state <- state2, parent <- parent2, killed <- killed2, chan <- chan2, pid <- pid2,
  lock <- plock2, wait_lock <- wait_lock2, nextpid <- nextpid2, cproc <- cproc2,
  thread <- thread2, pc <- ppc2, ret <- ret2, i <- i2, j <- j2,
  havekids <- havekids2, target <- target2

\* Forks have made each process of the family the parent of the next.
FamilyInit ==
  LET Proc == 1..4 IN
  /\ state = [p \in Proc |-> "RUNNABLE"]
  /\ parent = [p \in Proc |-> p - 1]
  /\ pid = [p \in Proc |-> p]
  /\ nextpid = 5
  /\ killed = [p \in Proc |-> FALSE] /\ chan = [p \in Proc |-> 0]
  /\ plock = [p \in Proc |-> None] /\ wait_lock = None
  /\ cproc = [c \in CPU |-> 0] /\ thread = [c \in CPU |-> "scheduler"]
  /\ ppc = [p \in Proc |-> "resume"] /\ ret = [p \in Proc |-> "user"]
  /\ i = [p \in Proc |-> 1] /\ j = [p \in Proc |-> 1]
  /\ havekids = [p \in Proc |-> FALSE] /\ target = [p \in Proc |-> 0]

ProcessesInit ==
  /\ part \in {"spin", "family", "small"}
  /\ Init /\ FamilyInit /\ Small!Init

ProcessesNext ==
  \/ part = "spin" /\ Next /\ UNCHANGED <<part, family, small>>
  \/ part = "family" /\ Family!Next /\ UNCHANGED <<part, vars, small>>
  \/ part = "small" /\ Small!Next /\ UNCHANGED <<part, vars, family>>
ProcessesSpec == ProcessesInit /\ [][ProcessesNext]_<<part, vars, family, small>>

\* No action or property tells CPUs apart.
Symmetry == Permutations(CPU)
-----------------------------------------------------------------------------
\* A process runs on one CPU at a time, a RUNNING process on exactly one, and a
\* slot that is free, or not yet RUNNABLE, on none, not even in the switch out
\* of exit(); it enters sched() with its own lock and no other.
RunsOnce ==
  /\ Family!OneCpu /\ Family!FreedIsGone /\ Family!SchedChecks
  /\ Small!OneCpu /\ Small!FreedIsGone /\ Small!SchedChecks

\* No exit is missed by a process asleep in wait(), not even that of a child
\* that init has adopted.
ExitsNoticed == Family!NoMissedExit /\ Small!NoMissedExit

\* With wait_lock free, every process past fork() descends from init, through
\* living parents.
FamilyRooted == Family!TreeRooted /\ Small!TreeRooted
=============================================================================
