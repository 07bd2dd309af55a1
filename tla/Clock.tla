-------------------------------- MODULE Clock -------------------------------
(***************************************************************************)
(* The clock: clockintr of kernel/trap.c and sys_sleep of sysproc.c.       *)
(* ticks is unsigned and wraps; sys_sleep compares an unsigned difference  *)
(* with an int, which is converted.                                        *)
(***************************************************************************)
EXTENDS Integers

CONSTANTS Proc, Nobody,
          UINT,      \* ticks is modulo UINT
          Length,    \* what sleep is passed, negative numbers included
          MaxDelay   \* bound: ticks until a runnable process gets tickslock

VARIABLES
  ticks,
  lock,     \* tickslock, as sys_sleep holds it
  l,        \* a call: n and ticks0; histories: ticks since it began and since
            \* it was last asleep
  killed

vars == <<ticks, lock, l, killed>>

Idle == [pc |-> "user", n |-> 0, ticks0 |-> 0, elapsed |-> 0, delay |-> 0]

Init == ticks = 0 /\ lock = Nobody /\ l = [p \in Proc |-> Idle] /\ killed = {}

Uint(n) == n % UINT

(* Faulty variants, named for the fault. *)
ComparesAbsolute(p) == ticks < Uint(l[p].ticks0 + l[p].n)

\* ticks - ticks0 < n, all unsigned.
TooEarly(p) == Uint(ticks - l[p].ticks0) < Uint(l[p].n)

Goto(p, pc) == l' = [l EXCEPT ![p].pc = pc, ![p].delay = 0]

\* A process that was killed exits, and another takes its place.
Return(p) == l' = [l EXCEPT ![p] = Idle] /\ killed' = killed \ {p} /\ lock' = Nobody

Later(x) ==
  IF x.pc = "user" THEN x
  ELSE [x EXCEPT !.elapsed = IF @ < UINT THEN @ + 1 ELSE @,
                 !.pc = IF @ = "asleep" THEN "awake" ELSE @,
                 !.delay = IF x.pc = "awake" THEN @ + 1 ELSE @]

clockintr ==
  /\ lock = Nobody
  /\ \A p \in Proc : l[p].pc = "awake" => l[p].delay < MaxDelay
  /\ ticks' = Uint(ticks + 1)
  /\ l' = [p \in Proc |-> Later(l[p])]
  /\ UNCHANGED <<lock, killed>>

sys_sleep(p, n) ==
  /\ l[p].pc = "user" /\ lock = Nobody
  /\ lock' = p
  /\ l' = [l EXCEPT ![p] = [Idle EXCEPT !.pc = "loop", !.n = n, !.ticks0 = ticks]]
  /\ UNCHANGED <<ticks, killed>>

\* The end of sleep().
acquire(p) ==
  /\ l[p].pc = "awake" /\ lock = Nobody
  /\ lock' = p /\ Goto(p, "loop")
  /\ UNCHANGED <<ticks, killed>>

loop(p) ==
  /\ l[p].pc = "loop"
  /\ IF TooEarly(p) /\ p \notin killed THEN Goto(p, "sleep") /\ UNCHANGED <<lock, killed>>
     ELSE Return(p)
  /\ UNCHANGED ticks

sleep(p) ==
  /\ l[p].pc = "sleep"
  /\ Goto(p, "asleep") /\ lock' = Nobody
  /\ UNCHANGED <<ticks, killed>>

kill(p) ==
  /\ p \notin killed
  /\ killed' = killed \cup {p}
  /\ l' = IF l[p].pc = "asleep" THEN [l EXCEPT ![p].pc = "awake"] ELSE l
  /\ UNCHANGED <<ticks, lock>>

Next ==
  \/ clockintr
  \/ \E p \in Proc : acquire(p) \/ loop(p) \/ sleep(p) \/ kill(p)
                     \/ \E n \in Length : sys_sleep(p, n)

Spec == Init /\ [][Next]_vars
-----------------------------------------------------------------------------
(* Properties *)

\* A sleep ends at the first look at the clock after n ticks, and not before,
\* although ticks wraps: as long as n ticks and the delay of the scheduler
\* together are fewer than the counter can tell apart.  A negative n counts as
\* a large one.
SleepsItsTime ==
  [][\A p \in Proc :
       LET n == Uint(l[p].n) IN
       /\ l[p].pc = "loop" /\ l'[p].pc = "user" /\ p \notin killed => l[p].elapsed >= n
       /\ l'[p].pc = "asleep" /\ n + MaxDelay < UINT => l[p].elapsed < n]_vars
=============================================================================
