------------------------------- MODULE Console ------------------------------
(***************************************************************************)
(* Console input: consoleread and consoleintr of kernel/console.c.  The    *)
(* handler edits a ring of characters between the indices w and e, and     *)
(* readers take them between r and w.  The indices are unsigned and wrap.  *)
(* The echo goes to the UART (module Uart).  sleep and wakeup lose no      *)
(* wakeup (module SleepLock), so a step may give up cons.lock and sleep.   *)
(***************************************************************************)
EXTENDS Integers, Sequences

CONSTANTS Proc, Nobody,
          Plain,            \* ordinary characters
          INPUT_BUF_SIZE,
          UINT,             \* the indices are modulo UINT, a multiple of it
          Count             \* sizes passed to read

VARIABLES
  buf, r, w, e,   \* cons
  lock,           \* cons.lock, as consoleread holds it
  l,              \* a read: n and target, and a history of what it copied
  killed

vars == <<buf, r, w, e, lock, l, killed>>

Idle == [pc |-> "user", n |-> 0, target |-> 0, got |-> <<>>]

Init ==
  /\ buf = [k \in 0..INPUT_BUF_SIZE-1 |-> "nul"]
  /\ r = 0 /\ w = 0 /\ e = 0
  /\ lock = Nobody
  /\ l = [p \in Proc |-> Idle]
  /\ killed = {}

Uint(n) == n % UINT
Slot(k) == Uint(k) % INPUT_BUF_SIZE

(* Faulty variants, named for the fault. *)
NobodyWoken == l
EofForgotten(p) == FALSE

\* Something to erase.
Editing == e # w

\* Whether the line is complete, with e at e2 after character c.
Complete(c, e2) == c \in {"newline", "eof"} \/ Uint(e2 - r) = INPUT_BUF_SIZE

\* Whether an end of file is kept for the next read.
KeepEof(p) == l[p].n < l[p].target
-----------------------------------------------------------------------------
(* consoleintr *)

Wakeup == [p \in Proc |-> IF l[p].pc = "asleep" THEN [l[p] EXCEPT !.pc = "acquire"] ELSE l[p]]

\* Control-U takes characters away down to w, or to a newline.
kill_line ==
  /\ lock = Nobody
  /\ \E k \in 0..Uint(e - w) :
       /\ e' = Uint(e - k)
       /\ \A j \in 1..k : buf[Slot(e - j)] # "newline"
       /\ e' = w \/ buf[Slot(e' - 1)] = "newline"
  /\ UNCHANGED <<buf, r, w, lock, l, killed>>

backspace ==
  /\ lock = Nobody /\ Editing
  /\ e' = Uint(e - 1)
  /\ UNCHANGED <<buf, r, w, lock, l, killed>>

character(c) ==
  /\ lock = Nobody /\ Uint(e - r) < INPUT_BUF_SIZE
  /\ buf' = [buf EXCEPT ![Slot(e)] = c]
  /\ e' = Uint(e + 1)
  /\ IF Complete(c, e') THEN w' = e' /\ l' = Wakeup ELSE UNCHANGED <<w, l>>
  /\ UNCHANGED <<r, lock, killed>>
-----------------------------------------------------------------------------
(* consoleread *)

Goto(p, pc) == l' = [l EXCEPT ![p].pc = pc]

\* A process that was killed exits, and another takes its place.
Return(p) == l' = [l EXCEPT ![p] = Idle] /\ lock' = Nobody /\ killed' = killed \ {p}

consoleread(p, n) ==
  /\ l[p].pc = "user"
  /\ l' = [l EXCEPT ![p] = [Idle EXCEPT !.pc = "acquire", !.n = n, !.target = n]]
  /\ UNCHANGED <<buf, r, w, e, lock, killed>>

\* On entry, and at the end of sleep.
acquire(p) ==
  /\ l[p].pc = "acquire" /\ lock = Nobody
  /\ lock' = p /\ Goto(p, "loop")
  /\ UNCHANGED <<buf, r, w, e, killed>>

\* Nothing to read: killed(), and then sleep().
test_killed(p) ==
  /\ l[p].pc = "loop" /\ l[p].n > 0 /\ r = w
  /\ IF p \in killed THEN Return(p) ELSE Goto(p, "sleep") /\ UNCHANGED <<lock, killed>>
  /\ UNCHANGED <<buf, r, w, e>>

sleep(p) ==
  /\ l[p].pc = "sleep"
  /\ Goto(p, "asleep") /\ lock' = Nobody
  /\ UNCHANGED <<buf, r, w, e, killed>>

\* A round of the loop; the copy to user memory may fail.
take(p) ==
  LET c == buf[Slot(r)] IN
  /\ l[p].pc = "loop" /\ l[p].n > 0 /\ r # w
  /\ \/ c = "eof" /\ r' = (IF KeepEof(p) THEN r ELSE Uint(r + 1)) /\ Return(p)
     \/ c # "eof" /\ r' = Uint(r + 1) /\ Return(p)
     \/ /\ c # "eof" /\ r' = Uint(r + 1) /\ UNCHANGED <<lock, killed>>
        /\ l' = [l EXCEPT ![p].n = IF c = "newline" THEN 0 ELSE @ - 1,
                          ![p].got = Append(@, c)]
  /\ UNCHANGED <<buf, w, e>>

\* After a newline, or when all n have been read.
return(p) ==
  /\ l[p].pc = "loop" /\ l[p].n = 0
  /\ Return(p)
  /\ UNCHANGED <<buf, r, w, e>>

\* kill(p) by another process; p leaves a sleep.
kill(p) ==
  /\ p \notin killed
  /\ killed' = killed \cup {p}
  /\ l' = IF l[p].pc = "asleep" THEN [l EXCEPT ![p].pc = "acquire"] ELSE l
  /\ UNCHANGED <<buf, r, w, e, lock>>

Read(p) == acquire(p) \/ test_killed(p) \/ sleep(p) \/ take(p) \/ return(p)

Next ==
  \/ kill_line \/ backspace \/ \E c \in Plain \cup {"newline", "eof"} : character(c)
  \/ \E p \in Proc : Read(p) \/ kill(p) \/ \E n \in Count : consoleread(p, n)

Spec == Init /\ [][Next]_vars
-----------------------------------------------------------------------------
(* Properties *)

Ring(a, b) == [k \in 1..Uint(b - a) |-> buf[Slot(a + k - 1)]]

Lines == INSTANCE LineDiscipline WITH
  Room <- INPUT_BUF_SIZE, line <- Ring(w, e), ready <- Ring(r, w),
  got <- [p \in Proc |-> l[p].got]

\* The ring with its three wrapping indices is a line discipline: however the
\* handler and several readers interleave, what is read is what was typed, as
\* edited, in order and without loss.
IsTerminal == Lines!Spec

\* Nobody sleeps while there is something to read, an end of file that another
\* reader has put back included.
ReaderAwake == \A p \in Proc : l[p].pc = "asleep" => r = w
=============================================================================
