----------------------------- MODULE MCSleepers -----------------------------
(***************************************************************************)
(* Users of sleep() and wakeup() that share no state, for TLC: sleep       *)
(* locks, the UART's transmit ring and the clock.  part says which of them *)
(* a behaviour is one of.                                                  *)
(***************************************************************************)
EXTENDS SleepLock, Integers, Sequences

CONSTANTS p1, p2, p3, p4, Nobody, c1

VARIABLES part,
          buf, r, w, lock, hand, fifo, irq, intr, l, sync, echoed, order,
          ticks, tickslock, call, killed

uart == <<buf, r, w, lock, hand, fifo, irq, intr, l, sync, echoed, order>>
clock == <<ticks, tickslock, call, killed>>
all == <<part, vars, uart, clock>>

Writer == {p1, p2}
Length == {-1, 0, 2}

Output == INSTANCE Uart WITH
  Proc <- Writer, Sync <- {c1}, UART_TX_BUF_SIZE <- 2, UINT <- 4, FIFO <- 2,
  MaxLength <- 2, MaxEcho <- 1

Time == INSTANCE Clock WITH
  Proc <- Writer, UINT <- 6, MaxDelay <- 2, lock <- tickslock, l <- call

SleepersInit ==
  /\ part \in {"lock", "uart", "clock"}
  /\ Init /\ Output!Init /\ Time!Init
SleepersNext ==
  \/ part = "lock" /\ Next /\ UNCHANGED <<part, uart, clock>>
  \/ part = "uart" /\ Output!Next /\ UNCHANGED <<part, vars, clock>>
  \/ part = "clock" /\ Time!Next /\ UNCHANGED <<part, vars, uart>>

\* The fairness of SleepLock; and the UART sends and interrupts, its handler
\* runs, and writers go on.
SleepersSpec ==
  /\ SleepersInit
  /\ [][SleepersNext]_all
  /\ \A p \in Proc : WF_vars(part = "lock" /\ Step(p)) /\ WF_vars(part = "lock" /\ releasesleep(p))
  /\ WF_uart(part = "uart" /\ Output!transmit)
  /\ WF_uart(part = "uart" /\ Output!Serve)
  /\ WF_uart(part = "uart" /\ Output!Echo)
  /\ \A p \in Writer : WF_uart(part = "uart" /\ Output!Progress(p))
-----------------------------------------------------------------------------
\* Every character of a write reaches the wire, in the order in which uartputc
\* took them, although echo and printf write to the UART without the lock.
NothingDropped == part = "uart" => Output!NothingDropped

\* A writer that sleeps for room in the ring is woken, once the echo of input
\* leaves the UART idle now and then.
WriterWoken == \A p \in Writer : l[p].pc = "asleep" ~> l[p].pc # "asleep"

\* sys_sleep returns at its first look at the clock after n ticks, and not
\* before, although ticks wraps.
SleepsItsTime == Time!SleepsItsTime
=============================================================================
