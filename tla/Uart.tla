-------------------------------- MODULE Uart --------------------------------
(***************************************************************************)
(* Console output: consolewrite of kernel/console.c and the transmit side  *)
(* of kernel/uart.c.  Writers put characters in a ring under uart_tx_lock; *)
(* uartstart moves them to the UART, from uartputc and from the interrupt  *)
(* handler.  printf and the echo of input call uartputc_sync, which takes  *)
(* no such lock: between its test of the UART's status and its write,      *)
(* uartstart may write, too.                                               *)
(***************************************************************************)
EXTENDS Integers, Sequences

CONSTANTS Proc, Nobody,
          Sync,              \* CPUs that are in uartputc_sync at one time
          UART_TX_BUF_SIZE,
          UINT,              \* the indices are modulo UINT, a multiple of it
          FIFO,              \* the UART's own queue, more than the CPUs in Sync
          MaxLength,         \* bound: characters in a write
          MaxEcho            \* bound: characters echoed and printed

VARIABLES
  buf, r, w,     \* uart_tx_buf, uart_tx_r and uart_tx_w
  lock,          \* uart_tx_lock: a process, the handler "intr", or Nobody
  hand,          \* the character uartstart has taken from the ring
  fifo,          \* in the UART
  irq, intr,     \* an interrupt is pending; where the handler is
  l,             \* a write: where it is, and the characters left
  sync, echoed,  \* CPUs that have seen an idle UART in uartputc_sync; how often
  order          \* history: what is on its way to the wire, in order of arrival

vars == <<buf, r, w, lock, hand, fifo, irq, intr, l, sync, echoed, order>>

Idle == [pc |-> "user", left |-> 0]

Init ==
  /\ buf = [k \in 0..UART_TX_BUF_SIZE-1 |-> Nobody]
  /\ r = 0 /\ w = 0
  /\ lock = Nobody /\ hand = Nobody /\ fifo = <<>>
  /\ irq = FALSE /\ intr = "idle"
  /\ l = [p \in Proc |-> Idle]
  /\ sync = {} /\ echoed = 0 /\ order = <<>>

(* Faulty variants, named for the fault. *)
NotWoken == l
HoldingRegisterOnly == fifo = <<>>

\* LSR_TX_IDLE: the UART's queue is empty.
TxIdle == fifo = <<>>

\* Whether a character written to THR is kept: uartinit has enabled the queue.
Kept == Len(fifo) < FIFO

Full == w = (r + UART_TX_BUF_SIZE) % UINT

WriteTHR(c) == fifo' = IF Kept THEN Append(fifo, c) ELSE fifo

Wakeup == [p \in Proc |-> IF l[p].pc = "asleep" THEN [l[p] EXCEPT !.pc = "uartputc"] ELSE l[p]]
-----------------------------------------------------------------------------
(* Writers *)

consolewrite(p, n) ==
  /\ l[p].pc = "user"
  /\ l' = [l EXCEPT ![p] = [pc |-> "uartputc", left |-> n]]
  /\ UNCHANGED <<buf, r, w, lock, hand, fifo, irq, intr, sync, echoed, order>>

\* The next character, or sleep; the copy from user memory may have failed.
uartputc(p) ==
  /\ l[p].pc = "uartputc" /\ l[p].left > 0 /\ lock = Nobody
  /\ IF Full THEN l' = [l EXCEPT ![p].pc = "asleep"] /\ UNCHANGED <<buf, w, lock, order>>
     ELSE /\ buf' = [buf EXCEPT ![w % UART_TX_BUF_SIZE] = p]
          /\ w' = (w + 1) % UINT
          /\ lock' = p
          /\ order' = Append(order, p)
          /\ l' = [l EXCEPT ![p].pc = "uartstart"]
  /\ UNCHANGED <<r, hand, fifo, irq, intr, sync, echoed>>

written(p) ==
  /\ l[p].pc = "uartputc"
  /\ l' = [l EXCEPT ![p] = Idle]
  /\ UNCHANGED <<buf, r, w, lock, hand, fifo, irq, intr, sync, echoed, order>>
-----------------------------------------------------------------------------
(* uartstart, by the holder x of the lock *)

\* Take the next character; the UART was idle when this looked.
uartstart(x) ==
  /\ lock = x /\ hand = Nobody /\ w # r /\ TxIdle
  /\ hand' = buf[r % UART_TX_BUF_SIZE]
  /\ r' = (r + 1) % UINT
  /\ l' = Wakeup
  /\ UNCHANGED <<buf, w, lock, fifo, irq, intr, sync, echoed, order>>

uartstart_send(x) ==
  /\ lock = x /\ hand # Nobody
  /\ WriteTHR(hand) /\ hand' = Nobody
  /\ UNCHANGED <<buf, r, w, lock, irq, intr, l, sync, echoed, order>>

\* The ring is empty or the UART busy; the caller releases the lock.
uartstart_return(x) ==
  /\ lock = x /\ hand = Nobody /\ (w = r \/ ~TxIdle)
  /\ lock' = Nobody
  /\ IF x = "intr" THEN intr' = "idle" /\ UNCHANGED l
     ELSE l' = [l EXCEPT ![x] = [pc |-> "uartputc", left |-> @.left - 1]] /\ UNCHANGED intr
  /\ UNCHANGED <<buf, r, w, hand, fifo, irq, sync, echoed, order>>
-----------------------------------------------------------------------------
(* Interrupts, echo, and the device *)

\* The interrupt is claimed; then input is read (module Console).
uartintr ==
  /\ irq /\ intr = "idle"
  /\ irq' = FALSE /\ intr' = "acquire"
  /\ UNCHANGED <<buf, r, w, lock, hand, fifo, l, sync, echoed, order>>

uartintr_acquire ==
  /\ intr = "acquire" /\ lock = Nobody
  /\ lock' = "intr" /\ intr' = "uartstart"
  /\ UNCHANGED <<buf, r, w, hand, fifo, irq, l, sync, echoed, order>>

uartputc_sync(s) ==
  /\ s \notin sync /\ TxIdle /\ echoed < MaxEcho
  /\ sync' = sync \cup {s} /\ echoed' = echoed + 1
  /\ UNCHANGED <<buf, r, w, lock, hand, fifo, irq, intr, l, order>>

sync_send(s) ==
  /\ s \in sync
  /\ WriteTHR("echo")
  /\ sync' = sync \ {s}
  /\ UNCHANGED <<buf, r, w, lock, hand, irq, intr, l, echoed, order>>

\* The UART sends; it interrupts when its queue is empty.
transmit ==
  /\ fifo # <<>>
  /\ fifo' = Tail(fifo)
  /\ irq' = (irq \/ fifo' = <<>>)
  /\ order' = IF Head(fifo) = "echo" THEN order ELSE Tail(order)
  /\ UNCHANGED <<buf, r, w, lock, hand, intr, l, sync, echoed>>

Start(x) == uartstart(x) \/ uartstart_send(x) \/ uartstart_return(x)

Next ==
  \/ uartintr \/ uartintr_acquire \/ transmit
  \/ \E s \in Sync : uartputc_sync(s) \/ sync_send(s)
  \/ \E x \in Proc \cup {"intr"} : Start(x)
  \/ \E p \in Proc : uartputc(p) \/ written(p) \/ \E n \in 1..MaxLength : consolewrite(p, n)

Spec == Init /\ [][Next]_vars

\* The device sends and interrupts, the handler runs, and writers go on.
Progress(p) == uartputc(p) \/ written(p) \/ Start(p)
Serve == uartintr \/ uartintr_acquire \/ Start("intr")
Echo == \E s \in Sync : sync_send(s)
-----------------------------------------------------------------------------
(* Properties *)

Writers(s) == SelectSeq(s, LAMBDA c : c # "echo")
Ring == [k \in 1..((w - r) % UINT) |-> buf[(r + k - 1) % UART_TX_BUF_SIZE]]

\* Every character of a write reaches the wire, in the order in which uartputc
\* took them, although echo and printf write to the UART without the lock.
NothingDropped ==
  Writers(fifo) \o (IF hand = Nobody THEN <<>> ELSE <<hand>>) \o Ring = order

\* A writer that sleeps for room in the ring is woken, once the echo of input
\* leaves the UART idle now and then.
WriterWoken == \A p \in Proc : l[p].pc = "asleep" ~> l[p].pc # "asleep"
=============================================================================
