----------------------------- MODULE VirtioDisk -----------------------------
(***************************************************************************)
(* The disk driver, kernel/virtio_disk.c: requests of three descriptors,   *)
(* the avail and used rings it shares with the device, and the interrupt   *)
(* handler.  Each process has one request at a time, for a buffer it has   *)
(* locked, so a buffer is named after the process.                         *)
(*                                                                         *)
(* What runs under vdisk_lock is one step, except for the handler: the     *)
(* device goes on adding to the used ring while the handler reads it.  The *)
(* device is external: it takes requests in order, finishes them in any    *)
(* order, and raises its interrupt some time after it has moved used->idx. *)
(***************************************************************************)
EXTENDS Integers, FiniteSets

CONSTANTS Proc,
          NUM,      \* descriptors
          RING,     \* entries of a ring: NUM in the code; a smaller ring
                    \* that still holds NUM / 3 requests is harder
          IdxMod,   \* 2^16: the ring indices are uint16 and wrap around
          None

ASSUME VirtioAssumption ==
  /\ NUM \in Nat /\ NUM >= 3
  /\ RING \in Nat /\ RING >= NUM \div 3
  /\ IdxMod \in Nat /\ RING < IdxMod /\ IdxMod % RING = 0
  /\ None \notin Proc

Desc == 0..NUM-1
End == NUM            \* no VRING_DESC_F_NEXT

VARIABLES
  free,       \* the free descriptors
  next,       \* desc[i].next
  info,       \* info[i].b
  avail, availIdx,      \* avail->ring, avail->idx
  used, usedIdx,        \* used->ring[].id, used->idx, written by the device
  used_idx,   \* how far the driver has read the used ring
  handler,    \* virtio_disk_intr is running and holds vdisk_lock
  disk,       \* b->disk: the disk owns the buffer
  pc,         \* where each process is in virtio_disk_rw
  idx0,       \* its idx[0]
  seen, pending,        \* device: avail entries read, requests under way
  late, irq,  \* device: an interrupt is due; it has been raised
  moved       \* device: the data of the process's request have been moved

rings == <<avail, availIdx, used, usedIdx>>
device == <<seen, pending, late, moved>>
vars == <<free, next, info, rings, used_idx, handler, disk, pc, idx0, device, irq>>

Init ==
  /\ free = Desc
  /\ next = [d \in Desc |-> End]
  /\ info = [d \in Desc |-> None]
  /\ avail = [k \in 0..RING-1 |-> 0] /\ used = [k \in 0..RING-1 |-> 0]
  /\ availIdx = 0 /\ usedIdx = 0 /\ used_idx = 0 /\ seen = 0
  /\ handler = FALSE /\ late = FALSE /\ irq = FALSE
  /\ disk = [p \in Proc |-> FALSE] /\ moved = [p \in Proc |-> FALSE]
  /\ pc = [p \in Proc |-> "idle"]
  /\ idx0 = [p \in Proc |-> 0]
  /\ pending = {}

(* Faulty variants, named for the fault. *)
HeadOnly(d) == {d}
OneTooMany == used_idx # (usedIdx + 1) % IdxMod
NobodyWoken(f) == f
AvailIdxStays == availIdx

\* alloc_desc takes the lowest free descriptor.
Lowest(S) == CHOOSE d \in S : \A e \in S : d <= e

\* The descriptors of a request: free_chain visits them all.
Follow(d) == IF d = End THEN End ELSE next[d]
Chain(d) == {d, Follow(d), Follow(Follow(d))} \ {End}

FreeChain(d) == Chain(d)

\* alloc3_desc will succeed.
Enough == Cardinality(free) >= 3

\* The handler has a used entry to read.
MoreUsed == used_idx # usedIdx
NextUsed == (used_idx + 1) % IdxMod

NextAvail == (availIdx + 1) % IdxMod
AvailSlot == availIdx % RING

\* wakeup(&disk.free[0])
WakeAllocators(f) == [p \in Proc |-> IF f[p] = "nodesc" THEN "alloc" ELSE f[p]]
-----------------------------------------------------------------------------
(* virtio_disk_rw *)

\* On entry, or woken to look for descriptors again.
Allocating(p) == pc[p] \in {"idle", "alloc"} /\ ~handler

\* Three descriptors, the request on the avail ring, and to sleep on b.
submit(p) ==
  /\ Allocating(p)
  /\ Enough
  /\ LET d0 == Lowest(free)
         d1 == Lowest(free \ {d0})
         d2 == Lowest(free \ {d0, d1})
     IN  /\ free' = free \ {d0, d1, d2}
         /\ next' = [next EXCEPT ![d0] = d1, ![d1] = d2, ![d2] = End]
         /\ info' = [info EXCEPT ![d0] = p]
         /\ avail' = [avail EXCEPT ![AvailSlot] = d0]
         /\ idx0' = [idx0 EXCEPT ![p] = d0]
  /\ availIdx' = NextAvail
  /\ disk' = [disk EXCEPT ![p] = TRUE]
  /\ pc' = [pc EXCEPT ![p] = "asleep"]
  /\ UNCHANGED <<used, usedIdx, used_idx, handler, device, irq>>

\* alloc3_desc gives back the one or two it got, which wakes the others that
\* wait for descriptors, and the process goes to sleep.
no_descriptors(p) ==
  /\ Allocating(p)
  /\ ~Enough
  /\ pc' = [(IF free = {} THEN pc ELSE WakeAllocators(pc)) EXCEPT ![p] = "nodesc"]
  /\ UNCHANGED <<free, next, info, rings, used_idx, handler, disk, idx0, device, irq>>

\* Out of sleep(b): wait on, or free the chain and return.
finish(p) ==
  /\ pc[p] = "woken" /\ ~handler
  /\ IF disk[p]
       THEN /\ pc' = [pc EXCEPT ![p] = "asleep"]
            /\ UNCHANGED <<free, next, info, idx0, moved>>
       ELSE /\ free' = free \cup FreeChain(idx0[p])
            /\ next' = [d \in Desc |-> IF d \in FreeChain(idx0[p]) THEN End ELSE next[d]]
            /\ info' = [info EXCEPT ![idx0[p]] = None]
            /\ idx0' = [idx0 EXCEPT ![p] = 0]
            /\ moved' = [moved EXCEPT ![p] = FALSE]
            /\ pc' = [WakeAllocators(pc) EXCEPT ![p] = "idle"]
  /\ UNCHANGED <<rings, used_idx, handler, disk, seen, pending, late, irq>>

\* kill() wakes a sleeping process; both loops test again.
kill(p) ==
  /\ pc[p] \in {"asleep", "nodesc"}
  /\ pc' = [pc EXCEPT ![p] = IF @ = "asleep" THEN "woken" ELSE "alloc"]
  /\ UNCHANGED <<free, next, info, rings, used_idx, handler, disk, idx0, device, irq>>
-----------------------------------------------------------------------------
(* virtio_disk_intr *)

\* acquire(&vdisk_lock) and the acknowledgement.
virtio_disk_intr ==
  /\ irq /\ ~handler
  /\ handler' = TRUE
  /\ irq' = FALSE
  /\ UNCHANGED <<free, next, info, rings, used_idx, disk, pc, idx0, device>>

intr_next ==
  /\ handler /\ MoreUsed
  /\ LET b == info[used[used_idx % RING]]
     IN  /\ disk' = [disk EXCEPT ![b] = FALSE]
         /\ pc' = [pc EXCEPT ![b] = IF @ = "asleep" THEN "woken" ELSE @]
  /\ used_idx' = NextUsed
  /\ UNCHANGED <<free, next, info, rings, handler, idx0, device, irq>>

intr_return ==
  /\ handler /\ ~MoreUsed
  /\ handler' = FALSE
  /\ UNCHANGED <<free, next, info, rings, used_idx, disk, pc, idx0, device, irq>>
-----------------------------------------------------------------------------
(* The device *)

device_take ==
  /\ seen # availIdx
  /\ pending' = pending \cup {avail[seen % RING]}
  /\ seen' = (seen + 1) % IdxMod
  /\ UNCHANGED <<free, next, info, rings, used_idx, handler, disk, pc, idx0,
                 late, moved, irq>>

\* A read or a write is carried out, and put on the used ring.
device_complete(d) ==
  /\ d \in pending
  /\ pending' = pending \ {d}
  /\ moved' = [p \in Proc |-> moved[p] \/ info[d] = p]
  /\ used' = [used EXCEPT ![usedIdx % RING] = d]
  /\ usedIdx' = (usedIdx + 1) % IdxMod
  /\ late' = TRUE
  /\ UNCHANGED <<free, next, info, avail, availIdx, used_idx, handler, disk, pc,
                 idx0, seen, irq>>

device_interrupt ==
  /\ late
  /\ late' = FALSE
  /\ irq' = TRUE
  /\ UNCHANGED <<free, next, info, rings, used_idx, handler, disk, pc, idx0,
                 seen, pending, moved>>
-----------------------------------------------------------------------------
Intr == virtio_disk_intr \/ intr_next \/ intr_return
Device == device_take \/ (\E d \in Desc : device_complete(d)) \/ device_interrupt

Next ==
  \/ \E p \in Proc : \/ submit(p) \/ no_descriptors(p) \/ finish(p) \/ kill(p)
  \/ Intr \/ Device

\* Interrupts are taken and handled, and the device works.  Nothing is asked
\* of the processes: vdisk_lock is not fair among them.
Fairness ==
  /\ WF_vars(Intr) /\ WF_vars(device_take) /\ WF_vars(device_interrupt)
  /\ \A p \in Proc : WF_vars(\E d \in Desc : info[d] = p /\ device_complete(d))

Spec == Init /\ [][Next]_vars
FairSpec == Spec /\ Fairness
-----------------------------------------------------------------------------
(* Properties *)

InFlight == {p \in Proc : pc[p] \in {"asleep", "woken"}}

\* No descriptor is lost or in two requests, whatever order requests finish
\* in: the chains of the requests in flight and the free descriptors make up
\* the whole table.  (So the panics of free_desc cannot happen.)
DescriptorsAccounted ==
  /\ free = Desc \ UNION {Chain(idx0[p]) : p \in InFlight}
  /\ \A p \in InFlight : Cardinality(Chain(idx0[p])) = 3 /\ info[idx0[p]] = p
  /\ \A p, q \in InFlight : p # q => Chain(idx0[p]) \cap Chain(idx0[q]) = {}

\* virtio_disk_rw returns only after the device has moved the data of this
\* very request: completions are never credited to another buffer, not even
\* out of order or after the ring indices have wrapped.
DoneMeansMoved == \A p \in InFlight : disk[p] \/ moved[p]

\* Nobody sleeps for descriptors while three are free.
AllocatorSleepsForCause ==
  (\E p \in Proc : pc[p] = "nodesc") => ~Enough

\* Every request is carried out, and its process made runnable again.
RequestCompletes ==
  \A p \in Proc : pc[p] = "asleep" ~> ~disk[p] /\ pc[p] # "asleep"
=============================================================================
