-------------------------- MODULE VirtioDiskProofs --------------------------
(***************************************************************************)
(* Proofs about the disk driver: for any number of processes, descriptors  *)
(* and ring entries the code's arithmetic admits, no descriptor is lost or *)
(* shared, a request returns only when the device has carried it out, and  *)
(* nobody sleeps for descriptors that are free.                            *)
(***************************************************************************)
EXTENDS VirtioDisk, FiniteSetTheorems, WellFoundedInduction, TLAPS

-----------------------------------------------------------------------------
(* Remainders *)

\* Quotient and remainder.
LEMMA ModDef ==
  ASSUME NEW m \in Nat \ {0}, NEW a \in Int
  PROVE  /\ a \div m \in Int /\ a % m \in 0..(m-1)
         /\ a = m * (a \div m) + (a % m)
  BY SMT

\* The remainder of what is at most one modulus above its range ...
LEMMA ModAbove ==
  ASSUME NEW m \in Nat \ {0}, NEW a \in 0..(2 * m - 1)
  PROVE  a % m = IF a < m THEN a ELSE a - m
  BY SMT

\* ... or below it.
LEMMA ModBelow ==
  ASSUME NEW m \in Nat \ {0}, NEW a \in (-m)..(m - 1)
  PROVE  a % m = IF a < 0 THEN a + m ELSE a
  BY SMT

\* A multiple of m that is smaller than m is 0.
LEMMA SmallMultiple ==
  ASSUME NEW m \in Nat \ {0}, NEW q \in Int, m * q < m, -m < m * q
  PROVE  q = 0
  BY SMT

\* Remainders are unique.
LEMMA ModUnique ==
  ASSUME NEW m \in Nat \ {0}, NEW p \in Int, NEW q \in Int,
         NEW a \in 0..(m-1), NEW b \in 0..(m-1), m * p + a = m * q + b
  PROVE  a = b
<1>1. m * (p - q) = b - a
  BY SMT
<1>2. p - q = 0
  BY <1>1, SmallMultiple
<1>. QED  BY <1>1, <1>2

\* A round of the indices is a whole number of rounds of the ring.
LEMMA ModShift ==
  ASSUME NEW m \in Nat \ {0}, NEW u \in Nat, u % m = 0, NEW i \in Int
  PROVE  (u + i) % m = i % m
<1>. DEFINE k == u \div m    p == i \div m    r == (u + i) \div m
            a == i % m       b == (u + i) % m
<1>1. k \in Int /\ u = m * k
  BY ModDef
<1>2. p \in Int /\ a \in 0..(m-1) /\ i = m * p + a
  BY ModDef
<1>3. r \in Int /\ b \in 0..(m-1) /\ u + i = m * r + b
  BY ModDef
<1>. HIDE DEF k, p, r, a, b
<1>4. m * (k + p) + a = m * r + b
  BY <1>1, <1>2, <1>3
<1>5. a = b
  BY <1>1, <1>2, <1>3, <1>4, ModUnique
<1>. QED  BY <1>5 DEF a, b

\* Positions less than a round apart are different slots of the ring.
LEMMA ModDistinct ==
  ASSUME NEW m \in Nat \ {0}, NEW i \in Int, NEW j \in Int, i < j, j < i + m
  PROVE  i % m # j % m
<1>. DEFINE p == i \div m    r == j \div m    a == i % m    b == j % m
<1>1. p \in Int /\ a \in 0..(m-1) /\ i = m * p + a
  BY ModDef
<1>2. r \in Int /\ b \in 0..(m-1) /\ j = m * r + b
  BY ModDef
<1>. HIDE DEF p, r, a, b
<1>. SUFFICES ASSUME a = b PROVE FALSE
  BY DEF a, b
<1>3. m * (r - p) = j - i
  BY <1>1, <1>2
<1>4. r - p = 0
  BY <1>1, <1>2, <1>3, SmallMultiple
<1>. QED  BY <1>1, <1>3, <1>4
-----------------------------------------------------------------------------
(* A ring of the virtqueue, shared by a producer at hi and a consumer at lo *)

Idx == 0..(IdxMod-1)
Slot == 0..(RING-1)

\* The index after i, and how far hi is ahead of lo: both wrap at IdxMod.
Succ(i) == (i + 1) % IdxMod
Ahead(lo, hi) == (hi - lo) % IdxMod

\* The indices that have been produced and not consumed, and their entries.
Window(lo, hi) == {i \in Idx : Ahead(lo, i) < Ahead(lo, hi)}
Entries(r, lo, hi) == {r[i % RING] : i \in Window(lo, hi)}

\* A ring that is not overfull and holds no entry twice.
RingOK(r, lo, hi) ==
  /\ r \in [Slot -> Desc] /\ lo \in Idx /\ hi \in Idx
  /\ Ahead(lo, hi) <= RING
  /\ \A i, j \in Window(lo, hi) : r[i % RING] = r[j % RING] => i = j
  /\ Cardinality(Entries(r, lo, hi)) = Ahead(lo, hi)
-----------------------------------------------------------------------------
(* Producing and consuming *)

\* RING is positive and smaller than the range of the indices.
LEMMA Sizes ==
  /\ NUM \in Nat /\ NUM >= 3
  /\ RING \in Nat \ {0} /\ IdxMod \in Nat \ {0} /\ RING < IdxMod
  /\ IdxMod % RING = 0
  /\ RING >= NUM \div 3
<1>1. NUM \div 3 >= 1 /\ NUM \div 3 \in Nat
  BY VirtioAssumption, SMT
<1>. QED  BY <1>1, VirtioAssumption

\* How far one index is ahead of another, without remainders.
LEMMA AheadIs ==
  ASSUME NEW lo \in Idx, NEW hi \in Idx
  PROVE  /\ Ahead(lo, hi) = IF lo <= hi THEN hi - lo ELSE hi - lo + IdxMod
         /\ Ahead(lo, hi) \in Nat
<1>1. IdxMod \in Nat \ {0} /\ hi - lo \in (-IdxMod)..(IdxMod-1)
  BY Sizes DEF Idx
<1>2. Ahead(lo, hi) = IF hi - lo < 0 THEN hi - lo + IdxMod ELSE hi - lo
  BY Zenon, <1>1, ModBelow DEF Ahead
<1>. QED  BY <1>1, <1>2 DEF Idx

\* The next index, without remainders.
LEMMA SuccIs ==
  ASSUME NEW i \in Idx
  PROVE  /\ Succ(i) = IF i + 1 < IdxMod THEN i + 1 ELSE 0
         /\ Succ(i) \in Idx
<1>1. IdxMod \in Nat \ {0} /\ i + 1 \in 0..(2 * IdxMod - 1)
  BY Sizes DEF Idx
<1>2. Succ(i) = IF i + 1 < IdxMod THEN i + 1 ELSE (i + 1) - IdxMod
  BY Zenon, <1>1, ModAbove DEF Succ
<1>. QED  BY <1>1, <1>2 DEF Idx

\* One more index has been produced.
LEMMA WindowPush ==
  ASSUME NEW lo \in Idx, NEW hi \in Idx, Ahead(lo, hi) < RING
  PROVE  /\ Ahead(lo, Succ(hi)) = Ahead(lo, hi) + 1
         /\ hi \notin Window(lo, hi)
         /\ Window(lo, Succ(hi)) = Window(lo, hi) \cup {hi}
<1>. DEFINE a == Ahead(lo, hi)
<1>1. IdxMod \in Nat \ {0} /\ RING < IdxMod /\ RING \in Nat
  BY Sizes
<1>2. a = IF lo <= hi THEN hi - lo ELSE hi - lo + IdxMod
  BY Zenon, AheadIs
<1>3. Ahead(lo, Succ(hi)) = a + 1
  <2>. DEFINE s == Succ(hi)    n == Ahead(lo, s)
  <2>1. s \in Idx /\ s = IF hi + 1 < IdxMod THEN hi + 1 ELSE 0
    BY Zenon, SuccIs
  <2>2. n = IF lo <= s THEN s - lo ELSE s - lo + IdxMod
    BY Zenon, <2>1, AheadIs
  <2>3. a < RING
    OBVIOUS
  <2>. HIDE DEF s, n, a
  <2>4. n = a + 1
    BY <1>1, <1>2, <2>1, <2>2, <2>3 DEF Idx
  <2>. QED  BY <2>4 DEF s, n
<1>4. ASSUME NEW i \in Idx
      PROVE  Ahead(lo, i) < a + 1 <=> Ahead(lo, i) < a \/ i = hi
  <2>. DEFINE n == Ahead(lo, i)
  <2>1. n = IF lo <= i THEN i - lo ELSE i - lo + IdxMod
    BY Zenon, AheadIs
  <2>. HIDE DEF n, a
  <2>2. n < a + 1 <=> n < a \/ i = hi
    BY <1>1, <1>2, <2>1 DEF Idx
  <2>. QED  BY <2>2 DEF n
<1>5. ~(a < a)
  BY <1>1, <1>2 DEF Idx
<1>. QED  BY Zenon, <1>3, <1>4, <1>5 DEF Window

\* The oldest index has been consumed.
LEMMA WindowPop ==
  ASSUME NEW lo \in Idx, NEW hi \in Idx, lo # hi
  PROVE  /\ Ahead(Succ(lo), hi) = Ahead(lo, hi) - 1
         /\ lo \in Window(lo, hi)
         /\ Window(Succ(lo), hi) = Window(lo, hi) \ {lo}
<1>. DEFINE s == Succ(lo)    a == Ahead(lo, hi)
<1>1. IdxMod \in Nat \ {0}
  BY Sizes
<1>2. a = IF lo <= hi THEN hi - lo ELSE hi - lo + IdxMod
  BY Zenon, AheadIs
<1>3. s \in Idx /\ s = IF lo + 1 < IdxMod THEN lo + 1 ELSE 0
  BY Zenon, SuccIs
<1>4. ASSUME NEW i \in Idx, i # lo
      PROVE  Ahead(s, i) = Ahead(lo, i) - 1
  <2>. DEFINE m == Ahead(s, i)    n == Ahead(lo, i)
  <2>1. n = IF lo <= i THEN i - lo ELSE i - lo + IdxMod
    BY Zenon, AheadIs
  <2>2. m = IF s <= i THEN i - s ELSE i - s + IdxMod
    BY Zenon, <1>3, AheadIs
  <2>. HIDE DEF m, n, s
  <2>3. m = n - 1
    BY <1>1, <1>3, <1>4, <2>1, <2>2 DEF Idx
  <2>. QED  BY <2>3 DEF m, n
<1>5. ASSUME NEW i \in Idx, i # lo
      PROVE  Ahead(s, i) < a - 1 <=> Ahead(lo, i) < a
  <2>1. Ahead(lo, i) \in Nat /\ a \in Nat
    BY AheadIs
  <2>2. Ahead(s, i) = Ahead(lo, i) - 1
    BY Zenon, <1>4, <1>5
  <2>. HIDE DEF a, s
  <2>. QED  BY <2>1, <2>2
<1>6. ~(Ahead(s, lo) < a - 1)
  <2>. DEFINE m == Ahead(s, lo)
  <2>1. m = IF s <= lo THEN lo - s ELSE lo - s + IdxMod
    BY Zenon, <1>3, AheadIs
  <2>. HIDE DEF m, a, s
  <2>2. ~(m < a - 1)
    BY <1>1, <1>2, <1>3, <2>1 DEF Idx
  <2>. QED  BY <2>2 DEF m
<1>7. Ahead(lo, lo) < a
  <2>. DEFINE m == Ahead(lo, lo)
  <2>1. m = IF lo <= lo THEN lo - lo ELSE lo - lo + IdxMod
    BY Zenon, AheadIs
  <2>. HIDE DEF m, a
  <2>2. m < a
    BY <1>1, <1>2, <2>1 DEF Idx
  <2>. QED  BY <2>2 DEF m
<1>8. Ahead(s, hi) = a - 1
  BY Zenon, <1>4
<1>. QED  BY Zenon, <1>5, <1>6, <1>7, <1>8 DEF Window

\* A producer that is not a ring ahead writes no slot that is still to be read.
LEMMA SlotIsFree ==
  ASSUME NEW lo \in Idx, NEW hi \in Idx, Ahead(lo, hi) < RING,
         NEW i \in Window(lo, hi)
  PROVE  i % RING # hi % RING
<1>. DEFINE a == Ahead(lo, hi)    n == Ahead(lo, i)
<1>1. i \in Idx /\ n < a /\ a < RING
  BY DEF Window
<1>2. \/ i < hi /\ hi < i + RING
      \/ i < IdxMod + hi /\ IdxMod + hi < i + RING
  <2>1. a = IF lo <= hi THEN hi - lo ELSE hi - lo + IdxMod
    BY Zenon, AheadIs
  <2>2. n = IF lo <= i THEN i - lo ELSE i - lo + IdxMod
    BY Zenon, <1>1, AheadIs
  <2>3. IdxMod \in Nat \ {0} /\ RING \in Nat
    BY Sizes
  <2>. HIDE DEF a, n
  <2>. QED  BY <1>1, <2>1, <2>2, <2>3 DEF Idx
<1>3. i \in Int /\ hi \in Int /\ IdxMod + hi \in Int
  BY <1>1, Sizes DEF Idx
<1>4. CASE i < hi /\ hi < i + RING
  BY Zenon, <1>3, <1>4, Sizes, ModDistinct
<1>5. CASE i < IdxMod + hi /\ IdxMod + hi < i + RING
  <2>1. i % RING # (IdxMod + hi) % RING
    BY Zenon, <1>3, <1>5, Sizes, ModDistinct
  <2>2. (IdxMod + hi) % RING = hi % RING
    <3>1. IdxMod \in Nat
      BY Sizes
    <3>. QED  BY Zenon, <1>3, <3>1, Sizes, ModShift
  <2>. QED  BY Zenon, <2>1, <2>2
<1>. QED  BY Zenon, <1>2, <1>4, <1>5

\* Every index has a slot.
LEMMA SlotOf ==
  ASSUME NEW i \in Idx
  PROVE  i % RING \in Slot
<1>1. i \in Int
  BY Sizes DEF Idx
<1>. QED  BY <1>1, Sizes, ModDef DEF Slot

\* The entries of a ring are finitely many descriptors.
LEMMA EntriesFinite ==
  ASSUME NEW r, NEW lo, NEW hi, RingOK(r, lo, hi)
  PROVE  /\ Entries(r, lo, hi) \subseteq Desc
         /\ IsFiniteSet(Entries(r, lo, hi))
<1>1. Entries(r, lo, hi) \subseteq Desc
  BY SlotOf DEF Entries, Window, RingOK
<1>2. IsFiniteSet(Desc)
  BY Sizes, FS_Interval DEF Desc
<1>. QED  BY <1>1, <1>2, FS_Subset

\* s is the ring r with d written into slot k.
Written(r, s, k, d) == s = [r EXCEPT ![k] = d]

\* An entry is put into a ring that has room and does not hold it.
LEMMA Push ==
  ASSUME NEW r, NEW lo, NEW hi, NEW d \in Desc, RingOK(r, lo, hi),
         Ahead(lo, hi) < RING, d \notin Entries(r, lo, hi),
         NEW s, Written(r, s, hi % RING, d)
  PROVE  /\ RingOK(s, lo, Succ(hi))
         /\ Entries(s, lo, Succ(hi)) = Entries(r, lo, hi) \cup {d}
<1>1. lo \in Idx /\ hi \in Idx /\ r \in [Slot -> Desc]
  BY DEF RingOK
<1>2. s \in [Slot -> Desc] /\ s[hi % RING] = d
  BY <1>1, SlotOf DEF Written
<1>3. ASSUME NEW i \in Window(lo, hi)
      PROVE  s[i % RING] = r[i % RING]
  <2>1. i % RING # hi % RING
    BY <1>1, <1>3, SlotIsFree
  <2>2. i % RING \in Slot
    BY SlotOf DEF Window
  <2>. QED  BY <1>1, <2>1, <2>2 DEF Written
<1>4. Window(lo, Succ(hi)) = Window(lo, hi) \cup {hi}
  BY <1>1, WindowPush
<1>5. Entries(s, lo, Succ(hi)) = Entries(r, lo, hi) \cup {d}
  BY Zenon, <1>2, <1>3, <1>4 DEF Entries
<1>6. \A i, j \in Window(lo, Succ(hi)) : s[i % RING] = s[j % RING] => i = j
  <2>. SUFFICES ASSUME NEW i \in Window(lo, hi) \cup {hi}, NEW j \in Window(lo, hi) \cup {hi},
                       s[i % RING] = s[j % RING]
                PROVE  i = j
    BY <1>4
  <2>1. CASE i \in Window(lo, hi) /\ j \in Window(lo, hi)
    BY Zenon, <1>3, <2>1 DEF RingOK
  <2>2. CASE i = hi /\ j \in Window(lo, hi)
    BY Zenon, <1>2, <1>3, <2>2 DEF Entries
  <2>3. CASE i \in Window(lo, hi) /\ j = hi
    BY Zenon, <1>2, <1>3, <2>3 DEF Entries
  <2>. QED  BY Zenon, <2>1, <2>2, <2>3
<1>7. Cardinality(Entries(s, lo, Succ(hi))) = Ahead(lo, Succ(hi))
  <2>1. Cardinality(Entries(r, lo, hi) \cup {d}) = Cardinality(Entries(r, lo, hi)) + 1
    BY EntriesFinite, FS_AddElement
  <2>2. Ahead(lo, Succ(hi)) = Ahead(lo, hi) + 1
    BY <1>1, WindowPush
  <2>. QED  BY <1>5, <2>1, <2>2 DEF RingOK
<1>8. Succ(hi) \in Idx /\ Ahead(lo, Succ(hi)) <= RING
  BY <1>1, SuccIs, AheadIs, WindowPush, Sizes
<1>. QED  BY Zenon, <1>1, <1>2, <1>5, <1>6, <1>7, <1>8 DEF RingOK

\* The oldest entry is taken out of a ring.
LEMMA Pop ==
  ASSUME NEW r, NEW lo, NEW hi, RingOK(r, lo, hi), lo # hi
  PROVE  /\ RingOK(r, Succ(lo), hi)
         /\ r[lo % RING] \in Entries(r, lo, hi)
         /\ Entries(r, Succ(lo), hi) = Entries(r, lo, hi) \ {r[lo % RING]}
<1>1. lo \in Idx /\ hi \in Idx /\ r \in [Slot -> Desc]
  BY DEF RingOK
<1>2. /\ Ahead(Succ(lo), hi) = Ahead(lo, hi) - 1
      /\ lo \in Window(lo, hi)
      /\ Window(Succ(lo), hi) = Window(lo, hi) \ {lo}
  BY <1>1, WindowPop
<1>3. \A i, j \in Window(lo, hi) : r[i % RING] = r[j % RING] => i = j
  BY DEF RingOK
<1>4. r[lo % RING] \in Entries(r, lo, hi)
  BY Zenon, <1>2 DEF Entries
<1>5. Entries(r, Succ(lo), hi) = Entries(r, lo, hi) \ {r[lo % RING]}
  BY Zenon, <1>2, <1>3 DEF Entries
<1>6. Cardinality(Entries(r, Succ(lo), hi)) = Ahead(Succ(lo), hi)
  <2>1. Cardinality(Entries(r, lo, hi) \ {r[lo % RING]}) = Cardinality(Entries(r, lo, hi)) - 1
    BY <1>4, EntriesFinite, FS_RemoveElement
  <2>. QED  BY <1>2, <1>5, <2>1 DEF RingOK
<1>7. Succ(lo) \in Idx /\ Ahead(Succ(lo), hi) <= RING
  BY <1>1, <1>2, SuccIs, AheadIs, Sizes DEF RingOK
<1>8. \A i, j \in Window(Succ(lo), hi) : r[i % RING] = r[j % RING] => i = j
  BY Zenon, <1>2, <1>3
<1>. QED  BY Zenon, <1>1, <1>4, <1>5, <1>6, <1>7, <1>8 DEF RingOK
-----------------------------------------------------------------------------
(* The inductive invariant *)

PcValues == {"idle", "alloc", "nodesc", "asleep", "woken"}

TypeOK ==
  /\ free \in SUBSET Desc
  /\ next \in [Desc -> 0..NUM]
  /\ info \in [Desc -> Proc \cup {None}]
  /\ disk \in [Proc -> BOOLEAN] /\ moved \in [Proc -> BOOLEAN]
  /\ pc \in [Proc -> PcValues]
  /\ idx0 \in [Proc -> Desc]
  /\ pending \in SUBSET Desc

\* The descriptors of a request, in order.
First(p) == idx0[p]
Second(p) == next[First(p)]
Third(p) == next[Second(p)]
Mine(p) == {First(p), Second(p), Third(p)}

\* p's request has three descriptors of its own, linked and ended as
\* free_chain will read them, and info leads from the first one to p.
ChainOK(p) ==
  /\ Second(p) \in Desc /\ Third(p) \in Desc
  /\ First(p) # Second(p) /\ First(p) # Third(p) /\ Second(p) # Third(p)
  /\ next[Third(p)] = End
  /\ Mine(p) \cap free = {}
  /\ info[First(p)] = p

ChainsInv ==
  /\ \A p \in InFlight : ChainOK(p)
  /\ \A p, q \in InFlight : p # q => Mine(p) \cap Mine(q) = {}
  /\ \A d \in Desc \ free : \E p \in InFlight : d \in Mine(p)

\* Three descriptors for each request.
Heads == {idx0[p] : p \in InFlight}
CountInv == Cardinality(free) + 3 * Cardinality(Heads) = NUM

\* Where a request is: on the avail ring, with the device, on the used ring.
Submitted == Entries(avail, seen, availIdx)
Completed == Entries(used, used_idx, usedIdx)

RingsInv ==
  /\ RingOK(avail, seen, availIdx)
  /\ RingOK(used, used_idx, usedIdx)
  /\ Submitted \cap pending = {} /\ Submitted \cap Completed = {}
  /\ pending \cap Completed = {}

\* A request is at exactly one of the three while the disk owns its buffer;
\* nothing else is there; on the used ring its data have been moved.
Busy == Submitted \cup pending \cup Completed
RequestsInv ==
  /\ Busy \subseteq Heads
  /\ \A p \in InFlight : disk[p] <=> First(p) \in Busy
  /\ \A p \in InFlight : First(p) \in Completed => moved[p]
  /\ \A p \in Proc \ InFlight : ~moved[p]

IInv == /\ TypeOK /\ ChainsInv /\ CountInv /\ RingsInv /\ RequestsInv
        /\ DoneMeansMoved /\ AllocatorSleepsForCause
-----------------------------------------------------------------------------
(* Allocation *)

\* alloc_desc finds a free descriptor if there is one.
LEMMA LowestIs ==
  ASSUME NEW S, S \subseteq Desc, S # {}
  PROVE  Lowest(S) \in S
<1>1. S \subseteq Nat
  BY DEF Desc
<1>2. PICK d \in S : \A e \in S : ~(<<e, d>> \in OpToRel(<, Nat))
  BY Zenon, <1>1, NatLessThanWellFounded, WFMin
<1>3. \A e \in S : d <= e
  <2>. TAKE e \in S
  <2>1. d \in Nat /\ e \in Nat
    BY <1>1
  <2>2. ~(e < d)
    BY Zenon, <1>2, <2>1 DEF OpToRel
  <2>. QED  BY <2>1, <2>2
<1>. QED  BY Zenon, <1>3 DEF Lowest

\* There are finitely many descriptors.
LEMMA DescFinite == IsFiniteSet(Desc) /\ Cardinality(Desc) = NUM
  BY Sizes, FS_Interval DEF Desc

\* One descriptor fewer.
LEMMA OneTaken ==
  ASSUME NEW S, S \subseteq Desc, NEW n \in Nat, Cardinality(S) >= n + 1
  PROVE  /\ Lowest(S) \in S
         /\ Cardinality(S \ {Lowest(S)}) = Cardinality(S) - 1
         /\ Cardinality(S \ {Lowest(S)}) >= n
<1>1. IsFiniteSet(S)
  BY Zenon, DescFinite, FS_Subset
<1>2. Cardinality(S) \in Nat
  BY Zenon, <1>1, FS_CardinalityType
<1>3. S # {}
  <2>1. Cardinality(S) # 0
    BY <1>2
  <2>. QED  BY Zenon, <2>1, FS_EmptySet
<1>4. Lowest(S) \in S
  BY Zenon, <1>3, LowestIs
<1>5. Cardinality(S \ {Lowest(S)}) = Cardinality(S) - 1
  BY Zenon, <1>1, <1>4, FS_RemoveElement
<1>. QED  BY <1>2, <1>4, <1>5

\* Three different descriptors that are free.
Three(d0, d1, d2) ==
  /\ d0 \in free /\ d1 \in free /\ d2 \in free
  /\ d0 # d1 /\ d0 # d2 /\ d1 # d2

\* submit with its descriptors as parameters.
SubmitWith(p, d0, d1, d2) ==
  /\ free' = free \ {d0, d1, d2}
  /\ next' = [next EXCEPT ![d0] = d1, ![d1] = d2, ![d2] = End]
  /\ info' = [info EXCEPT ![d0] = p]
  /\ avail' = [avail EXCEPT ![AvailSlot] = d0]
  /\ idx0' = [idx0 EXCEPT ![p] = d0]

\* alloc3_desc succeeds when three descriptors are free, and gets three.
LEMMA SubmitIs ==
  ASSUME TypeOK, NEW p \in Proc, submit(p)
  PROVE  \E d0, d1, d2 \in Desc :
           /\ Three(d0, d1, d2) /\ SubmitWith(p, d0, d1, d2)
           /\ Cardinality(free') = Cardinality(free) - 3
<1>. DEFINE d0 == Lowest(free)
            d1 == Lowest(free \ {d0})
            d2 == Lowest(free \ {d0, d1})
<1>1. free \subseteq Desc /\ Cardinality(free) >= 2 + 1
  BY DEF TypeOK, submit, Enough
<1>2. /\ d0 \in free
      /\ Cardinality(free \ {d0}) = Cardinality(free) - 1
      /\ Cardinality(free \ {d0}) >= 1 + 1
  BY <1>1, OneTaken
<1>3. /\ d1 \in free \ {d0}
      /\ Cardinality((free \ {d0}) \ {d1}) = Cardinality(free \ {d0}) - 1
      /\ Cardinality((free \ {d0}) \ {d1}) >= 0 + 1
  <2>1. free \ {d0} \subseteq Desc
    BY Zenon, <1>1
  <2>. QED  BY <1>2, <2>1, OneTaken
<1>4. (free \ {d0}) \ {d1} = free \ {d0, d1} /\ free \ {d0, d1} \subseteq Desc
  BY Zenon, <1>1
<1>5. /\ d2 \in free \ {d0, d1}
      /\ Cardinality((free \ {d0, d1}) \ {d2}) = Cardinality(free \ {d0, d1}) - 1
  BY <1>3, <1>4, OneTaken
<1>6. (free \ {d0, d1}) \ {d2} = free \ {d0, d1, d2}
  BY Zenon
<1>7. SubmitWith(p, d0, d1, d2)
  BY Zenon DEF submit, SubmitWith
<1>8. Cardinality(free') = Cardinality(free) - 3
  <2>1. IsFiniteSet(free)
    BY Zenon, <1>1, DescFinite, FS_Subset
  <2>2. Cardinality(free) \in Nat
    BY Zenon, <2>1, FS_CardinalityType
  <2>3. free' = free \ {d0, d1, d2}
    BY Zenon, <1>7 DEF SubmitWith
  <2>4. Cardinality(free \ {d0, d1}) = Cardinality(free \ {d0}) - 1
    BY Zenon, <1>3, <1>4
  <2>5. Cardinality(free') = Cardinality(free \ {d0, d1}) - 1
    BY Zenon, <1>5, <1>6, <2>3
  <2>. QED  BY <1>2, <2>2, <2>4, <2>5
<1>9. Three(d0, d1, d2)
  BY Zenon, <1>2, <1>3, <1>5 DEF Three
<1>10. d0 \in Desc /\ d1 \in Desc /\ d2 \in Desc
  BY Zenon, <1>1, <1>9 DEF Three
<1>. QED  BY Zenon, <1>7, <1>8, <1>9, <1>10

\* As many requests as the rings have entries, at most; fewer while three
\* descriptors are free.
LEMMA HeadCount ==
  ASSUME TypeOK, CountInv
  PROVE  /\ Heads \subseteq Desc /\ IsFiniteSet(Heads) /\ Cardinality(Heads) \in Nat
         /\ IsFiniteSet(free) /\ Cardinality(free) \in Nat
         /\ Cardinality(Heads) <= RING
         /\ Enough => Cardinality(Heads) < RING
<1>1. Heads \subseteq Desc /\ free \subseteq Desc
  BY Zenon DEF TypeOK, Heads, InFlight
<1>2. IsFiniteSet(Heads) /\ IsFiniteSet(free)
  BY Zenon, <1>1, DescFinite, FS_Subset
<1>3. Cardinality(Heads) \in Nat /\ Cardinality(free) \in Nat
  BY Zenon, <1>2, FS_CardinalityType
<1>4. ASSUME NEW f \in Nat, NEW h \in Nat, f + 3 * h = NUM
      PROVE  h <= RING /\ (f >= 3 => h < RING)
  BY <1>4, Sizes
<1>. QED  BY <1>1, <1>2, <1>3, <1>4 DEF CountInv, Enough
-----------------------------------------------------------------------------
(* The initial state, and what one step may leave alone *)

\* The state virtio_disk_init leaves.
LEMMA InitInv == Init => IInv
<1>. SUFFICES ASSUME Init PROVE IInv
  OBVIOUS
<1>1. TypeOK
  <2>1. 0 \in Desc /\ End \in 0..NUM
    BY Sizes DEF Desc, End
  <2>. QED  BY <2>1 DEF Init, TypeOK, PcValues
<1>2. InFlight = {} /\ Heads = {} /\ free = Desc
  BY DEF Init, InFlight, Heads
<1>3. ChainsInv
  BY Zenon, <1>2 DEF ChainsInv
<1>4. CountInv
  <2>1. Cardinality(free) = NUM /\ Cardinality(Heads) = 0
    BY Zenon, <1>2, DescFinite, FS_EmptySet
  <2>. QED  BY <2>1, Sizes DEF CountInv
<1>5. ASSUME NEW r, r = [k \in 0..RING-1 |-> 0]
      PROVE  RingOK(r, 0, 0) /\ Entries(r, 0, 0) = {}
  <2>1. 0 \in Idx
    BY Sizes DEF Idx
  <2>2. Ahead(0, 0) = 0
    BY <2>1, AheadIs, Sizes
  <2>3. Window(0, 0) = {}
    BY <2>1, <2>2, AheadIs DEF Window
  <2>4. Entries(r, 0, 0) = {}
    BY Zenon, <2>3 DEF Entries
  <2>5. r \in [Slot -> Desc]
    BY <1>5, Sizes DEF Slot, Desc
  <2>6. Ahead(0, 0) <= RING
    BY <2>2, Sizes
  <2>. QED  BY Zenon, <2>1, <2>2, <2>3, <2>4, <2>5, <2>6, FS_EmptySet DEF RingOK
<1>6. RingsInv /\ Busy = {}
  BY Zenon, <1>5 DEF Init, RingsInv, Busy, Submitted, Completed
<1>7. RequestsInv
  <2>1. \A p \in Proc : ~moved[p]
    BY DEF Init
  <2>. QED  BY Zenon, <1>2, <1>6, <2>1 DEF RequestsInv
<1>8. DoneMeansMoved /\ AllocatorSleepsForCause
  BY <1>2 DEF Init, DoneMeansMoved, AllocatorSleepsForCause
<1>. QED  BY Zenon, <1>1, <1>3, <1>4, <1>6, <1>7, <1>8 DEF IInv

\* The requests and their descriptors stay as they are.
SameChains == InFlight' = InFlight /\ UNCHANGED <<free, next, info, idx0>>

\* So does what is said of them.
LEMMA ChainsKept ==
  ASSUME SameChains
  PROVE  /\ ChainsInv => ChainsInv'
         /\ Heads' = Heads /\ (CountInv => CountInv')
         /\ \A p \in Proc : First(p)' = First(p)
<1>1. \A p \in Proc : First(p)' = First(p) /\ Second(p)' = Second(p) /\ Third(p)' = Third(p)
  BY Zenon DEF SameChains, First, Second, Third
<1>2. \A p \in Proc : Mine(p)' = Mine(p) /\ (ChainOK(p) => ChainOK(p)')
  BY Zenon, <1>1 DEF SameChains, Mine, ChainOK
<1>3. InFlight \subseteq Proc
  BY DEF InFlight
<1>4. Heads' = Heads
  BY Zenon DEF SameChains, Heads
<1>5. ASSUME ChainsInv PROVE ChainsInv'
  <2>1. \A p \in InFlight' : ChainOK(p)'
    BY Zenon, <1>2, <1>3, <1>5 DEF SameChains, ChainsInv
  <2>2. \A p, q \in InFlight' : p # q => Mine(p)' \cap Mine(q)' = {}
    BY Zenon, <1>2, <1>3, <1>5 DEF SameChains, ChainsInv
  <2>3. ASSUME NEW d \in Desc \ free' PROVE \E p \in InFlight' : d \in Mine(p)'
    <3>1. d \in Desc \ free
      BY <2>3 DEF SameChains
    <3>2. PICK p \in InFlight : d \in Mine(p)
      BY Zenon, <1>5, <3>1 DEF ChainsInv
    <3>3. d \in Mine(p)' /\ p \in InFlight'
      BY Zenon, <1>2, <1>3, <3>2 DEF SameChains
    <3>. QED  BY Zenon, <3>3
  <2>. QED  BY Zenon, <2>1, <2>2, <2>3 DEF ChainsInv
<1>6. CountInv => CountInv'
  BY Zenon, <1>4 DEF SameChains, CountInv
<1>. QED  BY Zenon, <1>1, <1>4, <1>5, <1>6

\* The rings, the device's requests and the buffers stay as they are.
SameRequests == UNCHANGED <<rings, used_idx, disk, seen, pending, moved>>

\* A step that changes neither leaves only the allocators to think of.
LEMMA QuietStep ==
  ASSUME IInv, SameChains, SameRequests, pc' \in [Proc -> PcValues],
         AllocatorSleepsForCause'
  PROVE  IInv'
<1>1. TypeOK'
  BY Zenon DEF IInv, TypeOK, SameChains, SameRequests
<1>2. ChainsInv' /\ CountInv' /\ Heads' = Heads
  BY Zenon, ChainsKept DEF IInv
<1>3. Submitted' = Submitted /\ Completed' = Completed /\ Busy' = Busy
  BY Zenon DEF SameRequests, rings, Submitted, Completed, Busy
<1>4. RingsInv'
  BY Zenon, <1>3 DEF IInv, RingsInv, SameRequests, rings
<1>5. RequestsInv'
  <2>1. InFlight \subseteq Proc
    BY DEF InFlight
  <2>. QED  BY Zenon, <1>2, <1>3, <2>1, ChainsKept
            DEF IInv, RequestsInv, SameRequests, SameChains
<1>6. DoneMeansMoved'
  BY Zenon DEF IInv, DoneMeansMoved, SameRequests, SameChains
<1>. QED  BY Zenon, <1>1, <1>2, <1>4, <1>5, <1>6 DEF IInv

\* A process that falls asleep for descriptors, is killed, or is neither.
LEMMA QuietActions ==
  ASSUME IInv,
         \/ \E p \in Proc : no_descriptors(p) \/ kill(p)
         \/ virtio_disk_intr \/ intr_return \/ device_interrupt
         \/ UNCHANGED vars
  PROVE  IInv'
<1>1. TypeOK /\ AllocatorSleepsForCause
  BY DEF IInv
<1>2. CASE \E p \in Proc : no_descriptors(p)
  <2>. PICK p \in Proc : no_descriptors(p)
    BY <1>2
  <2>1. pc' \in [Proc -> PcValues]
    BY <1>1 DEF no_descriptors, WakeAllocators, TypeOK, PcValues
  <2>2. InFlight' = InFlight
    BY <1>1 DEF no_descriptors, Allocating, WakeAllocators, TypeOK, PcValues, InFlight
  <2>3. SameChains /\ SameRequests
    BY <2>2 DEF no_descriptors, SameChains, SameRequests, rings, device
  <2>4. AllocatorSleepsForCause'
    BY DEF no_descriptors, AllocatorSleepsForCause, Enough
  <2>. QED  BY Zenon, <2>1, <2>3, <2>4, QuietStep
<1>3. CASE \E p \in Proc : kill(p)
  <2>. PICK p \in Proc : kill(p)
    BY <1>3
  <2>1. pc' \in [Proc -> PcValues]
    BY <1>1 DEF kill, TypeOK, PcValues
  <2>2. InFlight' = InFlight
    BY <1>1 DEF kill, TypeOK, PcValues, InFlight
  <2>3. SameChains /\ SameRequests
    BY <2>2 DEF kill, SameChains, SameRequests, rings, device
  <2>4. AllocatorSleepsForCause'
    BY <1>1 DEF kill, AllocatorSleepsForCause, Enough, TypeOK
  <2>. QED  BY Zenon, <2>1, <2>3, <2>4, QuietStep
<1>4. CASE virtio_disk_intr \/ intr_return \/ device_interrupt \/ UNCHANGED vars
  <2>1. pc' = pc /\ free' = free
    BY <1>4 DEF virtio_disk_intr, intr_return, device_interrupt, vars
  <2>2. SameChains /\ SameRequests
    BY <1>4 DEF virtio_disk_intr, intr_return, device_interrupt, vars, InFlight,
                SameChains, SameRequests, rings, device
  <2>3. pc' \in [Proc -> PcValues] /\ AllocatorSleepsForCause'
    BY <1>1, <2>1 DEF TypeOK, AllocatorSleepsForCause, Enough
  <2>. QED  BY Zenon, <2>2, <2>3, QuietStep
<1>. QED  BY Zenon, <1>2, <1>3, <1>4
-----------------------------------------------------------------------------
(* A request on its way: avail ring, device, used ring, handler *)

\* The first descriptor of a request leads to it, and to it only.
LEMMA HeadOf ==
  ASSUME TypeOK, ChainsInv, NEW d \in Heads
  PROVE  \E p \in InFlight :
           /\ d = First(p) /\ info[d] = p
           /\ \A q \in InFlight : First(q) = d => q = p
<1>1. PICK p \in InFlight : d = First(p)
  BY Zenon DEF Heads, First
<1>2. info[d] = p
  BY Zenon, <1>1 DEF ChainsInv, ChainOK
<1>3. \A q \in InFlight : First(q) = d => info[d] = q
  BY Zenon DEF ChainsInv, ChainOK
<1>. QED  BY Zenon, <1>1, <1>2, <1>3

\* The device reads the avail ring.
LEMMA TakeStep ==
  ASSUME IInv, device_take
  PROVE  IInv'
<1>. DEFINE e == avail[seen % RING]
<1>1. TypeOK /\ RingOK(avail, seen, availIdx) /\ RingsInv /\ RequestsInv
  BY Zenon DEF IInv, RingsInv
<1>2. seen' = Succ(seen) /\ pending' = pending \cup {e} /\ seen # availIdx
  BY DEF device_take, Succ
<1>3. SameChains /\ pc' = pc /\ disk' = disk /\ moved' = moved
      /\ avail' = avail /\ availIdx' = availIdx
      /\ used' = used /\ usedIdx' = usedIdx /\ used_idx' = used_idx
  BY DEF device_take, SameChains, InFlight, rings
<1>4. /\ RingOK(avail, Succ(seen), availIdx)
      /\ e \in Submitted
      /\ Entries(avail, Succ(seen), availIdx) = Submitted \ {e}
  BY Zenon, <1>1, <1>2, Pop DEF Submitted
<1>5. Submitted' = Submitted \ {e} /\ Completed' = Completed
  BY Zenon, <1>2, <1>3, <1>4 DEF Submitted, Completed
<1>6. Busy' = Busy
  BY Zenon, <1>2, <1>4, <1>5 DEF Busy
<1>7. e \in Desc
  BY Zenon, <1>1, <1>4, EntriesFinite DEF Submitted
<1>. HIDE DEF e
<1>8. RingsInv'
  <2>1. RingOK(avail', seen', availIdx') /\ RingOK(used', used_idx', usedIdx')
    BY Zenon, <1>1, <1>2, <1>3, <1>4 DEF RingsInv
  <2>2. Submitted' \cap pending' = {} /\ Submitted' \cap Completed' = {}
        /\ pending' \cap Completed' = {}
    BY Zenon, <1>1, <1>2, <1>4, <1>5 DEF RingsInv
  <2>. QED  BY Zenon, <2>1, <2>2 DEF RingsInv
<1>9. TypeOK'
  BY <1>1, <1>2, <1>3, <1>7 DEF TypeOK, SameChains
<1>10. InFlight' = InFlight /\ InFlight \subseteq Proc
  BY <1>3 DEF SameChains, InFlight
<1>11. RequestsInv'
  BY Zenon, <1>1, <1>3, <1>5, <1>6, <1>10, ChainsKept DEF RequestsInv
<1>12. DoneMeansMoved' /\ AllocatorSleepsForCause'
  BY Zenon, <1>3, <1>10 DEF IInv, DoneMeansMoved, AllocatorSleepsForCause, Enough, SameChains
<1>. QED  BY Zenon, <1>3, <1>8, <1>9, <1>11, <1>12, ChainsKept DEF IInv

\* The device finishes a request: there is room on the used ring, since the
\* other entries are other requests.
LEMMA CompleteStep ==
  ASSUME IInv, NEW d \in Desc, device_complete(d)
  PROVE  IInv'
<1>1. TypeOK /\ ChainsInv /\ CountInv /\ RingsInv /\ RequestsInv
      /\ RingOK(used, used_idx, usedIdx)
  BY Zenon DEF IInv, RingsInv
<1>2. d \in pending /\ pending' = pending \ {d} /\ usedIdx' = Succ(usedIdx)
      /\ used' = [used EXCEPT ![usedIdx % RING] = d]
  BY DEF device_complete, Succ
<1>3. SameChains /\ pc' = pc /\ disk' = disk /\ seen' = seen
      /\ avail' = avail /\ availIdx' = availIdx /\ used_idx' = used_idx
  BY DEF device_complete, SameChains, InFlight
<1>4. d \in Heads /\ d \notin Completed /\ Completed \subseteq Heads
  BY Zenon, <1>1, <1>2 DEF RequestsInv, RingsInv, Busy
<1>5. Ahead(used_idx, usedIdx) < RING
  <2>1. Completed \in SUBSET (Heads \ {d}) /\ IsFiniteSet(Heads)
    BY Zenon, <1>1, <1>4, HeadCount
  <2>2. IsFiniteSet(Heads \ {d}) /\ Cardinality(Heads \ {d}) = Cardinality(Heads) - 1
    BY Zenon, <1>4, <2>1, FS_RemoveElement
  <2>3. Cardinality(Completed) <= Cardinality(Heads \ {d})
    BY Zenon, <2>1, <2>2, FS_Subset
  <2>4. Cardinality(Completed) = Ahead(used_idx, usedIdx) /\ Cardinality(Completed) \in Nat
    <3>1. IsFiniteSet(Completed)
      BY Zenon, <2>1, <2>2, FS_Subset
    <3>. QED  BY Zenon, <1>1, <3>1, FS_CardinalityType DEF RingOK, Completed
  <2>5. Cardinality(Heads) \in Nat /\ Cardinality(Heads) <= RING
    BY Zenon, <1>1, HeadCount
  <2>. QED  BY <2>2, <2>3, <2>4, <2>5, Sizes
<1>6. /\ RingOK(used', used_idx, Succ(usedIdx))
      /\ Entries(used', used_idx, Succ(usedIdx)) = Completed \cup {d}
  <2>1. d \notin Entries(used, used_idx, usedIdx)
    BY Zenon, <1>4 DEF Completed
  <2>2. Written(used, used', usedIdx % RING, d)
    BY Zenon, <1>2 DEF Written
  <2>3. /\ RingOK(used', used_idx, Succ(usedIdx))
        /\ Entries(used', used_idx, Succ(usedIdx)) = Entries(used, used_idx, usedIdx) \cup {d}
    BY <1>1, <1>5, <2>1, <2>2, Push
  <2>. QED  BY Zenon, <2>3 DEF Completed
<1>7. Submitted' = Submitted /\ Completed' = Completed \cup {d}
  BY Zenon, <1>2, <1>3, <1>6 DEF Submitted, Completed
<1>8. Busy' = Busy
  BY Zenon, <1>2, <1>7 DEF Busy
<1>9. RingsInv'
  <2>1. RingOK(avail', seen', availIdx') /\ RingOK(used', used_idx', usedIdx')
    BY Zenon, <1>1, <1>2, <1>3, <1>6 DEF RingsInv
  <2>2. Submitted' \cap pending' = {} /\ Submitted' \cap Completed' = {}
        /\ pending' \cap Completed' = {}
    BY Zenon, <1>1, <1>2, <1>7 DEF RingsInv
  <2>. QED  BY Zenon, <2>1, <2>2 DEF RingsInv
<1>10. InFlight' = InFlight /\ InFlight \subseteq Proc
  BY <1>3 DEF SameChains, InFlight
<1>11. PICK p \in InFlight : d = First(p) /\ info[d] = p
                             /\ \A q \in InFlight : First(q) = d => q = p
  BY Zenon, <1>1, <1>4, HeadOf
<1>12. /\ moved' \in [Proc -> BOOLEAN] /\ moved'[p]
       /\ \A q \in Proc \ {p} : moved'[q] = moved[q]
  <2>1. \A q \in Proc : moved'[q] = (moved[q] \/ p = q)
    BY <1>11 DEF device_complete
  <2>2. moved' \in [Proc -> BOOLEAN]
    BY DEF device_complete
  <2>3. p \in Proc /\ moved \in [Proc -> BOOLEAN]
    BY Zenon, <1>1, <1>10 DEF TypeOK
  <2>. QED  BY <2>1, <2>2, <2>3
<1>13. TypeOK'
  BY <1>1, <1>2, <1>3, <1>12 DEF TypeOK, SameChains
<1>14. RequestsInv'
  <2>1. Busy' \subseteq Heads'
    BY Zenon, <1>1, <1>3, <1>8, ChainsKept DEF RequestsInv
  <2>2. \A q \in InFlight' : disk'[q] <=> First(q)' \in Busy'
    BY Zenon, <1>1, <1>3, <1>8, <1>10, ChainsKept DEF RequestsInv
  <2>3. \A q \in InFlight' : First(q)' \in Completed' => moved'[q]
    BY Zenon, <1>1, <1>3, <1>7, <1>10, <1>11, <1>12, ChainsKept DEF RequestsInv
  <2>4. \A q \in Proc \ InFlight' : ~moved'[q]
    BY Zenon, <1>1, <1>10, <1>11, <1>12 DEF RequestsInv
  <2>. QED  BY Zenon, <2>1, <2>2, <2>3, <2>4 DEF RequestsInv
<1>15. DoneMeansMoved'
  BY Zenon, <1>3, <1>10, <1>12 DEF IInv, DoneMeansMoved
<1>16. AllocatorSleepsForCause'
  BY Zenon, <1>3 DEF IInv, AllocatorSleepsForCause, Enough, SameChains
<1>. QED  BY Zenon, <1>1, <1>3, <1>9, <1>13, <1>14, <1>15, <1>16, ChainsKept DEF IInv

\* The handler reads the used ring: the buffer it releases is the one whose
\* request was finished.
LEMMA IntrStep ==
  ASSUME IInv, intr_next
  PROVE  IInv'
<1>. DEFINE u == used[used_idx % RING]
<1>1. TypeOK /\ ChainsInv /\ CountInv /\ RingsInv /\ RequestsInv
      /\ RingOK(used, used_idx, usedIdx)
  BY Zenon DEF IInv, RingsInv
<1>2. used_idx # usedIdx /\ used_idx' = Succ(used_idx)
  BY DEF intr_next, MoreUsed, NextUsed, Succ
<1>3. /\ RingOK(used, Succ(used_idx), usedIdx)
      /\ u \in Completed
      /\ Entries(used, Succ(used_idx), usedIdx) = Completed \ {u}
  BY Zenon, <1>1, <1>2, Pop DEF Completed
<1>4. PICK p \in InFlight : u = First(p) /\ info[u] = p
                            /\ \A q \in InFlight : First(q) = u => q = p
  <2>1. u \in Heads
    BY Zenon, <1>1, <1>3 DEF RequestsInv, Busy
  <2>. QED  BY Zenon, <1>1, <2>1, HeadOf
<1>5. /\ disk' = [disk EXCEPT ![p] = FALSE]
      /\ pc' = [pc EXCEPT ![p] = IF @ = "asleep" THEN "woken" ELSE @]
  BY <1>4 DEF intr_next
<1>6. p \in Proc /\ pc[p] \in {"asleep", "woken"}
  BY DEF InFlight
<1>7. InFlight' = InFlight /\ pc' \in [Proc -> PcValues]
  BY <1>1, <1>5, <1>6 DEF InFlight, TypeOK, PcValues
<1>8. UNCHANGED <<free, next, info, rings, handler, idx0, device, irq>>
  BY DEF intr_next
<1>9. SameChains /\ moved' = moved /\ seen' = seen /\ pending' = pending
      /\ avail' = avail /\ availIdx' = availIdx /\ used' = used /\ usedIdx' = usedIdx
  BY <1>7, <1>8 DEF SameChains, device, rings
<1>10. Submitted' = Submitted /\ Completed' = Completed \ {u}
  BY Zenon, <1>2, <1>3, <1>9 DEF Submitted, Completed
<1>. HIDE DEF u
<1>11. Busy' = Busy \ {u}
  BY Zenon, <1>1, <1>3, <1>9, <1>10 DEF Busy, RingsInv
<1>12. RingsInv'
  <2>1. RingOK(avail', seen', availIdx') /\ RingOK(used', used_idx', usedIdx')
    BY Zenon, <1>1, <1>2, <1>3, <1>9 DEF RingsInv
  <2>2. Submitted' \cap pending' = {} /\ Submitted' \cap Completed' = {}
        /\ pending' \cap Completed' = {}
    BY Zenon, <1>1, <1>9, <1>10 DEF RingsInv
  <2>. QED  BY Zenon, <2>1, <2>2 DEF RingsInv
<1>13. /\ disk' \in [Proc -> BOOLEAN] /\ ~disk'[p]
       /\ \A q \in Proc \ {p} : disk'[q] = disk[q]
  BY <1>1, <1>5, <1>6 DEF TypeOK
<1>14. TypeOK'
  BY Zenon, <1>1, <1>7, <1>9, <1>13 DEF TypeOK, SameChains
<1>15. InFlight \subseteq Proc /\ moved[p]
  BY Zenon, <1>1, <1>3, <1>4 DEF InFlight, RequestsInv
<1>16. RequestsInv'
  <2>1. Busy' \subseteq Heads'
    BY Zenon, <1>1, <1>9, <1>11, ChainsKept DEF RequestsInv
  <2>2. ASSUME NEW q \in InFlight' PROVE disk'[q] <=> First(q)' \in Busy'
    <3>1. q \in InFlight /\ First(q)' = First(q)
      BY Zenon, <1>7, <1>9, <1>15, ChainsKept
    <3>2. CASE q = p
      BY Zenon, <1>4, <1>11, <1>13, <3>1, <3>2
    <3>3. CASE q # p
      BY Zenon, <1>1, <1>4, <1>11, <1>13, <1>15, <3>1, <3>3 DEF RequestsInv
    <3>. QED  BY Zenon, <3>2, <3>3
  <2>3. \A q \in InFlight' : First(q)' \in Completed' => moved'[q]
    BY Zenon, <1>1, <1>7, <1>9, <1>10, <1>15, ChainsKept DEF RequestsInv
  <2>4. \A q \in Proc \ InFlight' : ~moved'[q]
    BY Zenon, <1>1, <1>7, <1>9 DEF RequestsInv
  <2>. QED  BY Zenon, <2>1, <2>2, <2>3, <2>4 DEF RequestsInv
<1>17. DoneMeansMoved'
  BY Zenon, <1>7, <1>9, <1>13, <1>15 DEF IInv, DoneMeansMoved
<1>18. AllocatorSleepsForCause'
  <2>1. \A q \in Proc : pc'[q] = "nodesc" => pc[q] = "nodesc"
    BY <1>1, <1>5, <1>6 DEF TypeOK
  <2>. QED  BY Zenon, <1>9, <2>1 DEF IInv, AllocatorSleepsForCause, Enough, SameChains
<1>. QED  BY Zenon, <1>1, <1>9, <1>12, <1>14, <1>16, <1>17, <1>18, ChainsKept DEF IInv
-----------------------------------------------------------------------------
(* A request begins and ends *)

\* Chain stops where the third descriptor does.
LEMMA ChainIs ==
  ASSUME TypeOK, NEW p \in InFlight, ChainOK(p)
  PROVE  Chain(idx0[p]) = Mine(p) /\ Mine(p) \subseteq Desc
<1>1. First(p) \in Desc /\ Second(p) \in Desc /\ Third(p) \in Desc
  BY DEF TypeOK, ChainOK, First, InFlight
<1>2. \A d \in Desc : d # End /\ Follow(d) = next[d]
  BY Sizes DEF Desc, End, Follow
<1>3. Follow(idx0[p]) = Second(p) /\ Follow(Follow(idx0[p])) = Third(p)
  BY Zenon, <1>1, <1>2 DEF First, Second, Third
<1>. QED  BY Zenon, <1>1, <1>2, <1>3 DEF Chain, Mine, First

\* Another request and its descriptors.
LEMMA OthersKept ==
  ASSUME NEW q,
         First(q)' = First(q), info'[First(q)] = info[First(q)],
         \A d \in Mine(q) : next'[d] = next[d],
         ChainOK(q), Mine(q) \cap free' = {}
  PROVE  Mine(q)' = Mine(q) /\ ChainOK(q)'
<1>1. Second(q)' = Second(q)
  BY Zenon DEF Second, Mine
<1>2. Third(q)' = Third(q)
  BY Zenon, <1>1 DEF Third, Mine
<1>3. Mine(q)' = Mine(q)
  BY Zenon, <1>1, <1>2 DEF Mine
<1>4. next'[Third(q)'] = next[Third(q)]
  BY Zenon, <1>2 DEF Mine
<1>. QED  BY Zenon, <1>1, <1>2, <1>3, <1>4 DEF ChainOK

\* virtio_disk_rw, from entry to sleep.
LEMMA SubmitStep ==
  ASSUME IInv, NEW p \in Proc, submit(p)
  PROVE  IInv'
<1>1. TypeOK /\ ChainsInv /\ CountInv /\ RingsInv /\ RequestsInv
      /\ RingOK(avail, seen, availIdx) /\ Enough
  BY Zenon DEF IInv, RingsInv, submit
<1>2. PICK d0 \in Desc, d1 \in Desc, d2 \in Desc :
           /\ Three(d0, d1, d2) /\ SubmitWith(p, d0, d1, d2)
           /\ Cardinality(free') = Cardinality(free) - 3
  BY Zenon, <1>1, SubmitIs
<1>3. /\ availIdx' = Succ(availIdx) /\ pc[p] \in {"idle", "alloc"}
      /\ disk' = [disk EXCEPT ![p] = TRUE]
      /\ pc' = [pc EXCEPT ![p] = "asleep"]
      /\ used' = used /\ usedIdx' = usedIdx /\ used_idx' = used_idx
      /\ seen' = seen /\ pending' = pending /\ moved' = moved
  BY DEF submit, NextAvail, Succ, Allocating, device
<1>4. /\ d0 # d1 /\ d0 # d2 /\ d1 # d2 /\ d0 \in free /\ d1 \in free /\ d2 \in free
      /\ free \subseteq Desc /\ free' = free \ {d0, d1, d2}
  BY Zenon, <1>1, <1>2 DEF Three, SubmitWith, TypeOK
<1>5. /\ next' \in [Desc -> 0..NUM]
      /\ next'[d0] = d1 /\ next'[d1] = d2 /\ next'[d2] = End
      /\ \A d \in Desc \ {d0, d1, d2} : next'[d] = next[d]
  <2>1. next' = [next EXCEPT ![d0] = d1, ![d1] = d2, ![d2] = End]
    BY Zenon, <1>2 DEF SubmitWith
  <2>2. next \in [Desc -> 0..NUM] /\ d1 \in 0..NUM /\ d2 \in 0..NUM /\ End \in 0..NUM
    BY <1>1, Sizes DEF TypeOK, Desc, End
  <2>. QED  BY <1>4, <2>1, <2>2
<1>6. /\ info' \in [Desc -> Proc \cup {None}] /\ info'[d0] = p
      /\ \A d \in Desc \ {d0} : info'[d] = info[d]
  BY <1>1, <1>2 DEF SubmitWith, TypeOK
<1>7. /\ idx0' \in [Proc -> Desc] /\ First(p)' = d0
      /\ \A q \in Proc \ {p} : First(q)' = First(q)
  BY <1>1, <1>2 DEF SubmitWith, TypeOK, First
<1>8. /\ pc' \in [Proc -> PcValues] /\ p \notin InFlight
      /\ InFlight' = InFlight \cup {p} /\ InFlight \subseteq Proc
  BY <1>1, <1>3 DEF TypeOK, InFlight, PcValues
<1>9. /\ disk' \in [Proc -> BOOLEAN] /\ disk'[p]
      /\ \A q \in Proc \ {p} : disk'[q] = disk[q]
  BY <1>1, <1>3 DEF TypeOK
<1>10. TypeOK'
  BY Zenon, <1>1, <1>3, <1>4, <1>5, <1>6, <1>7, <1>8, <1>9 DEF TypeOK
<1>11. ASSUME NEW q \in InFlight
       PROVE  /\ q # p /\ q \in Proc /\ First(q)' = First(q)
              /\ Mine(q)' = Mine(q) /\ ChainOK(q)'
              /\ d0 \notin Mine(q) /\ d1 \notin Mine(q) /\ d2 \notin Mine(q)
  <2>1. q # p /\ q \in Proc /\ First(q)' = First(q)
    BY Zenon, <1>7, <1>8
  <2>2. ChainOK(q) /\ Mine(q) \cap free = {}
    BY Zenon, <1>1 DEF ChainsInv, ChainOK
  <2>3. Mine(q) \subseteq Desc
    BY Zenon, <1>1, <2>2, ChainIs
  <2>4. d0 \notin Mine(q) /\ d1 \notin Mine(q) /\ d2 \notin Mine(q) /\ Mine(q) \cap free' = {}
    BY Zenon, <1>4, <2>2
  <2>5. \A d \in Mine(q) : next'[d] = next[d]
    BY Zenon, <1>5, <2>3, <2>4
  <2>6. info'[First(q)] = info[First(q)]
    BY Zenon, <1>6, <2>3, <2>4 DEF Mine
  <2>. QED  BY Zenon, <2>1, <2>2, <2>4, <2>5, <2>6, OthersKept
<1>12. Mine(p)' = {d0, d1, d2} /\ ChainOK(p)'
  <2>1. First(p)' = d0 /\ Second(p)' = d1 /\ Third(p)' = d2
    BY Zenon, <1>5, <1>7 DEF First, Second, Third
  <2>2. Mine(p)' = {d0, d1, d2} /\ Mine(p)' \cap free' = {}
    BY Zenon, <1>4, <2>1 DEF Mine
  <2>. QED  BY Zenon, <1>4, <1>5, <1>6, <2>1, <2>2 DEF ChainOK
<1>13. ChainsInv'
  <2>1. \A q \in InFlight' : ChainOK(q)'
    BY Zenon, <1>8, <1>11, <1>12
  <2>2. ASSUME NEW q \in InFlight', NEW o \in InFlight', q # o
        PROVE  Mine(q)' \cap Mine(o)' = {}
    <3>1. CASE q \in InFlight /\ o \in InFlight
      BY Zenon, <1>1, <1>11, <2>2, <3>1 DEF ChainsInv
    <3>2. CASE q = p /\ o \in InFlight
      BY Zenon, <1>11, <1>12, <3>2
    <3>3. CASE q \in InFlight /\ o = p
      BY Zenon, <1>11, <1>12, <3>3
    <3>. QED  BY Zenon, <1>8, <2>2, <3>1, <3>2, <3>3
  <2>3. ASSUME NEW d \in Desc \ free' PROVE \E q \in InFlight' : d \in Mine(q)'
    <3>1. CASE d \in {d0, d1, d2}
      BY Zenon, <1>8, <1>12, <3>1
    <3>2. CASE d \notin {d0, d1, d2}
      <4>1. d \in Desc \ free
        BY Zenon, <1>4, <3>2
      <4>2. PICK q \in InFlight : d \in Mine(q)
        BY Zenon, <1>1, <4>1 DEF ChainsInv
      <4>. QED  BY Zenon, <1>8, <1>11, <4>2
    <3>. QED  BY Zenon, <3>1, <3>2
  <2>. QED  BY Zenon, <2>1, <2>2, <2>3 DEF ChainsInv
<1>14. Heads' = Heads \cup {d0} /\ d0 \notin Heads
  <2>1. \A q \in InFlight' : idx0'[q] = First(q)'
    BY Zenon DEF First
  <2>2. Heads' = {First(q)' : q \in InFlight'}
    BY Zenon, <2>1 DEF Heads
  <2>3. Heads = {First(q) : q \in InFlight}
    BY Zenon DEF Heads, First
  <2>4. \A q \in InFlight : First(q) \in Mine(q)
    BY Zenon DEF Mine
  <2>. QED  BY Zenon, <1>7, <1>8, <1>11, <2>2, <2>3, <2>4
<1>15. CountInv'
  <2>1. /\ IsFiniteSet(Heads) /\ Cardinality(Heads) \in Nat
        /\ Cardinality(free) \in Nat
    BY Zenon, <1>1, HeadCount
  <2>2. Cardinality(Heads') = Cardinality(Heads) + 1
    BY Zenon, <1>14, <2>1, FS_AddElement
  <2>. QED  BY <1>1, <1>2, <2>1, <2>2, Sizes DEF CountInv
<1>16. Submitted \subseteq Heads /\ d0 \notin Submitted /\ d0 \notin pending
       /\ d0 \notin Completed /\ d0 \notin Busy
  BY Zenon, <1>1, <1>14 DEF RequestsInv, Busy
<1>17. Ahead(seen, availIdx) < RING
  <2>1. IsFiniteSet(Heads) /\ Cardinality(Heads) \in Nat /\ Cardinality(Heads) < RING
    BY Zenon, <1>1, HeadCount
  <2>2. IsFiniteSet(Submitted) /\ Cardinality(Submitted) <= Cardinality(Heads)
    BY Zenon, <1>16, <2>1, FS_Subset
  <2>3. Cardinality(Submitted) \in Nat
    BY Zenon, <2>2, FS_CardinalityType
  <2>4. Cardinality(Submitted) = Ahead(seen, availIdx)
    BY Zenon, <1>1 DEF RingOK, Submitted
  <2>. QED  BY <2>1, <2>2, <2>3, <2>4, Sizes
<1>18. RingOK(avail', seen', availIdx') /\ Submitted' = Submitted \cup {d0}
  <2>1. Written(avail, avail', availIdx % RING, d0)
    BY Zenon, <1>2 DEF SubmitWith, AvailSlot, Written
  <2>2. d0 \notin Entries(avail, seen, availIdx)
    BY Zenon, <1>16 DEF Submitted
  <2>3. /\ RingOK(avail', seen, Succ(availIdx))
        /\ Entries(avail', seen, Succ(availIdx)) = Entries(avail, seen, availIdx) \cup {d0}
    BY <1>1, <1>17, <2>1, <2>2, Push
  <2>. QED  BY Zenon, <1>3, <2>3 DEF Submitted
<1>19. Completed' = Completed /\ Busy' = Busy \cup {d0}
  BY Zenon, <1>3, <1>18 DEF Completed, Busy
<1>20. RingsInv'
  <2>1. RingOK(used', used_idx', usedIdx')
    BY Zenon, <1>1, <1>3 DEF RingsInv
  <2>2. Submitted' \cap pending' = {} /\ Submitted' \cap Completed' = {}
        /\ pending' \cap Completed' = {}
    BY Zenon, <1>1, <1>3, <1>16, <1>18, <1>19 DEF RingsInv
  <2>. QED  BY Zenon, <1>18, <2>1, <2>2 DEF RingsInv
<1>21. RequestsInv'
  <2>1. Busy' \subseteq Heads'
    BY Zenon, <1>1, <1>14, <1>19 DEF RequestsInv
  <2>2. ASSUME NEW q \in InFlight' PROVE disk'[q] <=> First(q)' \in Busy'
    <3>1. CASE q = p
      BY Zenon, <1>7, <1>9, <1>19, <3>1
    <3>2. CASE q \in InFlight
      <4>1. First(q) # d0
        BY Zenon, <1>11, <3>2 DEF Mine
      <4>2. disk'[q] = disk[q] /\ First(q)' = First(q)
        BY Zenon, <1>9, <1>11, <3>2
      <4>. QED  BY Zenon, <1>1, <1>19, <3>2, <4>1, <4>2 DEF RequestsInv
    <3>. QED  BY Zenon, <1>8, <3>1, <3>2
  <2>3. ASSUME NEW q \in InFlight', First(q)' \in Completed' PROVE moved'[q]
    <3>1. CASE q = p
      BY Zenon, <1>7, <1>16, <1>19, <2>3, <3>1
    <3>2. CASE q \in InFlight
      BY Zenon, <1>1, <1>3, <1>11, <1>19, <2>3, <3>2 DEF RequestsInv
    <3>. QED  BY Zenon, <1>8, <3>1, <3>2
  <2>4. \A q \in Proc \ InFlight' : ~moved'[q]
    BY Zenon, <1>1, <1>3, <1>8 DEF RequestsInv
  <2>. QED  BY Zenon, <2>1, <2>2, <2>3, <2>4 DEF RequestsInv
<1>22. DoneMeansMoved'
  BY Zenon, <1>3, <1>8, <1>9 DEF IInv, DoneMeansMoved
<1>23. AllocatorSleepsForCause'
  <2>1. \A q \in Proc : pc'[q] = "nodesc" => pc[q] = "nodesc"
    BY <1>1, <1>3 DEF TypeOK
  <2>2. Cardinality(free) \in Nat
    BY Zenon, <1>1, HeadCount
  <2>3. Enough' => Enough
    BY <1>2, <2>2 DEF Enough
  <2>. QED  BY Zenon, <2>1, <2>3 DEF IInv, AllocatorSleepsForCause
<1>. QED  BY Zenon, <1>10, <1>13, <1>15, <1>20, <1>21, <1>22, <1>23 DEF IInv

\* Out of sleep, and the disk still owns the buffer.
LEMMA WaitOnStep ==
  ASSUME IInv, NEW p \in Proc, finish(p), disk[p]
  PROVE  IInv'
<1>1. TypeOK /\ AllocatorSleepsForCause /\ pc[p] = "woken"
  BY DEF IInv, finish
<1>2. pc' = [pc EXCEPT ![p] = "asleep"] /\ UNCHANGED <<free, next, info, idx0, moved>>
      /\ UNCHANGED <<rings, used_idx, handler, disk, seen, pending, late, irq>>
  BY DEF finish
<1>3. pc' \in [Proc -> PcValues] /\ InFlight' = InFlight
  BY <1>1, <1>2 DEF TypeOK, PcValues, InFlight
<1>4. SameChains /\ SameRequests
  BY <1>2, <1>3 DEF SameChains, SameRequests
<1>5. AllocatorSleepsForCause'
  <2>1. \A q \in Proc : pc'[q] = "nodesc" => pc[q] = "nodesc"
    BY <1>1, <1>2 DEF TypeOK
  <2>. QED  BY Zenon, <1>1, <1>4, <2>1 DEF AllocatorSleepsForCause, Enough, SameChains
<1>. QED  BY Zenon, <1>3, <1>4, <1>5, QuietStep

\* The request is done: its chain is freed and the allocators are woken.
LEMMA FinishStep ==
  ASSUME IInv, NEW p \in Proc, finish(p), ~disk[p]
  PROVE  IInv'
<1>1. TypeOK /\ ChainsInv /\ CountInv /\ RingsInv /\ RequestsInv
  BY Zenon DEF IInv
<1>2. /\ pc[p] = "woken"
      /\ free' = free \cup FreeChain(idx0[p])
      /\ next' = [d \in Desc |-> IF d \in FreeChain(idx0[p]) THEN End ELSE next[d]]
      /\ info' = [info EXCEPT ![idx0[p]] = None]
      /\ idx0' = [idx0 EXCEPT ![p] = 0]
      /\ moved' = [moved EXCEPT ![p] = FALSE]
      /\ pc' = [WakeAllocators(pc) EXCEPT ![p] = "idle"]
  BY DEF finish
<1>3. /\ used' = used /\ usedIdx' = usedIdx /\ used_idx' = used_idx /\ disk' = disk
      /\ avail' = avail /\ availIdx' = availIdx /\ seen' = seen /\ pending' = pending
  BY DEF finish, rings
<1>4. /\ pc' \in [Proc -> PcValues] /\ p \in InFlight
      /\ InFlight' = InFlight \ {p} /\ InFlight \subseteq Proc
      /\ \A q \in Proc : pc'[q] # "nodesc"
  BY <1>1, <1>2 DEF TypeOK, InFlight, PcValues, WakeAllocators
<1>5. ChainOK(p) /\ FreeChain(idx0[p]) = Mine(p) /\ Mine(p) \subseteq Desc /\ First(p) \in Desc
  <2>1. ChainOK(p)
    BY Zenon, <1>1, <1>4 DEF ChainsInv
  <2>. QED  BY Zenon, <1>1, <1>4, <2>1, ChainIs DEF FreeChain, Mine
<1>6. free' = free \cup Mine(p) /\ free \subseteq Desc /\ Mine(p) \cap free = {}
  BY Zenon, <1>1, <1>2, <1>5 DEF TypeOK, ChainOK
<1>7. /\ next' \in [Desc -> 0..NUM]
      /\ \A d \in Desc \ Mine(p) : next'[d] = next[d]
  <2>1. End \in 0..NUM
    BY Sizes DEF End
  <2>2. next' = [d \in Desc |-> IF d \in Mine(p) THEN End ELSE next[d]]
    BY Zenon, <1>2, <1>5
  <2>. QED  BY <1>1, <2>1, <2>2 DEF TypeOK
<1>8. /\ info' \in [Desc -> Proc \cup {None}]
      /\ \A d \in Desc \ {First(p)} : info'[d] = info[d]
  BY <1>1, <1>2 DEF TypeOK, First
<1>9. /\ idx0' \in [Proc -> Desc]
      /\ \A q \in Proc \ {p} : First(q)' = First(q)
  <2>1. 0 \in Desc
    BY Sizes DEF Desc
  <2>. QED  BY <1>1, <1>2, <2>1 DEF TypeOK, First
<1>10. /\ moved' \in [Proc -> BOOLEAN] /\ ~moved'[p]
       /\ \A q \in Proc \ {p} : moved'[q] = moved[q]
  BY <1>1, <1>2 DEF TypeOK
<1>11. TypeOK'
  <2>1. free' \in SUBSET Desc
    BY Zenon, <1>5, <1>6
  <2>. QED  BY Zenon, <1>1, <1>3, <1>4, <1>7, <1>8, <1>9, <1>10, <2>1 DEF TypeOK
<1>12. ASSUME NEW q \in InFlight, q # p
       PROVE  /\ q \in Proc /\ First(q)' = First(q) /\ First(q) # First(p)
              /\ Mine(q)' = Mine(q) /\ ChainOK(q)'
  <2>1. q \in Proc /\ First(q)' = First(q)
    BY Zenon, <1>4, <1>9, <1>12
  <2>2. ChainOK(q) /\ Mine(q) \cap free = {} /\ Mine(q) \cap Mine(p) = {}
    BY Zenon, <1>1, <1>4, <1>12 DEF ChainsInv, ChainOK
  <2>3. Mine(q) \subseteq Desc
    BY Zenon, <1>1, <2>2, ChainIs
  <2>4. Mine(q) \cap free' = {} /\ First(q) # First(p) /\ First(q) \in Mine(q)
    BY Zenon, <1>6, <2>2 DEF Mine
  <2>5. \A d \in Mine(q) : next'[d] = next[d]
    BY Zenon, <1>7, <2>2, <2>3
  <2>6. info'[First(q)] = info[First(q)]
    BY Zenon, <1>8, <2>3, <2>4
  <2>. QED  BY Zenon, <2>1, <2>2, <2>4, <2>5, <2>6, OthersKept
<1>13. ChainsInv'
  <2>1. \A q \in InFlight' : ChainOK(q)'
    BY Zenon, <1>4, <1>12
  <2>2. \A q, o \in InFlight' : q # o => Mine(q)' \cap Mine(o)' = {}
    BY Zenon, <1>1, <1>4, <1>12 DEF ChainsInv
  <2>3. ASSUME NEW d \in Desc \ free' PROVE \E q \in InFlight' : d \in Mine(q)'
    <3>1. d \in Desc \ free /\ d \notin Mine(p)
      BY Zenon, <1>6
    <3>2. PICK q \in InFlight : d \in Mine(q)
      BY Zenon, <1>1, <3>1 DEF ChainsInv
    <3>3. q # p
      BY Zenon, <3>1, <3>2
    <3>. QED  BY Zenon, <1>4, <1>12, <3>2, <3>3
  <2>. QED  BY Zenon, <2>1, <2>2, <2>3 DEF ChainsInv
<1>14. Heads' = Heads \ {First(p)} /\ First(p) \in Heads
  <2>1. \A q \in InFlight' : idx0'[q] = First(q)'
    BY Zenon DEF First
  <2>2. Heads' = {First(q)' : q \in InFlight'}
    BY Zenon, <2>1 DEF Heads
  <2>3. Heads = {First(q) : q \in InFlight}
    BY Zenon DEF Heads, First
  <2>. QED  BY Zenon, <1>4, <1>12, <2>2, <2>3
<1>15. Cardinality(free') = Cardinality(free) + 3
  <2>1. IsFiniteSet(free) /\ Cardinality(free) \in Nat
    BY Zenon, <1>1, HeadCount
  <2>2. First(p) \notin free /\ Second(p) \notin free /\ Third(p) \notin free
        /\ First(p) # Second(p) /\ First(p) # Third(p) /\ Second(p) # Third(p)
    BY Zenon, <1>5 DEF ChainOK, Mine
  <2>. DEFINE F1 == free \cup {First(p)}    F2 == F1 \cup {Second(p)}
  <2>3. IsFiniteSet(F1) /\ Cardinality(F1) = Cardinality(free) + 1
    BY Zenon, <2>1, <2>2, FS_AddElement
  <2>4. IsFiniteSet(F2) /\ Cardinality(F2) = Cardinality(F1) + 1
    <3>1. Second(p) \notin F1
      BY Zenon, <2>2
    <3>. QED  BY Zenon, <2>3, <3>1, FS_AddElement
  <2>5. Cardinality(F2 \cup {Third(p)}) = Cardinality(F2) + 1
    <3>1. Third(p) \notin F2
      BY Zenon, <2>2
    <3>. HIDE DEF F2
    <3>. QED  BY Zenon, <2>4, <3>1, FS_AddElement
  <2>6. free' = F2 \cup {Third(p)}
    BY Zenon, <1>6 DEF Mine
  <2>. HIDE DEF F1, F2
  <2>. QED  BY <2>1, <2>3, <2>4, <2>5, <2>6
<1>16. CountInv'
  <2>1. /\ IsFiniteSet(Heads) /\ Cardinality(Heads) \in Nat
        /\ Cardinality(free) \in Nat
    BY Zenon, <1>1, HeadCount
  <2>2. Cardinality(Heads') = Cardinality(Heads) - 1
    BY Zenon, <1>14, <2>1, FS_RemoveElement
  <2>. QED  BY <1>1, <1>15, <2>1, <2>2, Sizes DEF CountInv
<1>17. Submitted' = Submitted /\ Completed' = Completed /\ Busy' = Busy
  BY Zenon, <1>3 DEF Submitted, Completed, Busy
<1>18. RingsInv'
  BY Zenon, <1>1, <1>3, <1>17 DEF RingsInv
<1>19. RequestsInv'
  <2>1. First(p) \notin Busy
    BY Zenon, <1>1, <1>4 DEF RequestsInv
  <2>2. Busy' \subseteq Heads'
    BY Zenon, <1>1, <1>14, <1>17, <2>1 DEF RequestsInv
  <2>3. \A q \in InFlight' : disk'[q] <=> First(q)' \in Busy'
    BY Zenon, <1>1, <1>3, <1>4, <1>12, <1>17 DEF RequestsInv
  <2>4. \A q \in InFlight' : First(q)' \in Completed' => moved'[q]
    BY Zenon, <1>1, <1>4, <1>10, <1>12, <1>17 DEF RequestsInv
  <2>5. \A q \in Proc \ InFlight' : ~moved'[q]
    BY Zenon, <1>1, <1>4, <1>10 DEF RequestsInv
  <2>. QED  BY Zenon, <2>2, <2>3, <2>4, <2>5 DEF RequestsInv
<1>20. DoneMeansMoved' /\ AllocatorSleepsForCause'
  BY Zenon, <1>3, <1>4, <1>10 DEF IInv, DoneMeansMoved, AllocatorSleepsForCause
<1>. QED  BY Zenon, <1>11, <1>13, <1>16, <1>18, <1>19, <1>20 DEF IInv
-----------------------------------------------------------------------------
(* The driver *)

\* Every step of the processes, the handler and the device.
LEMMA NextInv == IInv /\ [Next]_vars => IInv'
<1>. SUFFICES ASSUME IInv, [Next]_vars PROVE IInv'
  OBVIOUS
<1>1. CASE \E p \in Proc : submit(p)
  BY Zenon, <1>1, SubmitStep
<1>2. CASE \E p \in Proc : finish(p)
  BY Zenon, <1>2, WaitOnStep, FinishStep
<1>3. CASE \/ \E p \in Proc : no_descriptors(p) \/ kill(p)
           \/ virtio_disk_intr \/ intr_return \/ device_interrupt
           \/ UNCHANGED vars
  BY Zenon, <1>3, QuietActions
<1>4. CASE intr_next
  BY Zenon, <1>4, IntrStep
<1>5. CASE device_take
  BY Zenon, <1>5, TakeStep
<1>6. CASE \E d \in Desc : device_complete(d)
  BY Zenon, <1>6, CompleteStep
<1>. QED  BY Zenon, <1>1, <1>2, <1>3, <1>4, <1>5, <1>6 DEF Next, Intr, Device

\* The invariant holds of the driver and its device, however many processes
\* there are and whatever the sizes of the table and the rings.
THEOREM DriverInvariant == Spec => []IInv
<1>. QED  BY InitInv, NextInv, PTL DEF Spec

\* A set of three.
LEMMA CardinalityThree ==
  ASSUME NEW a, NEW b, NEW c, a # b, a # c, b # c
  PROVE  Cardinality({a, b, c}) = 3
<1>1. IsFiniteSet({a}) /\ Cardinality({a}) = 1
  BY Zenon, FS_Singleton
<1>2. IsFiniteSet({a} \cup {b}) /\ Cardinality({a} \cup {b}) = 2
  <2>1. b \notin {a}
    BY Zenon
  <2>. QED  BY <1>1, <2>1, FS_AddElement
<1>3. Cardinality(({a} \cup {b}) \cup {c}) = 3
  <2>1. c \notin {a} \cup {b}
    BY Zenon
  <2>. QED  BY <1>2, <2>1, FS_AddElement
<1>4. ({a} \cup {b}) \cup {c} = {a, b, c}
  BY Zenon
<1>. QED  BY Zenon, <1>3, <1>4

\* No descriptor is lost or in two requests: the free descriptors and the
\* chains of three of the requests in flight make up the table, so free_desc
\* panics neither on an index nor on a descriptor that is already free.
THEOREM DescriptorsNeverLost == Spec => []DescriptorsAccounted
<1>1. IInv => DescriptorsAccounted
  <2>. SUFFICES ASSUME IInv PROVE DescriptorsAccounted
    OBVIOUS
  <2>1. TypeOK /\ ChainsInv
    BY Zenon DEF IInv
  <2>2. \A p \in InFlight : ChainOK(p) /\ Chain(idx0[p]) = Mine(p) /\ Mine(p) \subseteq Desc
    BY Zenon, <2>1, ChainIs DEF ChainsInv
  <2>3. ASSUME NEW p \in InFlight
        PROVE  Cardinality(Chain(idx0[p])) = 3 /\ info[idx0[p]] = p
    <3>1. /\ First(p) # Second(p) /\ First(p) # Third(p) /\ Second(p) # Third(p)
          /\ info[First(p)] = p
      BY Zenon, <2>2 DEF ChainOK
    <3>2. Cardinality(Mine(p)) = 3
      BY Zenon, <3>1, CardinalityThree DEF Mine
    <3>. QED  BY Zenon, <2>2, <3>1, <3>2 DEF First
  <2>4. \A p, q \in InFlight : p # q => Chain(idx0[p]) \cap Chain(idx0[q]) = {}
    BY Zenon, <2>1, <2>2 DEF ChainsInv
  <2>5. ASSUME NEW d \in Desc
        PROVE  d \in free <=> ~\E p \in InFlight : d \in Chain(idx0[p])
    <3>1. d \notin free => \E p \in InFlight : d \in Mine(p)
      BY Zenon, <2>1 DEF ChainsInv
    <3>2. \A p \in InFlight : d \in Mine(p) => d \notin free
      BY Zenon, <2>2 DEF ChainOK
    <3>. QED  BY Zenon, <2>2, <3>1, <3>2
  <2>6. free \subseteq Desc
    BY Zenon, <2>1 DEF TypeOK
  <2>7. free = Desc \ UNION {Chain(idx0[p]) : p \in InFlight}
    BY Zenon, <2>5, <2>6
  <2>. QED  BY Zenon, <2>3, <2>4, <2>7 DEF DescriptorsAccounted
<1>. QED  BY <1>1, DriverInvariant, PTL

\* virtio_disk_rw returns only after the device has moved the data of this
\* very request, whatever the order of completions and however often the ring
\* indices have wrapped.
THEOREM ReturnsWhenMoved == Spec => []DoneMeansMoved
<1>1. IInv => DoneMeansMoved
  BY DEF IInv
<1>. QED  BY <1>1, DriverInvariant, PTL

\* Nobody sleeps for descriptors while three are free: every chain that
\* free_chain gives back wakes those who wait.
THEOREM NoIdleDescriptors == Spec => []AllocatorSleepsForCause
<1>1. IInv => AllocatorSleepsForCause
  BY DEF IInv
<1>. QED  BY <1>1, DriverInvariant, PTL

\* Neither ring is ever overfull, and a request whose buffer the disk owns is
\* on the avail ring, with the device, or on the used ring, and nowhere else:
\* no entry is overwritten before it is read, though nothing in the code
\* compares the indices of a ring.
THEOREM RingsNeverOverrun == Spec => [](RingsInv /\ RequestsInv)
<1>1. IInv => RingsInv /\ RequestsInv
  BY Zenon DEF IInv
<1>. QED  BY <1>1, DriverInvariant, PTL
=============================================================================
