------------------------- MODULE BufferCacheProofs --------------------------
(***************************************************************************)
(* The buffer cache, for any number of users, blocks, buffers and pins: a  *)
(* reference count is exact, bget does not panic when there are buffers    *)
(* enough, and cache and disk together are a store in which every block    *)
(* has one value.                                                          *)
(***************************************************************************)
EXTENDS BufferCache, FiniteSetTheorems, FunctionTheorems, SequenceTheorems,
        WellFoundedInduction, TLAPS

TypeOK ==
  /\ blockno \in [Buf -> Block \cup {None}]
  /\ valid \in [Buf -> BOOLEAN]
  /\ refcnt \in [Buf -> Nat]
  /\ data \in [Buf -> Data]
  /\ lock \in [Buf -> Proc \cup {None}]
  /\ disk \in [Block -> Data]
  /\ pinned \subseteq Block
  /\ pc \in [Proc -> {"idle", "lock", "check", "holds", "brelse", "panic"}]
  /\ mine \in [Proc -> Buf \cup {None}]

\* Every buffer is in the list, so the loop of bget over it meets them all.
ListInv == lru \in Seq(Buf) /\ \A u \in Buf : \E k \in 1..Len(lru) : lru[k] = u

\* A user between bget and brelse has a buffer that some block was given; it
\* has the buffer's lock until releasesleep, and what bread returned is valid.
UserInv == \A p \in Proc :
  /\ mine[p] = None <=> pc[p] \in {"idle", "panic"}
  /\ mine[p] # None => blockno[mine[p]] \in Block
  /\ pc[p] \in {"check", "holds"} => lock[mine[p]] = p
  /\ pc[p] = "holds" => valid[mine[p]]

\* No block is in two buffers.
OnceInv == \A u, v \in Buf : blockno[u] = blockno[v] /\ blockno[u] # None => u = v

\* The log's pins: at most MaxPins, each on a block that is in the cache.
PinInv ==
  /\ IsFiniteSet(pinned) /\ Cardinality(pinned) <= MaxPins
  /\ \A b \in pinned : \E u \in Buf : blockno[u] = b /\ valid[u]

\* A valid buffer that is not pinned holds what the disk holds.
CleanInv == \A u \in Buf : valid[u] =>
  /\ blockno[u] \in Block
  /\ blockno[u] \notin pinned => data[u] = disk[blockno[u]]

\* The users of a buffer, and the log's reference to a block.
Count(m, u) == Cardinality({p \in Proc : m[p] = u})
Pin(b, S) == IF b \in S THEN 1 ELSE 0

Exact(r, m, bn, S) == \A u \in Buf : r[u] = Count(m, u) + Pin(bn[u], S)
CountInv == Exact(refcnt, mine, blockno, pinned)
RoomInv ==
  Cardinality(Buf) >= Cardinality(Proc) + MaxPins => \A p \in Proc : pc[p] # "panic"

IInv == /\ TypeOK /\ ListInv /\ UserInv /\ OnceInv /\ PinInv /\ CleanInv
        /\ CountInv /\ RoomInv
-----------------------------------------------------------------------------
(* The list. *)

\* A non-empty set of naturals has a least element.
LEMMA LeastOf ==
  ASSUME NEW T, T \subseteq Nat, T # {}
  PROVE  \E x \in T : \A y \in T : x <= y
<1> DEFINE R == OpToRel(<, Nat)
<1>1. \E x \in T : \A y \in T : ~ (<<y, x>> \in R)
  <2> HIDE DEF R
  <2>1. IsWellFoundedOn(R, Nat)
    BY NatLessThanWellFounded, Zenon DEF R
  <2> QED
    BY <2>1, WFMin, Zenon
<1>2. PICK x \in T : \A y \in T : ~ (<<y, x>> \in R)
  BY <1>1, Zenon
<1>3. ASSUME NEW y \in T PROVE x <= y
  <2>1. ~ (<<y, x>> \in R)
    BY <1>2, Zenon
  <2>2. ~ (y < x)
    BY <2>1 DEF OpToRel
  <2> QED
    BY <2>2
<1> QED
  BY <1>3

\* bget's scan from the tail ends at an unused buffer if there is one.
LEMMA ScanFinds ==
  ASSUME ListInv, NEW S, S \subseteq Buf, S # {}
  PROVE  LeastRecent(S) \in S
<1> DEFINE T == {n \in Nat : \E u \in S : n = Len(lru) - Place(u)}
<1>1. \A u \in S : Place(u) \in 1..Len(lru)
  <2> SUFFICES ASSUME NEW u \in S PROVE Place(u) \in 1..Len(lru)
    OBVIOUS
  <2>1. \E k \in 1..Len(lru) : lru[k] = u
    BY DEF ListInv
  <2>2. DOMAIN lru = 1..Len(lru)
    BY LenProperties DEF ListInv
  <2> QED
    BY <2>1, <2>2, Zenon DEF Place
<1>2. Len(lru) \in Nat
  BY LenProperties DEF ListInv
<1>3. T \subseteq Nat /\ T # {}
  <2>1. PICK u : u \in S
    OBVIOUS
  <2>2. Len(lru) - Place(u) \in Nat
    BY <1>1, <1>2, <2>1
  <2>3. Len(lru) - Place(u) \in T
    BY <2>1, <2>2, Zenon
  <2> QED
    BY <2>3, Zenon
<1>4. PICK n \in T : \A m \in T : n <= m
  <2> HIDE DEF T
  <2> QED
    BY <1>3, LeastOf, Zenon
<1>5. PICK u \in S : n = Len(lru) - Place(u)
  OBVIOUS
<1>6. \A v \in S : Place(v) <= Place(u)
  <2> SUFFICES ASSUME NEW v \in S PROVE Place(v) <= Place(u)
    OBVIOUS
  <2>1. Len(lru) - Place(v) \in T
    BY <1>1, <1>2
  <2> QED
    BY <1>1, <1>2, <1>4, <1>5, <2>1
<1> QED
  BY <1>6, Zenon DEF LeastRecent

\* binit puts every buffer into the list.
LEMMA ListStarts ==
  ASSUME lru = AllBuffers
  PROVE  ListInv
<1> DEFINE n == Cardinality(Buf)
<1>1. n \in Nat /\ ExistsBijection(1..n, Buf)
  BY CacheAssumption, FS_CardinalityType, Zenon
<1>2. PICK f : f \in Bijection(1..n, Buf)
  BY <1>1, Zenon DEF ExistsBijection
<1>3. f \in [1..n -> Buf] /\ \A u \in Buf : \E k \in 1..n : f[k] = u
  BY <1>2, Zenon DEF Bijection, Surjection
<1>4. lru \in [1..n -> Buf] /\ \A u \in Buf : \E k \in 1..n : lru[k] = u
  BY <1>3, Zenon DEF AllBuffers
<1>5. lru \in Seq(Buf) /\ Len(lru) = n
  BY <1>1, <1>4, IsASeq, LenProperties
<1> QED
  BY <1>4, <1>5, Zenon DEF ListInv

\* Taking one element out of a sequence keeps the others.
LEMMA RemoveKeeps ==
  ASSUME NEW S, NEW q \in Seq(S), NEW k \in 1..Len(q)
  PROVE  LET r == SubSeq(q, 1, k - 1) \o SubSeq(q, k + 1, Len(q))
         IN  /\ r \in Seq(S)
             /\ \A i \in 1..Len(q) : i # k => \E j \in 1..Len(r) : r[j] = q[i]
<1> DEFINE n == Len(q)
           s == SubSeq(q, 1, k - 1)
           t == SubSeq(q, k + 1, Len(q))
<1>1. n \in Nat /\ k \in Nat /\ \A i \in 1..n : q[i] \in S
  BY LenProperties, ElementOfSeq
<1>2. 1 \in Int /\ k - 1 \in Int /\ k + 1 \in Int /\ n \in Int
  BY <1>1
<1>3. (\A i \in 1..(k - 1) : q[i] \in S) /\ (\A i \in (k + 1)..n : q[i] \in S)
  BY <1>1
<1>4. s \in Seq(S) /\ Len(s) = k - 1 /\ \A i \in 1..(k - 1) : s[i] = q[i]
  BY <1>1, <1>2, <1>3, SubSeqProperties
<1>5. t \in Seq(S) /\ Len(t) = n - k /\ \A i \in 1..(n - k) : t[i] = q[k + i]
  BY <1>1, <1>2, <1>3, SubSeqProperties
<1> HIDE DEF s, t
<1>6. /\ s \o t \in Seq(S)
      /\ Len(s \o t) = Len(s) + Len(t)
      /\ \A i \in 1..(Len(s) + Len(t)) :
           (s \o t)[i] = IF i <= Len(s) THEN s[i] ELSE t[i - Len(s)]
  BY <1>4, <1>5, ConcatProperties, Zenon
<1> DEFINE r == s \o t
<1>8. r \in Seq(S) /\ Len(r) = n - 1
  <2>1. Len(s) + Len(t) = n - 1
    BY <1>1, <1>4, <1>5
  <2> QED
    BY <1>6, <2>1, Zenon
<1>9. ASSUME NEW i \in 1..n, i # k
      PROVE  \E j \in 1..Len(r) : r[j] = q[i]
  <2>1. CASE i < k
    <3>1. i \in 1..(k - 1) /\ i <= Len(s)
      BY <1>1, <1>4, <2>1
    <3>2. i \in 1..Len(r) /\ i \in 1..(Len(s) + Len(t))
      BY <1>1, <1>6, <1>8, <2>1
    <3>3. r[i] = s[i] /\ s[i] = q[i]
      BY <1>4, <1>6, <3>1, <3>2
    <3> QED
      BY <3>2, <3>3, Zenon
  <2>2. CASE i > k
    <3> DEFINE j == i - k
    <3>1. /\ j \in 1..(n - k) /\ k + j = i
          /\ ~ (i - 1 <= Len(s)) /\ (i - 1) - Len(s) = j
      BY <1>1, <1>4, <2>2
    <3>2. i - 1 \in 1..Len(r) /\ i - 1 \in 1..(Len(s) + Len(t))
      BY <1>1, <1>6, <1>8, <2>2
    <3>3. r[i - 1] = t[j] /\ t[j] = q[i]
      BY <1>5, <1>6, <3>1, <3>2, Zenon
    <3> QED
      BY <3>2, <3>3, Zenon
  <2> QED
    BY <1>1, <1>9, <2>1, <2>2
<1> QED
  BY <1>8, <1>9, Zenon DEF s, t

\* Unlinking a buffer and linking it at the head loses none.
LEMMA ListMoves ==
  ASSUME ListInv, NEW w \in Buf, lru' = MovedToFront(w)
  PROVE  ListInv'
<1> DEFINE n == Len(lru)
           k == Place(w)
           r == SubSeq(lru, 1, k - 1) \o SubSeq(lru, k + 1, Len(lru))
<1>1. n \in Nat /\ DOMAIN lru = 1..n
  BY LenProperties DEF ListInv
<1>2. k \in 1..n /\ lru[k] = w
  <2>1. \E j \in DOMAIN lru : lru[j] = w
    BY <1>1 DEF ListInv
  <2> QED
    BY <1>1, <2>1, Zenon DEF Place
<1> HIDE DEF k
<1>3. /\ r \in Seq(Buf)
      /\ \A i \in 1..n : i # k => \E j \in 1..Len(r) : r[j] = lru[i]
  BY <1>2, RemoveKeeps, Zenon DEF ListInv
<1>4. lru' = <<w>> \o r
  BY Zenon DEF MovedToFront, k
<1> HIDE DEF r
<1>5. <<w>> \in Seq(Buf) /\ Len(<<w>>) = 1 /\ <<w>>[1] = w
  OBVIOUS
<1>6. /\ lru' \in Seq(Buf) /\ Len(lru') = 1 + Len(r)
      /\ lru'[1] = w
      /\ \A i \in 1..(1 + Len(r)) : ~ (i <= 1) => lru'[i] = r[i - 1]
  <2> DEFINE h == <<w>>
  <2>1. h \in Seq(Buf)
    BY <1>5
  <2> HIDE DEF h
  <2>2. /\ h \o r \in Seq(Buf) /\ Len(h \o r) = Len(h) + Len(r)
        /\ \A i \in 1..(Len(h) + Len(r)) :
             (h \o r)[i] = IF i <= Len(h) THEN h[i] ELSE r[i - Len(h)]
    BY <1>3, <2>1, ConcatProperties, Zenon
  <2>3. Len(h) = 1
    BY <1>5 DEF h
  <2>4. lru' = h \o r
    BY <1>4 DEF h
  <2>5. h[1] = w
    BY <1>5 DEF h
  <2>6. 1 \in 1..(1 + Len(r)) /\ 1 <= 1
    BY <1>3, LenProperties
  <2>7. \A i \in 1..(1 + Len(r)) : lru'[i] = IF i <= 1 THEN h[i] ELSE r[i - 1]
    BY <2>2, <2>3, <2>4
  <2>8. lru' \in Seq(Buf) /\ Len(lru') = 1 + Len(r)
    BY <2>2, <2>3, <2>4
  <2> QED
    BY <2>5, <2>6, <2>7, <2>8, Zenon
<1>7. Len(r) \in Nat
  BY <1>3, LenProperties
<1>8. ASSUME NEW u \in Buf PROVE \E j \in 1..Len(lru') : lru'[j] = u
  <2>1. CASE u = w
    BY <1>5, <1>6, <1>7, <2>1
  <2>2. CASE u # w
    <3>1. PICK i \in 1..n : lru[i] = u
      BY Zenon DEF ListInv
    <3>2. PICK j \in 1..Len(r) : r[j] = u
      BY <1>2, <1>3, <2>2, <3>1, Zenon
    <3>3. j + 1 \in 1..(1 + Len(r)) /\ ~ (j + 1 <= 1) /\ (j + 1) - 1 = j
      BY <1>7, <3>2
    <3> QED
      BY <1>6, <3>2, <3>3, Zenon
  <2> QED
    BY <2>1, <2>2
<1> QED
  BY <1>6, <1>8, Zenon DEF ListInv
-----------------------------------------------------------------------------
(* Counting users. *)

\* A function with one value replaced.
Sets(g, f, x, y) == g = [f EXCEPT ![x] = y]

\* A buffer has a user exactly when the number of its users is not zero.
LEMMA CountType ==
  ASSUME NEW m, NEW u
  PROVE  /\ Count(m, u) \in Nat
         /\ Count(m, u) = 0 <=> \A p \in Proc : m[p] # u
<1> DEFINE S == {p \in Proc : m[p] = u}
<1>1. S \in SUBSET Proc /\ IsFiniteSet(Proc)
  BY CacheAssumption, Zenon
<1>2. IsFiniteSet(S)
  BY <1>1, FS_Subset, Zenon
<1>3. Cardinality(S) \in Nat /\ (Cardinality(S) = 0 <=> S = {})
  BY <1>2, FS_CardinalityType, FS_EmptySet, Zenon
<1>4. S = {} <=> \A p \in Proc : m[p] # u
  BY Zenon
<1>5. Count(m, u) = Cardinality(S)
  BY Zenon DEF Count
<1> QED
  BY <1>3, <1>4, <1>5, Zenon

\* bget adds a user to one buffer.
LEMMA CountJoin ==
  ASSUME NEW m \in [Proc -> Buf \cup {None}], NEW p \in Proc, NEW w \in Buf,
         m[p] = None, NEW m2, Sets(m2, m, p, w)
  PROVE  /\ Count(m2, w) = Count(m, w) + 1
         /\ \A u \in Buf : u # w => Count(m2, u) = Count(m, u)
<1> DEFINE S == {q \in Proc : m[q] = w}
<1>1. None \notin Buf /\ IsFiniteSet(Proc)
  BY CacheAssumption, Zenon
<1>2. S \in SUBSET Proc /\ p \notin S
  BY <1>1, Zenon
<1>3. IsFiniteSet(S)
  BY <1>1, <1>2, FS_Subset, Zenon
<1>4. \A q \in Proc : m2[q] = IF q = p THEN w ELSE m[q]
  BY Zenon DEF Sets
<1>5. {q \in Proc : m2[q] = w} = S \cup {p}
  BY <1>4, Zenon
<1>6. Cardinality(S \cup {p}) = Cardinality(S) + 1
  BY <1>2, <1>3, FS_AddElement, Zenon
<1>7. ASSUME NEW u \in Buf, u # w PROVE Count(m2, u) = Count(m, u)
  <2>1. {q \in Proc : m2[q] = u} = {q \in Proc : m[q] = u}
    BY <1>1, <1>4, <1>7
  <2> QED
    BY <2>1, Zenon DEF Count
<1> QED
  BY <1>5, <1>6, <1>7, Zenon DEF Count

\* brelse takes one away.
LEMMA CountLeave ==
  ASSUME NEW m \in [Proc -> Buf \cup {None}], NEW p \in Proc, NEW w \in Buf,
         m[p] = w, NEW m2, Sets(m2, m, p, None)
  PROVE  /\ Count(m2, w) = Count(m, w) - 1
         /\ \A u \in Buf : u # w => Count(m2, u) = Count(m, u)
<1> DEFINE S == {q \in Proc : m[q] = w}
<1>1. None \notin Buf /\ IsFiniteSet(Proc)
  BY CacheAssumption, Zenon
<1>2. S \in SUBSET Proc /\ p \in S
  BY Zenon
<1>3. IsFiniteSet(S)
  BY <1>1, <1>2, FS_Subset, Zenon
<1>4. \A q \in Proc : m2[q] = IF q = p THEN None ELSE m[q]
  BY Zenon DEF Sets
<1>5. {q \in Proc : m2[q] = w} = S \ {p}
  BY <1>1, <1>4
<1>6. Cardinality(S \ {p}) = Cardinality(S) - 1
  BY <1>2, <1>3, FS_RemoveElement, Zenon
<1>7. ASSUME NEW u \in Buf, u # w PROVE Count(m2, u) = Count(m, u)
  <2>1. {q \in Proc : m2[q] = u} = {q \in Proc : m[q] = u}
    BY <1>1, <1>4, <1>7
  <2> QED
    BY <2>1, Zenon DEF Count
<1> QED
  BY <1>5, <1>6, <1>7, Zenon DEF Count

\* No other buffer has w's block.
Sole(bn, w) == \A u \in Buf : bn[u] = bn[w] => u = w

\* A pin is one reference or none.
LEMMA PinType ==
  ASSUME NEW b, NEW S
  PROVE  /\ Pin(b, S) \in Nat
         /\ b \in S => Pin(b, S) = 1
         /\ b \notin S => Pin(b, S) = 0
BY DEF Pin

\* The count stays exact when a hit of bget increments it.
LEMMA HitCounts ==
  ASSUME NEW m \in [Proc -> Buf \cup {None}], NEW p \in Proc, NEW w \in Buf,
         m[p] = None, NEW m2, Sets(m2, m, p, w),
         NEW r \in [Buf -> Nat], NEW r2, Sets(r2, r, w, r[w] + 1),
         NEW bn, NEW S, Exact(r, m, bn, S)
  PROVE  Exact(r2, m2, bn, S)
<1>1. /\ Count(m2, w) = Count(m, w) + 1
      /\ \A u \in Buf : u # w => Count(m2, u) = Count(m, u)
  BY CountJoin
<1> SUFFICES ASSUME NEW u \in Buf PROVE r2[u] = Count(m2, u) + Pin(bn[u], S)
  BY Zenon DEF Exact
<1>2. r2[u] = IF u = w THEN r[u] + 1 ELSE r[u]
  BY Zenon DEF Sets
<1>3. Count(m2, u) = IF u = w THEN Count(m, u) + 1 ELSE Count(m, u)
  BY <1>1, Zenon
<1>4. Count(m, u) \in Nat /\ Pin(bn[u], S) \in Nat
  BY CountType, PinType, Zenon
<1>5. r[u] = Count(m, u) + Pin(bn[u], S)
  BY Zenon DEF Exact
<1> QED
  BY <1>2, <1>3, <1>4, <1>5

\* It is exact for a buffer that bget recycles.
LEMMA MissCounts ==
  ASSUME NEW m \in [Proc -> Buf \cup {None}], NEW p \in Proc, NEW w \in Buf,
         m[p] = None, NEW m2, Sets(m2, m, p, w),
         NEW r \in [Buf -> Nat], r[w] = 0, NEW r2, Sets(r2, r, w, 1),
         NEW bn \in [Buf -> Block \cup {None}], NEW S, NEW b, b \notin S,
         NEW bn2, Sets(bn2, bn, w, b),
         Exact(r, m, bn, S)
  PROVE  Exact(r2, m2, bn2, S)
<1>1. /\ Count(m2, w) = Count(m, w) + 1
      /\ \A u \in Buf : u # w => Count(m2, u) = Count(m, u)
  BY CountJoin
<1> SUFFICES ASSUME NEW u \in Buf PROVE r2[u] = Count(m2, u) + Pin(bn2[u], S)
  BY Zenon DEF Exact
<1>2. r[u] = Count(m, u) + Pin(bn[u], S)
  BY Zenon DEF Exact
<1>3. CASE u = w
  <2>1. r2[u] = 1 /\ bn2[u] = b
    BY <1>3, Zenon DEF Sets
  <2>2. Pin(b, S) = 0
    BY PinType, Zenon
  <2>3. Count(m, u) \in Nat /\ Pin(bn[u], S) \in Nat
    BY CountType, PinType, Zenon
  <2>4. Count(m, u) = 0
    BY <1>2, <1>3, <2>3
  <2>5. Count(m2, u) = 1
    BY <1>1, <1>3, <2>4
  <2> QED
    BY <2>1, <2>2, <2>5
<1>4. CASE u # w
  <2>1. r2[u] = r[u] /\ bn2[u] = bn[u] /\ Count(m2, u) = Count(m, u)
    BY <1>1, <1>4, Zenon DEF Sets
  <2> QED
    BY <1>2, <2>1, Zenon
<1> QED
  BY <1>3, <1>4, Zenon

\* It is exact, and a natural number, when brelse decrements it.
LEMMA LeaveCounts ==
  ASSUME NEW m \in [Proc -> Buf \cup {None}], NEW p \in Proc, NEW w \in Buf,
         m[p] = w, NEW m2, Sets(m2, m, p, None),
         NEW r \in [Buf -> Nat], NEW r2, Sets(r2, r, w, r[w] - 1),
         NEW bn, NEW S, Exact(r, m, bn, S)
  PROVE  /\ Exact(r2, m2, bn, S)
         /\ r2 \in [Buf -> Nat]
<1>1. /\ Count(m2, w) = Count(m, w) - 1
      /\ \A u \in Buf : u # w => Count(m2, u) = Count(m, u)
  BY CountLeave
<1>2. ASSUME NEW u \in Buf PROVE r2[u] = Count(m2, u) + Pin(bn[u], S) /\ r2[u] \in Nat
  <2>1. r2[u] = IF u = w THEN r[u] - 1 ELSE r[u]
    BY Zenon DEF Sets
  <2>2. Count(m2, u) = IF u = w THEN Count(m, u) - 1 ELSE Count(m, u)
    BY <1>1, Zenon
  <2>3. Count(m, u) \in Nat /\ Count(m2, u) \in Nat /\ Pin(bn[u], S) \in Nat
    BY CountType, PinType, Zenon
  <2>4. r[u] = Count(m, u) + Pin(bn[u], S)
    BY Zenon DEF Exact
  <2> QED
    BY <2>1, <2>2, <2>3, <2>4
<1>3. DOMAIN r2 = Buf /\ r2 = [u \in Buf |-> r2[u]]
  BY Zenon DEF Sets
<1> QED
  BY <1>2, <1>3, Zenon DEF Exact

\* It is exact when log_write pins a block that was not pinned.
LEMMA PinCounts ==
  ASSUME NEW w \in Buf, NEW r \in [Buf -> Nat], NEW r2, Sets(r2, r, w, r[w] + 1),
         NEW m, NEW bn, NEW S, bn[w] \notin S, Sole(bn, w),
         Exact(r, m, bn, S)
  PROVE  Exact(r2, m, bn, S \cup {bn[w]})
<1> DEFINE S2 == S \cup {bn[w]}
<1> SUFFICES ASSUME NEW u \in Buf PROVE r2[u] = Count(m, u) + Pin(bn[u], S2)
  BY Zenon DEF Exact
<1>1. r[u] = Count(m, u) + Pin(bn[u], S) /\ Count(m, u) \in Nat
  BY CountType, Zenon DEF Exact
<1>2. CASE u = w
  <2>1. Pin(bn[u], S) = 0 /\ Pin(bn[u], S2) = 1
    BY <1>2, PinType, Zenon
  <2>2. r2[u] = r[u] + 1
    BY <1>2, Zenon DEF Sets
  <2> QED
    BY <1>1, <2>1, <2>2
<1>3. CASE u # w
  <2>1. bn[u] # bn[w]
    BY <1>3, Zenon DEF Sole
  <2>2. bn[u] \in S2 <=> bn[u] \in S
    BY <2>1, Zenon
  <2>3. Pin(bn[u], S2) = Pin(bn[u], S)
    BY <2>2, Zenon DEF Pin
  <2>4. r2[u] = r[u]
    BY <1>3, Zenon DEF Sets
  <2> QED
    BY <1>1, <2>3, <2>4, Zenon
<1> QED
  BY <1>2, <1>3, Zenon DEF Exact

\* It is exact when install_trans unpins one.
LEMMA UnpinCounts ==
  ASSUME NEW w \in Buf, NEW r \in [Buf -> Nat], NEW r2, Sets(r2, r, w, r[w] - 1),
         NEW m, NEW bn, NEW S, bn[w] \in S, Sole(bn, w),
         Exact(r, m, bn, S)
  PROVE  /\ Exact(r2, m, bn, S \ {bn[w]})
         /\ r2 \in [Buf -> Nat]
<1> DEFINE S2 == S \ {bn[w]}
<1>1. ASSUME NEW u \in Buf PROVE r2[u] = Count(m, u) + Pin(bn[u], S2) /\ r2[u] \in Nat
  <2>1. r[u] = Count(m, u) + Pin(bn[u], S) /\ Count(m, u) \in Nat /\ r[u] \in Nat
    BY CountType, Zenon DEF Exact
  <2>2. CASE u = w
    <3>1. bn[u] \in S /\ bn[u] \notin S2
      BY <2>2, Zenon
    <3>3. Pin(bn[u], S) = 1 /\ Pin(bn[u], S2) = 0
      BY <3>1, PinType, Zenon
    <3>2. r2[u] = r[u] - 1
      BY <2>2, Zenon DEF Sets
    <3> QED
      BY <2>1, <3>2, <3>3
  <2>3. CASE u # w
    <3>1. bn[u] # bn[w]
      BY <2>3, Zenon DEF Sole
    <3>2. bn[u] \in S2 <=> bn[u] \in S
      BY <3>1, Zenon
    <3>3. Pin(bn[u], S2) = Pin(bn[u], S)
      BY <3>2, Zenon DEF Pin
    <3>4. r2[u] = r[u]
      BY <2>3, Zenon DEF Sets
    <3> QED
      BY <2>1, <3>3, <3>4, Zenon
  <2> QED
    BY <2>2, <2>3, Zenon
<1>2. DOMAIN r2 = Buf /\ r2 = [u \in Buf |-> r2[u]]
  BY Zenon DEF Sets
<1> QED
  BY <1>1, <1>2, Zenon DEF Exact

\* Where every buffer has a user or a pin and one process has no buffer, there
\* are fewer buffers than processes and pins together.
LEMMA TooFew ==
  ASSUME NEW m \in [Proc -> Buf \cup {None}], NEW bn, NEW S, IsFiniteSet(S),
         NEW p \in Proc, m[p] = None, Cardinality(S) <= MaxPins,
         \A u, v \in Buf : bn[u] = bn[v] /\ bn[u] \in S => u = v,
         \A u \in Buf : bn[u] \in S \/ \E q \in Proc : m[q] = u
  PROVE  Cardinality(Buf) < Cardinality(Proc) + MaxPins
<1> DEFINE R == {u \in Buf : bn[u] \in S}
           U == Buf \ R
           f == [u \in R |-> bn[u]]
           g == [u \in U |-> CHOOSE q \in Proc : m[q] = u]
           Q == Proc \ {p}
<1>1. IsFiniteSet(Buf) /\ IsFiniteSet(Proc) /\ None \notin Buf /\ MaxPins \in Nat
  BY CacheAssumption, Zenon
<1>2. f \in Injection(R, S)
  BY Zenon DEF Injection, IsInjective
<1>3. Cardinality(R) <= Cardinality(S)
  BY <1>2, FS_Injection, Zenon
<1>4. \A u \in U : g[u] \in Proc /\ m[g[u]] = u
  BY Zenon
<1>5. \A u \in U : g[u] \in Q
  BY <1>1, <1>4, Zenon
<1>6. g \in Injection(U, Q)
  <2>1. g \in [U -> Q]
    BY <1>5, Zenon
  <2>2. \A u, v \in U : g[u] = g[v] => u = v
    BY <1>4, Zenon
  <2> QED
    BY <2>1, <2>2, Zenon DEF Injection, IsInjective
<1>7. IsFiniteSet(Q) /\ Cardinality(Q) = Cardinality(Proc) - 1
  BY <1>1, FS_RemoveElement, Zenon
<1>8. Cardinality(U) <= Cardinality(Q)
  <2> HIDE DEF U, Q, g
  <2> QED
    BY <1>6, <1>7, FS_Injection, Zenon
<1>9. Cardinality(U) = Cardinality(Buf) - Cardinality(R)
  <2>1. Cardinality(U) = Cardinality(Buf) - Cardinality(Buf \cap R)
    BY <1>1, FS_Difference, Zenon
  <2>2. Buf \cap R = R
    BY Zenon
  <2> QED
    BY <2>1, <2>2, Zenon
<1>10. R \in SUBSET Buf
  BY Zenon
<1>11. IsFiniteSet(R)
  BY <1>1, <1>10, FS_Subset, Zenon
<1> HIDE DEF R, U, Q
<1>12. /\ Cardinality(Buf) \in Nat /\ Cardinality(R) \in Nat
       /\ Cardinality(Proc) \in Nat /\ Cardinality(S) \in Nat
  BY <1>1, <1>11, FS_CardinalityType, Zenon
<1> QED
  BY <1>1, <1>3, <1>7, <1>8, <1>9, <1>12
-----------------------------------------------------------------------------
(* Every operation keeps the invariant. *)

\* What a step leaves alone.
LEMMA ListSame ==
  ASSUME ListInv, lru' = lru
  PROVE  ListInv'
BY Zenon DEF ListInv

\* No process comes to panic but by the last statement of bget.
LEMMA RoomSame ==
  ASSUME TypeOK, RoomInv, NEW p \in Proc, NEW x, x # "panic",
         pc' = [pc EXCEPT ![p] = x]
  PROVE  RoomInv'
<1>1. \A q \in Proc : pc'[q] = IF q = p THEN x ELSE pc[q]
  BY Zenon DEF TypeOK
<1> QED
  BY <1>1, Zenon DEF RoomInv

\* A user's buffer is a buffer, and its block is a block.
LEMMA Mine ==
  ASSUME TypeOK, UserInv, NEW p \in Proc, pc[p] \notin {"idle", "panic"}
  PROVE  mine[p] \in Buf /\ mine[p] # None /\ blockno[mine[p]] \in Block
<1>1. mine[p] \in Buf \cup {None}
  BY Zenon DEF TypeOK
<1>2. mine[p] # None /\ blockno[mine[p]] \in Block
  BY Zenon DEF UserInv
<1> QED
  BY <1>1, <1>2, Zenon

\* Initially no buffer has a block, a user or a pin.
LEMMA Initially ==
  Init => IInv
<1> SUFFICES ASSUME Init PROVE IInv
  OBVIOUS
<1>1. TypeOK
  <2>1. PICK d \in Data : data = [u \in Buf |-> d]
    BY Zenon DEF Init
  <2> QED
    BY <2>1 DEF Init, TypeOK
<1>2. ListInv
  BY ListStarts, Zenon DEF Init
<1>3. /\ \A u \in Buf : blockno[u] = None /\ ~ valid[u] /\ refcnt[u] = 0
      /\ \A p \in Proc : pc[p] = "idle" /\ mine[p] = None
      /\ pinned = {}
  BY Zenon DEF Init
<1>4. UserInv
  BY <1>3 DEF UserInv
<1>5. OnceInv
  BY <1>3, Zenon DEF OnceInv
<1>6. PinInv
  <2>1. IsFiniteSet({}) /\ Cardinality({}) = 0
    BY FS_EmptySet, Zenon
  <2>2. 0 <= MaxPins
    BY CacheAssumption
  <2> QED
    BY <1>3, <2>1, <2>2, Zenon DEF PinInv
<1>7. CleanInv
  BY <1>3, Zenon DEF CleanInv
<1>8. CountInv
  <2> SUFFICES ASSUME NEW u \in Buf
               PROVE  refcnt[u] = Count(mine, u) + Pin(blockno[u], pinned)
    BY Zenon DEF CountInv, Exact
  <2>1. \A p \in Proc : mine[p] # u
    BY <1>3, CacheAssumption, Zenon
  <2>2. Count(mine, u) = 0
    BY <2>1, CountType, Zenon
  <2>3. Pin(blockno[u], pinned) = 0
    BY <1>3, Zenon DEF Pin
  <2> QED
    BY <1>3, <2>2, <2>3
<1>9. RoomInv
  <2>1. \A p \in Proc : pc[p] # "panic"
    BY <1>3
  <2> QED
    BY <2>1, Zenon DEF RoomInv
<1> QED
  BY <1>1, <1>2, <1>4, <1>5, <1>6, <1>7, <1>8, <1>9, Zenon DEF IInv

\* bget of a block that is cached: one more user of its buffer.
LEMMA HitStep ==
  ASSUME IInv, NEW p \in Proc, NEW b \in Block, NEW w \in Buf, blockno[w] = b,
         pc[p] = "idle",
         mine' = [mine EXCEPT ![p] = w],
         refcnt' = [refcnt EXCEPT ![w] = @ + 1],
         pc' = [pc EXCEPT ![p] = "lock"],
         blockno' = blockno, valid' = valid, data' = data, lock' = lock,
         lru' = lru, disk' = disk, pinned' = pinned
  PROVE  IInv'
<1>1. /\ TypeOK /\ ListInv /\ UserInv /\ OnceInv /\ PinInv /\ CleanInv
      /\ CountInv /\ RoomInv
  BY Zenon DEF IInv
<1>2. None \notin Buf
  BY CacheAssumption, Zenon
<1>3. \A q \in Proc : /\ mine'[q] = IF q = p THEN w ELSE mine[q]
                      /\ pc'[q] = IF q = p THEN "lock" ELSE pc[q]
  BY <1>1, Zenon DEF TypeOK
<1>4. TypeOK'
  BY <1>1 DEF TypeOK
<1>5. ListInv' /\ RoomInv'
  BY <1>1, ListSame, RoomSame, Zenon
<1>6. OnceInv' /\ PinInv' /\ CleanInv'
  BY <1>1, Zenon DEF OnceInv, PinInv, CleanInv
<1>7. UserInv'
  <2> SUFFICES ASSUME NEW q \in Proc
               PROVE  /\ mine'[q] = None <=> pc'[q] \in {"idle", "panic"}
                      /\ mine'[q] # None => blockno[mine'[q]] \in Block
                      /\ pc'[q] \in {"check", "holds"} => lock[mine'[q]] = q
                      /\ pc'[q] = "holds" => valid[mine'[q]]
    BY Zenon DEF UserInv
  <2>1. CASE q = p
    BY <1>2, <1>3, <2>1
  <2>2. CASE q # p
    <3>1. mine'[q] = mine[q] /\ pc'[q] = pc[q]
      BY <1>3, <2>2, Zenon
    <3> QED
      BY <1>1, <3>1, Zenon DEF UserInv
  <2> QED
    BY <2>1, <2>2, Zenon
<1>8. CountInv'
  <2>1. mine[p] = None
    BY <1>1, Zenon DEF UserInv
  <2>2. mine \in [Proc -> Buf \cup {None}] /\ refcnt \in [Buf -> Nat]
    BY <1>1, Zenon DEF TypeOK
  <2>3. Exact(refcnt, mine, blockno, pinned)
    BY <1>1, Zenon DEF CountInv
  <2>4. Sets(mine', mine, p, w) /\ Sets(refcnt', refcnt, w, refcnt[w] + 1)
    BY Zenon DEF Sets
  <2>5. Exact(refcnt', mine', blockno, pinned)
    BY <2>1, <2>2, <2>3, <2>4, HitCounts
  <2> QED
    BY <2>5, Zenon DEF CountInv
<1> QED
  BY <1>4, <1>5, <1>6, <1>7, <1>8, Zenon DEF IInv

\* A buffer without references has no user and no pin.
LEMMA Unreferenced ==
  ASSUME IInv, NEW w \in Unused
  PROVE  /\ w \in Buf /\ refcnt[w] = 0
         /\ \A q \in Proc : mine[q] # w
         /\ blockno[w] \notin pinned
<1>1. w \in Buf /\ refcnt[w] = 0
  BY Zenon DEF Unused
<1>2. refcnt[w] = Count(mine, w) + Pin(blockno[w], pinned)
  BY <1>1, Zenon DEF IInv, CountInv, Exact
<1>3. Count(mine, w) \in Nat /\ Pin(blockno[w], pinned) \in Nat
  BY CountType, PinType, Zenon
<1>4. Count(mine, w) = 0 /\ Pin(blockno[w], pinned) # 1
  BY <1>1, <1>2, <1>3
<1> QED
  BY <1>1, <1>4, CountType, PinType, Zenon

\* bget of a block that is not cached: a buffer without references is given to it.
LEMMA MissStep ==
  ASSUME IInv, NEW p \in Proc, NEW b \in Block, Cached(b) = {}, NEW w \in Unused,
         pc[p] = "idle",
         mine' = [mine EXCEPT ![p] = w],
         blockno' = [blockno EXCEPT ![w] = b],
         valid' = [valid EXCEPT ![w] = FALSE],
         refcnt' = [refcnt EXCEPT ![w] = 1],
         pc' = [pc EXCEPT ![p] = "lock"],
         data' = data, lock' = lock, lru' = lru, disk' = disk, pinned' = pinned
  PROVE  IInv'
<1>1. /\ TypeOK /\ ListInv /\ UserInv /\ OnceInv /\ PinInv /\ CleanInv
      /\ CountInv /\ RoomInv
  BY Zenon DEF IInv
<1>2. None \notin Buf /\ None \notin Block
  BY CacheAssumption, Zenon
<1>3. \A q \in Proc : /\ mine'[q] = IF q = p THEN w ELSE mine[q]
                      /\ pc'[q] = IF q = p THEN "lock" ELSE pc[q]
  BY <1>1, Zenon DEF TypeOK
<1>4. /\ w \in Buf /\ refcnt[w] = 0
      /\ \A q \in Proc : mine[q] # w
      /\ blockno[w] \notin pinned
  BY Unreferenced, Zenon
<1>5. \A u \in Buf : /\ blockno'[u] = IF u = w THEN b ELSE blockno[u]
                     /\ valid'[u] = IF u = w THEN FALSE ELSE valid[u]
  BY <1>1, <1>4, Zenon DEF TypeOK
<1>6. \A u \in Buf : blockno[u] # b
  BY Zenon DEF Cached
<1>7. TypeOK'
  BY <1>1, <1>4 DEF TypeOK
<1>8. ListInv' /\ RoomInv'
  BY <1>1, ListSame, RoomSame, Zenon
<1>9. OnceInv'
  <2> SUFFICES ASSUME NEW u \in Buf, NEW v \in Buf,
                      blockno'[u] = blockno'[v], blockno'[u] # None
               PROVE  u = v
    BY Zenon DEF OnceInv
  <2>1. CASE u = w \/ v = w
    BY <1>5, <1>6, <2>1, Zenon
  <2>2. CASE u # w /\ v # w
    <3>1. blockno'[u] = blockno[u] /\ blockno'[v] = blockno[v]
      BY <1>5, <2>2, Zenon
    <3> QED
      BY <1>1, <3>1, Zenon DEF OnceInv
  <2> QED
    BY <2>1, <2>2, Zenon
<1>10. PinInv'
  <2>1. ASSUME NEW c \in pinned PROVE \E u \in Buf : blockno'[u] = c /\ valid'[u]
    <3>1. PICK u \in Buf : blockno[u] = c /\ valid[u]
      BY <1>1, <2>1, Zenon DEF PinInv
    <3>2. u # w
      BY <1>4, <2>1, <3>1, Zenon
    <3> QED
      BY <1>5, <3>1, <3>2, Zenon
  <2>2. IsFiniteSet(pinned) /\ Cardinality(pinned) <= MaxPins
    BY <1>1, Zenon DEF PinInv
  <2> QED
    BY <2>1, <2>2, Zenon DEF PinInv
<1>11. CleanInv'
  <2> SUFFICES ASSUME NEW u \in Buf, valid'[u]
               PROVE  /\ blockno'[u] \in Block
                      /\ blockno'[u] \notin pinned => data[u] = disk[blockno'[u]]
    BY Zenon DEF CleanInv
  <2>1. u # w
    BY <1>5, Zenon
  <2>2. blockno'[u] = blockno[u] /\ valid[u]
    BY <1>5, <2>1, Zenon
  <2> QED
    BY <1>1, <2>2, Zenon DEF CleanInv
<1>12. UserInv'
  <2> SUFFICES ASSUME NEW q \in Proc
               PROVE  /\ mine'[q] = None <=> pc'[q] \in {"idle", "panic"}
                      /\ mine'[q] # None => blockno'[mine'[q]] \in Block
                      /\ pc'[q] \in {"check", "holds"} => lock[mine'[q]] = q
                      /\ pc'[q] = "holds" => valid'[mine'[q]]
    BY Zenon DEF UserInv
  <2>1. CASE q = p
    <3>1. mine'[q] = w /\ pc'[q] = "lock" /\ blockno'[w] = b
      BY <1>3, <1>4, <1>5, <2>1, Zenon
    <3> QED
      BY <1>2, <1>4, <3>1
  <2>2. CASE q # p
    <3>1. mine'[q] = mine[q] /\ pc'[q] = pc[q]
      BY <1>3, <2>2, Zenon
    <3>2. CASE mine[q] = None
      <4>1. pc[q] \in {"idle", "panic"}
        BY <1>1, <3>2, Zenon DEF UserInv
      <4> QED
        BY <3>1, <3>2, <4>1
    <3>3. CASE mine[q] # None
      <4>1. mine[q] \in Buf /\ mine[q] # w
        BY <1>1, <1>4, <3>3, Zenon DEF TypeOK
      <4>2. blockno'[mine[q]] = blockno[mine[q]] /\ valid'[mine[q]] = valid[mine[q]]
        BY <1>5, <4>1, Zenon
      <4> QED
        BY <1>1, <3>1, <4>2, Zenon DEF UserInv
    <3> QED
      BY <3>2, <3>3, Zenon
  <2> QED
    BY <2>1, <2>2, Zenon
<1>13. CountInv'
  <2>1. mine[p] = None
    BY <1>1, Zenon DEF UserInv
  <2>2. /\ mine \in [Proc -> Buf \cup {None}] /\ refcnt \in [Buf -> Nat]
        /\ blockno \in [Buf -> Block \cup {None}]
    BY <1>1, Zenon DEF TypeOK
  <2>3. Exact(refcnt, mine, blockno, pinned)
    BY <1>1, Zenon DEF CountInv
  <2>4. /\ Sets(mine', mine, p, w) /\ Sets(refcnt', refcnt, w, 1)
        /\ Sets(blockno', blockno, w, b)
    BY Zenon DEF Sets
  <2>5. b \notin pinned
    BY <1>1, <1>6, Zenon DEF PinInv
  <2>6. Exact(refcnt', mine', blockno', pinned)
    BY <1>4, <2>1, <2>2, <2>3, <2>4, <2>5, MissCounts
  <2> QED
    BY <2>6, Zenon DEF CountInv
<1> QED
  BY <1>7, <1>8, <1>9, <1>10, <1>11, <1>12, <1>13, Zenon DEF IInv

\* bget without a buffer to give panics, which takes as many processes and pins
\* as there are buffers.
LEMMA PanicStep ==
  ASSUME IInv, NEW p \in Proc, Unused = {}, pc[p] = "idle",
         pc' = [pc EXCEPT ![p] = "panic"], mine' = mine,
         blockno' = blockno, valid' = valid, refcnt' = refcnt,
         data' = data, lock' = lock, lru' = lru, disk' = disk, pinned' = pinned
  PROVE  IInv'
<1>1. /\ TypeOK /\ ListInv /\ UserInv /\ OnceInv /\ PinInv /\ CleanInv
      /\ CountInv /\ RoomInv
  BY Zenon DEF IInv
<1>2. \A q \in Proc : pc'[q] = IF q = p THEN "panic" ELSE pc[q]
  BY <1>1, Zenon DEF TypeOK
<1>3. TypeOK'
  BY <1>1 DEF TypeOK
<1>4. ListInv' /\ OnceInv' /\ PinInv' /\ CleanInv'
  BY <1>1, ListSame, Zenon DEF OnceInv, PinInv, CleanInv
<1>5. mine[p] = None
  BY <1>1, Zenon DEF UserInv
<1>6. UserInv'
  <2> SUFFICES ASSUME NEW q \in Proc
               PROVE  /\ mine[q] = None <=> pc'[q] \in {"idle", "panic"}
                      /\ mine[q] # None => blockno[mine[q]] \in Block
                      /\ pc'[q] \in {"check", "holds"} => lock[mine[q]] = q
                      /\ pc'[q] = "holds" => valid[mine[q]]
    BY Zenon DEF UserInv
  <2>1. CASE q = p
    BY <1>2, <1>5, <2>1
  <2>2. CASE q # p
    <3>1. pc'[q] = pc[q]
      BY <1>2, <2>2, Zenon
    <3> QED
      BY <1>1, <3>1, Zenon DEF UserInv
  <2> QED
    BY <2>1, <2>2, Zenon
<1>7. CountInv'
  BY <1>1, Zenon DEF CountInv
<1>8. RoomInv'
  <2>1. ASSUME NEW u \in Buf
        PROVE  blockno[u] \in pinned \/ \E q \in Proc : mine[q] = u
    <3>1. refcnt[u] # 0
      BY Zenon DEF Unused
    <3>2. refcnt[u] = Count(mine, u) + Pin(blockno[u], pinned)
      BY <1>1, Zenon DEF CountInv, Exact
    <3>3. ~ (Count(mine, u) = 0 /\ Pin(blockno[u], pinned) = 0)
      BY <3>1, <3>2
    <3> QED
      BY <3>3, CountType, PinType, Zenon
  <2>2. \A u, v \in Buf : blockno[u] = blockno[v] /\ blockno[u] \in pinned => u = v
    <3>1. None \notin pinned
      BY <1>1, CacheAssumption, Zenon DEF TypeOK
    <3> QED
      BY <1>1, <3>1, Zenon DEF OnceInv
  <2>3. /\ IsFiniteSet(pinned) /\ Cardinality(pinned) <= MaxPins
        /\ mine \in [Proc -> Buf \cup {None}]
    BY <1>1, Zenon DEF PinInv, TypeOK
  <2>4. Cardinality(Buf) < Cardinality(Proc) + MaxPins
    BY <1>5, <2>1, <2>2, <2>3, TooFew
  <2>5. /\ Cardinality(Buf) \in Nat /\ Cardinality(Proc) \in Nat /\ MaxPins \in Nat
    BY CacheAssumption, FS_CardinalityType, Zenon
  <2>6. ~ (Cardinality(Buf) >= Cardinality(Proc) + MaxPins)
    BY <2>4, <2>5
  <2> QED
    BY <2>6, Zenon DEF RoomInv
<1> QED
  BY <1>3, <1>4, <1>6, <1>7, <1>8, Zenon DEF IInv

\* The three ways that bget ends.
Rest == /\ data' = data /\ lock' = lock /\ lru' = lru /\ disk' = disk
        /\ pinned' = pinned
Hits(p, b, w) ==
  /\ pc[p] = "idle" /\ blockno[w] = b
  /\ mine' = [mine EXCEPT ![p] = w]
  /\ refcnt' = [refcnt EXCEPT ![w] = @ + 1]
  /\ pc' = [pc EXCEPT ![p] = "lock"]
  /\ blockno' = blockno /\ valid' = valid
Recycles(p, b, w) ==
  /\ pc[p] = "idle" /\ Cached(b) = {}
  /\ mine' = [mine EXCEPT ![p] = w]
  /\ blockno' = [blockno EXCEPT ![w] = b]
  /\ valid' = [valid EXCEPT ![w] = FALSE]
  /\ refcnt' = [refcnt EXCEPT ![w] = 1]
  /\ pc' = [pc EXCEPT ![p] = "lock"]
Panics(p) ==
  /\ pc[p] = "idle" /\ Unused = {}
  /\ pc' = [pc EXCEPT ![p] = "panic"]
  /\ mine' = mine /\ blockno' = blockno /\ valid' = valid /\ refcnt' = refcnt

\* bget finds the block, or recycles a buffer without references, or panics.
LEMMA GetCases ==
  ASSUME IInv, NEW p \in Proc, NEW b \in Block, bget(p, b)
  PROVE  /\ Rest
         /\ \/ \E w \in Buf : Hits(p, b, w)
            \/ \E w \in Unused : Recycles(p, b, w)
            \/ Panics(p)
<1>1. pc[p] = "idle" /\ Rest
  BY Zenon DEF bget, Rest
<1>2. mine \in [Proc -> Buf \cup {None}]
  BY Zenon DEF IInv, TypeOK
<1>3. CASE Hit(b) # {}
  <2> DEFINE w == CHOOSE u \in Hit(b) : TRUE
  <2>1. w \in Buf /\ blockno[w] = b
    BY <1>3, Zenon DEF Hit, Cached
  <2> HIDE DEF w
  <2>2. /\ mine' = [mine EXCEPT ![p] = w]
        /\ refcnt' = [refcnt EXCEPT ![mine'[p]] = @ + 1]
        /\ pc' = [pc EXCEPT ![p] = "lock"] /\ blockno' = blockno /\ valid' = valid
    BY <1>3, Zenon DEF bget, w
  <2>3. mine'[p] = w
    BY <1>2, <2>2, Zenon
  <2>4. refcnt' = [refcnt EXCEPT ![w] = @ + 1]
    BY <2>2, <2>3, Zenon
  <2> QED
    BY <1>1, <2>1, <2>2, <2>4, Zenon DEF Hits
<1>4. CASE Hit(b) = {} /\ Unused # {}
  <2> DEFINE w == LeastRecent(Unused)
  <2>1. w \in Unused
    BY <1>4, ScanFinds, Zenon DEF IInv, Unused
  <2> HIDE DEF w
  <2>2. /\ mine' = [mine EXCEPT ![p] = w]
        /\ blockno' = [blockno EXCEPT ![mine'[p]] = b]
        /\ valid' = [valid EXCEPT ![mine'[p]] = Recycled(mine'[p])]
        /\ refcnt' = [refcnt EXCEPT ![mine'[p]] = 1]
        /\ pc' = [pc EXCEPT ![p] = "lock"]
    BY <1>4, Zenon DEF bget, w
  <2>3. mine'[p] = w
    BY <1>2, <2>2, Zenon
  <2>4. /\ blockno' = [blockno EXCEPT ![w] = b]
        /\ valid' = [valid EXCEPT ![w] = FALSE]
        /\ refcnt' = [refcnt EXCEPT ![w] = 1]
    BY <2>2, <2>3, Zenon DEF Recycled
  <2>5. mine' = [mine EXCEPT ![p] = w] /\ pc' = [pc EXCEPT ![p] = "lock"]
    BY <2>2, Zenon
  <2>6. Cached(b) = {}
    BY <1>4, Zenon DEF Hit
  <2>7. Recycles(p, b, w)
    BY <1>1, <2>4, <2>5, <2>6, Zenon DEF Recycles
  <2> QED
    BY <1>1, <2>1, <2>7, Zenon
<1>5. CASE Hit(b) = {} /\ Unused = {}
  BY <1>1, <1>5, Zenon DEF bget, Panics
<1> QED
  BY <1>3, <1>4, <1>5, Zenon

\* bget keeps the invariant.
LEMMA GetStep ==
  ASSUME IInv, NEW p \in Proc, NEW b \in Block, bget(p, b)
  PROVE  IInv'
<1>1. /\ Rest
      /\ \/ \E w \in Buf : Hits(p, b, w)
         \/ \E w \in Unused : Recycles(p, b, w)
         \/ Panics(p)
  BY GetCases, Zenon
<1>2. ASSUME NEW w \in Buf, Hits(p, b, w) PROVE IInv'
  BY <1>1, <1>2, HitStep, Zenon DEF Hits, Rest
<1>3. ASSUME NEW w \in Unused, Recycles(p, b, w) PROVE IInv'
  BY <1>1, <1>3, MissStep, Zenon DEF Recycles, Rest
<1>4. ASSUME Panics(p) PROVE IInv'
  BY <1>1, <1>4, PanicStep, Zenon DEF Panics, Rest
<1> QED
  BY <1>1, <1>2, <1>3, <1>4, Zenon

\* A buffer's lock keeps the others who use the buffer before acquiresleep or
\* after releasesleep.
LEMMA Alone ==
  ASSUME UserInv, NEW p \in Proc, NEW q \in Proc, mine[q] = mine[p],
         pc[q] \in {"check", "holds"}, lock[mine[p]] \in {p, None}
  PROVE  q = p
<1>1. lock[mine[q]] = q
  BY Zenon DEF UserInv
<1>2. q # None
  BY CacheAssumption, Zenon
<1> QED
  BY <1>1, <1>2, Zenon

\* acquiresleep keeps the invariant.
LEMMA AcquireStep ==
  ASSUME IInv, NEW p \in Proc, acquiresleep(p)
  PROVE  IInv'
<1>1. /\ TypeOK /\ ListInv /\ UserInv /\ OnceInv /\ PinInv /\ CleanInv
      /\ CountInv /\ RoomInv
  BY Zenon DEF IInv
<1>2. /\ pc[p] = "lock" /\ lock[mine[p]] = None
      /\ lock' = [lock EXCEPT ![mine[p]] = p]
      /\ pc' = [pc EXCEPT ![p] = "check"]
      /\ blockno' = blockno /\ valid' = valid /\ refcnt' = refcnt /\ data' = data
      /\ lru' = lru /\ disk' = disk /\ pinned' = pinned /\ mine' = mine
  BY Zenon DEF acquiresleep
<1>3. pc[p] \notin {"idle", "panic"}
  BY <1>2
<1>4. mine[p] \in Buf /\ mine[p] # None /\ blockno[mine[p]] \in Block
  BY <1>1, <1>3, Mine, Zenon
<1>5. /\ \A q \in Proc : pc'[q] = IF q = p THEN "check" ELSE pc[q]
      /\ \A u \in Buf : lock'[u] = IF u = mine[p] THEN p ELSE lock[u]
  BY <1>1, <1>2, Zenon DEF TypeOK
<1>6. TypeOK'
  BY <1>1, <1>2, <1>4 DEF TypeOK
<1>7. ListInv' /\ OnceInv' /\ PinInv' /\ CleanInv' /\ CountInv'
  BY <1>1, <1>2, ListSame, Zenon DEF OnceInv, PinInv, CleanInv, CountInv
<1>8. RoomInv'
  BY <1>1, <1>2, RoomSame, Zenon
<1>9. UserInv'
  <2> SUFFICES ASSUME NEW q \in Proc
               PROVE  /\ mine[q] = None <=> pc'[q] \in {"idle", "panic"}
                      /\ mine[q] # None => blockno[mine[q]] \in Block
                      /\ pc'[q] \in {"check", "holds"} => lock'[mine[q]] = q
                      /\ pc'[q] = "holds" => valid[mine[q]]
    BY <1>2, Zenon DEF UserInv
  <2>1. CASE q = p
    <3>1. pc'[q] = "check" /\ lock'[mine[q]] = q
      BY <1>4, <1>5, <2>1, Zenon
    <3> QED
      BY <1>4, <2>1, <3>1
  <2>2. CASE q # p
    <3>1. pc'[q] = pc[q]
      BY <1>5, <2>2, Zenon
    <3>2. ASSUME pc[q] \in {"check", "holds"} PROVE lock'[mine[q]] = q
      <4>1. mine[q] # mine[p]
        BY <1>1, <1>2, <2>2, <3>2, Alone, Zenon
      <4>2. pc[q] \notin {"idle", "panic"}
        BY <3>2
      <4>3. mine[q] \in Buf
        BY <1>1, <4>2, Mine, Zenon
      <4>4. lock[mine[q]] = q
        BY <1>1, <3>2, Zenon DEF UserInv
      <4> QED
        BY <1>5, <4>1, <4>3, <4>4, Zenon
    <3> QED
      BY <1>1, <3>1, <3>2, Zenon DEF UserInv
  <2> QED
    BY <2>1, <2>2, Zenon
<1> QED
  BY <1>6, <1>7, <1>8, <1>9, Zenon DEF IInv

\* The rest of bread keeps the invariant: a buffer that is not valid gets the
\* contents that the disk has for its block.
LEMMA ReadStep ==
  ASSUME IInv, NEW p \in Proc, bread(p)
  PROVE  IInv'
<1>1. /\ TypeOK /\ ListInv /\ UserInv /\ OnceInv /\ PinInv /\ CleanInv
      /\ CountInv /\ RoomInv
  BY Zenon DEF IInv
<1>2. /\ pc[p] = "check"
      /\ data' = IF valid[mine[p]] THEN data
                 ELSE [data EXCEPT ![mine[p]] = disk[blockno[mine[p]]]]
      /\ valid' = [valid EXCEPT ![mine[p]] = TRUE]
      /\ pc' = [pc EXCEPT ![p] = "holds"]
      /\ blockno' = blockno /\ refcnt' = refcnt /\ lock' = lock
      /\ lru' = lru /\ disk' = disk /\ pinned' = pinned /\ mine' = mine
  BY Zenon DEF bread
<1>3. pc[p] \notin {"idle", "panic"}
  BY <1>2
<1>4. mine[p] \in Buf /\ mine[p] # None /\ blockno[mine[p]] \in Block
  BY <1>1, <1>3, Mine, Zenon
<1>5. /\ \A q \in Proc : pc'[q] = IF q = p THEN "holds" ELSE pc[q]
      /\ \A u \in Buf : valid'[u] = IF u = mine[p] THEN TRUE ELSE valid[u]
  BY <1>1, <1>2, Zenon DEF TypeOK
<1>6. /\ \A u \in Buf : u # mine[p] => data'[u] = data[u]
      /\ valid[mine[p]] => data'[mine[p]] = data[mine[p]]
      /\ ~ valid[mine[p]] => data'[mine[p]] = disk[blockno[mine[p]]]
      /\ data' \in [Buf -> Data]
  <2>1. data \in [Buf -> Data] /\ disk[blockno[mine[p]]] \in Data
    BY <1>1, <1>4, Zenon DEF TypeOK
  <2>2. CASE valid[mine[p]]
    BY <1>2, <2>1, <2>2, Zenon
  <2>3. CASE ~ valid[mine[p]]
    <3>1. data' = [data EXCEPT ![mine[p]] = disk[blockno[mine[p]]]]
      BY <1>2, <2>3, Zenon
    <3> QED
      BY <1>4, <2>1, <2>3, <3>1
  <2> QED
    BY <2>2, <2>3, Zenon
<1>7. TypeOK'
  <2>1. valid' \in [Buf -> BOOLEAN] /\ pc' \in [Proc -> {"idle", "lock", "check", "holds", "brelse", "panic"}]
    BY <1>1, <1>2, Zenon DEF TypeOK
  <2> QED
    BY <1>1, <1>2, <1>6, <2>1, Zenon DEF TypeOK
<1>8. ListInv' /\ OnceInv' /\ CountInv'
  BY <1>1, <1>2, ListSame, Zenon DEF OnceInv, CountInv
<1>9. RoomInv'
  BY <1>1, <1>2, RoomSame, Zenon
<1>10. PinInv'
  <2>1. \A b \in pinned : \E u \in Buf : blockno[u] = b /\ valid'[u]
    BY <1>1, <1>5, Zenon DEF PinInv
  <2> QED
    BY <1>1, <1>2, <2>1, Zenon DEF PinInv
<1>11. CleanInv'
  <2> SUFFICES ASSUME NEW u \in Buf, valid'[u]
               PROVE  /\ blockno[u] \in Block
                      /\ blockno[u] \notin pinned => data'[u] = disk[blockno[u]]
    BY <1>2, Zenon DEF CleanInv
  <2>1. CASE u = mine[p] /\ ~ valid[mine[p]]
    BY <1>4, <1>6, <2>1, Zenon
  <2>2. CASE valid[u] /\ data'[u] = data[u]
    BY <1>1, <2>2, Zenon DEF CleanInv
  <2>3. (u = mine[p] /\ ~ valid[mine[p]]) \/ (valid[u] /\ data'[u] = data[u])
    BY <1>5, <1>6, Zenon
  <2> QED
    BY <2>1, <2>2, <2>3, Zenon
<1>12. UserInv'
  <2> SUFFICES ASSUME NEW q \in Proc
               PROVE  /\ mine[q] = None <=> pc'[q] \in {"idle", "panic"}
                      /\ mine[q] # None => blockno[mine[q]] \in Block
                      /\ pc'[q] \in {"check", "holds"} => lock[mine[q]] = q
                      /\ pc'[q] = "holds" => valid'[mine[q]]
    BY <1>2, Zenon DEF UserInv
  <2>1. CASE q = p
    <3>1. pc'[q] = "holds" /\ valid'[mine[q]]
      BY <1>4, <1>5, <2>1, Zenon
    <3>2. lock[mine[q]] = q
      BY <1>1, <1>2, <2>1, Zenon DEF UserInv
    <3> QED
      BY <1>4, <2>1, <3>1, <3>2
  <2>2. CASE q # p
    <3>1. pc'[q] = pc[q]
      BY <1>5, <2>2, Zenon
    <3>2. ASSUME pc[q] = "holds" PROVE valid'[mine[q]]
      <4>1. pc[q] \notin {"idle", "panic"}
        BY <3>2
      <4>2. mine[q] \in Buf
        BY <1>1, <4>1, Mine, Zenon
      <4>3. valid[mine[q]]
        BY <1>1, <3>2, Zenon DEF UserInv
      <4> QED
        BY <1>5, <4>2, <4>3, Zenon
    <3> QED
      BY <1>1, <3>1, <3>2, Zenon DEF UserInv
  <2> QED
    BY <2>1, <2>2, Zenon
<1> QED
  BY <1>7, <1>8, <1>9, <1>10, <1>11, <1>12, Zenon DEF IInv

\* bwrite keeps the invariant: the disk gets what the buffer gets, and no other
\* buffer has that block.
LEMMA WriteStep ==
  ASSUME IInv, NEW p \in Proc, NEW d \in Data, bwrite(p, d)
  PROVE  IInv'
<1>1. /\ TypeOK /\ ListInv /\ UserInv /\ OnceInv /\ PinInv /\ CleanInv
      /\ CountInv /\ RoomInv
  BY Zenon DEF IInv
<1>2. /\ pc[p] = "holds"
      /\ data' = [data EXCEPT ![mine[p]] = d]
      /\ disk' = [disk EXCEPT ![blockno[mine[p]]] = d]
      /\ blockno' = blockno /\ valid' = valid /\ refcnt' = refcnt /\ lock' = lock
      /\ lru' = lru /\ pc' = pc /\ pinned' = pinned /\ mine' = mine
  BY Zenon DEF bwrite
<1>3. pc[p] \notin {"idle", "panic"}
  BY <1>2
<1>4. mine[p] \in Buf /\ mine[p] # None /\ blockno[mine[p]] \in Block
  BY <1>1, <1>3, Mine, Zenon
<1>5. /\ \A u \in Buf : data'[u] = IF u = mine[p] THEN d ELSE data[u]
      /\ \A b \in Block : disk'[b] = IF b = blockno[mine[p]] THEN d ELSE disk[b]
  BY <1>1, <1>2, Zenon DEF TypeOK
<1>6. TypeOK'
  BY <1>1, <1>2, <1>4 DEF TypeOK
<1>7. ListInv' /\ OnceInv' /\ PinInv' /\ CountInv' /\ RoomInv'
  BY <1>1, <1>2, ListSame, Zenon DEF OnceInv, PinInv, CountInv, RoomInv
<1>8. UserInv'
  BY <1>1, <1>2, Zenon DEF UserInv
<1>9. CleanInv'
  <2> SUFFICES ASSUME NEW u \in Buf, valid[u]
               PROVE  /\ blockno[u] \in Block
                      /\ blockno[u] \notin pinned => data'[u] = disk'[blockno[u]]
    BY <1>2, Zenon DEF CleanInv
  <2>1. /\ blockno[u] \in Block
        /\ blockno[u] \notin pinned => data[u] = disk[blockno[u]]
    BY <1>1, Zenon DEF CleanInv
  <2>2. CASE u = mine[p]
    BY <1>4, <1>5, <2>1, <2>2, Zenon
  <2>3. CASE u # mine[p]
    <3>1. None \notin Block
      BY CacheAssumption, Zenon
    <3>2. blockno[u] # blockno[mine[p]]
      BY <1>1, <1>4, <2>1, <2>3, <3>1, Zenon DEF OnceInv
    <3> QED
      BY <1>5, <2>1, <2>3, <3>2, Zenon
  <2> QED
    BY <2>2, <2>3, Zenon
<1> QED
  BY <1>6, <1>7, <1>8, <1>9, Zenon DEF IInv

\* releasesleep keeps the invariant.
LEMMA ReleaseStep ==
  ASSUME IInv, NEW p \in Proc, releasesleep(p)
  PROVE  IInv'
<1>1. /\ TypeOK /\ ListInv /\ UserInv /\ OnceInv /\ PinInv /\ CleanInv
      /\ CountInv /\ RoomInv
  BY Zenon DEF IInv
<1>2. /\ pc[p] = "holds"
      /\ lock' = [lock EXCEPT ![mine[p]] = None]
      /\ pc' = [pc EXCEPT ![p] = "brelse"]
      /\ blockno' = blockno /\ valid' = valid /\ refcnt' = refcnt /\ data' = data
      /\ lru' = lru /\ disk' = disk /\ pinned' = pinned /\ mine' = mine
  BY Zenon DEF releasesleep
<1>3. pc[p] \notin {"idle", "panic"} /\ pc[p] \in {"check", "holds"}
  BY <1>2
<1>4. mine[p] \in Buf /\ mine[p] # None /\ blockno[mine[p]] \in Block
  BY <1>1, <1>3, Mine, Zenon
<1>5. /\ \A q \in Proc : pc'[q] = IF q = p THEN "brelse" ELSE pc[q]
      /\ \A u \in Buf : lock'[u] = IF u = mine[p] THEN None ELSE lock[u]
  BY <1>1, <1>2, Zenon DEF TypeOK
<1>6. TypeOK'
  BY <1>1, <1>2, <1>4 DEF TypeOK
<1>7. ListInv' /\ OnceInv' /\ PinInv' /\ CleanInv' /\ CountInv'
  BY <1>1, <1>2, ListSame, Zenon DEF OnceInv, PinInv, CleanInv, CountInv
<1>8. RoomInv'
  BY <1>1, <1>2, RoomSame, Zenon
<1>9. UserInv'
  <2> SUFFICES ASSUME NEW q \in Proc
               PROVE  /\ mine[q] = None <=> pc'[q] \in {"idle", "panic"}
                      /\ mine[q] # None => blockno[mine[q]] \in Block
                      /\ pc'[q] \in {"check", "holds"} => lock'[mine[q]] = q
                      /\ pc'[q] = "holds" => valid[mine[q]]
    BY <1>2, Zenon DEF UserInv
  <2>1. CASE q = p
    <3>1. pc'[q] = "brelse"
      BY <1>5, <2>1, Zenon
    <3> QED
      BY <1>4, <2>1, <3>1
  <2>2. CASE q # p
    <3>1. pc'[q] = pc[q]
      BY <1>5, <2>2, Zenon
    <3>2. ASSUME pc[q] \in {"check", "holds"} PROVE lock'[mine[q]] = q
      <4>1. lock[mine[p]] = p
        BY <1>1, <1>3, Zenon DEF UserInv
      <4>2. mine[q] # mine[p]
        BY <1>1, <2>2, <3>2, <4>1, Alone, Zenon
      <4>3. pc[q] \notin {"idle", "panic"}
        BY <3>2
      <4>4. mine[q] \in Buf
        BY <1>1, <4>3, Mine, Zenon
      <4>5. lock[mine[q]] = q
        BY <1>1, <3>2, Zenon DEF UserInv
      <4> QED
        BY <1>5, <4>2, <4>4, <4>5, Zenon
    <3> QED
      BY <1>1, <3>1, <3>2, Zenon DEF UserInv
  <2> QED
    BY <2>1, <2>2, Zenon
<1> QED
  BY <1>6, <1>7, <1>8, <1>9, Zenon DEF IInv

\* The block of a user's buffer is in no other.
LEMMA Only ==
  ASSUME OnceInv, NEW w \in Buf, blockno[w] \in Block
  PROVE  \A u \in Buf : blockno[u] = blockno[w] => u = w
<1>1. None \notin Block
  BY CacheAssumption, Zenon
<1> QED
  BY <1>1, Zenon DEF OnceInv

\* log_write keeps the invariant.
LEMMA LogWriteStep ==
  ASSUME IInv, NEW p \in Proc, NEW d \in Data, log_write(p, d)
  PROVE  IInv'
<1> DEFINE w == mine[p]
           b == blockno[mine[p]]
<1>1. /\ TypeOK /\ ListInv /\ UserInv /\ OnceInv /\ PinInv /\ CleanInv
      /\ CountInv /\ RoomInv
  BY Zenon DEF IInv
<1>2. /\ pc[p] = "holds" /\ Cardinality(pinned \cup {b}) <= MaxPins
      /\ data' = [data EXCEPT ![w] = d]
      /\ refcnt' = IF NewInLog(b) THEN [refcnt EXCEPT ![w] = @ + 1] ELSE refcnt
      /\ pinned' = pinned \cup {b}
      /\ blockno' = blockno /\ valid' = valid /\ lock' = lock /\ lru' = lru
      /\ disk' = disk /\ pc' = pc /\ mine' = mine
  BY Zenon DEF log_write
<1>3. pc[p] \notin {"idle", "panic"}
  BY <1>2
<1>4. w \in Buf /\ b \in Block
  BY <1>1, <1>3, Mine, Zenon
<1>5. valid[w]
  BY <1>1, <1>2, Zenon DEF UserInv
<1>6. ListInv' /\ OnceInv' /\ RoomInv' /\ UserInv'
  BY <1>1, <1>2, ListSame, Zenon DEF OnceInv, RoomInv, UserInv
<1>7. CountInv' /\ refcnt' \in [Buf -> Nat]
  <2>1. refcnt \in [Buf -> Nat] /\ Exact(refcnt, mine, blockno, pinned)
    BY <1>1, Zenon DEF TypeOK, CountInv
  <2>2. CASE NewInLog(b)
    <3>1. b \notin pinned /\ Sets(refcnt', refcnt, w, refcnt[w] + 1)
      BY <1>2, <2>2, Zenon DEF NewInLog, Sets
    <3>2. Sole(blockno, w)
      BY <1>1, <1>4, Only, Zenon DEF Sole
    <3>3. Exact(refcnt', mine, blockno, pinned \cup {b})
      BY <1>4, <2>1, <3>1, <3>2, PinCounts, Zenon
    <3>4. refcnt' \in [Buf -> Nat]
      <4>1. refcnt' = [refcnt EXCEPT ![w] = @ + 1] /\ refcnt[w] + 1 \in Nat
        BY <1>2, <1>4, <2>1, <2>2
      <4> QED
        BY <2>1, <4>1, Zenon
    <3> QED
      BY <1>2, <3>3, <3>4, Zenon DEF CountInv
  <2>3. CASE ~ NewInLog(b)
    <3>1. refcnt' = refcnt /\ pinned' = pinned
      BY <1>2, <2>3, Zenon DEF NewInLog
    <3> QED
      BY <1>2, <2>1, <3>1, Zenon DEF CountInv
  <2> QED
    BY <2>2, <2>3, Zenon
<1>8. TypeOK'
  <2>1. data' \in [Buf -> Data] /\ pinned' \subseteq Block
    BY <1>1, <1>2, <1>4, Zenon DEF TypeOK
  <2> QED
    BY <1>1, <1>2, <1>7, <2>1, Zenon DEF TypeOK
<1>9. PinInv'
  <2>1. IsFiniteSet(pinned')
    BY <1>1, <1>2, FS_AddElement, Zenon DEF PinInv
  <2>2. \A c \in pinned' : \E u \in Buf : blockno[u] = c /\ valid[u]
    BY <1>1, <1>2, <1>4, <1>5, Zenon DEF PinInv
  <2>3. Cardinality(pinned') <= MaxPins
    BY <1>2, Zenon
  <2> QED
    BY <1>2, <2>1, <2>2, <2>3, Zenon DEF PinInv
<1>10. CleanInv'
  <2> SUFFICES ASSUME NEW u \in Buf, valid[u]
               PROVE  /\ blockno[u] \in Block
                      /\ blockno[u] \notin pinned' => data'[u] = disk[blockno[u]]
    BY <1>2, Zenon DEF CleanInv
  <2>1. /\ blockno[u] \in Block
        /\ blockno[u] \notin pinned => data[u] = disk[blockno[u]]
    BY <1>1, Zenon DEF CleanInv
  <2>2. ASSUME blockno[u] \notin pinned' PROVE data'[u] = disk[blockno[u]]
    <3>1. blockno[u] \notin pinned /\ u # w
      BY <1>2, <2>2, Zenon
    <3>2. data'[u] = data[u]
      BY <1>1, <1>2, <3>1, Zenon DEF TypeOK
    <3> QED
      BY <2>1, <3>1, <3>2, Zenon
  <2> QED
    BY <2>1, <2>2, Zenon
<1> QED
  BY <1>6, <1>7, <1>8, <1>9, <1>10, Zenon DEF IInv

\* install_trans's bwrite and bunpin keep the invariant.
LEMMA InstallStep ==
  ASSUME IInv, NEW p \in Proc, install(p)
  PROVE  IInv'
<1> DEFINE w == mine[p]
           b == blockno[mine[p]]
<1>1. /\ TypeOK /\ ListInv /\ UserInv /\ OnceInv /\ PinInv /\ CleanInv
      /\ CountInv /\ RoomInv
  BY Zenon DEF IInv
<1>2. /\ pc[p] = "holds" /\ b \in pinned
      /\ disk' = [disk EXCEPT ![b] = data[w]]
      /\ refcnt' = bunpin(w)
      /\ pinned' = pinned \ {b}
      /\ blockno' = blockno /\ valid' = valid /\ data' = data /\ lock' = lock
      /\ lru' = lru /\ pc' = pc /\ mine' = mine
  BY Zenon DEF install
<1>3. pc[p] \notin {"idle", "panic"}
  BY <1>2
<1>4. w \in Buf /\ b \in Block
  BY <1>1, <1>3, Mine, Zenon
<1>5. \A u \in Buf : blockno[u] = b => u = w
  BY <1>1, <1>4, Only, Zenon
<1>6. ListInv' /\ OnceInv' /\ RoomInv' /\ UserInv'
  BY <1>1, <1>2, ListSame, Zenon DEF OnceInv, RoomInv, UserInv
<1>7. CountInv' /\ refcnt' \in [Buf -> Nat]
  <2>1. refcnt \in [Buf -> Nat] /\ Exact(refcnt, mine, blockno, pinned)
    BY <1>1, Zenon DEF TypeOK, CountInv
  <2>2. Sets(refcnt', refcnt, w, refcnt[w] - 1)
    BY <1>2, Zenon DEF bunpin, Sets
  <2>3. Sole(blockno, w) /\ b \in pinned
    BY <1>2, <1>5, Zenon DEF Sole
  <2>4. Exact(refcnt', mine, blockno, pinned \ {b}) /\ refcnt' \in [Buf -> Nat]
    BY <1>4, <2>1, <2>2, <2>3, UnpinCounts, Zenon
  <2> QED
    BY <1>2, <2>4, Zenon DEF CountInv
<1>8. TypeOK'
  <2>1. data[w] \in Data
    BY <1>1, <1>4, Zenon DEF TypeOK
  <2>2. disk' \in [Block -> Data] /\ pinned' \subseteq Block
    BY <1>1, <1>2, <1>4, <2>1, Zenon DEF TypeOK
  <2> QED
    BY <1>1, <1>2, <1>7, <2>2, Zenon DEF TypeOK
<1>9. PinInv'
  <2>1. IsFiniteSet(pinned') /\ Cardinality(pinned') = Cardinality(pinned) - 1
    BY <1>1, <1>2, FS_RemoveElement, Zenon DEF PinInv
  <2>2. Cardinality(pinned) \in Nat /\ Cardinality(pinned) <= MaxPins /\ MaxPins \in Nat
    BY <1>1, CacheAssumption, FS_CardinalityType, Zenon DEF PinInv
  <2>3. Cardinality(pinned') <= MaxPins
    BY <2>1, <2>2
  <2>4. \A c \in pinned' : \E u \in Buf : blockno[u] = c /\ valid[u]
    BY <1>1, <1>2, Zenon DEF PinInv
  <2> QED
    BY <1>2, <2>1, <2>3, <2>4, Zenon DEF PinInv
<1>10. CleanInv'
  <2> SUFFICES ASSUME NEW u \in Buf, valid[u]
               PROVE  /\ blockno[u] \in Block
                      /\ blockno[u] \notin pinned' => data[u] = disk'[blockno[u]]
    BY <1>2, Zenon DEF CleanInv
  <2>1. /\ blockno[u] \in Block
        /\ blockno[u] \notin pinned => data[u] = disk[blockno[u]]
    BY <1>1, Zenon DEF CleanInv
  <2>2. \A c \in Block : disk'[c] = IF c = b THEN data[w] ELSE disk[c]
    BY <1>1, <1>2, Zenon DEF TypeOK
  <2>3. CASE blockno[u] = b
    <3>1. u = w
      BY <1>5, <2>3, Zenon
    <3> QED
      BY <1>4, <2>2, <3>1, Zenon
  <2>4. CASE blockno[u] # b
    <3>1. disk'[blockno[u]] = disk[blockno[u]]
      BY <2>1, <2>2, <2>4, Zenon
    <3>2. blockno[u] \in pinned' <=> blockno[u] \in pinned
      BY <1>2, <2>4, Zenon
    <3> QED
      BY <2>1, <3>1, <3>2, Zenon
  <2> QED
    BY <2>3, <2>4, Zenon
<1> QED
  BY <1>6, <1>7, <1>8, <1>9, <1>10, Zenon DEF IInv

\* The end of brelse keeps the invariant.
LEMMA BrelseStep ==
  ASSUME IInv, NEW p \in Proc, brelse(p)
  PROVE  IInv'
<1> DEFINE w == mine[p]
<1>1. /\ TypeOK /\ ListInv /\ UserInv /\ OnceInv /\ PinInv /\ CleanInv
      /\ CountInv /\ RoomInv
  BY Zenon DEF IInv
<1>2. /\ pc[p] = "brelse"
      /\ refcnt' = Released(w)
      /\ lru' = lru \/ lru' = MovedToFront(w)
      /\ mine' = [mine EXCEPT ![p] = None]
      /\ pc' = [pc EXCEPT ![p] = "idle"]
      /\ blockno' = blockno /\ valid' = valid /\ data' = data /\ lock' = lock
      /\ disk' = disk /\ pinned' = pinned
  BY Zenon DEF brelse
<1>3. pc[p] \notin {"idle", "panic"}
  BY <1>2
<1>4. w \in Buf
  BY <1>1, <1>3, Mine, Zenon
<1>5. \A q \in Proc : /\ mine'[q] = IF q = p THEN None ELSE mine[q]
                      /\ pc'[q] = IF q = p THEN "idle" ELSE pc[q]
  BY <1>1, <1>2, Zenon DEF TypeOK
<1>6. ListInv'
  BY <1>1, <1>2, <1>4, ListSame, ListMoves, Zenon
<1>7. OnceInv' /\ PinInv' /\ CleanInv'
  BY <1>1, <1>2, Zenon DEF OnceInv, PinInv, CleanInv
<1>8. RoomInv'
  BY <1>1, <1>2, RoomSame, Zenon
<1>9. CountInv' /\ refcnt' \in [Buf -> Nat]
  <2>1. /\ mine \in [Proc -> Buf \cup {None}] /\ refcnt \in [Buf -> Nat]
        /\ Exact(refcnt, mine, blockno, pinned)
    BY <1>1, Zenon DEF TypeOK, CountInv
  <2>2. Sets(refcnt', refcnt, w, refcnt[w] - 1) /\ Sets(mine', mine, p, None)
    BY <1>2, Zenon DEF Released, Sets
  <2>3. Exact(refcnt', mine', blockno, pinned) /\ refcnt' \in [Buf -> Nat]
    BY <1>4, <2>1, <2>2, LeaveCounts
  <2> QED
    BY <1>2, <2>3, Zenon DEF CountInv
<1>10. TypeOK'
  <2>1. /\ mine' \in [Proc -> Buf \cup {None}]
        /\ pc' \in [Proc -> {"idle", "lock", "check", "holds", "brelse", "panic"}]
    BY <1>1, <1>2, Zenon DEF TypeOK
  <2> QED
    BY <1>1, <1>2, <1>9, <2>1, Zenon DEF TypeOK
<1>11. UserInv'
  <2> SUFFICES ASSUME NEW q \in Proc
               PROVE  /\ mine'[q] = None <=> pc'[q] \in {"idle", "panic"}
                      /\ mine'[q] # None => blockno[mine'[q]] \in Block
                      /\ pc'[q] \in {"check", "holds"} => lock[mine'[q]] = q
                      /\ pc'[q] = "holds" => valid[mine'[q]]
    BY <1>2, Zenon DEF UserInv
  <2>1. CASE q = p
    BY <1>5, <2>1
  <2>2. CASE q # p
    <3>1. mine'[q] = mine[q] /\ pc'[q] = pc[q]
      BY <1>5, <2>2, Zenon
    <3> QED
      BY <1>1, <3>1, Zenon DEF UserInv
  <2> QED
    BY <2>1, <2>2, Zenon
<1> QED
  BY <1>6, <1>7, <1>8, <1>9, <1>10, <1>11, Zenon DEF IInv

\* The invariant holds of a step that changes nothing.
LEMMA Stutter ==
  ASSUME IInv, UNCHANGED vars
  PROVE  IInv'
<1>1. /\ blockno' = blockno /\ valid' = valid /\ refcnt' = refcnt /\ data' = data
      /\ lock' = lock /\ lru' = lru /\ disk' = disk /\ pinned' = pinned
      /\ pc' = pc /\ mine' = mine
  BY DEF vars, bufs
<1> QED
  BY <1>1, Zenon DEF IInv, TypeOK, ListInv, UserInv, OnceInv, PinInv, CleanInv,
                    CountInv, RoomInv

\* The inductive invariant of the buffer cache.
THEOREM Invariance == Spec => []IInv
<1>1. Init => IInv
  BY Initially
<1>2. IInv /\ [Next]_vars => IInv'
  <2> SUFFICES ASSUME IInv, [Next]_vars PROVE IInv'
    OBVIOUS
  <2>1. ASSUME NEW p \in Proc, NEW b \in Block, bget(p, b) PROVE IInv'
    BY <2>1, GetStep, Zenon
  <2>2. ASSUME NEW p \in Proc, acquiresleep(p) PROVE IInv'
    BY <2>2, AcquireStep, Zenon
  <2>3. ASSUME NEW p \in Proc, bread(p) PROVE IInv'
    BY <2>3, ReadStep, Zenon
  <2>4. ASSUME NEW p \in Proc, install(p) PROVE IInv'
    BY <2>4, InstallStep, Zenon
  <2>5. ASSUME NEW p \in Proc, releasesleep(p) PROVE IInv'
    BY <2>5, ReleaseStep, Zenon
  <2>6. ASSUME NEW p \in Proc, brelse(p) PROVE IInv'
    BY <2>6, BrelseStep, Zenon
  <2>7. ASSUME NEW p \in Proc, NEW d \in Data, bwrite(p, d) PROVE IInv'
    BY <2>7, WriteStep, Zenon
  <2>8. ASSUME NEW p \in Proc, NEW d \in Data, log_write(p, d) PROVE IInv'
    BY <2>8, LogWriteStep, Zenon
  <2>9. CASE UNCHANGED vars
    BY <2>9, Stutter, Zenon
  <2> QED
    BY <2>1, <2>2, <2>3, <2>4, <2>5, <2>6, <2>7, <2>8, <2>9, Zenon DEF Next
<1> QED
  BY <1>1, <1>2, PTL DEF Spec

\* For any number of users, blocks, buffers and pins: b->refcnt is the number
\* of users and pins of the buffer, and bget does not panic when the buffers
\* are at least as many as the users and the pins together.
THEOREM ReferencesCounted == Spec => []RefcntExact
<1>1. IInv => RefcntExact
  <2> SUFFICES ASSUME IInv PROVE RefcntExact
    OBVIOUS
  <2>1. ASSUME NEW u \in Buf
        PROVE  refcnt[u] = Cardinality({p \in Proc : mine[p] = u})
                             + (IF blockno[u] \in pinned THEN 1 ELSE 0)
    BY Zenon DEF IInv, CountInv, Exact, Count, Pin
  <2> QED
    BY <2>1, Zenon DEF IInv, RoomInv, RefcntExact
<1> QED
  BY <1>1, Invariance, PTL
-----------------------------------------------------------------------------
(* The refinement mapping. *)

\* The value and the holder of a block, as functions of the cache's state.
ValueIn(bn, va, da, di, b) ==
  IF \E u \in {v \in Buf : bn[v] = b} : va[u]
    THEN da[CHOOSE u \in {v \in Buf : bn[v] = b} : va[u]]
    ELSE di[b]
HolderOf(S) == IF S = {} THEN None ELSE CHOOSE p \in S : TRUE
HolderIn(at, bn, m, b) == HolderOf({p \in Proc : at[p] = "holds" /\ bn[m[p]] = b})

Values == [b \in Block |-> Value(b)]
Holders == [b \in Block |-> Holder(b)]

\* They are the mapping's, before and after a step.
LEMMA MappedValue ==
  ASSUME NEW b
  PROVE  /\ Value(b) = ValueIn(blockno, valid, data, disk, b)
         /\ Value(b)' = ValueIn(blockno', valid', data', disk', b)
BY Zenon DEF Value, ValueIn, Cached

LEMMA MappedHolder ==
  ASSUME NEW b
  PROVE  /\ Holder(b) = HolderIn(pc, blockno, mine, b)
         /\ Holder(b)' = HolderIn(pc', blockno', mine', b)
BY Zenon DEF Holder, HolderIn, HolderOf

\* A block is in at most one buffer.
Once(bn, b) == \A u, v \in Buf : bn[u] = b /\ bn[v] = b => u = v

\* That is the invariant's, before and after a step.
LEMMA OnceEach ==
  ASSUME NEW b \in Block
  PROVE  /\ OnceInv => Once(blockno, b)
         /\ OnceInv' => Once(blockno', b)
<1>1. b # None
  BY CacheAssumption, Zenon
<1>2. OnceInv => Once(blockno, b)
  BY <1>1, Zenon DEF OnceInv, Once
<1>3. OnceInv' => Once(blockno', b)
  BY <1>1, Zenon DEF OnceInv, Once
<1> QED
  BY <1>2, <1>3, Zenon

\* The value of a block is what its valid buffer holds ...
LEMMA ValueCached ==
  ASSUME NEW bn, NEW va, NEW da, NEW di, NEW w \in Buf, va[w],
         NEW b, bn[w] = b, Once(bn, b)
  PROVE  ValueIn(bn, va, da, di, b) = da[w]
<1> DEFINE S == {v \in Buf : bn[v] = b}
<1>1. w \in S /\ \A v \in S : v = w
  BY Zenon DEF Once
<1>2. \E u \in S : va[u]
  BY <1>1, Zenon
<1>3. (CHOOSE u \in S : va[u]) \in S
  BY <1>2, Zenon
<1>4. (CHOOSE u \in S : va[u]) = w
  BY <1>1, <1>3, Zenon
<1> QED
  BY <1>2, <1>4, Zenon DEF ValueIn

\* ... or, when it has none, what the disk holds.
LEMMA ValueOnDisk ==
  ASSUME NEW bn, NEW va, NEW da, NEW di, NEW b,
         \A u \in Buf : bn[u] = b => ~ va[u]
  PROVE  ValueIn(bn, va, da, di, b) = di[b]
BY Zenon DEF ValueIn

\* A block keeps its value when its valid buffer, if it has one, stays valid and
\* keeps the data, and the disk does.
LEMMA ValueKept ==
  ASSUME NEW bn, NEW va, NEW da, NEW di, NEW bn2, NEW va2, NEW da2, NEW di2,
         NEW b, Once(bn, b), Once(bn2, b), di2[b] = di[b],
         \A u \in Buf : (bn2[u] = b /\ va2[u]) <=> (bn[u] = b /\ va[u]),
         \A u \in Buf : bn[u] = b /\ va[u] => da2[u] = da[u]
  PROVE  ValueIn(bn2, va2, da2, di2, b) = ValueIn(bn, va, da, di, b)
<1>1. CASE \E u \in Buf : bn[u] = b /\ va[u]
  <2>1. PICK u \in Buf : bn[u] = b /\ va[u]
    BY <1>1, Zenon
  <2>2. bn2[u] = b /\ va2[u] /\ da2[u] = da[u]
    BY <2>1, Zenon
  <2>3. ValueIn(bn, va, da, di, b) = da[u]
    BY <2>1, ValueCached
  <2>4. ValueIn(bn2, va2, da2, di2, b) = da2[u]
    BY <2>2, ValueCached
  <2> QED
    BY <2>2, <2>3, <2>4, Zenon
<1>2. CASE ~ \E u \in Buf : bn[u] = b /\ va[u]
  <2>1. \A u \in Buf : bn[u] = b => ~ va[u]
    BY <1>2, Zenon
  <2>2. \A u \in Buf : bn2[u] = b => ~ va2[u]
    BY <1>2, Zenon
  <2>3. ValueIn(bn, va, da, di, b) = di[b]
    BY <2>1, ValueOnDisk
  <2>4. ValueIn(bn2, va2, da2, di2, b) = di2[b]
    BY <2>2, ValueOnDisk
  <2> QED
    BY <2>3, <2>4, Zenon
<1> QED
  BY <1>1, <1>2, Zenon

\* The holder of a block is the only process that may change it ...
LEMMA OneHolder ==
  ASSUME NEW at, NEW bn, NEW m, NEW b, NEW p \in Proc, at[p] = "holds", bn[m[p]] = b,
         \A q \in Proc : at[q] = "holds" /\ bn[m[q]] = b => q = p
  PROVE  HolderIn(at, bn, m, b) = p
<1> DEFINE S == {q \in Proc : at[q] = "holds" /\ bn[m[q]] = b}
<1>1. p \in S /\ \A q \in S : q = p
  BY Zenon
<1>2. S # {}
  BY <1>1, Zenon
<1>3. (CHOOSE q \in S : TRUE) \in S
  BY <1>2, Zenon
<1>4. (CHOOSE q \in S : TRUE) = p
  BY <1>1, <1>3, Zenon
<1> QED
  BY <1>2, <1>4, Zenon DEF HolderIn, HolderOf

\* ... or nobody.
LEMMA NoHolder ==
  ASSUME NEW at, NEW bn, NEW m, NEW b,
         \A q \in Proc : ~ (at[q] = "holds" /\ bn[m[q]] = b)
  PROVE  HolderIn(at, bn, m, b) = None
<1>1. {q \in Proc : at[q] = "holds" /\ bn[m[q]] = b} = {}
  BY Zenon
<1> QED
  BY <1>1, Zenon DEF HolderIn, HolderOf

\* The same processes hold a block, so its holder is the same.
LEMMA SameHolder ==
  ASSUME NEW at, NEW bn, NEW m, NEW at2, NEW bn2, NEW m2, NEW b,
         \A q \in Proc : (at[q] = "holds" /\ bn[m[q]] = b)
                           <=> (at2[q] = "holds" /\ bn2[m2[q]] = b)
  PROVE  HolderIn(at2, bn2, m2, b) = HolderIn(at, bn, m, b)
<1>1. {q \in Proc : at2[q] = "holds" /\ bn2[m2[q]] = b}
        = {q \in Proc : at[q] = "holds" /\ bn[m[q]] = b}
  BY Zenon
<1> QED
  BY <1>1, Zenon DEF HolderIn

\* A step of a process that holds no block, before or after, changes no holder.
LEMMA HoldersSame ==
  ASSUME NEW p \in Proc, pc[p] # "holds", pc'[p] # "holds",
         \A q \in Proc : q # p => pc'[q] = pc[q],
         \A q \in Proc : q # p /\ pc[q] = "holds" => blockno'[mine'[q]] = blockno[mine[q]]
  PROVE  Holders' = Holders
<1>1. ASSUME NEW b \in Block PROVE Holder(b)' = Holder(b)
  <2>1. \A q \in Proc : (pc[q] = "holds" /\ blockno[mine[q]] = b)
                          <=> (pc'[q] = "holds" /\ blockno'[mine'[q]] = b)
    BY Zenon
  <2>2. HolderIn(pc', blockno', mine', b) = HolderIn(pc, blockno, mine, b)
    BY <2>1, SameHolder
  <2> QED
    BY <2>2, MappedHolder, Zenon
<1> QED
  BY <1>1, Zenon DEF Holders

\* A block is held by the process that has its buffer after bread.
LEMMA Held ==
  ASSUME IInv, NEW p \in Proc, pc[p] \in {"check", "holds"}, NEW q \in Proc,
         pc[q] = "holds", blockno[mine[q]] = blockno[mine[p]]
  PROVE  q = p
<1>1. TypeOK /\ UserInv /\ OnceInv
  BY Zenon DEF IInv
<1>2. pc[p] \notin {"idle", "panic"} /\ pc[q] \notin {"idle", "panic"} /\ pc[q] \in {"check", "holds"}
  OBVIOUS
<1>3. mine[p] \in Buf /\ mine[q] \in Buf /\ blockno[mine[p]] \in Block
  BY <1>1, <1>2, Mine, Zenon
<1>4. mine[q] = mine[p]
  BY <1>1, <1>3, Only, Zenon
<1>5. lock[mine[p]] = p
  BY <1>1, Zenon DEF UserInv
<1> QED
  BY <1>1, <1>2, <1>4, <1>5, Alone, Zenon

\* So the process is its block's holder.
LEMMA HolderIs ==
  ASSUME IInv, NEW p \in Proc, pc[p] = "holds"
  PROVE  Holder(blockno[mine[p]]) = p
<1>1. pc[p] \in {"check", "holds"}
  OBVIOUS
<1>2. \A q \in Proc : pc[q] = "holds" /\ blockno[mine[q]] = blockno[mine[p]] => q = p
  BY <1>1, Held, Zenon
<1>3. HolderIn(pc, blockno, mine, blockno[mine[p]]) = p
  BY <1>2, OneHolder
<1> QED
  BY <1>3, MappedHolder, Zenon

\* A change of one valid buffer, and of its block on disk, changes the value of
\* that block and of no other.
LEMMA OneValue ==
  ASSUME IInv, IInv', NEW w \in Buf, NEW b \in Block, blockno[w] = b, valid[w],
         blockno' = blockno, valid' = valid,
         \A u \in Buf : u # w => data'[u] = data[u],
         \A c \in Block : c # b => disk'[c] = disk[c]
  PROVE  Values' = [Values EXCEPT ![b] = data'[w]]
<1>1. OnceInv /\ OnceInv'
  BY Zenon DEF IInv
<1>2. Value(b)' = data'[w]
  <2>1. Once(blockno', b) /\ blockno'[w] = b /\ valid'[w]
    BY <1>1, OnceEach, Zenon
  <2>2. ValueIn(blockno', valid', data', disk', b) = data'[w]
    BY <2>1, ValueCached
  <2> QED
    BY <2>2, MappedValue, Zenon
<1>3. ASSUME NEW c \in Block, c # b PROVE Value(c)' = Value(c)
  <2>1. Once(blockno, c) /\ Once(blockno', c) /\ disk'[c] = disk[c]
    BY <1>1, <1>3, OnceEach, Zenon
  <2>2. \A u \in Buf : blockno[u] = c /\ valid[u] => data'[u] = data[u]
    BY <1>3, Zenon
  <2>3. \A u \in Buf : (blockno'[u] = c /\ valid'[u]) <=> (blockno[u] = c /\ valid[u])
    BY Zenon
  <2>4. ValueIn(blockno', valid', data', disk', c) = ValueIn(blockno, valid, data, disk, c)
    BY <2>1, <2>2, <2>3, ValueKept
  <2> QED
    BY <2>4, MappedValue, Zenon
<1> QED
  BY <1>2, <1>3, Zenon DEF Values

\* The value of a block with a valid buffer.
LEMMA ValueIs ==
  ASSUME IInv, NEW w \in Buf, NEW b \in Block, blockno[w] = b, valid[w]
  PROVE  Values[b] = data[w]
<1>1. Once(blockno, b)
  BY OnceEach, Zenon DEF IInv
<1>2. ValueIn(blockno, valid, data, disk, b) = data[w]
  BY <1>1, ValueCached
<1> QED
  BY <1>2, MappedValue, Zenon DEF Values

\* A hit of bget changes no value and no holder.
LEMMA HitMaps ==
  ASSUME IInv, NEW p \in Proc, NEW b \in Block, NEW w \in Buf, Hits(p, b, w), Rest
  PROVE  Values' = Values /\ Holders' = Holders
<1>1. /\ pc[p] = "idle" /\ blockno' = blockno /\ valid' = valid /\ data' = data
      /\ disk' = disk
      /\ mine' = [mine EXCEPT ![p] = w] /\ pc' = [pc EXCEPT ![p] = "lock"]
  BY Zenon DEF Hits, Rest
<1>2. Values' = Values
  BY <1>1, Zenon DEF Values, Value, Cached
<1>3. /\ \A q \in Proc : q # p => mine'[q] = mine[q] /\ pc'[q] = pc[q]
      /\ pc'[p] = "lock"
  BY <1>1, Zenon DEF IInv, TypeOK
<1>4. pc[p] # "holds" /\ pc'[p] # "holds"
  BY <1>1, <1>3
<1>5. \A q \in Proc : q # p /\ pc[q] = "holds" => blockno'[mine'[q]] = blockno[mine[q]]
  BY <1>1, <1>3, Zenon
<1> QED
  BY <1>2, <1>3, <1>4, <1>5, HoldersSame, Zenon

\* A buffer that bget recycles is not pinned, so its former block is on disk; and
\* nobody holds it.
LEMMA MissMaps ==
  ASSUME IInv, IInv', NEW p \in Proc, NEW b \in Block, NEW w \in Unused,
         Recycles(p, b, w), Rest
  PROVE  Values' = Values /\ Holders' = Holders
<1>1. /\ pc[p] = "idle" /\ Cached(b) = {}
      /\ mine' = [mine EXCEPT ![p] = w] /\ pc' = [pc EXCEPT ![p] = "lock"]
      /\ blockno' = [blockno EXCEPT ![w] = b]
      /\ valid' = [valid EXCEPT ![w] = FALSE]
      /\ data' = data /\ disk' = disk
  BY Zenon DEF Recycles, Rest
<1>2. /\ TypeOK /\ UserInv /\ OnceInv /\ OnceInv' /\ CleanInv
  BY Zenon DEF IInv
<1>3. /\ w \in Buf /\ \A q \in Proc : mine[q] # w
      /\ blockno[w] \notin pinned
  BY Unreferenced, Zenon
<1>4. \A u \in Buf : /\ blockno'[u] = IF u = w THEN b ELSE blockno[u]
                     /\ valid'[u] = IF u = w THEN FALSE ELSE valid[u]
  BY <1>1, <1>2, <1>3, Zenon DEF TypeOK
<1>5. ASSUME NEW c \in Block PROVE Value(c)' = Value(c)
  <2>1. Once(blockno, c) /\ Once(blockno', c)
    BY <1>2, OnceEach, Zenon
  <2>2. CASE blockno[w] = c /\ valid[w]
    <3>1. ValueIn(blockno, valid, data, disk, c) = data[w]
      BY <1>3, <2>1, <2>2, ValueCached
    <3>2. data[w] = disk[c]
      BY <1>2, <1>3, <2>2, Zenon DEF CleanInv
    <3>3. \A u \in Buf : blockno'[u] = c => ~ valid'[u]
      <4> SUFFICES ASSUME NEW u \in Buf, blockno'[u] = c, u # w PROVE FALSE
        BY <1>4, Zenon
      <4>1. blockno[u] = c
        BY <1>4, Zenon
      <4> QED
        BY <1>3, <2>1, <2>2, <4>1, Zenon DEF Once
    <3>4. ValueIn(blockno', valid', data', disk', c) = disk'[c]
      BY <3>3, ValueOnDisk
    <3> QED
      BY <1>1, <3>1, <3>2, <3>4, MappedValue, Zenon
  <2>3. CASE ~ (blockno[w] = c /\ valid[w])
    <3>1. \A u \in Buf : (blockno'[u] = c /\ valid'[u]) <=> (blockno[u] = c /\ valid[u])
      BY <1>4, <2>3, Zenon
    <3>2. /\ disk'[c] = disk[c]
          /\ \A u \in Buf : blockno[u] = c /\ valid[u] => data'[u] = data[u]
      BY <1>1, Zenon
    <3>3. ValueIn(blockno', valid', data', disk', c) = ValueIn(blockno, valid, data, disk, c)
      BY <2>1, <3>1, <3>2, ValueKept
    <3> QED
      BY <3>3, MappedValue, Zenon
  <2> QED
    BY <2>2, <2>3, Zenon
<1>6. Values' = Values
  BY <1>5, Zenon DEF Values
<1>7. /\ \A q \in Proc : q # p => mine'[q] = mine[q] /\ pc'[q] = pc[q]
      /\ pc'[p] = "lock"
  BY <1>1, <1>2, Zenon DEF TypeOK
<1>8. pc[p] # "holds" /\ pc'[p] # "holds"
  BY <1>1, <1>7
<1>9. ASSUME NEW q \in Proc, q # p, pc[q] = "holds"
      PROVE  blockno'[mine'[q]] = blockno[mine[q]]
  <2>1. pc[q] \notin {"idle", "panic"}
    BY <1>9
  <2>2. mine[q] \in Buf
    BY <1>2, <2>1, Mine, Zenon
  <2> QED
    BY <1>3, <1>4, <1>7, <1>9, <2>2, Zenon
<1> QED
  BY <1>6, <1>7, <1>8, <1>9, HoldersSame, Zenon

\* A process that panics or waits for a lock, and one that leaves the buffer,
\* changes no value and no holder.
LEMMA QuietMaps ==
  ASSUME IInv, NEW p \in Proc, NEW x, x # "holds", pc[p] # "holds",
         pc' = [pc EXCEPT ![p] = x],
         \A q \in Proc : q # p => mine'[q] = mine[q],
         blockno' = blockno, valid' = valid, data' = data, disk' = disk
  PROVE  Values' = Values /\ Holders' = Holders
<1>1. Values' = Values
  BY Zenon DEF Values, Value, Cached
<1>2. (\A q \in Proc : q # p => pc'[q] = pc[q]) /\ pc'[p] # "holds"
  BY Zenon DEF IInv, TypeOK
<1>3. \A q \in Proc : q # p /\ pc[q] = "holds" => blockno'[mine'[q]] = blockno[mine[q]]
  BY Zenon
<1> QED
  BY <1>1, <1>2, <1>3, HoldersSame, Zenon

\* bget is a stuttering step of the store.
LEMMA GetMaps ==
  ASSUME IInv, IInv', NEW p \in Proc, NEW b \in Block, bget(p, b)
  PROVE  Values' = Values /\ Holders' = Holders
<1>1. /\ Rest
      /\ \/ \E w \in Buf : Hits(p, b, w)
         \/ \E w \in Unused : Recycles(p, b, w)
         \/ Panics(p)
  BY GetCases, Zenon
<1>2. ASSUME NEW w \in Buf, Hits(p, b, w) PROVE Values' = Values /\ Holders' = Holders
  BY <1>1, <1>2, HitMaps, Zenon
<1>3. ASSUME NEW w \in Unused, Recycles(p, b, w)
      PROVE  Values' = Values /\ Holders' = Holders
  BY <1>1, <1>3, MissMaps, Zenon
<1>4. ASSUME Panics(p) PROVE Values' = Values /\ Holders' = Holders
  <2>1. /\ pc[p] = "idle" /\ pc' = [pc EXCEPT ![p] = "panic"] /\ mine' = mine
        /\ blockno' = blockno /\ valid' = valid /\ data' = data /\ disk' = disk
    BY <1>1, <1>4, Zenon DEF Panics, Rest
  <2>2. pc[p] # "holds" /\ "panic" # "holds"
    BY <2>1
  <2>3. \A q \in Proc : q # p => mine'[q] = mine[q]
    BY <2>1, Zenon
  <2> QED
    BY <2>1, <2>2, <2>3, QuietMaps, Zenon
<1> QED
  BY <1>1, <1>2, <1>3, <1>4, Zenon
\* The holders depend on nothing else.
LEMMA HoldersFixed ==
  ASSUME pc' = pc, blockno' = blockno, mine' = mine
  PROVE  Holders' = Holders
<1>1. ASSUME NEW b \in Block PROVE Holder(b)' = Holder(b)
  <2>1. HolderIn(pc', blockno', mine', b) = HolderIn(pc, blockno, mine, b)
    BY Zenon
  <2> QED
    BY <2>1, MappedHolder, Zenon
<1> QED
  BY <1>1, Zenon DEF Holders

\* acquiresleep is one as well,
LEMMA AcquireMaps ==
  ASSUME IInv, NEW p \in Proc, acquiresleep(p)
  PROVE  Values' = Values /\ Holders' = Holders
<1>1. /\ pc[p] = "lock" /\ pc' = [pc EXCEPT ![p] = "check"] /\ mine' = mine
      /\ blockno' = blockno /\ valid' = valid /\ data' = data /\ disk' = disk
  BY Zenon DEF acquiresleep
<1>2. pc[p] # "holds" /\ "check" # "holds"
  BY <1>1
<1>3. \A q \in Proc : q # p => mine'[q] = mine[q]
  BY <1>1, Zenon
<1> QED
  BY <1>1, <1>2, <1>3, QuietMaps, Zenon

\* and so is the end of brelse.
LEMMA BrelseMaps ==
  ASSUME IInv, NEW p \in Proc, brelse(p)
  PROVE  Values' = Values /\ Holders' = Holders
<1>1. /\ pc[p] = "brelse" /\ pc' = [pc EXCEPT ![p] = "idle"]
      /\ mine' = [mine EXCEPT ![p] = None]
      /\ blockno' = blockno /\ valid' = valid /\ data' = data /\ disk' = disk
  BY Zenon DEF brelse
<1>2. pc[p] # "holds" /\ "idle" # "holds"
  BY <1>1
<1>3. \A q \in Proc : q # p => mine'[q] = mine[q]
  BY <1>1, Zenon DEF IInv, TypeOK
<1> QED
  BY <1>1, <1>2, <1>3, QuietMaps, Zenon

\* The rest of bread makes the process the holder of a block that had none, and
\* shows it the block's value.
LEMMA ReadMaps ==
  ASSUME IInv, IInv', NEW p \in Proc, bread(p)
  PROVE  \E b \in Block : Store!Hold(p, b)
<1>1. /\ pc[p] = "check"
      /\ data' = IF valid[mine[p]] THEN data
                 ELSE [data EXCEPT ![mine[p]] = disk[blockno[mine[p]]]]
      /\ valid' = [valid EXCEPT ![mine[p]] = TRUE]
      /\ pc' = [pc EXCEPT ![p] = "holds"]
      /\ blockno' = blockno /\ disk' = disk /\ mine' = mine
  BY Zenon DEF bread
<1>2. /\ TypeOK /\ UserInv /\ OnceInv /\ OnceInv'
  BY Zenon DEF IInv
<1>3. pc[p] \notin {"idle", "panic"} /\ pc[p] \in {"check", "holds"} /\ pc[p] # "holds"
  BY <1>1
<1>4. mine[p] \in Buf /\ blockno[mine[p]] \in Block
  BY <1>2, <1>3, Mine, Zenon
<1>5. PICK w \in Buf : w = mine[p]
  BY <1>4, Zenon
<1>6. PICK b \in Block : b = blockno[w]
  BY <1>4, <1>5, Zenon
<1>7. \A u \in Buf : u # w => data'[u] = data[u] /\ valid'[u] = valid[u]
  <2>1. data \in [Buf -> Data] /\ valid \in [Buf -> BOOLEAN]
    BY <1>2, Zenon DEF TypeOK
  <2>2. \A u \in Buf : u # w => valid'[u] = valid[u]
    BY <1>1, <1>5, <2>1, Zenon
  <2>3. \A u \in Buf : u # w => data'[u] = data[u]
    BY <1>1, <1>5, <2>1, Zenon
  <2> QED
    BY <2>2, <2>3, Zenon
<1>8. /\ valid'[w]
      /\ valid[w] => data'[w] = data[w]
      /\ ~ valid[w] => data'[w] = disk[b]
  <2>1. data \in [Buf -> Data] /\ valid \in [Buf -> BOOLEAN]
    BY <1>2, Zenon DEF TypeOK
  <2> QED
    BY <1>1, <1>5, <1>6, <2>1, Zenon
<1>9. Values' = Values
  <2>1. ASSUME NEW c \in Block PROVE Value(c)' = Value(c)
    <3>1. Once(blockno, c) /\ Once(blockno', c)
      BY <1>2, OnceEach, Zenon
    <3>2. CASE c = b /\ ~ valid[w]
      <4>1. blockno[w] = c /\ blockno'[w] = c /\ data'[w] = disk[c]
        BY <1>1, <1>6, <1>8, <3>2, Zenon
      <4>2. ValueIn(blockno', valid', data', disk', c) = data'[w]
        BY <1>8, <3>1, <4>1, ValueCached
      <4>3. \A u \in Buf : blockno[u] = c => ~ valid[u]
        BY <3>1, <3>2, <4>1, Zenon DEF Once
      <4>4. ValueIn(blockno, valid, data, disk, c) = disk[c]
        BY <4>3, ValueOnDisk
      <4> QED
        BY <4>1, <4>2, <4>4, MappedValue, Zenon
    <3>3. CASE c # b \/ valid[w]
      <4>1. \A u \in Buf : (blockno'[u] = c /\ valid'[u]) <=> (blockno[u] = c /\ valid[u])
        BY <1>1, <1>6, <1>7, <1>8, <3>3, Zenon
      <4>2. \A u \in Buf : blockno[u] = c /\ valid[u] => data'[u] = data[u]
        BY <1>6, <1>7, <1>8, <3>3, Zenon
      <4>3. disk'[c] = disk[c]
        BY <1>1, Zenon
      <4>4. ValueIn(blockno', valid', data', disk', c) = ValueIn(blockno, valid, data, disk, c)
        BY <3>1, <4>1, <4>2, <4>3, ValueKept
      <4> QED
        BY <4>4, MappedValue, Zenon
    <3> QED
      BY <3>2, <3>3, Zenon
  <2> QED
    BY <2>1, Zenon DEF Values
<1>10. (\A q \in Proc : q # p => pc'[q] = pc[q]) /\ pc'[p] = "holds"
  BY <1>1, <1>2, Zenon DEF TypeOK
<1>11. \A q \in Proc : ~ (pc[q] = "holds" /\ blockno[mine[q]] = b)
  BY <1>3, <1>5, <1>6, Held, Zenon
<1>12. Holder(b) = None
  BY <1>11, NoHolder, MappedHolder
<1>13. Holder(b)' = p
  <2>1. blockno'[mine'[p]] = b
    BY <1>1, <1>5, <1>6, Zenon
  <2>2. \A q \in Proc : pc'[q] = "holds" /\ blockno'[mine'[q]] = b => q = p
    BY <1>1, <1>10, <1>11, Zenon
  <2>3. pc'[p] = "holds"
    BY <1>10, Zenon
  <2>4. HolderIn(pc', blockno', mine', b) = p
    BY <2>1, <2>2, <2>3, OneHolder
  <2> QED
    BY <2>4, MappedHolder, Zenon
<1>14. ASSUME NEW c \in Block, c # b PROVE Holder(c)' = Holder(c)
  <2>1. \A q \in Proc : (pc[q] = "holds" /\ blockno[mine[q]] = c)
                          <=> (pc'[q] = "holds" /\ blockno'[mine'[q]] = c)
    BY <1>1, <1>3, <1>5, <1>6, <1>10, <1>14, Zenon
  <2>2. HolderIn(pc', blockno', mine', c) = HolderIn(pc, blockno, mine, c)
    BY <2>1, SameHolder
  <2> QED
    BY <2>2, MappedHolder, Zenon
<1>15. Holders' = [Holders EXCEPT ![b] = p] /\ Holders[b] = None
  BY <1>12, <1>13, <1>14, Zenon DEF Holders
<1> QED
  BY <1>9, <1>15, Zenon DEF Store!Hold, Holders, Values

\* bwrite and log_write change the value of a block that the process holds.
LEMMA ChangeMaps ==
  ASSUME IInv, IInv', NEW p \in Proc, NEW d \in Data, pc[p] = "holds",
         data' = [data EXCEPT ![mine[p]] = d],
         disk' = disk \/ disk' = [disk EXCEPT ![blockno[mine[p]]] = d],
         blockno' = blockno, valid' = valid, pc' = pc, mine' = mine
  PROVE  \E b \in Block : Store!Change(p, b, d)
<1>1. TypeOK /\ UserInv
  BY Zenon DEF IInv
<1>2. pc[p] \notin {"idle", "panic"}
  OBVIOUS
<1>3. mine[p] \in Buf /\ blockno[mine[p]] \in Block /\ valid[mine[p]]
  BY <1>1, <1>2, Mine, Zenon DEF UserInv
<1>4. PICK w \in Buf : w = mine[p]
  BY <1>3, Zenon
<1>5. PICK b \in Block : b = blockno[w]
  BY <1>3, <1>4, Zenon
<1>6. data'[w] = d /\ \A u \in Buf : u # w => data'[u] = data[u]
  BY <1>1, <1>4, Zenon DEF TypeOK
<1>7. \A c \in Block : c # b => disk'[c] = disk[c]
  BY <1>1, <1>4, <1>5, Zenon DEF TypeOK
<1>8. Values' = [Values EXCEPT ![b] = d]
  BY <1>3, <1>4, <1>5, <1>6, <1>7, OneValue
<1>9. Holders' = Holders
  BY HoldersFixed, Zenon
<1>10. Holders[b] = p
  BY <1>4, <1>5, HolderIs, Zenon DEF Holders
<1> QED
  BY <1>8, <1>9, <1>10, Zenon DEF Store!Change, Holders, Values

\* install_trans writes to the disk the value that the block has already.
LEMMA InstallMaps ==
  ASSUME IInv, IInv', NEW p \in Proc, install(p)
  PROVE  Values' = Values /\ Holders' = Holders
<1>1. /\ pc[p] = "holds"
      /\ disk' = [disk EXCEPT ![blockno[mine[p]]] = data[mine[p]]]
      /\ blockno' = blockno /\ valid' = valid /\ data' = data /\ pc' = pc
      /\ mine' = mine
  BY Zenon DEF install
<1>2. TypeOK /\ UserInv
  BY Zenon DEF IInv
<1>3. pc[p] \notin {"idle", "panic"}
  BY <1>1
<1>4. mine[p] \in Buf /\ blockno[mine[p]] \in Block /\ valid[mine[p]]
  BY <1>1, <1>2, <1>3, Mine, Zenon DEF UserInv
<1>5. PICK w \in Buf : w = mine[p]
  BY <1>4, Zenon
<1>6. PICK b \in Block : b = blockno[w]
  BY <1>4, <1>5, Zenon
<1>7. \A c \in Block : c # b => disk'[c] = disk[c]
  BY <1>1, <1>2, <1>5, <1>6, Zenon DEF TypeOK
<1>8. valid[w] /\ blockno[w] = b
  BY <1>4, <1>5, <1>6, Zenon
<1>9. \A u \in Buf : u # w => data'[u] = data[u]
  BY <1>1, Zenon
<1>10. Values' = [Values EXCEPT ![b] = data'[w]]
  BY <1>1, <1>7, <1>8, <1>9, OneValue
<1>11. Values[b] = data[w]
  BY <1>8, ValueIs, Zenon
<1>12. Values' = Values
  <2>1. Values = [c \in Block |-> Values[c]]
    BY Zenon DEF Values
  <2> QED
    BY <1>1, <1>10, <1>11, <2>1
<1>13. Holders' = Holders
  BY <1>1, HoldersFixed, Zenon
<1> QED
  BY <1>12, <1>13, Zenon

\* releasesleep lets go of a block that the process holds.
LEMMA ReleaseMaps ==
  ASSUME IInv, NEW p \in Proc, releasesleep(p)
  PROVE  \E b \in Block : Store!LetGo(p, b)
<1>1. /\ pc[p] = "holds" /\ pc' = [pc EXCEPT ![p] = "brelse"]
      /\ blockno' = blockno /\ valid' = valid /\ data' = data /\ disk' = disk
      /\ mine' = mine
  BY Zenon DEF releasesleep
<1>2. TypeOK /\ UserInv
  BY Zenon DEF IInv
<1>3. pc[p] \notin {"idle", "panic"} /\ pc[p] \in {"check", "holds"}
  BY <1>1
<1>4. mine[p] \in Buf /\ blockno[mine[p]] \in Block
  BY <1>2, <1>3, Mine, Zenon
<1>5. PICK b \in Block : b = blockno[mine[p]]
  BY <1>4, Zenon
<1>6. Values' = Values
  BY <1>1, Zenon DEF Values, Value, Cached
<1>7. Holders[b] = p
  BY <1>1, <1>5, HolderIs, Zenon DEF Holders
<1>8. (\A q \in Proc : q # p => pc'[q] = pc[q]) /\ pc'[p] = "brelse"
  BY <1>1, <1>2, Zenon DEF TypeOK
<1>9. Holder(b)' = None
  <2>1. pc'[p] # "holds"
    BY <1>8
  <2>2. \A q \in Proc : pc[q] = "holds" /\ blockno[mine[q]] = b => q = p
    BY <1>3, <1>5, Held, Zenon
  <2>3. \A q \in Proc : ~ (pc'[q] = "holds" /\ blockno'[mine'[q]] = b)
    BY <1>1, <1>8, <2>1, <2>2, Zenon
  <2> QED
    BY <2>3, NoHolder, MappedHolder
<1>10. ASSUME NEW c \in Block, c # b PROVE Holder(c)' = Holder(c)
  <2>1. pc'[p] # "holds"
    BY <1>8
  <2>2. \A q \in Proc : (pc[q] = "holds" /\ blockno[mine[q]] = c)
                          <=> (pc'[q] = "holds" /\ blockno'[mine'[q]] = c)
    BY <1>1, <1>5, <1>8, <1>10, <2>1, Zenon
  <2>3. HolderIn(pc', blockno', mine', c) = HolderIn(pc, blockno, mine, c)
    BY <2>2, SameHolder
  <2> QED
    BY <2>3, MappedHolder, Zenon
<1>11. Holders' = [Holders EXCEPT ![b] = None]
  BY <1>9, <1>10, Zenon DEF Holders
<1> QED
  BY <1>6, <1>7, <1>11, Zenon DEF Store!LetGo, Holders, Values

\* For any number of users, blocks, buffers and pins the cache is coherent: with
\* the disk it implements a store in which every block has one value, which one
\* process at a time holds and changes, whatever is recycled, pinned or waited for.
THEOREM CacheIsBlockStore == Spec => IsBlockStore
<1>1. Init => Store!Init
  <2> SUFFICES ASSUME Init PROVE Store!Init
    OBVIOUS
  <2>1. /\ \A u \in Buf : ~ valid[u]
        /\ \A p \in Proc : pc[p] = "idle"
        /\ disk \in [Block -> Data]
    BY Zenon DEF Init
  <2>2. ASSUME NEW b \in Block PROVE Value(b) \in Data
    <3>1. Value(b) = disk[b]
      BY <2>1, Zenon DEF Value, Cached
    <3> QED
      BY <2>1, <3>1, Zenon
  <2>3. ASSUME NEW b \in Block PROVE Holder(b) = None
    <3>1. \A q \in Proc : ~ (pc[q] = "holds" /\ blockno[mine[q]] = b)
      BY <2>1
    <3> QED
      BY <3>1, NoHolder, MappedHolder
  <2> QED
    BY <2>2, <2>3, Zenon DEF Store!Init
<1>2. IInv /\ IInv' /\ [Next]_vars => [Store!Next]_(Store!vars)
  <2> DEFINE Kept == Values' = Values /\ Holders' = Holders
             Moved == \E p \in Proc, b \in Block :
                        Store!Hold(p, b) \/ Store!LetGo(p, b)
                          \/ \E d \in Data : Store!Change(p, b, d)
  <2> SUFFICES ASSUME IInv, IInv', [Next]_vars PROVE Kept \/ Moved
    BY Zenon DEF Store!Next, Store!vars, Values, Holders
  <2>1. ASSUME NEW p \in Proc, NEW b \in Block, bget(p, b) PROVE Kept
    BY <2>1, GetMaps, Zenon
  <2>2. ASSUME NEW p \in Proc, acquiresleep(p) PROVE Kept
    BY <2>2, AcquireMaps, Zenon
  <2>3. ASSUME NEW p \in Proc, bread(p) PROVE Moved
    BY <2>3, ReadMaps, Zenon
  <2>4. ASSUME NEW p \in Proc, install(p) PROVE Kept
    BY <2>4, InstallMaps, Zenon
  <2>5. ASSUME NEW p \in Proc, releasesleep(p) PROVE Moved
    BY <2>5, ReleaseMaps, Zenon
  <2>6. ASSUME NEW p \in Proc, brelse(p) PROVE Kept
    BY <2>6, BrelseMaps, Zenon
  <2>7. ASSUME NEW p \in Proc, NEW d \in Data, bwrite(p, d) PROVE Moved
    <3>1. \E b \in Block : Store!Change(p, b, d)
      BY <2>7, ChangeMaps, Zenon DEF bwrite
    <3> QED
      BY <3>1, Zenon
  <2>8. ASSUME NEW p \in Proc, NEW d \in Data, log_write(p, d) PROVE Moved
    <3>1. \E b \in Block : Store!Change(p, b, d)
      BY <2>8, ChangeMaps, Zenon DEF log_write
    <3> QED
      BY <3>1, Zenon
  <2>9. CASE UNCHANGED vars
    <3>1. /\ blockno' = blockno /\ valid' = valid /\ data' = data /\ disk' = disk
          /\ pc' = pc /\ mine' = mine
      BY <2>9 DEF vars, bufs
    <3> QED
      BY <3>1, HoldersFixed, Zenon DEF Values, Value, Cached
  <2> HIDE DEF Kept, Moved
  <2> QED
    BY <2>1, <2>2, <2>3, <2>4, <2>5, <2>6, <2>7, <2>8, <2>9, Zenon DEF Next
<1> QED
  BY <1>1, <1>2, Invariance, PTL DEF Spec, IsBlockStore, Store!Spec
=============================================================================
