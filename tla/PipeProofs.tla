----------------------------- MODULE PipeProofs -----------------------------
(***************************************************************************)
(* Proofs about the pipe: its wrapping counters implement a bounded        *)
(* stream, its page is freed only when nobody can reach it, and nobody     *)
(* sleeps on it without cause, for any number of processes and any sizes   *)
(* the code's arithmetic admits.                                           *)
(***************************************************************************)
EXTENDS Pipe, SequenceTheorems, TLAPS

-----------------------------------------------------------------------------
(* Remainders *)

\* Quotient and remainder.
LEMMA ModDef ==
  ASSUME NEW m \in Nat \ {0}, NEW a \in Int
  PROVE  /\ a \div m \in Int /\ a % m \in 0..(m-1)
         /\ a = m * (a \div m) + (a % m)
  BY SMT

\* The remainder of what is at most one modulus above its range ...
LEMMA ModAbove ==
  ASSUME NEW m \in Nat \ {0}, NEW a \in 0..(2 * m - 1)
  PROVE  a % m = IF a < m THEN a ELSE a - m
  BY SMT

\* ... or below it.
LEMMA ModBelow ==
  ASSUME NEW m \in Nat \ {0}, NEW a \in (-m)..(m - 1)
  PROVE  a % m = IF a < 0 THEN a + m ELSE a
  BY SMT

\* A multiple of m that is smaller than m is 0.
LEMMA SmallMultiple ==
  ASSUME NEW m \in Nat \ {0}, NEW q \in Int, m * q < m, -m < m * q
  PROVE  q = 0
  BY SMT

\* Remainders are unique.
LEMMA ModUnique ==
  ASSUME NEW m \in Nat \ {0}, NEW p \in Int, NEW q \in Int,
         NEW a \in 0..(m-1), NEW b \in 0..(m-1), m * p + a = m * q + b
  PROVE  a = b
<1>1. m * (p - q) = b - a
  BY SMT
<1>2. p - q = 0
  BY <1>1, SmallMultiple
<1>. QED  BY <1>1, <1>2

\* A round of the counters is a whole number of rounds of the buffer.
LEMMA ModShift ==
  ASSUME NEW m \in Nat \ {0}, NEW u \in Nat, u % m = 0, NEW i \in Int
  PROVE  (u + i) % m = i % m
<1>. DEFINE k == u \div m    p == i \div m    r == (u + i) \div m
            a == i % m       b == (u + i) % m
<1>1. k \in Int /\ u = m * k
  BY ModDef
<1>2. p \in Int /\ a \in 0..(m-1) /\ i = m * p + a
  BY ModDef
<1>3. r \in Int /\ b \in 0..(m-1) /\ u + i = m * r + b
  BY ModDef
<1>. HIDE DEF k, p, r, a, b
<1>4. m * (k + p) + a = m * r + b
  BY <1>1, <1>2, <1>3
<1>5. a = b
  BY <1>1, <1>2, <1>3, <1>4, ModUnique
<1>. QED  BY <1>5 DEF a, b

\* Positions less than a round apart are different places of the buffer.
LEMMA ModDistinct ==
  ASSUME NEW m \in Nat \ {0}, NEW i \in Int, NEW j \in Int, i < j, j < i + m
  PROVE  i % m # j % m
<1>. DEFINE p == i \div m    r == j \div m    a == i % m    b == j % m
<1>1. p \in Int /\ a \in 0..(m-1) /\ i = m * p + a
  BY ModDef
<1>2. r \in Int /\ b \in 0..(m-1) /\ j = m * r + b
  BY ModDef
<1>. HIDE DEF p, r, a, b
<1>. SUFFICES ASSUME a = b PROVE FALSE
  BY DEF a, b
<1>3. m * (r - p) = j - i
  BY <1>1, <1>2
<1>4. r - p = 0
  BY <1>1, <1>2, <1>3, SmallMultiple
<1>. QED  BY <1>1, <1>3, <1>4
-----------------------------------------------------------------------------
(* The counters *)

\* nread and nwrite in range.
CounterOK == nread \in 0..(UintMod-1) /\ nwrite \in 0..(UintMod-1)

\* How far a counter w is ahead of a counter r.
LEMMA Distance ==
  ASSUME NEW r \in 0..(UintMod-1), NEW w \in 0..(UintMod-1)
  PROVE  (w - r) % UintMod = IF r <= w THEN w - r ELSE w - r + UintMod
<1>1. UintMod \in Nat \ {0} /\ w - r \in (-UintMod)..(UintMod-1)
  BY PipeAssumption
<1>2. (w - r) % UintMod = IF w - r < 0 THEN w - r + UintMod ELSE w - r
  BY Zenon, <1>1, ModBelow
<1>. QED  BY <1>1, <1>2

\* The counter r, advanced by at most a round.
LEMMA Advance ==
  ASSUME NEW r \in 0..(UintMod-1), NEW k \in 0..(UintMod-1)
  PROVE  (r + k) % UintMod = IF r + k < UintMod THEN r + k ELSE (r + k) - UintMod
<1>1. UintMod \in Nat \ {0} /\ r + k \in 0..(2 * UintMod - 1)
  BY PipeAssumption
<1>. QED  BY Zenon, <1>1, ModAbove

\* Full and Empty in terms of Count.
LEMMA CountIs ==
  ASSUME CounterOK
  PROVE  /\ Count = IF nread <= nwrite THEN nwrite - nread ELSE nwrite - nread + UintMod
         /\ Count \in 0..(UintMod-1)
         /\ Full <=> Count = PIPESIZE
         /\ Empty <=> Count = 0
<1>1. Count = IF nread <= nwrite THEN nwrite - nread ELSE nwrite - nread + UintMod
  BY Distance DEF Count, CounterOK
<1>2. PIPESIZE \in 0..(UintMod-1)
  BY PipeAssumption
<1>3. (nread + PIPESIZE) % UintMod =
        IF nread + PIPESIZE < UintMod THEN nread + PIPESIZE ELSE (nread + PIPESIZE) - UintMod
  BY Zenon, <1>2, Advance DEF CounterOK
<1>. QED  BY <1>1, <1>2, <1>3, PipeAssumption DEF CounterOK, Full, Empty

\* One more byte written ...
LEMMA CountPut ==
  ASSUME CounterOK, Count < PIPESIZE,
         nwrite' = (nwrite + 1) % UintMod, nread' = nread
  PROVE  /\ CounterOK' /\ Count' = Count + 1
         /\ nread + Count \in {nwrite, nwrite + UintMod}
<1>1. nwrite' = IF nwrite + 1 < UintMod THEN nwrite + 1 ELSE 0
  <2>1. 1 \in 0..(UintMod-1)
    BY PipeAssumption
  <2>2. nwrite' = IF nwrite + 1 < UintMod THEN nwrite + 1 ELSE (nwrite + 1) - UintMod
    BY Zenon, <2>1, Advance DEF CounterOK
  <2>. QED  BY <2>2, PipeAssumption DEF CounterOK
<1>2. CounterOK'
  BY <1>1, PipeAssumption DEF CounterOK
<1>3. Count' = IF nread' <= nwrite' THEN nwrite' - nread' ELSE nwrite' - nread' + UintMod
  BY <1>2, Distance DEF Count, CounterOK
<1>. QED  BY <1>1, <1>2, <1>3, CountIs, PipeAssumption DEF CounterOK

\* ... and one read.
LEMMA CountTake ==
  ASSUME CounterOK, Count > 0,
         nread' = (nread + 1) % UintMod, nwrite' = nwrite
  PROVE  /\ CounterOK' /\ Count' = Count - 1
         /\ nread + 1 \in {nread', UintMod + nread'}
<1>1. nread' = IF nread + 1 < UintMod THEN nread + 1 ELSE 0
  <2>1. 1 \in 0..(UintMod-1)
    BY PipeAssumption
  <2>2. nread' = IF nread + 1 < UintMod THEN nread + 1 ELSE (nread + 1) - UintMod
    BY Zenon, <2>1, Advance DEF CounterOK
  <2>. QED  BY <2>2, PipeAssumption DEF CounterOK
<1>2. CounterOK'
  BY <1>1, PipeAssumption DEF CounterOK
<1>3. Count' = IF nread' <= nwrite' THEN nwrite' - nread' ELSE nwrite' - nread' + UintMod
  BY <1>2, Distance DEF Count, CounterOK
<1>. QED  BY <1>1, <1>2, <1>3, CountIs, PipeAssumption DEF CounterOK
-----------------------------------------------------------------------------
(* The bytes in the buffer *)

\* What the stream of BoundedStream is, in the buffer.
Bytes == [k \in 1..Count |-> data[(nread + k - 1) % PIPESIZE]]
DataOK == data \in [0..PIPESIZE-1 -> Byte]

\* The buffer divides the range of the counters.
LEMMA Sizes == PIPESIZE \in Nat \ {0} /\ UintMod \in Nat /\ UintMod % PIPESIZE = 0
  BY Zenon, PipeAssumption

\* Every position is a place of the buffer.
LEMMA PlaceOK ==
  ASSUME NEW i \in Int
  PROVE  i % PIPESIZE \in 0..PIPESIZE-1
  BY Zenon, ModDef, Sizes

\* The stream is a sequence of bytes.
LEMMA BytesType ==
  ASSUME CounterOK, DataOK
  PROVE  Bytes \in Seq(Byte) /\ Len(Bytes) = Count
<1>1. Count \in Nat
  BY CountIs
<1>2. ASSUME NEW k \in 1..Count PROVE data[(nread + k - 1) % PIPESIZE] \in Byte
  <2>1. nread + k - 1 \in Int
    BY <1>1 DEF CounterOK
  <2>. QED  BY <2>1, PlaceOK DEF DataOK
<1>3. Bytes \in [1..Count -> Byte]
  BY <1>2 DEF Bytes
<1>. QED  BY <1>1, <1>3

\* pi->data[pi->nwrite++ % PIPESIZE] = ch appends ch ...
LEMMA PutAppends ==
  ASSUME CounterOK, DataOK, Count < PIPESIZE, NEW c \in Byte,
         data' = [data EXCEPT ![nwrite % PIPESIZE] = c],
         nwrite' = (nwrite + 1) % UintMod, nread' = nread
  PROVE  DataOK' /\ Bytes' = Append(Bytes, c)
<1>1. CounterOK' /\ Count' = Count + 1 /\ Count \in Nat
  BY CountPut, CountIs
<1>2. DataOK'
  BY Zenon DEF DataOK
<1>3. Bytes' = [k \in 1..(Count + 1) |-> data'[(nread + k - 1) % PIPESIZE]]
  BY <1>1 DEF Bytes
<1>4. nwrite % PIPESIZE = (nread + Count) % PIPESIZE /\ nwrite % PIPESIZE \in 0..PIPESIZE-1
  <2>1. nread + Count \in {nwrite, UintMod + nwrite}
    BY CountPut, PipeAssumption DEF CounterOK
  <2>2. (UintMod + nwrite) % PIPESIZE = nwrite % PIPESIZE
    <3>1. nwrite \in Int
      BY DEF CounterOK
    <3>. QED  BY Zenon, <3>1, ModShift, Sizes
  <2>. QED  BY <2>1, <2>2, PlaceOK DEF CounterOK
<1>5. data'[(nread + (Count + 1) - 1) % PIPESIZE] = c
  BY <1>1, <1>4 DEF DataOK, CounterOK
<1>6. ASSUME NEW k \in 1..Count
      PROVE  data'[(nread + k - 1) % PIPESIZE] = data[(nread + k - 1) % PIPESIZE]
  <2>1. (nread + k - 1) % PIPESIZE # (nread + Count) % PIPESIZE
    <3>1. /\ nread + k - 1 \in Int /\ nread + Count \in Int
          /\ nread + k - 1 < nread + Count /\ nread + Count < nread + k - 1 + PIPESIZE
      BY <1>1, Sizes DEF CounterOK
    <3>. QED  BY Zenon, <3>1, ModDistinct, Sizes
  <2>2. (nread + k - 1) % PIPESIZE \in 0..PIPESIZE-1
    BY <1>1, PlaceOK DEF CounterOK
  <2>. QED  BY <1>4, <2>1, <2>2 DEF DataOK
<1>7. /\ Bytes' \in Seq(Byte) /\ Len(Bytes') = Count + 1
      /\ \A k \in 1..Count : Bytes'[k] = Bytes[k]
      /\ Bytes'[Count + 1] = c
  <2>1. Bytes' \in [1..(Count + 1) -> Byte]
    <3>1. ASSUME NEW k \in 1..(Count + 1) PROVE data'[(nread + k - 1) % PIPESIZE] \in Byte
      <4>1. nread + k - 1 \in Int
        BY <1>1 DEF CounterOK
      <4>. QED  BY <1>2, <4>1, PlaceOK DEF DataOK
    <3>. QED  BY <1>3, <3>1
  <2>2. \A k \in 1..Count : Bytes'[k] = Bytes[k]
    BY <1>1, <1>3, <1>6 DEF Bytes
  <2>3. Bytes'[Count + 1] = c
    BY <1>1, <1>3, <1>5
  <2>. QED  BY <1>1, <2>1, <2>2, <2>3
<1>8. /\ Append(Bytes, c) \in Seq(Byte) /\ Len(Append(Bytes, c)) = Count + 1
      /\ \A k \in 1..Count : Append(Bytes, c)[k] = Bytes[k]
      /\ Append(Bytes, c)[Count + 1] = c
  BY BytesType, AppendProperties
<1>. QED  BY <1>1, <1>2, <1>7, <1>8, SeqEqual

\* ... and pi->nread++ takes the oldest byte.
LEMMA TakeTails ==
  ASSUME CounterOK, DataOK, Count > 0,
         nread' = (nread + 1) % UintMod, UNCHANGED <<data, nwrite>>
  PROVE  Bytes # <<>> /\ Bytes' = Tail(Bytes)
<1>1. CounterOK' /\ Count' = Count - 1 /\ Count \in Nat
  BY CountTake, CountIs
<1>2. ASSUME NEW k \in 1..(Count - 1)
      PROVE  (nread' + k - 1) % PIPESIZE = (nread + (k + 1) - 1) % PIPESIZE
  <2>1. nread + 1 \in {nread', UintMod + nread'}
    BY CountTake
  <2>2. (UintMod + (nread' + k - 1)) % PIPESIZE = (nread' + k - 1) % PIPESIZE
    <3>1. nread' + k - 1 \in Int
      BY <1>1 DEF CounterOK
    <3>. QED  BY Zenon, <3>1, ModShift, Sizes
  <2>3. nread + (k + 1) - 1 \in {nread' + k - 1, UintMod + (nread' + k - 1)}
    BY <1>1, <2>1, PipeAssumption DEF CounterOK
  <2>. QED  BY <2>2, <2>3
<1>3. Bytes \in Seq(Byte) /\ Len(Bytes) = Count /\ Bytes # <<>>
  BY <1>1, BytesType
<1>4. /\ Bytes' \in Seq(Byte) /\ Len(Bytes') = Count - 1
      /\ \A k \in 1..(Count - 1) : Bytes'[k] = Bytes[k + 1]
  <2>1. Bytes' = [k \in 1..(Count - 1) |-> data[(nread' + k - 1) % PIPESIZE]]
    BY <1>1 DEF Bytes
  <2>2. \A k \in 1..(Count - 1) : Bytes'[k] = Bytes[k + 1]
    <3>. SUFFICES ASSUME NEW k \in 1..(Count - 1) PROVE Bytes'[k] = Bytes[k + 1]
      OBVIOUS
    <3>1. k + 1 \in 1..Count
      BY <1>1
    <3>2. Bytes[k + 1] = data[(nread + (k + 1) - 1) % PIPESIZE]
      BY <3>1 DEF Bytes
    <3>. QED  BY <1>2, <2>1, <3>2
  <2>3. \A k \in 1..(Count - 1) : Bytes[k + 1] \in Byte
    BY <1>1, <1>3, ElementOfSeq
  <2>4. Bytes' \in [1..(Count - 1) -> Byte]
    BY <2>1, <2>2, <2>3
  <2>. QED  BY <1>1, <2>2, <2>4
<1>5. /\ Tail(Bytes) \in Seq(Byte) /\ Len(Tail(Bytes)) = Count - 1
      /\ \A k \in 1..(Count - 1) : Tail(Bytes)[k] = Bytes[k + 1]
  BY <1>1, <1>3, HeadTailProperties
<1>. QED  BY <1>1, <1>3, <1>4, <1>5, SeqEqual
-----------------------------------------------------------------------------
(* The inductive invariant *)

WritePC  == {"w_acquire", "w_loop", "w_sleep", "w_asleep"}
LockedPC == {"w_loop", "w_sleep", "r_wait", "r_sleep", "r_loop"}

TypeOK ==
  /\ DataOK /\ CounterOK /\ readopen \in BOOLEAN /\ writeopen \in BOOLEAN
  /\ lock \in Proc \cup {None} /\ freed \in BOOLEAN
  /\ fd \in [Proc -> SUBSET {"r", "w"}] /\ killed \in [Proc -> BOOLEAN]
  /\ pc \in [Proc -> {"user", "close_r", "close_w"} \cup ReadPC \cup WritePC]
  /\ left \in [Proc -> Nat]

\* pi->lock is held exactly where the code holds it.
LockInv == \A p \in Proc : lock = p <=> pc[p] \in LockedPC

\* An end is open while somebody holds it or is about to close it for good;
\* whoever reads or writes holds the end, and the page goes with both.
EndsInv ==
  /\ \A p \in Proc : /\ pc[p] \in ReadPC => "r" \in fd[p]
                     /\ pc[p] \in WritePC => "w" \in fd[p]
  /\ \A p, q \in Proc : /\ pc[p] = "close_r" => "r" \notin fd[q]
                        /\ pc[p] = "close_r" /\ pc[q] = "close_r" => p = q
                        /\ pc[p] = "close_w" => "w" \notin fd[q]
                        /\ pc[p] = "close_w" /\ pc[q] = "close_w" => p = q
  /\ readopen <=> \E p \in Proc : "r" \in fd[p] \/ pc[p] = "close_r"
  /\ writeopen <=> \E p \in Proc : "w" \in fd[p] \/ pc[p] = "close_w"
  /\ freed <=> ~readopen /\ ~writeopen

\* There are never more bytes than room.
RoomInv == Count <= PIPESIZE

\* Somebody is asleep on the channel of the readers, of the writers, or under
\* the lock about to be.
ReaderSleeps == \E r \in Proc : pc[r] \in {"r_sleep", "r_asleep"}
WriterSleeps == \E w \in Proc : pc[w] \in {"w_sleep", "w_asleep"}

SleepInv ==
  /\ ReaderSleeps => \/ Empty /\ writeopen
                     \/ \E w \in Proc : pc[w] = "w_loop"
                     \/ \E w \in Proc : killed[w]
  /\ WriterSleeps => \/ Full /\ readopen
                     \/ \E r \in Proc : pc[r] = "r_loop"
  /\ ~(ReaderSleeps /\ WriterSleeps)

IInv == TypeOK /\ LockInv /\ EndsInv /\ RoomInv /\ SleepInv
-----------------------------------------------------------------------------
(* What the steps have in common *)

\* Process p goes to b; the others stay where they are ...
Moves(p, b) == pc'[p] = b /\ \A q \in Proc \ {p} : pc'[q] = pc[q]

\* ... or are woken, if they are asleep as readers, or as writers.
MovesWaking(p, b, asleep, woken) ==
  pc'[p] = b /\ \A q \in Proc \ {p} : pc'[q] = IF pc[q] = asleep THEN woken ELSE pc[q]

\* While p or nobody has the lock, the others are where it is not needed.
LEMMA Alone ==
  ASSUME LockInv, NEW p \in Proc, lock \in {p, None}
  PROVE  \A q \in Proc \ {p} : pc[q] \notin LockedPC
  BY Zenon, PipeAssumption DEF LockInv

\* What p may do to the lock.
LEMMA LockStep ==
  ASSUME LockInv, NEW p \in Proc, lock \in {p, None}, lock' \in {p, None},
         lock' = p <=> pc'[p] \in LockedPC,
         \A q \in Proc \ {p} : pc'[q] \in LockedPC => pc[q] \in LockedPC
  PROVE  LockInv'
<1>1. \A q \in Proc \ {p} : pc'[q] \notin LockedPC /\ lock' # q
  BY Zenon, Alone, PipeAssumption
<1>. QED  BY Zenon, <1>1 DEF LockInv

\* Steps inside calls leave the ends alone.
LEMMA EndsSame ==
  ASSUME EndsInv, UNCHANGED <<readopen, writeopen, freed, fd>>,
         \A q \in Proc : /\ pc'[q] \in ReadPC => pc[q] \in ReadPC \/ "r" \in fd[q]
                         /\ pc'[q] \in WritePC => pc[q] \in WritePC \/ "w" \in fd[q]
                         /\ pc'[q] = "close_r" <=> pc[q] = "close_r"
                         /\ pc'[q] = "close_w" <=> pc[q] = "close_w"
  PROVE  EndsInv'
<1>1. \A p \in Proc : /\ pc'[p] \in ReadPC => "r" \in fd'[p]
                      /\ pc'[p] \in WritePC => "w" \in fd'[p]
  BY Zenon DEF EndsInv
<1>2. \A p, q \in Proc : /\ pc'[p] = "close_r" => "r" \notin fd'[q]
                         /\ pc'[p] = "close_r" /\ pc'[q] = "close_r" => p = q
                         /\ pc'[p] = "close_w" => "w" \notin fd'[q]
                         /\ pc'[p] = "close_w" /\ pc'[q] = "close_w" => p = q
  BY Zenon DEF EndsInv
<1>3. /\ readopen' <=> \E p \in Proc : "r" \in fd'[p] \/ pc'[p] = "close_r"
      /\ writeopen' <=> \E p \in Proc : "w" \in fd'[p] \/ pc'[p] = "close_w"
      /\ freed' <=> ~readopen' /\ ~writeopen'
  BY Zenon DEF EndsInv
<1>. QED  BY Zenon, <1>1, <1>2, <1>3 DEF EndsInv

\* Nor does waking somebody touch them, or the lock.
LEMMA WakingStep ==
  ASSUME LockInv, EndsInv, NEW p \in Proc, NEW b \in {"user", "w_sleep"},
         \/ MovesWaking(p, b, "r_asleep", "r_acquire")
         \/ MovesWaking(p, b, "w_asleep", "w_acquire"),
         lock = p, lock' \in {p, None}, lock' = p <=> b = "w_sleep",
         pc[p] \in {"w_loop", "r_loop"}, b = "w_sleep" => pc[p] = "w_loop",
         UNCHANGED <<readopen, writeopen, freed, fd>>
  PROVE  LockInv' /\ EndsInv'
<1>1. ASSUME NEW q \in Proc \ {p}
      PROVE  \/ pc'[q] = pc[q]
             \/ pc[q] = "r_asleep" /\ pc'[q] = "r_acquire"
             \/ pc[q] = "w_asleep" /\ pc'[q] = "w_acquire"
  BY Zenon DEF MovesWaking
<1>2. pc'[p] = b
  BY Zenon DEF MovesWaking
<1>3. LockInv'
  <2>1. \A q \in Proc \ {p} : pc'[q] \in LockedPC => pc[q] \in LockedPC
    BY Zenon, <1>1 DEF LockedPC
  <2>2. b \in LockedPC <=> b = "w_sleep"
    BY Zenon DEF LockedPC
  <2>. QED  BY Zenon, <1>2, <2>1, <2>2, LockStep
<1>4. EndsInv'
  <2>1. ASSUME NEW q \in Proc
        PROVE  /\ pc'[q] \in ReadPC => pc[q] \in ReadPC
               /\ pc'[q] \in WritePC => pc[q] \in WritePC
               /\ pc'[q] = "close_r" <=> pc[q] = "close_r"
               /\ pc'[q] = "close_w" <=> pc[q] = "close_w"
    <3>1. CASE q = p
      BY Zenon, <1>2, <3>1 DEF ReadPC, WritePC
    <3>2. CASE q # p
      BY Zenon, <1>1, <3>2 DEF ReadPC, WritePC
    <3>. QED  BY Zenon, <3>1, <3>2
  <2>. QED  BY Zenon, <2>1, EndsSame
<1>. QED  BY Zenon, <1>3, <1>4

\* Steps that touch neither counter leave the ring alone.
LEMMA RingSame ==
  ASSUME UNCHANGED <<data, nread, nwrite>>
  PROVE  /\ DataOK' <=> DataOK
         /\ CounterOK' <=> CounterOK
         /\ RoomInv' <=> RoomInv
         /\ Full' <=> Full
         /\ Empty' <=> Empty
  BY Zenon DEF DataOK, CounterOK, RoomInv, Count, Full, Empty

\* A pipe is not full and empty at once.
LEMMA FullNotEmpty ==
  ASSUME CounterOK
  PROVE  ~(Full /\ Empty)
<1>1. PIPESIZE # 0
  BY PipeAssumption
<1>. QED  BY Zenon, <1>1, CountIs
-----------------------------------------------------------------------------
(* The steps *)

\* The start of a call: the lock is taken.
LEMMA EnterIInv ==
  ASSUME IInv, NEW p \in Proc, NEW k \in 0..MaxN,
         pipewrite(p, k) \/ piperead(p, k)
  PROVE  IInv'
<1>1. PICK e \in {"r", "w"} : Enter(p, e, k, IF e = "w" THEN "w_loop" ELSE "r_wait")
  BY Zenon DEF pipewrite, piperead
<1>. DEFINE b == IF e = "w" THEN "w_loop" ELSE "r_wait"
<1>2. b \in {"w_loop", "r_wait"} /\ (b = "w_loop" => e = "w") /\ (b = "r_wait" => e = "r")
  BY Zenon
<1>. HIDE DEF b
<1>3. /\ pc[p] = "user" /\ e \in fd[p] /\ lock = None /\ lock' = p /\ pc' = [pc EXCEPT ![p] = b]
      /\ left' = [left EXCEPT ![p] = k] /\ UNCHANGED <<pipe, freed, fd, killed>>
  BY Zenon, <1>1 DEF Enter, Goto, b
<1>4. TypeOK' /\ RoomInv'
  <2>1. k \in Nat /\ UNCHANGED <<data, nread, nwrite>>
    BY <1>3, PipeAssumption DEF pipe
  <2>2. pc' \in [Proc -> {"user", "close_r", "close_w"} \cup ReadPC \cup WritePC]
    BY Zenon, <1>2, <1>3 DEF IInv, TypeOK, ReadPC, WritePC
  <2>. QED  BY Zenon, <1>3, <2>1, <2>2, RingSame DEF IInv, TypeOK, pipe
<1>5. Moves(p, b)
  BY Zenon, <1>3 DEF IInv, TypeOK, Moves
<1>6. LockInv'
  BY Zenon, <1>2, <1>3, <1>5, LockStep DEF IInv, Moves, LockedPC
<1>7. EndsInv'
  BY Zenon, <1>2, <1>3, <1>5, EndsSame DEF IInv, Moves, ReadPC, WritePC, pipe
<1>8. SleepInv'
  BY <1>2, <1>3, <1>5, RingSame DEF IInv, SleepInv, ReaderSleeps, WriterSleeps, Moves, pipe
<1>. QED  BY Zenon, <1>4, <1>6, <1>7, <1>8 DEF IInv

\* The lock is taken again after a sleep.
LEMMA AcquireIInv ==
  ASSUME IInv, NEW p \in Proc,
         Acquire(p, "w_acquire", "w_loop") \/ Acquire(p, "r_acquire", "r_wait")
  PROVE  IInv'
<1>1. PICK a \in {"w_acquire", "r_acquire"}, b \in {"w_loop", "r_wait"} :
        Acquire(p, a, b) /\ (a = "w_acquire" <=> b = "w_loop")
  BY Zenon
<1>2. /\ pc[p] = a /\ lock = None /\ lock' = p /\ pc' = [pc EXCEPT ![p] = b]
      /\ UNCHANGED <<pipe, freed, fd, killed, left>>
  BY Zenon, <1>1 DEF Acquire, Goto
<1>3. TypeOK' /\ RoomInv'
  <2>1. UNCHANGED <<data, nread, nwrite>>
    BY Zenon, <1>2 DEF pipe
  <2>2. pc' \in [Proc -> {"user", "close_r", "close_w"} \cup ReadPC \cup WritePC]
    BY Zenon, <1>2 DEF IInv, TypeOK, ReadPC, WritePC
  <2>. QED  BY Zenon, <1>2, <2>1, <2>2, RingSame DEF IInv, TypeOK, pipe
<1>4. Moves(p, b)
  BY Zenon, <1>2 DEF IInv, TypeOK, Moves
<1>5. LockInv'
  BY Zenon, <1>2, <1>4, LockStep DEF IInv, Moves, LockedPC
<1>6. EndsInv'
  BY Zenon, <1>1, <1>2, <1>4, EndsSame DEF IInv, Moves, ReadPC, WritePC, pipe
<1>7. SleepInv'
  BY <1>1, <1>2, <1>4, RingSame DEF IInv, SleepInv, ReaderSleeps, WriterSleeps, Moves, pipe
<1>. QED  BY Zenon, <1>3, <1>5, <1>6, <1>7 DEF IInv

\* sleep() gives the lock up.
LEMMA SleepIInv ==
  ASSUME IInv, NEW p \in Proc,
         Sleep(p, "w_sleep", "w_asleep") \/ Sleep(p, "r_sleep", "r_asleep")
  PROVE  IInv'
<1>1. PICK a \in {"w_sleep", "r_sleep"}, b \in {"w_asleep", "r_asleep"} :
        Sleep(p, a, b) /\ (a = "w_sleep" <=> b = "w_asleep")
  BY Zenon
<1>2. /\ pc[p] = a /\ lock' = None /\ pc' = [pc EXCEPT ![p] = b]
      /\ UNCHANGED <<pipe, freed, fd, killed, left>>
  BY Zenon, <1>1 DEF Sleep, Goto
<1>3. TypeOK' /\ RoomInv'
  <2>1. UNCHANGED <<data, nread, nwrite>>
    BY Zenon, <1>2 DEF pipe
  <2>2. pc' \in [Proc -> {"user", "close_r", "close_w"} \cup ReadPC \cup WritePC]
    BY Zenon, <1>2 DEF IInv, TypeOK, ReadPC, WritePC
  <2>. QED  BY Zenon, <1>2, <2>1, <2>2, RingSame DEF IInv, TypeOK, pipe
<1>4. Moves(p, b)
  BY Zenon, <1>2 DEF IInv, TypeOK, Moves
<1>5. lock = p
  BY Zenon, <1>2 DEF IInv, LockInv, LockedPC
<1>6. LockInv'
  BY Zenon, <1>2, <1>4, <1>5, LockStep, PipeAssumption DEF IInv, Moves, LockedPC
<1>7. EndsInv'
  BY Zenon, <1>1, <1>2, <1>4, EndsSame DEF IInv, Moves, ReadPC, WritePC, pipe
<1>8. SleepInv'
  BY <1>1, <1>2, <1>4, RingSame DEF IInv, SleepInv, ReaderSleeps, WriterSleeps, Moves, pipe
<1>. QED  BY Zenon, <1>3, <1>6, <1>7, <1>8 DEF IInv

\* A writer that gives up wakes nobody: it has been killed, or there is no
\* reader to wake.
LEMMA WriteFailsIInv ==
  ASSUME IInv, NEW p \in Proc, WriteFails(p)
  PROVE  IInv'
<1>1. /\ pc[p] = "w_loop" /\ (~readopen \/ killed[p]) /\ lock' = None
      /\ pc' = [pc EXCEPT ![p] = "user"] /\ left' = [left EXCEPT ![p] = 0]
      /\ UNCHANGED <<pipe, freed, fd, killed>>
  BY Zenon DEF WriteFails, Return
<1>2. TypeOK' /\ RoomInv'
  <2>1. UNCHANGED <<data, nread, nwrite>>
    BY Zenon, <1>1 DEF pipe
  <2>2. 0 \in Nat
    OBVIOUS
  <2>. QED  BY Zenon, <1>1, <2>1, <2>2, RingSame DEF IInv, TypeOK, pipe
<1>3. Moves(p, "user")
  BY Zenon, <1>1 DEF IInv, TypeOK, Moves
<1>4. lock = p /\ \A q \in Proc \ {p} : pc[q] \notin LockedPC
  BY Zenon, <1>1, Alone DEF IInv, LockInv, LockedPC
<1>5. LockInv'
  BY Zenon, <1>1, <1>3, <1>4, LockStep, PipeAssumption DEF IInv, Moves, LockedPC
<1>6. EndsInv'
  BY Zenon, <1>1, <1>3, EndsSame DEF IInv, Moves, ReadPC, WritePC, pipe
<1>7. SleepInv'
  <2>1. ReaderSleeps => readopen
    BY Zenon DEF IInv, EndsInv, ReaderSleeps, ReadPC
  <2>. QED  BY <1>1, <1>3, <2>1, RingSame DEF IInv, SleepInv, ReaderSleeps, WriterSleeps, Moves, pipe
<1>. QED  BY Zenon, <1>2, <1>5, <1>6, <1>7 DEF IInv

\* A writer that finds the pipe full wakes the readers before it sleeps.
LEMMA WriteFullIInv ==
  ASSUME IInv, NEW p \in Proc, WriteFull(p)
  PROVE  IInv'
<1>1. /\ pc[p] = "w_loop" /\ readopen /\ Full
      /\ pc' = [WakeReaders(pc) EXCEPT ![p] = "w_sleep"]
      /\ UNCHANGED <<pipe, lock, freed, fd, killed, left>>
  BY Zenon DEF WriteFull
<1>2. MovesWaking(p, "w_sleep", "r_asleep", "r_acquire")
  BY Zenon, <1>1 DEF MovesWaking, WakeReaders, Wakeup
<1>3. TypeOK' /\ RoomInv'
  <2>1. UNCHANGED <<data, nread, nwrite>>
    BY Zenon, <1>1 DEF pipe
  <2>2. pc' \in [Proc -> {"user", "close_r", "close_w"} \cup ReadPC \cup WritePC]
    BY Zenon, <1>1 DEF WakeReaders, Wakeup, IInv, TypeOK, ReadPC, WritePC
  <2>. QED  BY Zenon, <1>1, <2>1, <2>2, RingSame DEF IInv, TypeOK, pipe
<1>4. lock = p /\ \A q \in Proc \ {p} : pc[q] \notin LockedPC
  BY Zenon, <1>1, Alone DEF IInv, LockInv, LockedPC
<1>5. LockInv' /\ EndsInv'
  BY Zenon, <1>1, <1>2, <1>4, WakingStep DEF IInv, pipe
<1>6. SleepInv'
  <2>1. ~ReaderSleeps'
    BY Zenon, <1>2, <1>4 DEF ReaderSleeps, MovesWaking, LockedPC
  <2>2. Full' /\ readopen'
    BY Zenon, <1>1, RingSame DEF pipe
  <2>. QED  BY Zenon, <2>1, <2>2 DEF SleepInv
<1>. QED  BY Zenon, <1>3, <1>5, <1>6 DEF IInv

\* A byte goes in only where there is room, so that no writer is asleep.
LEMMA WriteByteIInv ==
  ASSUME IInv, NEW p \in Proc, NEW c \in Byte, WriteByte(p, c)
  PROVE  IInv' /\ Stream!Put(c)
<1>1. /\ pc[p] = "w_loop" /\ left[p] > 0 /\ readopen /\ ~Full
      /\ data' = [data EXCEPT ![nwrite % PIPESIZE] = c]
      /\ nwrite' = (nwrite + 1) % UintMod
      /\ left' = [left EXCEPT ![p] = @ - 1]
      /\ UNCHANGED <<nread, readopen, writeopen, lock, freed, fd, killed, pc>>
  BY Zenon DEF WriteByte
<1>2. CounterOK /\ DataOK /\ Count < PIPESIZE
  <2>1. CounterOK /\ DataOK /\ Count <= PIPESIZE
    BY Zenon DEF IInv, TypeOK, RoomInv
  <2>. QED  BY <1>1, <2>1, CountIs, PipeAssumption
<1>3. CounterOK' /\ DataOK' /\ Bytes' = Append(Bytes, c) /\ RoomInv'
  <2>1. CounterOK' /\ Count' = Count + 1
    BY Zenon, <1>1, <1>2, CountPut
  <2>2. DataOK' /\ Bytes' = Append(Bytes, c)
    BY Zenon, <1>1, <1>2, PutAppends
  <2>. QED  BY <1>2, <2>1, <2>2, CountIs, PipeAssumption DEF RoomInv
<1>4. TypeOK'
  <2>1. left' \in [Proc -> Nat]
    BY <1>1 DEF IInv, TypeOK
  <2>. QED  BY Zenon, <1>1, <1>3, <2>1 DEF IInv, TypeOK
<1>5. LockInv' /\ EndsInv'
  BY Zenon, <1>1 DEF IInv, LockInv, EndsInv
<1>6. \A q \in Proc \ {p} : pc[q] \notin LockedPC
  BY Zenon, <1>1, Alone DEF IInv, LockInv, LockedPC
<1>7. SleepInv'
  <2>1. ~WriterSleeps
    BY Zenon, <1>1, <1>6 DEF IInv, SleepInv, LockedPC
  <2>2. ~WriterSleeps'
    BY Zenon, <1>1, <2>1 DEF WriterSleeps
  <2>. QED  BY Zenon, <1>1, <2>2 DEF SleepInv
<1>8. Stream!Put(c)
  <2>1. writeopen
    BY Zenon, <1>1 DEF IInv, EndsInv, WritePC
  <2>2. Len(Bytes) < PIPESIZE
    BY Zenon, <1>2, BytesType
  <2>. QED  BY Zenon, <1>1, <1>3, <2>1, <2>2 DEF Stream!Put, Bytes
<1>. QED  BY Zenon, <1>3, <1>4, <1>5, <1>7, <1>8 DEF IInv

\* A writer that is done wakes the readers.
LEMMA WriteDoneIInv ==
  ASSUME IInv, NEW p \in Proc, WriteDone(p)
  PROVE  IInv'
<1>1. /\ pc[p] = "w_loop" /\ lock' = None
      /\ pc' = [WakeReaders(pc) EXCEPT ![p] = "user"] /\ left' = [left EXCEPT ![p] = 0]
      /\ UNCHANGED <<pipe, freed, fd, killed>>
  BY Zenon DEF WriteDone, Return
<1>2. MovesWaking(p, "user", "r_asleep", "r_acquire")
  BY Zenon, <1>1 DEF MovesWaking, WakeReaders, Wakeup
<1>3. TypeOK' /\ RoomInv'
  <2>1. UNCHANGED <<data, nread, nwrite>>
    BY Zenon, <1>1 DEF pipe
  <2>2. pc' \in [Proc -> {"user", "close_r", "close_w"} \cup ReadPC \cup WritePC]
    BY Zenon, <1>1 DEF WakeReaders, Wakeup, IInv, TypeOK, ReadPC, WritePC
  <2>3. 0 \in Nat
    OBVIOUS
  <2>. QED  BY Zenon, <1>1, <2>1, <2>2, <2>3, RingSame DEF IInv, TypeOK, pipe
<1>4. lock = p /\ \A q \in Proc \ {p} : pc[q] \notin LockedPC
  BY Zenon, <1>1, Alone DEF IInv, LockInv, LockedPC
<1>5. LockInv' /\ EndsInv'
  BY Zenon, <1>1, <1>2, <1>4, WakingStep, PipeAssumption DEF IInv, pipe
<1>6. SleepInv'
  <2>1. ~ReaderSleeps'
    BY Zenon, <1>2, <1>4 DEF ReaderSleeps, MovesWaking, LockedPC
  <2>2. WriterSleeps' => WriterSleeps
    BY Zenon, <1>2 DEF WriterSleeps, MovesWaking
  <2>3. WriterSleeps => Full /\ readopen
    BY Zenon, <1>1, <1>4 DEF IInv, SleepInv, LockedPC
  <2>4. (Full' <=> Full) /\ readopen' = readopen
    BY Zenon, <1>1, RingSame DEF pipe
  <2>. QED  BY Zenon, <2>1, <2>2, <2>3, <2>4 DEF SleepInv
<1>. QED  BY Zenon, <1>3, <1>5, <1>6 DEF IInv

\* The test before a reader sleeps: when a writer is asleep the pipe is full.
LEMMA ReadWaitIInv ==
  ASSUME IInv, NEW p \in Proc, ReadWait(p)
  PROVE  IInv'
<1>1. pc[p] = "r_wait" /\ UNCHANGED <<pipe, freed, fd, killed>>
  BY Zenon DEF ReadWait
<1>2. UNCHANGED <<data, nread, nwrite, readopen, writeopen>>
  BY Zenon, <1>1 DEF pipe
<1>3. PICK b \in {"user", "r_sleep", "r_loop"} :
        /\ pc' = [pc EXCEPT ![p] = b]
        /\ lock' = (IF b = "user" THEN None ELSE lock)
        /\ left' \in {left, [left EXCEPT ![p] = 0]}
        /\ b = "r_sleep" => Empty /\ writeopen
  BY Zenon DEF ReadWait, Return, Goto
<1>4. TypeOK' /\ RoomInv'
  <2>1. left' \in [Proc -> Nat]
    BY <1>3 DEF IInv, TypeOK
  <2>2. pc' \in [Proc -> {"user", "close_r", "close_w"} \cup ReadPC \cup WritePC]
    BY Zenon, <1>3 DEF IInv, TypeOK, ReadPC, WritePC
  <2>3. lock' \in Proc \cup {None}
    BY Zenon, <1>3 DEF IInv, TypeOK
  <2>. QED  BY Zenon, <1>1, <1>2, <2>1, <2>2, <2>3, RingSame DEF IInv, TypeOK
<1>5. Moves(p, b)
  BY Zenon, <1>3 DEF IInv, TypeOK, Moves
<1>6. lock = p /\ \A q \in Proc \ {p} : pc[q] \notin LockedPC
  BY Zenon, <1>1, Alone DEF IInv, LockInv, LockedPC
<1>7. LockInv'
  <2>1. lock' \in {p, None} /\ (lock' = p <=> b \in LockedPC)
    BY Zenon, <1>3, <1>6, PipeAssumption DEF LockedPC
  <2>. QED  BY Zenon, <1>5, <1>6, <2>1, LockStep DEF IInv, Moves
<1>8. EndsInv'
  BY Zenon, <1>1, <1>2, <1>5, EndsSame DEF IInv, Moves, ReadPC, WritePC
<1>9. SleepInv'
  <2>1. WriterSleeps => Full /\ readopen
    BY Zenon, <1>1, <1>6 DEF IInv, SleepInv, LockedPC
  <2>2. b = "r_sleep" => ~WriterSleeps
    BY Zenon, <1>3, <2>1, FullNotEmpty DEF IInv, TypeOK
  <2>3. (Full' <=> Full) /\ (Empty' <=> Empty)
    BY Zenon, <1>2, RingSame
  <2>4. WriterSleeps' <=> WriterSleeps
    BY Zenon, <1>1, <1>5 DEF WriterSleeps, Moves
  <2>5. ReaderSleeps' => ReaderSleeps \/ b = "r_sleep"
    BY Zenon, <1>1, <1>5 DEF ReaderSleeps, Moves
  <2>6. (\E w \in Proc : pc[w] = "w_loop") => \E w \in Proc : pc'[w] = "w_loop"
    BY Zenon, <1>1, <1>5 DEF Moves
  <2>. QED  BY Zenon, <1>1, <1>2, <1>3, <2>1, <2>2, <2>3, <2>4, <2>5, <2>6 DEF IInv, SleepInv
<1>. QED  BY Zenon, <1>4, <1>7, <1>8, <1>9 DEF IInv

\* What piperead does when it has read what it can: it wakes the writers.
LEMMA ReadEndIInv ==
  ASSUME IInv, NEW p \in Proc, pc[p] = "r_loop", Return(p, WakeWriters(pc)),
         UNCHANGED <<readopen, writeopen, freed, fd, killed>>, TypeOK', RoomInv',
         ReaderSleeps => (Empty' /\ writeopen) \/ \E w \in Proc : killed[w]
  PROVE  IInv'
<1>1. lock' = None /\ pc' = [WakeWriters(pc) EXCEPT ![p] = "user"]
  BY Zenon DEF Return
<1>2. MovesWaking(p, "user", "w_asleep", "w_acquire")
  BY Zenon, <1>1 DEF MovesWaking, WakeWriters, Wakeup
<1>3. lock = p /\ \A q \in Proc \ {p} : pc[q] \notin LockedPC
  BY Zenon, Alone DEF IInv, LockInv, LockedPC
<1>4. LockInv' /\ EndsInv'
  BY Zenon, <1>1, <1>2, <1>3, WakingStep, PipeAssumption DEF IInv
<1>5. SleepInv'
  <2>1. ~WriterSleeps'
    BY Zenon, <1>2, <1>3 DEF WriterSleeps, MovesWaking, LockedPC
  <2>2. ReaderSleeps' => ReaderSleeps
    BY Zenon, <1>2 DEF ReaderSleeps, MovesWaking
  <2>. QED  BY Zenon, <2>1, <2>2 DEF SleepInv
<1>. QED  BY Zenon, <1>4, <1>5 DEF IInv

\* A byte comes out; while there was one, no reader slept for want of it.
LEMMA ReadByteIInv ==
  ASSUME IInv, NEW p \in Proc, NEW copied \in BOOLEAN, ReadByte(p, copied)
  PROVE  IInv' /\ Stream!Take
<1>1. /\ pc[p] = "r_loop" /\ ~Empty /\ nread' = (nread + 1) % UintMod
      /\ UNCHANGED <<data, nwrite, readopen, writeopen, freed, fd, killed>>
  BY Zenon DEF ReadByte
<1>2. CounterOK /\ DataOK /\ Count > 0 /\ Count <= PIPESIZE
  <2>1. CounterOK /\ DataOK /\ Count <= PIPESIZE
    BY Zenon DEF IInv, TypeOK, RoomInv
  <2>. QED  BY <1>1, <2>1, CountIs
<1>3. CounterOK' /\ DataOK' /\ RoomInv'
  <2>1. CounterOK' /\ Count' = Count - 1
    BY Zenon, <1>1, <1>2, CountTake
  <2>2. DataOK'
    BY Zenon, <1>1, <1>2 DEF DataOK
  <2>. QED  BY <1>2, <2>1, <2>2, CountIs, PipeAssumption DEF RoomInv
<1>4. \A q \in Proc \ {p} : pc[q] \notin LockedPC
  BY Zenon, <1>1, Alone DEF IInv, LockInv, LockedPC
<1>5. ReaderSleeps => \E w \in Proc : killed[w]
  BY Zenon, <1>1, <1>4 DEF IInv, SleepInv, LockedPC
<1>6. IInv'
  <2>1. CASE copied
    <3>1. left[p] > 0 /\ left' = [left EXCEPT ![p] = @ - 1] /\ UNCHANGED <<pc, lock>>
      BY Zenon, <2>1 DEF ReadByte
    <3>2. left' \in [Proc -> Nat]
      BY <3>1 DEF IInv, TypeOK
    <3>3. TypeOK'
      BY Zenon, <1>1, <1>3, <3>1, <3>2 DEF IInv, TypeOK
    <3>4. LockInv' /\ EndsInv'
      BY Zenon, <1>1, <3>1 DEF IInv, LockInv, EndsInv
    <3>5. SleepInv'
      <4>1. (ReaderSleeps' <=> ReaderSleeps) /\ (WriterSleeps' <=> WriterSleeps)
        BY Zenon, <3>1 DEF ReaderSleeps, WriterSleeps
      <4>. QED  BY Zenon, <1>1, <1>5, <3>1, <4>1 DEF IInv, SleepInv
    <3>. QED  BY Zenon, <1>3, <3>3, <3>4, <3>5 DEF IInv
  <2>2. CASE ~copied
    <3>1. Return(p, WakeWriters(pc))
      BY Zenon, <2>2 DEF ReadByte
    <3>2. left' \in [Proc -> Nat]
      BY <3>1 DEF IInv, TypeOK, Return
    <3>3. pc' \in [Proc -> {"user", "close_r", "close_w"} \cup ReadPC \cup WritePC]
      BY Zenon, <3>1 DEF Return, WakeWriters, Wakeup, IInv, TypeOK, ReadPC, WritePC
    <3>4. TypeOK'
      BY Zenon, <1>1, <1>3, <3>1, <3>2, <3>3 DEF IInv, TypeOK, Return
    <3>. QED  BY Zenon, <1>1, <1>3, <1>5, <3>1, <3>4, ReadEndIInv
  <2>. QED  BY Zenon, <2>1, <2>2
<1>7. Stream!Take
  <2>1. readopen
    BY Zenon, <1>1 DEF IInv, EndsInv, ReadPC
  <2>2. Bytes # <<>> /\ Bytes' = Tail(Bytes)
    BY Zenon, <1>1, <1>2, TakeTails
  <2>. QED  BY Zenon, <1>1, <2>1, <2>2 DEF Stream!Take, Bytes
<1>. QED  BY Zenon, <1>6, <1>7

\* The end of piperead.
LEMMA ReadDoneIInv ==
  ASSUME IInv, NEW p \in Proc, ReadDone(p)
  PROVE  IInv'
<1>1. pc[p] = "r_loop" /\ Return(p, WakeWriters(pc)) /\ UNCHANGED <<pipe, freed, fd, killed>>
  BY Zenon DEF ReadDone
<1>2. UNCHANGED <<data, nread, nwrite, readopen, writeopen>>
  BY Zenon, <1>1 DEF pipe
<1>3. TypeOK' /\ RoomInv'
  <2>1. left' \in [Proc -> Nat]
    BY <1>1 DEF IInv, TypeOK, Return
  <2>2. pc' \in [Proc -> {"user", "close_r", "close_w"} \cup ReadPC \cup WritePC]
    BY Zenon, <1>1 DEF Return, WakeWriters, Wakeup, IInv, TypeOK, ReadPC, WritePC
  <2>. QED  BY Zenon, <1>1, <1>2, <2>1, <2>2, RingSame DEF IInv, TypeOK, Return
<1>4. \A q \in Proc \ {p} : pc[q] \notin LockedPC
  BY Zenon, <1>1, Alone DEF IInv, LockInv, LockedPC
<1>5. ReaderSleeps => (Empty /\ writeopen) \/ \E w \in Proc : killed[w]
  BY Zenon, <1>1, <1>4 DEF IInv, SleepInv, LockedPC
<1>6. Empty' <=> Empty
  BY Zenon, <1>2, RingSame
<1>. QED  BY Zenon, <1>1, <1>2, <1>3, <1>5, <1>6, ReadEndIInv

\* An end that is shared is not being closed.
LEMMA FiledupIInv ==
  ASSUME IInv, NEW p \in Proc, NEW q \in Proc, NEW e \in {"r", "w"}, filedup(p, q, e)
  PROVE  IInv'
<1>1. /\ e \in fd[p] /\ fd' = [fd EXCEPT ![q] = @ \cup {e}]
      /\ UNCHANGED <<data, nread, nwrite, readopen, writeopen, lock, freed, killed, pc, left>>
  BY Zenon DEF filedup, pipe
<1>2. \A x \in Proc, d \in {"r", "w"} : d \in fd'[x] <=> d \in fd[x] \/ (x = q /\ d = e)
  BY Zenon, <1>1 DEF IInv, TypeOK
<1>3. TypeOK' /\ RoomInv'
  <2>1. fd' \in [Proc -> SUBSET {"r", "w"}]
    BY Zenon, <1>1 DEF IInv, TypeOK
  <2>. QED  BY Zenon, <1>1, <2>1, RingSame DEF IInv, TypeOK
<1>4. EndsInv'
  <2>1. \A x \in Proc : /\ pc'[x] \in ReadPC => "r" \in fd'[x]
                        /\ pc'[x] \in WritePC => "w" \in fd'[x]
    BY Zenon, <1>1, <1>2 DEF IInv, EndsInv
  <2>2. \A x, y \in Proc : /\ pc'[x] = "close_r" => "r" \notin fd'[y]
                           /\ pc'[x] = "close_w" => "w" \notin fd'[y]
    <3>1. \A x, y \in Proc : /\ pc[x] = "close_r" => "r" \notin fd[y]
                             /\ pc[x] = "close_w" => "w" \notin fd[y]
      BY Zenon DEF IInv, EndsInv
    <3>2. /\ e = "r" => \A x \in Proc : pc[x] # "close_r"
          /\ e = "w" => \A x \in Proc : pc[x] # "close_w"
      BY Zenon, <1>1, <3>1
    <3>. QED  BY Zenon, <1>1, <1>2, <3>1, <3>2
  <2>3. ASSUME NEW d \in {"r", "w"}
        PROVE  (\E x \in Proc : d \in fd'[x]) <=> \E x \in Proc : d \in fd[x]
    BY Zenon, <1>1, <1>2
  <2>4. /\ readopen' <=> \E x \in Proc : "r" \in fd'[x] \/ pc'[x] = "close_r"
        /\ writeopen' <=> \E x \in Proc : "w" \in fd'[x] \/ pc'[x] = "close_w"
    <3>1. /\ readopen <=> (\E x \in Proc : "r" \in fd[x]) \/ \E x \in Proc : pc[x] = "close_r"
          /\ writeopen <=> (\E x \in Proc : "w" \in fd[x]) \/ \E x \in Proc : pc[x] = "close_w"
      BY Zenon DEF IInv, EndsInv
    <3>. QED  BY Zenon, <1>1, <2>3, <3>1
  <2>. QED  BY Zenon, <1>1, <2>1, <2>2, <2>4 DEF IInv, EndsInv
<1>5. LockInv' /\ SleepInv'
  <2>1. (Full' <=> Full) /\ (Empty' <=> Empty)
    BY Zenon, <1>1, RingSame
  <2>. QED  BY Zenon, <1>1, <2>1 DEF IInv, LockInv, SleepInv, ReaderSleeps, WriterSleeps
<1>. QED  BY Zenon, <1>3, <1>4, <1>5 DEF IInv

\* The process that drops the last reference to an end goes on to pipeclose.
LEMMA FilecloseIInv ==
  ASSUME IInv, NEW p \in Proc, NEW e \in {"r", "w"}, fileclose(p, e)
  PROVE  IInv'
<1>1. /\ pc[p] = "user" /\ e \in fd[p] /\ fd' = [fd EXCEPT ![p] = @ \ {e}]
      /\ UNCHANGED <<data, nread, nwrite, readopen, writeopen, lock, freed, killed, left>>
  BY Zenon DEF fileclose, pipe
<1>2. \A x \in Proc, d \in {"r", "w"} : d \in fd'[x] <=> d \in fd[x] /\ ~(x = p /\ d = e)
  BY Zenon, <1>1 DEF IInv, TypeOK
<1>3. PICK b \in {"user", "close_r", "close_w"} :
        /\ pc' = [pc EXCEPT ![p] = b]
        /\ b = "close_r" => e = "r" /\ \A x \in Proc : "r" \notin fd'[x]
        /\ b = "close_w" => e = "w" /\ \A x \in Proc : "w" \notin fd'[x]
        /\ b = "user" => \E x \in Proc : e \in fd'[x]
  <2>1. CASE \A x \in Proc : e \notin fd'[x]
    BY Zenon, <2>1 DEF fileclose, Goto
  <2>2. CASE \E x \in Proc : e \in fd'[x]
    <3>1. pc' = [pc EXCEPT ![p] = "user"]
      BY Zenon, <1>1, <2>2 DEF fileclose, IInv, TypeOK
    <3>. QED  BY Zenon, <2>2, <3>1
  <2>. QED  BY Zenon, <2>1, <2>2
<1>4. TypeOK' /\ RoomInv'
  <2>1. fd' \in [Proc -> SUBSET {"r", "w"}]
    BY Zenon, <1>1 DEF IInv, TypeOK
  <2>2. pc' \in [Proc -> {"user", "close_r", "close_w"} \cup ReadPC \cup WritePC]
    BY Zenon, <1>3 DEF IInv, TypeOK
  <2>. QED  BY Zenon, <1>1, <2>1, <2>2, RingSame DEF IInv, TypeOK
<1>5. Moves(p, b)
  BY Zenon, <1>3 DEF IInv, TypeOK, Moves
<1>6. /\ e = "r" => readopen /\ \A x \in Proc : pc[x] # "close_r"
      /\ e = "w" => writeopen /\ \A x \in Proc : pc[x] # "close_w"
  BY Zenon, <1>1 DEF IInv, EndsInv
<1>7. EndsInv'
  <2>1. ASSUME NEW x \in Proc
        PROVE  /\ pc'[x] \in ReadPC => "r" \in fd'[x]
               /\ pc'[x] \in WritePC => "w" \in fd'[x]
    <3>1. CASE x = p
      BY Zenon, <1>5, <3>1 DEF Moves, ReadPC, WritePC
    <3>2. CASE x # p
      BY Zenon, <1>2, <1>5, <3>2 DEF Moves, IInv, EndsInv
    <3>. QED  BY Zenon, <3>1, <3>2
  <2>2. ASSUME NEW x \in Proc, pc'[x] = "close_r"
        PROVE  \A y \in Proc : "r" \notin fd'[y] /\ (pc'[y] = "close_r" => x = y)
    <3>1. CASE b = "close_r"
      BY Zenon, <1>3, <1>5, <1>6, <2>2, <3>1 DEF Moves
    <3>2. CASE b # "close_r"
      <4>1. x # p /\ pc[x] = "close_r"
        BY Zenon, <1>5, <2>2, <3>2 DEF Moves
      <4>2. \A y \in Proc : "r" \notin fd[y] /\ (pc[y] = "close_r" => x = y)
        BY Zenon, <4>1 DEF IInv, EndsInv
      <4>. QED  BY Zenon, <1>2, <1>5, <3>2, <4>2 DEF Moves
    <3>. QED  BY Zenon, <3>1, <3>2
  <2>3. ASSUME NEW x \in Proc, pc'[x] = "close_w"
        PROVE  \A y \in Proc : "w" \notin fd'[y] /\ (pc'[y] = "close_w" => x = y)
    <3>1. CASE b = "close_w"
      BY Zenon, <1>3, <1>5, <1>6, <2>3, <3>1 DEF Moves
    <3>2. CASE b # "close_w"
      <4>1. x # p /\ pc[x] = "close_w"
        BY Zenon, <1>5, <2>3, <3>2 DEF Moves
      <4>2. \A y \in Proc : "w" \notin fd[y] /\ (pc[y] = "close_w" => x = y)
        BY Zenon, <4>1 DEF IInv, EndsInv
      <4>. QED  BY Zenon, <1>2, <1>5, <3>2, <4>2 DEF Moves
    <3>. QED  BY Zenon, <3>1, <3>2
  <2>4. readopen' <=> \E x \in Proc : "r" \in fd'[x] \/ pc'[x] = "close_r"
    <3>1. CASE e = "r"
      BY Zenon, <1>1, <1>3, <1>5, <1>6, <3>1 DEF Moves
    <3>2. CASE e = "w"
      BY Zenon, <1>1, <1>2, <1>3, <1>5, <3>2 DEF Moves, IInv, EndsInv
    <3>. QED  BY Zenon, <3>1, <3>2
  <2>5. writeopen' <=> \E x \in Proc : "w" \in fd'[x] \/ pc'[x] = "close_w"
    <3>1. CASE e = "w"
      BY Zenon, <1>1, <1>3, <1>5, <1>6, <3>1 DEF Moves
    <3>2. CASE e = "r"
      BY Zenon, <1>1, <1>2, <1>3, <1>5, <3>2 DEF Moves, IInv, EndsInv
    <3>. QED  BY Zenon, <3>1, <3>2
  <2>6. freed' <=> ~readopen' /\ ~writeopen'
    BY Zenon, <1>1 DEF IInv, EndsInv
  <2>. QED  BY Zenon, <2>1, <2>2, <2>3, <2>4, <2>5, <2>6 DEF EndsInv
<1>8. LockInv'
  BY Zenon, <1>1, <1>5 DEF IInv, LockInv, LockedPC, Moves
<1>9. SleepInv'
  BY <1>1, <1>5, RingSame DEF IInv, SleepInv, ReaderSleeps, WriterSleeps, Moves
<1>. QED  BY Zenon, <1>4, <1>7, <1>8, <1>9 DEF IInv

\* The last close of the write end wakes the readers and finds no writer ...
LEMMA CloseWriteIInv ==
  ASSUME IInv, NEW p \in Proc, pipeclose(p), pc[p] = "close_w"
  PROVE  IInv' /\ Stream!CloseWrite
<1>1. /\ lock = None /\ writeopen' = FALSE /\ pc' = [WakeReaders(pc) EXCEPT ![p] = "user"]
      /\ freed' = LastClose(readopen', writeopen')
      /\ UNCHANGED <<data, nread, nwrite, readopen, lock, fd, killed, left>>
  BY Zenon DEF pipeclose
<1>2. MovesWaking(p, "user", "r_asleep", "r_acquire")
  BY Zenon, <1>1 DEF MovesWaking, WakeReaders, Wakeup
<1>3. TypeOK' /\ RoomInv'
  <2>1. pc' \in [Proc -> {"user", "close_r", "close_w"} \cup ReadPC \cup WritePC]
    BY Zenon, <1>1 DEF WakeReaders, Wakeup, IInv, TypeOK, ReadPC, WritePC
  <2>2. freed' \in BOOLEAN
    BY Zenon, <1>1 DEF LastClose
  <2>. QED  BY Zenon, <1>1, <2>1, <2>2, RingSame DEF IInv, TypeOK
<1>4. \A q \in Proc \ {p} : pc[q] \notin LockedPC
  BY Zenon, <1>1, Alone DEF IInv
<1>5. \A q \in Proc : /\ "w" \notin fd[q] /\ pc[q] \notin WritePC
                      /\ q # p => pc[q] # "close_w"
  BY Zenon DEF IInv, EndsInv
<1>6. ASSUME NEW q \in Proc
      PROVE  /\ pc'[q] \in ReadPC => pc[q] \in ReadPC
             /\ pc'[q] \notin WritePC /\ pc'[q] # "close_w"
             /\ pc'[q] = "close_r" <=> pc[q] = "close_r"
             /\ pc'[q] \notin LockedPC /\ pc'[q] # "r_asleep"
  <2>1. CASE q = p
    BY Zenon, <1>2, <2>1 DEF MovesWaking, ReadPC, WritePC, LockedPC
  <2>2. CASE q # p
    BY Zenon, <1>2, <1>4, <1>5, <2>2 DEF MovesWaking, ReadPC, WritePC, LockedPC
  <2>. QED  BY Zenon, <2>1, <2>2
<1>7. EndsInv'
  <2>1. writeopen' <=> \E x \in Proc : "w" \in fd'[x] \/ pc'[x] = "close_w"
    BY Zenon, <1>1, <1>5, <1>6
  <2>2. readopen' <=> \E x \in Proc : "r" \in fd'[x] \/ pc'[x] = "close_r"
    BY Zenon, <1>1, <1>6 DEF IInv, EndsInv
  <2>3. freed' <=> ~readopen' /\ ~writeopen'
    BY Zenon, <1>1 DEF LastClose
  <2>4. \A x \in Proc : /\ pc'[x] \in ReadPC => "r" \in fd'[x]
                        /\ pc'[x] \in WritePC => "w" \in fd'[x]
    BY Zenon, <1>1, <1>6 DEF IInv, EndsInv
  <2>5. \A x, y \in Proc : /\ pc'[x] = "close_r" => "r" \notin fd'[y]
                           /\ pc'[x] = "close_r" /\ pc'[y] = "close_r" => x = y
    BY Zenon, <1>1, <1>6 DEF IInv, EndsInv
  <2>. QED  BY Zenon, <1>6, <2>1, <2>2, <2>3, <2>4, <2>5 DEF EndsInv
<1>8. LockInv' /\ SleepInv'
  <2>1. ~ReaderSleeps' /\ ~WriterSleeps'
    BY Zenon, <1>6 DEF ReaderSleeps, WriterSleeps, LockedPC, WritePC
  <2>. QED  BY Zenon, <1>1, <1>6, <2>1, PipeAssumption DEF LockInv, SleepInv
<1>9. Stream!CloseWrite
  <2>1. Bytes' = Bytes
    BY Zenon, <1>1 DEF Bytes, Count
  <2>2. writeopen
    BY Zenon DEF IInv, EndsInv
  <2>. QED  BY Zenon, <1>1, <2>1, <2>2 DEF Stream!CloseWrite, Bytes
<1>. QED  BY Zenon, <1>3, <1>7, <1>8, <1>9 DEF IInv

\* ... and that of the read end wakes the writers and finds no reader.
LEMMA CloseReadIInv ==
  ASSUME IInv, NEW p \in Proc, pipeclose(p), pc[p] = "close_r"
  PROVE  IInv' /\ Stream!CloseRead
<1>1. /\ lock = None /\ readopen' = FALSE /\ pc' = [WakeWriters(pc) EXCEPT ![p] = "user"]
      /\ freed' = LastClose(readopen', writeopen')
      /\ UNCHANGED <<data, nread, nwrite, writeopen, lock, fd, killed, left>>
  BY Zenon DEF pipeclose
<1>2. MovesWaking(p, "user", "w_asleep", "w_acquire")
  BY Zenon, <1>1 DEF MovesWaking, WakeWriters, Wakeup
<1>3. TypeOK' /\ RoomInv'
  <2>1. pc' \in [Proc -> {"user", "close_r", "close_w"} \cup ReadPC \cup WritePC]
    BY Zenon, <1>1 DEF WakeWriters, Wakeup, IInv, TypeOK, ReadPC, WritePC
  <2>2. freed' \in BOOLEAN
    BY Zenon, <1>1 DEF LastClose
  <2>. QED  BY Zenon, <1>1, <2>1, <2>2, RingSame DEF IInv, TypeOK
<1>4. \A q \in Proc \ {p} : pc[q] \notin LockedPC
  BY Zenon, <1>1, Alone DEF IInv
<1>5. \A q \in Proc : /\ "r" \notin fd[q] /\ pc[q] \notin ReadPC
                      /\ q # p => pc[q] # "close_r"
  BY Zenon DEF IInv, EndsInv
<1>6. ASSUME NEW q \in Proc
      PROVE  /\ pc'[q] \in WritePC => pc[q] \in WritePC
             /\ pc'[q] \notin ReadPC /\ pc'[q] # "close_r"
             /\ pc'[q] = "close_w" <=> pc[q] = "close_w"
             /\ pc'[q] \notin LockedPC /\ pc'[q] # "w_asleep"
  <2>1. CASE q = p
    BY Zenon, <1>2, <2>1 DEF MovesWaking, ReadPC, WritePC, LockedPC
  <2>2. CASE q # p
    BY Zenon, <1>2, <1>4, <1>5, <2>2 DEF MovesWaking, ReadPC, WritePC, LockedPC
  <2>. QED  BY Zenon, <2>1, <2>2
<1>7. EndsInv'
  <2>1. readopen' <=> \E x \in Proc : "r" \in fd'[x] \/ pc'[x] = "close_r"
    BY Zenon, <1>1, <1>5, <1>6
  <2>2. writeopen' <=> \E x \in Proc : "w" \in fd'[x] \/ pc'[x] = "close_w"
    BY Zenon, <1>1, <1>6 DEF IInv, EndsInv
  <2>3. freed' <=> ~readopen' /\ ~writeopen'
    BY Zenon, <1>1 DEF LastClose
  <2>4. \A x \in Proc : /\ pc'[x] \in ReadPC => "r" \in fd'[x]
                        /\ pc'[x] \in WritePC => "w" \in fd'[x]
    BY Zenon, <1>1, <1>6 DEF IInv, EndsInv
  <2>5. \A x, y \in Proc : /\ pc'[x] = "close_w" => "w" \notin fd'[y]
                           /\ pc'[x] = "close_w" /\ pc'[y] = "close_w" => x = y
    BY Zenon, <1>1, <1>6 DEF IInv, EndsInv
  <2>. QED  BY Zenon, <1>6, <2>1, <2>2, <2>3, <2>4, <2>5 DEF EndsInv
<1>8. LockInv' /\ SleepInv'
  <2>1. ~ReaderSleeps' /\ ~WriterSleeps'
    BY Zenon, <1>6 DEF ReaderSleeps, WriterSleeps, LockedPC, ReadPC
  <2>. QED  BY Zenon, <1>1, <1>6, <2>1, PipeAssumption DEF LockInv, SleepInv
<1>9. Stream!CloseRead
  <2>1. Bytes' = Bytes
    BY Zenon, <1>1 DEF Bytes, Count
  <2>2. readopen
    BY Zenon DEF IInv, EndsInv
  <2>. QED  BY Zenon, <1>1, <2>1, <2>2 DEF Stream!CloseRead, Bytes
<1>. QED  BY Zenon, <1>3, <1>7, <1>8, <1>9 DEF IInv

\* kill() moves its victim, if it is asleep.
LEMMA KillIInv ==
  ASSUME IInv, NEW p \in Proc, kill(p)
  PROVE  IInv'
<1>1. killed' = [killed EXCEPT ![p] = TRUE] /\ UNCHANGED <<pipe, lock, freed, fd, left>>
  BY Zenon DEF kill
<1>2. UNCHANGED <<data, nread, nwrite, readopen, writeopen>>
  BY Zenon, <1>1 DEF pipe
<1>3. PICK b : /\ pc' = [pc EXCEPT ![p] = b]
               /\ \/ b = pc[p]
                  \/ pc[p] = "r_asleep" /\ b = "r_acquire"
                  \/ pc[p] = "w_asleep" /\ b = "w_acquire"
  BY Zenon DEF kill, IInv, TypeOK
<1>4. Moves(p, b)
  BY Zenon, <1>3 DEF IInv, TypeOK, Moves
<1>5. TypeOK' /\ RoomInv'
  <2>1. pc' \in [Proc -> {"user", "close_r", "close_w"} \cup ReadPC \cup WritePC]
    <3>1. b \in {"user", "close_r", "close_w"} \cup ReadPC \cup WritePC
      BY Zenon, <1>3 DEF IInv, TypeOK, ReadPC, WritePC
    <3>. QED  BY Zenon, <1>3, <3>1 DEF IInv, TypeOK
  <2>2. killed' \in [Proc -> BOOLEAN]
    BY Zenon, <1>1 DEF IInv, TypeOK
  <2>. QED  BY Zenon, <1>1, <1>2, <2>1, <2>2, RingSame DEF IInv, TypeOK
<1>6. LockInv'
  BY Zenon, <1>1, <1>3, <1>4 DEF IInv, LockInv, LockedPC, Moves
<1>7. EndsInv'
  BY Zenon, <1>1, <1>2, <1>3, <1>4, EndsSame DEF IInv, Moves, ReadPC, WritePC
<1>8. SleepInv'
  <2>1. (ReaderSleeps' => ReaderSleeps) /\ (WriterSleeps' => WriterSleeps)
    BY Zenon, <1>3, <1>4 DEF ReaderSleeps, WriterSleeps, Moves
  <2>2. \E w \in Proc : killed'[w]
    BY Zenon, <1>1 DEF IInv, TypeOK
  <2>3. (\E r \in Proc : pc[r] = "r_loop") => \E r \in Proc : pc'[r] = "r_loop"
    BY Zenon, <1>3, <1>4 DEF Moves
  <2>4. Full' <=> Full
    BY Zenon, <1>2, RingSame
  <2>. QED  BY Zenon, <1>2, <2>1, <2>2, <2>3, <2>4 DEF IInv, SleepInv
<1>. QED  BY Zenon, <1>5, <1>6, <1>7, <1>8 DEF IInv

\* A new pipe is empty, and its creator holds both ends.
LEMMA InitIInv == ASSUME Init PROVE IInv /\ Stream!Init
<1>1. CounterOK /\ Count = 0
  <2>1. CounterOK
    BY PipeAssumption DEF Init, CounterOK
  <2>. QED  BY <2>1, CountIs DEF Init
<1>2. TypeOK /\ RoomInv
  <2>1. 0 \in Nat /\ 0 <= PIPESIZE
    BY PipeAssumption
  <2>. QED  BY Zenon, <1>1, <2>1 DEF Init, TypeOK, DataOK, RoomInv
<1>3. LockInv /\ SleepInv
  BY Zenon, PipeAssumption DEF Init, LockInv, LockedPC, SleepInv, ReaderSleeps, WriterSleeps
<1>4. EndsInv
  BY Zenon, PipeAssumption DEF Init, EndsInv, ReadPC, WritePC
<1>5. Stream!Init
  <2>1. Bytes = <<>>
    BY <1>1 DEF Bytes
  <2>. QED  BY Zenon, <2>1 DEF Init, Stream!Init, Bytes
<1>. QED  BY Zenon, <1>2, <1>3, <1>4, <1>5 DEF IInv

\* A step that touches neither the ring nor the ends leaves the stream alone.
LEMMA StreamSame ==
  ASSUME UNCHANGED pipe
  PROVE  UNCHANGED Stream!vars
<1>1. UNCHANGED <<data, nread, nwrite, readopen, writeopen>>
  BY Zenon DEF pipe
<1>2. Bytes' = Bytes
  BY Zenon, <1>1 DEF Bytes, Count
<1>. QED  BY Zenon, <1>1, <1>2 DEF Stream!vars, Bytes

\* Every step preserves the invariant, and is a step of the stream or none.
LEMMA NextIInv == ASSUME IInv, [Next]_vars PROVE IInv' /\ [Stream!Next]_(Stream!vars)
<1>1. CASE UNCHANGED vars
  <2>1. UNCHANGED <<data, nread, nwrite>> /\ UNCHANGED pipe
    BY Zenon, <1>1 DEF vars, pipe
  <2>2. TypeOK' /\ RoomInv'
    BY Zenon, <1>1, <2>1, RingSame DEF vars, pipe, IInv, TypeOK
  <2>3. LockInv' /\ EndsInv'
    BY Zenon, <1>1 DEF vars, pipe, IInv, LockInv, EndsInv
  <2>4. SleepInv'
    <3>1. (Full' <=> Full) /\ (Empty' <=> Empty)
      BY Zenon, <2>1, RingSame
    <3>. QED  BY Zenon, <1>1, <3>1 DEF vars, pipe, IInv, SleepInv, ReaderSleeps, WriterSleeps
  <2>. QED  BY Zenon, <2>1, <2>2, <2>3, <2>4, StreamSame DEF IInv
<1>2. ASSUME NEW p \in Proc, NEW k \in 0..MaxN, pipewrite(p, k) \/ piperead(p, k)
      PROVE  IInv' /\ UNCHANGED pipe
  BY Zenon, <1>2, EnterIInv DEF pipewrite, piperead, Enter
<1>3. ASSUME NEW p \in Proc, WriteStep(p)
      PROVE  IInv' /\ (UNCHANGED pipe \/ \E c \in Byte : Stream!Put(c))
  <2>1. CASE \E c \in Byte : WriteByte(p, c)
    BY Zenon, <2>1, WriteByteIInv
  <2>2. CASE Acquire(p, "w_acquire", "w_loop") \/ Sleep(p, "w_sleep", "w_asleep")
    BY Zenon, <2>2, AcquireIInv, SleepIInv DEF Acquire, Sleep
  <2>3. CASE WriteFails(p) \/ WriteFull(p) \/ WriteDone(p)
    BY Zenon, <2>3, WriteFailsIInv, WriteFullIInv, WriteDoneIInv DEF WriteFails, WriteFull, WriteDone
  <2>. QED  BY Zenon, <1>3, <2>1, <2>2, <2>3 DEF WriteStep
<1>4. ASSUME NEW p \in Proc, ReadStep(p)
      PROVE  IInv' /\ (UNCHANGED pipe \/ Stream!Take)
  <2>1. CASE \E copied \in BOOLEAN : ReadByte(p, copied)
    BY Zenon, <2>1, ReadByteIInv
  <2>2. CASE Acquire(p, "r_acquire", "r_wait") \/ Sleep(p, "r_sleep", "r_asleep")
    BY Zenon, <2>2, AcquireIInv, SleepIInv DEF Acquire, Sleep
  <2>3. CASE ReadWait(p) \/ ReadDone(p)
    BY Zenon, <2>3, ReadWaitIInv, ReadDoneIInv DEF ReadWait, ReadDone
  <2>. QED  BY Zenon, <1>4, <2>1, <2>2, <2>3 DEF ReadStep
<1>5. ASSUME NEW p \in Proc, NEW q \in Proc, NEW e \in {"r", "w"},
             filedup(p, q, e) \/ fileclose(p, e) \/ kill(p)
      PROVE  IInv' /\ UNCHANGED pipe
  BY Zenon, <1>5, FiledupIInv, FilecloseIInv, KillIInv DEF filedup, fileclose, kill
<1>6. ASSUME NEW p \in Proc, pipeclose(p)
      PROVE  IInv' /\ (Stream!CloseRead \/ Stream!CloseWrite)
  <2>1. pc[p] \in {"close_r", "close_w"}
    BY Zenon, <1>6 DEF pipeclose
  <2>. QED  BY Zenon, <1>6, <2>1, CloseReadIInv, CloseWriteIInv
<1>7. CASE Next
  BY Zenon, <1>2, <1>3, <1>4, <1>5, <1>6, <1>7, StreamSame DEF Next, Stream!Next
<1>. QED  BY Zenon, <1>1, <1>7

\* Every reachable state of the pipe satisfies the inductive invariant.
THEOREM Invariance == Spec => []IInv
<1>1. Init => IInv
  BY Zenon, InitIInv
<1>2. IInv /\ [Next]_vars => IInv'
  BY Zenon, NextIInv
<1>. QED  BY <1>1, <1>2, PTL DEF Spec

\* pi is not touched after kfree(pi), whoever reads, writes, closes or dies.
THEOREM PageUnused == Spec => []FreedIsUnused
<1>1. IInv => FreedIsUnused
  <2>. SUFFICES ASSUME IInv, freed
                PROVE  lock = None /\ \A p \in Proc : fd[p] = {} /\ pc[p] = "user"
    BY Zenon DEF FreedIsUnused
  <2>1. \A p \in Proc : /\ "r" \notin fd[p] /\ "w" \notin fd[p]
                        /\ pc[p] # "close_r" /\ pc[p] # "close_w"
    BY Zenon DEF IInv, EndsInv
  <2>2. \A p \in Proc : fd[p] = {}
    BY <2>1 DEF IInv, TypeOK
  <2>3. \A p \in Proc : pc[p] = "user"
    BY Zenon, <2>1 DEF IInv, TypeOK, EndsInv
  <2>4. lock = None
    BY Zenon, <2>3 DEF IInv, TypeOK, LockInv, LockedPC
  <2>. QED  BY Zenon, <2>2, <2>3, <2>4
<1>. QED  BY <1>1, Invariance, PTL

\* Wakeups are not lost: nobody sleeps on the pipe without cause, and readers
\* and writers never wait for one another.
THEOREM SleepersHaveCause == Spec => []SleepsForCause
<1>1. IInv => SleepsForCause
  <2>. SUFFICES ASSUME IInv PROVE SleepsForCause
    OBVIOUS
  <2>1. \A p \in Proc : pc[p] \in LockedPC => lock = p
    BY Zenon DEF IInv, LockInv
  <2>2. (\E r \in Proc : pc[r] = "r_asleep") => ReaderSleeps
    BY Zenon DEF ReaderSleeps
  <2>3. (\E w \in Proc : pc[w] = "w_asleep") => WriterSleeps
    BY Zenon DEF WriterSleeps
  <2>4. SleepingReader
    BY Zenon, <2>1, <2>2 DEF IInv, SleepInv, SleepingReader, LockedPC
  <2>5. SleepingWriter
    BY Zenon, <2>1, <2>3 DEF IInv, SleepInv, SleepingWriter, LockedPC
  <2>. QED  BY Zenon, <2>2, <2>3, <2>4, <2>5 DEF IInv, SleepInv, SleepsForCause
<1>. QED  BY <1>1, Invariance, PTL

\* The ring buffer, with counters that wrap around, implements the bounded
\* stream: nothing is lost, duplicated, reordered or overwritten.
THEOREM PipeIsStream == Spec => IsStream
<1>1. Init => Stream!Init
  BY Zenon, InitIInv
<1>2. IInv /\ [Next]_vars => [Stream!Next]_(Stream!vars)
  BY Zenon, NextIInv
<1>. QED  BY <1>1, <1>2, Invariance, PTL DEF Spec, IsStream, Stream!Spec
=============================================================================
