----------------------------- MODULE LogProofs -----------------------------
(***************************************************************************)
(* The inductive invariant of module Log, for any number of processes, any *)
(* set of blocks and block contents, and any size of the log; the proofs   *)
(* that every step, recovery and crashes included, preserves it; and the   *)
(* safety properties that follow from it.                                  *)
(*                                                                         *)
(* IInv follows a block from log_write to its home location: pinned in the *)
(* cache while it is only there, equal to its log block once write_log has *)
(* passed it, equal to its home location once install_trans has passed it. *)
(***************************************************************************)
EXTENDS Log, TLAPS, FiniteSetTheorems

\* Processes whose call log.outstanding counts.
Ops == {p \in Proc : pc[p] \in {"op", "panic"}}

\* log.outstanding counts them; a committer excludes them and other
\* committers; nobody but initproc does anything during boot.
ControlInv ==
  /\ outstanding = Cardinality(Ops)
  /\ \A p \in Proc : pc[p] \in CommitPC =>
       /\ committing
       /\ \A q \in Proc : q # p => pc[q] \notin CommitPC
  /\ committing => Ops = {}
  /\ \A p \in Proc : pc[p] \in BootPC => p = initproc
  /\ ~Up => /\ \A p \in Proc : p # initproc => pc[p] = "idle"
            /\ outstanding = 0 /\ ~committing

\* The in-memory and the on-disk header, and when the latter is not empty.
HeaderInv ==
  /\ \A i, j \in DOMAIN lh : lh[i] = lh[j] => i = j
  /\ \A i, j \in DOMAIN hdr : hdr[i] = hdr[j] => i = j
  /\ \A i \in DOMAIN hdr : dlog[i] \in Data
  /\ Up /\ (\A p \in Proc : pc[p] \notin {"install", "clear_head"}) => hdr = <<>>
  /\ \A p \in Proc : pc[p] \in {"install", "recover"} => hdr = lh
  /\ \A p \in Proc : pc[p] \in {"clear_head", "end", "read_head", "recover_clear"}
       => lh = <<>>
  /\ Up /\ outstanding = 0 /\ ~committing => lh = <<>>

\* Entry i has been written home and unpinned by the committer.
Installed(i) == \E p \in Proc : pc[p] = "install" /\ i <= tail[p]

\* A buffer is pinned exactly while its entry waits to be installed.
PinInv ==
  /\ \A b \in Block : home[b] = Torn =>
       /\ b \in Entries(hdr)
       /\ pc[initproc] \in {"read_head", "recover"}
  /\ \A b \in Block : pin[b] = 0 /\ cache[b] # Absent => cache[b] = home[b]
  /\ \A b \in Block : pin[b] = 1 => /\ Up
                                    /\ cache[b] \in Data
                                    /\ b \in Entries(lh)
  /\ Up => \A i \in DOMAIN lh : pin[lh[i]] = IF Installed(i) THEN 0 ELSE 1

\* How far the loops of p have come.
LoopAt(p) ==
  /\ pc[p] \in {"write_log", "install", "recover"} => tail[p] <= Len(lh)
  /\ pc[p] = "write_log" =>
       \A i \in DOMAIN lh : i <= tail[p] => dlog[i] = cache[lh[i]]
  /\ pc[p] = "write_head" => \A i \in DOMAIN lh : dlog[i] = cache[lh[i]]
  /\ pc[p] = "install" =>
       \A i \in DOMAIN lh : i > tail[p] => dlog[i] = cache[lh[i]]
  /\ pc[p] \in {"install", "recover"} =>
       \A i \in DOMAIN lh : i <= tail[p] => home[lh[i]] = dlog[i]
  /\ pc[p] \in {"clear_head", "recover_clear"} =>
       \A i \in DOMAIN hdr : home[hdr[i]] = dlog[i]
LoopInv == \A p \in Proc : LoopAt(p)

IInv == TypeOK /\ ControlInv /\ HeaderInv /\ PinInv /\ LoopInv
-----------------------------------------------------------------------------
(* Each action preserves IInv *)

\* Ops is finite, so that outstanding is its size.
LEMMA OpsFinite == IsFiniteSet(Ops) /\ IsFiniteSet(Ops')
BY LogAssumption, FS_Subset DEF Ops

\* While no block is written home and nothing is logged or installed, the pins
\* stay right.
LEMMA PinKept ==
  ASSUME PinInv, Up, Up', UNCHANGED <<home, cache, pin, lh>>,
         \A i \in DOMAIN lh : Installed(i)' <=> Installed(i)
  PROVE  PinInv'
<1>1. home' = home /\ cache' = cache /\ pin' = pin /\ lh' = lh
  BY Zenon
<1>2. \A b \in Block : home[b] # Torn
  BY DEF PinInv, Up, BootPC
<1>3. Entries(lh)' = Entries(lh)
  BY Zenon, <1>1 DEF Entries
<1>4. \A i \in DOMAIN lh : pin[lh[i]] = IF Installed(i)' THEN 0 ELSE 1
  BY Zenon DEF PinInv
<1> HIDE DEF Installed
<1> QED
  BY Zenon, <1>1, <1>2, <1>3, <1>4 DEF PinInv

\* During boot nothing is pinned.
LEMMA NothingPinned ==
  ASSUME \A b \in Block : pin'[b] = 0, Up' => lh' = <<>>,
         \A b \in Block : cache'[b] # Absent => cache'[b] = home'[b],
         \A b \in Block : home'[b] = Torn =>
            b \in Entries(hdr') /\ pc'[initproc] \in {"read_head", "recover"}
  PROVE  PinInv'
<1>1. \A b \in Block : pin'[b] # 1
  OBVIOUS
<1>2. Up' => DOMAIN lh' = {}
  OBVIOUS
<1> QED
  BY Zenon, <1>1, <1>2 DEF PinInv, Entries

\* One process is in a loop at most.
LEMMA LoopOne ==
  ASSUME NEW p \in Proc, LoopAt(p)',
         \A q \in Proc : q # p => pc'[q] \notin CommitPC \cup BootPC
  PROVE  LoopInv'
<1>1. ASSUME NEW q \in Proc, q # p PROVE LoopAt(q)'
  <2>1. pc'[q] \notin {"write_log", "write_head", "install", "clear_head",
                       "recover", "recover_clear"}
    BY Zenon, <1>1 DEF CommitPC, BootPC
  <2> QED
    BY Zenon, <2>1 DEF LoopAt
<1> QED
  BY Zenon, <1>1 DEF LoopInv

\* In one of the loops, or about to write the header.
LoopPC == {"write_log", "write_head", "install", "clear_head"} \cup BootPC

\* Who is in none of the loops may go on, as far as they are concerned.
LEMMA Elsewhere ==
  ASSUME IInv, Up, UNCHANGED <<home, dlog, hdr, cache, pin, lh, tail>>,
         \A q \in Proc : \/ pc'[q] = pc[q]
                         \/ pc[q] \notin LoopPC /\ pc'[q] \notin LoopPC
  PROVE  Up' /\ PinInv' /\ LoopInv'
<1>1. Up'
  BY LogAssumption DEF Up, LoopPC
<1>2. \A i : Installed(i)' <=> Installed(i)
  <2>1. \A q \in Proc : pc'[q] = "install" <=> pc[q] = "install"
    BY Zenon DEF LoopPC
  <2> QED
    BY Zenon, <2>1 DEF Installed
<1>3. PinInv'
  BY Zenon, <1>1, <1>2, PinKept DEF IInv
<1>4. ASSUME NEW q \in Proc PROVE LoopAt(q)'
  <2>1. CASE pc'[q] = pc[q]
    BY Zenon, <2>1 DEF IInv, LoopInv, LoopAt
  <2>2. CASE pc'[q] \notin LoopPC
    <3>1. pc'[q] \notin {"write_log", "write_head", "install", "clear_head",
                         "recover", "recover_clear"}
      BY Zenon, <2>2 DEF LoopPC, BootPC
    <3> QED
      BY Zenon, <3>1 DEF LoopAt
  <2> QED
    BY Zenon, <2>1, <2>2
<1> QED
  BY Zenon, <1>1, <1>3, <1>4 DEF LoopInv

\* After mkfs and boot the invariant holds.
LEMMA InitIInv == Init => IInv
<1> SUFFICES ASSUME Init PROVE IInv
  OBVIOUS
<1> USE LogAssumption
<1>0. Ops = {}
  BY DEF Init, Ops
<1>1. TypeOK
  <2>1. pc \in [Proc -> PC]
    BY DEF Init, PC, BootPC
  <2>2. /\ hdr \in Seq(Block) /\ Len(hdr) <= LOGSIZE
        /\ lh \in Seq(Block) /\ Len(lh) <= LOGSIZE
    BY DEF Init
  <2>3. /\ home \in [Block -> Data \cup {Torn}]
        /\ dlog \in [1..LOGSIZE -> Data \cup {Torn}]
        /\ cache \in [Block -> Data \cup {Torn, Absent}]
    BY DEF Init
  <2>4. /\ pin \in [Block -> 0..1] /\ outstanding \in Nat
        /\ tail \in [Proc -> 0..LOGSIZE] /\ used \in [Proc -> SUBSET Block]
    BY DEF Init
  <2>5. committing \in BOOLEAN
    BY ZenonT(40) DEF Init
  <2> QED
    BY <2>1, <2>2, <2>3, <2>4, <2>5 DEF TypeOK
<1>2. ControlInv
  BY <1>0, FS_EmptySet DEF Init, ControlInv, Up, CommitPC, BootPC
<1>3. HeaderInv
  BY DEF Init, HeaderInv, Up, BootPC
<1>4. PinInv
  BY DEF Init, PinInv, Up, BootPC
<1>5. LoopInv
  BY DEF Init, LoopInv, LoopAt
<1> QED
  BY <1>1, <1>2, <1>3, <1>4, <1>5 DEF IInv

\* begin_op keeps it.
LEMMA BeginOpIInv ==
  ASSUME IInv, NEW p \in Proc, begin_op(p) PROVE IInv'
<1> USE LogAssumption DEF IInv
<1>0. /\ UNCHANGED <<home, dlog, hdr, cache, pin, lh, committing, tail>>
      /\ Up /\ pc[p] \in {"idle", "begin"}
      /\ pc' = [pc EXCEPT ![p] = "sleep"] \/ pc' = [pc EXCEPT ![p] = "op"]
  BY DEF begin_op, disk
<1>1. /\ pc'[p] \in {"sleep", "op"}
      /\ \A q \in Proc : q # p => pc'[q] = pc[q]
  BY <1>0 DEF TypeOK
<1>2. Up' /\ PinInv' /\ LoopInv'
  <2>1. pc[p] \notin LoopPC /\ pc'[p] \notin LoopPC
    BY <1>0, <1>1 DEF LoopPC, BootPC
  <2> QED
    BY Zenon, <1>0, <1>1, <2>1, Elsewhere
<1>3. CASE committing \/ LogFull
  <2>1. pc' = [pc EXCEPT ![p] = "sleep"] /\ UNCHANGED <<outstanding, used>>
    BY <1>3 DEF begin_op
  <2>2. Ops' = Ops
    BY <1>0, <2>1 DEF Ops, TypeOK
  <2>3. TypeOK'
    BY <1>0, <2>1 DEF TypeOK, PC
  <2>4. ControlInv'
    BY <1>0, <2>1, <2>2 DEF TypeOK, ControlInv, Up, CommitPC, BootPC
  <2>5. HeaderInv'
    BY <1>0, <2>1 DEF TypeOK, HeaderInv, Up, BootPC
  <2> QED
    BY Zenon, <1>2, <2>3, <2>4, <2>5
<1>4. CASE ~(committing \/ LogFull)
  <2>1. /\ pc' = [pc EXCEPT ![p] = "op"]
        /\ outstanding' = outstanding + 1
        /\ used' = [used EXCEPT ![p] = {}]
        /\ ~committing
    BY <1>4 DEF begin_op
  <2>2. Ops' = Ops \cup {p} /\ p \notin Ops
    BY <1>0, <2>1 DEF Ops, TypeOK
  <2>3. Cardinality(Ops') = Cardinality(Ops) + 1
    BY <2>2, OpsFinite, FS_AddElement
  <2>4. TypeOK'
    BY <1>0, <2>1 DEF TypeOK, PC
  <2>5. ControlInv'
    BY <1>0, <2>1, <2>2, <2>3 DEF TypeOK, ControlInv, Up, CommitPC, BootPC
  <2>6. HeaderInv'
    BY <1>0, <2>1 DEF TypeOK, HeaderInv, Up, BootPC
  <2> QED
    BY Zenon, <1>2, <2>4, <2>5, <2>6
<1> QED
  BY <1>3, <1>4

\* log_write keeps it: absorption leaves lh as it is, a new block extends it.
LEMMA LogWriteIInv ==
  ASSUME IInv, NEW p \in Proc, NEW b \in Block, NEW d \in Data,
         log_write(p, b, d)
  PROVE  IInv'
<1> USE LogAssumption DEF IInv
<1>0. /\ UNCHANGED <<home, dlog, hdr, outstanding, committing, tail>>
      /\ pc[p] = "op"
  BY DEF log_write, disk
<1>1. p \in Ops /\ \A q \in Proc : pc[q] \notin CommitPC \cup BootPC
  BY SMTT(40), <1>0 DEF Ops, ControlInv, Up, TypeOK, BootPC, CommitPC
<1>2. Up
  BY <1>1 DEF Up
<1>3. CASE Len(lh) >= LOGSIZE \/ Len(lh) >= NLOG - 1 \/ outstanding < 1
  <2>1. pc' = [pc EXCEPT ![p] = "panic"] /\ UNCHANGED <<cache, pin, lh, used>>
    BY <1>3 DEF log_write
  <2>2. Ops' = Ops
    BY <1>0, <2>1 DEF Ops, TypeOK
  <2>3. TypeOK'
    BY <1>0, <2>1 DEF TypeOK, PC
  <2>4. ControlInv'
    BY <1>0, <2>1, <2>2 DEF TypeOK, ControlInv, Up, CommitPC, BootPC
  <2>5. HeaderInv'
    BY <1>0, <2>1 DEF TypeOK, HeaderInv, Up, BootPC
  <2>6. PinInv' /\ LoopInv'
    <3>1. \A q \in Proc : q # p => pc'[q] = pc[q]
      BY <2>1 DEF TypeOK
    <3>2. pc[p] \notin LoopPC /\ pc'[p] \notin LoopPC
      BY <1>0, <2>1 DEF LoopPC, BootPC, TypeOK
    <3> QED
      BY Zenon, <1>0, <1>2, <2>1, <3>1, <3>2, Elsewhere
  <2> QED
    BY Zenon, <2>3, <2>4, <2>5, <2>6
<1>4. CASE ~(Len(lh) >= LOGSIZE \/ Len(lh) >= NLOG - 1 \/ outstanding < 1)
  <2>0. /\ cache' = [cache EXCEPT ![b] = d]
        /\ used' = [used EXCEPT ![p] = @ \cup {b}]
        /\ UNCHANGED pc
        /\ Len(lh) < LOGSIZE
        /\ outstanding >= 1
    BY <1>4 DEF log_write, TypeOK
  <2>1. Ops' = Ops
    BY <2>0 DEF Ops
  <2>2. \A i : ~Installed(i) /\ ~Installed(i)'
    BY <1>1, <2>0 DEF Installed, CommitPC
  <2>3. ControlInv'
    BY <1>0, <2>0, <2>1 DEF ControlInv, Up
  <2>4. LoopInv'
    <3>1. ASSUME NEW q \in Proc PROVE LoopAt(q)'
      BY Zenon, <1>1, <2>0 DEF LoopAt, CommitPC, BootPC
    <3> QED
      BY Zenon, <3>1 DEF LoopInv
  <2>5. CASE Absorbed(b)
    <3>1. UNCHANGED <<lh, pin>> /\ b \in Entries(lh)
      BY <1>4, <2>5 DEF log_write, Absorbed
    <3>2. TypeOK'
      BY <1>0, <2>0, <3>1 DEF TypeOK
    <3>3. HeaderInv'
      BY <1>0, <2>0, <3>1 DEF HeaderInv, Up
    <3>4. pin[b] = 1
      BY <1>2, <2>2, <3>1 DEF PinInv, Entries
    <3>5. PinInv'
      BY <1>0, <1>2, <2>0, <2>2, <3>1, <3>4 DEF TypeOK, PinInv, Up, Entries
    <3> QED
      BY <2>3, <2>4, <3>2, <3>3, <3>5
  <2>6. CASE ~Absorbed(b)
    <3>1. lh' = Append(lh, b) /\ pin' = [pin EXCEPT ![b] = @ + 1]
      BY <1>4, <2>6 DEF log_write, bpin
    <3>2. b \notin Entries(lh)
      BY <2>6 DEF Absorbed
    <3>3. pin[b] = 0
      BY <3>2 DEF PinInv, TypeOK
    <3>4. /\ lh' \in Seq(Block) /\ Len(lh') = Len(lh) + 1
          /\ \A i \in 1..Len(lh) : lh'[i] = lh[i]
          /\ lh'[Len(lh) + 1] = b
          /\ DOMAIN lh = 1..Len(lh)
          /\ DOMAIN lh' = 1..(Len(lh) + 1)
      BY <3>1 DEF TypeOK
    <3>5. TypeOK'
      BY <1>0, <2>0, <3>1, <3>3, <3>4 DEF TypeOK
    <3>6. HeaderInv'
      <4>1. \A i, j \in DOMAIN lh' : lh'[i] = lh'[j] => i = j
        BY <3>2, <3>4 DEF HeaderInv, Entries
      <4>2. outstanding' # 0
        BY <1>0, <2>0
      <4> QED
        BY <1>0, <1>1, <2>0, <4>1, <4>2 DEF HeaderInv, Up, CommitPC, BootPC
    <3>7. PinInv'
      <4>1. Entries(lh)' = Entries(lh) \cup {b}
        BY <3>4 DEF Entries
      <4>2. \A i \in DOMAIN lh' : pin'[lh'[i]] = 1
        BY <1>2, <2>2, <3>1, <3>2, <3>3, <3>4 DEF TypeOK, PinInv, Entries
      <4>3. \A c \in Block : pin'[c] = 1 =>
              Up' /\ cache'[c] \in Data /\ c \in Entries(lh)'
        BY <1>2, <2>0, <3>1, <4>1 DEF TypeOK, PinInv, Up
      <4>4. \A c \in Block : pin'[c] = 0 /\ cache'[c] # Absent => cache'[c] = home'[c]
        BY <1>0, <2>0, <3>1, <3>3 DEF TypeOK, PinInv
      <4> QED
        BY <1>0, <2>0, <2>2, <4>2, <4>3, <4>4 DEF PinInv, Entries
    <3> QED
      BY <2>3, <2>4, <3>5, <3>6, <3>7
  <2> QED
    BY <2>5, <2>6
<1> QED
  BY <1>3, <1>4

\* end_op keeps it, whether or not this was the last outstanding operation.
LEMMA EndOpIInv ==
  ASSUME IInv, NEW p \in Proc, end_op(p) PROVE IInv'
<1> USE LogAssumption DEF IInv
<1>0. /\ UNCHANGED <<home, dlog, hdr, cache, pin, lh, tail, used>>
      /\ pc[p] = "op"
      /\ outstanding' = outstanding - 1
  BY DEF end_op, disk
<1>1. p \in Ops /\ ~committing /\ \A q \in Proc : pc[q] \notin CommitPC \cup BootPC
  BY <1>0 DEF Ops, ControlInv, Up, TypeOK, BootPC, CommitPC
<1>2. Up /\ \A i : ~Installed(i)
  BY <1>1 DEF Up, Installed, CommitPC
<1>3. /\ Cardinality(Ops \ {p}) = outstanding - 1
      /\ outstanding - 1 \in Nat
      /\ outstanding - 1 = 0 => Ops \ {p} = {}
  <2>1. IsFiniteSet(Ops \ {p}) /\ Cardinality(Ops \ {p}) = outstanding - 1
    BY SMTT(40), <1>1, OpsFinite, FS_RemoveElement DEF ControlInv
  <2> QED
    BY <2>1, FS_CardinalityType, FS_EmptySet
<1>4. CASE LastOp
  <2>1. committing' = TRUE /\ pc' = [pc EXCEPT ![p] = "commit"]
    BY <1>1, <1>4 DEF end_op
  <2>2. Ops' = Ops \ {p} /\ Ops' = {}
    BY <1>0, <1>3, <1>4, <2>1 DEF Ops, TypeOK, LastOp
  <2>3. TypeOK'
    BY <1>0, <1>3, <2>1 DEF TypeOK, PC, CommitPC
  <2>4. ControlInv'
    BY <1>0, <1>1, <1>3, <2>1, <2>2 DEF TypeOK, ControlInv, Up, CommitPC, BootPC
  <2>5. HeaderInv'
    BY <1>0, <1>1, <2>1 DEF TypeOK, HeaderInv, Up, BootPC, CommitPC
  <2>6. PinInv' /\ LoopInv'
    <3>1. \A q \in Proc : q # p => pc'[q] = pc[q]
      BY <2>1 DEF TypeOK
    <3>2. pc[p] \notin LoopPC /\ pc'[p] \notin LoopPC
      BY <1>0, <2>1 DEF LoopPC, BootPC, TypeOK
    <3> QED
      BY Zenon, <1>0, <1>2, <3>1, <3>2, Elsewhere
  <2> QED
    BY Zenon, <2>3, <2>4, <2>5, <2>6
<1>5. CASE ~LastOp
  <2>1. UNCHANGED committing /\ pc' = Wakeup([pc EXCEPT ![p] = "idle"])
    BY <1>1, <1>5 DEF end_op
  <2>2. \A q \in Proc : pc'[q] = IF q = p THEN "idle"
                                 ELSE IF pc[q] = "sleep" THEN "begin" ELSE pc[q]
    BY <2>1 DEF Wakeup, TypeOK
  <2>3. Ops' = Ops \ {p}
    BY <2>2 DEF Ops
  <2>4. \A q \in Proc : pc'[q] \notin CommitPC \cup BootPC
    BY <1>1, <2>2 DEF CommitPC, BootPC
  <2>5. TypeOK'
    BY <1>0, <1>3, <2>1, <2>2 DEF TypeOK, PC, Wakeup
  <2>6. ControlInv'
    BY ZenonT(40), <1>0, <1>1, <1>3, <2>1, <2>2, <2>3 DEF TypeOK, ControlInv, Up, CommitPC, BootPC
  <2>7. HeaderInv'
    BY ZenonT(40), <1>0, <1>1, <1>5, <2>1, <2>2 DEF TypeOK, HeaderInv, Up, BootPC, CommitPC, LastOp
  <2>8. PinInv' /\ LoopInv'
    <3>1. \A q \in Proc : pc[q] \notin LoopPC /\ pc'[q] \notin LoopPC
      BY Zenon, <1>1, <2>4 DEF LoopPC, CommitPC
    <3> QED
      BY Zenon, <1>0, <1>2, <3>1, Elsewhere
  <2> QED
    BY Zenon, <2>5, <2>6, <2>7, <2>8
<1> QED
  BY <1>4, <1>5

\* The decision of commit() whether there is anything to do.
LEMMA CommitIInv ==
  ASSUME IInv, NEW p \in Proc, commit(p) PROVE IInv'
<1> USE LogAssumption DEF IInv
<1>0. /\ UNCHANGED <<home, dlog, hdr, cache, pin, lh, outstanding, committing, used>>
      /\ pc[p] = "commit"
      /\ tail' = [tail EXCEPT ![p] = 0]
      /\ pc' = [pc EXCEPT ![p] = IF Len(lh) > 0 THEN "write_log" ELSE "end"]
  BY DEF commit, disk, mem
<1>1. Up /\ \A q \in Proc : q # p => pc[q] \notin CommitPC \cup BootPC
  BY <1>0 DEF ControlInv, Up, TypeOK, BootPC, CommitPC
<1>2. Len(lh) \in Nat /\ (~(Len(lh) > 0) => lh = <<>>)
  BY DEF TypeOK
<1>3. Ops' = Ops
  BY <1>0, <1>2 DEF Ops, TypeOK
<1>4. TypeOK'
  BY <1>0 DEF TypeOK, PC, CommitPC
<1>5. ControlInv'
  BY <1>0, <1>1, <1>3 DEF TypeOK, ControlInv, Up, CommitPC, BootPC
<1>6. HeaderInv'
  BY SMTT(40), <1>0, <1>1, <1>2 DEF TypeOK, HeaderInv, Up, BootPC, CommitPC
<1>7. /\ pc'[p] \in {"write_log", "end"} /\ tail'[p] = 0
      /\ \A q \in Proc : q # p => pc'[q] = pc[q]
  BY <1>0 DEF TypeOK
<1>8. PinInv'
  <2>1. Up'
    BY <1>0, <1>1, <1>7 DEF Up, BootPC
  <2>2. \A i : ~Installed(i) /\ ~Installed(i)'
    BY Zenon, <1>0, <1>1, <1>7 DEF Installed, CommitPC
  <2> QED
    BY Zenon, <1>0, <1>1, <2>1, <2>2, PinKept
<1>9. LoopInv'
  <2>1. LoopAt(p)'
    <3>1. tail'[p] <= Len(lh') /\ \A i \in DOMAIN lh' : ~(i <= tail'[p])
      BY <1>0, <1>2, <1>7 DEF TypeOK
    <3> QED
      BY Zenon, <1>7, <3>1 DEF LoopAt
  <2> QED
    BY Zenon, <1>1, <1>7, <2>1, LoopOne
<1> QED
  BY Zenon, <1>4, <1>5, <1>6, <1>8, <1>9

\* One block of write_log.
LEMMA WriteLogIInv ==
  ASSUME IInv, NEW p \in Proc, write_log(p) PROVE IInv'
<1> USE LogAssumption DEF IInv
<1>0. /\ UNCHANGED <<home, hdr, pin, lh, outstanding, committing, used>>
      /\ pc[p] = "write_log"
  BY DEF write_log
<1>1. /\ Up
      /\ \A q \in Proc : q # p => pc[q] \notin CommitPC \cup BootPC
      /\ \A i : ~Installed(i)
  BY <1>0 DEF ControlInv, Up, TypeOK, BootPC, CommitPC, Installed
<1>2. /\ tail[p] \in Nat /\ tail[p] <= Len(lh) /\ Len(lh) \in Nat
      /\ DOMAIN lh = 1..Len(lh) /\ Len(lh) <= LOGSIZE
  BY <1>0 DEF TypeOK, LoopInv, LoopAt
<1>3. CASE MoreBlocks(p)
  <2> DEFINE t == tail[p] + 1
             b == lh[t]
  <2>1. t \in DOMAIN lh /\ t \in 1..LOGSIZE /\ b \in Block
    BY <1>2, <1>3 DEF MoreBlocks, TypeOK
  <2>2. pin[b] = 1 /\ cache[b] \in Data
    BY <1>1, <2>1 DEF PinInv
  <2>3. Bread(b) = cache[b]
    BY <2>2 DEF Bread
  <2>4. /\ cache' = cache
        /\ dlog' = [dlog EXCEPT ![t] = cache[b]]
        /\ tail' = [tail EXCEPT ![p] = t]
        /\ UNCHANGED pc
    BY <1>3, <2>1, <2>3 DEF write_log, TypeOK
  <2>5. Ops' = Ops
    BY <2>4 DEF Ops
  <2>6. TypeOK'
    BY SMTT(40), <1>0, <2>1, <2>2, <2>4 DEF TypeOK
  <2>7. ControlInv'
    BY <1>0, <2>4, <2>5 DEF ControlInv, Up
  <2>8. HeaderInv'
    BY <1>0, <1>1, <2>4 DEF TypeOK, HeaderInv, Up, CommitPC
  <2>9. PinInv'
    <3>1. Up' /\ \A i : ~Installed(i)'
      BY Zenon, <1>0, <1>1, <2>4 DEF Up, Installed, CommitPC
    <3> QED
      BY Zenon, <1>0, <1>1, <2>4, <3>1, PinKept
  <2>10. LoopInv'
    <3>1. tail'[p] = t /\ t <= Len(lh) /\ pc'[p] = "write_log"
      BY <1>0, <1>2, <2>1, <2>4 DEF TypeOK
    <3>2. \A i \in DOMAIN lh : i <= tail[p] => dlog[i] = cache[lh[i]]
      BY Zenon, <1>0 DEF LoopInv, LoopAt
    <3>3. \A i \in DOMAIN lh : i <= t => dlog'[i] = cache[lh[i]]
      BY <1>2, <2>1, <2>4, <3>2 DEF TypeOK
    <3> HIDE DEF t
    <3>4. LoopAt(p)'
      BY Zenon, <1>0, <2>4, <3>1, <3>3 DEF LoopAt
    <3> QED
      BY Zenon, <1>1, <2>4, <3>4, LoopOne
  <2> QED
    BY Zenon, <2>6, <2>7, <2>8, <2>9, <2>10
<1>4. CASE ~MoreBlocks(p)
  <2>1. pc' = [pc EXCEPT ![p] = "write_head"] /\ UNCHANGED <<cache, dlog, tail>>
    BY <1>4 DEF write_log
  <2>2. tail[p] = Len(lh)
    BY <1>2, <1>4 DEF MoreBlocks
  <2>3. Ops' = Ops
    BY <1>0, <2>1 DEF Ops, TypeOK
  <2>4. TypeOK'
    BY <1>0, <2>1 DEF TypeOK, PC, CommitPC
  <2>5. ControlInv'
    BY <1>0, <1>1, <2>1, <2>3 DEF TypeOK, ControlInv, Up, CommitPC, BootPC
  <2>6. HeaderInv'
    BY <1>0, <1>1, <2>1 DEF TypeOK, HeaderInv, Up, CommitPC, BootPC
  <2>7. pc'[p] = "write_head" /\ \A q \in Proc : q # p => pc'[q] = pc[q]
    BY <2>1 DEF TypeOK
  <2>8. PinInv'
    <3>1. Up'
      BY <1>0, <1>1, <2>7 DEF Up, BootPC
    <3>2. \A i : ~Installed(i)'
      BY Zenon, <1>1, <2>7 DEF Installed, CommitPC
    <3> QED
      BY Zenon, <1>0, <1>1, <2>1, <3>1, <3>2, PinKept
  <2>9. LoopInv'
    <3>1. \A i \in DOMAIN lh : i <= tail[p] => dlog[i] = cache[lh[i]]
      BY Zenon, <1>0 DEF LoopInv, LoopAt
    <3>2. \A i \in DOMAIN lh : dlog[i] = cache[lh[i]]
      BY <1>2, <2>2, <3>1
    <3>3. LoopAt(p)'
      BY Zenon, <1>0, <2>1, <2>7, <3>2 DEF LoopAt
    <3> QED
      BY Zenon, <1>1, <2>7, <3>3, LoopOne
  <2> QED
    BY Zenon, <2>4, <2>5, <2>6, <2>8, <2>9
<1> QED
  BY <1>3, <1>4

\* write_head of a full header: the commit point.
LEMMA WriteHeadIInv ==
  ASSUME IInv, NEW p \in Proc, write_head(p, "write_head", "install")
  PROVE  IInv'
<1> USE LogAssumption DEF IInv
<1>0. /\ UNCHANGED <<home, dlog, cache, pin, lh, outstanding, committing, used>>
      /\ pc[p] = "write_head"
      /\ hdr' = lh
      /\ tail' = [tail EXCEPT ![p] = 0]
      /\ pc' = [pc EXCEPT ![p] = "install"]
  BY DEF write_head, mem
<1>1. /\ Up /\ Up'
      /\ \A q \in Proc : q # p => pc[q] \notin CommitPC \cup BootPC
      /\ \A i : ~Installed(i)
  BY <1>0 DEF ControlInv, Up, TypeOK, BootPC, CommitPC, Installed
<1>2. DOMAIN lh = 1..Len(lh) /\ Len(lh) \in Nat
  BY DEF TypeOK
<1>3. \A i \in DOMAIN lh : ~Installed(i)'
  BY <1>0, <1>1, <1>2 DEF TypeOK, Installed, CommitPC
<1>4. Ops' = Ops
  BY <1>0 DEF Ops, TypeOK
<1>5. TypeOK'
  BY <1>0 DEF TypeOK, PC, CommitPC
<1>6. ControlInv'
  BY <1>0, <1>1, <1>4 DEF TypeOK, ControlInv, Up, CommitPC, BootPC
<1>7. \A i \in DOMAIN lh : dlog[i] = cache[lh[i]] /\ dlog[i] \in Data
  <2>1. \A i \in DOMAIN lh : dlog[i] = cache[lh[i]]
    BY Zenon, <1>0 DEF LoopInv, LoopAt
  <2>2. \A i \in DOMAIN lh : pin[lh[i]] = 1 /\ lh[i] \in Block
    BY <1>1 DEF PinInv, TypeOK
  <2> QED
    BY Zenon, <2>1, <2>2 DEF PinInv
<1>8. HeaderInv'
  BY SMTT(40), <1>0, <1>1, <1>7 DEF TypeOK, HeaderInv, Up, CommitPC, BootPC
<1>9. PinInv'
  BY Zenon, <1>0, <1>1, <1>3, PinKept
<1>10. LoopInv'
  <2>1. /\ pc'[p] = "install" /\ tail'[p] = 0
        /\ \A q \in Proc : q # p => pc'[q] = pc[q]
    BY <1>0 DEF TypeOK
  <2>2. tail'[p] <= Len(lh') /\ \A i \in DOMAIN lh' : ~(i <= tail'[p])
    BY <1>0, <1>2, <2>1
  <2>3. LoopAt(p)'
    BY Zenon, <1>0, <1>7, <2>1, <2>2 DEF LoopAt
  <2> QED
    BY Zenon, <1>1, <2>1, <2>3, LoopOne
<1> QED
  BY <1>5, <1>6, <1>8, <1>9, <1>10

\* One block of install_trans.
LEMMA InstallIInv ==
  ASSUME IInv, NEW p \in Proc,
         install_trans(p, "install", FALSE, "clear_head")
  PROVE  IInv'
<1> USE LogAssumption DEF IInv
<1>0. /\ UNCHANGED <<dlog, hdr, outstanding, committing, used>>
      /\ pc[p] = "install"
  BY DEF install_trans
<1>1. /\ Up
      /\ \A q \in Proc : q # p => pc[q] \notin CommitPC \cup BootPC
      /\ \A i : Installed(i) <=> i <= tail[p]
      /\ committing
  BY <1>0 DEF ControlInv, Up, TypeOK, BootPC, CommitPC, Installed
<1>2. /\ tail[p] \in Nat /\ tail[p] <= Len(lh) /\ Len(lh) \in Nat
      /\ DOMAIN lh = 1..Len(lh) /\ Len(lh) <= LOGSIZE
      /\ hdr = lh
  BY <1>0 DEF TypeOK, LoopInv, LoopAt, HeaderInv
<1>3. CASE MoreBlocks(p)
  <2> DEFINE t == tail[p] + 1
             b == lh[t]
  <2>1. t \in DOMAIN lh /\ t \in 1..LOGSIZE /\ b \in Block /\ ~Installed(t)
    BY <1>1, <1>2, <1>3 DEF MoreBlocks, TypeOK
  <2>2. pin[b] = 1 /\ cache[b] \in Data /\ dlog[t] = cache[b]
    <3>1. t > tail[p]
      BY <1>2
    <3>2. dlog[t] = cache[b]
      BY Zenon, <1>0, <2>1, <3>1 DEF LoopInv, LoopAt
    <3>3. pin[b] = 1
      BY Zenon, <1>1, <2>1 DEF PinInv
    <3> QED
      BY Zenon, <2>1, <3>2, <3>3 DEF PinInv
  <2>3. /\ cache' = cache
        /\ home' = [home EXCEPT ![b] = dlog[t]]
        /\ pin' = [pin EXCEPT ![b] = @ - 1]
        /\ tail' = [tail EXCEPT ![p] = t]
        /\ UNCHANGED <<lh, pc>>
    <3>1. /\ cache' = [cache EXCEPT ![b] = dlog[t]]
          /\ home' = [home EXCEPT ![b] = dlog[t]]
          /\ pin' = [pin EXCEPT ![b] = @ - 1]
          /\ tail' = [tail EXCEPT ![p] = @ + 1]
          /\ UNCHANGED <<lh, pc>>
      BY <1>3 DEF install_trans, bunpin
    <3> QED
      BY <2>1, <2>2, <3>1 DEF TypeOK
  <2>4. Ops' = Ops
    BY <2>3 DEF Ops
  <2>5. TypeOK'
    BY <1>0, <2>1, <2>2, <2>3 DEF TypeOK
  <2>6. ControlInv'
    BY <1>0, <2>3, <2>4 DEF ControlInv, Up
  <2>7. HeaderInv'
    BY <1>0, <2>3 DEF HeaderInv, Up
  <2>8. \A i : Installed(i)' <=> i <= t
    <3>1. pc'[p] = "install" /\ tail'[p] = t
      BY <1>0, <2>3 DEF TypeOK
    <3>2. \A q \in Proc : q # p => pc'[q] # "install"
      BY <1>1, <2>3 DEF CommitPC
    <3> QED
      BY <3>1, <3>2 DEF Installed
  <2>9. PinInv'
    <3>1. \A i \in DOMAIN lh : i # t => lh[i] # b
      BY <2>1 DEF HeaderInv
    <3>2. \A i \in DOMAIN lh' : pin'[lh'[i]] = IF Installed(i)' THEN 0 ELSE 1
      BY <1>1, <1>2, <2>1, <2>2, <2>3, <2>8, <3>1 DEF PinInv, TypeOK
    <3>3. \A c \in Block : pin'[c] = 0 /\ cache'[c] # Absent => cache'[c] = home'[c]
      BY <2>2, <2>3 DEF PinInv, TypeOK
    <3>4. \A c \in Block : pin'[c] = 1 =>
            Up' /\ cache'[c] \in Data /\ c \in Entries(lh)'
      BY <2>2, <2>3 DEF PinInv, TypeOK, Up, Entries
    <3>5. \A c \in Block : home'[c] # Torn
      BY <1>1, <2>2, <2>3 DEF PinInv, TypeOK, Up, BootPC
    <3> QED
      BY <3>2, <3>3, <3>4, <3>5 DEF PinInv
  <2>10. LoopInv'
    <3>1. \A i \in DOMAIN lh : i > t => dlog'[i] = cache'[lh'[i]]
      <4>1. \A i \in DOMAIN lh : i > tail[p] => dlog[i] = cache[lh[i]]
        BY Zenon, <1>0 DEF LoopInv, LoopAt
      <4> QED
        BY <1>0, <1>2, <2>3, <4>1
    <3>2. \A i \in DOMAIN lh : i <= t => home'[lh'[i]] = dlog'[i]
      <4>1. \A i \in DOMAIN lh : i <= tail[p] => home[lh[i]] = dlog[i]
        BY Zenon, <1>0 DEF LoopInv, LoopAt
      <4>2. \A i \in DOMAIN lh : i <= t => i = t \/ i <= tail[p]
        BY <1>2
      <4>3. \A i \in DOMAIN lh : i # t => lh[i] # b
        BY Zenon, <2>1 DEF HeaderInv
      <4>4. home \in [Block -> Data \cup {Torn}] /\ \A i \in DOMAIN lh : lh[i] \in Block
        BY DEF TypeOK
      <4> HIDE DEF t, b
      <4>5. home'[b] = dlog[t] /\ \A c \in Block : c # b => home'[c] = home[c]
        BY <2>1, <2>3, <4>4
      <4> QED
        BY Zenon, <1>0, <2>3, <4>1, <4>2, <4>3, <4>4, <4>5 DEF b
    <3>3. tail'[p] = t /\ t <= Len(lh)
      BY <1>2, <2>1, <2>3 DEF TypeOK
    <3>4. \A q \in Proc : q # p => pc'[q] \notin CommitPC \cup BootPC
      BY <1>1, <2>3
    <3>5. pc'[p] = "install"
      BY <1>0, <2>3
    <3> HIDE DEF t
    <3>6. LoopAt(p)'
      <4>1. tail'[p] <= Len(lh')
        BY <2>3, <3>3
      <4> QED
        BY Zenon, <2>3, <3>1, <3>2, <3>3, <3>5, <4>1 DEF LoopAt
    <3> QED
      BY Zenon, <3>4, <3>6, LoopOne
  <2> QED
    BY <2>5, <2>6, <2>7, <2>9, <2>10
<1>4. CASE ~MoreBlocks(p)
  <2>1. /\ lh' = <<>>
        /\ pc' = [pc EXCEPT ![p] = "clear_head"]
        /\ UNCHANGED <<cache, home, pin, tail>>
    BY <1>4 DEF install_trans
  <2>2. tail[p] = Len(lh)
    BY <1>2, <1>4 DEF MoreBlocks
  <2>3. Ops' = Ops
    BY <1>0, <2>1 DEF Ops, TypeOK
  <2>4. TypeOK'
    BY <1>0, <2>1 DEF TypeOK, PC, CommitPC
  <2>5. ControlInv'
    BY <1>0, <1>1, <2>1, <2>3 DEF TypeOK, ControlInv, Up, CommitPC, BootPC
  <2>6. HeaderInv'
    BY <1>0, <1>1, <2>1 DEF TypeOK, HeaderInv, Up, CommitPC, BootPC
  <2>7. PinInv'
    <3>1. \A c \in Block : pin[c] = 0
      <4>1. \A i \in DOMAIN lh : pin[lh[i]] = 0
        BY <1>1, <1>2, <2>2 DEF PinInv
      <4>2. \A c \in Block : pin[c] # 1
        BY <4>1 DEF PinInv, Entries
      <4> QED
        BY <4>2 DEF TypeOK
    <3>2. \A c \in Block : home[c] # Torn
      BY Zenon, <1>1 DEF PinInv, Up, BootPC
    <3>3. \A c \in Block : cache[c] # Absent => cache[c] = home[c]
      BY Zenon, <3>1 DEF PinInv
    <3> QED
      BY Zenon, <2>1, <3>1, <3>2, <3>3, NothingPinned
  <2>8. LoopInv'
    <3>1. \A i \in DOMAIN hdr : home[hdr[i]] = dlog[i]
      <4>1. \A i \in DOMAIN lh : i <= tail[p] => home[lh[i]] = dlog[i]
        BY Zenon, <1>0 DEF LoopInv, LoopAt
      <4> QED
        BY <1>2, <2>2, <4>1
    <3>2. pc'[p] = "clear_head" /\ \A q \in Proc : q # p => pc'[q] = pc[q]
      BY <2>1 DEF TypeOK
    <3>3. LoopAt(p)'
      BY Zenon, <1>0, <2>1, <3>1, <3>2 DEF LoopAt
    <3> QED
      BY Zenon, <1>1, <3>2, <3>3, LoopOne
  <2> QED
    BY <2>4, <2>5, <2>6, <2>7, <2>8
<1> QED
  BY <1>3, <1>4

\* write_head of an empty header, which erases the transaction.
LEMMA ClearHeadIInv ==
  ASSUME IInv, NEW p \in Proc, write_head(p, "clear_head", "end")
  PROVE  IInv'
<1> USE LogAssumption DEF IInv
<1>0. /\ UNCHANGED <<home, dlog, cache, pin, lh, outstanding, committing, used>>
      /\ pc[p] = "clear_head"
      /\ hdr' = lh
      /\ tail' = [tail EXCEPT ![p] = 0]
      /\ pc' = [pc EXCEPT ![p] = "end"]
  BY DEF write_head, mem
<1>1. /\ Up /\ Up'
      /\ \A q \in Proc : q # p => pc[q] \notin CommitPC \cup BootPC
      /\ lh = <<>>
  BY <1>0 DEF ControlInv, HeaderInv, Up, TypeOK, BootPC, CommitPC
<1>2. Ops' = Ops
  BY <1>0 DEF Ops, TypeOK
<1>3. TypeOK'
  BY <1>0 DEF TypeOK, PC, CommitPC
<1>4. ControlInv'
  BY <1>0, <1>1, <1>2 DEF TypeOK, ControlInv, Up, CommitPC, BootPC
<1>5. HeaderInv'
  BY <1>0, <1>1 DEF TypeOK, HeaderInv, Up, CommitPC, BootPC
<1>6. PinInv'
  <2>1. DOMAIN lh = {}
    BY <1>1
  <2> QED
    BY Zenon, <1>0, <1>1, <2>1, PinKept
<1>7. LoopInv'
  <2>1. pc'[p] = "end" /\ \A q \in Proc : q # p => pc'[q] = pc[q]
    BY <1>0 DEF TypeOK
  <2>2. LoopAt(p)'
    BY Zenon, <2>1 DEF LoopAt
  <2> QED
    BY Zenon, <1>1, <2>1, <2>2, LoopOne
<1> QED
  BY <1>3, <1>4, <1>5, <1>6, <1>7

\* The end of end_op, which clears committing.
LEMMA EndCommitIInv ==
  ASSUME IInv, NEW p \in Proc, end_commit(p) PROVE IInv'
<1> USE LogAssumption DEF IInv
<1>0. /\ UNCHANGED <<home, dlog, hdr, cache, pin, lh, outstanding, tail, used>>
      /\ pc[p] = "end"
      /\ committing' = FALSE
      /\ pc' = Wakeup([pc EXCEPT ![p] = "idle"])
  BY DEF end_commit, disk
<1>1. /\ Up
      /\ \A q \in Proc : q # p => pc[q] \notin CommitPC \cup BootPC
      /\ lh = <<>>
  BY <1>0 DEF ControlInv, HeaderInv, Up, TypeOK, BootPC, CommitPC
<1>2. \A q \in Proc : pc'[q] = IF q = p THEN "idle"
                               ELSE IF pc[q] = "sleep" THEN "begin" ELSE pc[q]
  BY <1>0 DEF Wakeup, TypeOK
<1>3. Up' /\ \A q \in Proc : pc'[q] \notin CommitPC \cup BootPC
  BY <1>1, <1>2 DEF Up, CommitPC, BootPC
<1>4. Ops' = Ops
  BY ZenonT(40), <1>0, <1>2 DEF Ops
<1>5. TypeOK'
  BY ZenonT(40), <1>0, <1>2 DEF TypeOK, PC, Wakeup
<1>6. ControlInv'
  BY ZenonT(40), <1>0, <1>3, <1>4 DEF ControlInv
<1>7. HeaderInv'
  BY <1>0, <1>1, <1>3 DEF HeaderInv, Up, CommitPC, BootPC
<1>8. PinInv' /\ LoopInv'
  <2>1. pc[p] \notin LoopPC
    BY <1>0 DEF LoopPC, BootPC
  <2>2. \A q \in Proc : pc[q] \notin LoopPC /\ pc'[q] \notin LoopPC
    BY Zenon, <1>1, <1>3, <2>1 DEF LoopPC, CommitPC
  <2> QED
    BY Zenon, <1>0, <1>1, <2>2, Elsewhere
<1> QED
  BY Zenon, <1>5, <1>6, <1>7, <1>8

\* read_head at boot.
LEMMA ReadHeadIInv ==
  ASSUME IInv, NEW p \in Proc, read_head(p) PROVE IInv'
<1> USE LogAssumption DEF IInv
<1>0. /\ UNCHANGED <<home, dlog, hdr, cache, pin, outstanding, committing, used>>
      /\ pc[p] = "read_head"
      /\ lh' = hdr
      /\ tail' = [tail EXCEPT ![p] = 0]
      /\ pc' = [pc EXCEPT ![p] = "recover"]
  BY DEF read_head, disk
<1>1. /\ p = initproc /\ ~Up /\ ~Up'
      /\ \A q \in Proc : q # p => pc[q] = "idle"
  BY <1>0 DEF ControlInv, Up, TypeOK, BootPC
<1>2. Ops' = Ops
  BY <1>0 DEF Ops, TypeOK
<1>3. TypeOK'
  BY <1>0 DEF TypeOK, PC, BootPC
<1>4. ControlInv'
  BY <1>0, <1>1, <1>2 DEF TypeOK, ControlInv, Up, CommitPC, BootPC
<1>5. HeaderInv'
  BY <1>0, <1>1 DEF TypeOK, HeaderInv
<1>6. /\ pc'[p] = "recover" /\ tail'[p] = 0
      /\ \A q \in Proc : q # p => pc'[q] = pc[q]
  BY <1>0 DEF TypeOK
<1>7. PinInv'
  <2>1. \A b \in Block : pin[b] # 1
    BY Zenon, <1>1 DEF PinInv
  <2>2. \A b \in Block : pin[b] = 0
    BY <2>1 DEF TypeOK
  <2>3. \A b \in Block : cache[b] # Absent => cache[b] = home[b]
    BY Zenon, <2>2 DEF PinInv
  <2>4. \A b \in Block : home[b] = Torn => b \in Entries(hdr)
    BY Zenon DEF PinInv
  <2> QED
    BY Zenon, <1>0, <1>1, <1>6, <2>2, <2>3, <2>4, NothingPinned
<1>8. LoopInv'
  <2>1. tail'[p] <= Len(lh') /\ \A i \in DOMAIN lh' : ~(i <= tail'[p])
    BY <1>0, <1>6 DEF TypeOK
  <2>2. LoopAt(p)'
    BY Zenon, <1>6, <2>1 DEF LoopAt
  <2>3. \A q \in Proc : q # p => pc'[q] \notin CommitPC \cup BootPC
    BY <1>1, <1>6 DEF CommitPC, BootPC
  <2> QED
    BY Zenon, <2>2, <2>3, LoopOne
<1> QED
  BY Zenon, <1>3, <1>4, <1>5, <1>7, <1>8

\* One block of install_trans during recovery.
LEMMA RecoverIInv ==
  ASSUME IInv, NEW p \in Proc,
         install_trans(p, "recover", TRUE, "recover_clear")
  PROVE  IInv'
<1> USE LogAssumption DEF IInv
<1>0. /\ UNCHANGED <<dlog, hdr, outstanding, committing, used>>
      /\ pc[p] = "recover"
  BY DEF install_trans
<1>1. /\ p = initproc /\ ~Up
      /\ \A q \in Proc : q # p => pc[q] = "idle"
      /\ \A c \in Block : pin[c] = 0
  <2>1. p = initproc /\ ~Up /\ \A q \in Proc : q # p => pc[q] = "idle"
    BY <1>0 DEF ControlInv, Up, BootPC
  <2>2. \A c \in Block : pin[c] # 1
    BY Zenon, <2>1 DEF PinInv
  <2> QED
    BY <2>1, <2>2 DEF TypeOK
<1>2. /\ tail[p] \in Nat /\ tail[p] <= Len(lh) /\ Len(lh) \in Nat
      /\ DOMAIN lh = 1..Len(lh) /\ Len(lh) <= LOGSIZE
      /\ hdr = lh
  BY <1>0 DEF TypeOK, LoopInv, LoopAt, HeaderInv
<1>3. CASE MoreBlocks(p)
  <2> DEFINE t == tail[p] + 1
             b == lh[t]
  <2>1. t \in DOMAIN lh /\ t \in 1..LOGSIZE /\ b \in Block /\ dlog[t] \in Data
    BY <1>2, <1>3 DEF MoreBlocks, TypeOK, HeaderInv
  <2>2. /\ cache' = [cache EXCEPT ![b] = dlog[t]]
        /\ home' = [home EXCEPT ![b] = dlog[t]]
        /\ tail' = [tail EXCEPT ![p] = @ + 1]
        /\ UNCHANGED <<lh, pc, pin>>
    BY <1>3 DEF install_trans
  <2>3. Ops' = Ops
    BY <2>2 DEF Ops
  <2>4. TypeOK'
    BY <1>0, <2>1, <2>2 DEF TypeOK
  <2>5. ControlInv'
    BY <1>0, <2>2, <2>3 DEF ControlInv, Up
  <2>6. HeaderInv'
    BY SMTT(40), <1>0, <2>2 DEF HeaderInv, Up
  <2>7. PinInv'
    <3>1. \A c \in Block : cache'[c] # Absent => cache'[c] = home'[c]
      <4>1. \A c \in Block : cache[c] # Absent => cache[c] = home[c]
        BY Zenon, <1>1 DEF PinInv
      <4> QED
        BY <2>1, <2>2, <4>1 DEF TypeOK
    <3>2. \A c \in Block : home'[c] = Torn => home[c] = Torn
      BY <2>1, <2>2 DEF TypeOK
    <3>3. \A c \in Block : home'[c] = Torn => c \in Entries(hdr)
      BY Zenon, <3>2 DEF PinInv
    <3>4. ~Up'
      BY Zenon, <1>1, <2>2 DEF Up
    <3> QED
      BY Zenon, <1>0, <1>1, <2>2, <3>1, <3>3, <3>4, NothingPinned
  <2>8. LoopInv'
    <3>1. \A i \in DOMAIN lh : i <= t => home'[lh'[i]] = dlog'[i]
      <4>1. \A i \in DOMAIN lh : i <= tail[p] => home[lh[i]] = dlog[i]
        BY Zenon, <1>0 DEF LoopInv, LoopAt
      <4>2. \A i \in DOMAIN lh : i <= t => i = t \/ i <= tail[p]
        BY <1>2
      <4>3. \A i \in DOMAIN lh : i # t => lh[i] # b
        BY Zenon, <2>1 DEF HeaderInv
      <4>4. home \in [Block -> Data \cup {Torn}] /\ \A i \in DOMAIN lh : lh[i] \in Block
        BY DEF TypeOK
      <4> HIDE DEF t, b
      <4>5. home'[b] = dlog[t] /\ \A c \in Block : c # b => home'[c] = home[c]
        BY <2>1, <2>2, <4>4
      <4> QED
        BY Zenon, <1>0, <2>2, <4>1, <4>2, <4>3, <4>4, <4>5 DEF b
    <3>2. tail'[p] = t /\ t <= Len(lh)
      BY <1>2, <2>1, <2>2 DEF TypeOK
    <3> HIDE DEF t
    <3>3. LoopAt(p)'
      <4>1. tail'[p] <= Len(lh') /\ pc'[p] = "recover"
        BY <1>0, <2>2, <3>2
      <4> QED
        BY Zenon, <2>2, <3>1, <3>2, <4>1 DEF LoopAt
    <3>4. \A q \in Proc : q # p => pc'[q] \notin CommitPC \cup BootPC
      BY <1>1, <2>2 DEF CommitPC, BootPC
    <3> QED
      BY Zenon, <3>3, <3>4, LoopOne
  <2> QED
    BY <2>4, <2>5, <2>6, <2>7, <2>8
<1>4. CASE ~MoreBlocks(p)
  <2>1. /\ lh' = <<>>
        /\ pc' = [pc EXCEPT ![p] = "recover_clear"]
        /\ UNCHANGED <<cache, home, pin, tail>>
    BY <1>4 DEF install_trans
  <2>2. tail[p] = Len(lh)
    BY <1>2, <1>4 DEF MoreBlocks
  <2>3. \A i \in DOMAIN hdr : home[hdr[i]] = dlog[i]
    <3>1. \A i \in DOMAIN lh : i <= tail[p] => home[lh[i]] = dlog[i]
      BY Zenon, <1>0 DEF LoopInv, LoopAt
    <3> QED
      BY <1>2, <2>2, <3>1
  <2>4. Ops' = Ops
    BY <1>0, <2>1 DEF Ops, TypeOK
  <2>5. TypeOK'
    BY <1>0, <2>1 DEF TypeOK, PC, BootPC
  <2>6. ControlInv'
    BY <1>0, <1>1, <2>1, <2>4 DEF TypeOK, ControlInv, Up, CommitPC, BootPC
  <2>7. HeaderInv'
    BY SMTT(40), <1>0, <1>1, <2>1 DEF TypeOK, HeaderInv, Up, BootPC
  <2>8. \A c \in Block : home[c] # Torn
    <3>1. \A i \in DOMAIN hdr : home[hdr[i]] \in Data
      BY Zenon, <2>3 DEF HeaderInv
    <3>2. \A c \in Entries(hdr) : home[c] \in Data
      BY Zenon, <3>1 DEF Entries
    <3> QED
      BY Zenon, <3>2 DEF PinInv
  <2>9. PinInv'
    <3>1. \A c \in Block : cache[c] # Absent => cache[c] = home[c]
      BY Zenon, <1>1 DEF PinInv
    <3> QED
      BY Zenon, <1>1, <2>1, <2>8, <3>1, NothingPinned
  <2>10. LoopInv'
    <3>1. pc'[p] = "recover_clear" /\ \A q \in Proc : q # p => pc'[q] = "idle"
      BY <1>1, <2>1 DEF TypeOK
    <3>2. LoopAt(p)'
      BY Zenon, <1>0, <2>1, <2>3, <3>1 DEF LoopAt
    <3>3. \A q \in Proc : q # p => pc'[q] \notin CommitPC \cup BootPC
      BY <3>1 DEF CommitPC, BootPC
    <3> QED
      BY Zenon, <3>2, <3>3, LoopOne
  <2> QED
    BY <2>5, <2>6, <2>7, <2>9, <2>10
<1> QED
  BY <1>3, <1>4

\* The end of recover_from_log.
LEMMA RecoverClearIInv ==
  ASSUME IInv, NEW p \in Proc, write_head(p, "recover_clear", "idle")
  PROVE  IInv'
<1> USE LogAssumption DEF IInv
<1>0. /\ UNCHANGED <<home, dlog, cache, pin, lh, outstanding, committing, used>>
      /\ pc[p] = "recover_clear"
      /\ hdr' = lh
      /\ tail' = [tail EXCEPT ![p] = 0]
      /\ pc' = [pc EXCEPT ![p] = "idle"]
  BY DEF write_head, mem
<1>1. /\ p = initproc /\ ~Up /\ Up'
      /\ \A q \in Proc : q # p => pc[q] = "idle"
      /\ lh = <<>>
  BY <1>0 DEF ControlInv, HeaderInv, Up, TypeOK, BootPC
<1>2. \A q \in Proc : pc'[q] = "idle"
  BY <1>0, <1>1 DEF TypeOK
<1>3. Ops' = Ops
  BY <1>0 DEF Ops, TypeOK
<1>4. TypeOK'
  BY <1>0 DEF TypeOK, PC
<1>5. ControlInv'
  BY <1>0, <1>1, <1>2, <1>3 DEF ControlInv, Up, CommitPC, BootPC
<1>6. HeaderInv'
  BY SMTT(40), <1>0, <1>1, <1>2 DEF TypeOK, HeaderInv
<1>7. PinInv'
  <2>1. \A b \in Block : pin[b] # 1 /\ home[b] # Torn
    BY <1>0, <1>1 DEF PinInv
  <2>2. \A b \in Block : pin[b] = 0
    BY <2>1 DEF TypeOK
  <2>3. \A b \in Block : cache[b] # Absent => cache[b] = home[b]
    BY Zenon, <2>2 DEF PinInv
  <2> QED
    BY Zenon, <1>0, <1>1, <2>1, <2>2, <2>3, NothingPinned
<1>8. LoopInv'
  BY Zenon, <1>2 DEF LoopInv, LoopAt
<1> QED
  BY <1>4, <1>5, <1>6, <1>7, <1>8

\* The buffer cache evicting or reading a block.
LEMMA BufferIInv ==
  ASSUME IInv, NEW b \in Block, recycle(b) \/ bread(b) PROVE IInv'
<1> USE LogAssumption DEF IInv
<1>0. UNCHANGED <<home, dlog, hdr, pin, lh, outstanding, committing, pc, tail, used>>
  BY DEF recycle, bread, disk
<1>1. /\ pin[b] = 0
      /\ cache' = [cache EXCEPT ![b] = Absent] \/ cache' = [cache EXCEPT ![b] = home[b]]
  BY DEF recycle, bread, PinInv, TypeOK
<1>2. Ops' = Ops
  BY <1>0 DEF Ops
<1>3. TypeOK'
  BY ZenonT(40), <1>0, <1>1 DEF TypeOK
<1>4. ControlInv'
  BY <1>0, <1>2 DEF ControlInv, Up
<1>5. HeaderInv'
  BY <1>0 DEF HeaderInv, Up
<1>6. \A c \in Block : c # b => cache'[c] = cache[c]
  BY <1>1 DEF TypeOK
<1>7. PinInv'
  <2>1. \A c \in Block : pin[c] = 0 /\ cache'[c] # Absent => cache'[c] = home[c]
    <3>1. cache'[b] = Absent \/ cache'[b] = home[b]
      BY <1>1 DEF TypeOK
    <3> QED
      BY Zenon, <1>6, <3>1 DEF PinInv
  <2>2. \A c \in Block : pin[c] = 1 => Up /\ cache'[c] \in Data /\ c \in Entries(lh)
    <3>1. pin[b] # 1
      BY <1>1
    <3> QED
      BY Zenon, <1>6, <3>1 DEF PinInv
  <2>3. Up' = Up /\ Entries(lh)' = Entries(lh) /\ Entries(hdr)' = Entries(hdr)
    BY <1>0 DEF Up, Entries
  <2>4. \A i : Installed(i)' = Installed(i)
    BY <1>0 DEF Installed
  <2> HIDE DEF Installed
  <2> QED
    BY Zenon, <1>0, <2>1, <2>2, <2>3, <2>4 DEF PinInv
<1>8. LoopInv'
  <2>1. \A i \in DOMAIN lh : Up /\ ~Installed(i) => lh[i] # b
    <3>1. \A i \in DOMAIN lh : Up /\ ~Installed(i) => pin[lh[i]] = 1
      BY Zenon DEF PinInv
    <3> QED
      BY <1>1, <3>1
  <2>2. \A p \in Proc : pc[p] \in {"write_log", "write_head"} =>
          Up /\ \A i : ~Installed(i)
    BY Zenon DEF ControlInv, CommitPC, Up, Installed, BootPC
  <2>3. \A p \in Proc : pc[p] = "install" =>
          Up /\ \A i \in DOMAIN lh : i > tail[p] => ~Installed(i)
    <3>1. \A p \in Proc : pc[p] = "install" => Up /\ tail[p] \in Nat
      BY DEF ControlInv, CommitPC, Up, BootPC, TypeOK
    <3>2. \A p, q \in Proc : pc[p] = "install" /\ pc[q] = "install" => p = q
      BY DEF ControlInv, CommitPC
    <3>3. DOMAIN lh = 1..Len(lh) /\ Len(lh) \in Nat
      BY DEF TypeOK
    <3> QED
      BY <3>1, <3>2, <3>3 DEF Installed
  <2>4. \A i \in DOMAIN lh : Up /\ ~Installed(i) => cache'[lh[i]] = cache[lh[i]]
    <3>1. \A i \in DOMAIN lh : lh[i] \in Block
      BY DEF TypeOK
    <3> HIDE DEF Installed, IInv
    <3> QED
      BY Zenon, <1>6, <2>1, <3>1
  <2> HIDE DEF Installed
  <2>5. ASSUME NEW p \in Proc PROVE LoopAt(p)'
    BY Zenon, <1>0, <2>2, <2>3, <2>4 DEF LoopInv, LoopAt
  <2> QED
    BY Zenon, <2>5 DEF LoopInv
<1> QED
  BY <1>3, <1>4, <1>5, <1>7, <1>8

\* A crash, in the middle of a block write or not, keeps it.
LEMMA CrashIInv == ASSUME IInv, crash PROVE IInv'
<1> USE LogAssumption DEF IInv
<1>0. /\ hdr' = hdr
      /\ cache' = [b \in Block |-> Absent]
      /\ pin' = [b \in Block |-> 0]
      /\ lh' = <<>>
      /\ outstanding' = 0
      /\ committing' = FALSE
      /\ pc' = [p \in Proc |-> IF p = initproc THEN "read_head" ELSE "idle"]
      /\ tail' = [p \in Proc |-> 0]
      /\ used' = [p \in Proc |-> {}]
  BY DEF crash
<1>1. PICK T \in SUBSET WritingLog :
        dlog' = [i \in 1..LOGSIZE |-> IF i \in T THEN Torn ELSE dlog[i]]
  BY ZenonT(40) DEF crash
<1>2. PICK H \in SUBSET WritingHome :
        home' = [b \in Block |-> IF b \in H THEN Torn ELSE home[b]]
  BY ZenonT(40) DEF crash
<1>3. hdr # <<>> => WritingLog = {}
  BY DEF WritingLog, HeaderInv, ControlInv, CommitPC, BootPC, Up
<1>4. WritingHome \subseteq Entries(hdr)
  <2>1. \A q \in Proc : pc[q] \in {"install", "recover"} /\ tail[q] < Len(lh) =>
          tail[q] + 1 \in DOMAIN hdr /\ lh = hdr
    BY DEF HeaderInv, TypeOK
  <2> QED
    BY <2>1 DEF WritingHome, Entries
<1>5. Ops' = {}
  BY <1>0 DEF Ops
<1>6. TypeOK'
  <2>1. home' \in [Block -> Data \cup {Torn}] /\ dlog' \in [1..LOGSIZE -> Data \cup {Torn}]
    BY <1>1, <1>2 DEF TypeOK
  <2>2. pc' \in [Proc -> PC]
    BY <1>0 DEF PC, BootPC
  <2>3. /\ lh' \in Seq(Block) /\ Len(lh') <= LOGSIZE
        /\ hdr' \in Seq(Block) /\ Len(hdr') <= LOGSIZE
    BY <1>0 DEF TypeOK
  <2>4. /\ cache' \in [Block -> Data \cup {Torn, Absent}]
        /\ pin' \in [Block -> 0..1]
        /\ tail' \in [Proc -> 0..LOGSIZE]
        /\ used' \in [Proc -> SUBSET Block]
        /\ outstanding' \in Nat
    BY <1>0
  <2>5. committing' \in BOOLEAN
    BY ZenonT(40), <1>0
  <2> QED
    BY <2>1, <2>2, <2>3, <2>4, <2>5 DEF TypeOK
<1>7. ControlInv'
  BY <1>0, <1>5, FS_EmptySet DEF ControlInv, Up, CommitPC, BootPC
<1>8. HeaderInv'
  <2>1. \A i \in DOMAIN hdr : dlog'[i] = dlog[i]
    BY <1>1, <1>3 DEF TypeOK
  <2> QED
    BY <1>0, <2>1 DEF HeaderInv, Up, BootPC
<1>9. PinInv'
  <2>1. pc'[initproc] = "read_head" /\ ~Up'
    BY <1>0 DEF Up, BootPC
  <2>2. \A b \in Block : pin'[b] = 0 /\ cache'[b] = Absent
    BY <1>0
  <2>3. \A b \in Block : home'[b] = Torn => b \in H \/ home[b] = Torn
    BY <1>2
  <2>4. \A b \in Block : home'[b] = Torn => b \in Entries(hdr')
    BY Zenon, <1>0, <1>2, <1>4, <2>3 DEF PinInv
  <2> QED
    BY Zenon, <2>1, <2>2, <2>4, NothingPinned
<1>10. LoopInv'
  <2>1. \A p \in Proc : pc'[p] \in {"read_head", "idle"}
    BY <1>0
  <2> QED
    BY Zenon, <2>1 DEF LoopInv, LoopAt
<1> QED
  BY <1>6, <1>7, <1>8, <1>9, <1>10

\* Every step keeps the invariant.
LEMMA NextIInv == IInv /\ [Next]_vars => IInv'
<1> SUFFICES ASSUME IInv, [Next]_vars PROVE IInv'
  OBVIOUS
<1>1. CASE UNCHANGED vars
  <2>1. /\ home' = home /\ dlog' = dlog /\ hdr' = hdr /\ cache' = cache /\ pin' = pin
        /\ lh' = lh /\ outstanding' = outstanding /\ committing' = committing
        /\ pc' = pc /\ tail' = tail /\ used' = used
    BY <1>1 DEF vars, disk, mem
  <2>2. TypeOK'
    BY Zenon, <2>1 DEF IInv, TypeOK
  <2>3. ControlInv'
    BY Zenon, <2>1 DEF IInv, ControlInv, Ops, Up
  <2>4. HeaderInv'
    BY Zenon, <2>1 DEF IInv, HeaderInv, Up
  <2>5. PinInv'
    BY Zenon, <2>1 DEF IInv, PinInv, Up, Installed, Entries
  <2>6. LoopInv'
    BY Zenon, <2>1 DEF IInv, LoopInv, LoopAt
  <2> QED
    BY Zenon, <2>2, <2>3, <2>4, <2>5, <2>6 DEF IInv
<1>2. ASSUME NEW p \in Proc, begin_op(p) PROVE IInv'
  BY <1>2, BeginOpIInv
<1>3. ASSUME NEW p \in Proc, end_op(p) PROVE IInv'
  BY <1>3, EndOpIInv
<1>4. ASSUME NEW p \in Proc, CommitStep(p) PROVE IInv'
  BY ZenonT(40), <1>4, CommitIInv, WriteLogIInv, WriteHeadIInv, InstallIInv, ClearHeadIInv,
     EndCommitIInv DEF CommitStep
<1>5. ASSUME NEW p \in Proc, recover_from_log(p) PROVE IInv'
  BY ZenonT(40), <1>5, ReadHeadIInv, RecoverIInv, RecoverClearIInv DEF recover_from_log
<1>6. ASSUME NEW p \in Proc, NEW b \in Block, NEW d \in Data, log_write(p, b, d)
      PROVE  IInv'
  BY <1>6, LogWriteIInv
<1>7. ASSUME NEW b \in Block, recycle(b) \/ bread(b) PROVE IInv'
  BY <1>7, BufferIInv
<1>8. CASE crash
  BY <1>8, CrashIInv
<1> QED
  BY <1>1, <1>2, <1>3, <1>4, <1>5, <1>6, <1>7, <1>8 DEF Next

\* IInv holds in every state of log.c, crashes and recoveries included.
THEOREM Invariance == Spec => []IInv
  BY InitIInv, NextIInv, PTL DEF Spec

\* The variables of Log always have their types: no list, index or count
\* leaves its range.
THEOREM TypeCorrect == Spec => []TypeOK
<1>1. IInv => TypeOK
  BY DEF IInv
<1> QED
  BY <1>1, Invariance, PTL

\* Recovery never finds a header that names an incomplete log block or a
\* block twice, and every torn home block is one it will overwrite.
THEOREM LogIntact == Spec => []CommittedLogIntact
<1>1. IInv => CommittedLogIntact
  BY DEF IInv, HeaderInv, PinInv, CommittedLogIntact
<1> QED
  BY <1>1, Invariance, PTL

\* A buffer without a pin never holds the only copy of an update.
THEOREM CleanWhenUnpinned == Spec => []UnpinnedIsClean
<1>1. IInv => UnpinnedIsClean
  BY DEF IInv, PinInv, UnpinnedIsClean
<1> QED
  BY <1>1, Invariance, PTL

\* A commit runs alone and with no call in progress.
THEOREM ExclusiveCommit == Spec => []CommitIsExclusive
<1>1. IInv => CommitIsExclusive
  BY DEF IInv, ControlInv, Ops, CommitIsExclusive
<1> QED
  BY <1>1, Invariance, PTL

\* With no call outstanding and no commit running, a crash loses nothing.
THEOREM DurableWhenQuiet == Spec => []QuietIsDurable
<1>1. ASSUME IInv PROVE QuietIsDurable
  <2> SUFFICES ASSUME Up, outstanding = 0, ~committing, NEW b \in Block
               PROVE  Durable(b) = View(b)
    BY DEF QuietIsDurable
  <2>1. hdr = <<>> /\ lh = <<>>
    BY <1>1 DEF IInv, HeaderInv, ControlInv, CommitPC
  <2>2. pin[b] = 0
    BY <1>1, <2>1 DEF IInv, PinInv, TypeOK, Entries
  <2> QED
    BY <1>1, <2>1, <2>2 DEF IInv, PinInv, Durable, View, Bread, Entries
<1> QED
  BY <1>1, Invariance, PTL
=============================================================================
