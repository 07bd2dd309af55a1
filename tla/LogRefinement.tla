--------------------------- MODULE LogRefinement ---------------------------
(***************************************************************************)
(* log.c implements the atomic disk of module AtomicDisk: in a state of    *)
(* IInv, every step of Log is a step of the atomic disk or a stutter.      *)
(*                                                                         *)
(* The second part shows that the log has room for what calls write.  It   *)
(* counts the entries reserved and not yet used (SpaceInv), and needs      *)
(* sizes that leave some to spare (RoomyLog).                              *)
(***************************************************************************)
EXTENDS LogProofs

\* The header names each block once, so the CHOOSE in Durable is determined.
LEMMA DurableEntry ==
  ASSUME IInv, NEW i \in DOMAIN hdr PROVE Durable(hdr[i]) = dlog[i]
BY DEF IInv, HeaderInv, Durable, Entries

\* A block the header does not name is durable at home.
LEMMA DurableHome ==
  ASSUME NEW b, b \notin Entries(hdr) PROVE Durable(b) = home[b]
BY DEF Durable

\* Contents never torn where a reader looks.
LEMMA DurableData ==
  ASSUME IInv, NEW b \in Block PROVE Durable(b) \in Data
<1>1. CASE b \in Entries(hdr)
  <2>1. PICK i \in DOMAIN hdr : b = hdr[i]
    BY <1>1 DEF Entries
  <2> QED
    BY <2>1, DurableEntry DEF IInv, HeaderInv
<1>2. CASE b \notin Entries(hdr)
  BY <1>2, DurableHome DEF IInv, PinInv, TypeOK
<1> QED
  BY <1>1, <1>2

\* Steps that leave the three abstract variables alone.
LEMMA Stutter ==
  ASSUME \A b \in Block : View(b)' = View(b) /\ Durable(b)' = Durable(b),
         \A p \in Proc : pc'[p] \in {"op", "panic"} <=> pc[p] \in {"op", "panic"}
  PROVE  UNCHANGED Atomic!vars
BY DEF Atomic!vars

\* A step that changes neither the disk nor the cache nor Up changes neither
\* what is durable nor what is seen.
LEMMA SameContents ==
  ASSUME UNCHANGED <<home, dlog, hdr, cache>>, Up' = Up
  PROVE  \A b \in Block : View(b)' = View(b) /\ Durable(b)' = Durable(b)
BY DEF View, Durable, Bread, Entries

\* mkfs leaves the disk in an initial state of the atomic disk.
LEMMA InitRefines == Init => Atomic!Init
<1> SUFFICES ASSUME Init PROVE Atomic!Init
  OBVIOUS
<1>1. \A b \in Block : Durable(b) = home[b] /\ View(b) = home[b]
  BY LogAssumption DEF Init, Durable, View, Up, BootPC, Entries
<1>2. {p \in Proc : pc[p] \in {"op", "panic"}} = {}
  BY DEF Init
<1> QED
  BY <1>1, <1>2 DEF Atomic!Init, Init

\* begin_op starts an operation, or sleeps, which the atomic disk does not see.
LEMMA BeginOpRefines ==
  ASSUME IInv, NEW p \in Proc, begin_op(p)
  PROVE  Atomic!Begin(p) \/ UNCHANGED Atomic!vars
<1>0. /\ UNCHANGED <<home, dlog, hdr, cache>> /\ Up
      /\ pc[p] \in {"idle", "begin"}
      /\ \/ pc' = [pc EXCEPT ![p] = "sleep"]
         \/ pc' = [pc EXCEPT ![p] = "op"]
  BY DEF begin_op, disk
<1>1. Up' = Up
  BY <1>0, LogAssumption DEF Up, BootPC, IInv, TypeOK
<1>2. \A b \in Block : View(b)' = View(b) /\ Durable(b)' = Durable(b)
  BY <1>0, <1>1, SameContents
<1>3. CASE pc' = [pc EXCEPT ![p] = "sleep"]
  BY <1>0, <1>2, <1>3, Stutter DEF IInv, TypeOK
<1>4. CASE pc' = [pc EXCEPT ![p] = "op"]
  <2>1. /\ p \notin {q \in Proc : pc[q] \in {"op", "panic"}}
        /\ {q \in Proc : pc'[q] \in {"op", "panic"}}
             = {q \in Proc : pc[q] \in {"op", "panic"}} \cup {p}
    BY <1>0, <1>4 DEF IInv, TypeOK
  <2> QED
    BY <1>2, <2>1 DEF Atomic!Begin
<1> QED
  BY <1>0, <1>3, <1>4

\* log_write, with the change to the buffer before it, is an atomic write.
LEMMA LogWriteRefines ==
  ASSUME IInv, NEW p \in Proc, NEW b \in Block, NEW d \in Data,
         log_write(p, b, d)
  PROVE  Atomic!Write(p, b, d) \/ UNCHANGED Atomic!vars
<1>0. UNCHANGED <<home, dlog, hdr>> /\ pc[p] = "op"
  BY DEF log_write, disk
<1>1. Up
  BY <1>0, LogAssumption DEF IInv, ControlInv, Up, BootPC
<1>2. CASE Len(lh) >= LOGSIZE \/ Len(lh) >= NLOG - 1 \/ outstanding < 1
  <2>1. pc' = [pc EXCEPT ![p] = "panic"] /\ cache' = cache
    BY <1>2 DEF log_write
  <2>2. Up' = Up
    BY <1>0, <1>1, <2>1, LogAssumption DEF Up, BootPC, IInv, TypeOK
  <2> QED
    BY <1>0, <2>1, <2>2, SameContents, Stutter DEF IInv, TypeOK
<1>3. CASE ~(Len(lh) >= LOGSIZE \/ Len(lh) >= NLOG - 1 \/ outstanding < 1)
  <2>1. cache' = [cache EXCEPT ![b] = d] /\ pc' = pc
    BY <1>3 DEF log_write
  <2>2. \A c \in Block : Durable(c)' = Durable(c)
    BY <1>0 DEF Durable, Entries
  <2>3. Up' = Up
    BY <2>1 DEF Up
  <2>4. \A c \in Block : View(c)' = IF c = b THEN d ELSE View(c)
    BY <1>0, <1>1, <2>1, <2>3, LogAssumption DEF View, Bread, IInv, TypeOK
  <2>5. [c \in Block |-> View(c)'] = [[c \in Block |-> View(c)] EXCEPT ![b] = d]
    BY ZenonT(40), <2>4
  <2> QED
    BY <1>0, <2>1, <2>2, <2>5 DEF Atomic!Write
<1> QED
  BY <1>2, <1>3

\* end_op ends an operation; what it wrote is not durable yet.
LEMMA EndOpRefines ==
  ASSUME IInv, NEW p \in Proc, end_op(p)
  PROVE  Atomic!End(p)
<1>0. /\ UNCHANGED <<home, dlog, hdr, cache>>
      /\ pc[p] = "op" /\ ~committing
  BY DEF end_op, disk, IInv, ControlInv, Ops
<1>1. Up
  BY <1>0, LogAssumption DEF IInv, ControlInv, Up, BootPC
<1>2. \/ pc' = [pc EXCEPT ![p] = "commit"]
      \/ pc' = Wakeup([pc EXCEPT ![p] = "idle"])
  BY <1>0 DEF end_op
<1>3. \A q \in Proc : pc'[q] \in {"op", "panic"} <=>
                        q # p /\ pc[q] \in {"op", "panic"}
  BY <1>2 DEF Wakeup, IInv, TypeOK
<1>4. Up' = Up
  BY <1>0, <1>1, <1>2, LogAssumption DEF Up, BootPC, Wakeup, IInv, TypeOK
<1>5. \A b \in Block : View(b)' = View(b) /\ Durable(b)' = Durable(b)
  BY <1>0, <1>4, SameContents
<1> QED
  BY <1>0, <1>3, <1>5 DEF Atomic!End

\* A copy to the log area is not seen: the header names no block yet.
LEMMA WriteLogRefines ==
  ASSUME IInv, NEW p \in Proc, write_log(p)
  PROVE  UNCHANGED Atomic!vars
<1>0. UNCHANGED <<home, hdr, lh>> /\ pc[p] = "write_log"
  BY DEF write_log
<1>1. Up /\ hdr = <<>> /\ \A i : ~Installed(i)
  BY <1>0, LogAssumption
     DEF IInv, ControlInv, HeaderInv, Up, BootPC, CommitPC, Installed
<1>2. \A b \in Block : Durable(b)' = Durable(b)
  BY <1>0, <1>1 DEF Durable, Entries
<1>3. UNCHANGED cache
  <2>1. CASE MoreBlocks(p)
    <3>1. tail[p] + 1 \in DOMAIN lh
      BY <1>0, <2>1 DEF IInv, TypeOK, MoreBlocks
    <3>2. cache[lh[tail[p] + 1]] # Absent
      BY <1>1, <3>1, LogAssumption DEF IInv, PinInv, TypeOK
    <3> QED
      BY <2>1, <3>1, <3>2 DEF write_log, Bread, IInv, TypeOK
  <2>2. CASE ~MoreBlocks(p)
    BY <2>2 DEF write_log
  <2> QED
    BY <2>1, <2>2
<1>4. pc' = pc \/ pc' = [pc EXCEPT ![p] = "write_head"]
  BY DEF write_log
<1>5. Up' = Up
  BY <1>0, <1>1, <1>4, LogAssumption DEF Up, BootPC, IInv, TypeOK
<1>6. \A b \in Block : View(b)' = View(b)
  BY <1>0, <1>1, <1>3, <1>5 DEF View, Bread
<1> QED
  BY <1>0, <1>2, <1>4, <1>6, Stutter DEF IInv, TypeOK

\* The write of the header is the commit: at that point every pinned buffer
\* has its copy in the log and every other block is already home.
LEMMA WriteHeadRefines ==
  ASSUME IInv, NEW p \in Proc, write_head(p, "write_head", "install")
  PROVE  Atomic!Commit
<1>0. /\ UNCHANGED <<home, dlog, cache, lh>>
      /\ pc[p] = "write_head"
      /\ hdr' = lh
      /\ pc' = [pc EXCEPT ![p] = "install"]
  BY DEF write_head, mem
<1>1. Up /\ Ops = {} /\ \A i : ~Installed(i)
  BY <1>0, LogAssumption
     DEF IInv, ControlInv, Up, BootPC, CommitPC, Installed
<1>2. Up' /\ Ops' = {}
  BY <1>0, <1>1, LogAssumption DEF Up, Ops, BootPC, IInv, TypeOK
<1>3. \A b \in Block : View(b)' = View(b)
  BY <1>0, <1>1, <1>2 DEF View, Bread
<1>4. IInv'
  BY WriteHeadIInv
<1>5. ASSUME NEW b \in Block PROVE Durable(b)' = View(b)
  <2>1. CASE b \in Entries(lh)
    <3>1. PICK i \in DOMAIN lh : b = lh[i]
      BY <2>1 DEF Entries
    <3>2. Durable(b)' = dlog[i]
      <4>1. \A j \in DOMAIN hdr' : hdr'[j] = b => j = i
        BY <1>0, <3>1 DEF IInv, HeaderInv
      <4> QED
        BY <1>0, <3>1, <4>1 DEF Durable, Entries
    <3>3. dlog[i] = cache[b]
      BY <1>0, <3>1 DEF IInv, LoopInv, LoopAt
    <3>4. cache[b] # Absent
      BY <1>1, <3>1, LogAssumption DEF IInv, PinInv, TypeOK
    <3> QED
      BY <1>1, <3>2, <3>3, <3>4 DEF View, Bread
  <2>2. CASE b \notin Entries(lh)
    <3>1. pin[b] = 0
      BY <2>2 DEF IInv, PinInv, TypeOK
    <3>2. Durable(b)' = home[b]
      BY <1>0, <2>2 DEF Durable, Entries
    <3> QED
      BY <1>1, <3>1, <3>2 DEF View, Bread, IInv, PinInv
  <2> QED
    BY <2>1, <2>2
<1> QED
  BY <1>1, <1>2, <1>3, <1>5 DEF Atomic!Commit, Ops

\* Installing an entry, in a commit or in recovery, changes only a home block
\* that the log overrides.
LEMMA InstallRefines ==
  ASSUME IInv, NEW p \in Proc,
         \/ install_trans(p, "install", FALSE, "clear_head")
         \/ install_trans(p, "recover", TRUE, "recover_clear")
  PROVE  UNCHANGED Atomic!vars
<1>0. /\ UNCHANGED <<dlog, hdr>>
      /\ pc[p] \in {"install", "recover"}
      /\ hdr = lh
      /\ pc' = pc \/ pc' = [pc EXCEPT ![p] = IF pc[p] = "install" THEN "clear_head"
                                             ELSE "recover_clear"]
  BY DEF install_trans, IInv, HeaderInv
<1>1. /\ pc[p] = "install" => Up
      /\ pc[p] = "recover" => ~Up
      /\ Up' = Up
  BY <1>0, LogAssumption DEF IInv, ControlInv, Up, BootPC, CommitPC, TypeOK
<1>2. CASE ~MoreBlocks(p)
  <2>1. UNCHANGED <<home, cache>>
    BY <1>2 DEF install_trans
  <2> QED
    BY <1>0, <1>1, <2>1, SameContents, Stutter DEF IInv, TypeOK
<1>3. CASE MoreBlocks(p)
  <2> DEFINE t == tail[p] + 1
             b == lh[t]
  <2>1. t \in DOMAIN hdr /\ b \in Block /\ b \in Entries(hdr)
    BY <1>0, <1>3 DEF MoreBlocks, Entries, IInv, TypeOK
  <2>2. /\ home' = [home EXCEPT ![b] = dlog[t]]
        /\ cache' = [cache EXCEPT ![b] = dlog[t]]
        /\ UNCHANGED pc
    BY <1>3 DEF install_trans
  <2>3. \A c \in Block : Durable(c)' = Durable(c)
    BY <1>0, <2>1, <2>2 DEF Durable, Entries, IInv, TypeOK
  <2>4. \A c \in Block : View(c)' = View(c)
    <3>1. CASE pc[p] = "recover"
      BY <1>1, <2>3, <3>1 DEF View
    <3>2. CASE pc[p] = "install"
      <4>1. dlog[t] = cache[b] /\ cache[b] # Absent
        <5>1. dlog[t] \in Data
          BY <2>1 DEF IInv, HeaderInv
        <5>2. t > tail[p]
          BY DEF IInv, TypeOK
        <5> QED
          BY <1>0, <2>1, <3>2, <5>1, <5>2, LogAssumption DEF IInv, LoopInv, LoopAt
      <4>2. cache' = cache
        BY <2>1, <2>2, <4>1 DEF IInv, TypeOK
      <4>3. \A c \in Block : Bread(c)' = Bread(c)
        BY <2>1, <2>2, <4>1, <4>2 DEF Bread, IInv, TypeOK
      <4> QED
        BY <1>1, <3>2, <4>3 DEF View
    <3> QED
      BY <1>0, <3>1, <3>2
  <2> QED
    BY <2>2, <2>3, <2>4, Stutter
<1> QED
  BY <1>2, <1>3

\* Emptying the header is safe: everything it named is home.
LEMMA ClearRefines ==
  ASSUME IInv, NEW p \in Proc,
         \/ write_head(p, "clear_head", "end")
         \/ write_head(p, "recover_clear", "idle")
  PROVE  UNCHANGED Atomic!vars
<1>0. /\ UNCHANGED <<home, dlog, cache>>
      /\ pc[p] \in {"clear_head", "recover_clear"}
      /\ hdr' = <<>>
      /\ pc' = [pc EXCEPT ![p] = IF pc[p] = "clear_head" THEN "end" ELSE "idle"]
  BY DEF write_head, mem, IInv, HeaderInv
<1>1. \A b \in Block : Durable(b) = home[b]
  BY <1>0, DurableEntry, DurableHome DEF IInv, LoopInv, LoopAt, Entries
<1>2. \A b \in Block : Durable(b)' = home[b]
  BY <1>0 DEF Durable, Entries
<1>3. \A b \in Block : View(b)' = View(b)
  <2>1. CASE pc[p] = "clear_head"
    <3>1. Up /\ Up'
      BY <1>0, <2>1, LogAssumption DEF IInv, ControlInv, Up, BootPC, CommitPC, TypeOK
    <3> QED
      BY <1>0, <3>1 DEF View, Bread
  <2>2. CASE pc[p] = "recover_clear"
    <3>1. ~Up /\ Up'
      BY <1>0, <2>2, LogAssumption DEF IInv, ControlInv, Up, BootPC, TypeOK
    <3>2. \A b \in Block : Bread(b)' = home[b]
      BY <1>0, <3>1 DEF Bread, IInv, PinInv, TypeOK
    <3> QED
      BY <1>1, <3>1, <3>2 DEF View
  <2> QED
    BY <1>0, <2>1, <2>2
<1> QED
  BY <1>0, <1>1, <1>2, <1>3, Stutter DEF IInv, TypeOK

\* The steps that only move a process on.
LEMMA ControlRefines ==
  ASSUME IInv, NEW p \in Proc, commit(p) \/ end_commit(p) \/ read_head(p)
  PROVE  UNCHANGED Atomic!vars
<1>0. /\ UNCHANGED <<home, dlog, hdr, cache>>
      /\ pc[p] \in {"commit", "end", "read_head"}
  BY DEF commit, end_commit, read_head, disk, mem
<1>1. \A q \in Proc : pc'[q] \in {"op", "panic"} <=> pc[q] \in {"op", "panic"}
  BY <1>0 DEF commit, end_commit, read_head, Wakeup, IInv, TypeOK
<1>2. Up' = Up
  <2>1. CASE commit(p)
    BY <2>1, LogAssumption DEF commit, Up, BootPC, IInv, TypeOK
  <2>2. CASE end_commit(p)
    BY <2>2, LogAssumption DEF end_commit, Wakeup, Up, BootPC, IInv, TypeOK
  <2>3. CASE read_head(p)
    BY <2>3, LogAssumption DEF read_head, Up, BootPC, IInv, TypeOK
  <2> QED
    BY <2>1, <2>2, <2>3
<1> QED
  BY <1>0, <1>1, <1>2, SameContents, Stutter

\* Filling or recycling a buffer changes nothing a reader sees.
LEMMA BufferRefines ==
  ASSUME IInv, NEW b \in Block, recycle(b) \/ bread(b)
  PROVE  UNCHANGED Atomic!vars
<1>0. UNCHANGED <<home, dlog, hdr, pc>>
  BY DEF recycle, bread, disk
<1>1. pin[b] = 0
  BY LogAssumption DEF recycle, bread, IInv, PinInv, TypeOK
<1>2. cache' = [cache EXCEPT ![b] = Absent] \/ cache' = [cache EXCEPT ![b] = home[b]]
  BY DEF recycle, bread
<1>3. \A c \in Block : Bread(c)' = Bread(c)
  <2>1. \A c \in Block : c # b => cache'[c] = cache[c]
    BY <1>2 DEF IInv, TypeOK
  <2>2. Bread(b) = home[b]
    BY <1>1 DEF Bread, IInv, PinInv
  <2>3. cache'[b] = Absent \/ cache'[b] = home[b]
    BY <1>2 DEF IInv, TypeOK
  <2> QED
    BY <1>0, <2>1, <2>2, <2>3 DEF Bread
<1>4. \A c \in Block : Durable(c)' = Durable(c) /\ View(c)' = View(c)
  BY <1>0, <1>3 DEF Durable, View, Up, Entries
<1> QED
  BY <1>0, <1>4, Stutter

\* After a crash, also one that tears a write, what is seen is what was durable.
LEMMA CrashRefines == ASSUME IInv, crash PROVE Atomic!Crash
<1>0. /\ hdr' = hdr
      /\ pc' = [p \in Proc |-> IF p = initproc THEN "read_head" ELSE "idle"]
  BY DEF crash
<1>1. PICK T \in SUBSET WritingLog :
        dlog' = [i \in 1..LOGSIZE |-> IF i \in T THEN Torn ELSE dlog[i]]
  BY ZenonT(40) DEF crash
<1>2. PICK H \in SUBSET WritingHome :
        home' = [b \in Block |-> IF b \in H THEN Torn ELSE home[b]]
  BY ZenonT(40) DEF crash
<1>3. hdr # <<>> => WritingLog = {}
  BY LogAssumption
     DEF WritingLog, IInv, HeaderInv, ControlInv, CommitPC, BootPC, Up
<1>4. WritingHome \subseteq Entries(hdr)
  <2>1. \A q \in Proc : pc[q] \in {"install", "recover"} /\ tail[q] < Len(lh) =>
          tail[q] + 1 \in DOMAIN hdr /\ lh = hdr
    BY DEF IInv, HeaderInv, TypeOK
  <2> QED
    BY <2>1 DEF WritingHome, Entries
<1>5. \A b \in Block : Durable(b)' = Durable(b)
  <2>1. \A i \in DOMAIN hdr : dlog'[i] = dlog[i]
    BY <1>1, <1>3, LogAssumption DEF IInv, TypeOK
  <2>2. \A b \in Block : b \notin Entries(hdr) => home'[b] = home[b]
    BY <1>2, <1>4
  <2>3. ASSUME NEW b \in Block PROVE Durable(b)' = Durable(b)
    <3>1. CASE b \in Entries(hdr)
      <4>1. (CHOOSE i \in DOMAIN hdr : hdr[i] = b) \in DOMAIN hdr
        BY <3>1 DEF Entries
      <4> QED
        BY <1>0, <2>1, <3>1, <4>1 DEF Durable, Entries
    <3>2. CASE b \notin Entries(hdr)
      BY <1>0, <2>2, <3>2 DEF Durable, Entries
    <3> QED
      BY <3>1, <3>2
  <2> QED
    BY <2>3
<1>6. ~Up'
  BY <1>0, LogAssumption DEF Up, BootPC
<1>7. \A b \in Block : View(b)' = Durable(b)
  BY <1>5, <1>6 DEF View
<1>8. {p \in Proc : pc'[p] \in {"op", "panic"}} = {}
  BY <1>0
<1> QED
  BY <1>5, <1>7, <1>8 DEF Atomic!Crash

\* Every step of Log is a step of the atomic disk or leaves it unchanged.
LEMMA NextRefines == IInv /\ [Next]_vars => [Atomic!Next]_(Atomic!vars)
<1> SUFFICES ASSUME IInv, [Next]_vars PROVE Atomic!Next \/ UNCHANGED Atomic!vars
  OBVIOUS
<1>1. CASE UNCHANGED vars
  <2>1. UNCHANGED <<home, dlog, hdr, cache, pc>>
    BY <1>1 DEF vars, disk, mem
  <2>2. Up' = Up
    BY <2>1 DEF Up
  <2> QED
    BY <2>1, <2>2, SameContents, Stutter
<1>2. ASSUME NEW p \in Proc, begin_op(p) PROVE Atomic!Next \/ UNCHANGED Atomic!vars
  BY <1>2, BeginOpRefines DEF Atomic!Next
<1>3. ASSUME NEW p \in Proc, end_op(p) PROVE Atomic!Next
  BY <1>3, EndOpRefines DEF Atomic!Next
<1>4. ASSUME NEW p \in Proc, CommitStep(p) PROVE Atomic!Next \/ UNCHANGED Atomic!vars
  BY ZenonT(40), <1>4, ControlRefines, WriteLogRefines, WriteHeadRefines, InstallRefines,
     ClearRefines DEF CommitStep, Atomic!Next
<1>5. ASSUME NEW p \in Proc, recover_from_log(p) PROVE UNCHANGED Atomic!vars
  BY ZenonT(40), <1>5, ControlRefines, InstallRefines, ClearRefines DEF recover_from_log
<1>6. ASSUME NEW p \in Proc, NEW b \in Block, NEW d \in Data, log_write(p, b, d)
      PROVE  Atomic!Next \/ UNCHANGED Atomic!vars
  BY <1>6, LogWriteRefines DEF Atomic!Next
<1>7. ASSUME NEW b \in Block, recycle(b) \/ bread(b) PROVE UNCHANGED Atomic!vars
  BY <1>7, BufferRefines
<1>8. CASE crash
  BY <1>8, CrashRefines DEF Atomic!Next
<1> QED
  BY <1>1, <1>2, <1>3, <1>4, <1>5, <1>6, <1>7, <1>8 DEF Next

\* Crash atomicity of kernel/log.c: for every number of processes, blocks,
\* contents and log size, whatever crash comes when, the log behaves as a disk
\* on which whole groups of finished system calls become durable at once.
THEOREM LogIsCrashAtomic == Spec => CrashAtomic
<1>1. Spec => Atomic!Init
  BY InitRefines DEF Spec
<1> QED
  BY <1>1, Invariance, NextRefines, PTL DEF Spec, CrashAtomic, Atomic!Spec
-----------------------------------------------------------------------------
(* Room in the log *)

\* The parameters leave a call's reservation larger than what it logs, and
\* the log larger than a reservation.  It is so in param.h and mkfs.c (10, 30
\* and 30) for calls that log at most nine distinct blocks: log_write tests
\* for a full log before it looks for b among the entries.
RoomyLog == /\ OpBlocks < MAXOPBLOCKS
            /\ MAXOPBLOCKS < LOGSIZE
            /\ LOGSIZE <= NLOG

\* The entries that the calls in progress may still add, numbered per call.
Reserved == {x \in Proc \X (1..OpBlocks) :
               pc[x[1]] \in {"op", "panic"} /\ x[2] > Cardinality(used[x[1]])}

\* While calls are in progress the entries in use and those that may come
\* leave two to spare; what a call has logged is in the transaction.
SpaceInv ==
  /\ NoLogPanic
  /\ \A p \in Ops : IsFiniteSet(used[p]) /\ used[p] \subseteq Entries(lh)
  /\ Ops # {} => Len(lh) + Cardinality(Reserved) <= LOGSIZE - 2

\* Reserved is finite, and bounded by what the calls may log in all.
LEMMA ReservedBound ==
  /\ IsFiniteSet(Reserved)
  /\ Cardinality(Reserved) \in Nat
  /\ Cardinality(Reserved) <= Cardinality(Ops) * OpBlocks
  /\ Cardinality(Reserved)' \in Nat
  /\ Cardinality(Reserved)' <= Cardinality(Ops)' * OpBlocks
<1> USE LogAssumption
<1>1. IsFiniteSet(1..OpBlocks) /\ Cardinality(1..OpBlocks) = OpBlocks
  BY FS_Interval
<1>2. ASSUME NEW S, IsFiniteSet(S), NEW R, R \subseteq S \X (1..OpBlocks)
      PROVE  /\ IsFiniteSet(R) /\ Cardinality(R) \in Nat
             /\ Cardinality(R) <= Cardinality(S) * OpBlocks
  <2>1. /\ IsFiniteSet(S \X (1..OpBlocks))
        /\ Cardinality(S \X (1..OpBlocks)) = Cardinality(S) * OpBlocks
    BY Zenon, <1>1, <1>2, FS_Product
  <2>2. IsFiniteSet(R) /\ Cardinality(R) <= Cardinality(S \X (1..OpBlocks))
    BY Zenon, <1>2, <2>1, FS_Subset
  <2> QED
    BY Zenon, <2>1, <2>2, FS_CardinalityType
<1>3. Reserved \subseteq Ops \X (1..OpBlocks) /\ Reserved' \subseteq Ops' \X (1..OpBlocks)
  BY DEF Reserved, Ops
<1> QED
  BY Zenon, <1>2, <1>3, OpsFinite

\* The reservation of n calls exceeds what they log by n at least.
LEMMA Spare ==
  ASSUME NEW n \in Nat, NEW x \in Nat, NEW m \in Nat, x < m
  PROVE  n * x <= n * m - n
<1>1. n * x + n = n * (x + 1)
  OBVIOUS
<1>2. \E k \in Nat : m = (x + 1) + k
  <2> WITNESS m - (x + 1) \in Nat
  <2> QED OBVIOUS
<1>3. PICK k \in Nat : m = (x + 1) + k
  BY <1>2
<1>4. n * m = n * (x + 1) + n * k
  BY <1>3
<1>5. n * k \in Nat /\ n * x \in Nat /\ n * m \in Nat /\ n * (x + 1) \in Nat
  OBVIOUS
<1> QED
  BY <1>1, <1>4, <1>5

\* A reservation that fits leaves two entries to spare when two calls share it.
LEMMA TwoToSpare ==
  ASSUME NEW n \in Nat, NEW x \in Nat, NEW m \in Nat, NEW l \in Nat,
         NEW r \in Nat, NEW s \in Nat,
         x < m, n >= 2, r <= n * x, l + n * m <= s
  PROVE  l + r <= s - 2
<1>1. n * x \in Nat /\ n * m \in Nat
  OBVIOUS
<1>2. n * x <= n * m - n
  BY Spare
<1>3. ASSUME NEW u \in Nat, NEW v \in Nat, u <= v - n, r <= u, l + v <= s
      PROVE  l + r <= s - 2
  BY <1>3
<1> QED
  BY <1>1, <1>2, <1>3, Zenon

\* A set loses one element.
LEMMA OneLess ==
  ASSUME NEW S, IsFiniteSet(S), NEW x \in S
  PROVE  Cardinality(S \ {x}) = Cardinality(S) - 1
  BY FS_RemoveElement

\* Mount and boot start with an empty log.
LEMMA InitSpace == Init => SpaceInv
  BY DEF Init, SpaceInv, NoLogPanic, Ops

\* A step that neither begins, continues nor ends a call, and changes the
\* entries at most when there is none.
LEMMA QuietSpace ==
  ASSUME SpaceInv, Ops' = Ops, used' = used,
         Ops # {} => lh' = lh,
         \A p \in Proc : pc'[p] # "panic"
  PROVE  SpaceInv'
<1>1. Reserved' = Reserved
  BY DEF Reserved, Ops
<1> QED
  BY <1>1 DEF SpaceInv, NoLogPanic, Entries

\* begin_op reserves MAXOPBLOCKS entries for every call.
LEMMA BeginOpSpace ==
  ASSUME RoomyLog, IInv, IInv', SpaceInv, NEW p \in Proc, begin_op(p)
  PROVE  SpaceInv'
<1> USE LogAssumption
<1>0. /\ Up /\ pc[p] \in {"idle", "begin"} /\ pc \in [Proc -> PC]
      /\ lh' = lh /\ committing' = committing
      /\ used \in [Proc -> SUBSET Block]
  BY DEF begin_op, IInv, TypeOK
<1>1. CASE committing \/ LogFull
  <2>1. pc' = [pc EXCEPT ![p] = "sleep"] /\ used' = used
    BY <1>1 DEF begin_op
  <2>2. Ops' = Ops
    BY <1>0, <2>1 DEF Ops
  <2>3. \A q \in Proc : pc'[q] # "panic"
    BY <1>0, <2>1 DEF SpaceInv, NoLogPanic
  <2> QED
    BY <1>0, <2>1, <2>2, <2>3, QuietSpace
<1>2. CASE ~(committing \/ LogFull)
  <2>1. /\ pc' = [pc EXCEPT ![p] = "op"]
        /\ outstanding' = outstanding + 1
        /\ used' = [used EXCEPT ![p] = {}]
        /\ ~committing /\ ~LogFull
    BY <1>2 DEF begin_op
  <2>2. /\ outstanding \in Nat /\ Len(lh) \in Nat
        /\ outstanding' = Cardinality(Ops)'
        /\ outstanding = 0 => lh = <<>>
    <3>1. lh \in Seq(Block) /\ outstanding \in Nat
      BY Zenon DEF IInv, TypeOK
    <3>2. Len(lh) \in Nat
      BY <3>1
    <3>3. outstanding' = Cardinality(Ops)'
      BY Zenon DEF IInv, ControlInv
    <3>4. outstanding = 0 => lh = <<>>
      BY Zenon, <1>0, <2>1 DEF IInv, HeaderInv
    <3> QED
      BY Zenon, <3>1, <3>2, <3>3, <3>4
  <2>3. /\ Cardinality(Reserved)' \in Nat
        /\ Cardinality(Reserved)' <= outstanding' * OpBlocks
    BY <2>2, ReservedBound
  <2>5. Len(lh) + outstanding' * MAXOPBLOCKS <= LOGSIZE
    BY <2>1, <2>2 DEF LogFull
  <2>6. Len(lh') + Cardinality(Reserved)' <= LOGSIZE - 2
    <3>1. CASE outstanding = 0
      <4>1. Len(lh) = 0 /\ outstanding' = 1
        BY <2>1, <2>2, <3>1
      <4>2. Cardinality(Reserved)' <= OpBlocks
        BY <2>3, <4>1
      <4> QED
        BY <1>0, <2>3, <4>1, <4>2 DEF RoomyLog
    <3>2. CASE outstanding # 0
      <4>1. outstanding' >= 2 /\ outstanding' \in Nat
        BY <2>1, <2>2, <3>2
      <4>2. Len(lh) + Cardinality(Reserved)' <= LOGSIZE - 2
        BY Zenon, <2>2, <2>3, <2>5, <4>1, TwoToSpare DEF RoomyLog
      <4> QED
        BY <1>0, <4>2
    <3> QED
      BY <3>1, <3>2
  <2>7. \A q \in Proc : pc'[q] # "panic"
    BY <1>0, <2>1 DEF SpaceInv, NoLogPanic
  <2>8. \A q \in Ops' : IsFiniteSet(used'[q]) /\ used'[q] \subseteq Entries(lh')
    <3>1. used'[p] = {}
      BY <1>0, <2>1
    <3>2. ASSUME NEW q \in Ops', q # p PROVE q \in Ops /\ used'[q] = used[q]
      BY <1>0, <2>1, <3>2 DEF Ops
    <3> QED
      BY Zenon, <1>0, <3>1, <3>2, FS_EmptySet DEF SpaceInv
  <2> QED
    BY Zenon, <2>6, <2>7, <2>8 DEF SpaceInv, NoLogPanic
<1> QED
  BY <1>1, <1>2

\* log_write finds room, and uses up one of its call's entries when it adds one.
LEMMA LogWriteSpace ==
  ASSUME RoomyLog, IInv, SpaceInv,
         NEW p \in Proc, NEW b \in Block, NEW d \in Data, log_write(p, b, d)
  PROVE  SpaceInv'
<1> USE LogAssumption
<1>0. /\ pc[p] = "op" /\ p \in Ops
      /\ Cardinality(used[p] \cup {b}) <= OpBlocks
      /\ lh \in Seq(Block) /\ Len(lh) \in Nat /\ outstanding \in Nat
      /\ outstanding = Cardinality(Ops)
      /\ used \in [Proc -> SUBSET Block]
  BY DEF log_write, IInv, TypeOK, ControlInv, Ops
<1>1. IsFiniteSet(Reserved) /\ Cardinality(Reserved) \in Nat
  BY <1>0, ReservedBound
<1>2. Len(lh) + Cardinality(Reserved) <= LOGSIZE - 2
  BY <1>0 DEF SpaceInv
<1>3. outstanding >= 1
  BY <1>0, OpsFinite, FS_EmptySet
<1>4. ~(Len(lh) >= LOGSIZE \/ Len(lh) >= NLOG - 1 \/ outstanding < 1)
  BY <1>0, <1>1, <1>2, <1>3 DEF RoomyLog
<1>5. /\ pc' = pc
      /\ used' = [used EXCEPT ![p] = @ \cup {b}]
      /\ Absorbed(b) => lh' = lh
      /\ ~Absorbed(b) => lh' = Append(lh, b)
  BY <1>4 DEF log_write
<1>6. Ops' = Ops
  BY <1>5 DEF Ops
<1>7. /\ Len(lh') \in Nat /\ Len(lh') <= Len(lh) + 1
      /\ Entries(lh) \cup {b} \subseteq Entries(lh')
  <2>1. CASE Absorbed(b)
    BY <1>0, <1>5, <2>1 DEF Absorbed
  <2>2. CASE ~Absorbed(b)
    <3>1. lh' = Append(lh, b)
      BY <1>5, <2>2
    <3>2. /\ Len(lh') = Len(lh) + 1
          /\ DOMAIN lh = 1..Len(lh) /\ DOMAIN lh' = 1..(Len(lh) + 1)
          /\ \A i \in 1..Len(lh) : lh'[i] = lh[i]
          /\ lh'[Len(lh) + 1] = b
      BY <1>0, <3>1
    <3>3. Entries(lh) \subseteq Entries(lh')
      BY <1>0, <3>2 DEF Entries
    <3>4. b \in Entries(lh')
      BY <1>0, <3>2 DEF Entries
    <3> QED
      BY <1>0, <3>2, <3>3, <3>4
  <2> QED
    BY <2>1, <2>2
<1>8. /\ used'[p] = used[p] \cup {b}
      /\ \A q \in Proc : q # p => used'[q] = used[q]
  BY <1>0, <1>5
<1>9. \A q \in Ops' : IsFiniteSet(used'[q]) /\ used'[q] \subseteq Entries(lh')
  <2>1. IsFiniteSet(used'[p]) /\ used'[p] \subseteq Entries(lh')
    <3>1. IsFiniteSet(used[p]) /\ used[p] \subseteq Entries(lh)
      BY <1>0 DEF SpaceInv
    <3>2. IsFiniteSet(used[p] \cup {b})
      BY <3>1, FS_AddElement
    <3> QED
      BY <1>7, <1>8, <3>1, <3>2
  <2>2. ASSUME NEW q \in Ops, q # p
        PROVE  IsFiniteSet(used'[q]) /\ used'[q] \subseteq Entries(lh')
    <3>1. used'[q] = used[q]
      BY <1>8, <2>2 DEF Ops
    <3> QED
      BY <1>7, <3>1 DEF SpaceInv
  <2> QED
    BY <1>6, <2>1, <2>2
<1>10. Len(lh') + Cardinality(Reserved)' <= LOGSIZE - 2
  <2>1. CASE b \in used[p]
    <3>1. used' = used
      BY <1>0, <1>5, <2>1
    <3>2. lh' = lh
      BY <1>0, <1>5, <2>1 DEF SpaceInv, Absorbed
    <3>3. Reserved' = Reserved
      BY Zenon, <1>5, <3>1 DEF Reserved
    <3> QED
      BY <1>2, <3>2, <3>3
  <2>2. CASE b \notin used[p]
    <3> DEFINE k == Cardinality(used[p])
    <3>1. k \in Nat /\ Cardinality(used'[p]) = k + 1
      BY <1>0, <1>8, <2>2, FS_AddElement, FS_CardinalityType DEF SpaceInv
    <3>2. k + 1 \in 1..OpBlocks
      BY <1>0, <1>8, <3>1
    <3>3. <<p, k + 1>> \in Reserved
      BY <1>0, <3>1, <3>2 DEF Reserved
    <3>4. Reserved' = Reserved \ {<<p, k + 1>>}
      <4>1. ASSUME NEW q \in Proc, NEW i \in 1..OpBlocks
            PROVE  <<q, i>> \in Reserved' <=>
                     <<q, i>> \in Reserved /\ <<q, i>> # <<p, k + 1>>
        <5>1. CASE q # p
          BY <1>5, <1>8, <5>1 DEF Reserved
        <5>2. CASE q = p
          <6>1. i > k + 1 <=> i > k /\ i # k + 1
            BY <3>1
          <6> QED
            BY Zenon, <1>5, <3>1, <5>2, <6>1 DEF Reserved
        <5> QED
          BY <5>1, <5>2
      <4>2. Reserved \subseteq Proc \X (1..OpBlocks) /\ Reserved' \subseteq Proc \X (1..OpBlocks)
        BY DEF Reserved
      <4> HIDE DEF k
      <4> QED
        BY <4>1, <4>2
    <3>5. Cardinality(Reserved)' = Cardinality(Reserved) - 1
      <4> HIDE DEF k
      <4>1. Cardinality(Reserved \ {<<p, k + 1>>}) = Cardinality(Reserved) - 1
        BY Zenon, <1>1, <3>3, OneLess
      <4> QED
        BY <3>4, <4>1
    <3> QED
      BY <1>1, <1>2, <1>7, <3>5
  <2> QED
    BY <2>1, <2>2
<1> QED
  BY Zenon, <1>5, <1>9, <1>10 DEF SpaceInv, NoLogPanic

\* end_op gives back what its call has not used.
LEMMA EndOpSpace ==
  ASSUME IInv, SpaceInv, NEW p \in Proc, end_op(p)
  PROVE  SpaceInv'
<1> USE LogAssumption
<1>0. /\ pc[p] = "op" /\ p \in Ops /\ pc \in [Proc -> PC]
      /\ lh' = lh /\ used' = used /\ Len(lh) \in Nat
      /\ outstanding = Cardinality(Ops)
      /\ ~committing
  BY DEF end_op, IInv, TypeOK, ControlInv, Ops
<1>1. IsFiniteSet(Reserved) /\ Cardinality(Reserved) \in Nat
  BY <1>0, ReservedBound
<1>2. \A q \in Proc : /\ pc'[q] # "panic"
                      /\ pc'[q] = "op" => q # p /\ pc[q] = "op"
  BY Zenon, <1>0 DEF end_op, Wakeup, SpaceInv, NoLogPanic
<1>3. Ops' \subseteq Ops /\ Reserved' \subseteq Reserved
  BY <1>0, <1>2 DEF Ops, Reserved
<1>4. Cardinality(Reserved)' \in Nat /\ Cardinality(Reserved)' <= Cardinality(Reserved)
  BY <1>1, <1>3, FS_Subset, FS_CardinalityType
<1>5. Ops' # {} => Len(lh') + Cardinality(Reserved)' <= LOGSIZE - 2
  BY <1>0, <1>1, <1>3, <1>4 DEF SpaceInv
<1> QED
  BY <1>0, <1>2, <1>3, <1>5 DEF SpaceInv, NoLogPanic

\* Commit and recovery run while no call is in progress.
LEMMA CommitSpace ==
  ASSUME IInv, SpaceInv, NEW p \in Proc, CommitStep(p) \/ recover_from_log(p)
  PROVE  SpaceInv'
<1>0. pc \in [Proc -> PC]
  BY DEF IInv, TypeOK
<1>1. pc[p] \in CommitPC \cup BootPC /\ used' = used
  BY Zenon DEF CommitStep, recover_from_log, commit, write_log, write_head, install_trans,
         end_commit, read_head, CommitPC, BootPC, mem
<1>2. Ops = {}
  <2>1. CASE pc[p] \in CommitPC
    BY <2>1 DEF IInv, ControlInv
  <2>2. CASE pc[p] \in BootPC
    BY <1>0, <2>2 DEF IInv, ControlInv, Up, Ops, BootPC
  <2> QED
    BY <1>1, <2>1, <2>2
<1>3. ASSUME NEW q \in Proc PROVE pc'[q] \notin {"op", "panic"}
  <2>1. pc[q] \notin {"op", "panic"}
    BY <1>2 DEF Ops
  <2>2. \/ pc' = pc
        \/ \E n \in {"write_log", "end", "write_head", "install", "clear_head",
                     "recover", "recover_clear", "idle"} :
             pc' = [pc EXCEPT ![p] = n] \/ pc' = Wakeup([pc EXCEPT ![p] = n])
    BY Zenon DEF CommitStep, recover_from_log, commit, write_log, write_head, install_trans,
           end_commit, read_head
  <2> QED
    BY <1>0, <2>1, <2>2 DEF Wakeup
<1>4. Ops' = {}
  BY <1>3 DEF Ops
<1> QED
  BY <1>1, <1>2, <1>3, <1>4, QuietSpace

\* Every step keeps the log roomy.
LEMMA NextSpace == RoomyLog /\ IInv /\ IInv' /\ SpaceInv /\ [Next]_vars => SpaceInv'
<1> SUFFICES ASSUME RoomyLog, IInv, IInv', SpaceInv, [Next]_vars PROVE SpaceInv'
  OBVIOUS
<1>1. CASE UNCHANGED <<pc, lh, used>>
  <2>1. Ops' = Ops
    BY <1>1 DEF Ops
  <2> QED
    BY <1>1, <2>1, QuietSpace DEF SpaceInv, NoLogPanic
<1>2. ASSUME NEW p \in Proc, begin_op(p) PROVE SpaceInv'
  BY <1>2, BeginOpSpace
<1>3. ASSUME NEW p \in Proc, end_op(p) PROVE SpaceInv'
  BY <1>3, EndOpSpace
<1>4. ASSUME NEW p \in Proc, CommitStep(p) \/ recover_from_log(p) PROVE SpaceInv'
  BY <1>4, CommitSpace
<1>5. ASSUME NEW p \in Proc, NEW b \in Block, NEW d \in Data, log_write(p, b, d)
      PROVE  SpaceInv'
  BY <1>5, LogWriteSpace
<1>6. ASSUME NEW b \in Block, recycle(b) \/ bread(b) PROVE SpaceInv'
  BY <1>1, <1>6 DEF recycle, bread
<1>7. CASE crash
  <2>1. \A p \in Proc : pc'[p] \notin {"op", "panic"}
    BY <1>7 DEF crash
  <2>2. Ops' = {}
    BY <2>1 DEF Ops
  <2> QED
    BY <2>1, <2>2 DEF SpaceInv, NoLogPanic
<1>8. CASE UNCHANGED vars
  BY <1>1, <1>8 DEF vars, mem
<1> QED
  BY <1>2, <1>3, <1>4, <1>5, <1>6, <1>7, <1>8 DEF Next

\* log_write never finds the log full, nor end_op a commit in progress, when
\* every call logs fewer than MAXOPBLOCKS distinct blocks: begin_op's
\* reservation is enough for any number of calls, in any order, with crashes.
THEOREM LogNeverFull == RoomyLog => (Spec => []NoLogPanic)
<1> SUFFICES ASSUME RoomyLog PROVE Spec => []NoLogPanic
  OBVIOUS
<1>1. IInv /\ IInv' /\ SpaceInv /\ [Next]_vars => SpaceInv'
  BY NextSpace
<1>2. SpaceInv => NoLogPanic
  BY DEF SpaceInv
<1> QED
  BY <1>1, <1>2, InitSpace, Invariance, PTL DEF Spec
=============================================================================
