----------------------------- MODULE ByteFiles ------------------------------
(***************************************************************************)
(* What inodes promise to the files above them: each is an array of bytes, *)
(* written in runs that start within it or at its end, or cut to nothing;  *)
(* no two share a byte.  A crash returns all of them to the last commit.   *)
(* The bytes of a write that failed may be loose: seen by readers, and     *)
(* gone again later.                                                       *)
(***************************************************************************)
EXTENDS Integers, Sequences

CONSTANTS Ino, Byte

VARIABLES
  bytes,    \* the files
  saved,    \* the files after a crash
  loose     \* file -> places where the two may differ for good

vars == <<bytes, saved, loose>>

Init ==
  /\ bytes \in [Ino -> Seq(Byte)] /\ saved = bytes
  /\ loose = [i \in Ino |-> {}]

\* The n bytes from offset off on become v.
Run(s, off, n, v) ==
  [k \in 1..(IF off + n > Len(s) THEN off + n ELSE Len(s)) |->
     IF off < k /\ k <= off + n THEN v ELSE s[k]]

Write(i, v) ==
  /\ \E off \in 0..Len(bytes[i]), n \in 0..Len(bytes'[i]) :
       /\ bytes' = [bytes EXCEPT ![i] = Run(@, off, n, v)]
       /\ loose'[i] \subseteq loose[i] \ (off+1)..(off+n)
       /\ loose' = [loose EXCEPT ![i] = loose'[i]]
  /\ UNCHANGED saved

\* A write that fails: it does not make the file longer.
Fail(i, v) ==
  /\ \E off \in 0..Len(bytes[i]) : \E n \in 0..Len(bytes[i])-off :
       /\ bytes' = [bytes EXCEPT ![i] = Run(@, off, n, v)]
       /\ loose'[i] \subseteq loose[i] \cup (off+1)..(off+n)
       /\ loose' = [loose EXCEPT ![i] = loose'[i]]
  /\ UNCHANGED saved

Truncate(i) ==
  /\ bytes' = [bytes EXCEPT ![i] = <<>>] /\ loose' = [loose EXCEPT ![i] = {}]
  /\ UNCHANGED saved

Commit ==
  /\ saved' = [i \in Ino |->
       [k \in DOMAIN bytes[i] |-> IF k \in loose[i] THEN saved[i][k] ELSE bytes[i][k]]]
  /\ UNCHANGED <<bytes, loose>>

\* Some loose bytes of a file are forgotten.
Forget(i) ==
  /\ loose'[i] \subseteq loose[i] /\ loose' = [loose EXCEPT ![i] = loose'[i]]
  /\ bytes' = [bytes EXCEPT ![i] =
       [k \in DOMAIN @ |-> IF k \in loose[i] \ loose'[i] THEN saved[i][k] ELSE @[k]]]
  /\ UNCHANGED saved

Crash == bytes' = saved /\ loose' = [i \in Ino |-> {}] /\ UNCHANGED saved

Next ==
  \/ Commit \/ Crash
  \/ \E i \in Ino :
       Truncate(i) \/ Forget(i) \/ \E v \in Byte : Write(i, v) \/ Fail(i, v)

Spec == Init /\ [][Next]_vars
=============================================================================
