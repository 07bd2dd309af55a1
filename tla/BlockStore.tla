----------------------------- MODULE BlockStore -----------------------------
(* What the buffer cache promises: every block has one current value, which
   one process at a time may hold, see and change. *)

CONSTANTS Proc, Block, Data, None

VARIABLES val,      \* the current value of each block
          holder    \* who holds it

vars == <<val, holder>>

Init == val \in [Block -> Data] /\ holder = [b \in Block |-> None]

Hold(p, b) ==
  /\ holder[b] = None
  /\ holder' = [holder EXCEPT ![b] = p]
  /\ UNCHANGED val

Change(p, b, d) ==
  /\ holder[b] = p
  /\ val' = [val EXCEPT ![b] = d]
  /\ UNCHANGED holder

LetGo(p, b) ==
  /\ holder[b] = p
  /\ holder' = [holder EXCEPT ![b] = None]
  /\ UNCHANGED val

Next ==
  \E p \in Proc, b \in Block :
    Hold(p, b) \/ LetGo(p, b) \/ \E d \in Data : Change(p, b, d)

Spec == Init /\ [][Next]_vars
=============================================================================
