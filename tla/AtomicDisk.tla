----------------------------- MODULE AtomicDisk -----------------------------
(***************************************************************************)
(* What the logging layer (kernel/log.c) promises to the file system: a    *)
(* disk on which the block updates of FS system calls become durable in    *)
(* whole groups.  A group is everything written since the previous commit, *)
(* and a commit happens only while no system call is in progress ("The     *)
(* logging system only commits when there are no FS system calls active",  *)
(* kernel/log.c:13), so after a crash each call is there entirely or not   *)
(* at all.                                                                 *)
(*                                                                         *)
(* Nothing here is translated from code; module Log shows that the code    *)
(* implements it.                                                          *)
(***************************************************************************)

CONSTANTS Proc,     \* processes that make FS system calls
          Block,    \* disk blocks
          Data      \* contents of a block

VARIABLES vol,      \* what a reader of the running system sees
          durable,  \* what a reader sees after a crash at this moment
          active    \* processes inside a system call

vars == <<vol, durable, active>>

Init == /\ vol \in [Block -> Data]
        /\ durable = vol
        /\ active = {}

Begin(p) == /\ p \notin active
            /\ active' = active \cup {p}
            /\ UNCHANGED <<vol, durable>>

Write(p, b, d) == /\ p \in active
                  /\ vol' = [vol EXCEPT ![b] = d]
                  /\ UNCHANGED <<durable, active>>

End(p) == /\ p \in active
          /\ active' = active \ {p}
          /\ UNCHANGED <<vol, durable>>

\* Every update of every finished call, at once.
Commit == /\ active = {}
          /\ durable' = vol
          /\ UNCHANGED <<vol, active>>

Crash == /\ vol' = durable
         /\ active' = {}
         /\ UNCHANGED durable

Next == \/ \E p \in Proc : Begin(p) \/ End(p)
        \/ \E p \in Proc, b \in Block, d \in Data : Write(p, b, d)
        \/ Commit
        \/ Crash

Spec == Init /\ [][Next]_vars
=============================================================================
