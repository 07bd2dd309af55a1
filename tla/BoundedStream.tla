--------------------------- MODULE BoundedStream ----------------------------
(***************************************************************************)
(* What a pipe (kernel/pipe.c) promises its users: a bounded stream of     *)
(* bytes.  Bytes go in at one end, one at a time, only while both ends are *)
(* open and there is room, and come out at the other end in the same       *)
(* order, each once; an end that is closed stays closed.                   *)
(***************************************************************************)
EXTENDS Naturals, Sequences

CONSTANTS Byte,      \* what travels
          Capacity   \* how many bytes may be on the way

VARIABLES q,         \* the bytes on the way, oldest first
          ropen,     \* the read end is open
          wopen      \* the write end is open

vars == <<q, ropen, wopen>>

Init == q = <<>> /\ ropen = TRUE /\ wopen = TRUE

Put(c) == /\ ropen /\ wopen
          /\ Len(q) < Capacity
          /\ q' = Append(q, c)
          /\ UNCHANGED <<ropen, wopen>>

Take == /\ ropen
        /\ q # <<>>
        /\ q' = Tail(q)
        /\ UNCHANGED <<ropen, wopen>>

CloseRead  == ropen /\ ropen' = FALSE /\ UNCHANGED <<q, wopen>>
CloseWrite == wopen /\ wopen' = FALSE /\ UNCHANGED <<q, ropen>>

Next == (\E c \in Byte : Put(c)) \/ Take \/ CloseRead \/ CloseWrite

Spec == Init /\ [][Next]_vars
=============================================================================
