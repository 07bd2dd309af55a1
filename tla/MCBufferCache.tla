--------------------------- MODULE MCBufferCache ----------------------------
(* Instances of BufferCache for TLC. *)
EXTENDS BufferCache, TLC

CONSTANTS p1, p2, b1, b2, b3, b4, d1, d2, u1, u2, u3

\* No action or property tells processes, blocks or values apart.  (Buffers
\* are ordered by the list.)
Symmetry == Permutations(Proc) \cup Permutations(Block) \cup Permutations(Data)
=============================================================================
