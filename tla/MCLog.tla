------------------------------- MODULE MCLog --------------------------------
(* Instances of Log for TLC. *)
EXTENDS Log, TLC

CONSTANTS p1, p2, p3, b1, b2, b3, d1, d2

\* No action or property tells blocks, or their contents, apart.
Symmetry == Permutations(Block) \cup Permutations(Data)
=============================================================================
