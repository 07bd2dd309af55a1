------------------------------- MODULE MCProc -------------------------------
(* Instances of Proc for TLC. *)
EXTENDS Proc, TLC

CONSTANTS c1, c2

\* No action or property tells CPUs apart.
Symmetry == Permutations(CPU)
=============================================================================
