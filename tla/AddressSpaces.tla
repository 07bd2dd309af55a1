---------------------------- MODULE AddressSpaces ---------------------------
(***************************************************************************)
(* What the kernel promises of user memory: each process has pages of its  *)
(* own, that only it changes.  A page is a value and whether the program   *)
(* may use it.                                                             *)
(***************************************************************************)
EXTENDS Integers

CONSTANTS Proc, Value, None,
          Loadable   \* the images of programs

VARIABLE image

Pages(p) == DOMAIN image[p]
Live(p) == image[p] # None

Init == image \in [Proc -> {None, [k \in {0} |-> <<"zero", TRUE>>]}]

Becomes(p, x) == image' = [image EXCEPT ![p] = x]

\* The pages a to b are written to.
Store(p, a, b, v) ==
  /\ \A k \in a..b : image[p][k][2]
  /\ Becomes(p, [k \in Pages(p) |-> IF k \in a..b THEN <<v, TRUE>> ELSE image[p][k]])

\* More pages, all zero, or fewer.
Grow(p) ==
  /\ Pages(p) \subseteq DOMAIN image'[p]
  /\ Becomes(p, [k \in DOMAIN image'[p] |->
                   IF k \in Pages(p) THEN image[p][k] ELSE <<"zero", TRUE>>])
Shrink(p) ==
  /\ DOMAIN image'[p] \subseteq Pages(p)
  /\ Becomes(p, [k \in DOMAIN image'[p] |-> image[p][k]])

Fork(p, q) == ~Live(q) /\ Becomes(q, image[p])

Exec(p) == \E x \in Loadable : Becomes(p, x)

Exit(p) == Becomes(p, None)

Next ==
  \E p \in Proc :
    /\ Live(p)
    /\ \/ \E a, b \in Pages(p), v \in Value : Store(p, a, b, v)
       \/ Live(p)' /\ (Grow(p) \/ Shrink(p))
       \/ \E q \in Proc : Fork(p, q)
       \/ Exec(p) \/ Exit(p)

Spec == Init /\ [][Next]_image
=============================================================================
