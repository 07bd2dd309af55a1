------------------------------- MODULE Mutex --------------------------------
(* What a lock promises: one holder at a time, who alone gives it back. *)

CONSTANTS Proc, None

VARIABLE holder

Init == holder = None

Take(p) == holder = None /\ holder' = p
Give(p) == holder = p /\ holder' = None

Next == \E p \in Proc : Take(p) \/ Give(p)

Spec == Init /\ [][Next]_holder
=============================================================================
