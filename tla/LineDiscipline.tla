--------------------------- MODULE LineDiscipline ---------------------------
(***************************************************************************)
(* What the console promises of its input: a line can be edited until it   *)
(* is complete; complete lines are read in order, every character once; an *)
(* end-of-file mark ends a read, and is an empty read of its own.          *)
(***************************************************************************)
EXTENDS Sequences, Integers

CONSTANTS Proc, Plain, Room

VARIABLES
  line,    \* being edited
  ready,   \* complete
  got      \* what each read has copied so far

vars == <<line, ready, got>>

Ends == {"newline", "eof"}

Init == line = <<>> /\ ready = <<>> /\ got = [p \in Proc |-> <<>>]

\* A full buffer makes a line, too.
Type(c) ==
  /\ Len(ready) + Len(line) < Room
  /\ IF c \in Ends \/ Len(ready) + Len(line) + 1 = Room
     THEN ready' = ready \o Append(line, c) /\ line' = <<>>
     ELSE line' = Append(line, c) /\ UNCHANGED ready
  /\ UNCHANGED got

Erase == line # <<>> /\ line' = SubSeq(line, 1, Len(line) - 1) /\ UNCHANGED <<ready, got>>
EraseLine == line' = <<>> /\ UNCHANGED <<ready, got>>

Copy(p) ==
  /\ ready # <<>> /\ Head(ready) # "eof"
  /\ \A k \in DOMAIN got[p] : got[p][k] # "newline"
  /\ got' = [got EXCEPT ![p] = Append(@, Head(ready))]
  /\ ready' = Tail(ready) /\ UNCHANGED line

\* A read returns: at end of file, which goes with it if it is empty; after a
\* failed copy, whose character is lost; with what was asked for; or killed.
Return(p) ==
  /\ got' = [got EXCEPT ![p] = <<>>] /\ UNCHANGED line
  /\ \/ UNCHANGED ready
     \/ ready # <<>> /\ (Head(ready) = "eof" => got[p] = <<>>) /\ ready' = Tail(ready)

Next ==
  \/ \E c \in Plain \cup Ends : Type(c)
  \/ Erase \/ EraseLine
  \/ \E p \in Proc : Copy(p) \/ Return(p)

Spec == Init /\ [][Next]_vars
=============================================================================
