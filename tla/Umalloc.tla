------------------------------ MODULE Umalloc -------------------------------
(***************************************************************************)
(* The allocator of user programs, user/umalloc.c: one circular list of    *)
(* free blocks in order of address, through the headers in the blocks.     *)
(* An address counts units of sizeof(Header); base, at 0, is below the     *)
(* heap.  head holds the headers that mean something: a header inside a    *)
(* larger block is gone, and so is the ptr of a block that is handed out.  *)
(***************************************************************************)
EXTENDS Integers, FiniteSets, TLC

CONSTANTS HEADER,     \* bytes in a unit
          CORE,       \* the least morecore asks for: 4096 units
          Requests,   \* sizes passed to malloc; their units fit an int in bytes
          Breaks,     \* units a program takes with sbrk itself
          MaxBreak    \* bound: sbrk fails beyond

VARIABLES
  head,       \* address -> [ptr, size]
  freep,
  brk,        \* the end of the program's memory
  used,       \* the blocks the program holds, and what it asked for
  granted     \* history: the units that morecore has got

vars == <<head, freep, brk, used, granted>>

base == 0
Null == -1

Init ==
  /\ head = base :> [ptr |-> Null, size |-> 0] /\ freep = Null
  /\ brk = 2 /\ used = {} /\ granted = {}

(* Faulty variants, named for the fault. *)
RoundedDown(nbytes) == nbytes \div HEADER + 1

nunits(nbytes) == (nbytes + HEADER - 1) \div HEADER + 1
-----------------------------------------------------------------------------
(* Operators on a list h = [head, freep] *)

End(h, p) == p + h.head[p].size
Next1(h, p) == h.head[p].ptr

Link(h, p, q) == [h EXCEPT !.head[p].ptr = q]

\* q, the next on the list and adjacent, becomes part of p.
Join(h, p, q) ==
  [h EXCEPT !.head = [a \in DOMAIN @ \ {q} |->
    IF a = p THEN [ptr |-> @[q].ptr, size |-> @[p].size + @[q].size] ELSE @[a]]]

\* The block after which bp belongs: the first, from p on, with bp between it
\* and its successor, or at one of the ends of the arena.
RECURSIVE Place(_, _, _)
Place(h, bp, p) ==
  LET q == Next1(h, p) IN
  IF (bp > p /\ bp < q) \/ (p >= q /\ (bp > p \/ bp < q)) THEN p ELSE Place(h, bp, q)

Free(h, bp) ==
  LET p == Place(h, bp, h.freep)
      q == Next1(h, p)
      up == IF End(h, bp) = q THEN Join(Link(h, bp, q), bp, q) ELSE Link(h, bp, q)
      down == IF End(up, p) = bp THEN Join(Link(up, p, bp), p, bp) ELSE Link(up, p, bp)
  IN  [down EXCEPT !.freep = p]

\* First fit, from freep on: the block before the one that is large enough, or
\* Null when the search comes round.
RECURSIVE Search(_, _, _)
Search(h, prevp, n) ==
  LET p == Next1(h, prevp) IN
  IF h.head[p].size >= n THEN prevp
  ELSE IF p = h.freep THEN Null ELSE Search(h, p, n)

\* All of the block after prevp, or its tail.
Whole(h, prevp) ==
  LET p == Next1(h, prevp) IN
  [Link(Link(h, prevp, Next1(h, p)), p, Null) EXCEPT !.freep = prevp]
TailOf(h, prevp, n) ==
  LET p == Next1(h, prevp) IN
  [freep |-> prevp,
   head |-> (End(h, p) - n) :> [ptr |-> Null, size |-> n]
            @@ [h.head EXCEPT ![p].size = @ - n]]
-----------------------------------------------------------------------------
List == [head |-> head, freep |-> freep]
Becomes(h) == head' = h.head /\ freep' = h.freep

\* The first call makes the list.
Started == IF freep # Null THEN List
           ELSE [freep |-> base, head |-> [head EXCEPT ![base].ptr = base]]

Give(h, prevp, n, nbytes) ==
  LET p == Next1(h, prevp) IN
  /\ Becomes(IF h.head[p].size = n THEN Whole(h, prevp) ELSE TailOf(h, prevp, n))
  /\ used' = used \cup {[at |-> End(h, p) - n, units |-> n, asked |-> nbytes]}

malloc(nbytes) ==
  LET n == nunits(nbytes)  prevp == Search(Started, Started.freep, n) IN
  /\ prevp # Null
  /\ Give(Started, prevp, n, nbytes)
  /\ UNCHANGED <<brk, granted>>

\* No block is large enough: morecore, whose sbrk may fail.
malloc_morecore(nbytes) ==
  LET n == nunits(nbytes)
      nu == IF n < CORE THEN CORE ELSE n
      more == Free([Started EXCEPT !.head = brk :> [ptr |-> Null, size |-> nu] @@ @], brk)
  IN  /\ Search(Started, Started.freep, n) = Null
      /\ \/ Becomes(Started) /\ UNCHANGED <<brk, used, granted>>
         \/ /\ brk + nu <= MaxBreak
            /\ brk' = brk + nu /\ granted' = granted \cup brk..(brk + nu - 1)
            /\ Give(more, Search(more, more.freep, n), n, nbytes)

free(b) ==
  /\ used' = used \ {b}
  /\ Becomes(Free(List, b.at))
  /\ UNCHANGED <<brk, granted>>

\* The program grows its memory itself.
sbrk(k) ==
  /\ brk + k <= MaxBreak /\ brk' = brk + k
  /\ UNCHANGED <<head, freep, used, granted>>

Next ==
  \/ \E n \in Requests : malloc(n) \/ malloc_morecore(n)
  \/ \E b \in used : free(b)
  \/ \E k \in Breaks : sbrk(k)

Spec == Init /\ [][Next]_vars
-----------------------------------------------------------------------------
(* Properties *)

RECURSIVE Reach(_, _)
Reach(S, p) == IF p \in S THEN S ELSE Reach(S \cup {p}, head[p].ptr)
FreeList == IF freep = Null THEN {base} ELSE Reach({}, freep)

Units(a) == a..(a + head[a].size - 1)

\* Blocks on the free list and blocks handed out tile what sbrk has granted:
\* none overlap, none are lost, a block has room for what was asked for beside
\* its header, and free neighbours have been joined.
HeapTiled ==
  LET blocks == (FreeList \ {base}) \cup {b.at : b \in used} IN
  /\ Cardinality(FreeList \ {base}) + Cardinality(used) = Cardinality(blocks)
  /\ UNION {Units(a) : a \in blocks} = granted
  /\ \A a, b \in blocks : a = b \/ Units(a) \cap Units(b) = {}
  /\ \A b \in used : head[b.at].size = b.units /\ (b.units - 1) * HEADER >= b.asked
  /\ \A a, b \in FreeList \ {base} : a + head[a].size # b
=============================================================================
