------------------------------- MODULE Memory -------------------------------
(***************************************************************************)
(* Page frames and address spaces: kernel/kalloc.c, vm.c and exec.c, with  *)
(* allocproc, freeproc, fork, growproc and sys_exec.  Every process may be *)
(* in a call at once; they meet in kalloc's free list, which runs empty.   *)
(*                                                                         *)
(* A page table has a root, pages of PTES entries below it (the code has   *)
(* one more such level) and the entries.  A frame holds one value.  The    *)
(* kernel frees many pages at a time, and those are one step; a round of a *)
(* loop that allocates is a step.                                          *)
(***************************************************************************)
EXTENDS Integers, Sequences, FiniteSets

CONSTANTS NPROC,
          PGSIZE,
          PTES,      \* entries in a page of a page table
          NTABLES,   \* such pages below a root
          MAXARG,
          Sizes,     \* numbers of frames to start with
          Execs,     \* pairs passed to exec: a program, and arguments [n: number of
                     \* strings, fits: whether they fit on the stack]
          Change,    \* what sbrk is passed
          Value,     \* what user programs store
          MaxCalls   \* bound: forks, execs and sbrks

Proc == 1..NPROC
VA == 0 .. PTES * NTABLES - 1
TRAMPOLINE == PTES * NTABLES - 1
TRAPFRAME == TRAMPOLINE - 1
PGROUNDUP(n) == (n + PGSIZE - 1) \div PGSIZE   \* in pages

\* There is more virtual than physical memory.
ASSUME MemoryAssumption == \A n \in Sizes : n < TRAPFRAME

VARIABLES
  mem,       \* all frames, the free ones, contents, and what went wrong: a panic,
             \* or a page freed twice
  state,     \* p->state
  trapframe, pagetable, sz, parent,
  l,         \* the call of each process
  new,       \* the page table exec builds
  calls

vars == <<mem, state, trapframe, pagetable, sz, parent, l, new, calls>>

NoTable == [root |-> 0]
NoEntry == [pa |-> 0]
Idle == [pc |-> "user", prog |-> <<>>, args |-> <<>>, argv |-> <<>>, i |-> 0,
         sz |-> 0, a |-> 0, oldsz |-> 0, newsz |-> 0, np |-> 0]
-----------------------------------------------------------------------------
(* kalloc.c *)

Smallest(S) == CHOOSE x \in S : \A y \in S : x <= y

kalloc(m) ==
  IF m.free = {} THEN [mem |-> m, pa |-> 0]
  ELSE LET pa == Smallest(m.free)
       IN [mem |-> [m EXCEPT !.free = @ \ {pa}, !.data[pa] = "junk"], pa |-> pa]

Panic(m, why) == [m EXCEPT !.wrong = @ \cup {why}]

\* kfree of each frame in S.
kfree(m, S) ==
  [m EXCEPT !.free = @ \cup S, !.data = [f \in m.all |-> IF f \in S THEN "junk" ELSE @[f]],
            !.wrong = @ \cup (IF S \cap m.free # {} THEN {"freed twice"} ELSE {})]
-----------------------------------------------------------------------------
(* vm.c.  An operator returns the new memory and the new table. *)

Mapped(t) == {va \in VA : t.pte[va] # NoEntry}
Below(t) == {t.dir[d] : d \in 0..NTABLES-1} \ {0}

\* A frame, zeroed, for the entries that cover va, if there is none.
walk(m, t, va) ==
  LET d == va \div PTES
      k == kalloc(m) IN
  IF t.dir[d] # 0 THEN [mem |-> m, t |-> t, ok |-> TRUE]
  ELSE [mem |-> k.mem, t |-> [t EXCEPT !.dir[d] = k.pa], ok |-> k.pa # 0]

mappages(m, t, va, pa, user) ==
  LET w == walk(m, t, va) IN
  IF ~w.ok THEN w
  ELSE IF va \in Mapped(t) THEN [w EXCEPT !.mem = Panic(@, "mappages: remap")]
  ELSE [w EXCEPT !.t.pte[va] = [pa |-> pa, user |-> user]]

uvmunmap(m, t, V, do_free) ==
  LET gone == [t EXCEPT !.pte = [va \in VA |-> IF va \in V THEN NoEntry ELSE @[va]]]
      pas == {t.pte[va].pa : va \in V} IN
  IF ~ V \subseteq Mapped(t)
  THEN [mem |-> Panic(m, "uvmunmap: not mapped"), t |-> t, ok |-> FALSE]
  ELSE [mem |-> IF do_free THEN kfree(m, pas) ELSE m, t |-> gone, ok |-> TRUE]

(* Faulty variants, named for the fault. *)
RootOnly(m, t) == kfree(m, {t.root})
NothingCopied(m, from, to) == m

freewalk(m, t) ==
  IF Mapped(t) # {} THEN Panic(m, "freewalk: leaf") ELSE kfree(m, Below(t) \cup {t.root})

uvmfree(m, t, s) ==
  LET u == uvmunmap(m, t, 0..PGROUNDUP(s)-1, TRUE) IN freewalk(u.mem, u.t)

uvmcreate(m) ==
  LET k == kalloc(m) IN
  [mem |-> k.mem, t |-> [root |-> k.pa, dir |-> [d \in 0..NTABLES-1 |-> 0],
                         pte |-> [va \in VA |-> NoEntry]]]

\* 0 unless the program itself may use the page.
walkaddr(t, va) == IF va \in Mapped(t) /\ t.pte[va].user THEN t.pte[va].pa ELSE 0

\* The pages between two sizes.
Between(newsz, oldsz) == PGROUNDUP(newsz) .. PGROUNDUP(oldsz)-1

uvmdealloc(m, t, oldsz, newsz) ==
  IF newsz >= oldsz THEN [mem |-> m, t |-> t, ok |-> TRUE]
  ELSE uvmunmap(m, t, Between(newsz, oldsz), TRUE)

Zeroed(m, pa) == [m EXCEPT !.data[pa] = "zero"]

\* A round of uvmalloc's loop, for page a of a process that had oldsz bytes;
\* when it fails, what the earlier rounds added is taken away.
uvmalloc(m, t, a, oldsz) ==
  LET k == kalloc(m)
      w == mappages(Zeroed(k.mem, k.pa), t, a, k.pa, TRUE)
      Undo(m2, t2) ==
        [uvmdealloc(m2, t2, a * PGSIZE, PGROUNDUP(oldsz) * PGSIZE) EXCEPT !.ok = FALSE] IN
  IF k.pa = 0 THEN Undo(m, t)
  ELSE IF ~w.ok THEN Undo(kfree(w.mem, {k.pa}), w.t)
  ELSE w

Copied(m, from, to) == [m EXCEPT !.data[to] = m.data[from]]

\* A round of uvmcopy's loop, for page a.
uvmcopy(m, old, t, a) ==
  LET k == kalloc(m)
      e == old.pte[a]
      w == mappages(Copied(k.mem, e.pa, k.pa), t, a, k.pa, e.user)
      Undo(m2, t2) == [uvmunmap(m2, t2, 0..a-1, TRUE) EXCEPT !.ok = FALSE] IN
  IF e = NoEntry THEN [mem |-> Panic(m, "uvmcopy: page not present"), t |-> t, ok |-> FALSE]
  ELSE IF k.pa = 0 THEN Undo(m, t)
  ELSE IF ~w.ok THEN Undo(kfree(w.mem, {k.pa}), w.t)
  ELSE w
-----------------------------------------------------------------------------
(* Page tables of processes, proc.c *)

KernelText == -1   \* the trampoline's page, which no list holds

\* NoTable if there is no memory for it.
proc_pagetable(m, tf) ==
  LET c == uvmcreate(m)
      a == mappages(c.mem, c.t, TRAMPOLINE, KernelText, FALSE)
      b == mappages(a.mem, a.t, TRAPFRAME, tf, FALSE)
      u == uvmunmap(b.mem, b.t, {TRAMPOLINE}, FALSE) IN
  IF c.t.root = 0 THEN [mem |-> m, t |-> NoTable]
  ELSE IF ~a.ok THEN [mem |-> freewalk(a.mem, a.t), t |-> NoTable]
  ELSE IF ~b.ok THEN [mem |-> freewalk(u.mem, u.t), t |-> NoTable]
  ELSE b

proc_freepagetable(m, t, s) ==
  LET u == uvmunmap(m, t, {TRAMPOLINE, TRAPFRAME}, FALSE) IN uvmfree(u.mem, u.t, s)

\* freeproc(q), whose page table is t.
freeproc(m, q, t) ==
  LET m1 == IF trapframe[q] = 0 THEN m ELSE kfree(m, {trapframe[q]}) IN
  /\ mem' = IF t = NoTable THEN m1 ELSE proc_freepagetable(m1, t, sz[q])
  /\ state' = [state EXCEPT ![q] = "UNUSED"]
  /\ trapframe' = [trapframe EXCEPT ![q] = 0]
  /\ pagetable' = [pagetable EXCEPT ![q] = NoTable]
  /\ sz' = [sz EXCEPT ![q] = 0]
  /\ parent' = [parent EXCEPT ![q] = 0]

\* kinit, and userinit: the first process has one page.
Init ==
  \E n \in Sizes :
  LET k == kalloc([all |-> 1..n, free |-> 1..n, data |-> [f \in 1..n |-> "junk"], wrong |-> {}])
      r == proc_pagetable(k.mem, k.pa)
      first == uvmalloc(r.mem, r.t, 0, 0)
      Only(x, none) == [p \in Proc |-> IF p = 1 THEN x ELSE none] IN
  /\ mem = first.mem
  /\ state = Only("RUNNABLE", "UNUSED")
  /\ trapframe = Only(k.pa, 0)
  /\ pagetable = Only(first.t, NoTable)
  /\ sz = Only(PGSIZE, 0)
  /\ parent = [p \in Proc |-> 0]
  /\ l = [p \in Proc |-> Idle]
  /\ new = [p \in Proc |-> NoTable]
  /\ calls = 0
-----------------------------------------------------------------------------
(* fork, exit, wait and sbrk *)

At(p, pc) == state[p] = "RUNNABLE" /\ l[p].pc = pc
Call(p) == At(p, "user") /\ calls < MaxCalls /\ calls' = calls + 1
Go(p, pc) == l' = [l EXCEPT ![p].pc = pc]
Return(p) == l' = [l EXCEPT ![p] = Idle]

\* A user program writes to page va.
store(p, va, v) ==
  /\ At(p, "user") /\ va < PGROUNDUP(sz[p]) /\ pagetable[p].pte[va].user
  /\ mem' = [mem EXCEPT !.data[pagetable[p].pte[va].pa] = v]
  /\ UNCHANGED <<state, trapframe, pagetable, sz, parent, l, new, calls>>

\* A system call writes to n pages from va on, until one is out of reach.
copyout(p, va, n, v) ==
  LET pa(k) == walkaddr(pagetable[p], k)
      reached == {k \in va..va+n-1 : \A j \in va..k : pa(j) # 0} IN
  /\ At(p, "user") /\ reached # {}
  /\ mem' = [mem EXCEPT !.data = [f \in mem.all |-> IF \E k \in reached : pa(k) = f THEN v ELSE @[f]]]
  /\ UNCHANGED <<state, trapframe, pagetable, sz, parent, l, new, calls>>

fork(p) ==
  LET np == Smallest({q \in Proc : state[q] = "UNUSED"}) IN
  /\ Call(p) /\ \E q \in Proc : state[q] = "UNUSED"
  /\ state' = [state EXCEPT ![np] = "USED"]
  /\ l' = [l EXCEPT ![p] = [Idle EXCEPT !.pc = "allocproc", !.np = np]]
  /\ UNCHANGED <<mem, trapframe, pagetable, sz, parent, new>>

allocproc(p) ==
  LET np == l[p].np
      k == kalloc(mem) IN
  /\ At(p, "allocproc")
  /\ \/ /\ k.pa = 0 /\ freeproc(mem, np, NoTable) /\ Return(p)
     \/ /\ k.pa # 0 /\ mem' = k.mem
        /\ trapframe' = [trapframe EXCEPT ![np] = k.pa]
        /\ Go(p, "pagetable") /\ UNCHANGED <<state, pagetable, sz, parent>>
  /\ UNCHANGED <<new, calls>>

allocproc_pagetable(p) ==
  LET np == l[p].np
      r == proc_pagetable(mem, trapframe[np]) IN
  /\ At(p, "pagetable")
  /\ \/ /\ r.t = NoTable /\ freeproc(r.mem, np, NoTable) /\ Return(p)
     \/ /\ r.t # NoTable /\ mem' = r.mem
        /\ pagetable' = [pagetable EXCEPT ![np] = r.t]
        /\ Go(p, "uvmcopy") /\ UNCHANGED <<state, trapframe, sz, parent>>
  /\ UNCHANGED <<new, calls>>

fork_copy(p) ==
  LET np == l[p].np
      r == uvmcopy(mem, pagetable[p], pagetable[np], l[p].a) IN
  /\ At(p, "uvmcopy") /\ l[p].a * PGSIZE < sz[p]
  /\ \/ /\ ~r.ok /\ freeproc(r.mem, np, r.t) /\ Return(p)
     \/ /\ r.ok /\ mem' = r.mem
        /\ pagetable' = [pagetable EXCEPT ![np] = r.t]
        /\ l' = [l EXCEPT ![p].a = @ + 1] /\ UNCHANGED <<state, trapframe, sz, parent>>
  /\ UNCHANGED <<new, calls>>

fork_done(p) ==
  LET np == l[p].np IN
  /\ At(p, "uvmcopy") /\ l[p].a * PGSIZE >= sz[p]
  /\ sz' = [sz EXCEPT ![np] = sz[p]]
  /\ parent' = [parent EXCEPT ![np] = p]
  /\ state' = [state EXCEPT ![np] = "RUNNABLE"]
  /\ Return(p)
  /\ UNCHANGED <<mem, trapframe, pagetable, new, calls>>

\* The children of p go to the first process.
exit(p) ==
  /\ At(p, "user") /\ p # 1
  /\ state' = [state EXCEPT ![p] = "ZOMBIE"]
  /\ parent' = [q \in Proc |-> IF parent[q] = p THEN 1 ELSE parent[q]]
  /\ UNCHANGED <<mem, trapframe, pagetable, sz, l, new, calls>>

wait(p) ==
  /\ At(p, "user")
  /\ \E q \in Proc : parent[q] = p /\ state[q] = "ZOMBIE" /\ freeproc(mem, q, pagetable[q])
  /\ UNCHANGED <<l, new, calls>>

\* The start of uvmalloc for p, from oldsz to newsz; its outcome is handled at
\* the pc then.
Allocate(p, oldsz, newsz, then) ==
  l' = [l EXCEPT ![p] = [@ EXCEPT !.pc = then, !.oldsz = oldsz, !.newsz = newsz,
                                  !.a = PGROUNDUP(oldsz), !.sz = oldsz]]
More(p) == l[p].a * PGSIZE < l[p].newsz

\* A sum below zero wraps, and is no smaller than the old size.
growproc(p, n) ==
  LET r == uvmdealloc(mem, pagetable[p], sz[p], sz[p] + n) IN
  /\ Call(p)
  /\ \/ /\ n > 0 /\ Allocate(p, sz[p], sz[p] + n, "growproc")
        /\ UNCHANGED <<mem, pagetable, sz>>
     \/ /\ n < 0 /\ sz[p] + n >= 0
        /\ mem' = r.mem
        /\ pagetable' = [pagetable EXCEPT ![p] = r.t]
        /\ sz' = [sz EXCEPT ![p] = @ + n]
        /\ UNCHANGED l
  /\ UNCHANGED <<state, trapframe, parent, new>>

growproc_alloc(p) ==
  LET r == uvmalloc(mem, pagetable[p], l[p].a, l[p].oldsz) IN
  /\ At(p, "growproc") /\ More(p)
  /\ mem' = r.mem
  /\ pagetable' = [pagetable EXCEPT ![p] = r.t]
  /\ IF r.ok THEN l' = [l EXCEPT ![p].a = @ + 1] ELSE Return(p)
  /\ UNCHANGED <<state, trapframe, sz, parent, new, calls>>

growproc_done(p) ==
  /\ At(p, "growproc") /\ ~More(p)
  /\ sz' = [sz EXCEPT ![p] = l[p].newsz]
  /\ Return(p)
  /\ UNCHANGED <<mem, state, trapframe, pagetable, parent, new, calls>>
-----------------------------------------------------------------------------
(* exec *)

sys_exec(p, prog, args) ==
  /\ Call(p)
  /\ l' = [l EXCEPT ![p] = [Idle EXCEPT !.pc = "argv", !.prog = prog, !.args = args]]
  /\ UNCHANGED <<mem, state, trapframe, pagetable, sz, parent, new>>

\* A page for the next argument; it, or its string, may be out of reach.
fetch_argv(p) ==
  LET i == Len(l[p].argv)
      k == kalloc(mem) IN
  /\ At(p, "argv")
  /\ \/ /\ i >= MAXARG \/ i = l[p].args.n \/ k.pa = 0
        /\ Go(p, IF i < MAXARG /\ i = l[p].args.n THEN "exec" ELSE "free_argv")
        /\ UNCHANGED mem
     \/ /\ i < MAXARG /\ i < l[p].args.n /\ k.pa # 0
        /\ mem' = k.mem
        /\ \E pc \in {"argv", "free_argv"} :
             l' = [l EXCEPT ![p].argv = Append(@, k.pa), ![p].pc = pc]
  /\ UNCHANGED <<state, trapframe, pagetable, sz, parent, new, calls>>

free_argv(p) ==
  /\ At(p, "free_argv")
  /\ mem' = kfree(mem, {l[p].argv[i] : i \in DOMAIN l[p].argv})
  /\ Return(p)
  /\ UNCHANGED <<state, trapframe, pagetable, sz, parent, new, calls>>

\* A script is its interpreter, called with its own name and argv[0], if any.
exec_interpreter(p) ==
  /\ At(p, "exec") /\ l[p].prog.kind = "script"
  /\ l' = [l EXCEPT ![p].prog = @.interpreter, ![p].args.n = IF @ = 0 THEN 1 ELSE 2]
  /\ UNCHANGED <<mem, state, trapframe, pagetable, sz, parent, new, calls>>

exec_header(p) ==
  LET r == proc_pagetable(mem, trapframe[p]) IN
  /\ At(p, "exec") /\ l[p].prog.kind # "script"
  /\ IF l[p].prog.kind # "elf" \/ r.t = NoTable
     THEN /\ Go(p, "free_argv") /\ UNCHANGED new
          /\ mem' = IF l[p].prog.kind # "elf" THEN mem ELSE r.mem
     ELSE /\ new' = [new EXCEPT ![p] = r.t] /\ mem' = r.mem
          /\ l' = [l EXCEPT ![p].pc = "segment", ![p].i = 1, ![p].sz = 0]
  /\ UNCHANGED <<state, trapframe, pagetable, sz, parent, calls>>

BadHeader(s) == s.memsz < s.filesz \/ s.vaddr % PGSIZE # 0

\* The next program header, or, after the last, two pages for the stack.
exec_segment(p) ==
  LET segs == l[p].prog.segs
      s == segs[l[p].i]
      top == PGROUNDUP(l[p].sz) * PGSIZE IN
  /\ At(p, "segment")
  /\ \/ /\ l[p].i > Len(segs)
        /\ Allocate(p, top, top + 2 * PGSIZE, "stack")
     \/ /\ l[p].i <= Len(segs) /\ BadHeader(s) /\ Go(p, "bad")
     \/ /\ l[p].i <= Len(segs) /\ ~BadHeader(s)
        /\ IF s.vaddr + s.memsz < l[p].sz THEN Allocate(p, l[p].sz, l[p].sz, "load")
           ELSE Allocate(p, l[p].sz, s.vaddr + s.memsz, "load")
  /\ UNCHANGED <<mem, state, trapframe, pagetable, sz, parent, new, calls>>

\* A round of uvmalloc, for a segment or for the stack.
exec_alloc(p) ==
  LET r == uvmalloc(mem, new[p], l[p].a, l[p].oldsz) IN
  /\ At(p, "load") \/ At(p, "stack")
  /\ More(p)
  /\ mem' = r.mem
  /\ new' = [new EXCEPT ![p] = r.t]
  /\ l' = [l EXCEPT ![p].a = @ + 1, ![p].pc = IF r.ok THEN @ ELSE "bad"]
  /\ UNCHANGED <<state, trapframe, pagetable, sz, parent, calls>>

\* loadseg, for the pages of a segment that the file fills.
loadseg(p) ==
  LET s == l[p].prog.segs[l[p].i]
      pages == s.vaddr \div PGSIZE .. (s.vaddr \div PGSIZE) + PGROUNDUP(s.filesz) - 1
      pas == {new[p].pte[va].pa : va \in pages} IN
  /\ At(p, "load") /\ ~More(p)
  /\ IF l[p].newsz = 0 THEN Go(p, "bad") /\ UNCHANGED mem
     ELSE /\ mem' = IF ~ pages \subseteq Mapped(new[p])
                    THEN Panic(mem, "loadseg: address should exist")
                    ELSE [mem EXCEPT !.data = [f \in mem.all |->
                                       IF f \in pas THEN s.text ELSE @[f]]]
          /\ l' = [l EXCEPT ![p].sz = l[p].newsz, ![p].i = @ + 1,
                            ![p].pc = IF s.short THEN "bad" ELSE "segment"]
  /\ UNCHANGED <<state, trapframe, pagetable, sz, parent, new, calls>>

\* The guard page, and the arguments, if they fit.
exec_stack(p) ==
  LET guard == (l[p].newsz \div PGSIZE) - 2
      stack == new[p].pte[guard + 1] IN
  /\ At(p, "stack") /\ ~More(p)
  /\ new' = [new EXCEPT ![p].pte[guard].user = FALSE]
  /\ mem' = [mem EXCEPT !.data[stack.pa] = IF l[p].args.n > 0 THEN "args" ELSE @]
  /\ l' = [l EXCEPT ![p].sz = l[p].newsz,
                    ![p].pc = IF l[p].args.fits THEN "commit" ELSE "bad"]
  /\ UNCHANGED <<state, trapframe, pagetable, sz, parent, calls>>

exec_commit(p) ==
  /\ At(p, "commit")
  /\ pagetable' = [pagetable EXCEPT ![p] = new[p]]
  /\ sz' = [sz EXCEPT ![p] = l[p].sz]
  /\ new' = [new EXCEPT ![p] = NoTable]
  /\ mem' = proc_freepagetable(mem, pagetable[p], sz[p])
  /\ Go(p, "free_argv")
  /\ UNCHANGED <<state, trapframe, parent, calls>>

exec_bad(p) ==
  /\ At(p, "bad")
  /\ mem' = proc_freepagetable(mem, new[p], l[p].sz)
  /\ new' = [new EXCEPT ![p] = NoTable]
  /\ Go(p, "free_argv")
  /\ UNCHANGED <<state, trapframe, pagetable, sz, parent, calls>>

User(p) ==
  \/ fork(p) \/ exit(p) \/ wait(p)
  \/ \E n \in Change : growproc(p, n)
  \/ \E x \in Execs : sys_exec(p, x[1], x[2])
  \/ \E va \in VA, v \in Value : store(p, va, v) \/ copyout(p, va, 2, v)

Kernel(p) ==
  \/ allocproc(p) \/ allocproc_pagetable(p) \/ fork_copy(p) \/ fork_done(p)
  \/ growproc_alloc(p) \/ growproc_done(p)
  \/ fetch_argv(p) \/ free_argv(p) \/ exec_interpreter(p) \/ exec_header(p)
  \/ exec_segment(p) \/ exec_alloc(p) \/ loadseg(p) \/ exec_stack(p)
  \/ exec_commit(p) \/ exec_bad(p)

Next == \E p \in Proc : User(p) \/ Kernel(p)

Spec == Init /\ [][Next]_vars
-----------------------------------------------------------------------------
(* Properties *)

Tables == {<<p, pagetable[p]>> : p \in Proc} \cup {<<-p, new[p]>> : p \in Proc}
Uses ==
  {<<"trapframe", p, 0, trapframe[p]>> : p \in Proc}
  \cup UNION {{<<"argv", p, i, l[p].argv[i]>> : i \in DOMAIN l[p].argv} : p \in Proc}
  \cup UNION {{<<"root", x[1], 0, x[2].root>>}
              \cup {<<"dir", x[1], d, x[2].dir[d]>> : d \in 0..NTABLES-1}
              \cup {<<"page", x[1], va, x[2].pte[va].pa>> : va \in VA \ {TRAPFRAME, TRAMPOLINE}} :
              x \in {y \in Tables : y[2] # NoTable}}

\* Whenever memory runs out, in the middle of a fork, an sbrk or an exec, and
\* however calls of several processes interleave, every frame is either free or
\* used for one thing: no page is lost, freed twice or freed in use, and none of
\* the panics of vm.c and exec.c is reached.
FramesAccounted ==
  LET U == {u \in Uses : u[4] # 0}
      frames == {u[4] : u \in U} IN
  /\ mem.wrong = {}
  /\ frames = mem.all \ mem.free /\ Cardinality(U) = Cardinality(frames)

\* The image exec should make of a program.
Loaded(segs, n) ==
  LET Upper(i) == PGROUNDUP(segs[i].vaddr + segs[i].memsz)
      top == CHOOSE x \in {0} \cup {Upper(i) : i \in DOMAIN segs} :
               \A i \in DOMAIN segs : Upper(i) <= x
      In(k) == {i \in DOMAIN segs : /\ segs[i].vaddr <= k * PGSIZE
                                    /\ k * PGSIZE < segs[i].vaddr + segs[i].filesz}
      Text(k) == IF In(k) = {} THEN "zero"
                 ELSE segs[CHOOSE i \in In(k) : \A j \in In(k) : j <= i].text IN
  [k \in 0..top+1 |-> IF k = top THEN <<"zero", FALSE>>
                      ELSE IF k = top + 1 THEN <<IF n > 0 THEN "args" ELSE "zero", TRUE>>
                      ELSE <<Text(k), TRUE>>]

NoImage == [k \in {-1} |-> <<"none", FALSE>>]

\* A process has an image from the end of fork to exit.
Images == [p \in Proc |->
  IF state[p] # "RUNNABLE" THEN NoImage
  ELSE [k \in 0..PGROUNDUP(sz[p])-1 |->
          <<mem.data[pagetable[p].pte[k].pa], pagetable[p].pte[k].user>>]]

Spaces == INSTANCE AddressSpaces WITH
  None <- NoImage, image <- Images,
  Loadable <- {Loaded(g.segs, n) : g \in {x[1] : x \in {y \in Execs : y[1].kind = "elf"}}, n \in 0..MAXARG}

\* Address spaces are private: nothing a process or the kernel does for another
\* process changes the pages of this one; fork copies all of them or fails, a
\* failed exec or sbrk leaves them alone, and exec loads the program.
IsPrivate == Spaces!Spec
=============================================================================
