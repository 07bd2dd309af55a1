----------------------------- MODULE MCPrograms -----------------------------
(***************************************************************************)
(* What a user's session rests on, for TLC: memory, the console, the       *)
(* allocator of user programs, the shell and the test command.  They share *)
(* no state here; part says which of them a behaviour is one of.           *)
(***************************************************************************)
EXTENDS Memory

CONSTANTS p1, p2, Nobody

VARIABLES part,
          buf, r, w, e, lock, reader, killed,
          head, freep, brk, used, granted,
          proc, shell, typed,
          tree, type, cmd

console == <<buf, r, w, e, lock, reader, killed>>
heap == <<head, freep, brk, used, granted>>
session == <<proc, shell, typed>>
test == <<tree, type, cmd>>

\* Programs: two segments, called in several ways and from a script; a second
\* segment below the first that cannot be read; headers that are wrong; a file
\* that is no program.
Seg(va, memsz, filesz, text) ==
  [vaddr |-> va, memsz |-> memsz, filesz |-> filesz, text |-> text, short |-> FALSE]
Elf(segs) == [kind |-> "elf", segs |-> segs]
Good == Elf(<<Seg(0, 1, 1, "code"), Seg(2, 2, 1, "data")>>)
Arg(n, fits) == [n |-> n, fits |-> fits]
MCExecs == {
  <<Good, Arg(1, TRUE)>>, <<Good, Arg(0, FALSE)>>, <<Good, Arg(2, TRUE)>>,
  <<[kind |-> "script", interpreter |-> Good], Arg(1, TRUE)>>,
  <<Elf(<<Seg(2, 1, 1, "code"), [Seg(0, 2, 2, "data") EXCEPT !.short = TRUE]>>), Arg(0, TRUE)>>,
  <<Elf(<<Seg(0, 1, 1, "code"), Seg(1, 1, 1, "data")>>), Arg(0, TRUE)>>,
  <<Elf(<<Seg(0, 0, 0, "code")>>), Arg(0, TRUE)>>,
  <<[kind |-> "text"], Arg(1, TRUE)>>}
MCChange == {-3, 3}

Input == INSTANCE Console WITH
  Proc <- {p1, p2}, Plain <- {"a"}, INPUT_BUF_SIZE <- 3, UINT <- 6, Count <- {2}, l <- reader

Heap == INSTANCE Umalloc WITH
  HEADER <- 2, CORE <- 4, Requests <- {0, 3, 8}, Breaks <- {1}, MaxBreak <- 12

\* Lines with every construct of the shell, some of them wrong, and scripts.
\* Words of two letters are programs, of one letter files.
Tok(c) == <<c>>
Prog(c) == <<c, "x">>
MCLines == {
  <<Prog("a"), Tok("f"), Tok("<"), Tok("f"), Tok("|"), Prog("b"), <<">", ">">>, Tok("g"), Tok("|"), Prog("c"), Tok("&")>>,
  <<Tok("("), Prog("a"), Tok("|"), Prog("b"), Tok(";"), Prog("c"), Tok(")"), Tok(">"), Tok("f"), Tok("<"), Tok("g")>>,
  <<Prog("a"), Tok(">"), Tok("f"), Tok(">"), Tok("g"), Tok(";"), Prog("b"), Tok("|"), Prog("c")>>,
  <<Prog("a"), Tok("&"), Tok(";"), Tok("("), Prog("b"), Tok(">"), Tok("f"), Tok(")"), Tok("|"), Prog("c")>>,
  <<Tok("("), Tok("("), Tok("("), Prog("a"), Tok("|"), Prog("b"), Tok(";"), Prog("c"), Tok(")"), Tok(";"), Prog("c"), Tok(")"), Tok(";"), Prog("d"), Tok(")"), Tok("&")>>,
  <<Prog("a"), Tok("f"), Tok("g")>>, <<Prog("a"), Tok("&"), Prog("b")>>, <<Tok("("), Prog("a")>>,
  <<Prog("a"), Tok(">"), Tok("|"), Prog("b")>>, <<Tok(">"), Tok("f"), Prog("a")>>,
  <<Prog("a"), Tok(";"), Tok(")")>>, <<Tok("&")>>, <<Tok("#"), Prog("a")>>, <<<<"c", "d">>, Tok("f")>>,
  <<<<"s", "h">>, Tok("f"), Tok(">"), Tok("g"), Tok("&")>>, <<<<"s", "h">>, Tok("f"), Tok("|"), Prog("a")>>}
MCScripts == {
  <<<<Prog("b"), Tok("|"), Prog("c"), Tok("<"), Tok("f")>>>>,
  <<<<Tok("#"), Prog("a")>>, <<Prog("d"), Tok("&")>>>>}

Session == INSTANCE Shell WITH
  Pid <- 1..6, MAXARGS <- 3, Lines <- MCLines, Scripts <- MCScripts, NPIPE <- 3, MaxLines <- 1

\* Expressions of every kind, with strings that are empty, of one word or two,
\* and with blanks before, between and after them, and with missing operands and
\* quotes; 9 does not fit an int of four bits.
Text(t) == [texts |-> <<t>>, quoted |-> FALSE, closed |-> TRUE]
Quoted(ts) == [texts |-> ts, quoted |-> TRUE, closed |-> TRUE]
Unclosed(ts) == [texts |-> ts, quoted |-> TRUE, closed |-> FALSE]
Operand == {Text("f"), Text("3"), Text("9"), Quoted(<<"f">>), Quoted(<<"f", " ", "g">>)}
Strings == {Text("f")} \cup {Quoted(ts) : ts \in
  {<<>>, <<"f">>, <<"f", " ", "g">>, <<"f", " ", " ", "g">>, <<" ", "f">>, <<" ", "=", " ", "f">>, <<"f", " ">>}}
MCExpressions ==
  {<<a, Text(op), b>> : a \in Operand, op \in {"-gt", "-lt"}, b \in Operand \cup {Text("5")}}
  \cup {<<a, Text(op), b>> : a \in Strings, op \in {"=", "!="}, b \in Strings}
  \cup {<<Text("f"), Text("-ef"), a>> : a \in {Text("f"), Text("g"), Quoted(<<"g">>)}}
  \cup {<<Text(flag), Text("g")>> : flag \in {"-d", "-e", "-f", "-x"}}
  \cup {<<>>, <<Text("-h")>>, <<Text("f")>>, <<Quoted(<<"f", " ", "g">>)>>, <<Quoted(<<" ", "f">>)>>, <<Text("f"), Text("=")>>,
        <<Text("f"), Text("?"), Text("f")>>, <<Text("f"), Text("-ef")>>, <<Text("3"), Text("-lt")>>,
        <<Text("-5"), Text("-lt"), Text("3")>>, <<Text("f"), Text("="), Unclosed(<<"f", " ", "g">>)>>,
        <<Unclosed(<<"f">>), Text("="), Quoted(<<"f">>)>>}

Test == INSTANCE TestCommand WITH
  Expressions <- MCExpressions, Number <- [t \in {"3", "5", "9"} |-> IF t = "3" THEN 3 ELSE IF t = "5" THEN 5 ELSE 9],
  INT <- 16, Name <- {"f", "g"}, Ino <- 1..2

ProgramsInit ==
  /\ Init /\ Input!Init /\ Heap!Init /\ Session!Init /\ Test!Init
  /\ part \in {"memory", "console", "heap", "shell", "test"}
  /\ part # "memory" => \A n \in Sizes : Cardinality(mem.all) <= n
ProgramsNext ==
  \/ part = "memory" /\ Next /\ UNCHANGED <<part, console, heap, session, test>>
  \/ part = "console" /\ Input!Next /\ UNCHANGED <<part, vars, heap, session, test>>
  \/ part = "heap" /\ Heap!Next /\ UNCHANGED <<part, vars, console, session, test>>
  \/ part = "shell" /\ Session!Next /\ UNCHANGED <<part, vars, console, heap, test>>
  \/ part = "test" /\ Test!Next /\ UNCHANGED <<part, vars, console, heap, session>>
ProgramsSpec == ProgramsInit /\ [][ProgramsNext]_<<part, vars, console, heap, session, test>>
-----------------------------------------------------------------------------
\* Whenever memory runs out, in the middle of a fork, an sbrk or an exec, every
\* frame is either free or used for one thing, and no panic of vm.c or exec.c is
\* reached.
MemoryAccounted == part = "memory" => FramesAccounted

\* Address spaces are private: fork, exec and sbrk change them as a whole or not
\* at all, and only for their caller; Memory implements AddressSpaces.
SpacesPrivate == Spaces!Init /\ [][part = "memory" => Spaces!Next]_Images

\* The console's ring with its wrapping indices implements LineDiscipline: what
\* is read is what was typed, as edited, in order and without loss.
IsTerminal == Input!Lines!Init /\ [][part = "console" => Input!Lines!Next]_(Input!Lines!vars)

\* Nobody sleeps in consoleread while there is something to read.
ReaderAwake == part = "console" => Input!ReaderAwake

\* malloc's free blocks and the blocks it has handed out tile what sbrk gave it.
HeapTiled == part = "heap" => Heap!HeapTiled

\* runcmd starts every program with the arguments, input and output its place in
\* the line calls for, and no process keeps a file open that its shell does not
\* have, such as another end of a pipe.
Wired == part = "shell" => Session!Wired

\* When the shell is back at its prompt, what still runs was put in the
\* background, or lost its parent to a fork that failed.
PromptIsFree == part = "shell" => Session!PromptIsFree

\* The test command answers as its usage text says, of strings up to runs of
\* blanks, and unless the first one begins with a blank.
TestAnswers == part = "test" => Test!TestAnswers
=============================================================================
