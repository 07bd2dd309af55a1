---------------------------- MODULE TestCommand -----------------------------
(***************************************************************************)
(* The test command (user/test.c): it puts quoted words together again,    *)
(* which the shell does not do, and evaluates one comparison of files,     *)
(* strings or numbers, while other processes change the files.             *)
(*                                                                         *)
(* What a user types, a word of argv and an argument of newArgs are        *)
(* sequences of texts, blanks and quotes; as in the code, the quotes stay  *)
(* part of an argument.                                                    *)
(***************************************************************************)
EXTENDS Integers, Sequences, FiniteSets

LOCAL INSTANCE FiniteSetsExt
LOCAL INSTANCE SequencesExt

CONSTANTS
  Expressions,  \* what a user asks: sequences of arguments, whose texts may be
                \* blanks, but hold neither blanks nor quotes
  Number,       \* the texts that are digits only -> their values
  INT,          \* 2^32 in the code: the number of values of an int
  Name, Ino     \* names of files; their inode numbers

VARIABLES
  tree,     \* name -> inode number, or 0
  type,     \* inode -> "DIR", "FILE", "DEVICE", or "free"
  cmd       \* the command that is running

vars == <<tree, type, cmd>>

blank == " "
quote == "\""

\* An argument as it is typed.
Typed(a) == (IF a.quoted THEN <<quote>> ELSE <<>>) \o a.texts
              \o (IF a.quoted /\ a.closed THEN <<quote>> ELSE <<>>)

\* What the shell makes of an argument, and of an expression.
Words(a) ==
  LET t == Typed(a)
      first == {k \in DOMAIN t : t[k] # blank /\ (k = 1 \/ t[k-1] = blank)}
      End(k) == Min({j \in k..Len(t) : j = Len(t) \/ t[j+1] = blank})
      starts == SetToSortSeq(first, <)
  IN  [w \in DOMAIN starts |-> SubSeq(t, starts[w], End(starts[w]))]
Argv(e) == <<<<"test">>>> \o FlattenSeq([k \in 1..Len(e) |-> Words(e[k])])

Idle == [pc |-> "idle", expr |-> <<>>, new |-> <<>>, ino |-> 0, result |-> 1,
         steady |-> TRUE, failed |-> FALSE]

Init ==
  /\ tree = [n \in Name |-> 0] /\ type = [i \in Ino |-> "free"]
  /\ cmd = Idle
-----------------------------------------------------------------------------
(* Arguments and operators *)

\* A word opens a string by its first character and ends one by its last: a
\* quote alone does both.
Opens(w) == Head(w) = quote
EndsString(w) == Last(w) = quote
EndsLater(argv, i) == {k \in i+1..Len(argv) : EndsString(argv[k])}
Ends(argv, i) == {k \in i..Len(argv) : EndsString(argv[k])}

\* The words i..end, with one blank between any two of them.
Joined(argv, i, end) ==
  argv[i] \o FlattenSeq([k \in 1..end-i |-> <<blank>> \o argv[i+k]])

\* newArgs; an empty argument stands for a string that has no closing quote.
\* The code then looks for it in argv[argc] too, which is a null pointer: it
\* reads the first bytes of the program, and stops.
parseArgs(argv) ==
  LET From[i \in 1..Len(argv)+1] ==
        IF i > Len(argv) THEN <<>>
        ELSE IF ~Opens(argv[i]) THEN <<argv[i]>> \o From[i + 1]
        ELSE IF Ends(argv, i) = {} THEN <<<<>>>>
        ELSE LET end == Min(Ends(argv, i)) IN <<Joined(argv, i, end)>> \o From[end + 1]
  IN From[1]

Is(a, texts) == \E t \in texts : a = <<t>>

\* The texts that begin with a dash.
Dashes == {"-d", "-e", "-f", "-ef", "-gt", "-lt", "-h", "-5", "-x"}
Dashed(a) == Is(a, Dashes)

stringOperators(string1, string2, operator) ==
  IF Is(operator, {"="}) = (string1 = string2) THEN 0 ELSE 1

isInt(a) == Is(a, DOMAIN Number)

\* n = n*10 + *s - '0' in an int, which wraps.
atoi(a) ==
  LET n == Number[a[1]] % INT IN IF n < INT \div 2 THEN n ELSE n - INT

numberOperators(num1, num2, flag) ==
  IF ~isInt(num1) \/ ~isInt(num2) THEN 2
  ELSE IF (IF Is(flag, {"-lt"}) THEN atoi(num1) < atoi(num2) ELSE atoi(num1) > atoi(num2))
  THEN 0 ELSE 1
-----------------------------------------------------------------------------
(* The command *)

Answer(r) == [pc |-> "answer", result |-> r]
Usage == Answer(2)
OpenFiles == [pc |-> "open", result |-> 1]

\* The first part of fileFlags.
FileFlag(flag) == IF Is(flag, {"-d", "-e", "-f"}) THEN OpenFiles ELSE Usage

\* main, up to the first system call; third is newArgs[2].
Decision(argv, new, third) ==
  LET Three(d) == IF Len(new) < 4 THEN Usage ELSE d IN
  CASE Len(argv) < 2 -> Usage
    [] Len(argv) > 1 /\ argv[2] = <<"-h">> -> [pc |-> "idle", result |-> 0]
    [] OTHER ->
         IF Len(argv) < 3 \/ (\E k \in 1..Len(new) : new[k] = <<>>) THEN Usage
         ELSE IF Dashed(new[2]) THEN IF Len(new) < 3 THEN Usage ELSE FileFlag(new[2])
         ELSE IF Is(third, {"=", "!="}) THEN Three(Answer(stringOperators(new[2], new[4], third)))
         ELSE IF Is(third, {"-ef"}) THEN Three(OpenFiles)
         ELSE IF Is(third, {"-gt", "-lt"}) THEN Three(Answer(numberOperators(new[2], new[4], third)))
         ELSE Usage

\* newArgs[2] is read before newArgc is tested: when there is none, it is what
\* malloc returned, and may compare equal to anything.
main(e) ==
  LET argv == Argv(e)
      new == parseArgs(argv) IN
  /\ cmd.pc = "idle"
  /\ \E third \in IF Len(new) > 2 THEN {new[3]} ELSE {<<t>> : t \in {"=", "-ef", "-gt", "?"}} :
       LET d == Decision(argv, new, third) IN
       cmd' = IF d.pc = "idle" THEN Idle
              ELSE [Idle EXCEPT !.pc = d.pc, !.result = d.result, !.expr = e, !.new = new]
  /\ UNCHANGED <<tree, type>>

Lookup(a) == IF Is(a, Name) THEN tree[a[1]] ELSE 0

\* open, fstat and close; the open file keeps its inode until it is closed.
\* open also fails when the system has no more files.
openFile(a, ino, failed) ==
  \/ ino = Lookup(a) /\ ~failed
  \/ ino = 0 /\ failed

\* The second part of fileFlags.
fileFlags ==
  LET flag == cmd.new[2] IN
  /\ cmd.pc = "open" /\ Dashed(flag)
  /\ \E ino \in Ino \cup {0}, failed \in BOOLEAN :
       /\ openFile(cmd.new[3], ino, failed)
       /\ cmd' = [cmd EXCEPT !.pc = "answer", !.failed = failed,
            !.result = IF /\ ino # 0
                          /\ Is(flag, {"-d"}) => type[ino] = "DIR"
                          /\ Is(flag, {"-f"}) => type[ino] = "FILE"
                       THEN 0 ELSE 1]
  /\ UNCHANGED <<tree, type>>

\* file1 -ef file2: the files are opened and closed one after the other, and
\* then their inode numbers compared.
open1 ==
  /\ cmd.pc = "open" /\ ~Dashed(cmd.new[2])
  /\ \E ino \in Ino \cup {0}, failed \in BOOLEAN :
       /\ openFile(cmd.new[2], ino, failed)
       /\ cmd' = [cmd EXCEPT !.pc = "open2", !.ino = ino, !.failed = failed]
  /\ UNCHANGED <<tree, type>>

open2 ==
  /\ cmd.pc = "open2"
  /\ \E ino \in Ino \cup {0}, failed \in BOOLEAN :
       /\ openFile(cmd.new[4], ino, failed)
       /\ cmd' = [cmd EXCEPT !.pc = "answer", !.failed = @ \/ failed,
            !.result = IF 0 \in {cmd.ino, ino} THEN 2 ELSE IF cmd.ino = ino THEN 0 ELSE 1]
  /\ UNCHANGED <<tree, type>>

\* The result is printed; the exit status is 0 whatever it is.
exit ==
  /\ cmd.pc = "answer"
  /\ cmd' = Idle
  /\ UNCHANGED <<tree, type>>

\* Other processes give a name to an inode, new or old, or take it away.
others(n, i) ==
  LET gone == Ino \ ({i} \cup {tree[m] : m \in Name \ {n}}) IN
  /\ tree[n] # i /\ 0 \in {tree[n], i}
  /\ tree' = [tree EXCEPT ![n] = i]
  /\ \E t \in {"DIR", "FILE", "DEVICE"} :
       /\ i # 0 /\ type[i] # "free" => type[i] = t /\ t # "DIR"
       /\ type' = [j \in Ino |-> IF j = i THEN t ELSE IF j \in gone THEN "free" ELSE type[j]]
  /\ cmd' = [cmd EXCEPT !.steady = cmd.pc = "idle"]

Next ==
  \/ \E e \in Expressions : main(e)
  \/ fileFlags \/ open1 \/ open2 \/ exit
  \/ \E n \in Name, i \in Ino \cup {0} : others(n, i)

Spec == Init /\ [][Next]_vars
-----------------------------------------------------------------------------
(* Properties *)

Plain(a, texts) == ~a.quoted /\ Len(a.texts) = 1 /\ a.texts[1] \in texts
File(a) == IF Plain(a, Name) THEN tree[a.texts[1]] ELSE 0
ValueOf(a) == Number[a.texts[1]]
Fits(a) == Plain(a, DOMAIN Number) /\ ValueOf(a) < INT \div 2

\* The texts of a, each run of blanks made one.
Squeezed(a) ==
  LET t == a.texts
      kept == SetToSortSeq({k \in DOMAIN t : k = 1 \/ t[k] # blank \/ t[k-1] # blank}, <)
  IN  [k \in DOMAIN kept |-> t[kept[k]]]
Same(a, b) == a.quoted = b.quoted /\ Squeezed(a) = Squeezed(b)
Indented(a) == a.texts # <<>> /\ a.texts[1] = blank
NoOperator(a) == \A k \in DOMAIN a.texts : a.texts[k] \notin {"=", "!=", "-ef", "-gt", "-lt"}

\* What the usage text says of an expression, for strings up to runs of blanks.
Holds(e) ==
  CASE Plain(e[1], {"-d"}) -> File(e[2]) # 0 /\ type[File(e[2])] = "DIR"
    [] Plain(e[1], {"-e"}) -> File(e[2]) # 0
    [] Plain(e[1], {"-f"}) -> File(e[2]) # 0 /\ type[File(e[2])] = "FILE"
    [] Plain(e[2], {"-ef"}) -> File(e[1]) # 0 /\ File(e[1]) = File(e[3])
    [] Plain(e[2], {"="}) -> Same(e[1], e[3])
    [] Plain(e[2], {"!="}) -> ~Same(e[1], e[3])
    [] Plain(e[2], {"-gt"}) -> ValueOf(e[1]) > ValueOf(e[3])
    [] Plain(e[2], {"-lt"}) -> ValueOf(e[1]) < ValueOf(e[3])

Unary(e) == Len(e) = 2 /\ Plain(e[1], {"-d", "-e", "-f"})
Binary(e) ==
  /\ Len(e) = 3 /\ ~Plain(e[1], Dashes)
  /\ \/ Plain(e[2], {"=", "!=", "-ef"})
     \/ Plain(e[2], {"-gt", "-lt"}) /\ Fits(e[1]) /\ Fits(e[3])

\* The answer of test is 0 just when the usage text calls the expression true,
\* provided that the files stay as they are meanwhile and can be opened, that
\* numbers fit an int and that the first operand does not begin with a dash.
\* Strings are put together again from the words that the shell has cut them
\* into, except that each run of blanks comes out as one, so that strings which
\* differ in that are equal, and that a string which begins with a blank falls
\* apart, since its opening quote, alone in its word, closes it as well: as the
\* first operand it makes the command fail, unless an operator is in it.  A
\* string without a closing quote, and an expression that is too short, get 2,
\* whatever newArgs[2] held (parseArgs, main).
TestAnswers ==
  LET e == cmd.expr
      closed == \A k \in 1..Len(e) : e[k].closed IN
  cmd.pc = "answer" =>
    /\ closed /\ (Unary(e) \/ Binary(e)) /\ cmd.steady /\ ~cmd.failed =>
         IF Indented(e[1]) THEN NoOperator(e[1]) => cmd.result = 2
         ELSE cmd.result = 0 <=> Holds(e)
    /\ closed /\ Len(e) < 3 /\ ~Unary(e) => cmd.result = 2
    /\ Len(e) > 0 /\ ~e[Len(e)].closed => cmd.result = 2
=============================================================================
