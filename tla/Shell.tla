-------------------------------- MODULE Shell -------------------------------
(***************************************************************************)
(* The shell, user/sh.c, and init, user/init.c: a line is parsed in a child*)
(* of the shell, which carries it out with processes and pipes.  A program *)
(* that has been started reads its input to the end, and exits; but sh is  *)
(* the shell again, and reads its lines from the script it is given.       *)
(* A line is a sequence of tokens, a token a sequence of characters, and   *)
(* what is parsed is the characters; the tokens are for the properties.    *)
(***************************************************************************)
EXTENDS Integers, FiniteSets, SequencesExt

CONSTANTS Pid,       \* process slots besides init
          MAXARGS,
          Lines,     \* what may be typed
          Scripts,   \* what a script may hold: sequences of lines
          NPIPE,     \* bound: pipes at one time
          MaxLines   \* bound: lines typed

VARIABLES
  proc,     \* a process: where it is, its command, open files, parent, the line
            \* it is part of; waits left; the pipe it sets up; a shell's input,
            \* and the lines left of a script; histories: it is in the
            \* background, or has lost its parent to a failed fork; the files
            \* that its shell has open, and whether that is in the background
  shell,    \* init: the child that is the shell, or init itself
  typed

vars == <<proc, shell, typed>>

init == 0
None == [type |-> "none"]
Free == [pc |-> "free", cmd |-> None, fd |-> <<>>, parent |-> init, text |-> <<>>,
         waits |-> 0, p |-> <<0, 0>>, input |-> 0, script |-> <<>>,
         back |-> FALSE, lost |-> FALSE, top |-> [fd |-> <<>>, back |-> FALSE]]

Init ==
  /\ proc = [p \in Pid |-> Free]
  /\ shell = init /\ typed = 0
-----------------------------------------------------------------------------
(* Tokens *)

White == {" ", "nl"}
Symbols == {"<", "|", ">", "&", ";", "(", ")"}

\* A line as typed: a space after every token, except before symbols.
Spell(T) ==
  FlattenSeq([i \in DOMAIN T |->
    IF i < Len(T) /\ T[i+1][1] \in Symbols /\ T[i][1] \notin Symbols THEN T[i] ELSE Append(T[i], " ")])
  \o <<"nl">>

RECURSIVE Skip(_)
Skip(s) == IF s # <<>> /\ Head(s) \in White THEN Skip(Tail(s)) ELSE s

\* The length of the word at the start of s.
WordEnd(s) == CHOOSE k \in 0..Len(s) :
  /\ \A j \in 1..k : s[j] \notin White \cup Symbols
  /\ k = Len(s) \/ s[k+1] \in White \cup Symbols

\* The kind of the next token, its characters, and the rest.
gettoken(s0) ==
  LET s == Skip(s0)
      Token(tok, k) == [tok |-> tok, word |-> SubSeq(s, 1, k), rest |-> Skip(SubSeq(s, k + 1, Len(s)))]
  IN  IF s = <<>> THEN Token("end", 0)
      ELSE IF Len(s) > 1 /\ s[1] = ">" /\ s[2] = ">" THEN Token("+", 2)
      ELSE IF s[1] \in Symbols THEN Token(s[1], 1) ELSE Token("a", WordEnd(s))

peek(s, toks) == Skip(s) # <<>> /\ Head(Skip(s)) \in toks
-----------------------------------------------------------------------------
(* The parser; panic() ends it *)

Panic == [type |-> "panic"]
Parsed(cmd, s) == [cmd |-> cmd, rest |-> IF cmd = Panic THEN <<>> ELSE s]

execcmd == [type |-> "EXEC", argv |-> <<>>]
redircmd(subcmd, file, tok) == [type |-> "REDIR", cmd |-> subcmd, file |-> file, fd |-> IF tok = "<" THEN 0 ELSE 1]
backcmd(subcmd) == IF subcmd = Panic THEN Panic ELSE [type |-> "BACK", cmd |-> subcmd]
Binary(type, left, right) ==
  IF Panic \in {left, right} THEN Panic ELSE [type |-> type, left |-> left, right |-> right]

\* argv belongs to the innermost command.
RECURSIVE AddArg(_, _)
AddArg(cmd, w) == IF cmd.type = "EXEC" THEN [cmd EXCEPT !.argv = Append(@, w)]
                  ELSE [cmd EXCEPT !.cmd = AddArg(@, w)]

\* What follows after a part r of the line has been parsed is an operator of r.
RECURSIVE parseline(_), parsepipe(_), parseredirs(_, _), parseargs(_, _), Background(_)

WithFile(cmd, op, file) ==
  IF file.tok # "a" THEN Parsed(Panic, <<>>)
  ELSE parseredirs(redircmd(cmd, file.word, op.tok), file.rest)
Redirected(cmd, op) == WithFile(cmd, op, gettoken(op.rest))

parseredirs(cmd, s) ==
  IF cmd = Panic \/ ~peek(s, {"<", ">"}) THEN Parsed(cmd, s) ELSE Redirected(cmd, gettoken(s))

Closes(r) ==
  IF peek(r.rest, {")"}) THEN parseredirs(r.cmd, gettoken(r.rest).rest) ELSE Parsed(Panic, <<>>)
parseblock(s) == Closes(parseline(gettoken(s).rest))

Argument(r, argc, t) ==
  IF t.tok = "end" THEN r
  ELSE IF t.tok # "a" \/ argc + 1 >= MAXARGS THEN Parsed(Panic, <<>>)
  ELSE parseargs(parseredirs(AddArg(r.cmd, t.word), t.rest), argc + 1)
parseargs(r, argc) ==
  IF r.cmd = Panic \/ peek(r.rest, {"|", ")", "&", ";"}) THEN r
  ELSE Argument(r, argc, gettoken(r.rest))

parseexec(s) ==
  IF peek(s, {"("}) THEN parseblock(s) ELSE parseargs(parseredirs(execcmd, s), 0)

Piped(r, more) == Parsed(Binary("PIPE", r.cmd, more.cmd), more.rest)
PipeAfter(r) == IF peek(r.rest, {"|"}) THEN Piped(r, parsepipe(gettoken(r.rest).rest)) ELSE r
parsepipe(s) == PipeAfter(parseexec(s))

Background(r) ==
  IF peek(r.rest, {"&"}) THEN Background(Parsed(backcmd(r.cmd), gettoken(r.rest).rest)) ELSE r

Listed(r, more) == Parsed(Binary("LIST", r.cmd, more.cmd), more.rest)
ListAfter(r) == IF peek(r.rest, {";"}) THEN Listed(r, parseline(gettoken(r.rest).rest)) ELSE r
parseline(s) == ListAfter(Background(parsepipe(s)))

WholeLine(r) == IF Skip(r.rest) = <<>> THEN r.cmd ELSE Panic
parsecmd(s) == WholeLine(parseline(s))
-----------------------------------------------------------------------------
(* System calls *)

console == <<"console", 0>>
sh == <<"s", "h">>

close(f, S) == Restrict(f, DOMAIN f \ S)
fdalloc(f) == Min(0..Cardinality(DOMAIN f) \ DOMAIN f)
open(f, file) == fdalloc(f) :> file @@ f

Live == {p \in Pid : proc[p].pc \notin {"free", "zombie"}}
Spare == {p \in Pid : proc[p].pc = "free"}
Children(p) == {q \in Pid : proc[q].pc # "free" /\ proc[q].parent = p}
Holders(end) == {p \in Live : \E n \in DOMAIN proc[p].fd : proc[p].fd[n] = end}

\* exit closes all files and gives the children to init.
Exit(p, failed) ==
  proc' = [q \in Pid |->
    IF q = p THEN [Free EXCEPT !.pc = "zombie", !.parent = proc[p].parent]
    ELSE IF q \in Children(p) THEN [proc[q] EXCEPT !.parent = init, !.lost = @ \/ failed]
    ELSE proc[q]]

\* fork1: p goes on as me, its child as kid; or panic.
fork1(p, me, kid) ==
  \/ /\ Spare # {}
     /\ proc' = [proc EXCEPT ![p] = me, ![Min(Spare)] = [kid EXCEPT !.parent = p]]
  \/ Exit(p, TRUE)

At(p, pc) == proc[p].pc = pc
Run(r, cmd) == [r EXCEPT !.pc = "runcmd", !.cmd = cmd]
Is(p, type) == At(p, "runcmd") /\ proc[p].cmd.type = type
Keep == UNCHANGED <<shell, typed>>
-----------------------------------------------------------------------------
(* runcmd *)

parse(p) ==
  LET cmd == parsecmd(Spell(proc[p].text)) IN
  /\ At(p, "parsecmd") /\ Keep
  /\ IF cmd = Panic THEN Exit(p, FALSE) ELSE proc' = [proc EXCEPT ![p] = Run(@, cmd)]

runcmd_exec(p) ==
  LET argv == proc[p].cmd.argv IN
  /\ Is(p, "EXEC") /\ Keep
  /\ \/ argv # <<>> /\ proc' = [proc EXCEPT ![p].pc = IF argv[1] = sh THEN "main" ELSE "program"]
     \/ Exit(p, FALSE)

runcmd_redir(p) ==
  LET c == proc[p].cmd IN
  /\ Is(p, "REDIR") /\ Keep
  /\ \/ proc' = [proc EXCEPT ![p] = Run(@, c.cmd),
                             ![p].fd = open(close(@, {c.fd}), <<"file", c.file>>)]
     \/ Exit(p, FALSE)

runcmd_list(p) ==
  LET r == proc[p] IN
  /\ Is(p, "LIST") /\ Keep
  /\ fork1(p, [Run(r, r.cmd.right) EXCEPT !.pc = "wait", !.waits = 1], Run(r, r.cmd.left))

runcmd_back(p) ==
  LET r == proc[p] IN
  /\ Is(p, "BACK") /\ Keep
  /\ fork1(p, [r EXCEPT !.pc = "exit"], [Run(r, r.cmd.cmd) EXCEPT !.back = TRUE])

runcmd_pipe(p) ==
  LET r == proc[p]
      k == Min({j \in 1..NPIPE : Holders(<<"r", j>>) = {} /\ Holders(<<"w", j>>) = {}})
      half == open(r.fd, <<"r", k>>)
  IN  /\ Is(p, "PIPE") /\ Keep
      /\ \/ proc' = [proc EXCEPT ![p].pc = "left", ![p].p = <<fdalloc(r.fd), fdalloc(half)>>,
                                 ![p].fd = open(half, <<"w", k>>)]
         \/ Exit(p, FALSE)

pipe_left(p) ==
  /\ At(p, "left") /\ Keep
  /\ fork1(p, [proc[p] EXCEPT !.pc = "right"], [proc[p] EXCEPT !.pc = "dup1"])

pipe_right(p) ==
  /\ At(p, "right") /\ Keep
  /\ fork1(p, [proc[p] EXCEPT !.pc = "close"], [proc[p] EXCEPT !.pc = "dup0"])

Ends(p) == {proc[p].p[1], proc[p].p[2]}

(* Faulty variants, named for the fault. *)
OneEndLeft(p) == close(proc[p].fd, {proc[p].p[1]})
ForgetsRight(r) == 1

\* close(n); dup(p[n]); close(p[0]); close(p[1])
Moved(p, n) == close(open(close(proc[p].fd, {n}), proc[p].fd[proc[p].p[n+1]]), Ends(p))

pipe_dup(p) ==
  /\ Keep
  /\ \/ /\ At(p, "dup1")
        /\ proc' = [proc EXCEPT ![p] = Run(@, @.cmd.left), ![p].fd = Moved(p, 1)]
     \/ /\ At(p, "dup0")
        /\ proc' = [proc EXCEPT ![p] = Run(@, @.cmd.right), ![p].fd = Moved(p, 0)]

\* close(p[0]); close(p[1]); and the number of waits
Closed(p) == close(proc[p].fd, Ends(p))
PipeWaits(r) == 2

pipe_close(p) ==
  /\ At(p, "close") /\ Keep
  /\ proc' = [proc EXCEPT ![p] = [Run(@, None) EXCEPT !.pc = "wait", !.waits = PipeWaits(@)],
                          ![p].fd = Closed(p)]

\* After the last wait: the prompt, the right of a list, or exit.
Waited(r) ==
  IF r.waits > 1 THEN [r EXCEPT !.waits = @ - 1]
  ELSE [r EXCEPT !.waits = 0, !.pc = IF r.cmd.type = "prompt" THEN "prompt"
                                     ELSE IF r.cmd = None THEN "exit" ELSE "runcmd"]

\* There is a child for every wait.
wait(p) ==
  /\ At(p, "wait") /\ Keep
  /\ \E q \in Children(p) : /\ proc[q].pc = "zombie"
                            /\ proc' = [proc EXCEPT ![q] = Free, ![p] = Waited(@)]

exit(p) == At(p, "exit") /\ Exit(p, FALSE) /\ Keep

\* A program has read its input to the end, and its output has been read.
program_exit(p) ==
  LET f == proc[p].fd IN
  /\ At(p, "program") /\ Keep
  /\ f[0][1] = "r" => Holders(<<"w", f[0][2]>>) = {}
  /\ f[1][1] = "w" => LET H == Holders(<<"r", f[1][2]>>) IN
       H = {} \/ \E q \in H : At(q, "program") /\ proc[q].fd[0] = <<"r", f[1][2]>>
  /\ Exit(p, FALSE)
-----------------------------------------------------------------------------
(* main of sh.c and of init.c *)

Comment(s) == s[1] = "#"
ChangeDir(s) == Len(s) > 2 /\ s[1] = "c" /\ s[2] = "d" /\ s[3] = " "

Prompt == [type |-> "prompt"]
Started(r, input, fd, script) ==
  [r EXCEPT !.pc = "prompt", !.cmd = Prompt, !.input = input, !.fd = fd,
            !.script = script, !.top = [fd |-> fd, back |-> r.back]]

\* 0, 1 and 2 are open.  A script is opened beside them, if it is there, and
\* stays open; the shell's children inherit it.
main(p) ==
  LET r == proc[p] IN
  /\ At(p, "main") /\ Keep
  /\ IF Len(r.cmd.argv) = 1 THEN proc' = [proc EXCEPT ![p] = Started(r, 0, r.fd, <<>>)]
     ELSE \/ \E s \in Scripts :
               proc' = [proc EXCEPT ![p] = Started(r, fdalloc(r.fd), open(r.fd, <<"file", r.cmd.argv[2]>>), s)]
          \/ proc' = [proc EXCEPT ![p] = Started(r, -1, r.fd, <<>>)]

\* The next line, typed or of the script, or end of file.
getcmd(p) ==
  LET Reads(T, r) == IF Comment(Spell(T)) \/ ChangeDir(Spell(T)) THEN r
                     ELSE [r EXCEPT !.pc = "fork1", !.text = T]
      lines == proc[p].script IN
  /\ At(p, "prompt") /\ UNCHANGED shell
  /\ \/ /\ proc[p].input = 0 /\ typed < MaxLines /\ typed' = typed + 1
        /\ \E T \in Lines : proc' = [proc EXCEPT ![p] = Reads(T, @)]
     \/ /\ lines # <<>> /\ UNCHANGED typed
        /\ proc' = [proc EXCEPT ![p] = Reads(Head(lines), [@ EXCEPT !.script = Tail(@)])]
     \/ lines = <<>> /\ Exit(p, FALSE) /\ UNCHANGED typed

main_fork1(p) ==
  LET r == proc[p] IN
  /\ At(p, "fork1") /\ Keep
  /\ fork1(p, [r EXCEPT !.pc = "wait", !.waits = 1], [r EXCEPT !.pc = "parsecmd", !.script = <<>>])

\* init starts a shell, which may not be there; if fork fails, it panics.
init_fork ==
  /\ shell = init /\ UNCHANGED typed
  /\ IF Spare = {} THEN shell' = -1 /\ UNCHANGED proc
     ELSE /\ shell' = Min(Spare)
          /\ \E pc \in {"main", "exit"} :
               proc' = [proc EXCEPT ![shell'] = [Free EXCEPT !.pc = pc, !.cmd = AddArg(execcmd, sh),
                                                             !.fd = [n \in 0..2 |-> console]]]

\* init waits for the shell and for whoever else is given to it.
init_wait(q) ==
  /\ shell > init /\ proc[q].pc = "zombie" /\ proc[q].parent = init
  /\ proc' = [proc EXCEPT ![q] = Free]
  /\ shell' = IF q = shell THEN init ELSE shell
  /\ UNCHANGED typed

halted == shell = -1 /\ UNCHANGED vars

Step(p) ==
  \/ parse(p) \/ runcmd_exec(p) \/ runcmd_redir(p) \/ runcmd_list(p) \/ runcmd_back(p)
  \/ runcmd_pipe(p) \/ pipe_left(p) \/ pipe_right(p) \/ pipe_dup(p) \/ pipe_close(p)
  \/ wait(p) \/ exit(p) \/ program_exit(p) \/ main(p) \/ getcmd(p) \/ main_fork1(p)

Next ==
  \/ init_fork \/ halted
  \/ shell # -1 /\ \E p \in Pid : init_wait(p) \/ Step(p)

Spec == Init /\ [][Next]_vars
-----------------------------------------------------------------------------
(* What a line means, by its tokens T alone.  A unit is a simple command or a *)
(* block with its redirections: the tokens lo..hi, of which own may redirect. *)

Redirect == {<<"<">>, <<">">>, <<">", ">">>}
Separate == {<<"|">>, <<"&">>, <<";">>, <<"(">>, <<")">>}

Count(T, t, S) == Cardinality({j \in S : T[j] = t})
Balanced(T, S) == Count(T, <<"(">>, S) = Count(T, <<")">>, S)

\* Where the tokens after i come to a separator.
UpTo(T, i) == CHOOSE h \in i..Len(T) :
  /\ \A j \in i+1..h : T[j] \notin Separate
  /\ h = Len(T) \/ T[h+1] \in Separate

IsArg(T, i) == T[i][1] \notin Symbols /\ (i = 1 \/ T[i-1] \notin Redirect)

Simple(T, i) ==
  LET lo == CHOOSE k \in 1..i : (\A j \in k..i : T[j] \notin Separate)
                                /\ (k = 1 \/ T[k-1] \in Separate)
  IN  [lo |-> lo, hi |-> UpTo(T, i), own |-> lo..UpTo(T, i)]

Block(T, b) ==
  LET e == Min({j \in b..Len(T) : Balanced(T, b..j)}) IN
  [lo |-> b, hi |-> UpTo(T, e), own |-> e+1..UpTo(T, e)]

Around(T, u) == {b \in 1..u.lo-1 : T[b] = <<"(">> /\ ~Balanced(T, b..u.lo-1)
                                   /\ \A c \in b..u.lo-1 : Count(T, <<"(">>, b..c) > Count(T, <<")">>, b..c)}

\* Descriptor n: the first redirection, else the pipe, else as around it, and
\* outside of all blocks as the shell has it in top.
RECURSIVE Stdio(_, _, _, _)
Stdio(T, u, n, top) ==
  LET files == {j \in u.own : j - 1 \in u.own
                              /\ T[j-1] \in (IF n = 0 THEN {<<"<">>} ELSE Redirect \ {<<"<">>})}
      beside == IF n = 0 THEN u.lo - 1 ELSE u.hi + 1
  IN  IF files # {} THEN <<"file", T[Min(files)]>>
      ELSE IF beside \in DOMAIN T /\ T[beside] = <<"|">> THEN <<"bar", beside>>
      ELSE IF Around(T, u) = {} THEN top[n] ELSE Stdio(T, Block(T, Max(Around(T, u))), n, top)

\* Whether the pipeline that u is part of, or one around it, is followed by &.
RECURSIVE InBackground(_, _)
InBackground(T, u) ==
  LET ends == {j \in u.hi+1..Len(T) : T[j] \in Separate \ {<<"|">>, <<"(">>} /\ Balanced(T, u.hi+1..j-1)}
  IN  \/ ends # {} /\ T[Min(ends)] = <<"&">>
      \/ Around(T, u) # {} /\ InBackground(T, Block(T, Max(Around(T, u))))

Arguments(T, u) ==
  LET args == SetToSortSeq({i \in u.own : IsArg(T, i)}, <) IN [k \in DOMAIN args |-> T[args[k]]]

Unit(r) == Simple(r.text, CHOOSE i \in DOMAIN r.text : IsArg(r.text, i) /\ r.text[i] = r.cmd.argv[1])
-----------------------------------------------------------------------------
(* Properties *)

\* A program is started with the arguments, the input and the output that its
\* place in the line calls for, in the background if that says so; pipes join
\* the commands on either side of a bar; and a process that waits or runs a
\* program has the descriptors of its shell and no others: 0, 1 and 2, and the
\* script that the shell reads, but no end of a pipe whose reader would wait
\* for it in vain (main, runcmd, parseline and what they call).
Wired ==
  LET Runs(p) == proc[p].pc \in {"program", "main"} /\ p # shell
      Io(p, n) == Stdio(proc[p].text, Unit(proc[p]), n, proc[p].top.fd) IN
  \A p \in Live :
    LET r == proc[p]  top == r.top  u == Unit(r)
        io == [n \in DOMAIN top.fd |-> IF n \in 0..1 THEN Io(p, n) ELSE top.fd[n]] IN
    /\ Runs(p) \/ At(p, "wait") => DOMAIN r.fd = DOMAIN top.fd
    /\ At(p, "prompt") => r.fd = top.fd
    /\ Runs(p) =>
         /\ r.cmd.argv = Arguments(r.text, u)
         /\ r.back <=> InBackground(r.text, u) \/ top.back
         /\ \A n \in DOMAIN r.fd :
              IF io[n][1] = "bar" THEN r.fd[n][1] = (IF n = 0 THEN "r" ELSE "w") ELSE r.fd[n] = io[n]
         /\ \A q \in Live :
              io[0][1] = "bar" /\ Runs(q) /\ Io(q, 1)[1] = "bar" /\ proc[q].fd[1] = <<"w", r.fd[0][2]>> =>
                proc[q].text = r.text /\ Io(q, 1) = io[0]

\* When the shell is back at its prompt, what still runs was put in the
\* background, or lost its parent to a fork that failed.
PromptIsFree ==
  shell \in Live /\ At(shell, "prompt") =>
    \A p \in Live \ {shell} :
      /\ proc[p].parent # shell
      /\ proc[p].parent = init => proc[p].back \/ proc[p].lost
=============================================================================
