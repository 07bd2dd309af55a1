---------------------------- MODULE MCFileSystem ----------------------------
(* Instances of FileSystem for TLC. *)
EXTENDS FileSystem, TLC

CONSTANTS p1, p2

Abs(names) == [abs |-> TRUE, names |-> names]
Rel(names) == [abs |-> FALSE, names |-> names]

\* Calls with a name in the root, one in a directory, and names in the current
\* directory: every operation meets files and directories, names that are there
\* and names that are not.
top == Abs(<<"a">>)
sub == Abs(<<"a", "b">>)
own == Rel(<<"b">>)
here == Rel(<<".">>)
Uses(op, S) == [op : {op}, path : S, new : {<<>>}]
Links(S) == {[op |-> "link", path |-> s[1], new |-> s[2]] : s \in S}
MCRequests ==
  UNION {Uses("unlink", {top, sub, own, here}), Uses("create", {top, sub, own}),
         Uses("mkdir", {sub, own}), Uses("mknod", {own}), Uses("open", {sub, own, here}),
         Uses("open_write", {top, own}), Uses("chdir", {top, own}),
         Links({<<top, own>>, <<sub, own>>, <<own, sub>>})}

\* With "..", from the current directory.
RequestsDotDot ==
  LET paths == {top, sub, Rel(<<"..">>)} IN
  Links(paths \X paths) \cup UNION {Uses(op, paths) : op \in Ops \ {"link"}}

\* /a is a directory that holds a file or a directory b, or /a is a file;
\* a file has a second link.
Tree(r, d, e) ==
  [i \in Inum |-> CASE i = ROOTINO -> r [] i = 2 -> d [] i = 3 -> e [] OTHER -> Free]
Dir(i, parent, n, ents) ==
  [EmptyDir(i, parent) EXCEPT !.nlink = n, !.ents = @ \o ents]
Plain(n) == [type |-> "FILE", nlink |-> n, ents |-> <<>>]
MCTrees ==
  { Tree(Dir(1, 1, 2, <<Dirent("a", 2), Dirent("b", 3)>>), Dir(2, 1, 1, <<Dirent("b", 3)>>), Plain(2)),
    Tree(Dir(1, 1, 2, <<Dirent("a", 2)>>), Dir(2, 1, 2, <<Dirent("b", 3)>>), EmptyDir(3, 2)),
    Tree(Dir(1, 1, 1, <<Dirent("a", 2)>>), Plain(1), Free) }

Symmetry == Permutations(Proc)
=============================================================================
