------------------------------ MODULE MCFiles ------------------------------
(***************************************************************************)
(* FileSystem and FileData for TLC: part says which of them a behaviour is *)
(* one of, and the variables of the other one stay as they are.            *)
(***************************************************************************)
EXTENDS MCFileSystem

VARIABLES part, fs, pinned, platter, lock, off, call, open, writes

dataVars == <<fs, pinned, platter, lock, off, call, open, writes>>

\* An empty disk, and one with four bytes in the first file: block 1 is its
\* direct block, block 2 its indirect block, which lists block 3.
Pair(x, y) == [c \in 0..1 |-> IF c = 0 THEN x ELSE y]
Blank == [used |-> {}, blk |-> [b \in 1..5 |-> Pair(0, 0)],
          addrs |-> [i \in {"i1", "i2"} |-> Pair(0, 0)],
          size |-> [i \in {"i1", "i2"} |-> 0]]
Half == [Blank EXCEPT !.used = {1, 2, 3}, !.size["i1"] = 4, !.addrs["i1"] = Pair(1, 2),
                      !.blk[1] = Pair(1, 1), !.blk[2] = Pair(3, 0), !.blk[3] = Pair(1, 1)]

\* Two processes share two files of up to one direct and two indirect blocks.
Data == INSTANCE FileData WITH
  Proc <- {1, 2}, File <- {1, 2}, Ino <- {"i1", "i2"}, ip <- <<"i1", "i2">>,
  NBLOCKS <- 5, NDIRECT <- 1, BSIZE <- 2, MaxWrite <- 2, Writes <- {1, 4},
  Reads <- {-1, 2}, Images <- {Blank, Half}, MaxCalls <- 2, UintMax <- 15,
  stable <- platter, l <- call, txn <- open, calls <- writes

Absent == "absent"
FilesInit ==
  /\ Init
  /\ \/ /\ part = "tree"
        /\ fs = Absent /\ pinned = Absent /\ platter = Absent /\ lock = Absent
        /\ off = Absent /\ call = Absent /\ open = Absent /\ writes = Absent
     \/ /\ part = "data" /\ Data!Init
        /\ dinode = CHOOSE t \in MCTrees : TRUE
FilesNext ==
  \/ part = "tree" /\ Next /\ UNCHANGED <<part, dataVars>>
  \/ part = "data" /\ Data!Next /\ UNCHANGED <<part, vars>>
FilesSpec == FilesInit /\ [][FilesNext]_<<part, vars, dataVars>>

\* Every block of the disk is free or has one pointer to it, now and after any
\* crash, and files have no holes (balloc, bmap, itrunc, writei).
BlocksAccounted == part = "data" => Data!BlocksAccounted

\* Files are arrays of bytes: writes of some leave the bytes of others alone,
\* a crash takes all of them to the last commit, and readi, with its unsigned
\* sums, never goes beyond the end: FileData implements ByteFiles.
IsByteFiles ==
  /\ part = "data" => Data!Abstract!Init
  /\ [][part = "data" => Data!Abstract!Next]_(Data!Abstract!vars)
  /\ [][part = "data" => Data!StaysInside]_dataVars
=============================================================================
