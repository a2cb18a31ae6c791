------------------------------ MODULE TreeScan -----------------------------
(***************************************************************************)
(* cmd_tree and scan_files of main.c: the recursive listing of a card.     *)
(* All levels of the recursion share fbuff, which holds the path of the    *)
(* directory being read, and the static fno.  Each level keeps a DIR and   *)
(* the length i that the path had when it was entered.                     *)
(*                                                                         *)
(* A tree maps each directory to its entries in the order in which         *)
(* f_readdir returns them; "" is the root, and a name stands for one entry *)
(* of the card.  fbuff is the sequence of the names in it.                 *)
(***************************************************************************)
EXTENDS Integers, SequencesExt

CONSTANTS
  Trees,       \* the cards that may be in
  NameLength,  \* the length of each name
  BufferSize   \* sizeof(fbuff)

Root == ""
Names(t) == DOMAIN t \cup UNION {Range(t[d]) : d \in DOMAIN t}

\* Every entry is in one directory, the root in none, and no directory is below
\* itself: there are heights that fall from each directory to the next.
IsTree(t) ==
  /\ IsFiniteSet(DOMAIN t) /\ Root \in DOMAIN t
  /\ \A d \in DOMAIN t : t[d] \in Seq(Names(t))
  /\ \A n \in Names(t) : n # Root <=> \E d \in DOMAIN t : n \in Range(t[d])
  /\ \A d, e \in DOMAIN t : d # e => Range(t[d]) \cap Range(t[e]) = {}
  /\ \E height \in [DOMAIN t -> 0 .. Cardinality(DOMAIN t)] :
       \A d, e \in DOMAIN t : e \in Range(t[d]) => height[e] < height[d]

ASSUME CardAssumption ==
  /\ BufferSize \in Nat
  /\ \A t \in Trees : IsTree(t)

VARIABLES
  tree,     \* the card's directories
  fbuff,
  fno,      \* the name f_readdir returned last
  levels,   \* the open directories, the innermost last
  res,      \* the result being returned
  printed,  \* history: the lines printed by this command
  pc

treeVars == <<tree, fbuff, fno, levels, res, printed, pc>>

\* The names from the root to n.
Parent(t, n) == CHOOSE d \in DOMAIN t : n \in Range(t[d])
PathOf(t, n) ==
  LET path[m \in Names(t)] == IF m = Root THEN <<>>
                              ELSE Append(path[Parent(t, m)], m)
  IN path[n]

\* The bytes of a path in fbuff: a '/' before each name, and the end mark.
Bytes(path) == FoldLeft(LAMBDA b, n : b + 1 + NameLength[n], 1, path)

\* fs_ready is checked and f_getfree has succeeded.
cmd_tree ==
  /\ pc = "idle"
  /\ tree' \in Trees
  /\ fbuff' = <<>>
  /\ printed' = <<>>
  /\ pc' = "enter"
  /\ UNCHANGED <<fno, levels, res>>

\* f_opendir finds the directory that fbuff names.
OpenDir ==
  /\ pc = "enter"
  /\ \E d \in DOMAIN tree :
       /\ PathOf(tree, d) = fbuff
       /\ levels' = Append(levels, [dir |-> d, pos |-> 0, i |-> Len(fbuff)])
  /\ pc' = "read"
  /\ UNCHANGED <<tree, fbuff, fno, res, printed>>

\* It may fail, and it does when there is no such directory.
OpenDirFails ==
  /\ pc = "enter"
  /\ res' = "error"
  /\ pc' = "return"
  /\ UNCHANGED <<tree, fbuff, fno, levels, printed>>

\* f_readdir returns the next entry of the innermost directory.
Top == levels[Len(levels)]
Entry == tree[Top.dir][Top.pos + 1]
ReadDir ==
  /\ pc = "read" /\ Top.pos < Len(tree[Top.dir])
  /\ fno' = Entry
  /\ levels' = [levels EXCEPT ![Len(levels)].pos = @ + 1]

ListFile ==
  /\ ReadDir /\ Entry \notin DOMAIN tree
  /\ printed' = Append(printed, Append(fbuff, fno'))
  /\ UNCHANGED <<tree, fbuff, res, pc>>

\* The name is copied behind the path without a test of its length.  What the
\* program does with a buffer that is overrun is not modelled.
EnterDir ==
  /\ ReadDir /\ Entry \in DOMAIN tree
  /\ fbuff' = Append(SubSeq(fbuff, 1, Top.i), fno')
  /\ pc' = IF Bytes(fbuff') <= BufferSize THEN "enter" ELSE "overrun"
  /\ UNCHANGED <<tree, res, printed>>

\* The end of the directory, or an error.
ReadDirEnds ==
  /\ pc = "read"
  /\ \/ Top.pos = Len(tree[Top.dir]) /\ res' = "ok"
     \/ res' = "error"
  /\ levels' = Front(levels)
  /\ pc' = "return"
  /\ UNCHANGED <<tree, fbuff, fno, printed>>

\* Slip: the result of the recursive call is dropped.
ReturnIgnoresError ==
  /\ pc = "return" /\ levels # <<>>
  /\ fbuff' = SubSeq(fbuff, 1, Top.i)
  /\ pc' = "read"
  /\ UNCHANGED <<tree, fno, levels, res, printed>>

\* Behind the recursive call the path is cut again; an error ends this level
\* too.
Return ==
  /\ pc = "return" /\ levels # <<>>
  /\ fbuff' = SubSeq(fbuff, 1, Top.i)
  /\ \/ res = "ok" /\ pc' = "read" /\ UNCHANGED levels
     \/ res # "ok" /\ levels' = Front(levels) /\ UNCHANGED pc
  /\ UNCHANGED <<tree, fno, res, printed>>

\* scan_files is back in cmd_tree, which drops the result.
TreeDone ==
  /\ pc = "return" /\ levels = <<>>
  /\ pc' = "idle"
  /\ UNCHANGED <<tree, fbuff, fno, levels, res, printed>>

scan_files ==
  \/ OpenDir \/ OpenDirFails \/ ListFile \/ EnterDir \/ ReadDirEnds
  \/ Return \/ TreeDone

\* No card has been listed yet.
TreeInit ==
  /\ tree = [d \in {Root} |-> <<>>]
  /\ fbuff = <<>> /\ fno = Root /\ levels = <<>> /\ res = "ok"
  /\ printed = <<>> /\ pc = "idle"

TreeNext == cmd_tree \/ scan_files

(***************************************************************************)
(* Properties.                                                             *)
(***************************************************************************)

\* The lines that each entry has in a listing, by recursion over the tree.
Lines(t) ==
  LET lines[n \in Names(t)] ==
        IF n \in DOMAIN t
        THEN FlattenSeq([k \in DOMAIN t[n] |-> lines[t[n][k]]])
        ELSE <<PathOf(t, n)>>
  IN lines
Listing(t) == Lines(t)[Root]

\* What is printed is the beginning of the card's listing, every line with its
\* full path, and all of it when the scan returns without an error, although
\* all levels share one buffer and one fno: an error in a subdirectory leaves
\* no hole (main.c 338-365).  Only a card with a path that is too long overruns
\* the buffer: no level leaves anything in it (main.c 354-357).
ListingInOrder ==
  /\ IsPrefix(printed, Listing(tree))
  /\ pc = "return" /\ levels = <<>> /\ res = "ok" => printed = Listing(tree)
  /\ pc = "overrun" =>
       \E d \in DOMAIN tree : ~(Bytes(PathOf(tree, d)) <= BufferSize)
=============================================================================
