---------------------------- MODULE InodeForest ----------------------------
(***************************************************************************)
(* What a caller may rely on when it creates, moves and removes names: the *)
(* live inodes form a forest of directories.  Making a name adds an inode  *)
(* that is not in use, and an empty one if it is a directory; an entry     *)
(* never leads to an inode that is gone; nobody becomes his own ancestor.  *)
(*                                                                         *)
(* It is a forest, and not a tree, because inodes lose their names: in a   *)
(* directory that is full, by a rename that fails half way, or when the    *)
(* directory that holds them is removed.  They stay in use until restart.  *)
(***************************************************************************)
EXTENDS Integers, FiniteSets

CONSTANTS Ids,      \* inodes
          Root,     \* the inode of "/"
          Names,
          Limit     \* entries per directory

VARIABLES kids,     \* live directory -> set of entries [name, idx]
          leaves    \* live inodes that are not directories

vars == <<kids, leaves>>

Live == DOMAIN kids \cup leaves

\* An inode and everything below it.
Below(idx) ==
  LET upto[n \in 0 .. Cardinality(Ids)] ==
        IF n = 0 THEN {idx}
        ELSE upto[n - 1] \cup
             {e.idx : e \in UNION {kids[d] : d \in upto[n - 1] \cap DOMAIN kids}}
  IN  upto[Cardinality(Ids)]

Init ==
  /\ kids = [d \in {Root} |-> {}]
  /\ leaves = {}

Linked(tree, d, name, idx) ==
  [tree EXCEPT ![d] = @ \cup {[name |-> name, idx |-> idx]}]

Unlinked(d, e) == [kids EXCEPT ![d] = @ \ {e}]

\* A full directory leaves the new inode without a name.
Make(d, name, idx) ==
  LET tree == IF Cardinality(kids[d]) < Limit
              THEN Linked(kids, d, name, idx) ELSE kids
  IN  \/ /\ kids' = [x \in DOMAIN kids \cup {idx} |->
                       IF x = idx THEN {} ELSE tree[x]]
         /\ UNCHANGED leaves
      \/ /\ kids' = tree
         /\ leaves' = leaves \cup {idx}

Move(d, e, to, name) ==
  /\ Cardinality(Unlinked(d, e)[to]) < Limit
  /\ to \notin Below(e.idx)
  /\ kids' = Linked(Unlinked(d, e), to, name, e.idx)
  /\ UNCHANGED leaves

Lose(d, e) == kids' = Unlinked(d, e) /\ UNCHANGED leaves

Remove(d, e) ==
  /\ kids' = [x \in DOMAIN kids \ {e.idx} |-> Unlinked(d, e)[x]]
  /\ leaves' = leaves \ {e.idx}

Restart ==
  /\ kids' = [d \in {Root} |-> {}]
  /\ leaves' = {}

Next ==
  \/ \E d \in DOMAIN kids, name \in Names, idx \in Ids \ Live : Make(d, name, idx)
  \/ \E d, to \in DOMAIN kids : \E e \in kids[d], name \in Names : Move(d, e, to, name)
  \/ \E d \in DOMAIN kids : \E e \in kids[d] : Lose(d, e)
  \/ \E d \in DOMAIN kids : \E e \in kids[d] : Remove(d, e)
  \/ Restart

Spec == Init /\ [][Next]_vars

=============================================================================
