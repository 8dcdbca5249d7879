----------------------------- MODULE Directory -----------------------------
(***************************************************************************)
(* One directory of src/src/chisai-core/dir.c: an array of entries of      *)
(* which the first `size' are in use, here a sequence.  A directory never  *)
(* grows beyond one block.                                                 *)
(***************************************************************************)
EXTENDS Integers, Sequences, FiniteSetsExt

CONSTANTS Names,        \* the file names in use
          FullNames,    \* those of exactly CHISAI_FILE_LEN characters
          FilePerDir    \* CHISAI_FILE_PER_DIR

ASSUME NamesAssumption == FullNames \subseteq Names
ASSUME FilePerDirAssumption == FilePerDir \in Nat \ {0}

(* strcmp(dir->node[i].name, file_path) == 0.  A full name leaves no room  *)
(* for the terminating NUL in name[CHISAI_FILE_LEN], so the comparison     *)
(* runs on into the first byte of `idx' (the low one) behind it and finds  *)
(* the names equal only if that byte is 0.                                 *)
Matches(node, name) ==
  node.name = name /\ (name \in FullNames => node.idx % 256 = 0)

Slots(dir, name) == {i \in DOMAIN dir : Matches(dir[i], name)}

\* The inode of the first entry of that name, 0 if there is none.
dir_file_inode_idx(dir, name) ==
  IF Slots(dir, name) = {} THEN 0 ELSE dir[Min(Slots(dir, name))].idx

HasSpace(dir) == Len(dir) < FilePerDir

\* Slip: the bound is taken one entry too late.
InsertOneMore(dir, name, idx) ==
  IF Len(dir) > FilePerDir THEN dir
  ELSE Append(dir, [name |-> name, idx |-> idx])

\* A full directory is left as it is, and `false' returned.
dir_insert(dir, name, idx) ==
  IF HasSpace(dir) THEN Append(dir, [name |-> name, idx |-> idx]) ELSE dir

\* Slips: the gap is not filled; the size is not reduced.
ShrinkOnly(dir, name) ==
  IF Slots(dir, name) = {} THEN dir ELSE SubSeq(dir, 1, Len(dir) - 1)

KeepSize(dir, name) ==
  IF Slots(dir, name) = {} THEN dir
  ELSE [dir EXCEPT ![Min(Slots(dir, name))] = dir[Len(dir)]]

\* The last entry takes the place of the first one of that name.
dir_remove(dir, name) ==
  IF Slots(dir, name) = {} THEN dir
  ELSE SubSeq([dir EXCEPT ![Min(Slots(dir, name))] = dir[Len(dir)]],
              1, Len(dir) - 1)

=============================================================================
