--------------------------- MODULE NamespaceProofs ---------------------------
(***************************************************************************)
(* Proofs about Namespace, for every set of names, every size of a         *)
(* directory, every depth of a path and every number of inodes and blocks. *)
(***************************************************************************)
EXTENDS Namespace, BlockGroupsProofs, SequenceTheorems

-----------------------------------------------------------------------------
(* A directory                                                             *)

LEMMA DirsType ==
  ASSUME NEW dir \in Dirs
  PROVE  /\ dir \in Seq(Entries) /\ Len(dir) \in 0 .. FilePerDir
         /\ DOMAIN dir = 1 .. Len(dir)
         /\ \A i \in 1 .. Len(dir) : dir[i] \in Entries
BY FilePerDirAssumption DEF Dirs, BoundedSeq, SeqOf

LEMMA ShortSeqIsDir ==
  ASSUME NEW dir \in Seq(Entries), Len(dir) <= FilePerDir
  PROVE  dir \in Dirs
<1>1. dir \in [1 .. Len(dir) -> Entries] /\ Len(dir) \in 0 .. FilePerDir
  BY LenProperties
<1>. QED
  BY <1>1 DEF Dirs, BoundedSeq, SeqOf

LEMMA EmptyIsDir == <<>> \in Dirs /\ DOMAIN <<>> = {}
<1> DEFINE dir == <<>>
<1>1. dir \in Seq(Entries) /\ Len(dir) = 0
  BY EmptySeq
<1> HIDE DEF dir
<1>2. dir \in Dirs
  <2>1. Len(dir) <= FilePerDir
    BY <1>1, FilePerDirAssumption
  <2>. QED
    BY <1>1, <2>1, ShortSeqIsDir
<1>3. DOMAIN dir = {}
  BY <1>1, <1>2, DirsType
<1>. QED
  BY <1>2, <1>3 DEF dir

LEMMA IndicesAreNat == Total \in Nat /\ Indices \subseteq Nat /\ 0 \notin Indices
<1>1. Total \in Nat
  BY GroupsAssumption, BlkInodeNumAssumption, SMT DEF Total
<1>. QED
  BY <1>1 DEF Indices

\* A lookup gives 0, or the inode of the slot that a removal would empty.
LEMMA LookupEffect ==
  ASSUME NEW dir \in Dirs, NEW name
  PROVE  /\ Slots(dir, name) = {} => dir_file_inode_idx(dir, name) = 0
         /\ Slots(dir, name) # {} =>
              /\ Min(Slots(dir, name)) \in DOMAIN dir
              /\ dir[Min(Slots(dir, name))].name = name
              /\ dir_file_inode_idx(dir, name) = dir[Min(Slots(dir, name))].idx
              /\ dir_file_inode_idx(dir, name) \in Indices
<1>1. CASE Slots(dir, name) = {}
  BY <1>1 DEF dir_file_inode_idx
<1>2. CASE Slots(dir, name) # {}
  <2>1. Slots(dir, name) \in SUBSET Nat
    BY DirsType DEF Slots
  <2>2. Min(Slots(dir, name)) \in Slots(dir, name)
    BY <1>2, <2>1, LeastNatural
  <2>3. Min(Slots(dir, name)) \in DOMAIN dir /\ dir[Min(Slots(dir, name))].name = name
    BY <2>2 DEF Slots, Matches
  <2>4. dir[Min(Slots(dir, name))] \in Entries
    BY <2>3, DirsType
  <2>. QED
    BY <1>2, <2>3, <2>4 DEF dir_file_inode_idx, Entries
<1>. QED
  BY <1>1, <1>2

\* An insertion puts one entry behind the others, or does nothing.
LEMMA InsertNothing ==
  ASSUME NEW dir, NEW name, NEW idx, ~HasSpace(dir)
  PROVE  dir_insert(dir, name, idx) = dir
BY DEF dir_insert

LEMMA InsertType ==
  ASSUME NEW dir \in Dirs, NEW name \in Names, NEW idx \in Indices, HasSpace(dir)
  PROVE  dir_insert(dir, name, idx) \in Dirs
<1> DEFINE elt == [name |-> name, idx |-> idx]
           new == Append(dir, elt)
<1>1. elt \in Entries
  BY DEF Entries
<1>2. dir \in Seq(Entries) /\ Len(dir) \in Nat
  BY DirsType
<1> HIDE DEF elt, new
<1>3. new \in Seq(Entries) /\ Len(new) = Len(dir) + 1
  BY <1>1, <1>2, AppendProperties DEF new
<1>4. new \in Dirs
  BY <1>2, <1>3, ShortSeqIsDir, FilePerDirAssumption DEF HasSpace
<1>. QED
  BY <1>4 DEF dir_insert, new, elt

\* A directory with one entry more, of inode idx, behind the others.
Longer(new, dir, idx) ==
  /\ DOMAIN new = DOMAIN dir \cup {Len(dir) + 1}
  /\ Len(dir) + 1 \notin DOMAIN dir
  /\ \A i \in DOMAIN dir : new[i] = dir[i]
  /\ new[Len(dir) + 1].idx = idx

LEMMA InsertEffect ==
  ASSUME NEW dir \in Dirs, NEW name \in Names, NEW idx \in Indices, HasSpace(dir)
  PROVE  Longer(dir_insert(dir, name, idx), dir, idx)
<1> DEFINE elt == [name |-> name, idx |-> idx]
           new == Append(dir, elt)
<1>1. elt \in Entries /\ elt.idx = idx
  BY DEF Entries
<1>2. dir \in Seq(Entries) /\ Len(dir) \in Nat /\ DOMAIN dir = 1 .. Len(dir)
  BY DirsType
<1> HIDE DEF elt, new
<1>3. /\ new \in Seq(Entries) /\ Len(new) = Len(dir) + 1
      /\ \A i \in 1 .. Len(dir) : new[i] = dir[i]
      /\ new[Len(dir) + 1] = elt
  BY <1>1, <1>2, AppendProperties DEF new
<1>4. DOMAIN new = 1 .. Len(dir) + 1
  BY <1>3, LenProperties
<1>5. dir_insert(dir, name, idx) = new
  BY DEF dir_insert, new, elt
<1>. QED
  BY <1>1, <1>2, <1>3, <1>4, <1>5 DEF Longer

(* A removal puts the last entry where the removed one was: `from' tells   *)
(* where each of the entries that are left comes from.                     *)
Origin(dir, name, i) == IF i = Min(Slots(dir, name)) THEN Len(dir) ELSE i

LEMMA RemoveEffect ==
  ASSUME NEW dir \in Dirs, NEW name, Slots(dir, name) # {}
  PROVE  /\ dir_remove(dir, name) \in Dirs
         /\ DOMAIN dir_remove(dir, name) = 1 .. Len(dir) - 1
         /\ \A i \in 1 .. Len(dir) - 1 :
              /\ Origin(dir, name, i) \in DOMAIN dir \ {Min(Slots(dir, name))}
              /\ dir_remove(dir, name)[i] = dir[Origin(dir, name, i)]
         /\ \A i, j \in 1 .. Len(dir) - 1 :
              Origin(dir, name, i) = Origin(dir, name, j) => i = j
<1> DEFINE m == Min(Slots(dir, name))
           n == Len(dir)
           swapped == [dir EXCEPT ![m] = dir[n]]
           new == SubSeq(swapped, 1, n - 1)
<1>1. m \in 1 .. n /\ n \in 0 .. FilePerDir /\ DOMAIN dir = 1 .. n
      /\ dir \in Seq(Entries) /\ dir[n] \in Entries
  BY LookupEffect, DirsType
<1> HIDE DEF m, n
<1>2. /\ swapped \in Seq(Entries) /\ Len(swapped) = n
      /\ \A j \in 1 .. n : swapped[j] = IF j = m THEN dir[n] ELSE dir[j]
  <2>. HIDE DEF swapped
  <2>. QED
    BY <1>1, ExceptSeq DEF swapped, n
<1> HIDE DEF swapped
<1>3. \A i \in 1 .. n - 1 : swapped[i] \in Entries
  BY <1>1, <1>2, ElementOfSeq
<1>4. /\ new \in Seq(Entries) /\ Len(new) = n - 1
      /\ \A i \in 1 .. n - 1 : new[i] = swapped[i]
  <2>1. 1 \in Int /\ n - 1 \in Int
    BY <1>1
  <2>2. new \in Seq(Entries) /\ Len(new) = IF 1 <= n - 1 THEN n - 1 - 1 + 1 ELSE 0
    BY <1>3, <2>1, SubSeqProperties
  <2>3. \A i \in 1 .. n - 1 - 1 + 1 : new[i] = swapped[1 + i - 1]
    BY <1>3, <2>1, SubSeqProperties
  <2>. QED
    BY <1>1, <2>2, <2>3
<1> HIDE DEF new
<1>5. new \in Dirs /\ DOMAIN new = 1 .. n - 1
  BY <1>1, <1>4, ShortSeqIsDir, DirsType, FilePerDirAssumption
<1>6. dir_remove(dir, name) = new
  BY DEF dir_remove, new, swapped, m, n
<1>7. \A i \in 1 .. n - 1 :
        /\ Origin(dir, name, i) \in DOMAIN dir \ {m}
        /\ new[i] = dir[Origin(dir, name, i)]
  BY <1>1, <1>2, <1>4 DEF Origin, m, n
<1>8. \A i, j \in 1 .. n - 1 : Origin(dir, name, i) = Origin(dir, name, j) => i = j
  BY <1>1 DEF Origin, m, n
<1>. QED
  BY <1>5, <1>6, <1>7, <1>8 DEF m, n

\* A name that is not there is removed by doing nothing.
LEMMA RemoveNothing ==
  ASSUME NEW dir, NEW name, Slots(dir, name) = {}
  PROVE  dir_remove(dir, name) = dir
BY DEF dir_remove

-----------------------------------------------------------------------------
(* The directories together                                                *)

\* What [old EXCEPT ![at] = value] is, without the function it makes.
Updated(new, old, at, value) ==
  /\ DOMAIN new = DOMAIN old
  /\ new[at] = value
  /\ \A x \in DOMAIN old \ {at} : new[x] = old[x]

LEMMA ExceptUpdates ==
  ASSUME NEW f, NEW at \in DOMAIN f, NEW value
  PROVE  Updated([f EXCEPT ![at] = value], f, at, value)
BY DEF Updated

(* The structural invariants, of any set U of inodes in use, any set B of  *)
(* blocks in use, any inode table I and any contents T of the blocks.      *)
DirsIn(U, I) == {idx \in U : I[idx].dir}

TablesOK(I, T) ==
  /\ DOMAIN I = Indices
  /\ \A idx \in Indices : I[idx] \in Inodes
  /\ \A idx \in Indices : ~I[idx].dir => I[idx].blk = 0
  /\ DOMAIN T = Indices
  /\ \A blk \in Indices : T[blk] \in Dirs

LeadToUsed(U, I, T) ==
  \A d \in DirsIn(U, I) : \A i \in DOMAIN T[I[d].blk] :
    T[I[d].blk][i].idx \in U \ {BADBLK_INODE, ROOT_INODE}

LeadOnce(U, I, T) ==
  \A d, e \in DirsIn(U, I) :
    \A i \in DOMAIN T[I[d].blk], j \in DOMAIN T[I[e].blk] :
      T[I[d].blk][i].idx = T[I[e].blk][j].idx => d = e /\ i = j

OwnBlock(U, B, I) ==
  \A d \in DirsIn(U, I) :
    /\ I[d].blk \in B
    /\ \A e \in DirsIn(U, I) : I[e].blk = I[d].blk => e = d

Sound(U, B, I, T) ==
  /\ U \subseteq Indices /\ B \subseteq Indices
  /\ TablesOK(I, T)
  /\ LeadToUsed(U, I, T)
  /\ LeadOnce(U, I, T)
  /\ OwnBlock(U, B, I)

NoneLeadsTo(U, I, T, idx) ==
  \A d \in DirsIn(U, I) : \A i \in DOMAIN T[I[d].blk] : T[I[d].blk][i].idx # idx

\* Taking one entry out, as rename and remove do.
LEMMA UnlinkSound ==
  ASSUME NEW U, NEW B, NEW I, NEW T, Sound(U, B, I, T),
         NEW p \in DirsIn(U, I), NEW name, Slots(T[I[p].blk], name) # {},
         NEW new, Updated(new, T, I[p].blk, dir_remove(T[I[p].blk], name)),
         NEW idx, idx = dir_file_inode_idx(T[I[p].blk], name)
  PROVE  /\ Sound(U, B, I, new)
         /\ idx \in U \ {BADBLK_INODE, ROOT_INODE}
         /\ NoneLeadsTo(U, I, new, idx)
<1> USE DEF Sound, TablesOK
<1> DEFINE b == I[p].blk
           m == Min(Slots(T[b], name))
           from(d, i) == IF d = p THEN Origin(T[b], name, i) ELSE i
<1>1. b \in B /\ b \in Indices /\ T[b] \in Dirs
  BY DEF OwnBlock
<1>2. m \in DOMAIN T[b] /\ idx = T[b][m].idx
  BY <1>1, LookupEffect
<1>3. idx \in U \ {BADBLK_INODE, ROOT_INODE}
  BY <1>2 DEF LeadToUsed
<1>4. /\ DOMAIN new = Indices /\ new[b] = dir_remove(T[b], name)
      /\ \A blk \in Indices \ {b} : new[blk] = T[blk]
  BY <1>1 DEF Updated
<1>5. \A blk \in Indices : new[blk] \in Dirs
  BY <1>1, <1>4, RemoveEffect
<1>6. ASSUME NEW d \in DirsIn(U, I), NEW i \in DOMAIN new[I[d].blk]
      PROVE  /\ from(d, i) \in DOMAIN T[I[d].blk]
             /\ new[I[d].blk][i] = T[I[d].blk][from(d, i)]
             /\ ~(d = p /\ from(d, i) = m)
  <2>1. CASE d = p
    BY <2>1, <1>1, <1>4, <1>6, RemoveEffect
  <2>2. CASE d # p
    <3>1. I[d].blk # b /\ I[d].blk \in Indices
      BY <2>2 DEF OwnBlock
    <3>. QED
      BY <2>2, <3>1, <1>4
  <2>. QED
    BY <2>1, <2>2
<1>7. ASSUME NEW d \in DirsIn(U, I),
             NEW i \in DOMAIN new[I[d].blk], NEW j \in DOMAIN new[I[d].blk],
             from(d, i) = from(d, j)
      PROVE  i = j
  <2>1. CASE d = p
    BY <2>1, <1>1, <1>4, <1>7, RemoveEffect
  <2>2. CASE d # p
    BY <2>2, <1>7
  <2>. QED
    BY <2>1, <2>2
<1> HIDE DEF from, m, b
<1>8. LeadToUsed(U, I, new)
  BY <1>6 DEF LeadToUsed
<1>9. LeadOnce(U, I, new)
  <2> SUFFICES ASSUME NEW d \in DirsIn(U, I), NEW e \in DirsIn(U, I),
                      NEW i \in DOMAIN new[I[d].blk], NEW j \in DOMAIN new[I[e].blk],
                      new[I[d].blk][i].idx = new[I[e].blk][j].idx
               PROVE  d = e /\ i = j
    BY DEF LeadOnce
  <2>1. /\ from(d, i) \in DOMAIN T[I[d].blk] /\ from(e, j) \in DOMAIN T[I[e].blk]
        /\ new[I[d].blk][i] = T[I[d].blk][from(d, i)]
        /\ new[I[e].blk][j] = T[I[e].blk][from(e, j)]
    BY <1>6
  <2>2. T[I[d].blk][from(d, i)].idx = T[I[e].blk][from(e, j)].idx
    BY <2>1
  <2>3. d = e /\ from(d, i) = from(e, j)
    BY <2>1, <2>2 DEF LeadOnce
  <2>. QED
    BY <2>3, <1>7
<1>10. NoneLeadsTo(U, I, new, idx)
  <2> SUFFICES ASSUME NEW d \in DirsIn(U, I), NEW i \in DOMAIN new[I[d].blk],
                      new[I[d].blk][i].idx = idx
               PROVE  FALSE
    BY DEF NoneLeadsTo
  <2>1. T[I[d].blk][from(d, i)].idx = T[I[p].blk][m].idx
    BY <1>2, <1>6 DEF b
  <2>2. d = p /\ from(d, i) = m
    BY <2>1, <1>2, <1>6 DEF LeadOnce, b
  <2>. QED
    BY <2>2, <1>6
<1>. QED
  BY <1>3, <1>4, <1>5, <1>8, <1>9, <1>10

\* The contents may be represented anew.
LEMMA SameContentsSound ==
  ASSUME NEW U, NEW B, NEW I, NEW T, Sound(U, B, I, T),
         NEW new, DOMAIN new = Indices, \A blk \in Indices : new[blk] = T[blk]
  PROVE  Sound(U, B, I, new)
<1>1. \A d \in DirsIn(U, I) : I[d].blk \in Indices
  BY DEF Sound, OwnBlock
<1>. QED
  BY <1>1 DEF Sound, TablesOK, LeadToUsed, LeadOnce

\* One entry more in one directory, for an inode that has none.
LEMMA ExtendSound ==
  ASSUME NEW U, NEW B, NEW I, NEW T, Sound(U, B, I, T),
         NEW p \in DirsIn(U, I), NEW last,
         NEW idx \in U, idx \notin {BADBLK_INODE, ROOT_INODE},
         NoneLeadsTo(U, I, T, idx),
         NEW new, DOMAIN new = Indices, new[I[p].blk] \in Dirs,
         \A blk \in Indices \ {I[p].blk} : new[blk] = T[blk],
         DOMAIN new[I[p].blk] = DOMAIN T[I[p].blk] \cup {last},
         \A i \in DOMAIN T[I[p].blk] : new[I[p].blk][i] = T[I[p].blk][i],
         new[I[p].blk][last].idx = idx
  PROVE  Sound(U, B, I, new)
<1> DEFINE old(d, i) == i \in DOMAIN T[I[d].blk]
<1>0. /\ U \subseteq Indices /\ B \subseteq Indices /\ TablesOK(I, T)
      /\ LeadToUsed(U, I, T) /\ LeadOnce(U, I, T) /\ OwnBlock(U, B, I)
  BY DEF Sound
<1>1. \A blk \in Indices : new[blk] \in Dirs
  BY <1>0 DEF TablesOK
<1>4. ASSUME NEW d \in DirsIn(U, I), NEW i \in DOMAIN new[I[d].blk]
      PROVE  \/ old(d, i) /\ new[I[d].blk][i] = T[I[d].blk][i]
             \/ d = p /\ i = last /\ new[I[d].blk][i].idx = idx
  <2>1. CASE d = p
    BY <2>1, <1>4
  <2>2. CASE d # p
    <3>1. I[d].blk # I[p].blk /\ I[d].blk \in Indices
      BY <2>2, <1>0 DEF OwnBlock
    <3>. QED
      BY <2>2, <3>1, <1>4
  <2>. QED
    BY <2>1, <2>2
<1> HIDE DEF old
<1>5. LeadToUsed(U, I, new)
  <2> SUFFICES ASSUME NEW d \in DirsIn(U, I), NEW i \in DOMAIN new[I[d].blk]
               PROVE  new[I[d].blk][i].idx \in U \ {BADBLK_INODE, ROOT_INODE}
    BY DEF LeadToUsed
  <2>. QED
    BY <1>0, <1>4 DEF LeadToUsed, old
<1>6. LeadOnce(U, I, new)
  <2> SUFFICES ASSUME NEW d \in DirsIn(U, I), NEW e \in DirsIn(U, I),
                      NEW i \in DOMAIN new[I[d].blk], NEW j \in DOMAIN new[I[e].blk],
                      new[I[d].blk][i].idx = new[I[e].blk][j].idx
               PROVE  d = e /\ i = j
    BY DEF LeadOnce
  <2>1. CASE old(d, i) /\ new[I[d].blk][i] = T[I[d].blk][i]
             /\ old(e, j) /\ new[I[e].blk][j] = T[I[e].blk][j]
    BY <1>0, <2>1 DEF LeadOnce, old
  <2>2. CASE old(d, i) /\ new[I[d].blk][i] = T[I[d].blk][i]
             /\ new[I[e].blk][j].idx = idx
    BY <2>2 DEF NoneLeadsTo, old
  <2>3. CASE old(e, j) /\ new[I[e].blk][j] = T[I[e].blk][j]
             /\ new[I[d].blk][i].idx = idx
    BY <2>3 DEF NoneLeadsTo, old
  <2>4. CASE d = p /\ i = last /\ e = p /\ j = last
    BY <2>4
  <2>. QED
    BY <2>1, <2>2, <2>3, <2>4, <1>4
<1>. QED
  BY <1>0, <1>1, <1>5, <1>6 DEF Sound, TablesOK

\* Putting one entry in, for an inode that has none.
LEMMA LinkSound ==
  ASSUME NEW U, NEW B, NEW I, NEW T, Sound(U, B, I, T),
         NEW p \in DirsIn(U, I), NEW name \in Names,
         NEW idx \in U, idx \notin {BADBLK_INODE, ROOT_INODE},
         NoneLeadsTo(U, I, T, idx),
         NEW new, Updated(new, T, I[p].blk, dir_insert(T[I[p].blk], name, idx))
  PROVE  Sound(U, B, I, new)
<1> DEFINE b == I[p].blk
           dir == T[b]
           ins == dir_insert(dir, name, idx)
<1>1. /\ b \in Indices /\ dir \in Dirs /\ idx \in Indices
      /\ DOMAIN T = Indices
  BY DEF Sound, TablesOK, OwnBlock
<1> HIDE DEF ins
<1>2. /\ DOMAIN new = Indices /\ new[b] = ins
      /\ \A blk \in Indices \ {b} : new[blk] = T[blk]
  BY <1>1 DEF Updated, ins
<1>3. CASE ~HasSpace(dir)
  <2>1. ins = dir
    BY <1>3, InsertNothing DEF ins
  <2>. QED
    BY <1>2, <2>1, SameContentsSound
<1>4. CASE HasSpace(dir)
  <2>1. Longer(ins, dir, idx)
    BY <1>1, <1>4, InsertEffect DEF ins
  <2>2. ins \in Dirs
    BY <1>1, <1>4, InsertType DEF ins
  <2> DEFINE last == Len(dir) + 1
  <2>3. /\ DOMAIN ins = DOMAIN dir \cup {last}
        /\ \A i \in DOMAIN dir : ins[i] = dir[i]
        /\ ins[last].idx = idx
    BY <2>1 DEF Longer
  <2> HIDE DEF last
  <2>4. /\ DOMAIN new = Indices /\ new[I[p].blk] \in Dirs
        /\ \A blk \in Indices \ {I[p].blk} : new[blk] = T[blk]
        /\ DOMAIN new[I[p].blk] = DOMAIN T[I[p].blk] \cup {last}
        /\ \A i \in DOMAIN T[I[p].blk] : new[I[p].blk][i] = T[I[p].blk][i]
        /\ new[I[p].blk][last].idx = idx
    BY <1>2, <2>2, <2>3
  <2>. QED
    BY <2>4, ExtendSound
<1>. QED
  BY <1>3, <1>4

\* An inode that was not in use is taken, and for a directory a block too.
LEMMA NewInodeSound ==
  ASSUME NEW U, NEW B, NEW I, NEW T, Sound(U, B, I, T),
         NEW idx \in Indices \ U,
         NEW inode \in Inodes, ~inode.dir, inode.blk = 0,
         NEW newI, Updated(newI, I, idx, inode)
  PROVE  /\ Sound(U \cup {idx}, B, newI, T)
         /\ DirsIn(U \cup {idx}, newI) = DirsIn(U, I)
         /\ \A d \in DirsIn(U, I) : newI[d] = I[d]
         /\ NoneLeadsTo(U \cup {idx}, newI, T, idx)
<1>0. /\ DOMAIN I = Indices /\ \A i \in Indices : I[i] \in Inodes
      /\ U \subseteq Indices /\ B \subseteq Indices
      /\ \A i \in Indices : ~I[i].dir => I[i].blk = 0
      /\ DOMAIN T = Indices /\ \A b \in Indices : T[b] \in Dirs
      /\ LeadToUsed(U, I, T) /\ LeadOnce(U, I, T) /\ OwnBlock(U, B, I)
  BY DEF Sound, TablesOK
<1>1. /\ DOMAIN newI = Indices /\ \A i \in Indices : newI[i] \in Inodes
      /\ ~newI[idx].dir /\ newI[idx].blk = 0
      /\ \A i \in Indices \ {idx} : newI[i] = I[i]
  BY <1>0 DEF Updated
<1>2. /\ DirsIn(U \cup {idx}, newI) = DirsIn(U, I)
      /\ \A d \in DirsIn(U, I) : newI[d] = I[d]
  BY <1>0, <1>1 DEF DirsIn
<1>3. LeadToUsed(U \cup {idx}, newI, T)
  BY <1>0, <1>2 DEF LeadToUsed
<1>n. NoneLeadsTo(U \cup {idx}, newI, T, idx)
  BY <1>0, <1>2 DEF LeadToUsed, NoneLeadsTo
<1>4. LeadOnce(U \cup {idx}, newI, T)
  <2> SUFFICES ASSUME NEW d \in DirsIn(U, I), NEW e \in DirsIn(U, I),
                      NEW i \in DOMAIN T[I[d].blk], NEW j \in DOMAIN T[I[e].blk],
                      T[I[d].blk][i].idx = T[I[e].blk][j].idx
               PROVE  d = e /\ i = j
    BY <1>0, <1>2 DEF LeadOnce
  <2>. QED
    BY <1>0 DEF LeadOnce
<1>5. OwnBlock(U \cup {idx}, B, newI)
  BY <1>0, <1>2 DEF OwnBlock
<1>6. \A i \in Indices : ~newI[i].dir => newI[i].blk = 0
  BY <1>0, <1>1
<1>. QED
  BY <1>0, <1>1, <1>2, <1>3, <1>n, <1>4, <1>5, <1>6 DEF Sound, TablesOK

TakesDir(U, B, I, T, idx, blk, newI, newT) ==
  /\ Sound(U, B, I, T)
  /\ idx \in Indices \ U /\ blk \in Indices \ B
  /\ Updated(newI, I, idx, [dir |-> TRUE, blk |-> blk])
  /\ Updated(newT, T, blk, <<>>)

LEMMA NewDirSound ==
  ASSUME NEW U, NEW B, NEW I, NEW T, NEW idx, NEW blk, NEW newI, NEW newT,
         TakesDir(U, B, I, T, idx, blk, newI, newT)
  PROVE  /\ Sound(U \cup {idx}, B \cup {blk}, newI, newT)
         /\ DirsIn(U, I) \subseteq DirsIn(U \cup {idx}, newI)
         /\ \A d \in DirsIn(U, I) : newI[d] = I[d]
         /\ NoneLeadsTo(U \cup {idx}, newI, newT, idx)
<1> DEFINE inode == [dir |-> TRUE, blk |-> blk]
<1>a. /\ Sound(U, B, I, T)
      /\ idx \in Indices \ U /\ blk \in Indices \ B
      /\ Updated(newI, I, idx, inode) /\ Updated(newT, T, blk, <<>>)
  BY DEF TakesDir
<1>e. inode \in Inodes /\ inode.dir /\ inode.blk = blk
  BY <1>a DEF Inodes
<1> HIDE DEF inode
<1>0. /\ DOMAIN I = Indices /\ \A i \in Indices : I[i] \in Inodes
      /\ U \subseteq Indices /\ B \subseteq Indices
      /\ \A i \in Indices : ~I[i].dir => I[i].blk = 0
      /\ DOMAIN T = Indices /\ \A b \in Indices : T[b] \in Dirs
      /\ LeadToUsed(U, I, T) /\ LeadOnce(U, I, T) /\ OwnBlock(U, B, I)
      /\ idx \in Indices \ U /\ blk \in Indices \ B
  BY <1>a DEF Sound, TablesOK
<1>1. /\ DOMAIN newI = Indices /\ \A i \in Indices : newI[i] \in Inodes
      /\ newI[idx].dir /\ newI[idx].blk = blk
      /\ \A i \in Indices \ {idx} : newI[i] = I[i]
  BY <1>0, <1>a, <1>e DEF Updated
<1>2. /\ DirsIn(U \cup {idx}, newI) = DirsIn(U, I) \cup {idx}
      /\ \A d \in DirsIn(U, I) : newI[d] = I[d]
  BY <1>0, <1>1 DEF DirsIn
<1>3. /\ DOMAIN newT = Indices /\ newT[blk] = <<>>
      /\ \A b \in Indices \ {blk} : newT[b] = T[b]
  BY <1>0, <1>a, <1>e DEF Updated
<1>4. \A b \in Indices : newT[b] \in Dirs
  BY <1>0, <1>3, EmptyIsDir
<1>5. DOMAIN newT[newI[idx].blk] = {}
  BY <1>0, <1>1, <1>3, EmptyIsDir
<1>6. \A d \in DirsIn(U, I) : I[d].blk # blk /\ newT[newI[d].blk] = T[I[d].blk]
  BY <1>0, <1>2, <1>3 DEF OwnBlock
<1>7. ASSUME NEW d \in DirsIn(U \cup {idx}, newI), NEW i \in DOMAIN newT[newI[d].blk]
      PROVE  /\ d \in DirsIn(U, I) /\ i \in DOMAIN T[I[d].blk]
             /\ newT[newI[d].blk][i] = T[I[d].blk][i]
  BY <1>0, <1>2, <1>5, <1>6, <1>7
<1>8. ASSUME NEW d \in DirsIn(U \cup {idx}, newI), NEW i \in DOMAIN newT[newI[d].blk]
      PROVE  newT[newI[d].blk][i].idx \in U \ {BADBLK_INODE, ROOT_INODE}
  <2>1. T[I[d].blk][i].idx \in U \ {BADBLK_INODE, ROOT_INODE}
    BY <1>0, <1>7 DEF LeadToUsed
  <2>. QED
    BY <1>7, <2>1
<1>l. LeadToUsed(U \cup {idx}, newI, newT)
  BY <1>8 DEF LeadToUsed
<1>n. NoneLeadsTo(U \cup {idx}, newI, newT, idx)
  BY <1>0, <1>8 DEF NoneLeadsTo
<1>9. LeadOnce(U \cup {idx}, newI, newT)
  <2> SUFFICES ASSUME NEW d \in DirsIn(U \cup {idx}, newI),
                      NEW e \in DirsIn(U \cup {idx}, newI),
                      NEW i \in DOMAIN newT[newI[d].blk],
                      NEW j \in DOMAIN newT[newI[e].blk],
                      newT[newI[d].blk][i].idx = newT[newI[e].blk][j].idx
               PROVE  d = e /\ i = j
    BY <1>0 DEF LeadOnce
  <2>1. /\ d \in DirsIn(U, I) /\ i \in DOMAIN T[I[d].blk]
        /\ newT[newI[d].blk][i] = T[I[d].blk][i]
    BY <1>7
  <2>2. /\ e \in DirsIn(U, I) /\ j \in DOMAIN T[I[e].blk]
        /\ newT[newI[e].blk][j] = T[I[e].blk][j]
    BY <1>7
  <2>. QED
    BY <1>0, <2>1, <2>2 DEF LeadOnce
<1>o. OwnBlock(U \cup {idx}, B \cup {blk}, newI)
  <2> SUFFICES ASSUME NEW d \in DirsIn(U, I) \cup {idx}
               PROVE  /\ newI[d].blk \in B \cup {blk}
                      /\ \A e \in DirsIn(U, I) \cup {idx} :
                           newI[e].blk = newI[d].blk => e = d
    BY <1>0, <1>2 DEF OwnBlock
  <2>1. CASE d = idx
    BY <1>0, <2>1, <1>1, <1>2, <1>6
  <2>2. CASE d # idx
    BY <1>0, <2>2, <1>1, <1>2, <1>6 DEF OwnBlock
  <2>. QED
    BY <1>0, <2>1, <2>2
<1>10. \A i \in Indices : ~newI[i].dir => newI[i].blk = 0
  BY <1>0, <1>1
<1>. QED
  BY <1>0, <1>1, <1>2, <1>3, <1>4, <1>l, <1>n, <1>9, <1>o, <1>10 DEF Sound, TablesOK

\* An inode without an entry, and its block, are given up.
LEMMA GiveUpSound ==
  ASSUME NEW U, NEW B, NEW I, NEW T, Sound(U, B, I, T),
         NEW idx \in U, NoneLeadsTo(U, I, T, idx)
  PROVE  Sound(U \ {idx}, B \ {I[idx].blk}, I, T)
<1>0. /\ DOMAIN I = Indices /\ \A i \in Indices : I[i] \in Inodes
      /\ U \subseteq Indices /\ B \subseteq Indices
      /\ \A i \in Indices : ~I[i].dir => I[i].blk = 0
      /\ DOMAIN T = Indices /\ \A b \in Indices : T[b] \in Dirs
      /\ LeadToUsed(U, I, T) /\ LeadOnce(U, I, T) /\ OwnBlock(U, B, I)
  BY DEF Sound, TablesOK
<1>1. DirsIn(U \ {idx}, I) = DirsIn(U, I) \ {idx}
  BY <1>0 DEF DirsIn
<1>2. LeadToUsed(U \ {idx}, I, T)
  BY <1>0, <1>1 DEF LeadToUsed, NoneLeadsTo
<1>3. LeadOnce(U \ {idx}, I, T)
  BY <1>0, <1>1 DEF LeadOnce
<1>4. ASSUME NEW d \in DirsIn(U \ {idx}, I)
      PROVE  I[d].blk \in B /\ I[d].blk # I[idx].blk
  <2>1. I[d].blk \in B /\ I[d].blk \in Indices
    BY <1>0, <1>1 DEF OwnBlock
  <2>2. CASE I[idx].dir
    BY <1>0, <2>2, <2>1, <1>1 DEF OwnBlock, DirsIn
  <2>3. CASE ~I[idx].dir
    BY <1>0, <2>3, <2>1, IndicesAreNat
  <2>. QED
    BY <1>0, <2>1, <2>2, <2>3
<1>5. OwnBlock(U \ {idx}, B \ {I[idx].blk}, I)
  BY <1>0, <1>1, <1>4 DEF OwnBlock
<1>. QED
  BY <1>0, <1>2, <1>3, <1>5 DEF Sound, TablesOK

\* With nothing in use, as in a process that was just started.
LEMMA EmptySound ==
  ASSUME NEW I, NEW T, TablesOK(I, T)
  PROVE  Sound({}, {}, I, T)
<1>1. DirsIn({}, I) = {}
  BY DEF DirsIn
<1>. QED
  BY <1>1 DEF Sound, LeadToUsed, LeadOnce, OwnBlock

-----------------------------------------------------------------------------
(* Looking up                                                              *)

LEMMA PathType ==
  ASSUME NEW path \in Files
  PROVE  /\ path \in Seq(Names) /\ Len(path) \in Nat \ {0}
         /\ Last(path) \in Names
         /\ Front(path) \in Seq(Names) /\ Len(Front(path)) = Len(path) - 1
         /\ \A k \in 1 .. Len(path) - 1 : Front(path)[k] = path[k]
<1>1. path \in Seq(Names) /\ path # <<>>
  BY MaxDepthAssumption DEF Files, Paths, BoundedSeq, SeqOf
<1>2. Len(path) \in Nat \ {0}
  BY <1>1, EmptySeq
<1>3. \A k \in 1 .. Len(path) : path[k] \in Names
  BY <1>1, ElementOfSeq
<1>4. /\ Front(path) \in Seq(Names)
      /\ Len(Front(path)) = IF 1 <= Len(path) - 1 THEN Len(path) - 1 - 1 + 1 ELSE 0
      /\ \A k \in 1 .. Len(path) - 1 - 1 + 1 : Front(path)[k] = path[1 + k - 1]
  <2>1. \A k \in 1 .. Len(path) - 1 : path[k] \in Names
    BY <1>2, <1>3
  <2>2. 1 \in Int /\ Len(path) - 1 \in Int
    BY <1>2
  <2>. QED
    BY <2>1, <2>2, SubSeqProperties DEF Front
<1>5. \A k \in 1 .. Len(path) - 1 : Front(path)[k] = path[k]
  BY <1>2, <1>4
<1>6. Last(path) \in Names
  BY <1>2, <1>3 DEF Last
<1>7. Len(Front(path)) = Len(path) - 1
  <2>1. Len(Front(path)) = IF 1 <= Len(path) - 1 THEN Len(path) - 1 - 1 + 1 ELSE 0
    BY <1>4
  <2> DEFINE n == Len(path)
             m == Len(Front(path))
  <2>2. n \in Nat \ {0} /\ m = IF 1 <= n - 1 THEN n - 1 - 1 + 1 ELSE 0
    BY <1>2, <2>1
  <2> HIDE DEF n, m
  <2>3. m = n - 1
    BY <2>2
  <2>. QED
    BY <2>3 DEF n, m
<1>. QED
  BY <1>1, <1>2, <1>4, <1>5, <1>6, <1>7

\* The loop of fs_path_to_inode, round by round.
Round(tab, path, walk, k) ==
  IF k = 0 THEN IF exist(inodes, ROOT_INODE) THEN ROOT_INODE ELSE 0
  ELSE Enter(tab, walk[k - 1], path[k])

(* The walk is defined: if there were a number of rounds for which no      *)
(* function satisfied its equation, the least such number would have a     *)
(* predecessor, whose function can be extended by a round.                 *)
LEMMA WalkDefined ==
  ASSUME NEW tab, NEW path, Len(path) \in Nat
  PROVE  Walk(tab, path) =
           [k \in 0 .. Len(path) |-> Round(tab, path, Walk(tab, path), k)]
<1> DEFINE IsWalk(f, n) == f = [k \in 0 .. n |-> Round(tab, path, f, k)]
           Undefined == {n \in Nat : ~ \E f : IsWalk(f, n)}
<1>1. Undefined = {}
  <2> SUFFICES ASSUME Undefined # {}
               PROVE  FALSE
    OBVIOUS
  <2> DEFINE n == Min(Undefined)
  <2>1. n \in Undefined /\ \A m \in Undefined : n <= m
    BY LeastNatural
  <2> HIDE DEF n
  <2>2. CASE n = 0
    <3> DEFINE root == Round(tab, path, <<>>, 0)
               f == [k \in 0 .. 0 |-> root]
    <3>1. \A k \in 0 .. 0 : Round(tab, path, f, k) = root
      BY DEF Round
    <3> HIDE DEF root
    <3>2. IsWalk(f, 0)
      BY <3>1
    <3>. QED
      BY <2>1, <2>2, <3>2
  <2>3. CASE n # 0
    <3>1. n - 1 \in Nat /\ n - 1 \notin Undefined
      BY <2>1, <2>3
    <3>2. PICK g : IsWalk(g, n - 1)
      BY <3>1
    <3> DEFINE f == [k \in 0 .. n |-> IF k = n THEN Enter(tab, g[n - 1], path[n])
                                     ELSE g[k]]
    <3>3. ASSUME NEW k \in 0 .. n
          PROVE  f[k] = Round(tab, path, f, k)
      <4>1. CASE k = n
        BY <4>1, <2>1, <2>3 DEF Round
      <4>2. CASE k # n
        <5>1. f[k] = Round(tab, path, g, k)
          BY <4>2, <3>2, <2>1
        <5>2. k # 0 => f[k - 1] = g[k - 1]
          BY <4>2, <2>1
        <5>. QED
          BY <5>1, <5>2 DEF Round
      <4>. QED
        BY <4>1, <4>2
    <3>4. f = [k \in 0 .. n |-> f[k]]
      OBVIOUS
    <3> HIDE DEF f
    <3>5. IsWalk(f, n)
      BY <3>3, <3>4
    <3>. QED
      BY <2>1, <3>5
  <2>. QED
    BY <2>2, <2>3
<1>2. \E f : IsWalk(f, Len(path))
  BY <1>1
<1>3. Walk(tab, path) = CHOOSE f : IsWalk(f, Len(path))
  BY DEF Walk, Round
<1>. QED
  BY <1>2, <1>3

\* What fs_path_to_inode needs of the tables and the bitmaps.
Readable(tab) ==
  /\ TablesOK(inodeTab, tab)
  /\ {BADBLK_INODE, ROOT_INODE} \subseteq Indices

LEMMA ExistMeansUsed ==
  ASSUME NEW grps, NEW idx \in Indices \cup {0}
  PROVE  exist(grps, idx) <=> idx \in Used(grps)
BY IndicesAreNat DEF exist, Used

LEMMA EnterType ==
  ASSUME NEW tab, Readable(tab), NEW idx \in Indices \cup {0}, NEW name
  PROVE  Enter(tab, idx, name) \in Used(inodes) \cup {0}
<1> DEFINE blk == inodeTab[idx].blk
           child == dir_file_inode_idx(tab[blk], name)
<1>1. CASE idx = 0 \/ ~IsReadable(idx)
  BY <1>1 DEF Enter
<1>2. CASE idx # 0 /\ IsReadable(idx)
  <2>1. blk \in Indices \cup {0}
    BY <1>2 DEF Readable, TablesOK, Inodes
  <2>2. blk \in Indices
    BY <1>2, <2>1 DEF IsReadable, exist
  <2>3. child \in Indices \cup {0}
    BY <2>2, LookupEffect DEF Readable, TablesOK
  <2>4. Enter(tab, idx, name) = IF exist(inodes, child) THEN child ELSE 0
    BY <1>2 DEF Enter
  <2>. QED
    BY <2>3, <2>4, ExistMeansUsed
<1>. QED
  BY <1>1, <1>2

\* The walk is at an inode in use, or nowhere, all the time.
LEMMA WalkType ==
  ASSUME NEW tab, Readable(tab), NEW path, Len(path) \in Nat
  PROVE  \A k \in 0 .. Len(path) : Walk(tab, path)[k] \in Used(inodes) \cup {0}
<1> DEFINE walk == Walk(tab, path)
           Wrong == {k \in 0 .. Len(path) : walk[k] \notin Used(inodes) \cup {0}}
<1>1. \A k \in 0 .. Len(path) : walk[k] = Round(tab, path, walk, k)
  BY WalkDefined
<1> HIDE DEF walk
<1>2. Wrong = {}
  <2> SUFFICES ASSUME Wrong # {}
               PROVE  FALSE
    OBVIOUS
  <2> DEFINE k == Min(Wrong)
  <2>1. k \in Wrong /\ \A j \in Wrong : k <= j
    BY LeastNatural
  <2> HIDE DEF k
  <2>2. walk[k] = Round(tab, path, walk, k) /\ walk[k] \notin Used(inodes) \cup {0}
    BY <1>1, <2>1
  <2>3. CASE k = 0
    <3>1. ROOT_INODE \in Indices
      BY DEF Readable
    <3>. QED
      BY <2>2, <2>3, <3>1, ExistMeansUsed DEF Round
  <2>4. CASE k # 0
    <3>1. k - 1 \in 0 .. Len(path) /\ k - 1 \notin Wrong
      BY <2>1, <2>4
    <3>2. walk[k - 1] \in Indices \cup {0}
      BY <3>1 DEF Used
    <3>3. walk[k] = Enter(tab, walk[k - 1], path[k])
      BY <2>2, <2>4 DEF Round
    <3>. QED
      BY <2>2, <3>2, <3>3, EnterType
  <2>. QED
    BY <2>3, <2>4
<1>. QED
  BY <1>2 DEF walk

\* The walk to the parent is the walk to the name, but for the last round.
LEMMA WalkPrefix ==
  ASSUME NEW tab, NEW path \in Files
  PROVE  \A k \in 0 .. Len(path) - 1 : Walk(tab, path)[k] = Walk(tab, Front(path))[k]
<1> DEFINE walk == Walk(tab, path)
           front == Walk(tab, Front(path))
           n == Len(path) - 1
           Differ == {k \in 0 .. n : walk[k] # front[k]}
<1>0. n \in Nat /\ Len(path) \in Nat /\ Len(Front(path)) = n
  BY PathType
<1>1. \A k \in 0 .. n : /\ walk[k] = Round(tab, path, walk, k)
                       /\ front[k] = Round(tab, Front(path), front, k)
  <2>1. 0 .. n \subseteq 0 .. Len(path) /\ Len(Front(path)) \in Nat
    BY <1>0
  <2>2. \A k \in 0 .. Len(path) : walk[k] = Round(tab, path, walk, k)
    BY <1>0, WalkDefined
  <2>3. \A k \in 0 .. Len(Front(path)) : front[k] = Round(tab, Front(path), front, k)
    BY <2>1, WalkDefined
  <2>. QED
    BY <1>0, <2>1, <2>2, <2>3
<1> HIDE DEF walk, front
<1>2. Differ = {}
  <2> SUFFICES ASSUME Differ # {}
               PROVE  FALSE
    OBVIOUS
  <2> DEFINE k == Min(Differ)
  <2>1. k \in Differ /\ \A j \in Differ : k <= j
    <3>1. Differ \in SUBSET Nat
      BY <1>0
    <3>. QED
      BY <3>1, LeastNatural
  <2> HIDE DEF k
  <2>2. CASE k = 0
    BY <1>1, <2>1, <2>2 DEF Round
  <2>3. CASE k # 0
    <3>1. k - 1 \in 0 .. n /\ k - 1 \notin Differ /\ k \in 1 .. n
      BY <1>0, <2>1, <2>3
    <3>2. Front(path)[k] = path[k]
      BY <3>1, PathType
    <3>. QED
      BY <1>1, <2>1, <2>3, <3>1, <3>2 DEF Round
  <2>. QED
    BY <2>2, <2>3
<1>. QED
  BY <1>2 DEF walk, front

\* A parent that was found is a live directory, the inode that owns its block.
LEMMA ParentIsDir ==
  ASSUME NEW tab, Readable(tab), NEW path \in Files,
         fs_path_to_parent(tab, path) = "OK"
  PROVE  /\ Parent(tab, path) \in DirsIn(Used(inodes), inodeTab)
         /\ ParentBlk(tab, path) \in Used(blocks)
         /\ Last(path) \in Names
         /\ IsReadable(Parent(tab, path))
<1> DEFINE p == Parent(tab, path)
<1>1. p # 0 /\ IsReadable(p) /\ Last(path) \notin LongNames
  BY DEF fs_path_to_parent
<1>2. Len(Front(path)) \in Nat /\ Last(path) \in Names
  BY PathType
<1>3. p \in Used(inodes) \cup {0}
  BY <1>2, WalkType DEF Parent, fs_path_to_inode
<1> HIDE DEF p
<1>4. p \in Used(inodes) /\ p \in Indices
  BY <1>1, <1>3 DEF Used
<1>5. inodeTab[p].blk \in Indices \cup {0}
  BY <1>4 DEF Readable, TablesOK, Inodes
<1>6. inodeTab[p].blk \in Used(blocks) /\ inodeTab[p].blk # 0
  BY <1>1, <1>5, ExistMeansUsed DEF IsReadable, exist
<1>7. inodeTab[p].dir
  BY <1>4, <1>6 DEF Readable, TablesOK
<1>. QED
  BY <1>1, <1>2, <1>4, <1>6, <1>7 DEF p, ParentBlk, DirsIn

\* The last round of the walk is the search in the parent.
LEMMA PathEndsInParent ==
  ASSUME NEW tab, NEW path \in Files
  PROVE  fs_path_to_inode(tab, path) = Enter(tab, Parent(tab, path), Last(path))
<1> DEFINE n == Len(path)
<1>1. n \in Nat \ {0} /\ Len(Front(path)) = n - 1
  BY PathType
<1>2. Walk(tab, path)[n] = Round(tab, path, Walk(tab, path), n)
  <2>1. \A k \in 0 .. n : Walk(tab, path)[k] = Round(tab, path, Walk(tab, path), k)
    BY <1>1, WalkDefined
  <2>. QED
    BY <1>1, <2>1
<1>3. Walk(tab, path)[n - 1] = Walk(tab, Front(path))[n - 1]
  BY <1>1, WalkPrefix
<1>. QED
  BY <1>1, <1>2, <1>3 DEF fs_path_to_inode, Parent, Round, Last

-----------------------------------------------------------------------------
(* The invariant                                                           *)

(* TypeOK and the structural invariants need one another, and               *)
(*   - hints that are free, so that an allocation does not take an inode or *)
(*     block that is in use;                                                *)
(*   - that only a directory has a block in this model, so that what        *)
(*     fs_path_to_parent finds is one;                                      *)
(*   - that while the file system is up the two reserved inodes are in use, *)
(*     so that they are never handed out, and the first is no directory.    *)
Structure == Sound(Used(inodes), Used(blocks), inodeTab, dirTab)

ReservedInodes ==
  /\ ~inodeTab[BADBLK_INODE].dir
  /\ phase = "up" => {BADBLK_INODE, ROOT_INODE} \subseteq Used(inodes)

IInv ==
  /\ TypeOK
  /\ HintsAreFree(inodes) /\ HintsAreFree(blocks)
  /\ Structure
  /\ ReservedInodes
  /\ NoGhostNames

LEMMA ReservedAreIndices == {BADBLK_INODE, ROOT_INODE} \subseteq Indices
<1>1. Groups \in Nat /\ 0 < Groups /\ BlkInodeNum \in Nat
  BY GroupsAssumption, BlkInodeNumAssumption
<1>2. 0 * BlkInodeNum + BlkInodeNum <= Groups * BlkInodeNum
  BY <1>1, ProductMonotone
<1>3. Total \in Nat /\ 2 <= Total
  BY <1>1, <1>2, RootFits, IndicesAreNat DEF Total
<1>. QED
  BY <1>3 DEF Indices, BADBLK_INODE, ROOT_INODE

\* What the bitmaps are in a process that was just started.
LEMMA ClearGrpsEffect ==
  /\ ClearGrps \in BlkGrps /\ HintsAreFree(ClearGrps) /\ Used(ClearGrps) = {}
  /\ HasRoom(ClearGrps) /\ AllocIdx(ClearGrps) = 1
BY ClearEffect DEF ClearGrps

\* fs_create_root takes the inodes 1 and 2.
LEMMA RootEffect ==
  LET first == Allocated(ClearGrps) IN
  /\ HasRoom(first) /\ AllocIdx(first) = 2
  /\ first \in BlkGrps /\ HintsAreFree(first) /\ Used(first) = {1}
<1> DEFINE first == Allocated(ClearGrps)
<1>1. first \in BlkGrps /\ HintsAreFree(first) /\ Used(first) = {1}
  BY ClearGrpsEffect, AllocEffect
<1>2. 0 \in Bits /\ 1 \in Bits /\ 0 \in GroupIds
      /\ Bits \in SUBSET Nat /\ GroupIds \in SUBSET Nat
  BY GroupsAssumption, BlkInodeNumAssumption, RootFits DEF Bits, GroupIds
<1>3. FirstFit(ClearGrps) = 0
  <2>1. \A g \in GroupIds : ClearGrps[g].bitmap = {}
    BY DEF ClearGrps, blkgrps_load
  <2>2. WithClearBit(ClearGrps) = GroupIds
    BY <1>2, <2>1 DEF WithClearBit
  <2>3. Min(GroupIds) = 0
    BY <1>2, LeastIs
  <2>. QED
    BY <2>2, <2>3 DEF FirstFit
<1>4. ClearGrps[0] = [bitmap |-> {}, next |-> 1]
  <2>1. Min(Bits) = 0
    BY <1>2, LeastIs
  <2>. QED
    BY <1>2, <2>1 DEF ClearGrps, blkgrps_load, find_first_set
<1>5. first[0] = [bitmap |-> {0}, next |-> find_first_set({0})]
  BY <1>2, <1>3, <1>4, ClearGrpsEffect DEF Allocated, SetBit, BlkGrps
<1>6. find_first_set({0}) = 2
  <2>1. Bits \ {0} \in SUBSET Nat /\ 1 \in Bits \ {0}
    BY <1>2
  <2>2. \A b \in Bits \ {0} : 1 <= b
    BY <1>2
  <2>3. Min(Bits \ {0}) = 1
    BY <2>1, <2>2, LeastIs
  <2>. QED
    BY <1>2, <2>3 DEF find_first_set
<1>7. 0 \in WithClearBit(first) /\ WithClearBit(first) \in SUBSET Nat
  <2>1. first[0].bitmap = {0} /\ {0} # Bits
    BY <1>2, <1>5
  <2>. QED
    BY <1>2, <2>1 DEF WithClearBit
<1>8. FirstFit(first) = 0
  <2>1. Min(WithClearBit(first)) \in Nat /\ Min(WithClearBit(first)) <= 0
    BY <1>7, LeastNatural
  <2>. QED
    BY <2>1 DEF FirstFit
<1>9. HasRoom(first) /\ AllocIdx(first) = 2
  BY <1>5, <1>6, <1>7, <1>8, BlkInodeNumAssumption DEF HasRoom, Exhausted, AllocIdx
<1>. QED
  BY <1>1, <1>9

LEMMA InitInvariant == Init => IInv
<1> SUFFICES ASSUME Init PROVE IInv
  OBVIOUS
<1>1. /\ inodes \in BlkGrps /\ HintsAreFree(inodes) /\ Used(inodes) = {}
      /\ blocks \in BlkGrps /\ HintsAreFree(blocks) /\ Used(blocks) = {}
  BY ClearGrpsEffect DEF Init
<1>2. TablesOK(inodeTab, dirTab)
  BY EmptyIsDir DEF Init, TablesOK, Inodes
<1>3. Structure
  BY <1>1, <1>2, EmptySound DEF Structure
<1>4. TypeOK
  BY <1>1, <1>2 DEF Init, TypeOK, TablesOK
<1>5. ReservedInodes /\ NoGhostNames
  BY ReservedAreIndices DEF Init, ReservedInodes, NoGhostNames
<1>. QED
  BY <1>1, <1>3, <1>4, <1>5 DEF IInv

\* The conjuncts in the form the steps need them.
LEMMA InvariantFacts ==
  ASSUME IInv
  PROVE  /\ inodes \in BlkGrps /\ HintsAreFree(inodes) /\ Used(inodes) \subseteq Indices
         /\ blocks \in BlkGrps /\ HintsAreFree(blocks) /\ Used(blocks) \subseteq Indices
         /\ Sound(Used(inodes), Used(blocks), inodeTab, dirTab)
         /\ Readable(dirTab)
         /\ cached \subseteq Files /\ ret \in Errors \cup {"OK"}
         /\ ReservedInodes /\ NoGhostNames
BY ReservedAreIndices DEF IInv, TypeOK, Structure, Readable, Used, Sound

\* The process ends, with whatever contents of the directories.
LEMMA DieInvariant ==
  ASSUME IInv, NEW how \in {"down", "aborted", "crashed"}, Die(how),
         TablesOK(inodeTab, dirTab')
  PROVE  IInv'
<1>1. /\ inodes' \in BlkGrps /\ HintsAreFree(inodes') /\ Used(inodes') = {}
      /\ blocks' \in BlkGrps /\ HintsAreFree(blocks') /\ Used(blocks') = {}
  BY ClearGrpsEffect DEF Die
<1>2. inodeTab' = inodeTab /\ ret' = ret /\ cached' = {} /\ phase' = how
  BY DEF Die
<1>3. Structure'
  BY <1>1, <1>2, EmptySound DEF Structure
<1>4. TypeOK'
  <2>1. inodeTab \in [Indices -> Inodes] /\ ret \in Errors \cup {"OK"}
    BY DEF IInv, TypeOK
  <2>. QED
    BY <1>1, <1>2, <2>1 DEF TypeOK, TablesOK
<1>5. ReservedInodes' /\ NoGhostNames'
  BY <1>2, InvariantFacts DEF ReservedInodes, NoGhostNames
<1>. QED
  BY <1>1, <1>3, <1>4, <1>5 DEF IInv

LEMMA MountInvariant ==
  ASSUME IInv, Mount
  PROVE  IInv'
<1> DEFINE first == Allocated(ClearGrps)
           blk == AllocIdx(ClearGrps)
<1>1. /\ blk = 1 /\ blocks' = first /\ inodes' = Allocated(first)
      /\ phase' = "up" /\ cached' = cached /\ ret' = ret
      /\ dirTab' = [dirTab EXCEPT ![blk] = <<>>]
      /\ inodeTab' = [inodeTab EXCEPT ![ROOT_INODE] = [dir |-> TRUE, blk |-> blk]]
  BY ClearGrpsEffect DEF Mount
<1>2. /\ first \in BlkGrps /\ HintsAreFree(first) /\ Used(first) = {1}
      /\ Allocated(first) \in BlkGrps /\ HintsAreFree(Allocated(first))
      /\ Used(Allocated(first)) = {1, 2}
  BY RootEffect, AllocEffect
<1> HIDE DEF first
<1>3. TablesOK(inodeTab, dirTab) /\ ~inodeTab[BADBLK_INODE].dir
  BY InvariantFacts DEF Sound, ReservedInodes
<1>4. Sound({}, {}, inodeTab, dirTab)
  BY <1>3, EmptySound
<1>5. 1 \in Indices /\ 2 \in Indices
  BY ReservedAreIndices DEF BADBLK_INODE, ROOT_INODE
<1>6. Sound({2}, {1}, inodeTab', dirTab') /\ inodeTab'[2].dir
  <2>1. /\ Updated(inodeTab', inodeTab, 2, [dir |-> TRUE, blk |-> 1])
        /\ Updated(dirTab', dirTab, 1, <<>>)
    BY <1>1, <1>3, <1>5, ExceptUpdates DEF ROOT_INODE, TablesOK
  <2> DEFINE none == {}
  <2>2. TakesDir(none, none, inodeTab, dirTab, 2, 1, inodeTab', dirTab')
    BY <1>4, <1>5, <2>1 DEF TakesDir
  <2> HIDE DEF none
  <2>3. Sound(none \cup {2}, none \cup {1}, inodeTab', dirTab')
    BY <2>2, NewDirSound
  <2>. QED
    BY <2>1, <2>3 DEF none, Updated
<1>7. ~inodeTab'[BADBLK_INODE].dir
  BY <1>1, <1>3 DEF TablesOK, BADBLK_INODE, ROOT_INODE
<1>8. Structure'
  <2>1. DirsIn({1, 2}, inodeTab') = {2} /\ DirsIn({2}, inodeTab') = {2}
    BY <1>6, <1>7 DEF DirsIn, BADBLK_INODE
  <2>2. Sound({1, 2}, {1}, inodeTab', dirTab')
    BY <1>5, <1>6, <2>1 DEF Sound, LeadToUsed, LeadOnce, OwnBlock
  <2>. QED
    BY <1>1, <1>2, <2>2 DEF Structure
<1>9. TypeOK'
  <2>1. inodeTab \in [Indices -> Inodes] /\ [dir |-> TRUE, blk |-> blk] \in Inodes
    BY <1>1, <1>5 DEF IInv, TypeOK, Inodes
  <2>2. inodeTab' \in [Indices -> Inodes]
    BY <1>1, <2>1
  <2>3. DOMAIN dirTab' = Indices /\ \A b \in Indices : dirTab'[b] \in Dirs
    BY <1>6 DEF Sound, TablesOK
  <2>4. cached \in SUBSET Files /\ ret \in Errors \cup {"OK"}
    BY DEF IInv, TypeOK
  <2>. QED
    BY <1>1, <1>2, <2>2, <2>3, <2>4 DEF TypeOK
<1>10. ReservedInodes' /\ NoGhostNames'
  BY <1>1, <1>2, <1>7, InvariantFacts
     DEF ReservedInodes, NoGhostNames, BADBLK_INODE, ROOT_INODE
<1>. QED
  BY <1>1, <1>2, <1>8, <1>9, <1>10 DEF IInv

-----------------------------------------------------------------------------
(* Requests                                                                *)

\* What a request that the process survives has to establish.
LEMMA ServedInvariant ==
  ASSUME IInv, phase = "up", phase' = "up",
         inodes' \in BlkGrps, HintsAreFree(inodes'),
         blocks' \in BlkGrps, HintsAreFree(blocks'),
         Sound(Used(inodes'), Used(blocks'), inodeTab', dirTab'),
         {BADBLK_INODE, ROOT_INODE} \subseteq Used(inodes'),
         ~inodeTab'[BADBLK_INODE].dir,
         inodeTab' \in [Indices -> Inodes],
         cached' \subseteq Files, ret' \in Errors \cup {"OK"},
         Vfs => ret' # "EEXIST"
  PROVE  IInv'
<1>1. Structure'
  BY DEF Structure
<1>2. DOMAIN dirTab' = Indices /\ \A blk \in Indices : dirTab'[blk] \in Dirs
  BY DEF Sound, TablesOK
<1>3. TypeOK'
  BY <1>2 DEF TypeOK
<1>4. ReservedInodes' /\ NoGhostNames'
  BY DEF ReservedInodes, NoGhostNames
<1>. QED
  BY <1>1, <1>3, <1>4 DEF IInv

\* The bitmaps and tables of a state in which requests are served.
LEMMA UpFacts ==
  ASSUME IInv, phase = "up"
  PROVE  /\ {BADBLK_INODE, ROOT_INODE} \subseteq Used(inodes)
         /\ ~inodeTab[BADBLK_INODE].dir
         /\ inodeTab \in [Indices -> Inodes]
         /\ DOMAIN dirTab = Indices
BY DEF IInv, ReservedInodes, TypeOK

LEMMA RefuseInvariant ==
  ASSUME IInv, phase = "up", NEW code, Vfs => code # "EEXIST", Refuse(code)
  PROVE  IInv'
BY InvariantFacts, UpFacts, ServedInvariant DEF Refuse

\* A name that is in its parent is found by a walk: no ghosts.
LEMMA TakenMeansFound ==
  ASSUME IInv, NEW path \in Files,
         fs_path_to_parent(dirTab, path) = "OK", Child(dirTab, path) # 0
  PROVE  /\ Slots(dirTab[ParentBlk(dirTab, path)], Last(path)) # {}
         /\ exist(inodes, Child(dirTab, path))
         /\ Found(path)
<1> DEFINE p == Parent(dirTab, path)
           b == ParentBlk(dirTab, path)
           child == Child(dirTab, path)
<1>1. p \in DirsIn(Used(inodes), inodeTab) /\ b = inodeTab[p].blk /\ b \in Used(blocks)
      /\ IsReadable(p)
  BY InvariantFacts, ParentIsDir DEF ParentBlk
<1>2. dirTab[b] \in Dirs
  BY <1>1, InvariantFacts DEF Sound, TablesOK
<1>3. child = dir_file_inode_idx(dirTab[b], Last(path))
  BY DEF Child
<1>4. Slots(dirTab[b], Last(path)) # {}
  BY <1>3 DEF dir_file_inode_idx
<1>5. /\ Min(Slots(dirTab[b], Last(path))) \in DOMAIN dirTab[b]
      /\ child = dirTab[b][Min(Slots(dirTab[b], Last(path)))].idx
  BY <1>2, <1>3, <1>4, LookupEffect
<1> HIDE DEF p, b, child
<1>6. child \in Used(inodes)
  BY <1>1, <1>5, InvariantFacts DEF Sound, LeadToUsed
<1>7. exist(inodes, child)
  BY <1>6 DEF Used
<1>8. fs_path_to_inode(dirTab, path) = child
  <2>1. p \in Indices
    BY <1>1, InvariantFacts DEF DirsIn
  <2>2. p # 0
    BY <2>1, IndicesAreNat
  <2>3. Enter(dirTab, p, Last(path)) = child
    BY <1>1, <1>3, <1>7, <2>2 DEF Enter
  <2>. QED
    BY <2>3, PathEndsInParent DEF p
<1>. QED
  BY <1>4, <1>7, <1>8 DEF b, child, Found

LEMMA MakeRefused ==
  ASSUME IInv, phase = "up", NEW path \in Files, MayMake(path),
         Refuse(MakeStatus(path))
  PROVE  IInv'
<1>1. Vfs => MakeStatus(path) # "EEXIST"
  BY TakenMeansFound DEF MakeStatus, MayMake, fs_path_to_parent
<1>. QED
  BY <1>1, RefuseInvariant

LEMMA SmashInvariant ==
  ASSUME IInv, NEW how \in {"down", "aborted", "crashed"},
         Die(how), UNCHANGED dirTab
  PROVE  IInv'
<1>1. TablesOK(inodeTab, dirTab')
  BY InvariantFacts DEF Sound
<1>. QED
  BY <1>1, DieInvariant

\* An entry is taken out of its directory.
LEMMA UnlinkEffect ==
  ASSUME IInv, NEW path \in Files,
         fs_path_to_parent(dirTab, path) = "OK", Child(dirTab, path) # 0
  PROVE  LET tab == WithoutEntry(dirTab, path)
             idx == Child(dirTab, path)
         IN  /\ Sound(Used(inodes), Used(blocks), inodeTab, tab)
             /\ idx \in Used(inodes) \ {BADBLK_INODE, ROOT_INODE}
             /\ NoneLeadsTo(Used(inodes), inodeTab, tab, idx)
<1> DEFINE p == Parent(dirTab, path)
           tab == WithoutEntry(dirTab, path)
           name == Last(path)
           U == Used(inodes)
           B == Used(blocks)
<1>1. /\ p \in DirsIn(U, inodeTab) /\ inodeTab[p].blk \in B
      /\ ParentBlk(dirTab, path) = inodeTab[p].blk
  BY InvariantFacts, ParentIsDir DEF ParentBlk
<1>2. Slots(dirTab[inodeTab[p].blk], name) # {}
  BY <1>1, TakenMeansFound
<1>3. Updated(tab, dirTab, inodeTab[p].blk, dir_remove(dirTab[inodeTab[p].blk], name))
  <2>1. inodeTab[p].blk \in DOMAIN dirTab
    BY <1>1, InvariantFacts DEF Sound, TablesOK
  <2>. QED
    BY <1>1, <2>1, ExceptUpdates DEF WithoutEntry
<1>4. Child(dirTab, path) = dir_file_inode_idx(dirTab[inodeTab[p].blk], name)
  BY <1>1 DEF Child
<1>5. Sound(U, B, inodeTab, dirTab)
  BY InvariantFacts
<1> HIDE DEF p, tab, name, U, B
<1>6. /\ Sound(U, B, inodeTab, tab)
      /\ Child(dirTab, path) \in U \ {BADBLK_INODE, ROOT_INODE}
      /\ NoneLeadsTo(U, inodeTab, tab, Child(dirTab, path))
  BY <1>1, <1>2, <1>3, <1>4, <1>5, UnlinkSound
<1>. QED
  BY <1>6 DEF tab, U, B

LEMMA ExpireInvariant ==
  ASSUME IInv, Expire
  PROVE  IInv'
<1>1. /\ UNCHANGED <<phase, inodes, blocks, inodeTab, dirTab, ret>>
      /\ cached' \subseteq Files
  BY InvariantFacts DEF Expire
<1>. QED
  BY <1>1 DEF IInv, TypeOK, Structure, ReservedInodes, NoGhostNames

LEMMA StutterInvariant ==
  ASSUME IInv, UNCHANGED vars
  PROVE  IInv'
BY DEF vars, IInv, TypeOK, Structure, ReservedInodes, NoGhostNames

\* The state in which fs_mkdir and fs_create_file find the parent's block.
LEMMA MakeFacts ==
  ASSUME IInv, NEW path \in Files, MakeStatus(path) = "OK"
  PROVE  /\ Parent(dirTab, path) \in DirsIn(Used(inodes), inodeTab)
         /\ ParentBlk(dirTab, path) = inodeTab[Parent(dirTab, path)].blk
         /\ ParentBlk(dirTab, path) \in Used(blocks)
         /\ Last(path) \in Names
<1>1. fs_path_to_parent(dirTab, path) = "OK"
  BY DEF MakeStatus
<1>. QED
  BY <1>1, InvariantFacts, ParentIsDir DEF ParentBlk

LEMMA MkdirExhaustedInvariant ==
  ASSUME IInv, phase = "up", MkdirExhausted
  PROVE  IInv'
<1>1. /\ inodes' = inodes /\ inodeTab' = inodeTab /\ dirTab' = dirTab
      /\ cached' = cached /\ phase' = phase /\ ret' = "ENOMEM"
  BY DEF MkdirExhausted
<1>2. /\ blocks' \in BlkGrps /\ HintsAreFree(blocks')
      /\ Used(blocks) \subseteq Used(blocks') /\ Used(blocks') \subseteq Indices
  <2>1. CASE UNCHANGED blocks
    BY <2>1, InvariantFacts
  <2>2. CASE HasRoom(blocks) /\ blocks' = Allocated(blocks)
    BY <2>2, InvariantFacts, AllocEffect
  <2>. QED
    BY <2>1, <2>2 DEF MkdirExhausted
<1>3. Sound(Used(inodes), Used(blocks'), inodeTab, dirTab)
  BY <1>2, InvariantFacts DEF Sound, OwnBlock
<1>. QED
  BY <1>1, <1>2, <1>3, InvariantFacts, UpFacts, ServedInvariant DEF Errors

(* fs_mkdir in two stages that are sound one after the other, though the   *)
(* code saves the parent first: the new directory, then its entry.         *)
MkdirClear == [dirTab EXCEPT ![AllocIdx(blocks)] = <<>>]

MkdirLinked(path) ==
  LET b == ParentBlk(dirTab, path)
  IN  [MkdirClear EXCEPT ![b] = dir_insert(MkdirClear[b], Last(path), AllocIdx(inodes))]

LEMMA MkdirDoneEffect ==
  ASSUME IInv, phase = "up", NEW path \in Files, MakeStatus(path) = "OK",
         MkdirDone(path)
  PROVE  LET idx  == AllocIdx(inodes)
             blk  == AllocIdx(blocks)
             p    == Parent(dirTab, path)
             newU == Used(inodes) \cup {idx}
             newB == Used(blocks) \cup {blk}
         IN  /\ idx \in Indices \ Used(inodes) /\ idx \notin {BADBLK_INODE, ROOT_INODE}
             /\ inodes' \in BlkGrps /\ HintsAreFree(inodes') /\ Used(inodes') = newU
             /\ blocks' \in BlkGrps /\ HintsAreFree(blocks') /\ Used(blocks') = newB
             /\ inodeTab' = [inodeTab EXCEPT ![idx] = [dir |-> TRUE, blk |-> blk]]
             /\ blk \in Indices
             /\ TakesDir(Used(inodes), Used(blocks), inodeTab, dirTab, idx, blk,
                         inodeTab', MkdirClear)
             /\ p \in DirsIn(Used(inodes), inodeTab) /\ p \in DirsIn(newU, inodeTab')
             /\ inodeTab'[p] = inodeTab[p] /\ inodeTab[p].blk # blk
             /\ Sound(newU, newB, inodeTab', MkdirClear)
             /\ Updated(MkdirLinked(path), MkdirClear, inodeTab'[p].blk,
                        dir_insert(MkdirClear[inodeTab'[p].blk], Last(path), idx))
             /\ Sound(newU, newB, inodeTab', MkdirLinked(path))
             /\ \A x \in Indices : dirTab'[x] = MkdirLinked(path)[x]
             /\ DOMAIN dirTab' = Indices
<1> DEFINE idx == AllocIdx(inodes)
           blk == AllocIdx(blocks)
           p == Parent(dirTab, path)
           name == Last(path)
           U == Used(inodes)
           B == Used(blocks)
           clear == MkdirClear
           b == inodeTab[p].blk
           full == dir_insert(clear[b], name, idx)
           linked == MkdirLinked(path)
           newI == inodeTab'
<1>1. /\ HasRoom(blocks) /\ blocks' = Allocated(blocks)
      /\ HasRoom(inodes) /\ inodes' = Allocated(inodes)
      /\ dirTab' = [WithEntry(dirTab, path, idx) EXCEPT ![blk] = <<>>]
      /\ newI = [inodeTab EXCEPT ![idx] = [dir |-> TRUE, blk |-> blk]]
  BY DEF MkdirDone
<1>2. /\ idx \in Indices \ U /\ blk \in Indices \ B
      /\ inodes' \in BlkGrps /\ HintsAreFree(inodes') /\ Used(inodes') = U \cup {idx}
      /\ blocks' \in BlkGrps /\ HintsAreFree(blocks') /\ Used(blocks') = B \cup {blk}
  BY <1>1, InvariantFacts, AllocEffect
<1>3. p \in DirsIn(U, inodeTab) /\ b \in B /\ ParentBlk(dirTab, path) = b /\ name \in Names
  BY MakeFacts
<1>4. DOMAIN dirTab = Indices /\ DOMAIN inodeTab = Indices /\ b \in Indices /\ b # blk
  BY <1>2, <1>3, InvariantFacts DEF Sound, TablesOK
<1>5. TakesDir(U, B, inodeTab, dirTab, idx, blk, newI, clear)
  <2>1. Updated(clear, dirTab, blk, <<>>)
    BY <1>2, <1>4, ExceptUpdates DEF MkdirClear
  <2>2. Updated(newI, inodeTab, idx, [dir |-> TRUE, blk |-> blk])
    BY <1>1, <1>2, <1>4, ExceptUpdates
  <2>. QED
    BY <1>2, <2>1, <2>2, InvariantFacts DEF TakesDir
<1>6. /\ DOMAIN clear = Indices /\ clear[b] = dirTab[b]
      /\ \A x \in Indices : clear[x] = IF x = blk THEN <<>> ELSE dirTab[x]
  BY <1>2, <1>4 DEF MkdirClear
<1>u. linked = [clear EXCEPT ![b] = full]
  BY <1>3 DEF MkdirLinked
<1>7. \A x \in Indices : dirTab'[x] = linked[x]
  <2>1. full = dir_insert(dirTab[b], name, idx)
    BY <1>6
  <2>2. WithEntry(dirTab, path, idx) = [dirTab EXCEPT ![b] = full]
    BY <1>3, <2>1 DEF WithEntry
  <2>3. dirTab' = [[dirTab EXCEPT ![b] = full] EXCEPT ![blk] = <<>>]
    BY <1>1, <2>2
  <2> HIDE DEF full, b, blk
  <2>4. \A x \in Indices : dirTab'[x] =
          IF x = blk THEN <<>> ELSE IF x = b THEN full ELSE dirTab[x]
    BY <1>4, <2>3
  <2>5. \A x \in Indices : linked[x] = IF x = b THEN full ELSE clear[x]
    BY <1>6, <1>u
  <2>. QED
    BY <1>4, <1>6, <2>4, <2>5
<1>8. DOMAIN dirTab' = Indices
  BY <1>1, <1>4 DEF WithEntry
<1>9. Updated(linked, clear, b, full)
  <2>1. Updated([clear EXCEPT ![b] = full], clear, b, full)
    BY <1>4, <1>6, ExceptUpdates
  <2> HIDE DEF linked, clear, b, full
  <2>. QED
    BY <1>u, <2>1
<1> HIDE DEF idx, blk, p, name, U, B, clear, linked, newI
<1>10. /\ Sound(U \cup {idx}, B \cup {blk}, newI, clear)
       /\ p \in DirsIn(U \cup {idx}, newI) /\ newI[p] = inodeTab[p]
       /\ NoneLeadsTo(U \cup {idx}, newI, clear, idx)
  BY <1>3, <1>5, NewDirSound
<1>11. idx \notin {BADBLK_INODE, ROOT_INODE} /\ idx \in U \cup {idx}
  BY <1>2, UpFacts DEF U
<1>12. Sound(U \cup {idx}, B \cup {blk}, newI, linked)
  BY <1>3, <1>9, <1>10, <1>11, LinkSound
<1>. QED
  BY <1>1, <1>2, <1>3, <1>4, <1>5, <1>7, <1>8, <1>9, <1>10, <1>11, <1>12
     DEF idx, blk, p, name, U, B, clear, linked, newI

LEMMA MkdirDoneInvariant ==
  ASSUME IInv, phase = "up", NEW path \in Files, MakeStatus(path) = "OK",
         MkdirDone(path)
  PROVE  IInv'
<1> DEFINE idx == AllocIdx(inodes)
           blk == AllocIdx(blocks)
<1>1. ret' = "OK" /\ phase' = phase /\ cached' = cached
  BY DEF MkdirDone
<1>2. /\ idx \in Indices \ Used(inodes) /\ idx \notin {BADBLK_INODE, ROOT_INODE}
      /\ inodes' \in BlkGrps /\ HintsAreFree(inodes')
      /\ Used(inodes') = Used(inodes) \cup {idx}
      /\ blocks' \in BlkGrps /\ HintsAreFree(blocks')
      /\ inodeTab' = [inodeTab EXCEPT ![idx] = [dir |-> TRUE, blk |-> blk]]
      /\ blk \in Indices
  BY MkdirDoneEffect
<1>3. Sound(Used(inodes'), Used(blocks'), inodeTab', dirTab')
  <2>1. /\ Sound(Used(inodes'), Used(blocks'), inodeTab', MkdirLinked(path))
        /\ \A x \in Indices : dirTab'[x] = MkdirLinked(path)[x]
        /\ DOMAIN dirTab' = Indices
    BY MkdirDoneEffect
  <2>. QED
    BY <2>1, SameContentsSound
<1>4. inodeTab' \in [Indices -> Inodes] /\ inodeTab'[BADBLK_INODE] = inodeTab[BADBLK_INODE]
  <2>1. [dir |-> TRUE, blk |-> blk] \in Inodes
    BY <1>2 DEF Inodes
  <2>. QED
    BY <1>2, <2>1, UpFacts, ReservedAreIndices
<1>. QED
  BY <1>1, <1>2, <1>3, <1>4, InvariantFacts, UpFacts, ServedInvariant

LEMMA MkdirInvariant ==
  ASSUME IInv, NEW path \in Files, Mkdir(path)
  PROVE  IInv'
<1>1. phase = "up" /\ MayMake(path)
  BY DEF Mkdir
<1>2. CASE Refuse(MakeStatus(path))
  BY <1>1, <1>2, MakeRefused
<1>3. CASE Smash(path) /\ UNCHANGED dirTab
  BY <1>3, SmashInvariant DEF Smash
<1>4. CASE MakeStatus(path) = "OK" /\ MkdirExhausted
  BY <1>1, <1>4, MkdirExhaustedInvariant
<1>5. CASE MakeStatus(path) = "OK" /\ MkdirFaults
  BY <1>5, SmashInvariant DEF MkdirFaults
<1>6. CASE MakeStatus(path) = "OK" /\ MkdirDone(path)
  BY <1>1, <1>6, MkdirDoneInvariant
<1>. QED
  BY <1>2, <1>3, <1>4, <1>5, <1>6 DEF Mkdir

LEMMA CreateDoneInvariant ==
  ASSUME IInv, phase = "up", NEW path \in Files, MakeStatus(path) = "OK",
         CreateDone(path)
  PROVE  IInv'
<1> DEFINE idx == AllocIdx(inodes)
           p == Parent(dirTab, path)
           name == Last(path)
           U == Used(inodes)
           B == Used(blocks)
           b == inodeTab[p].blk
           inode == [dir |-> FALSE, blk |-> 0]
           newI == inodeTab'
<1>1. /\ HasRoom(inodes) /\ inodes' = Allocated(inodes) /\ blocks' = blocks
      /\ dirTab' = WithEntry(dirTab, path, idx)
      /\ newI = [inodeTab EXCEPT ![idx] = inode]
      /\ ret' = "OK" /\ phase' = phase /\ cached' = cached
  BY DEF CreateDone
<1>2. /\ idx \in Indices \ U
      /\ inodes' \in BlkGrps /\ HintsAreFree(inodes') /\ Used(inodes') = U \cup {idx}
  BY <1>1, InvariantFacts, AllocEffect
<1>3. p \in DirsIn(U, inodeTab) /\ b \in B /\ ParentBlk(dirTab, path) = b /\ name \in Names
  BY MakeFacts
<1>4. DOMAIN dirTab = Indices /\ DOMAIN inodeTab = Indices /\ b \in Indices
      /\ Sound(U, B, inodeTab, dirTab)
  BY <1>3, InvariantFacts DEF Sound, TablesOK
<1>5. inode \in Inodes /\ ~inode.dir /\ inode.blk = 0
  BY DEF Inodes
<1>6. Updated(newI, inodeTab, idx, inode)
  BY <1>1, <1>2, <1>4, ExceptUpdates
<1>7. Updated(dirTab', dirTab, b, dir_insert(dirTab[b], name, idx))
  BY <1>1, <1>3, <1>4, ExceptUpdates DEF WithEntry
<1>8. idx \notin {BADBLK_INODE, ROOT_INODE} /\ idx \in U \cup {idx}
  BY <1>2, UpFacts
<1> HIDE DEF idx, p, name, U, B, newI, inode
<1>9. /\ Sound(U \cup {idx}, B, newI, dirTab)
      /\ p \in DirsIn(U \cup {idx}, newI) /\ newI[p] = inodeTab[p]
      /\ NoneLeadsTo(U \cup {idx}, newI, dirTab, idx)
  BY <1>2, <1>3, <1>4, <1>5, <1>6, NewInodeSound
<1>10. Sound(U \cup {idx}, B, newI, dirTab')
  BY <1>3, <1>7, <1>8, <1>9, LinkSound
<1>11. newI \in [Indices -> Inodes] /\ newI[BADBLK_INODE] = inodeTab[BADBLK_INODE]
  BY <1>1, <1>2, <1>5, <1>8, UpFacts, ReservedAreIndices
<1>. QED
  BY <1>1, <1>2, <1>10, <1>11, InvariantFacts, UpFacts, ServedInvariant DEF newI, U, B

LEMMA CreateFileInvariant ==
  ASSUME IInv, NEW path \in Files, CreateFile(path)
  PROVE  IInv'
<1>1. phase = "up" /\ MayMake(path)
  BY DEF CreateFile
<1>2. CASE Refuse(MakeStatus(path))
  BY <1>1, <1>2, MakeRefused
<1>3. CASE Smash(path) /\ UNCHANGED dirTab
  BY <1>3, SmashInvariant DEF Smash
<1>4. CASE MakeStatus(path) = "OK" /\ CreateExhausted
  BY <1>1, <1>4, InvariantFacts, UpFacts, ServedInvariant DEF CreateExhausted, Errors
<1>5. CASE MakeStatus(path) = "OK" /\ CreateFaults
  BY <1>5, SmashInvariant DEF CreateFaults
<1>6. CASE MakeStatus(path) = "OK" /\ CreateDone(path)
  BY <1>1, <1>6, CreateDoneInvariant
<1>. QED
  BY <1>2, <1>3, <1>4, <1>5, <1>6 DEF CreateFile

LEMMA RenameLosesInvariant ==
  ASSUME IInv, phase = "up", NEW from \in Files, NEW to \in Files,
         RenameStatus(from) = "OK", RenameLoses(from, to)
  PROVE  IInv'
<1> DEFINE tab == WithoutEntry(dirTab, from)
<1>1. Sound(Used(inodes), Used(blocks), inodeTab, tab)
  BY UnlinkEffect DEF RenameStatus
<1>2. /\ dirTab' = tab
      /\ UNCHANGED <<phase, inodes, blocks, inodeTab>>
      /\ cached' \subseteq Files
      /\ ret' \in Errors /\ ret' # "EEXIST"
  BY InvariantFacts DEF RenameLoses, StillCached, fs_path_to_parent, Errors
<1>. QED
  BY <1>1, <1>2, InvariantFacts, UpFacts, ServedInvariant

LEMMA RenameSmashesInvariant ==
  ASSUME IInv, NEW from \in Files, NEW to \in Files,
         RenameStatus(from) = "OK", RenameSmashes(from, to)
  PROVE  IInv'
<1>1. TablesOK(inodeTab, WithoutEntry(dirTab, from))
  BY UnlinkEffect DEF RenameStatus, Sound
<1>2. Die("crashed") /\ dirTab' = WithoutEntry(dirTab, from)
  BY DEF RenameSmashes, Smash
<1>. QED
  BY <1>1, <1>2, DieInvariant

LEMMA RenameDoneInvariant ==
  ASSUME IInv, phase = "up", NEW from \in Files, NEW to \in Files,
         RenameStatus(from) = "OK", RenameDone(from, to)
  PROVE  IInv'
<1> DEFINE tab == WithoutEntry(dirTab, from)
           idx == Child(dirTab, from)
           p == Parent(tab, to)
           name == Last(to)
           U == Used(inodes)
           B == Used(blocks)
           b == inodeTab[p].blk
<1>1. /\ fs_path_to_parent(tab, to) = "OK"
      /\ dirTab' = WithEntry(tab, to, idx)
      /\ ret' = "OK"
      /\ UNCHANGED <<phase, inodes, blocks, inodeTab>>
      /\ cached' \subseteq Files
  BY InvariantFacts DEF RenameDone, StillCached
<1>2. /\ Sound(U, B, inodeTab, tab)
      /\ idx \in U /\ idx \notin {BADBLK_INODE, ROOT_INODE}
      /\ NoneLeadsTo(U, inodeTab, tab, idx)
  BY UnlinkEffect DEF RenameStatus
<1> HIDE DEF tab
<1>3. Readable(tab)
  BY <1>2, ReservedAreIndices DEF Readable, Sound
<1>4. p \in DirsIn(U, inodeTab) /\ b \in B /\ ParentBlk(tab, to) = b /\ name \in Names
  BY <1>1, <1>3, ParentIsDir DEF ParentBlk
<1>5. Updated(dirTab', tab, b, dir_insert(tab[b], name, idx))
  <2>1. b \in DOMAIN tab
    BY <1>2, <1>4 DEF Sound, TablesOK
  <2>. QED
    BY <1>1, <1>4, <2>1, ExceptUpdates DEF WithEntry
<1> HIDE DEF idx, p, name, U, B
<1>6. Sound(U, B, inodeTab, dirTab')
  BY <1>2, <1>4, <1>5, LinkSound
<1>. QED
  BY <1>1, <1>6, InvariantFacts, UpFacts, ServedInvariant DEF U, B

LEMMA RenameFileInvariant ==
  ASSUME IInv, NEW from \in Files, NEW to \in Files, RenameFile(from, to)
  PROVE  IInv'
<1>1. phase = "up"
  BY DEF RenameFile
<1>2. CASE Refuse(RenameStatus(from))
  <2>1. RenameStatus(from) # "EEXIST"
    BY DEF RenameStatus, fs_path_to_parent
  <2>. QED
    BY <1>1, <1>2, <2>1, RefuseInvariant
<1>3. CASE Smash(from) /\ UNCHANGED dirTab
  BY <1>3, SmashInvariant DEF Smash
<1>4. CASE RenameStatus(from) = "OK" /\ RenameLoses(from, to)
  BY <1>1, <1>4, RenameLosesInvariant
<1>5. CASE RenameStatus(from) = "OK" /\ RenameSmashes(from, to)
  BY <1>5, RenameSmashesInvariant
<1>6. CASE RenameStatus(from) = "OK" /\ RenameDone(from, to)
  BY <1>1, <1>6, RenameDoneInvariant
<1>. QED
  BY <1>2, <1>3, <1>4, <1>5, <1>6 DEF RenameFile

LEMMA RemoveDoneInvariant ==
  ASSUME IInv, phase = "up", NEW path \in Files, RemoveDone(path)
  PROVE  IInv'
<1> DEFINE idx == Child(dirTab, path)
           tab == WithoutEntry(dirTab, path)
           blk == inodeTab[idx].blk
           U == Used(inodes)
           B == Used(blocks)
<1>1. /\ fs_path_to_parent(dirTab, path) = "OK"
      /\ exist(inodes, idx) /\ idx # 0
      /\ blocks' = Released(blocks, blk)
      /\ inodes' = Released(inodes, idx)
      /\ dirTab' = tab
      /\ ret' = "OK"
      /\ UNCHANGED <<phase, inodeTab, cached>>
  BY DEF RemoveDone, exist
<1>2. /\ Sound(U, B, inodeTab, tab)
      /\ idx \in U \ {BADBLK_INODE, ROOT_INODE}
      /\ NoneLeadsTo(U, inodeTab, tab, idx)
  BY <1>1, UnlinkEffect
<1>3. idx \in Indices /\ blk \in Indices \cup {0}
  BY <1>2, UpFacts DEF Sound, Inodes
<1>4. /\ inodes' \in BlkGrps /\ HintsAreFree(inodes') /\ Used(inodes') = U \ {idx}
      /\ blocks' \in BlkGrps /\ HintsAreFree(blocks') /\ Used(blocks') = B \ {blk}
  BY <1>1, <1>3, InvariantFacts, ReleaseEffect
<1> HIDE DEF tab, U, B, idx
<1>5. Sound(U \ {idx}, B \ {blk}, inodeTab, tab)
  BY <1>2, GiveUpSound
<1>6. {BADBLK_INODE, ROOT_INODE} \subseteq U \ {idx}
  BY <1>2, UpFacts DEF U
<1>. QED
  BY <1>1, <1>4, <1>5, <1>6, InvariantFacts, UpFacts, ServedInvariant

LEMMA RemoveFileInvariant ==
  ASSUME IInv, NEW path \in Files, RemoveFile(path)
  PROVE  IInv'
<1>1. phase = "up"
  BY DEF RemoveFile
<1>2. CASE Refuse(fs_path_to_parent(dirTab, path))
  <2>1. fs_path_to_parent(dirTab, path) # "EEXIST"
    BY DEF fs_path_to_parent
  <2>. QED
    BY <1>1, <1>2, <2>1, RefuseInvariant
<1>3. CASE Smash(path) /\ UNCHANGED dirTab
  BY <1>3, SmashInvariant DEF Smash
<1>4. CASE RemoveAborts(path)
  BY <1>4, SmashInvariant DEF RemoveAborts
<1>5. CASE RemoveDone(path)
  BY <1>1, <1>5, RemoveDoneInvariant
<1>. QED
  BY <1>2, <1>3, <1>4, <1>5 DEF RemoveFile

LEMMA NextInvariant == IInv /\ [Next]_vars => IInv'
<1> SUFFICES ASSUME IInv, [Next]_vars
             PROVE  IInv'
  OBVIOUS
<1>1. CASE Mount
  BY <1>1, MountInvariant
<1>2. CASE Stop
  BY <1>2, SmashInvariant DEF Stop
<1>3. ASSUME NEW path \in Files, Mkdir(path)
      PROVE  IInv'
  BY <1>3, MkdirInvariant
<1>4. ASSUME NEW path \in Files, CreateFile(path)
      PROVE  IInv'
  BY <1>4, CreateFileInvariant
<1>5. ASSUME NEW from \in Files, NEW to \in Files, RenameFile(from, to)
      PROVE  IInv'
  BY <1>5, RenameFileInvariant
<1>6. ASSUME NEW path \in Files, RemoveFile(path)
      PROVE  IInv'
  BY <1>6, RemoveFileInvariant
<1>7. CASE Expire
  BY <1>7, ExpireInvariant
<1>8. CASE UNCHANGED vars
  BY <1>8, StutterInvariant
<1>. QED
  BY <1>1, <1>2, <1>3, <1>4, <1>5, <1>6, <1>7, <1>8 DEF Next

-----------------------------------------------------------------------------
(* What the invariant says                                                 *)

\* IInv holds in every reachable state: mounting, every operation of fs.c
\* that names things, every way it fails, and every end of the process.
THEOREM Invariant == Spec => []IInv
<1>. QED
  BY InitInvariant, NextInvariant, PTL DEF Spec

\* Directories keep within FilePerDir entries, and inodes, blocks and
\* results within their types, through every sequence of operations of fs.c.
THEOREM TypeCorrect == Spec => []TypeOK
<1>1. IInv => TypeOK
  BY DEF IInv
<1>. QED
  BY Invariant, <1>1, PTL

\* Every entry that fs_path_to_inode can come upon has an inode in use, and
\* never the root's or the reserved one.
THEOREM EntriesLead == Spec => []EntriesHaveInodes
<1>1. IInv => EntriesHaveInodes
  BY InvariantFacts DEF EntriesHaveInodes, LiveDirs, EntriesOf, Sound, LeadToUsed,
     DirsIn, Used
<1>. QED
  BY Invariant, <1>1, PTL

\* fs_rename_file, fs_mkdir and fs_create_file never give an inode a second
\* entry, so that fs_remove_file releases nothing twice.
THEOREM EntriesAreSingle == Spec => []OneEntryEach
<1>1. IInv => OneEntryEach
  <2> SUFFICES ASSUME IInv
               PROVE  LeadOnce(Used(inodes), inodeTab, dirTab) => OneEntryEach
    BY InvariantFacts DEF Sound
  <2>. QED
    BY DEF OneEntryEach, LiveDirs, EntriesOf, LeadOnce, DirsIn
<1>. QED
  BY Invariant, <1>1, PTL

\* The block fs_mkdir gives a directory stays allocated and its own, whatever
\* fs_remove_file and the leak of fs_mkdir do to the bitmaps.
THEOREM BlocksAreOwn == Spec => []DirsOwnBlocks
<1>1. IInv => DirsOwnBlocks
  BY InvariantFacts DEF DirsOwnBlocks, LiveDirs, Sound, OwnBlock, DirsIn, Used
<1>. QED
  BY Invariant, <1>1, PTL

\* fs_mkdir and fs_create_file never refuse as existing a name that the
\* lookup of the same walk did not find.
THEOREM GhostsAreNotSeen == Spec => []NoGhostNames
<1>1. IInv => NoGhostNames
  BY DEF IInv
<1>. QED
  BY Invariant, <1>1, PTL

=============================================================================
