------------------------ MODULE NamespaceForestProofs ------------------------
(***************************************************************************)
(* Namespace implements InodeForest, its directories have no cycle, and    *)
(* requests leave other names alone, for every value of the constants.     *)
(***************************************************************************)
EXTENDS NamespaceProofs

-----------------------------------------------------------------------------
(* What is below an inode                                                  *)


\* A set of inodes that no entry leads out of.
Closed(C) == \A d \in DOMAIN Kids \cap C : \A e \in Kids[d] : e.idx \in C

LEMMA IdsFinite == Cardinality(Indices \ {BADBLK_INODE}) \in Nat
<1>1. IsFiniteSet(Indices)
  BY IndicesAreNat, FS_Interval DEF Indices
<1>2. IsFiniteSet(Indices \ {BADBLK_INODE})
  BY <1>1, FS_RemoveElement
<1>. QED
  BY <1>2, FS_CardinalityType

\* One level more of what is below.
Level(f, idx, n) ==
  IF n = 0 THEN {idx}
  ELSE f[n - 1] \cup {e.idx : e \in UNION {Kids[d] : d \in f[n - 1] \cap DOMAIN Kids}}

(* The levels are defined, by the same argument as the rounds of a walk.   *)
LEMMA LevelsDefined ==
  ASSUME NEW idx, NEW N \in Nat
  PROVE  \E f : f = [n \in 0 .. N |-> Level(f, idx, n)]
<1> DEFINE Are(f, k) == f = [n \in 0 .. k |-> Level(f, idx, n)]
           Undefined == {k \in Nat : ~ \E f : Are(f, k)}
<1>1. Undefined = {}
  <2> SUFFICES ASSUME Undefined # {}
               PROVE  FALSE
    OBVIOUS
  <2> DEFINE k == Min(Undefined)
  <2>1. k \in Undefined /\ \A m \in Undefined : k <= m
    BY LeastNatural
  <2> HIDE DEF k
  <2>2. CASE k = 0
    <3> DEFINE f == [n \in 0 .. 0 |-> {idx}]
    <3>1. \A n \in 0 .. 0 : Level(f, idx, n) = {idx}
      BY DEF Level
    <3>2. f = [n \in 0 .. 0 |-> f[n]]
      OBVIOUS
    <3>3. \A n \in 0 .. 0 : f[n] = Level(f, idx, n)
      BY <3>1
    <3> HIDE DEF f
    <3>4. Are(f, 0)
      BY <3>2, <3>3
    <3>. QED
      BY <2>1, <2>2, <3>4
  <2>3. CASE k # 0
    <3>1. k - 1 \in Nat /\ k - 1 \notin Undefined
      BY <2>1, <2>3
    <3>2. PICK g : Are(g, k - 1)
      BY <3>1
    <3> DEFINE top == Level(g, idx, k)
               f == [n \in 0 .. k |-> IF n = k THEN top ELSE g[n]]
    <3>3. ASSUME NEW n \in 0 .. k
          PROVE  f[n] = Level(f, idx, n)
      <4> HIDE DEF top
      <4>0. n # 0 => f[n - 1] = g[n - 1]
        BY <2>1
      <4>1. Level(f, idx, n) = Level(g, idx, n)
        BY <4>0 DEF Level
      <4>2. CASE n = k
        BY <4>1, <4>2 DEF top
      <4>3. CASE n # k
        <5>1. n \in 0 .. k - 1
          BY <2>1, <4>3
        <5>2. g[n] = Level(g, idx, n)
          BY <3>2, <5>1
        <5>. QED
          BY <4>1, <4>3, <5>2
      <4>. QED
        BY <4>2, <4>3
    <3>4. f = [n \in 0 .. k |-> f[n]]
      OBVIOUS
    <3> HIDE DEF f
    <3>5. Are(f, k)
      BY <3>3, <3>4
    <3>. QED
      BY <2>1, <3>5
  <2>. QED
    BY <2>2, <2>3
<1>. QED
  BY <1>1

LEMMA LevelStaysIn ==
  ASSUME NEW f, NEW idx, NEW n, n # 0, NEW C, Closed(C), f[n - 1] \subseteq C
  PROVE  Level(f, idx, n) \subseteq C
<1> DEFINE prev == f[n - 1]
<1> SUFFICES ASSUME NEW y \in Level(f, idx, n)
             PROVE  y \in C
  OBVIOUS
<1>1. y \in prev \/ \E d \in prev \cap DOMAIN Kids : \E e \in Kids[d] : y = e.idx
  BY DEF Level
<1>2. prev \subseteq C
  OBVIOUS
<1> HIDE DEF prev
<1>. QED
  BY <1>1, <1>2 DEF Closed

LEMMA BelowInClosed ==
  ASSUME NEW idx, NEW C, idx \in C, Closed(C)
  PROVE  Forest!Below(idx) \subseteq C
<1> DEFINE N == Cardinality(Indices \ {BADBLK_INODE})
           upto == CHOOSE f : f = [n \in 0 .. N |-> Level(f, idx, n)]
<1>1. N \in Nat
  BY IdsFinite
<1>2. Forest!Below(idx) = upto[N]
  BY DEF Forest!Below, Level, Cardinality, Forest!Cardinality
<1> HIDE DEF N
<1>3. \A n \in 0 .. N : upto[n] = Level(upto, idx, n)
  BY <1>1, LevelsDefined
<1> HIDE DEF upto
<1> DEFINE Out == {n \in 0 .. N : ~(upto[n] \subseteq C)}
<1>4. Out = {}
  <2> SUFFICES ASSUME Out # {}
               PROVE  FALSE
    OBVIOUS
  <2> DEFINE n == Min(Out)
  <2>1. n \in Out /\ \A m \in Out : n <= m
    BY LeastNatural
  <2> HIDE DEF n
  <2>2. CASE n = 0
    BY <1>3, <2>1, <2>2 DEF Level
  <2>3. CASE n # 0
    <3>1. n - 1 \in 0 .. N /\ upto[n - 1] \subseteq C
      BY <1>1, <2>1, <2>3
    <3>. QED
      BY <1>3, <2>1, <2>3, <3>1, LevelStaysIn
  <2>. QED
    BY <2>2, <2>3
<1>. QED
  BY <1>1, <1>4, <1>2

-----------------------------------------------------------------------------
(* No cycles                                                               *)

\* Directory d has an entry that leads to idx.
Leads(U, I, T, d, idx) ==
  d \in DirsIn(U, I) /\ \E i \in DOMAIN T[I[d].blk] : T[I[d].blk][i].idx = idx

(* Every set of inodes has a member that none of them leads to: otherwise  *)
(* one could go from entry to entry backwards for ever, in a finite set.   *)
NoLoop(U, I, T) ==
  \A S \in SUBSET Indices :
    S # {} => \E x \in S : \A d \in S : ~Leads(U, I, T, d, x)

\* The entries become no more.
LEMMA FewerLeadNoLoop ==
  ASSUME NEW U, NEW I, NEW T, NoLoop(U, I, T),
         NEW newU, NEW newI, NEW new,
         \A d, x : Leads(newU, newI, new, d, x) => Leads(U, I, T, d, x)
  PROVE  NoLoop(newU, newI, new)
BY DEF NoLoop

(* One entry more, for an inode that no entry leads out of.                *)
LEMMA LeafLeadNoLoop ==
  ASSUME NEW U, NEW I, NEW T, NoLoop(U, I, T),
         NEW newU, NEW newI, NEW new, NEW p, NEW idx, p # idx,
         \A x : ~Leads(newU, newI, new, idx, x),
         \A d, x : Leads(newU, newI, new, d, x) =>
                     Leads(U, I, T, d, x) \/ (d = p /\ x = idx)
  PROVE  NoLoop(newU, newI, new)
<1> SUFFICES ASSUME NEW S \in SUBSET Indices, S # {},
                    \A x \in S : \E d \in S : Leads(newU, newI, new, d, x)
             PROVE  FALSE
  BY DEF NoLoop
<1> DEFINE R == S \ {idx}
<1>1. \A x \in S : \E d \in R : Leads(newU, newI, new, d, x)
  OBVIOUS
<1>2. R # {} /\ R \in SUBSET Indices
  BY <1>1
<1>3. \A x \in R : \E d \in R : Leads(U, I, T, d, x)
  BY <1>1
<1> HIDE DEF R
<1>. QED
  BY <1>2, <1>3 DEF NoLoop

\* An inode has one directory that leads to it.
LEMMA OneLeads ==
  ASSUME NEW U, NEW B, NEW I, NEW T, Sound(U, B, I, T),
         NEW d, NEW e, NEW idx, Leads(U, I, T, d, idx), Leads(U, I, T, e, idx)
  PROVE  d = e
<1>1. LeadOnce(U, I, T)
  BY DEF Sound
<1>2. PICK i \in DOMAIN T[I[d].blk] : T[I[d].blk][i].idx = idx
  BY DEF Leads
<1>3. PICK j \in DOMAIN T[I[e].blk] : T[I[e].blk][j].idx = idx
  BY DEF Leads
<1>4. d \in DirsIn(U, I) /\ e \in DirsIn(U, I)
  BY DEF Leads
<1>. QED
  BY <1>1, <1>2, <1>3, <1>4 DEF LeadOnce

\* None leads to the root, or to an inode that is not in use.
LEMMA LeadsToUsed ==
  ASSUME NEW U, NEW B, NEW I, NEW T, Sound(U, B, I, T),
         NEW d, NEW idx, Leads(U, I, T, d, idx)
  PROVE  idx \in U /\ idx \notin {BADBLK_INODE, ROOT_INODE}
<1>1. LeadToUsed(U, I, T)
  BY DEF Sound
<1>2. PICK i \in DOMAIN T[I[d].blk] : T[I[d].blk][i].idx = idx
  BY DEF Leads
<1>3. d \in DirsIn(U, I)
  BY DEF Leads
<1>. QED
  BY <1>1, <1>2, <1>3 DEF LeadToUsed

\* A round of the walk that gets somewhere follows an entry.
LEMMA EnterLeads ==
  ASSUME NEW tab, Readable(tab), NEW idx \in Used(inodes) \cup {0}, NEW name,
         Enter(tab, idx, name) # 0
  PROVE  Leads(Used(inodes), inodeTab, tab, idx, Enter(tab, idx, name))
<1> DEFINE blk == inodeTab[idx].blk
           child == dir_file_inode_idx(tab[blk], name)
<1>1. idx # 0 /\ IsReadable(idx) /\ Enter(tab, idx, name) = child
  BY DEF Enter
<1>2. idx \in Used(inodes) /\ idx \in Indices
  BY <1>1 DEF Used
<1>3. blk \in Indices /\ inodeTab[idx].dir
  <2>1. blk \in Indices \cup {0} /\ blk # 0
    BY <1>1, <1>2 DEF Readable, TablesOK, Inodes, IsReadable, exist
  <2>2. ~inodeTab[idx].dir => blk = 0
    BY <1>2 DEF Readable, TablesOK
  <2>. QED
    BY <2>1, <2>2
<1>4. tab[blk] \in Dirs /\ child # 0
  BY <1>1, <1>3 DEF Readable, TablesOK
<1>5. Slots(tab[blk], name) # {}
  BY <1>4 DEF dir_file_inode_idx
<1>6. /\ Min(Slots(tab[blk], name)) \in DOMAIN tab[blk]
      /\ tab[blk][Min(Slots(tab[blk], name))].idx = child
  BY <1>4, <1>5, LookupEffect
<1>. QED
  BY <1>1, <1>2, <1>3, <1>6 DEF Leads, DirsIn

\* The inodes that a walk passes.
Passed(tab, path) == {Walk(tab, path)[k] : k \in 0 .. Len(path)}

\* Before any of them but the root it passed one that leads there.
LEMMA PassedAreLedTo ==
  ASSUME NEW tab, Readable(tab), NEW path, Len(path) \in Nat,
         NEW x \in Passed(tab, path), x # 0, x # ROOT_INODE
  PROVE  \E d \in Passed(tab, path) : Leads(Used(inodes), inodeTab, tab, d, x)
<1> DEFINE walk == Walk(tab, path)
<1>1. PICK k \in 0 .. Len(path) : x = walk[k]
  BY DEF Passed
<1>2. \A j \in 0 .. Len(path) : walk[j] = Round(tab, path, walk, j)
  BY WalkDefined
<1>3. \A j \in 0 .. Len(path) : walk[j] \in Used(inodes) \cup {0}
  BY WalkType
<1> HIDE DEF walk
<1>4. k # 0
  BY <1>1, <1>2 DEF Round
<1>5. k - 1 \in 0 .. Len(path)
  BY <1>4
<1>6. x = Enter(tab, walk[k - 1], path[k])
  BY <1>1, <1>2, <1>4 DEF Round
<1>7. Leads(Used(inodes), inodeTab, tab, walk[k - 1], x)
  BY <1>3, <1>5, <1>6, EnterLeads
<1>. QED
  BY <1>5, <1>7 DEF Passed, walk

(* Whoever leads to an inode that the walk passed was itself passed, as    *)
(* nobody else leads there.                                                *)
LEMMA WalkPassesParents ==
  ASSUME NEW tab, Sound(Used(inodes), Used(blocks), inodeTab, tab), Readable(tab),
         NEW path, Len(path) \in Nat,
         NEW d, NEW x \in Passed(tab, path), x # 0,
         Leads(Used(inodes), inodeTab, tab, d, x)
  PROVE  d \in Passed(tab, path)
<1>1. x # ROOT_INODE
  BY LeadsToUsed
<1>2. PICK e \in Passed(tab, path) : Leads(Used(inodes), inodeTab, tab, e, x)
  BY <1>1, PassedAreLedTo
<1>. QED
  BY <1>2, OneLeads

(* A rename puts an inode into a directory that it reached by a walk that  *)
(* did not pass the inode.  A set that is closed under going backwards and *)
(* has the inode has that directory, and so all that the walk passed.      *)
LEMMA MoveNoLoop ==
  ASSUME NEW tab, Sound(Used(inodes), Used(blocks), inodeTab, tab), Readable(tab),
         NoLoop(Used(inodes), inodeTab, tab),
         NEW path, Len(path) \in Nat, NEW p \in Passed(tab, path),
         NEW idx, idx \notin {0, ROOT_INODE},
         \A d : ~Leads(Used(inodes), inodeTab, tab, d, idx),
         NEW new,
         \A d, x : Leads(Used(inodes), inodeTab, new, d, x) =>
                     Leads(Used(inodes), inodeTab, tab, d, x) \/ (d = p /\ x = idx)
  PROVE  NoLoop(Used(inodes), inodeTab, new)
<1> SUFFICES ASSUME NEW S \in SUBSET Indices, S # {},
                    \A x \in S : \E d \in S : Leads(Used(inodes), inodeTab, new, d, x)
             PROVE  FALSE
  BY DEF NoLoop
<1>1. CASE idx \notin S
  <2>1. \A x \in S : \E d \in S : Leads(Used(inodes), inodeTab, tab, d, x)
    BY <1>1
  <2>. QED
    BY <2>1 DEF NoLoop
<1>2. CASE idx \in S
  <2> DEFINE R == S \cap Passed(tab, path)
  <2>1. p \in S
    BY <1>2
  <2>2. idx \notin Passed(tab, path)
    BY PassedAreLedTo
  <2>3. R # {} /\ R \in SUBSET Indices
    BY <2>1
  <2>4. ASSUME NEW x \in R
        PROVE  \E d \in R : Leads(Used(inodes), inodeTab, tab, d, x)
    <3>1. x \in S /\ x \in Passed(tab, path) /\ x # idx /\ x # 0
      BY <2>2, IndicesAreNat
    <3>2. PICK d \in S : Leads(Used(inodes), inodeTab, tab, d, x)
      BY <3>1
    <3>3. d \in Passed(tab, path)
      BY <3>1, <3>2, WalkPassesParents
    <3>. QED
      BY <3>2, <3>3
  <2> HIDE DEF R
  <2>. QED
    BY <2>3, <2>4 DEF NoLoop
<1>. QED
  BY <1>1, <1>2

(* For the same reason the directory is not below the inode before it is   *)
(* moved, wherever the inode was then.                                     *)
LEMMA TargetNotBelow ==
  ASSUME NEW tab, Sound(Used(inodes), Used(blocks), inodeTab, tab), Readable(tab),
         phase = "up",
         Sound(Used(inodes), Used(blocks), inodeTab, dirTab),
         \A d, x : Leads(Used(inodes), inodeTab, tab, d, x) =>
                     Leads(Used(inodes), inodeTab, dirTab, d, x),
         NEW path, Len(path) \in Nat, NEW p \in Passed(tab, path),
         NEW idx \in Indices, idx # ROOT_INODE,
         \A d : ~Leads(Used(inodes), inodeTab, tab, d, idx)
  PROVE  p \notin Forest!Below(idx)
<1> DEFINE C == Indices \ Passed(tab, path)
<1>1. idx \in C
  BY PassedAreLedTo, IndicesAreNat
<1>2. Closed(C)
  <2> SUFFICES ASSUME NEW d \in DOMAIN Kids \cap C, NEW e \in Kids[d]
               PROVE  e.idx \in C
    BY DEF Closed
  <2>1. Leads(Used(inodes), inodeTab, dirTab, d, e.idx)
    BY DEF Kids, LiveDirs, EntriesOf, ToSet, Leads, DirsIn
  <2>2. e.idx \in Indices /\ e.idx \notin {0, ROOT_INODE}
    BY <2>1, LeadsToUsed, IndicesAreNat DEF Used
  <2>3. ASSUME e.idx \in Passed(tab, path)
        PROVE  FALSE
    <3>1. PICK f \in Passed(tab, path) : Leads(Used(inodes), inodeTab, tab, f, e.idx)
      BY <2>2, <2>3, PassedAreLedTo
    <3>2. f = d
      BY <2>1, <3>1, OneLeads
    <3>. QED
      BY <3>1, <3>2
  <2>. QED
    BY <2>2, <2>3
<1>3. Forest!Below(idx) \subseteq C
  BY <1>1, <1>2, BelowInClosed
<1>. QED
  BY <1>3

-----------------------------------------------------------------------------
(* The entries of a directory as a set                                     *)

Content(I, T, d) == ToSet(T[I[d].blk])

\* Entry in a directory: no two for the same inode.
Distinct(dir) == \A i, j \in DOMAIN dir : dir[i].idx = dir[j].idx => i = j

LEMMA SizeOfSet ==
  ASSUME NEW dir \in Dirs, Distinct(dir)
  PROVE  IsFiniteSet(ToSet(dir)) /\ Cardinality(ToSet(dir)) = Len(dir)
<1> DEFINE n == Len(dir)
           f == [i \in 1 .. n |-> dir[i]]
<1>1. n \in Nat /\ DOMAIN dir = 1 .. n
  BY DirsType, FilePerDirAssumption
<1> HIDE DEF n
<1>2. f \in Bijection(1 .. n, ToSet(dir))
  BY <1>1 DEF Bijection, Injection, IsInjective, Surjection, ToSet, Distinct
<1>3. ExistsBijection(1 .. n, ToSet(dir))
  BY <1>2 DEF ExistsBijection
<1>4. Cardinality(ToSet(dir)) = n
  BY <1>1, <1>3, FS_CountingElements
<1>5. IsFiniteSet(ToSet(dir))
  BY <1>1, <1>3, FS_NatBijection
<1>. QED
  BY <1>4, <1>5 DEF n

LEMMA InsertSet ==
  ASSUME NEW dir \in Dirs, NEW name \in Names, NEW idx \in Indices, HasSpace(dir)
  PROVE  ToSet(dir_insert(dir, name, idx)) = ToSet(dir) \cup {[name |-> name, idx |-> idx]}
<1> DEFINE elt == [name |-> name, idx |-> idx]
           new == Append(dir, elt)
<1>1. elt \in Entries
  BY DEF Entries
<1>2. dir \in Seq(Entries) /\ Len(dir) \in Nat /\ DOMAIN dir = 1 .. Len(dir)
  BY DirsType
<1> HIDE DEF elt, new
<1>3. /\ new \in Seq(Entries) /\ Len(new) = Len(dir) + 1
      /\ \A i \in 1 .. Len(dir) : new[i] = dir[i]
      /\ new[Len(dir) + 1] = elt
  BY <1>1, <1>2, AppendProperties DEF new
<1>4. DOMAIN new = 1 .. Len(dir) + 1
  BY <1>3, LenProperties
<1>5. DOMAIN new = DOMAIN dir \cup {Len(dir) + 1} /\ Len(dir) + 1 \notin DOMAIN dir
  BY <1>2, <1>4
<1>6. ToSet(new) = ToSet(dir) \cup {elt}
  BY <1>2, <1>3, <1>5 DEF ToSet
<1>7. dir_insert(dir, name, idx) = new
  BY DEF dir_insert, new, elt
<1>. QED
  BY <1>6, <1>7 DEF elt

LEMMA RemoveSet ==
  ASSUME NEW dir \in Dirs, Distinct(dir), NEW name, Slots(dir, name) # {}
  PROVE  ToSet(dir_remove(dir, name)) = ToSet(dir) \ {dir[Min(Slots(dir, name))]}
<1> DEFINE m == Min(Slots(dir, name))
           n == Len(dir)
           new == dir_remove(dir, name)
           from(i) == Origin(dir, name, i)
<1>1. m \in DOMAIN dir /\ DOMAIN dir = 1 .. n /\ n \in Nat
  BY LookupEffect, DirsType, FilePerDirAssumption
<1>2. /\ DOMAIN new = 1 .. n - 1
      /\ \A i \in 1 .. n - 1 : from(i) \in DOMAIN dir \ {m} /\ new[i] = dir[from(i)]
  BY RemoveEffect
<1>3. \A k \in DOMAIN dir \ {m} : \E i \in 1 .. n - 1 : from(i) = k
  <2> SUFFICES ASSUME NEW k \in DOMAIN dir \ {m}
               PROVE  \E i \in 1 .. n - 1 : from(i) = k
    OBVIOUS
  <2>1. CASE k = n
    <3>1. m \in 1 .. n - 1 /\ from(m) = k
      BY <1>1, <2>1 DEF Origin
    <3>. QED
      BY <3>1
  <2>2. CASE k # n
    <3>1. k \in 1 .. n - 1 /\ from(k) = k
      BY <1>1, <2>2 DEF Origin
    <3>. QED
      BY <3>1
  <2>. QED
    BY <2>1, <2>2
<1> HIDE DEF m, n, new, from
<1>4. ASSUME NEW e \in ToSet(new)
      PROVE  e \in ToSet(dir) \ {dir[m]}
  <2>1. PICK i \in 1 .. n - 1 : e = new[i]
    BY <1>2 DEF ToSet
  <2>2. from(i) \in DOMAIN dir /\ from(i) # m /\ e = dir[from(i)]
    BY <1>2, <2>1
  <2>3. e # dir[m]
    BY <1>1, <2>2 DEF Distinct
  <2>. QED
    BY <2>2, <2>3 DEF ToSet
<1>5. ASSUME NEW e \in ToSet(dir), e # dir[m]
      PROVE  e \in ToSet(new)
  <2>1. PICK k \in DOMAIN dir : e = dir[k] /\ k # m
    BY <1>5 DEF ToSet
  <2>2. PICK i \in 1 .. n - 1 : from(i) = k
    BY <1>3, <2>1
  <2>. QED
    BY <1>2, <2>1, <2>2 DEF ToSet
<1>. QED
  BY <1>4, <1>5 DEF m, new

LEMMA SoundDir ==
  ASSUME NEW U, NEW B, NEW I, NEW T, Sound(U, B, I, T), NEW d \in DirsIn(U, I)
  PROVE  /\ I[d].blk \in Indices /\ T[I[d].blk] \in Dirs /\ Distinct(T[I[d].blk])
         /\ Cardinality(Content(I, T, d)) = Len(T[I[d].blk])
         /\ \A e \in DirsIn(U, I) : e # d => I[e].blk # I[d].blk /\ I[e].blk \in Indices
<1>1. I[d].blk \in Indices /\ T[I[d].blk] \in Dirs
  BY DEF Sound, TablesOK, OwnBlock
<1>2. Distinct(T[I[d].blk])
  BY DEF Sound, LeadOnce, Distinct
<1>3. Cardinality(Content(I, T, d)) = Len(T[I[d].blk])
  BY <1>1, <1>2, SizeOfSet DEF Content
<1>4. \A e \in DirsIn(U, I) : e # d => I[e].blk # I[d].blk /\ I[e].blk \in Indices
  BY DEF Sound, OwnBlock
<1>. QED
  BY <1>1, <1>2, <1>3, <1>4

LEMMA LinkContent ==
  ASSUME NEW U, NEW B, NEW I, NEW T, Sound(U, B, I, T),
         NEW p \in DirsIn(U, I), NEW name \in Names, NEW idx \in Indices,
         NEW new, Updated(new, T, I[p].blk, dir_insert(T[I[p].blk], name, idx))
  PROVE  /\ Content(I, new, p) =
              Content(I, T, p) \cup (IF HasSpace(T[I[p].blk])
                                     THEN {[name |-> name, idx |-> idx]} ELSE {})
         /\ \A d \in DirsIn(U, I) : d # p => Content(I, new, d) = Content(I, T, d)
<1> DEFINE b == I[p].blk
<1>1. b \in Indices /\ T[b] \in Dirs /\ DOMAIN T = Indices
      /\ \A d \in DirsIn(U, I) : d # p => I[d].blk # b /\ I[d].blk \in Indices
  BY SoundDir DEF Sound, TablesOK
<1>2. /\ new[b] = dir_insert(T[b], name, idx)
      /\ \A d \in DirsIn(U, I) : d # p => new[I[d].blk] = T[I[d].blk]
  BY <1>1 DEF Updated
<1>3. CASE HasSpace(T[b])
  BY <1>1, <1>2, <1>3, InsertSet DEF Content
<1>4. CASE ~HasSpace(T[b])
  BY <1>1, <1>2, <1>4, InsertNothing DEF Content
<1>. QED
  BY <1>3, <1>4

\* `new' is the table T without the entry called `name' of the directory p,
\* which leads to idx, and how the contents of the directories show it.
TakesOut(U, B, I, T, p, name, new, idx) ==
  /\ Sound(U, B, I, T)
  /\ p \in DirsIn(U, I)
  /\ Slots(T[I[p].blk], name) # {}
  /\ Updated(new, T, I[p].blk, dir_remove(T[I[p].blk], name))
  /\ idx = dir_file_inode_idx(T[I[p].blk], name)

LosesEntry(U, I, T, p, new, idx) ==
  /\ \E e \in Content(I, T, p) :
       e.idx = idx /\ Content(I, new, p) = Content(I, T, p) \ {e}
  /\ \A d \in DirsIn(U, I) : d # p => Content(I, new, d) = Content(I, T, d)

LEMMA UnlinkContent ==
  ASSUME NEW U, NEW B, NEW I, NEW T, NEW p, NEW name, NEW new, NEW idx,
         TakesOut(U, B, I, T, p, name, new, idx)
  PROVE  LosesEntry(U, I, T, p, new, idx)
<1> USE DEF TakesOut, LosesEntry
<1> DEFINE b == I[p].blk
           e == T[b][Min(Slots(T[b], name))]
<1>1. b \in Indices /\ T[b] \in Dirs /\ Distinct(T[b]) /\ DOMAIN T = Indices
      /\ \A d \in DirsIn(U, I) : d # p => I[d].blk # b /\ I[d].blk \in Indices
  BY SoundDir DEF Sound, TablesOK
<1>2. /\ new[b] = dir_remove(T[b], name)
      /\ \A d \in DirsIn(U, I) : d # p => new[I[d].blk] = T[I[d].blk]
  BY <1>1 DEF Updated
<1>3. ToSet(new[b]) = ToSet(T[b]) \ {e}
  BY <1>1, <1>2, RemoveSet
<1>4. Min(Slots(T[b], name)) \in DOMAIN T[b] /\ e.idx = dir_file_inode_idx(T[b], name)
  BY <1>1, LookupEffect
<1>5. e \in ToSet(T[b])
  BY <1>4 DEF ToSet
<1>. QED
  BY <1>2, <1>3, <1>4, <1>5 DEF Content

\* Who leads where, and the size of a directory, in terms of the contents.
LEMMA LeadsByContent ==
  ASSUME NEW U, NEW I, NEW T, NEW d, NEW x
  PROVE  Leads(U, I, T, d, x) <=>
           d \in DirsIn(U, I) /\ \E e \in Content(I, T, d) : e.idx = x
BY DEF Leads, Content, ToSet

-----------------------------------------------------------------------------
(* The steps                                                               *)

FInv == IInv /\ NoLoop(Used(inodes), inodeTab, dirTab)

LEMMA KidsUp ==
  ASSUME phase = "up"
  PROVE  /\ Kids = [d \in DirsIn(Used(inodes), inodeTab) |-> Content(inodeTab, dirTab, d)]
         /\ Leaves = Used(inodes) \ (DirsIn(Used(inodes), inodeTab) \cup {BADBLK_INODE})
BY DEF Kids, Leaves, LiveDirs, EntriesOf, Content, DirsIn

LEMMA KidsUpNext ==
  ASSUME phase' = "up"
  PROVE  /\ Kids' = [d \in DirsIn(Used(inodes'), inodeTab') |->
                       Content(inodeTab', dirTab', d)]
         /\ Leaves' = Used(inodes') \ (DirsIn(Used(inodes'), inodeTab') \cup {BADBLK_INODE})
BY DEF Kids, Leaves, LiveDirs, EntriesOf, Content, DirsIn

LEMMA SameCardinality == \A S : Forest!Cardinality(S) = Cardinality(S)
BY DEF Forest!Cardinality, Cardinality

\* The process ends or starts, and nothing is in use but the root.
LEMMA NoneLoop ==
  ASSUME NEW I, NEW T
  PROVE  NoLoop({}, I, T)
<1>1. \A d, x : ~Leads({}, I, T, d, x)
  BY DEF Leads, DirsIn
<1> SUFFICES ASSUME NEW S \in SUBSET Indices, S # {}
             PROVE  \E x \in S : \A d \in S : ~Leads({}, I, T, d, x)
  BY DEF NoLoop
<1>. QED
  BY <1>1

LEMMA DieForest ==
  ASSUME NEW how \in {"down", "aborted", "crashed"}, Die(how)
  PROVE  Forest!Next /\ NoLoop(Used(inodes'), inodeTab', dirTab')
<1>1. Used(inodes') = {} /\ phase' # "up"
  BY ClearGrpsEffect DEF Die
<1>2. Kids' = [d \in {ROOT_INODE} |-> {}] /\ Leaves' = {}
  BY <1>1 DEF Kids, Leaves
<1>3. Forest!Restart
  BY <1>2 DEF Forest!Restart
<1>. QED
  BY <1>1, <1>3, NoneLoop DEF Forest!Next

\* Nothing happens to the inodes and the entries.
LEMMA SameForest ==
  ASSUME FInv, phase' = phase, inodes' = inodes, inodeTab' = inodeTab, dirTab' = dirTab
  PROVE  /\ UNCHANGED Forest!vars
         /\ NoLoop(Used(inodes'), inodeTab', dirTab')
BY DEF FInv, Forest!vars, Kids, Leaves, LiveDirs, EntriesOf

\* An inode is made in directory p.
MadeIn(p, name, idx) ==
  \A d \in DirsIn(Used(inodes), inodeTab) :
    Content(inodeTab', dirTab', d) =
      Content(inodeTab, dirTab, d) \cup
        (IF d = p /\ HasSpace(dirTab[inodeTab[p].blk])
         THEN {[name |-> name, idx |-> idx]} ELSE {})

LEMMA MakeForest ==
  ASSUME FInv, phase = "up", phase' = "up",
         NEW p \in DirsIn(Used(inodes), inodeTab), NEW name \in Names,
         NEW idx \in Indices, idx \notin Used(inodes), idx # BADBLK_INODE,
         Used(inodes') = Used(inodes) \cup {idx},
         MadeIn(p, name, idx),
         \/ /\ DirsIn(Used(inodes'), inodeTab') = DirsIn(Used(inodes), inodeTab) \cup {idx}
            /\ Content(inodeTab', dirTab', idx) = {}
         \/ DirsIn(Used(inodes'), inodeTab') = DirsIn(Used(inodes), inodeTab)
  PROVE  Forest!Next /\ NoLoop(Used(inodes'), inodeTab', dirTab')
<1> DEFINE D == DirsIn(Used(inodes), inodeTab)
           newD == DirsIn(Used(inodes'), inodeTab')
           old(d) == Content(inodeTab, dirTab, d)
           new(d) == Content(inodeTab', dirTab', d)
           elt == [name |-> name, idx |-> idx]
           space == HasSpace(dirTab[inodeTab[p].blk])
           tree == IF Cardinality(Kids[p]) < FilePerDir
                   THEN [Kids EXCEPT ![p] = @ \cup {elt}] ELSE Kids
<1>1. /\ Kids = [d \in D |-> old(d)] /\ Leaves = Used(inodes) \ (D \cup {BADBLK_INODE})
      /\ Kids' = [d \in newD |-> new(d)]
      /\ Leaves' = Used(inodes') \ (newD \cup {BADBLK_INODE})
  BY KidsUp, KidsUpNext
<1>2. space <=> Cardinality(old(p)) < FilePerDir
  BY InvariantFacts, SoundDir DEF FInv, HasSpace
<1>3. /\ D \subseteq Used(inodes)
      /\ \A d \in D : new(d) = old(d) \cup (IF d = p /\ space THEN {elt} ELSE {})
      /\ \/ newD = D \cup {idx} /\ new(idx) = {}
         \/ newD = D
  BY DEF DirsIn, MadeIn
<1>e. elt.idx = idx
  OBVIOUS
<1> HIDE DEF old, new, space, elt, D, newD
<1>4. /\ DOMAIN tree = D
      /\ \A d \in D : tree[d] = new(d)
  <2>1. Kids[p] = old(p) /\ p \in D
    BY <1>1 DEF D
  <2>2. CASE space
    <3>1. tree = [Kids EXCEPT ![p] = old(p) \cup {elt}]
      BY <1>2, <2>1, <2>2
    <3>. QED
      BY <1>1, <1>3, <2>1, <2>2, <3>1
  <2>3. CASE ~space
    BY <1>1, <1>2, <1>3, <2>1, <2>3
  <2>. QED
    BY <2>2, <2>3
<1>5. tree = [d \in D |-> new(d)]
  BY <1>1, <1>4
<1>6. Forest!Make(p, name, idx)
  <2> DEFINE ftree == IF Forest!Cardinality(Kids[p]) < FilePerDir
                      THEN Forest!Linked(Kids, p, name, idx) ELSE Kids
  <2>1. ftree = tree
    BY SameCardinality DEF Forest!Linked, elt
  <2> HIDE DEF ftree, tree
  <2>2. CASE newD = D \cup {idx} /\ new(idx) = {}
    <3>1. idx \notin D
      BY <1>3
    <3>2. Kids' = [x \in DOMAIN Kids \cup {idx} |-> IF x = idx THEN {} ELSE ftree[x]]
      BY <1>1, <1>5, <2>1, <2>2, <3>1
    <3>3. Leaves' = Leaves
      BY <1>1, <2>2, <1>3
    <3>. QED
      BY <3>2, <3>3 DEF Forest!Make, ftree
  <2>3. CASE newD = D
    <3>1. Kids' = ftree
      BY <1>1, <1>5, <2>1, <2>3
    <3>2. Leaves' = Leaves \cup {idx}
      BY <1>1, <1>3, <2>3
    <3>. QED
      BY <3>1, <3>2 DEF Forest!Make, ftree
  <2>. QED
    BY <1>3, <2>2, <2>3
<1>7. Forest!Next
  <2>1. p \in DOMAIN Kids
    BY <1>1 DEF D
  <2>2. idx \in (Indices \ {BADBLK_INODE}) \ Forest!Live
    BY <1>1, <1>3 DEF Forest!Live
  <2>. QED
    BY <1>6, <2>1, <2>2 DEF Forest!Next
<1>8. NoLoop(Used(inodes'), inodeTab', dirTab')
  <2>1. \A d, x : Leads(Used(inodes), inodeTab, dirTab, d, x) <=>
                    d \in D /\ \E e \in old(d) : e.idx = x
    BY LeadsByContent DEF D, old
  <2>2. \A d, x : Leads(Used(inodes'), inodeTab', dirTab', d, x) <=>
                    d \in newD /\ \E e \in new(d) : e.idx = x
    BY LeadsByContent DEF newD, new
  <2>3. \A x : ~Leads(Used(inodes'), inodeTab', dirTab', idx, x)
    BY <1>3, <2>2
  <2>4. ASSUME NEW d, NEW x, Leads(Used(inodes'), inodeTab', dirTab', d, x)
        PROVE  Leads(Used(inodes), inodeTab, dirTab, d, x) \/ (d = p /\ x = idx)
    <3>1. PICK e \in new(d) : e.idx = x /\ d \in newD /\ d # idx
      BY <2>2, <2>3, <2>4
    <3>2. d \in D
      BY <1>3, <3>1
    <3>. QED
      BY <1>3, <1>e, <2>1, <3>1, <3>2
  <2>5. p # idx
    BY <1>3 DEF D
  <2>. QED
    BY <2>3, <2>4, <2>5, LeafLeadNoLoop DEF FInv
<1>. QED
  BY <1>7, <1>8

LEMMA MkdirDoneForest ==
  ASSUME FInv, phase = "up", NEW path \in Files, MakeStatus(path) = "OK",
         MkdirDone(path)
  PROVE  Forest!Next /\ NoLoop(Used(inodes'), inodeTab', dirTab')
<1> DEFINE idx == AllocIdx(inodes)
           blk == AllocIdx(blocks)
           p == Parent(dirTab, path)
           name == Last(path)
           b == inodeTab[p].blk
           U == Used(inodes)
           newU == Used(inodes')
           clear == MkdirClear
           linked == MkdirLinked(path)
           newI == inodeTab'
<1>1. /\ idx \in Indices /\ idx \notin U /\ idx # BADBLK_INODE /\ newU = U \cup {idx}
      /\ newI = [inodeTab EXCEPT ![idx] = [dir |-> TRUE, blk |-> blk]]
      /\ p \in DirsIn(U, inodeTab) /\ p \in DirsIn(newU, newI)
      /\ newI[p] = inodeTab[p] /\ b # blk
      /\ Sound(newU, Used(blocks'), newI, clear)
      /\ Updated(linked, clear, newI[p].blk, dir_insert(clear[newI[p].blk], name, idx))
  BY MkdirDoneEffect DEF FInv
<1>2. /\ \A x \in Indices : dirTab'[x] = linked[x]
      /\ Updated(clear, dirTab, blk, <<>>)
      /\ blk \in Indices \ Used(blocks)
      /\ Sound(newU, Used(blocks'), newI, linked)
  BY MkdirDoneEffect DEF FInv, TakesDir
<1>3. name \in Names /\ phase' = "up"
  BY MakeFacts DEF FInv, MkdirDone
<1>4. /\ DOMAIN inodeTab = Indices /\ DOMAIN dirTab = Indices /\ U \subseteq Indices
      /\ \A d \in DirsIn(U, inodeTab) :
           inodeTab[d].blk \in Indices /\ inodeTab[d].blk \in Used(blocks)
  BY InvariantFacts DEF FInv, Sound, TablesOK, OwnBlock
<1> HIDE DEF idx, blk, p, name, U, newU, clear, linked, newI
<1>5. /\ newI[idx].dir /\ newI[idx].blk = blk
      /\ \A x \in Indices : x # idx => newI[x] = inodeTab[x]
  BY <1>1, <1>4
<1>6. DirsIn(newU, newI) = DirsIn(U, inodeTab) \cup {idx}
  BY <1>1, <1>4, <1>5 DEF DirsIn
<1>7. \A d \in DirsIn(U, inodeTab) : d # idx /\ newI[d] = inodeTab[d]
  BY <1>1, <1>4, <1>5 DEF DirsIn
<1>8. \A d \in DirsIn(U, inodeTab) :
        Content(newI, clear, d) = Content(inodeTab, dirTab, d)
  BY <1>2, <1>4, <1>7 DEF Content, Updated
<1>9. Content(newI, clear, idx) = {}
  <2>1. clear[blk] = <<>>
    BY <1>2 DEF Updated
  <2>2. ToSet(<<>>) = {}
    BY EmptyIsDir DEF ToSet
  <2>. QED
    BY <1>5, <2>1, <2>2 DEF Content
<1>10. clear[newI[p].blk] = dirTab[b]
  BY <1>1, <1>2, <1>4 DEF Updated
<1>11. /\ Content(newI, linked, p) =
            Content(newI, clear, p) \cup (IF HasSpace(clear[newI[p].blk])
                                          THEN {[name |-> name, idx |-> idx]} ELSE {})
       /\ \A d \in DirsIn(newU, newI) : d # p =>
            Content(newI, linked, d) = Content(newI, clear, d)
  <2>1. /\ idx \in Indices /\ name \in Names /\ p \in DirsIn(newU, newI)
        /\ Sound(newU, Used(blocks'), newI, clear)
        /\ Updated(linked, clear, newI[p].blk, dir_insert(clear[newI[p].blk], name, idx))
    BY <1>1, <1>3
  <2>. QED
    BY <2>1, LinkContent
<1>12. \A d \in DirsIn(newU, newI) : Content(newI, dirTab', d) = Content(newI, linked, d)
  <2>1. \A d \in DirsIn(newU, newI) : newI[d].blk \in Indices
    BY <1>1, SoundDir
  <2>. QED
    BY <1>2, <2>1 DEF Content
<1>13. \A d \in DirsIn(U, inodeTab) :
         Content(newI, dirTab', d) =
           Content(inodeTab, dirTab, d) \cup
             (IF d = p /\ HasSpace(dirTab[b]) THEN {[name |-> name, idx |-> idx]} ELSE {})
  BY <1>6, <1>8, <1>10, <1>11, <1>12
<1>14. Content(newI, dirTab', idx) = {}
  BY <1>1, <1>6, <1>7, <1>9, <1>11, <1>12
<1>15. MadeIn(p, name, idx)
  BY <1>13 DEF MadeIn, U, newI
<1>. QED
  BY <1>1, <1>3, <1>6, <1>14, <1>15, MakeForest DEF U, newU, newI

LEMMA CreateDoneForest ==
  ASSUME FInv, phase = "up", NEW path \in Files, MakeStatus(path) = "OK",
         CreateDone(path)
  PROVE  Forest!Next /\ NoLoop(Used(inodes'), inodeTab', dirTab')
<1> DEFINE idx == AllocIdx(inodes)
           p == Parent(dirTab, path)
           name == Last(path)
           b == inodeTab[p].blk
           U == Used(inodes)
           B == Used(blocks)
           newU == Used(inodes')
           inode == [dir |-> FALSE, blk |-> 0]
           newI == inodeTab'
<1>1. /\ HasRoom(inodes) /\ inodes' = Allocated(inodes)
      /\ dirTab' = WithEntry(dirTab, path, idx)
      /\ newI = [inodeTab EXCEPT ![idx] = inode]
      /\ phase' = "up"
  BY DEF CreateDone
<1>2. idx \in Indices /\ idx \notin U /\ newU = U \cup {idx}
  BY <1>1, InvariantFacts, AllocEffect DEF FInv
<1>3. p \in DirsIn(U, inodeTab) /\ b \in B /\ ParentBlk(dirTab, path) = b /\ name \in Names
  BY MakeFacts DEF FInv
<1>4. DOMAIN dirTab = Indices /\ DOMAIN inodeTab = Indices /\ U \subseteq Indices
      /\ Sound(U, B, inodeTab, dirTab)
  BY InvariantFacts DEF FInv, Sound, TablesOK
<1>5. idx # BADBLK_INODE
  BY <1>2, UpFacts DEF FInv
<1>6. Updated(dirTab', dirTab, b, dir_insert(dirTab[b], name, idx))
  <2>1. b \in DOMAIN dirTab
    BY <1>3, <1>4 DEF Sound
  <2>. QED
    BY <1>1, <1>3, <2>1, ExceptUpdates DEF WithEntry
<1>i. ~inode.dir
  OBVIOUS
<1> HIDE DEF idx, p, name, U, B, newU, inode, newI
<1>7. /\ \A x \in Indices : x # idx => newI[x] = inodeTab[x]
      /\ ~newI[idx].dir
  BY <1>1, <1>2, <1>4, <1>i
<1>8. DirsIn(newU, newI) = DirsIn(U, inodeTab)
  BY <1>2, <1>4, <1>7 DEF DirsIn
<1>9. \A d \in DirsIn(U, inodeTab) : newI[d] = inodeTab[d]
  BY <1>2, <1>4, <1>7 DEF DirsIn
<1>10. /\ Content(inodeTab, dirTab', p) =
            Content(inodeTab, dirTab, p) \cup (IF HasSpace(dirTab[inodeTab[p].blk])
                                          THEN {[name |-> name, idx |-> idx]} ELSE {})
       /\ \A d \in DirsIn(U, inodeTab) : d # p =>
            Content(inodeTab, dirTab', d) = Content(inodeTab, dirTab, d)
  BY <1>2, <1>3, <1>4, <1>6, LinkContent
<1>11. \A d \in DirsIn(U, inodeTab) :
         Content(newI, dirTab', d) =
           Content(inodeTab, dirTab, d) \cup
             (IF d = p /\ HasSpace(dirTab[b]) THEN {[name |-> name, idx |-> idx]} ELSE {})
  <2>1. \A d \in DirsIn(U, inodeTab) :
          Content(newI, dirTab', d) = Content(inodeTab, dirTab', d)
    BY <1>9 DEF Content
  <2>. QED
    BY <1>10, <2>1
<1>12. MadeIn(p, name, idx)
  BY <1>11 DEF MadeIn, U, newI
<1>. QED
  BY <1>1, <1>2, <1>3, <1>5, <1>8, <1>12, MakeForest DEF U, newU, newI

\* What is left when entry e of directory p has been taken out.
TakenOut(tab, p, e) ==
  /\ p \in DirsIn(Used(inodes), inodeTab)
  /\ e \in Content(inodeTab, dirTab, p)
  /\ \A d \in DirsIn(Used(inodes), inodeTab) :
       Content(inodeTab, tab, d) =
         IF d = p THEN Content(inodeTab, dirTab, p) \ {e} ELSE Content(inodeTab, dirTab, d)

LEMMA UnlinkForest ==
  ASSUME FInv, NEW path \in Files,
         fs_path_to_parent(dirTab, path) = "OK", Child(dirTab, path) # 0
  PROVE  LET tab == WithoutEntry(dirTab, path)
             idx == Child(dirTab, path)
         IN  /\ \E p, e : TakenOut(tab, p, e) /\ e.idx = idx
             /\ \A d, x : Leads(Used(inodes), inodeTab, tab, d, x) =>
                            Leads(Used(inodes), inodeTab, dirTab, d, x)
             /\ \A d : ~Leads(Used(inodes), inodeTab, tab, d, idx)
             /\ NoLoop(Used(inodes), inodeTab, tab)
<1> DEFINE p == Parent(dirTab, path)
           tab == WithoutEntry(dirTab, path)
           idx == Child(dirTab, path)
           name == Last(path)
           U == Used(inodes)
           B == Used(blocks)
<1>1. /\ p \in DirsIn(U, inodeTab) /\ inodeTab[p].blk \in B
      /\ ParentBlk(dirTab, path) = inodeTab[p].blk
  BY InvariantFacts, ParentIsDir DEF ParentBlk, FInv
<1>2. Slots(dirTab[inodeTab[p].blk], name) # {}
  BY <1>1, TakenMeansFound DEF FInv
<1>3. Updated(tab, dirTab, inodeTab[p].blk, dir_remove(dirTab[inodeTab[p].blk], name))
  <2>1. inodeTab[p].blk \in DOMAIN dirTab
    BY <1>1, InvariantFacts DEF Sound, TablesOK, FInv
  <2>. QED
    BY <1>1, <2>1, ExceptUpdates DEF WithoutEntry
<1>4. idx = dir_file_inode_idx(dirTab[inodeTab[p].blk], name)
  BY <1>1 DEF Child
<1>5. Sound(U, B, inodeTab, dirTab) /\ NoneLeadsTo(U, inodeTab, tab, idx)
  BY InvariantFacts, UnlinkEffect DEF FInv
<1>n. NoLoop(U, inodeTab, dirTab)
  BY DEF FInv
<1> HIDE DEF p, tab, name, U, B, idx
<1>6. /\ \E e \in Content(inodeTab, dirTab, p) :
           e.idx = idx /\ Content(inodeTab, tab, p) = Content(inodeTab, dirTab, p) \ {e}
      /\ \A d \in DirsIn(U, inodeTab) : d # p =>
           Content(inodeTab, tab, d) = Content(inodeTab, dirTab, d)
  <2>1. TakesOut(U, B, inodeTab, dirTab, p, name, tab, idx)
    BY <1>1, <1>2, <1>3, <1>4, <1>5 DEF TakesOut
  <2>2. LosesEntry(U, inodeTab, dirTab, p, tab, idx)
    BY <2>1, UnlinkContent
  <2>. QED
    BY <2>2 DEF LosesEntry
<1>7. \E e : TakenOut(tab, p, e) /\ e.idx = idx
  BY <1>1, <1>6 DEF TakenOut, U
<1>8. \A d, x : Leads(U, inodeTab, tab, d, x) => Leads(U, inodeTab, dirTab, d, x)
  <2> SUFFICES ASSUME NEW d, NEW x, Leads(U, inodeTab, tab, d, x)
               PROVE  Leads(U, inodeTab, dirTab, d, x)
    OBVIOUS
  <2>1. PICK f \in Content(inodeTab, tab, d) : f.idx = x /\ d \in DirsIn(U, inodeTab)
    BY LeadsByContent
  <2>2. f \in Content(inodeTab, dirTab, d)
    BY <1>6, <2>1
  <2>. QED
    BY <2>1, <2>2, LeadsByContent
<1>9. \A d : ~Leads(U, inodeTab, tab, d, idx)
  BY <1>5 DEF Leads, NoneLeadsTo
<1>10. NoLoop(U, inodeTab, tab)
  BY <1>8, <1>n, FewerLeadNoLoop
<1>. QED
  BY <1>7, <1>8, <1>9, <1>10 DEF tab, idx, U

LEMMA UnlinkedKids ==
  ASSUME FInv, phase = "up", NEW tab, NEW p, NEW e, TakenOut(tab, p, e)
  PROVE  /\ p \in DOMAIN Kids /\ e \in Kids[p]
         /\ DOMAIN Kids = DirsIn(Used(inodes), inodeTab)
         /\ Forest!Unlinked(p, e) =
              [d \in DirsIn(Used(inodes), inodeTab) |-> Content(inodeTab, tab, d)]
<1> DEFINE D == DirsIn(Used(inodes), inodeTab)
<1>1. Kids = [d \in D |-> Content(inodeTab, dirTab, d)]
  BY KidsUp
<1>2. /\ p \in D /\ e \in Content(inodeTab, dirTab, p)
      /\ \A d \in D : Content(inodeTab, tab, d) =
           IF d = p THEN Content(inodeTab, dirTab, p) \ {e} ELSE Content(inodeTab, dirTab, d)
  BY DEF TakenOut
<1> HIDE DEF D
<1>3. Forest!Unlinked(p, e) = [Kids EXCEPT ![p] = Content(inodeTab, dirTab, p) \ {e}]
  BY <1>1, <1>2 DEF Forest!Unlinked
<1>4. Forest!Unlinked(p, e) = [d \in D |-> Content(inodeTab, tab, d)]
  BY <1>1, <1>2, <1>3
<1>. QED
  BY <1>1, <1>2, <1>4 DEF D

LEMMA RenameLosesForest ==
  ASSUME FInv, phase = "up", NEW from \in Files, NEW to \in Files,
         RenameStatus(from) = "OK", RenameLoses(from, to)
  PROVE  Forest!Next /\ NoLoop(Used(inodes'), inodeTab', dirTab')
<1> DEFINE tab == WithoutEntry(dirTab, from)
<1>1. fs_path_to_parent(dirTab, from) = "OK" /\ Child(dirTab, from) # 0
  BY DEF RenameStatus
<1>2. /\ dirTab' = tab /\ phase' = "up"
      /\ inodes' = inodes /\ inodeTab' = inodeTab
  BY DEF RenameLoses
<1>3. NoLoop(Used(inodes), inodeTab, tab)
  BY <1>1, UnlinkForest
<1>4. PICK p, e : TakenOut(tab, p, e)
  BY <1>1, UnlinkForest
<1> HIDE DEF tab
<1>5. Kids' = Forest!Unlinked(p, e) /\ p \in DOMAIN Kids /\ e \in Kids[p]
  BY <1>2, <1>4, UnlinkedKids, KidsUpNext
<1>6. Leaves' = Leaves
  BY <1>2, KidsUp, KidsUpNext
<1>7. Forest!Lose(p, e)
  BY <1>5, <1>6 DEF Forest!Lose
<1>. QED
  BY <1>2, <1>3, <1>5, <1>7 DEF Forest!Next

LEMMA RemoveDoneForest ==
  ASSUME FInv, phase = "up", NEW path \in Files, RemoveDone(path)
  PROVE  Forest!Next /\ NoLoop(Used(inodes'), inodeTab', dirTab')
<1> DEFINE tab == WithoutEntry(dirTab, path)
           idx == Child(dirTab, path)
           U == Used(inodes)
           D == DirsIn(U, inodeTab)
<1>1. /\ fs_path_to_parent(dirTab, path) = "OK" /\ idx # 0
      /\ inodes' = Released(inodes, idx)
      /\ dirTab' = tab /\ phase' = "up" /\ inodeTab' = inodeTab
  BY DEF RemoveDone, exist
<1>2. idx \in U \ {BADBLK_INODE, ROOT_INODE} /\ idx \in Indices
  BY <1>1, UnlinkEffect DEF FInv, Used
<1>3. Used(inodes') = U \ {idx}
  BY <1>1, <1>2, InvariantFacts, ReleaseEffect DEF FInv
<1>4. NoLoop(U, inodeTab, tab)
  BY <1>1, UnlinkForest
<1>5. PICK p, e : TakenOut(tab, p, e) /\ e.idx = idx
  BY <1>1, UnlinkForest
<1>6. DirsIn(U \ {idx}, inodeTab) = D \ {idx}
  BY DEF DirsIn
<1> HIDE DEF tab, idx
<1>7. /\ Forest!Unlinked(p, e) = [d \in D |-> Content(inodeTab, tab, d)]
      /\ p \in DOMAIN Kids /\ e \in Kids[p] /\ DOMAIN Kids = D
  BY <1>5, UnlinkedKids
<1>8. /\ Kids' = [d \in D \ {idx} |-> Content(inodeTab, tab, d)]
      /\ Leaves = U \ (D \cup {BADBLK_INODE})
      /\ Leaves' = (U \ {idx}) \ ((D \ {idx}) \cup {BADBLK_INODE})
  BY <1>1, <1>3, <1>6, KidsUp, KidsUpNext
<1> HIDE DEF U, D
<1>9. Kids' = [d \in DOMAIN Kids \ {e.idx} |-> Forest!Unlinked(p, e)[d]]
  BY <1>5, <1>7, <1>8
<1>10. Leaves' = Leaves \ {e.idx}
  BY <1>5, <1>8
<1>11. Forest!Remove(p, e)
  BY <1>9, <1>10 DEF Forest!Remove
<1>12. NoLoop(U \ {idx}, inodeTab, tab)
  <2>1. \A d, x : Leads(U \ {idx}, inodeTab, tab, d, x) => Leads(U, inodeTab, tab, d, x)
    BY DEF Leads, DirsIn
  <2>. QED
    BY <1>4, <2>1, FewerLeadNoLoop
<1>. QED
  BY <1>1, <1>3, <1>7, <1>11, <1>12 DEF Forest!Next

LEMMA RenameDoneForest ==
  ASSUME FInv, phase = "up", NEW from \in Files, NEW to \in Files,
         RenameStatus(from) = "OK", RenameDone(from, to)
  PROVE  Forest!Next /\ NoLoop(Used(inodes'), inodeTab', dirTab')
<1> DEFINE tab == WithoutEntry(dirTab, from)
           idx == Child(dirTab, from)
           q == Parent(tab, to)
           name == Last(to)
           U == Used(inodes)
           B == Used(blocks)
           b == inodeTab[q].blk
           elt == [name |-> name, idx |-> idx]
<1>0. fs_path_to_parent(dirTab, from) = "OK" /\ idx # 0
  BY DEF RenameStatus
<1>1. /\ fs_path_to_parent(tab, to) = "OK"
      /\ HasSpace(tab[ParentBlk(tab, to)])
      /\ dirTab' = WithEntry(tab, to, idx)
      /\ phase' = "up" /\ inodes' = inodes /\ inodeTab' = inodeTab
  BY DEF RenameDone
<1>2. /\ Sound(U, B, inodeTab, tab)
      /\ idx \in U /\ idx \notin {BADBLK_INODE, ROOT_INODE} /\ idx \in Indices
  BY <1>0, UnlinkEffect DEF FInv, Used
<1>3. /\ \A d, x : Leads(U, inodeTab, tab, d, x) => Leads(U, inodeTab, dirTab, d, x)
      /\ \A d : ~Leads(U, inodeTab, tab, d, idx)
      /\ NoLoop(U, inodeTab, tab)
  BY <1>0, UnlinkForest
<1>4. PICK p, e : TakenOut(tab, p, e) /\ e.idx = idx
  BY <1>0, UnlinkForest
<1>d. Sound(U, B, inodeTab, dirTab)
  BY InvariantFacts DEF FInv
<1> HIDE DEF tab, idx
<1>5. Readable(tab)
  BY <1>2, ReservedAreIndices DEF Readable, Sound
<1>6. q \in DirsIn(U, inodeTab) /\ b \in B /\ ParentBlk(tab, to) = b /\ name \in Names
  BY <1>1, <1>5, ParentIsDir DEF ParentBlk
<1>7. Updated(dirTab', tab, b, dir_insert(tab[b], name, idx))
  <2>1. b \in DOMAIN tab
    BY <1>2, <1>6 DEF Sound, TablesOK
  <2>. QED
    BY <1>1, <1>6, <2>1, ExceptUpdates DEF WithEntry
<1>8. q \in Passed(tab, Front(to)) /\ Len(Front(to)) \in Nat
  BY PathType DEF Parent, fs_path_to_inode, Passed
<1> HIDE DEF q, name
<1>9. /\ Content(inodeTab, dirTab', q) =
            Content(inodeTab, tab, q) \cup (IF HasSpace(tab[inodeTab[q].blk])
                                            THEN {[name |-> name, idx |-> idx]} ELSE {})
      /\ \A d \in DirsIn(U, inodeTab) : d # q =>
            Content(inodeTab, dirTab', d) = Content(inodeTab, tab, d)
  <2> HIDE DEF U, B
  <2>. QED
    BY <1>2, <1>6, <1>7, LinkContent
<1>10. elt.idx = idx
  OBVIOUS
<1>11. HasSpace(tab[b])
  BY <1>1, <1>6
<1> HIDE DEF elt
<1>12. \A d \in DirsIn(U, inodeTab) :
         Content(inodeTab, dirTab', d) =
           IF d = q THEN Content(inodeTab, tab, q) \cup {elt} ELSE Content(inodeTab, tab, d)
  BY <1>9, <1>11 DEF elt
<1>13. /\ Forest!Unlinked(p, e) =
            [d \in DirsIn(U, inodeTab) |-> Content(inodeTab, tab, d)]
       /\ p \in DOMAIN Kids /\ e \in Kids[p] /\ DOMAIN Kids = DirsIn(U, inodeTab)
  BY <1>4, UnlinkedKids
<1>14. /\ Kids' = [d \in DirsIn(U, inodeTab) |-> Content(inodeTab, dirTab', d)]
       /\ Leaves' = Leaves
  BY <1>1, KidsUp, KidsUpNext
<1>15. Kids' = Forest!Linked(Forest!Unlinked(p, e), q, name, e.idx)
  <2>1. Forest!Linked(Forest!Unlinked(p, e), q, name, e.idx) =
          [Forest!Unlinked(p, e) EXCEPT ![q] = Content(inodeTab, tab, q) \cup {elt}]
    BY <1>4, <1>6, <1>13 DEF Forest!Linked, elt
  <2>. QED
    BY <1>6, <1>12, <1>13, <1>14, <2>1
<1>16. Forest!Cardinality(Forest!Unlinked(p, e)[q]) < FilePerDir
  <2>1. Cardinality(Content(inodeTab, tab, q)) = Len(tab[b])
    BY <1>2, <1>6, SoundDir
  <2>2. Forest!Unlinked(p, e)[q] = Content(inodeTab, tab, q)
    BY <1>6, <1>13
  <2>. QED
    BY <1>11, <2>1, <2>2, SameCardinality DEF HasSpace
<1>17. q \notin Forest!Below(e.idx)
  BY <1>2, <1>3, <1>4, <1>5, <1>8, <1>d, TargetNotBelow
<1>18. Forest!Move(p, e, q, name)
  BY <1>14, <1>15, <1>16, <1>17 DEF Forest!Move
<1>19. Forest!Next
  BY <1>6, <1>13, <1>18 DEF Forest!Next
<1>20. NoLoop(U, inodeTab, dirTab')
  <2>1. ASSUME NEW d, NEW x, Leads(U, inodeTab, dirTab', d, x)
        PROVE  Leads(U, inodeTab, tab, d, x) \/ (d = q /\ x = idx)
    <3>1. PICK f \in Content(inodeTab, dirTab', d) : f.idx = x /\ d \in DirsIn(U, inodeTab)
      BY <2>1, LeadsByContent
    <3>2. f \in Content(inodeTab, tab, d) \/ (d = q /\ f = elt)
      BY <1>12, <3>1
    <3>. QED
      BY <1>10, <3>1, <3>2, LeadsByContent
  <2>2. idx # 0
    BY <1>2, IndicesAreNat
  <2>. QED
    BY <1>2, <1>3, <1>5, <1>8, <2>1, <2>2, MoveNoLoop
<1>. QED
  BY <1>1, <1>19, <1>20

LEMMA MountForest ==
  ASSUME FInv, Mount
  PROVE  UNCHANGED Forest!vars /\ NoLoop(Used(inodes'), inodeTab', dirTab')
<1> DEFINE first == Allocated(ClearGrps)
<1>1. /\ phase # "up" /\ phase' = "up" /\ AllocIdx(ClearGrps) = 1
      /\ inodes' = Allocated(first)
      /\ dirTab' = [dirTab EXCEPT ![1] = <<>>]
      /\ inodeTab' = [inodeTab EXCEPT ![2] = [dir |-> TRUE, blk |-> 1]]
  BY ClearGrpsEffect DEF Mount, ROOT_INODE
<1>2. Used(inodes') = {1, 2}
  BY <1>1, RootEffect, AllocEffect
<1>3. 1 \in Indices /\ 2 \in Indices
  BY ReservedAreIndices DEF BADBLK_INODE, ROOT_INODE
<1>4. DOMAIN dirTab = Indices /\ DOMAIN inodeTab = Indices /\ ~inodeTab[1].dir
  BY InvariantFacts DEF FInv, Sound, TablesOK, ReservedInodes, BADBLK_INODE
<1>5. dirTab'[1] = <<>> /\ inodeTab'[2].dir /\ inodeTab'[2].blk = 1 /\ ~inodeTab'[1].dir
  BY <1>1, <1>3, <1>4
<1>6. DirsIn({1, 2}, inodeTab') = {2}
  BY <1>5 DEF DirsIn
<1>7. Content(inodeTab', dirTab', 2) = {}
  BY <1>5, EmptyIsDir DEF Content, ToSet
<1>8. /\ Kids' = [d \in {2} |-> {}]
      /\ Leaves' = {1, 2} \ ({2} \cup {BADBLK_INODE})
  <2>1. phase' = "up"
    BY <1>1
  <2>2. /\ Kids' = [d \in DirsIn(Used(inodes'), inodeTab') |->
                      Content(inodeTab', dirTab', d)]
        /\ Leaves' = Used(inodes') \ (DirsIn(Used(inodes'), inodeTab') \cup {BADBLK_INODE})
    BY <2>1, KidsUpNext
  <2>3. DirsIn(Used(inodes'), inodeTab') = {2}
    BY <1>2, <1>6
  <2>4. Kids' = [d \in {2} |-> Content(inodeTab', dirTab', d)]
    BY <2>2, <2>3
  <2>. QED
    BY <1>2, <1>7, <2>2, <2>3, <2>4
<1>9. Kids = [d \in {2} |-> {}] /\ Leaves = {}
  BY <1>1 DEF Kids, Leaves, ROOT_INODE
<1>10. UNCHANGED Forest!vars
  BY <1>8, <1>9 DEF Forest!vars, BADBLK_INODE
<1>11. NoLoop({1, 2}, inodeTab', dirTab')
  <2>1. \A d, x : ~Leads({1, 2}, inodeTab', dirTab', d, x)
    BY <1>6, <1>7, LeadsByContent
  <2> SUFFICES ASSUME NEW S \in SUBSET Indices, S # {}
               PROVE  \E x \in S : \A d \in S : ~Leads({1, 2}, inodeTab', dirTab', d, x)
    BY DEF NoLoop
  <2>. QED
    BY <2>1
<1>. QED
  BY <1>2, <1>10, <1>11

LEMMA StepForest ==
  ASSUME FInv, [Next]_vars
  PROVE  [Forest!Next]_(Forest!vars) /\ NoLoop(Used(inodes'), inodeTab', dirTab')
<1>i. IInv
  BY DEF FInv
<1>1. CASE Mount
  BY <1>1, MountForest
<1>2. CASE Stop
  BY <1>2, DieForest DEF Stop
<1>3. ASSUME NEW path \in Files, Mkdir(path)
      PROVE  [Forest!Next]_(Forest!vars) /\ NoLoop(Used(inodes'), inodeTab', dirTab')
  <2>1. CASE Refuse(MakeStatus(path))
    BY <2>1, SameForest DEF Refuse
  <2>2. CASE Smash(path) /\ UNCHANGED dirTab
    BY <2>2, DieForest DEF Smash
  <2>3. CASE MkdirExhausted
    BY <2>3, SameForest DEF MkdirExhausted
  <2>4. CASE MkdirFaults
    BY <2>4, DieForest DEF MkdirFaults
  <2>5. CASE MakeStatus(path) = "OK" /\ MkdirDone(path)
    BY <1>3, <2>5, MkdirDoneForest DEF Mkdir
  <2>. QED
    BY <1>3, <2>1, <2>2, <2>3, <2>4, <2>5 DEF Mkdir
<1>4. ASSUME NEW path \in Files, CreateFile(path)
      PROVE  [Forest!Next]_(Forest!vars) /\ NoLoop(Used(inodes'), inodeTab', dirTab')
  <2>1. CASE Refuse(MakeStatus(path))
    BY <2>1, SameForest DEF Refuse
  <2>2. CASE Smash(path) /\ UNCHANGED dirTab
    BY <2>2, DieForest DEF Smash
  <2>3. CASE CreateExhausted
    BY <2>3, SameForest DEF CreateExhausted
  <2>4. CASE CreateFaults
    BY <2>4, DieForest DEF CreateFaults
  <2>5. CASE MakeStatus(path) = "OK" /\ CreateDone(path)
    BY <1>4, <2>5, CreateDoneForest DEF CreateFile
  <2>. QED
    BY <1>4, <2>1, <2>2, <2>3, <2>4, <2>5 DEF CreateFile
<1>5. ASSUME NEW from \in Files, NEW to \in Files, RenameFile(from, to)
      PROVE  [Forest!Next]_(Forest!vars) /\ NoLoop(Used(inodes'), inodeTab', dirTab')
  <2>1. CASE Refuse(RenameStatus(from))
    BY <2>1, SameForest DEF Refuse
  <2>2. CASE Smash(from) /\ UNCHANGED dirTab
    BY <2>2, DieForest DEF Smash
  <2>3. CASE RenameStatus(from) = "OK" /\ RenameLoses(from, to)
    BY <1>5, <2>3, RenameLosesForest DEF RenameFile
  <2>4. CASE RenameSmashes(from, to)
    BY <2>4, DieForest DEF RenameSmashes, Smash
  <2>5. CASE RenameStatus(from) = "OK" /\ RenameDone(from, to)
    BY <1>5, <2>5, RenameDoneForest DEF RenameFile
  <2>. QED
    BY <1>5, <2>1, <2>2, <2>3, <2>4, <2>5 DEF RenameFile
<1>6. ASSUME NEW path \in Files, RemoveFile(path)
      PROVE  [Forest!Next]_(Forest!vars) /\ NoLoop(Used(inodes'), inodeTab', dirTab')
  <2>1. CASE Refuse(fs_path_to_parent(dirTab, path))
    BY <2>1, SameForest DEF Refuse
  <2>2. CASE Smash(path) /\ UNCHANGED dirTab
    BY <2>2, DieForest DEF Smash
  <2>3. CASE RemoveAborts(path)
    BY <2>3, DieForest DEF RemoveAborts
  <2>4. CASE RemoveDone(path)
    BY <1>6, <2>4, RemoveDoneForest DEF RemoveFile
  <2>. QED
    BY <1>6, <2>1, <2>2, <2>3, <2>4 DEF RemoveFile
<1>7. CASE Expire
  BY <1>7, SameForest DEF Expire
<1>8. CASE UNCHANGED vars
  BY <1>8, SameForest DEF vars
<1>. QED
  BY <1>1, <1>2, <1>3, <1>4, <1>5, <1>6, <1>7, <1>8 DEF Next

(* From a set without a first member to the levels of Below: if d is below *)
(* what it leads to, the inodes between the two are such a set.            *)
LEMMA NoLoopNoCycle ==
  ASSUME FInv, phase = "up", NEW d \in DOMAIN Kids, NEW e \in Kids[d]
  PROVE  d \notin Forest!Below(e.idx)
<1> SUFFICES ASSUME d \in Forest!Below(e.idx)
             PROVE  FALSE
  OBVIOUS
<1> DEFINE U == Used(inodes)
           Reach(x) == {y \in Indices :
                          \A C \in SUBSET Indices : x \in C /\ Closed(C) => y \in C}
           S == {x \in Reach(e.idx) : d \in Reach(x)}
<1>1. \A f, x : Leads(U, inodeTab, dirTab, f, x) <=>
                  f \in DOMAIN Kids /\ \E g \in Kids[f] : g.idx = x
  BY KidsUp, LeadsByContent
<1>2. /\ DOMAIN Kids \subseteq Indices
      /\ \A f \in DOMAIN Kids : \A g \in Kids[f] : g.idx \in Indices
  <2>1. DOMAIN Kids \subseteq Indices
    BY KidsUp DEF DirsIn, Used
  <2>2. Sound(U, Used(blocks), inodeTab, dirTab)
    BY InvariantFacts DEF FInv
  <2>3. ASSUME NEW f \in DOMAIN Kids, NEW g \in Kids[f]
        PROVE  g.idx \in Indices
    <3>1. Leads(U, inodeTab, dirTab, f, g.idx)
      BY <1>1
    <3>. QED
      BY <2>2, <3>1, LeadsToUsed DEF Used
  <2>. QED
    BY <2>1, <2>3
<1>n. NoLoop(U, inodeTab, dirTab)
  BY DEF FInv
<1> HIDE DEF U
<1>3. \A x \in Indices : x \in Reach(x)
  OBVIOUS
<1>4. d \in Reach(e.idx) /\ d \in Indices
  BY <1>2, BelowInClosed
\* What leads to a member reaches all that the member does.
<1>5. ASSUME NEW f \in DOMAIN Kids, NEW g \in Kids[f]
      PROVE  Reach(g.idx) \subseteq Reach(f)
  BY <1>2, <1>5 DEF Closed
\* A member other than the first is led to by another member.
<1>6. ASSUME NEW x \in Reach(e.idx), x # e.idx
      PROVE  \E f \in DOMAIN Kids \cap Reach(e.idx) : \E g \in Kids[f] : g.idx = x
  <2> SUFFICES ASSUME \A f \in DOMAIN Kids \cap Reach(e.idx) : \A g \in Kids[f] : g.idx # x
               PROVE  FALSE
    OBVIOUS
  <2> DEFINE C == Reach(e.idx) \ {x}
  <2>1. Reach(e.idx) \in SUBSET Indices
    OBVIOUS
  <2>2. e.idx \in C
    BY <1>2, <1>3, <1>6
  <2>3. Closed(C)
    <3> SUFFICES ASSUME NEW f \in DOMAIN Kids \cap C, NEW g \in Kids[f]
                 PROVE  g.idx \in C
      BY DEF Closed
    <3>1. g.idx # x /\ g.idx \in Indices
      BY <1>2
    <3>2. g.idx \in Reach(e.idx)
      BY <3>1 DEF Closed
    <3>. QED
      BY <3>1, <3>2
  <2>4. C \in SUBSET Indices
    BY <2>1
  <2>5. x \in C
    <3> HIDE DEF C
    <3>. QED
      BY <1>6, <2>2, <2>3, <2>4
  <2>. QED
    BY <2>5
<1> HIDE DEF Reach
<1>7. d \in S
  BY <1>3, <1>4
<1>8. ASSUME NEW x \in S
      PROVE  \E f \in S : Leads(U, inodeTab, dirTab, f, x)
  <2>1. CASE x = e.idx
    BY <1>1, <1>7, <2>1
  <2>2. CASE x # e.idx
    <3>1. PICK f \in DOMAIN Kids \cap Reach(e.idx) : \E g \in Kids[f] : g.idx = x
      BY <1>6, <2>2
    <3>2. d \in Reach(f)
      BY <1>5, <3>1
    <3>. QED
      BY <1>1, <3>1, <3>2
  <2>. QED
    BY <2>1, <2>2
<1>9. S \in SUBSET Indices
  BY DEF Reach
<1> HIDE DEF S
<1>. QED
  BY <1>7, <1>8, <1>9, <1>n DEF NoLoop

-----------------------------------------------------------------------------
(* Other names: searching a directory before and after it is changed       *)

\* No two entries of one name.
Named(dir) == \A i, j \in DOMAIN dir : dir[i].name = dir[j].name => i = j

\* With one slot at most, the search has no choice.
LEMMA LookupIs ==
  ASSUME NEW dir \in Dirs, NEW name, NEW i \in Slots(dir, name),
         \A j \in Slots(dir, name) : j = i
  PROVE  dir_file_inode_idx(dir, name) = dir[i].idx
<1>1. Slots(dir, name) \in SUBSET Nat
  BY DirsType DEF Slots
<1>2. Min(Slots(dir, name)) = i
  BY <1>1, LeastNatural
<1>. QED
  BY <1>2 DEF dir_file_inode_idx

(* dir_remove moves an entry, and every other name is found as before.     *)
LEMMA RemoveKeepsNames ==
  ASSUME NEW dir \in Dirs, Named(dir), NEW name, NEW other, other # name
  PROVE  dir_file_inode_idx(dir_remove(dir, name), other) =
           dir_file_inode_idx(dir, other)
<1> DEFINE new == dir_remove(dir, name)
           n == Len(dir)
           m == Min(Slots(dir, name))
           From(i) == IF i = m THEN n ELSE i
<1>1. CASE Slots(dir, name) = {}
  BY <1>1, RemoveNothing
<1>2. CASE Slots(dir, name) # {}
  <2>1. /\ new \in Dirs /\ DOMAIN new = 1 .. n - 1
        /\ \A i \in 1 .. n - 1 : From(i) \in DOMAIN dir \ {m} /\ new[i] = dir[From(i)]
        /\ \A i, j \in 1 .. n - 1 : From(i) = From(j) => i = j
    BY <1>2, RemoveEffect DEF Origin
  <2>2. m \in 1 .. n /\ n \in Nat /\ DOMAIN dir = 1 .. n /\ dir[m].name = name
    BY <1>2, DirsType, LookupEffect
  <2> HIDE DEF new, m, n
  <2>3. \A j \in Slots(new, other) : From(j) \in Slots(dir, other)
    BY <2>1 DEF Slots
  <2>4. ASSUME NEW i \in Slots(dir, other)
        PROVE  \E j \in Slots(new, other) : From(j) = i
    <3>1. i \in 1 .. n /\ i # m /\ Matches(dir[i], other)
      BY <2>2 DEF Slots, Matches
    <3>2. PICK j \in 1 .. n - 1 : From(j) = i
      <4>1. CASE i = n
        <5>1. m \in 1 .. n - 1 /\ From(m) = i
          BY <2>2, <3>1, <4>1
        <5>. QED
          BY <5>1
      <4>2. CASE i # n
        <5>1. i \in 1 .. n - 1 /\ From(i) = i
          BY <2>2, <3>1, <4>2
        <5>. QED
          BY <5>1
      <4>. QED
        BY <4>1, <4>2
    <3>3. j \in Slots(new, other)
      BY <2>1, <3>1, <3>2 DEF Slots
    <3>. QED
      BY <3>2, <3>3
  <2>5. CASE Slots(dir, other) = {}
    <3>1. Slots(new, other) = {}
      BY <2>3, <2>5
    <3>. QED
      BY <2>5, <3>1 DEF dir_file_inode_idx, new
  <2>6. CASE Slots(dir, other) # {}
    <3>1. PICK i \in Slots(dir, other) : TRUE
      BY <2>6
    <3>2. \A k \in Slots(dir, other) : k = i
      BY <3>1 DEF Named, Slots, Matches
    <3>3. PICK j \in Slots(new, other) : From(j) = i
      BY <2>4
    <3>4. j \in 1 .. n - 1 /\ new[j] = dir[i]
      BY <2>1, <3>3 DEF Slots
    <3>5. \A k \in Slots(new, other) : k = j
      <4> SUFFICES ASSUME NEW k \in Slots(new, other)
                   PROVE  k = j
        OBVIOUS
      <4>1. From(k) = From(j) /\ k \in 1 .. n - 1
        BY <2>1, <2>3, <3>2, <3>3 DEF Slots
      <4> HIDE DEF From
      <4>. QED
        BY <2>1, <3>4, <4>1
    <3>6. dir_file_inode_idx(dir, other) = dir[i].idx
      BY <3>1, <3>2, LookupIs
    <3>7. dir_file_inode_idx(new, other) = new[j].idx
      BY <2>1, <3>3, <3>5, LookupIs
    <3>. QED
      BY <3>4, <3>6, <3>7 DEF new
  <2>. QED
    BY <2>5, <2>6
<1>. QED
  BY <1>1, <1>2

\* dir_insert puts an entry behind the others.
LEMMA InsertKeepsNames ==
  ASSUME NEW dir \in Dirs, NEW name \in Names, NEW idx \in Indices,
         NEW other, other # name
  PROVE  dir_file_inode_idx(dir_insert(dir, name, idx), other) =
           dir_file_inode_idx(dir, other)
<1>1. CASE ~HasSpace(dir)
  BY <1>1, InsertNothing
<1>2. CASE HasSpace(dir)
  <2> DEFINE elt == [name |-> name, idx |-> idx]
             new == Append(dir, elt)
             n == Len(dir)
  <2>1. elt \in Entries /\ elt.name = name
    BY DEF Entries
  <2>2. dir \in Seq(Entries) /\ n \in Nat /\ DOMAIN dir = 1 .. n
    BY DirsType
  <2> HIDE DEF elt, new, n
  <2>3. /\ new \in Seq(Entries) /\ Len(new) = n + 1
        /\ \A i \in 1 .. n : new[i] = dir[i]
        /\ new[n + 1] = elt
    BY <2>1, <2>2, AppendProperties DEF new, n
  <2>4. DOMAIN new = 1 .. n + 1
    BY <2>3, LenProperties
  <2>5. ~ Matches(new[n + 1], other)
    BY <2>1, <2>3 DEF Matches
  <2>6. \A i \in 1 .. n : i \in 1 .. n + 1
    BY <2>2
  <2>7. \A i \in 1 .. n + 1 : i = n + 1 \/ i \in 1 .. n
    BY <2>2
  <2>8. Slots(new, other) = Slots(dir, other)
    BY <2>2, <2>3, <2>4, <2>5, <2>6, <2>7 DEF Slots
  <2>9. dir_insert(dir, name, idx) = new
    BY <1>2 DEF dir_insert, new, elt
  <2>10. CASE Slots(dir, other) = {}
    BY <2>8, <2>9, <2>10 DEF dir_file_inode_idx
  <2>11. CASE Slots(dir, other) # {}
    <3>1. Min(Slots(dir, other)) \in 1 .. n
      BY <2>2, <2>11, LookupEffect
    <3>. QED
      BY <2>3, <2>8, <2>9, <2>11, <3>1 DEF dir_file_inode_idx
  <2>. QED
    BY <2>10, <2>11
<1>. QED
  BY <1>1, <1>2

-----------------------------------------------------------------------------
(* Other names: where a walk gets                                          *)

\* A round of the walk where every directory is sound.
Hop(U, I, T, x, name) ==
  IF x \in DirsIn(U, I) THEN dir_file_inode_idx(T[I[x].blk], name) ELSE 0

Follows(U, I, T, path, walk) ==
  /\ walk[0] = ROOT_INODE
  /\ \A k \in 1 .. Len(path) : walk[k] = Hop(U, I, T, walk[k - 1], path[k])

\* What a hop leads to is an entry of that name.
LEMMA HopLeads ==
  ASSUME NEW U, NEW B, NEW I, NEW T, Sound(U, B, I, T), NEW x, NEW name,
         Hop(U, I, T, x, name) # 0
  PROVE  /\ x \in DirsIn(U, I) /\ x # 0
         /\ Leads(U, I, T, x, Hop(U, I, T, x, name))
         /\ \E i \in DOMAIN T[I[x].blk] : /\ T[I[x].blk][i].name = name
                                          /\ T[I[x].blk][i].idx = Hop(U, I, T, x, name)
<1> DEFINE dir == T[I[x].blk]
<1>1. x \in DirsIn(U, I) /\ Hop(U, I, T, x, name) = dir_file_inode_idx(dir, name)
  BY DEF Hop
<1>2. x # 0 /\ dir \in Dirs
  BY <1>1, IndicesAreNat DEF DirsIn, Sound, TablesOK, OwnBlock
<1>3. Slots(dir, name) # {}
  BY <1>1 DEF dir_file_inode_idx
<1> DEFINE i == Min(Slots(dir, name))
<1>4. /\ i \in DOMAIN dir /\ dir[i].name = name
      /\ dir_file_inode_idx(dir, name) = dir[i].idx
  BY <1>2, <1>3, LookupEffect
<1> HIDE DEF i
<1>. QED
  BY <1>1, <1>2, <1>4 DEF Leads

\* Two hops to one inode start at one directory, by one name.
LEMMA HopOnce ==
  ASSUME NEW U, NEW B, NEW I, NEW T, Sound(U, B, I, T),
         NEW x, NEW name, NEW y, NEW other,
         Hop(U, I, T, x, name) # 0,
         Hop(U, I, T, x, name) = Hop(U, I, T, y, other)
  PROVE  x = y /\ name = other
<1>1. PICK i \in DOMAIN T[I[x].blk] : /\ T[I[x].blk][i].name = name
                                      /\ T[I[x].blk][i].idx = Hop(U, I, T, x, name)
  BY HopLeads
<1>2. PICK j \in DOMAIN T[I[y].blk] : /\ T[I[y].blk][j].name = other
                                      /\ T[I[y].blk][j].idx = Hop(U, I, T, y, other)
  BY HopLeads
<1>3. x \in DirsIn(U, I) /\ y \in DirsIn(U, I)
  BY HopLeads
<1>4. LeadOnce(U, I, T)
  BY DEF Sound
<1>. QED
  BY <1>1, <1>2, <1>3, <1>4 DEF LeadOnce

(* Two walks that meet have come the same way: the first place where they  *)
(* meet otherwise would have a place before it.                            *)
LEMMA WalksMeet ==
  ASSUME NEW U, NEW B, NEW I, NEW T, Sound(U, B, I, T),
         NEW p, Len(p) \in Nat, NEW w, Follows(U, I, T, p, w),
         NEW q, Len(q) \in Nat, NEW v, Follows(U, I, T, q, v)
  PROVE  \A m \in 0 .. Len(p), n \in 0 .. Len(q) :
           w[m] = v[n] /\ w[m] # 0 => m = n /\ \A k \in 1 .. m : p[k] = q[k]
<1> DEFINE Same(m, n) == m = n /\ \A k \in 1 .. m : p[k] = q[k]
           Odd == {m \in 0 .. Len(p) : \E n \in 0 .. Len(q) :
                     w[m] = v[n] /\ w[m] # 0 /\ ~Same(m, n)}
<1> SUFFICES ASSUME Odd # {}
             PROVE  FALSE
  OBVIOUS
<1>1. PICK m \in Odd : \A k \in Odd : m <= k
  <2>1. Odd \in SUBSET Nat
    OBVIOUS
  <2> HIDE DEF Odd
  <2>. QED
    BY <2>1, LeastExists
<1>2. PICK n \in 0 .. Len(q) : w[m] = v[n] /\ w[m] # 0 /\ ~Same(m, n)
  BY <1>1
<1>3. /\ m \in 0 .. Len(p)
      /\ m # 0 => w[m] = Hop(U, I, T, w[m - 1], p[m])
      /\ n # 0 => v[n] = Hop(U, I, T, v[n - 1], q[n])
      /\ w[0] = ROOT_INODE /\ v[0] = ROOT_INODE
  BY DEF Follows
<1>4. \A x, name : Hop(U, I, T, x, name) # ROOT_INODE
  BY HopLeads, LeadsToUsed DEF ROOT_INODE
<1>5. CASE m = 0
  <2>1. n = 0
    BY <1>2, <1>3, <1>4, <1>5
  <2>. QED
    BY <1>2, <1>5, <2>1
<1>6. CASE m # 0
  <2>1. n # 0
    BY <1>2, <1>3, <1>4, <1>6
  <2>2. w[m - 1] = v[n - 1] /\ p[m] = q[n] /\ w[m - 1] # 0
    BY <1>2, <1>3, <1>6, <2>1, HopOnce, HopLeads
  <2>3. m - 1 \in 0 .. Len(p) /\ n - 1 \in 0 .. Len(q) /\ m - 1 \notin Odd
    BY <1>1, <1>3, <1>6, <2>1
  <2>4. Same(m - 1, n - 1)
    BY <2>2, <2>3
  <2>5. m = n
    BY <1>3, <2>4
  <2>6. \A k \in 1 .. m : k \in 1 .. m - 1 \/ k = m
    BY <1>3
  <2>. QED
    BY <1>2, <2>2, <2>4, <2>5, <2>6
<1>. QED
  BY <1>5, <1>6

\* The other walks come out as before if their hops do.
LEMMA SameWalk ==
  ASSUME NEW U, NEW I, NEW T, NEW newU, NEW newI, NEW new,
         NEW path, Len(path) \in Nat,
         NEW w, Follows(U, I, T, path, w),
         NEW v, Follows(newU, newI, new, path, v),
         \A k \in 1 .. Len(path) :
           Hop(newU, newI, new, w[k - 1], path[k]) = Hop(U, I, T, w[k - 1], path[k])
  PROVE  v[Len(path)] = w[Len(path)]
<1> DEFINE Odd == {k \in 0 .. Len(path) : v[k] # w[k]}
<1> SUFFICES ASSUME Odd # {}
             PROVE  FALSE
  OBVIOUS
<1>1. PICK k \in Odd : \A j \in Odd : k <= j
  <2>1. Odd \in SUBSET Nat
    OBVIOUS
  <2> HIDE DEF Odd
  <2>. QED
    BY <2>1, LeastExists
<1>2. CASE k = 0
  BY <1>1, <1>2 DEF Follows
<1>3. CASE k # 0
  <2>1. k \in 1 .. Len(path) /\ k - 1 \in 0 .. Len(path) /\ k - 1 \notin Odd
    BY <1>1, <1>3
  <2>2. v[k - 1] = w[k - 1]
    BY <2>1
  <2>3. /\ w[k] = Hop(U, I, T, w[k - 1], path[k])
        /\ v[k] = Hop(newU, newI, new, v[k - 1], path[k])
    BY <2>1 DEF Follows
  <2>. QED
    BY <1>1, <2>1, <2>2, <2>3
<1>. QED
  BY <1>2, <1>3

LEMMA PrefixIs ==
  ASSUME NEW f \in Files, NEW path \in Files,
         Len(f) <= Len(path), \A k \in 1 .. Len(f) : f[k] = path[k]
  PROVE  IsPrefix(f, path)
<1> DEFINE n == Len(f)
           s == SubSeq(f, 1, n)
           t == SubSeq(path, 1, n)
<1>1. f \in Seq(Names) /\ path \in Seq(Names) /\ n \in Nat \ {0} /\ Len(path) \in Nat
  BY PathType
<1>2. \A k \in 1 .. n : f[k] \in Names /\ path[k] \in Names
  BY <1>1, ElementOfSeq
<1>3. 1 \in Int /\ n \in Int
  BY <1>1
<1>4. /\ s \in Seq(Names) /\ Len(s) = (IF 1 <= n THEN n - 1 + 1 ELSE 0)
      /\ \A i \in 1 .. n - 1 + 1 : s[i] = f[1 + i - 1]
  <2> HIDE DEF n
  <2>. QED
    BY <1>2, <1>3, SubSeqProperties
<1>5. /\ t \in Seq(Names) /\ Len(t) = (IF 1 <= n THEN n - 1 + 1 ELSE 0)
      /\ \A i \in 1 .. n - 1 + 1 : t[i] = path[1 + i - 1]
  <2> HIDE DEF n
  <2>. QED
    BY <1>2, <1>3, SubSeqProperties
<1> HIDE DEF s, t
<1>6. Len(s) = n /\ Len(t) = n /\ \A i \in 1 .. n : s[i] = f[i] /\ t[i] = path[i]
  BY <1>1, <1>4, <1>5
<1>7. s = t
  BY <1>4, <1>5, <1>6, SeqEqual
<1>. QED
  BY <1>7 DEF IsPrefix, s, t

(* The hops that may differ are the one from the parent of f by f's last   *)
(* name, and those from where f led, if it led anywhere.                   *)
HopsKept(U, I, T, newU, newI, new, f, u) ==
  \A x \in U \cup {0} : \A name :
    \/ Hop(newU, newI, new, x, name) = Hop(U, I, T, x, name)
    \/ x = u[Len(f) - 1] /\ name = Last(f)
    \/ x = u[Len(f)] /\ x # 0

\* So only walks that begin with f get elsewhere.
LEMMA OthersKept ==
  ASSUME NEW U, NEW B, NEW I, NEW T, Sound(U, B, I, T), ROOT_INODE \in U,
         NEW newU, NEW newI, NEW new,
         NEW f \in Files, NEW u, Follows(U, I, T, f, u), u[Len(f) - 1] # 0,
         HopsKept(U, I, T, newU, newI, new, f, u),
         NEW path \in Files, ~IsPrefix(f, path),
         NEW w, Follows(U, I, T, path, w),
         NEW v, Follows(newU, newI, new, path, v)
  PROVE  v[Len(path)] = w[Len(path)]
<1>1. Len(path) \in Nat /\ Len(f) \in Nat \ {0} /\ Last(f) = f[Len(f)]
  BY PathType DEF Last
<1>2. ASSUME NEW k \in 1 .. Len(path)
      PROVE  Hop(newU, newI, new, w[k - 1], path[k]) = Hop(U, I, T, w[k - 1], path[k])
  <2>1. w[k - 1] \in U \cup {0}
    <3>1. CASE k = 1
      BY <3>1 DEF Follows
    <3>2. CASE k # 1
      <4>1. k - 1 \in 1 .. Len(path)
        BY <1>1, <3>2
      <4>2. w[k - 1] = Hop(U, I, T, w[(k - 1) - 1], path[k - 1])
        BY <4>1 DEF Follows
      <4>. QED
        BY <4>2, HopLeads, LeadsToUsed
    <3>. QED
      BY <3>1, <3>2
  <2>2. ~ (w[k - 1] = u[Len(f) - 1] /\ path[k] = Last(f))
    <3> SUFFICES ASSUME w[k - 1] = u[Len(f) - 1], path[k] = Last(f)
                 PROVE  FALSE
      OBVIOUS
    <3>1. k - 1 \in 0 .. Len(path) /\ Len(f) - 1 \in 0 .. Len(f)
      BY <1>1
    <3>2. k - 1 = Len(f) - 1 /\ \A j \in 1 .. k - 1 : path[j] = f[j]
      BY <1>1, <3>1, WalksMeet
    <3>3. k = Len(f)
      BY <1>1, <3>2
    <3>4. \A j \in 1 .. k : j \in 1 .. k - 1 \/ j = k
      OBVIOUS
    <3>5. Len(f) <= Len(path) /\ \A j \in 1 .. Len(f) : f[j] = path[j]
      BY <1>1, <3>2, <3>3, <3>4
    <3>. QED
      BY <3>5, PrefixIs
  <2>3. ~ (w[k - 1] = u[Len(f)] /\ w[k - 1] # 0)
    <3> SUFFICES ASSUME w[k - 1] = u[Len(f)], w[k - 1] # 0
                 PROVE  FALSE
      OBVIOUS
    <3>1. k - 1 \in 0 .. Len(path) /\ Len(f) \in 0 .. Len(f)
      BY <1>1
    <3>2. k - 1 = Len(f) /\ \A j \in 1 .. k - 1 : path[j] = f[j]
      BY <1>1, <3>1, WalksMeet
    <3>3. Len(f) <= Len(path) /\ \A j \in 1 .. Len(f) : f[j] = path[j]
      BY <1>1, <3>2
    <3>. QED
      BY <3>3, PrefixIs
  <2>. QED
    BY <2>1, <2>2, <2>3 DEF HopsKept
<1>. QED
  BY <1>1, <1>2, SameWalk

(* Where everything is sound, the checks of fs_path_to_inode for blocks and *)
(* inodes in use never fail: a round is a hop.                              *)
LEMMA EnterIsHop ==
  ASSUME NEW tab, Readable(tab),
         Sound(Used(inodes), Used(blocks), inodeTab, tab),
         NEW idx \in Used(inodes) \cup {0}, NEW name
  PROVE  Enter(tab, idx, name) = Hop(Used(inodes), inodeTab, tab, idx, name)
<1> DEFINE U == Used(inodes)
           blk == inodeTab[idx].blk
<1>1. CASE idx = 0
  <2>1. idx \notin DirsIn(U, inodeTab)
    BY <1>1, IndicesAreNat DEF DirsIn, Sound
  <2>. QED
    BY <1>1, <2>1 DEF Enter, Hop
<1>2. CASE idx # 0 /\ ~inodeTab[idx].dir
  <2>1. idx \in Indices
    BY <1>2 DEF Used
  <2>2. blk = 0
    BY <1>2, <2>1 DEF Readable, TablesOK
  <2>3. ~IsReadable(idx)
    BY <2>2 DEF IsReadable, exist
  <2>. QED
    BY <1>2, <2>3 DEF Enter, Hop, DirsIn
<1>3. CASE idx # 0 /\ inodeTab[idx].dir
  <2>1. idx \in DirsIn(U, inodeTab)
    BY <1>3 DEF DirsIn
  <2>2. blk \in Used(blocks) /\ blk \in Indices
    BY <2>1 DEF Sound, OwnBlock
  <2>3. IsReadable(idx)
    BY <2>2 DEF IsReadable, Used
  <2> DEFINE child == dir_file_inode_idx(tab[blk], name)
  <2>4. Enter(tab, idx, name) = IF exist(inodes, child) THEN child ELSE 0
    BY <1>3, <2>3 DEF Enter
  <2>5. Hop(U, inodeTab, tab, idx, name) = child
    BY <2>1 DEF Hop
  <2>6. child = 0 \/ child \in U
    BY <2>5, HopLeads, LeadsToUsed
  <2> HIDE DEF child
  <2>7. child # 0 => exist(inodes, child)
    BY <2>6 DEF Used
  <2>. QED
    BY <2>4, <2>5, <2>7
<1>. QED
  BY <1>1, <1>2, <1>3

LEMMA WalkFollows ==
  ASSUME NEW tab, Readable(tab),
         Sound(Used(inodes), Used(blocks), inodeTab, tab),
         ROOT_INODE \in Used(inodes), NEW path, Len(path) \in Nat
  PROVE  Follows(Used(inodes), inodeTab, tab, path, Walk(tab, path))
<1> DEFINE walk == Walk(tab, path)
<1>1. \A k \in 0 .. Len(path) : walk[k] = Round(tab, path, walk, k)
  BY WalkDefined
<1>2. \A k \in 0 .. Len(path) : walk[k] \in Used(inodes) \cup {0}
  BY WalkType
<1> HIDE DEF walk
<1>3. walk[0] = ROOT_INODE
  BY <1>1 DEF Round, Used
<1>4. ASSUME NEW k \in 1 .. Len(path)
      PROVE  walk[k] = Hop(Used(inodes), inodeTab, tab, walk[k - 1], path[k])
  <2>1. k \in 0 .. Len(path) /\ k - 1 \in 0 .. Len(path) /\ k # 0
    OBVIOUS
  <2>2. walk[k] = Enter(tab, walk[k - 1], path[k])
    BY <1>1, <2>1 DEF Round
  <2>. QED
    BY <1>2, <2>1, <2>2, EnterIsHop
<1>. QED
  BY <1>3, <1>4 DEF Follows, walk

\* Every walk of a state in which requests are served.
WalksFollow ==
  \A path \in Files :
    Follows(Used(inodes), inodeTab, dirTab, path, Walk(dirTab, path))

LEMMA StateWalks == IInv /\ phase = "up" => WalksFollow
<1> SUFFICES ASSUME IInv, phase = "up", NEW path \in Files
             PROVE  Follows(Used(inodes), inodeTab, dirTab, path, Walk(dirTab, path))
  BY DEF WalksFollow
<1>1. Len(path) \in Nat
  BY PathType
<1>. QED
  BY <1>1, InvariantFacts, UpFacts, WalkFollows

-----------------------------------------------------------------------------
(* Other names: the requests                                               *)

(* Of the inodes in X, the directories stay as they are, and only the      *)
(* content of p is exchanged, for one in which names other than `name' are *)
(* found alike.                                                            *)
SameBut(U, I, T, newU, newI, new, X, p, name) ==
  /\ \A x \in X : x \in newU <=> x \in U
  /\ \A x \in X \cap U : newI[x] = I[x]
  /\ \A d \in X \cap DirsIn(U, I) : d # p => new[I[d].blk] = T[I[d].blk]
  /\ \A other : other # name =>
       dir_file_inode_idx(new[I[p].blk], other) =
         dir_file_inode_idx(T[I[p].blk], other)

LEMMA HopsAt ==
  ASSUME NEW U, NEW I, NEW T, NEW newU, NEW newI, NEW new, NEW X, NEW p, NEW name,
         SameBut(U, I, T, newU, newI, new, X, p, name)
  PROVE  \A x \in X : \A other :
           \/ Hop(newU, newI, new, x, other) = Hop(U, I, T, x, other)
           \/ x = p /\ other = name
<1> USE DEF SameBut
<1> SUFFICES ASSUME NEW x \in X, NEW other, ~ (x = p /\ other = name)
             PROVE  Hop(newU, newI, new, x, other) = Hop(U, I, T, x, other)
  OBVIOUS
<1>1. CASE x \notin DirsIn(U, I)
  <2>1. x \notin DirsIn(newU, newI)
    BY <1>1 DEF DirsIn
  <2>. QED
    BY <1>1, <2>1 DEF Hop
<1>2. CASE x \in DirsIn(U, I)
  <2>1. x \in U /\ newI[x] = I[x] /\ x \in DirsIn(newU, newI)
    BY <1>2 DEF DirsIn
  <2>2. dir_file_inode_idx(new[I[x].blk], other) =
          dir_file_inode_idx(T[I[x].blk], other)
    <3>1. CASE x = p
      BY <3>1
    <3>2. CASE x # p
      BY <1>2, <3>2
    <3>. QED
      BY <3>1, <3>2
  <2>. QED
    BY <1>2, <2>1, <2>2 DEF Hop
<1>. QED
  BY <1>1, <1>2

\* The block of another directory is not the one that is written.
LEMMA OtherBlocks ==
  ASSUME NEW U, NEW B, NEW I, NEW T, Sound(U, B, I, T), NEW p, p \in DirsIn(U, I),
         NEW new, NEW value, NEW blk, blk = I[p].blk, Updated(new, T, blk, value)
  PROVE  /\ new[blk] = value
         /\ \A d \in DirsIn(U, I) : d # p => new[I[d].blk] = T[I[d].blk]
<1>1. OwnBlock(U, B, I) /\ DOMAIN T = Indices /\ B \subseteq Indices
  BY DEF Sound, TablesOK
<1>2. \A d \in DirsIn(U, I) : I[d].blk \in DOMAIN T
                             /\ (d # p => I[d].blk # blk)
  BY <1>1 DEF OwnBlock
<1>. QED
  BY <1>2 DEF Updated

LEMMA ParentOnWalk ==
  ASSUME NEW tab, NEW path \in Files
  PROVE  /\ Parent(tab, path) = Walk(tab, path)[Len(path) - 1]
         /\ fs_path_to_inode(tab, path) = Walk(tab, path)[Len(path)]
<1>1. Len(path) \in Nat \ {0} /\ Len(Front(path)) = Len(path) - 1
  BY PathType
<1>2. Len(path) - 1 \in 0 .. Len(path) - 1
  BY <1>1
<1>3. Walk(tab, path)[Len(path) - 1] = Walk(tab, Front(path))[Len(path) - 1]
  BY <1>2, WalkPrefix
<1>. QED
  BY <1>1, <1>3 DEF Parent, fs_path_to_inode

\* dir_remove on the parent of a path.
LEMMA UnlinkHops ==
  ASSUME IInv, UniqueNames, NEW path \in Files,
         fs_path_to_parent(dirTab, path) = "OK", Child(dirTab, path) # 0
  PROVE  LET U == Used(inodes)
             p == Parent(dirTab, path)
             tab == WithoutEntry(dirTab, path)
         IN  /\ p # 0
             /\ \A d \in DirsIn(U, inodeTab) : d # p =>
                  tab[inodeTab[d].blk] = dirTab[inodeTab[d].blk]
             /\ \A other : other # Last(path) =>
                  dir_file_inode_idx(tab[inodeTab[p].blk], other) =
                    dir_file_inode_idx(dirTab[inodeTab[p].blk], other)
<1> DEFINE U == Used(inodes)
           p == Parent(dirTab, path)
           tab == WithoutEntry(dirTab, path)
           dir == dirTab[inodeTab[p].blk]
           name == Last(path)
<1>1. /\ p \in DirsIn(U, inodeTab) /\ inodeTab[p].blk \in Used(blocks)
      /\ ParentBlk(dirTab, path) = inodeTab[p].blk
  BY InvariantFacts, ParentIsDir DEF ParentBlk
<1>2. Sound(U, Used(blocks), inodeTab, dirTab)
  BY InvariantFacts
<1>3. Updated(tab, dirTab, inodeTab[p].blk, dir_remove(dir, name))
  <2>1. inodeTab[p].blk \in DOMAIN dirTab
    BY <1>1, <1>2 DEF Sound, TablesOK
  <2>. QED
    BY <1>1, <2>1, ExceptUpdates DEF WithoutEntry
<1>4. dir \in Dirs /\ p # 0
  BY <1>1, <1>2, IndicesAreNat DEF Sound, TablesOK, DirsIn
<1>5. Named(dir)
  BY <1>1 DEF UniqueNames, LiveDirs, EntriesOf, Named, DirsIn
<1> HIDE DEF U, p, tab, dir, name
<1>6. \A other : other # name =>
        dir_file_inode_idx(dir_remove(dir, name), other) = dir_file_inode_idx(dir, other)
  BY <1>4, <1>5, RemoveKeepsNames
<1>7. /\ tab[inodeTab[p].blk] = dir_remove(dir, name)
      /\ \A d \in DirsIn(U, inodeTab) : d # p =>
           tab[inodeTab[d].blk] = dirTab[inodeTab[d].blk]
  <2> DEFINE B == Used(blocks)
             value == dir_remove(dir, name)
             blk == inodeTab[p].blk
  <2>1. Sound(U, B, inodeTab, dirTab) /\ p \in DirsIn(U, inodeTab)
        /\ Updated(tab, dirTab, blk, value) /\ blk = inodeTab[p].blk
    BY <1>1, <1>2, <1>3
  <2> HIDE DEF B, value, blk
  <2>2. /\ tab[blk] = value
        /\ \A d \in DirsIn(U, inodeTab) : d # p =>
             tab[inodeTab[d].blk] = dirTab[inodeTab[d].blk]
    BY <2>1, OtherBlocks
  <2>. QED
    BY <2>2 DEF value, blk
<1>. QED
  BY <1>4, <1>6, <1>7 DEF U, p, tab, dir, name

\* Names that a step keeps: all that do not begin with from or to.
NamesKept(from, to) ==
  \A path \in Files :
    \/ IsPrefix(from, path)
    \/ IsPrefix(to, path)
    \/ (fs_path_to_inode(dirTab, path))' = fs_path_to_inode(dirTab, path)

\* Requests that leave inodes and directories alone.
LEMMA NothingChanges ==
  ASSUME IInv, phase = "up", WalksFollow',
         inodes' = inodes, inodeTab' = inodeTab, dirTab' = dirTab
  PROVE  Changed = {}
<1> SUFFICES ASSUME NEW path \in Files
             PROVE  (fs_path_to_inode(dirTab, path))' = fs_path_to_inode(dirTab, path)
  BY DEF Changed
<1> DEFINE w == Walk(dirTab, path)
           v == Walk(dirTab, path)'
<1>1. Follows(Used(inodes), inodeTab, dirTab, path, w)
  BY StateWalks DEF WalksFollow
<1>2. Follows(Used(inodes), inodeTab, dirTab, path, v)
  <2>1. Follows(Used(inodes'), inodeTab', dirTab', path, v)
    BY DEF WalksFollow
  <2>. QED
    BY <2>1
<1>3. Len(path) \in Nat
  BY PathType
<1> HIDE DEF w, v
<1>4. v[Len(path)] = w[Len(path)]
  BY <1>1, <1>2, <1>3, SameWalk
<1>. QED
  BY <1>4 DEF w, v, fs_path_to_inode

\* A step whose hops are kept but at the end of path f keeps other names.
LEMMA HopsKeepNames ==
  ASSUME IInv, phase = "up", WalksFollow', NEW f \in Files,
         Parent(dirTab, f) # 0,
         HopsKept(Used(inodes), inodeTab, dirTab,
                  Used(inodes'), inodeTab', dirTab', f, Walk(dirTab, f))
  PROVE  NamesKept(f, f)
<1> SUFFICES ASSUME NEW path \in Files, ~IsPrefix(f, path)
             PROVE  (fs_path_to_inode(dirTab, path))' = fs_path_to_inode(dirTab, path)
  BY DEF NamesKept
<1> DEFINE w == Walk(dirTab, path)
           v == Walk(dirTab, path)'
           u == Walk(dirTab, f)
<1>1. /\ Follows(Used(inodes), inodeTab, dirTab, path, w)
      /\ Follows(Used(inodes), inodeTab, dirTab, f, u)
  BY StateWalks DEF WalksFollow
<1>2. Follows(Used(inodes'), inodeTab', dirTab', path, v)
  BY DEF WalksFollow
<1>3. u[Len(f) - 1] # 0
  BY ParentOnWalk
<1>4. /\ Sound(Used(inodes), Used(blocks), inodeTab, dirTab)
      /\ ROOT_INODE \in Used(inodes)
  BY InvariantFacts, UpFacts
<1> HIDE DEF w, v, u
<1>5. HopsKept(Used(inodes), inodeTab, dirTab,
               Used(inodes'), inodeTab', dirTab', f, u)
  BY DEF u
<1>6. v[Len(path)] = w[Len(path)]
  BY <1>1, <1>2, <1>3, <1>4, <1>5, OthersKept
<1>. QED
  BY <1>6 DEF w, v, fs_path_to_inode

\* dir_insert on a parent that was found, in whatever contents are sound.
LEMMA LinkHops ==
  ASSUME NEW tab, Readable(tab),
         Sound(Used(inodes), Used(blocks), inodeTab, tab),
         NEW path \in Files, fs_path_to_parent(tab, path) = "OK",
         NEW idx \in Indices
  PROVE  LET U == Used(inodes)
             p == Parent(tab, path)
             new == WithEntry(tab, path, idx)
         IN  /\ p # 0 /\ p \in DirsIn(U, inodeTab)
             /\ \A d \in DirsIn(U, inodeTab) : d # p =>
                  new[inodeTab[d].blk] = tab[inodeTab[d].blk]
             /\ \A other : other # Last(path) =>
                  dir_file_inode_idx(new[inodeTab[p].blk], other) =
                    dir_file_inode_idx(tab[inodeTab[p].blk], other)
<1> DEFINE U == Used(inodes)
           B == Used(blocks)
           p == Parent(tab, path)
           new == WithEntry(tab, path, idx)
           blk == inodeTab[p].blk
           name == Last(path)
           value == dir_insert(tab[blk], name, idx)
<1>1. p \in DirsIn(U, inodeTab) /\ ParentBlk(tab, path) = blk /\ name \in Names
  BY ParentIsDir DEF ParentBlk
<1>2. Sound(U, B, inodeTab, tab)
  OBVIOUS
<1>3. blk \in DOMAIN tab /\ tab[blk] \in Dirs /\ p # 0
  BY <1>1, <1>2, IndicesAreNat DEF Sound, TablesOK, OwnBlock, DirsIn
<1>4. Updated(new, tab, blk, value)
  BY <1>1, <1>3, ExceptUpdates DEF WithEntry
<1>5. \A other : other # name =>
        dir_file_inode_idx(value, other) = dir_file_inode_idx(tab[blk], other)
  BY <1>1, <1>3, InsertKeepsNames
<1>6. blk = inodeTab[p].blk
  OBVIOUS
<1> HIDE DEF U, B, p, new, blk, name, value
<1>7. /\ new[blk] = value
      /\ \A d \in DirsIn(U, inodeTab) : d # p =>
           new[inodeTab[d].blk] = tab[inodeTab[d].blk]
  BY <1>1, <1>2, <1>4, <1>6, OtherBlocks
<1>. QED
  BY <1>1, <1>3, <1>5, <1>7 DEF U, p, new, blk, name

\* The inode of an entry is the one that the walk to its path ends at.
LEMMA ChildOnWalk ==
  ASSUME IInv, NEW path \in Files, fs_path_to_parent(dirTab, path) = "OK"
  PROVE  Walk(dirTab, path)[Len(path)] = Child(dirTab, path)
<1> DEFINE p == Parent(dirTab, path)
<1>1. p \in DirsIn(Used(inodes), inodeTab) /\ p \in Used(inodes) \cup {0}
      /\ ParentBlk(dirTab, path) = inodeTab[p].blk
  BY InvariantFacts, ParentIsDir DEF ParentBlk, DirsIn
<1>2. Walk(dirTab, path)[Len(path)] = Enter(dirTab, p, Last(path))
  BY ParentOnWalk, PathEndsInParent
<1> HIDE DEF p
<1>3. Enter(dirTab, p, Last(path)) = Hop(Used(inodes), inodeTab, dirTab, p, Last(path))
  BY <1>1, InvariantFacts, EnterIsHop
<1>. QED
  BY <1>1, <1>2, <1>3 DEF Hop, Child

\* A new inode: fs_mkdir and fs_create_file.
LEMMA MakeKeepsNames ==
  ASSUME IInv, phase = "up", WalksFollow', NEW path \in Files,
         MakeStatus(path) = "OK",
         NEW idx \in Indices \ Used(inodes), Used(inodes') = Used(inodes) \cup {idx},
         \A x \in Used(inodes) : inodeTab'[x] = inodeTab[x],
         \A blk \in Used(blocks) : dirTab'[blk] = WithEntry(dirTab, path, idx)[blk]
  PROVE  NamesKept(path, path)
<1> DEFINE U == Used(inodes)
           X == U \cup {0}
           p == Parent(dirTab, path)
           tab == WithEntry(dirTab, path, idx)
           name == Last(path)
           I == inodeTab
           T == dirTab
<1>1. /\ p # 0 /\ p \in DirsIn(U, I)
      /\ \A d \in DirsIn(U, I) : d # p => tab[I[d].blk] = T[I[d].blk]
      /\ \A other : other # name =>
           dir_file_inode_idx(tab[I[p].blk], other) =
             dir_file_inode_idx(T[I[p].blk], other)
  <2>1. fs_path_to_parent(dirTab, path) = "OK"
    BY DEF MakeStatus
  <2>. QED
    BY <2>1, InvariantFacts, LinkHops
<1>2. Sound(U, Used(blocks), I, T)
  BY InvariantFacts
<1>3. \A d \in DirsIn(U, I) : dirTab'[I[d].blk] = tab[I[d].blk]
  BY <1>2 DEF Sound, OwnBlock
<1>4. \A x \in X : x \in Used(inodes') <=> x \in U
  BY IndicesAreNat DEF Used
<1>5. p = Walk(dirTab, path)[Len(path) - 1]
  BY ParentOnWalk
<1>6. \A x \in X \cap U : inodeTab'[x] = I[x]
  OBVIOUS
<1> HIDE DEF U, p, tab, name, I, T
<1>7. \A d \in X \cap DirsIn(U, I) : d # p => dirTab'[I[d].blk] = T[I[d].blk]
  BY <1>1, <1>3
<1>8. \A other : other # name =>
        dir_file_inode_idx(dirTab'[I[p].blk], other) =
          dir_file_inode_idx(T[I[p].blk], other)
  BY <1>1, <1>3
<1>9. \A x \in X : \A other :
        \/ Hop(Used(inodes'), inodeTab', dirTab', x, other) = Hop(U, I, T, x, other)
        \/ x = p /\ other = name
  <2>1. SameBut(U, I, T, Used(inodes'), inodeTab', dirTab', X, p, name)
    BY <1>4, <1>6, <1>7, <1>8 DEF SameBut
  <2>. QED
    BY <2>1, HopsAt
<1>10. HopsKept(Used(inodes), inodeTab, dirTab,
                Used(inodes'), inodeTab', dirTab', path, Walk(dirTab, path))
  BY <1>5, <1>9 DEF HopsKept, U, I, T, name, X
<1>. QED
  BY <1>1, <1>10, HopsKeepNames DEF p

LEMMA MkdirDoneKeepsNames ==
  ASSUME IInv, phase = "up", WalksFollow', NEW path \in Files,
         MakeStatus(path) = "OK", MkdirDone(path)
  PROVE  NamesKept(path, path)
<1> DEFINE idx == AllocIdx(inodes)
           blk == AllocIdx(blocks)
           tab == WithEntry(dirTab, path, idx)
<1>1. /\ HasRoom(blocks) /\ HasRoom(inodes)
      /\ inodes' = Allocated(inodes)
      /\ dirTab' = [tab EXCEPT ![blk] = <<>>]
      /\ inodeTab' = [inodeTab EXCEPT ![idx] = [dir |-> TRUE, blk |-> blk]]
  BY DEF MkdirDone
<1>2. /\ idx \in Indices \ Used(inodes) /\ Used(inodes') = Used(inodes) \cup {idx}
      /\ blk \in Indices \ Used(blocks)
  BY <1>1, InvariantFacts, AllocEffect
<1>3. DOMAIN tab = Indices /\ inodeTab \in [Indices -> Inodes]
      /\ Used(blocks) \subseteq Indices /\ Used(inodes) \subseteq Indices
  BY UpFacts, InvariantFacts DEF WithEntry
<1> HIDE DEF idx, blk, tab
<1>4. \A x \in Used(inodes) : inodeTab'[x] = inodeTab[x]
  BY <1>1, <1>2, <1>3
<1>5. \A b \in Used(blocks) : dirTab'[b] = tab[b]
  BY <1>1, <1>2, <1>3
<1>. QED
  BY <1>2, <1>4, <1>5, MakeKeepsNames DEF tab

LEMMA CreateDoneKeepsNames ==
  ASSUME IInv, phase = "up", WalksFollow', NEW path \in Files,
         MakeStatus(path) = "OK", CreateDone(path)
  PROVE  NamesKept(path, path)
<1> DEFINE idx == AllocIdx(inodes)
           tab == WithEntry(dirTab, path, idx)
<1>1. /\ HasRoom(inodes) /\ inodes' = Allocated(inodes)
      /\ dirTab' = tab
      /\ inodeTab' = [inodeTab EXCEPT ![idx] = [dir |-> FALSE, blk |-> 0]]
  BY DEF CreateDone
<1>2. idx \in Indices \ Used(inodes) /\ Used(inodes') = Used(inodes) \cup {idx}
  BY <1>1, InvariantFacts, AllocEffect
<1>3. inodeTab \in [Indices -> Inodes] /\ Used(inodes) \subseteq Indices
  BY UpFacts, InvariantFacts
<1> HIDE DEF idx, tab
<1>4. \A x \in Used(inodes) : inodeTab'[x] = inodeTab[x]
  BY <1>1, <1>2, <1>3
<1>5. \A b \in Used(blocks) : dirTab'[b] = tab[b]
  BY <1>1
<1>. QED
  BY <1>2, <1>4, <1>5, MakeKeepsNames DEF tab

(* fs_remove_file: beside the name in the parent, what may change is only  *)
(* what was found in the removed directory.                                *)
LEMMA RemoveDoneKeepsNames ==
  ASSUME IInv, phase = "up", UniqueNames, WalksFollow', NEW path \in Files,
         RemoveDone(path)
  PROVE  NamesKept(path, path)
<1> DEFINE U == Used(inodes)
           idx == Child(dirTab, path)
           X == (U \cup {0}) \ {idx}
           p == Parent(dirTab, path)
           tab == WithoutEntry(dirTab, path)
           name == Last(path)
           I == inodeTab
           T == dirTab
<1>1. /\ fs_path_to_parent(dirTab, path) = "OK"
      /\ exist(inodes, idx) /\ idx # 0
      /\ inodes' = Released(inodes, idx)
      /\ dirTab' = tab /\ inodeTab' = inodeTab
  BY DEF RemoveDone, exist
<1>2. idx \in U /\ idx \in Indices
  BY <1>1, UnlinkEffect DEF Used
<1>3. Used(inodes') = U \ {idx}
  BY <1>1, <1>2, InvariantFacts, ReleaseEffect
<1>4. /\ p # 0
      /\ \A d \in DirsIn(U, I) : d # p => tab[I[d].blk] = T[I[d].blk]
      /\ \A other : other # name =>
           dir_file_inode_idx(tab[I[p].blk], other) =
             dir_file_inode_idx(T[I[p].blk], other)
  BY <1>1, UnlinkHops
<1>5. p = Walk(dirTab, path)[Len(path) - 1] /\ idx = Walk(dirTab, path)[Len(path)]
  BY <1>1, ParentOnWalk, ChildOnWalk
<1>6. 0 \notin U
  BY IndicesAreNat DEF Used
<1> HIDE DEF U, idx, p, tab, name, I, T
<1>7. SameBut(U, I, T, U \ {idx}, I, tab, X, p, name)
  BY <1>4, <1>6 DEF SameBut
<1> HIDE DEF X
<1>8. \A x \in X : \A other :
        \/ Hop(U \ {idx}, I, tab, x, other) = Hop(U, I, T, x, other)
        \/ x = p /\ other = name
  BY <1>7, HopsAt
<1>9. \A x \in U \cup {0} : x \in X \/ (x = idx /\ x # 0)
  BY <1>1 DEF X
<1>10. HopsKept(U, I, T, U \ {idx}, I, tab, path, Walk(dirTab, path))
  BY <1>5, <1>8, <1>9 DEF HopsKept, name
<1>11. HopsKept(Used(inodes), inodeTab, dirTab,
                Used(inodes'), inodeTab', dirTab', path, Walk(dirTab, path))
  BY <1>1, <1>3, <1>10 DEF U, I, T
<1>. QED
  BY <1>4, <1>11, HopsKeepNames DEF p

\* The first stage of fs_rename_file, or all of it if it fails after that.
LEMMA UnlinkHopsKept ==
  ASSUME IInv, UniqueNames, NEW path \in Files,
         fs_path_to_parent(dirTab, path) = "OK", Child(dirTab, path) # 0
  PROVE  /\ Parent(dirTab, path) # 0
         /\ HopsKept(Used(inodes), inodeTab, dirTab,
                     Used(inodes), inodeTab, WithoutEntry(dirTab, path),
                     path, Walk(dirTab, path))
<1> DEFINE U == Used(inodes)
           X == U \cup {0}
           p == Parent(dirTab, path)
           tab == WithoutEntry(dirTab, path)
           name == Last(path)
           I == inodeTab
           T == dirTab
<1>1. /\ p # 0
      /\ \A d \in DirsIn(U, I) : d # p => tab[I[d].blk] = T[I[d].blk]
      /\ \A other : other # name =>
           dir_file_inode_idx(tab[I[p].blk], other) =
             dir_file_inode_idx(T[I[p].blk], other)
  BY UnlinkHops
<1>2. p = Walk(dirTab, path)[Len(path) - 1]
  BY ParentOnWalk
<1> HIDE DEF U, p, tab, name, I, T
<1>3. SameBut(U, I, T, U, I, tab, X, p, name)
  BY <1>1 DEF SameBut
<1> HIDE DEF X
<1>4. \A x \in X : \A other :
        \/ Hop(U, I, tab, x, other) = Hop(U, I, T, x, other)
        \/ x = p /\ other = name
  BY <1>3, HopsAt
<1>5. HopsKept(U, I, T, U, I, tab, path, Walk(dirTab, path))
  BY <1>2, <1>4 DEF HopsKept, name, X
<1>. QED
  BY <1>1, <1>5 DEF U, I, T, p, tab

LEMMA RenameLosesKeepsNames ==
  ASSUME IInv, phase = "up", UniqueNames, WalksFollow',
         NEW from \in Files, NEW to \in Files,
         RenameStatus(from) = "OK", RenameLoses(from, to)
  PROVE  NamesKept(from, to)
<1>1. fs_path_to_parent(dirTab, from) = "OK" /\ Child(dirTab, from) # 0
  BY DEF RenameStatus
<1>2. /\ dirTab' = WithoutEntry(dirTab, from)
      /\ inodes' = inodes /\ inodeTab' = inodeTab
  BY DEF RenameLoses
<1>3. /\ Parent(dirTab, from) # 0
      /\ HopsKept(Used(inodes), inodeTab, dirTab,
                  Used(inodes'), inodeTab', dirTab', from, Walk(dirTab, from))
  BY <1>1, <1>2, UnlinkHopsKept
<1>4. NamesKept(from, from)
  BY <1>3, HopsKeepNames
<1>. QED
  BY <1>4 DEF NamesKept

(* A rename that succeeds, in its two stages: a walk that begins with      *)
(* neither path is as before after the first, in the contents from which   *)
(* the target is looked up, and as there after the second.                 *)
LEMMA RenameDoneKeepsNames ==
  ASSUME IInv, phase = "up", UniqueNames, WalksFollow',
         NEW from \in Files, NEW to \in Files,
         RenameStatus(from) = "OK", RenameDone(from, to)
  PROVE  NamesKept(from, to)
<1> DEFINE tab == WithoutEntry(dirTab, from)
           idx == Child(dirTab, from)
           U == Used(inodes)
           B == Used(blocks)
           I == inodeTab
           T == dirTab
           p == Parent(tab, to)
           name == Last(to)
           X == U \cup {0}
<1>1. fs_path_to_parent(dirTab, from) = "OK" /\ idx # 0
  BY DEF RenameStatus
<1>2. /\ fs_path_to_parent(tab, to) = "OK"
      /\ dirTab' = WithEntry(tab, to, idx)
      /\ inodes' = inodes /\ inodeTab' = inodeTab
  BY DEF RenameDone
<1>3. Sound(U, B, I, tab) /\ idx \in Indices /\ Sound(U, B, I, T) /\ ROOT_INODE \in U
  BY <1>1, InvariantFacts, UpFacts, UnlinkEffect DEF Used
<1>4. Parent(dirTab, from) # 0
      /\ HopsKept(U, I, T, U, I, tab, from, Walk(dirTab, from))
  BY <1>1, UnlinkHopsKept
<1>5. Readable(tab)
  BY <1>3, ReservedAreIndices DEF Readable, Sound
<1> HIDE DEF tab, idx
<1>6. /\ p # 0
      /\ \A d \in DirsIn(U, I) : d # p => dirTab'[I[d].blk] = tab[I[d].blk]
      /\ \A other : other # name =>
           dir_file_inode_idx(dirTab'[I[p].blk], other) =
             dir_file_inode_idx(tab[I[p].blk], other)
  BY <1>2, <1>3, <1>5, LinkHops
<1>7. p = Walk(tab, to)[Len(to) - 1] /\ Parent(dirTab, from) = Walk(dirTab, from)[Len(from) - 1]
  BY ParentOnWalk
<1>8. \A path \in Files :
        /\ Follows(U, I, T, path, Walk(dirTab, path))
        /\ Follows(U, I, tab, path, Walk(tab, path))
        /\ Follows(U, I, dirTab', path, Walk(dirTab, path)')
  <2> SUFFICES ASSUME NEW path \in Files
               PROVE  /\ Follows(U, I, T, path, Walk(dirTab, path))
                      /\ Follows(U, I, tab, path, Walk(tab, path))
                      /\ Follows(U, I, dirTab', path, Walk(dirTab, path)')
    OBVIOUS
  <2>1. Follows(U, I, T, path, Walk(dirTab, path))
    BY StateWalks DEF WalksFollow
  <2>2. Follows(U, I, tab, path, Walk(tab, path))
    <3>1. Len(path) \in Nat
      BY PathType
    <3>. QED
      BY <1>3, <1>5, <3>1, WalkFollows
  <2>3. Follows(Used(inodes'), inodeTab', dirTab', path, Walk(dirTab, path)')
    BY DEF WalksFollow
  <2>4. Follows(U, I, dirTab', path, Walk(dirTab, path)')
    BY <1>2, <2>3
  <2>. QED
    BY <2>1, <2>2, <2>4
<1> HIDE DEF U, B, I, T, p, name
<1>9. SameBut(U, I, tab, U, I, dirTab', X, p, name)
  BY <1>6 DEF SameBut
<1> HIDE DEF X
<1>10. \A x \in X : \A other :
         \/ Hop(U, I, dirTab', x, other) = Hop(U, I, tab, x, other)
         \/ x = p /\ other = name
  BY <1>9, HopsAt
<1>11. HopsKept(U, I, tab, U, I, dirTab', to, Walk(tab, to))
  BY <1>7, <1>10 DEF HopsKept, name, X
<1>12. ASSUME NEW path \in Files, ~IsPrefix(from, path), ~IsPrefix(to, path)
       PROVE  (fs_path_to_inode(dirTab, path))' = fs_path_to_inode(dirTab, path)
  <2> DEFINE w == Walk(dirTab, path)
             u == Walk(tab, path)
             v == Walk(dirTab, path)'
             from_ == Walk(dirTab, from)
             to_ == Walk(tab, to)
  <2>1. /\ Follows(U, I, T, path, w) /\ Follows(U, I, tab, path, u)
        /\ Follows(U, I, dirTab', path, v)
        /\ Follows(U, I, T, from, from_) /\ Follows(U, I, tab, to, to_)
    BY <1>8
  <2>2. /\ HopsKept(U, I, T, U, I, tab, from, from_) /\ from_[Len(from) - 1] # 0
        /\ HopsKept(U, I, tab, U, I, dirTab', to, to_) /\ to_[Len(to) - 1] # 0
    BY <1>4, <1>6, <1>7, <1>11 DEF U, I, T
  <2> HIDE DEF w, u, v, from_, to_
  <2>3. u[Len(path)] = w[Len(path)]
    BY <1>3, <1>12, <2>1, <2>2, OthersKept
  <2>4. v[Len(path)] = u[Len(path)]
    BY <1>3, <1>12, <2>1, <2>2, OthersKept
  <2>. QED
    BY <2>3, <2>4 DEF w, v, fs_path_to_inode
<1>. QED
  BY <1>12 DEF NamesKept

\* What the property says of a step, for the paths of its request.
LEMMA KeptMeansOthers ==
  ASSUME NEW from \in Files, NEW to \in Files, NamesKept(from, to)
  PROVE  \A path \in Changed : IsPrefix(from, path) \/ IsPrefix(to, path)
BY DEF NamesKept, Changed

LEMMA MkdirKeepsNames ==
  ASSUME IInv, phase = "up", phase' = "up", WalksFollow', Changed # {},
         NEW path \in Files, Mkdir(path)
  PROVE  NamesKept(path, path)
<1>1. CASE Refuse(MakeStatus(path))
  BY <1>1, NothingChanges DEF Refuse
<1>2. CASE MakeStatus(path) = "OK" /\ MkdirExhausted
  BY <1>2, NothingChanges DEF MkdirExhausted
<1>3. CASE MakeStatus(path) = "OK" /\ MkdirDone(path)
  BY <1>3, MkdirDoneKeepsNames
<1>4. CASE Smash(path) \/ MkdirFaults
  BY <1>4 DEF Smash, MkdirFaults, Die
<1>. QED
  BY <1>1, <1>2, <1>3, <1>4 DEF Mkdir

LEMMA CreateFileKeepsNames ==
  ASSUME IInv, phase = "up", phase' = "up", WalksFollow', Changed # {},
         NEW path \in Files, CreateFile(path)
  PROVE  NamesKept(path, path)
<1>1. CASE Refuse(MakeStatus(path))
  BY <1>1, NothingChanges DEF Refuse
<1>2. CASE MakeStatus(path) = "OK" /\ CreateExhausted
  BY <1>2, NothingChanges DEF CreateExhausted
<1>3. CASE MakeStatus(path) = "OK" /\ CreateDone(path)
  BY <1>3, CreateDoneKeepsNames
<1>4. CASE Smash(path) \/ CreateFaults
  BY <1>4 DEF Smash, CreateFaults, Die
<1>. QED
  BY <1>1, <1>2, <1>3, <1>4 DEF CreateFile

LEMMA RenameFileKeepsNames ==
  ASSUME IInv, phase = "up", phase' = "up", WalksFollow', Changed # {}, UniqueNames,
         NEW from \in Files, NEW to \in Files, RenameFile(from, to)
  PROVE  NamesKept(from, to)
<1>1. CASE Refuse(RenameStatus(from))
  BY <1>1, NothingChanges DEF Refuse
<1>2. CASE RenameStatus(from) = "OK" /\ RenameLoses(from, to)
  BY <1>2, RenameLosesKeepsNames
<1>3. CASE RenameStatus(from) = "OK" /\ RenameDone(from, to)
  BY <1>3, RenameDoneKeepsNames
<1>4. CASE Smash(from) \/ RenameSmashes(from, to)
  BY <1>4 DEF Smash, RenameSmashes, Die
<1>. QED
  BY <1>1, <1>2, <1>3, <1>4 DEF RenameFile

LEMMA RemoveFileKeepsNames ==
  ASSUME IInv, phase = "up", phase' = "up", WalksFollow', Changed # {}, UniqueNames,
         NEW path \in Files, RemoveFile(path)
  PROVE  NamesKept(path, path)
<1>1. CASE Refuse(fs_path_to_parent(dirTab, path))
  BY <1>1, NothingChanges DEF Refuse
<1>2. CASE RemoveDone(path)
  BY <1>2, RemoveDoneKeepsNames
<1>3. CASE Smash(path) \/ RemoveAborts(path)
  BY <1>3 DEF Smash, RemoveAborts, Die
<1>. QED
  BY <1>1, <1>2, <1>3 DEF RemoveFile

LEMMA StepKeepsNames ==
  ASSUME IInv, [Next]_vars, phase = "up", phase' = "up", WalksFollow',
         UniqueNames, Changed # {}
  PROVE  \E from, to \in Files :
           /\ \A path \in Changed : IsPrefix(from, path) \/ IsPrefix(to, path)
           /\ Requests(from, to)
<1>1. CASE Mount \/ Stop
  BY <1>1 DEF Mount, Stop, Die
<1>2. ASSUME NEW path \in Files, Mkdir(path) \/ CreateFile(path) \/ RemoveFile(path)
      PROVE  /\ \A other \in Changed : IsPrefix(path, other) \/ IsPrefix(path, other)
             /\ Requests(path, path)
  <2>1. NamesKept(path, path)
    BY <1>2, MkdirKeepsNames, CreateFileKeepsNames, RemoveFileKeepsNames
  <2>2. \A other \in Changed : IsPrefix(path, other) \/ IsPrefix(path, other)
    BY <2>1, KeptMeansOthers
  <2>3. Requests(path, path)
    BY <1>2 DEF Requests
  <2>. QED
    BY <2>2, <2>3
<1>3. ASSUME NEW from \in Files, NEW to \in Files, RenameFile(from, to)
      PROVE  /\ \A path \in Changed : IsPrefix(from, path) \/ IsPrefix(to, path)
             /\ Requests(from, to)
  <2>1. NamesKept(from, to)
    BY <1>3, RenameFileKeepsNames
  <2>2. \A path \in Changed : IsPrefix(from, path) \/ IsPrefix(to, path)
    BY <2>1, KeptMeansOthers
  <2>3. Requests(from, to)
    BY <1>3 DEF Requests
  <2>. QED
    BY <2>2, <2>3
<1>4. CASE Expire \/ UNCHANGED vars
  BY <1>4, NothingChanges DEF Expire, vars
<1>. QED
  BY <1>1, <1>2, <1>3, <1>4 DEF Next

-----------------------------------------------------------------------------
(* The theorems                                                            *)

\* The structural invariant and the absence of loops, together, are kept by
\* every operation of fs.c; a rename needs both.
THEOREM ForestInvariant == Spec => []FInv
<1>1. Init => FInv
  <2> SUFFICES ASSUME Init PROVE FInv
    OBVIOUS
  <2>1. Used(inodes) = {}
    BY ClearGrpsEffect DEF Init
  <2>. QED
    BY <2>1, InitInvariant, NoneLoop DEF FInv
<1>2. FInv /\ [Next]_vars => FInv'
  BY NextInvariant, StepForest DEF FInv
<1>. QED
  BY <1>1, <1>2, PTL DEF Spec

\* fs_rename_file never moves a directory into itself or below itself, though
\* it does not compare its two paths.
THEOREM NoDirectoryIsBelowItself == Spec => []NoCycle
<1>1. FInv => NoCycle
  <2> SUFFICES ASSUME FInv, phase = "up", NEW d \in LiveDirs,
                      NEW e \in ToSet(EntriesOf(d))
               PROVE  d \notin Forest!Below(e.idx)
    BY DEF NoCycle
  <2>1. d \in DOMAIN Kids /\ e \in Kids[d]
    BY DEF Kids
  <2>. QED
    BY <2>1, NoLoopNoCycle
<1>. QED
  BY ForestInvariant, <1>1, PTL

(* The bitmaps, the inodes and the arrays of entries implement the forest  *)
(* of inodes: fs_mkdir and fs_create_file add an inode nobody has,         *)
(* fs_rename_file moves one entry or loses it, fs_remove_file takes away   *)
(* one inode with its entry, and every end of the process is a restart.    *)
THEOREM NamespaceImplementsForest == Spec => ImplementsForest
<1>1. Init => Forest!Init
  BY DEF Init, Forest!Init, Kids, Leaves
<1>2. FInv /\ [Next]_vars => [Forest!Next]_(Forest!vars)
  BY StepForest
<1>. QED
  BY <1>1, <1>2, ForestInvariant, PTL DEF Spec, ImplementsForest, Forest!Spec

(* Every request of fs.c that names things leaves alone what other paths   *)
(* lead to, as long as no directory has two entries of one name: for any   *)
(* depth of paths, however many entries dir_remove moves, and whichever    *)
(* inodes and blocks are given up and handed out again.                    *)
THEOREM OthersAreKept == Spec => OtherNamesKept
<1> DEFINE Kept == phase = "up" /\ phase' = "up" /\ UniqueNames =>
             LET changed == Changed IN
             changed # {} =>
               \E from, to \in Files :
                 /\ \A path \in changed : IsPrefix(from, path) \/ IsPrefix(to, path)
                 /\ Requests(from, to)
<1>1. (IInv /\ phase = "up" => WalksFollow)'
  BY StateWalks, PTL
<1>2. IInv /\ IInv' /\ [Next]_vars => [Kept]_vars
  BY <1>1, StepKeepsNames
<1>. QED
  BY <1>2, Invariant, PTL DEF Spec, OtherNamesKept

=============================================================================
