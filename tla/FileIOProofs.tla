---------------------------- MODULE FileIOProofs ----------------------------
(***************************************************************************)
(* Proofs about FileIO, for every number of files and blocks, every size   *)
(* of blocks and inodes and every length of requests.  Whatever handles    *)
(* are open: everything keeps to its type, and what a truncation cuts.     *)
(* With one handle: what the REOPEN workaround of chisai-mount.c achieves, *)
(* that no two pointers of inodes, nor words of indirect blocks until a    *)
(* write goes astray, name one block, how a write first goes astray, and   *)
(* that until then pointers, blocks and copies of inodes implement files.  *)
(***************************************************************************)
EXTENDS FileIO, BlockGroupsProofs

-----------------------------------------------------------------------------
(* Places on the device                                                    *)

LEMMA SizesAreNat ==
  /\ NumFiles \in Nat /\ NumFiles > 0 /\ Direct \in Nat /\ Direct > 0
  /\ BlkWords \in Nat /\ BlkWords > 0 /\ Sector \in Nat /\ Sector > 0
  /\ MaxEnd \in Nat /\ MaxEnd > 0 /\ BlkInodeNum \in Nat /\ BlkInodeNum > 0
  /\ Groups \in Nat /\ Groups > 0 /\ Sector <= BlkWords
BY SizesAssumption, SectorAssumption, GroupsAssumption, BlkInodeNumAssumption

LEMMA IndicesAreNat == Total \in Nat /\ Indices \subseteq Nat /\ 0 \notin Indices
<1>1. Total \in Nat
  BY SizesAreNat DEF Total
<1>. QED
  BY <1>1 DEF Indices

\* The words of a block are where no other block has any.
LEMMA AddrEffect ==
  ASSUME NEW blk \in Indices, NEW at \in 0 .. BlkWords - 1
  PROVE  /\ Addr(blk, at) \in Addresses
         /\ Addr(blk, at) \div BlkWords = blk - 1
         /\ Addr(blk, at) % BlkWords = at
<1>1. blk - 1 \in Nat /\ blk - 1 < Total /\ Total \in Nat /\ at \in Nat /\ at < BlkWords
  BY IndicesAreNat, SizesAreNat DEF Indices
<1>2. (blk - 1) * BlkWords + BlkWords <= Total * BlkWords
  BY <1>1, SizesAreNat, ProductMonotone
<1>3. (blk - 1) * BlkWords \in Nat /\ Total * BlkWords \in Nat
  BY <1>1, SizesAreNat, SMT
<1>4. Addr(blk, at) = (blk - 1) * BlkWords + at
  BY DEF Addr
<1>5. Addr(blk, at) \in Addresses
  BY <1>1, <1>2, <1>3, <1>4, SizesAreNat DEF Addresses
<1>6. /\ ((blk - 1) * BlkWords + at) \div BlkWords = blk - 1
      /\ ((blk - 1) * BlkWords + at) % BlkWords = at
  BY <1>1, SizesAreNat, DivisionUnique
<1>. QED
  BY <1>4, <1>5, <1>6

LEMMA BlockOfAddress ==
  ASSUME NEW a \in Addresses
  PROVE  /\ a % BlkWords \in 0 .. BlkWords - 1
         /\ (a \div BlkWords) + 1 \in Indices
         /\ a = Addr((a \div BlkWords) + 1, a % BlkWords)
<1> DEFINE q == a \div BlkWords
           r == a % BlkWords
<1>1. /\ Total \in Nat /\ BlkWords \in Nat /\ BlkWords > 0 /\ Total * BlkWords \in Nat
      /\ a \in Nat /\ a < Total * BlkWords
  BY IndicesAreNat, SizesAreNat, SMT DEF Addresses
<1>2. q \in Nat /\ r \in 0 .. BlkWords - 1 /\ a = q * BlkWords + r
  BY <1>1, Division
<1> HIDE DEF q, r
<1>3. q < Total
  <2>1. CASE Total < q
    <3>1. Total * BlkWords + BlkWords <= q * BlkWords
      BY <1>1, <1>2, <2>1, ProductMonotone
    <3>2. q * BlkWords \in Nat
      BY <1>1, <1>2, SMT
    <3>. QED
      BY <1>1, <1>2, <3>1, <3>2
  <2>2. CASE Total = q
    BY <1>1, <1>2, <2>2
  <2>. QED
    BY <1>1, <1>2, <2>1, <2>2
<1>4. q + 1 \in Indices
  BY <1>1, <1>2, <1>3 DEF Indices
<1>5. Addr(q + 1, r) = q * BlkWords + r
  BY <1>2, SizesAreNat DEF Addr
<1>. QED
  BY <1>2, <1>4, <1>5 DEF q, r

LEMMA SeekType ==
  ASSUME NEW a \in Addresses \cup {Nowhere}, NEW blk, NEW at \in 0 .. BlkWords - 1
  PROVE  Seek(a, blk, at) \in Addresses \cup {Nowhere}
BY AddrEffect DEF Seek

\* n + 1 words from a on are in the same group, the last of them at a + n.
LEMMA WithinGroup ==
  ASSUME NEW a \in Addresses, NEW n \in Nat, Within(a, n + 1)
  PROVE  a + n \in Addresses
<1> DEFINE size == BlkInodeNum * BlkWords
           q    == a \div size
           r    == a % size
<1>1. size \in Nat /\ size > 0
  BY SizesAreNat, SMT
<1>2. Total * BlkWords = Groups * size
  BY SizesAreNat, SMT DEF Total
<1>3. Groups * size \in Nat
  BY <1>1, SizesAreNat, SMT
<1>4. a \in Nat /\ a < Groups * size
  BY <1>2, <1>3 DEF Addresses
<1>5. q \in Nat /\ r \in 0 .. size - 1 /\ a = q * size + r
  BY <1>1, <1>4, Division
<1>6. r + n < size
  <2>1. (a % (BlkInodeNum * BlkWords)) + (n + 1) <= BlkInodeNum * BlkWords
    BY DEF Within
  <2>. QED
    BY <1>1, <1>5, <2>1
<1> HIDE DEF size, q, r
<1>7. q * size \in Nat
  BY <1>1, <1>5, SMT
<1>8. q < Groups
  <2>1. CASE Groups < q
    BY <1>1, <1>3, <1>4, <1>5, <1>7, <2>1, SizesAreNat, ProductMonotone
  <2>2. CASE Groups = q
    BY <1>4, <1>5, <1>1, <1>7, <2>2
  <2>. QED
    BY <1>5, <2>1, <2>2, SizesAreNat
<1>9. q * size + size <= Groups * size
  BY <1>1, <1>5, <1>8, SizesAreNat, ProductMonotone
<1>10. a + n \in 0 .. Groups * size - 1
  BY <1>1, <1>3, <1>4, <1>5, <1>6, <1>7, <1>9
<1>. QED
  BY <1>2, <1>10 DEF Addresses

LEMMA AfterType ==
  ASSUME NEW a, NEW n \in Nat
  PROVE  After(a, n) \in Addresses \cup {Nowhere}
<1>1. CASE Within(a, n + 1)
  <2>1. a \in Addresses
    BY <1>1 DEF Within
  <2>. QED
    BY <1>1, <2>1, WithinGroup DEF After
<1>2. CASE ~Within(a, n + 1)
  BY <1>2 DEF After
<1>. QED
  BY <1>1, <1>2

\* A chunk of n words from offset o on does not leave the block it begins in.
FitsBlock(o, n) == o \in Nat /\ n \in Nat /\ n <= BlkWords - (o % BlkWords)

\* It is saved in that block.
SavedIn(dev, blk, f, o, n) == Saved(dev, Addr(blk, o % BlkWords), f, o, n)

LEMMA SavedEffect ==
  ASSUME NEW dev, NEW blk \in Indices, NEW f, NEW o, NEW n, FitsBlock(o, n)
  PROVE  /\ \A a \in Addresses :
              a \div BlkWords # blk - 1 => SavedIn(dev, blk, f, o, n)[a] = dev[a]
         /\ \A at \in 0 .. BlkWords - 1 :
              SavedIn(dev, blk, f, o, n)[Addr(blk, at)] =
                IF at - (o % BlkWords) \in 0 .. n - 1
                THEN Own(f, o + at - (o % BlkWords)) ELSE dev[Addr(blk, at)]
<1> USE DEF FitsBlock
<1> DEFINE r == o % BlkWords
<1>1. r \in 0 .. BlkWords - 1 /\ BlkWords \in Nat /\ blk \in Nat
  BY SizesAreNat, IndicesAreNat, Division
<1>2. Addr(blk, r) \in Addresses /\ Addr(blk, r) = (blk - 1) * BlkWords + r
  BY <1>1, AddrEffect DEF Addr
<1>3. (blk - 1) * BlkWords \in Int
  BY <1>1, SMT
<1>4. ASSUME NEW a \in Addresses, a - Addr(blk, r) \in 0 .. n - 1
      PROVE  a \div BlkWords = blk - 1
  <2>1. a \in Nat
    BY <1>4, SizesAreNat, IndicesAreNat, SMT DEF Addresses
  <2> DEFINE at == a - (blk - 1) * BlkWords
  <2>2. at \in 0 .. BlkWords - 1
    BY <1>1, <1>2, <1>3, <1>4, <2>1
  <2>3. a = Addr(blk, at)
    BY <1>3, <2>1, <2>2 DEF Addr
  <2> HIDE DEF at
  <2>. QED
    BY <2>2, <2>3, AddrEffect
<1>5. ASSUME NEW at \in 0 .. BlkWords - 1
      PROVE  /\ Addr(blk, at) \in Addresses
             /\ Addr(blk, at) - Addr(blk, r) = at - r
             /\ o + Addr(blk, at) - Addr(blk, r) = o + at - r
  <2>1. Addr(blk, at) \in Addresses
    BY AddrEffect
  <2>. QED
    BY <1>1, <1>3, <2>1 DEF Addr
<1> HIDE DEF r
<1>6. \A a \in Addresses :
        SavedIn(dev, blk, f, o, n)[a] =
          IF a - Addr(blk, r) \in 0 .. n - 1
          THEN Own(f, o + a - Addr(blk, r)) ELSE dev[a]
  BY DEF SavedIn, Saved, r
<1>7. \A a \in Addresses :
        a \div BlkWords # blk - 1 => SavedIn(dev, blk, f, o, n)[a] = dev[a]
  BY <1>4, <1>6
<1>8. ASSUME NEW at \in 0 .. BlkWords - 1
      PROVE  SavedIn(dev, blk, f, o, n)[Addr(blk, at)] =
               IF at - r \in 0 .. n - 1
               THEN Own(f, o + at - r) ELSE dev[Addr(blk, at)]
  BY <1>5, <1>6
<1>. QED
  BY <1>7, <1>8 DEF r

LEMMA SavedType ==
  ASSUME NEW dev \in [Addresses -> Words], NEW at \in Int, NEW f \in Files,
         NEW o \in Nat, NEW n \in Nat, o + n <= MaxEnd
  PROVE  Saved(dev, at, f, o, n) \in [Addresses -> Words]
<1>1. ASSUME NEW a \in Addresses, a - at \in 0 .. n - 1
      PROVE  Own(f, o + a - at) \in Words
  <2>1. a \in Int
    BY IndicesAreNat, SizesAreNat, SMT DEF Addresses
  <2>2. o + a - at \in Sizes
    BY <1>1, <2>1, SizesAreNat DEF Sizes
  <2>. QED
    BY <2>2 DEF Words
<1>. QED
  BY <1>1 DEF Saved

LEMMA BlurredType ==
  ASSUME NEW dev
  PROVE  Blurred(dev) \in [Addresses -> Words]
BY DEF Blurred, Words, Pointers

LEMMA AgedType ==
  ASSUME NEW dev \in [Addresses -> Words], NEW named
  PROVE  Aged(dev, named) \in [Addresses -> Words]
BY DEF Aged, Words

\* The index of a block is recorded in another.
LEMMA PutType ==
  ASSUME NEW dev \in [Addresses -> Words], NEW a, NEW blk \in Indices
  PROVE  [dev EXCEPT ![a] = blk] \in [Addresses -> Words]
<1>1. blk \in Words
  BY DEF Words
<1> HIDE DEF Addresses, Words
<1>. QED
  BY <1>1

LEMMA ClearedType ==
  ASSUME NEW dev \in [Addresses -> Words], NEW blk
  PROVE  Cleared(dev, blk) \in [Addresses -> Words]
BY DEF Cleared, Words

\* Several releases are none of an index that was not given.
LEMMA ReleaseAllEffect ==
  ASSUME NEW grps \in BlkGrps, HintsAreFree(grps), NEW idxs
  PROVE  /\ ReleasedAll(grps, idxs) \in BlkGrps
         /\ HintsAreFree(ReleasedAll(grps, idxs))
         /\ Used(ReleasedAll(grps, idxs)) = Used(grps) \ idxs
<1> DEFINE new == ReleasedAll(grps, idxs)
<1>1. ASSUME NEW g \in GroupIds
      PROVE  /\ new[g].bitmap =
                  {b \in grps[g].bitmap : g * BlkInodeNum + b + 1 \notin idxs}
             /\ new[g].next = grps[g].next
             /\ new[g] \in [bitmap : Bitmap, next : 0 .. BlkInodeNum]
  <2>1. grps[g] \in [bitmap : Bitmap, next : 0 .. BlkInodeNum]
    BY DEF BlkGrps
  <2>2. new[g] = [grps[g] EXCEPT !.bitmap =
                    {b \in grps[g].bitmap : g * BlkInodeNum + b + 1 \notin idxs}]
    BY DEF ReleasedAll
  <2>3. {b \in grps[g].bitmap : g * BlkInodeNum + b + 1 \notin idxs} \in Bitmap
    BY <2>1 DEF Bitmap
  <2>. QED
    BY <2>1, <2>2, <2>3
<1>2. new \in BlkGrps
  <2>1. new = [g \in GroupIds |-> new[g]]
    BY DEF ReleasedAll
  <2>. QED
    BY <1>1, <2>1 DEF BlkGrps
<1> HIDE DEF new
<1>3. HintsAreFree(new)
  BY <1>1 DEF HintsAreFree
<1>4. ASSUME NEW idx \in Indices
      PROVE  exist(new, idx) <=> exist(grps, idx) /\ idx \notin idxs
  <2>1. /\ grp_idx(idx) \in GroupIds
        /\ idx = grp_idx(idx) * BlkInodeNum + bitvec_idx(idx) + 1
    BY PositionOfIndex
  <2>. QED
    BY <1>1, <2>1 DEF exist
<1>5. Used(new) = Used(grps) \ idxs
  BY <1>4 DEF Used
<1>. QED
  BY <1>2, <1>3, <1>5 DEF new

-----------------------------------------------------------------------------
(* Type correctness                                                        *)

\* set_inode_size counts the size in sectors, and one more.
CountsSectors(inode) ==
  \/ inode.blkcnt = (inode.size \div Sector) + 1
  \/ inode.blkcnt = 0 /\ inode.size = 0

GoodInodes == {inode \in Inodes : CountsSectors(inode)}

\* A request in progress has its handle and stays within the largest size.
ReqFits ==
  req # Idle =>
    /\ req.op \in {"read", "write"}
    /\ IsOpen(req.h)
    /\ req.total <= req.size
    /\ req.off + req.size <= MaxEnd

(* Nothing is left of what was in memory when the process has ended.       *)
DownIsEmpty ==
  phase # "up" => /\ linked = {} /\ req = Idle /\ wild = FALSE
                  /\ handles = [h \in Handles |-> Closed]

TInv ==
  /\ TypeOK
  /\ HintsAreFree(blocks)
  /\ ReqFits
  /\ DownIsEmpty
  /\ \A f \in Files : CountsSectors(tab[f])
  /\ \A h \in Handles : CountsSectors(handles[h].inode)

LEMMA NewInodeGood == NewInode \in GoodInodes
<1>1. 0 \in Sizes /\ 0 \in Pointers /\ (MaxEnd \div Sector) + 1 \in Nat
  BY SizesAreNat, Division DEF Sizes, Pointers
<1>2. [i \in 0 .. Direct - 1 |-> 0] \in [0 .. Direct - 1 -> Pointers]
  BY <1>1
<1>3. NewInode \in Inodes
  BY <1>1, <1>2 DEF NewInode, Inodes
<1>. QED
  BY <1>3 DEF GoodInodes, CountsSectors, NewInode

LEMMA SetSizeGood ==
  ASSUME NEW inode \in Inodes, NEW size \in Sizes
  PROVE  SetSize(inode, size) \in GoodInodes
<1>1. size \in Nat /\ size <= MaxEnd /\ size \div Sector \in Nat
      /\ MaxEnd \div Sector \in Nat
  BY SizesAreNat, Division DEF Sizes
<1>2. size \div Sector <= MaxEnd \div Sector
  <2> DEFINE q == size \div Sector
             m == MaxEnd \div Sector
  <2>1. /\ size = q * Sector + (size % Sector) /\ size % Sector \in 0 .. Sector - 1
        /\ MaxEnd = m * Sector + (MaxEnd % Sector) /\ MaxEnd % Sector \in 0 .. Sector - 1
        /\ q \in Nat /\ m \in Nat
    BY <1>1, SizesAreNat, Division
  <2> HIDE DEF q, m
  <2>2. q * Sector \in Nat /\ m * Sector \in Nat
    BY <2>1, SizesAreNat, SMT
  <2>3. ASSUME m < q PROVE FALSE
    <3>1. m * Sector + Sector <= q * Sector
      BY <2>1, <2>3, SizesAreNat, ProductMonotone
    <3>. QED
      BY <1>1, <2>1, <2>2, <3>1, SizesAreNat
  <2>4. q <= m
    BY <2>1, <2>3
  <2>. QED
    BY <2>4 DEF q, m
<1>3. (size \div Sector) + 1 \in 0 .. (MaxEnd \div Sector) + 1
  BY <1>1, <1>2
<1>. QED
  BY <1>3 DEF SetSize, GoodInodes, CountsSectors, Inodes

HandleType == [file : Files, inode : Inodes] \cup {Closed, Freed}

\* The model's names for "no file" are not files.
LEMMA OpenMeans ==
  /\ Closed.file \notin Files /\ Freed.file \notin Files
  /\ Closed.inode = NewInode /\ Freed.inode = NewInode
  /\ Closed \in HandleType /\ Freed \in HandleType
BY SizesAssumption DEF Closed, Freed, Files, HandleType

LEMMA HandleTypes ==
  ASSUME TInv
  PROVE  /\ handles \in [Handles -> HandleType]
         /\ \A h \in Handles : /\ CountsSectors(handles[h].inode)
                               /\ handles[h].inode \in GoodInodes
                               /\ IsOpen(h) => handles[h] \in [file : Files, inode : Inodes]
<1>1. handles \in [Handles -> HandleType]
  BY DEF TInv, TypeOK, HandleType
<1>2. ASSUME NEW h \in Handles
      PROVE  /\ CountsSectors(handles[h].inode)
             /\ handles[h].inode \in GoodInodes
             /\ IsOpen(h) => handles[h] \in [file : Files, inode : Inodes]
  <2>1. CountsSectors(handles[h].inode)
    BY DEF TInv
  <2>2. handles[h] \in HandleType
    BY <1>1
  <2>3. IsOpen(h) => handles[h] \in [file : Files, inode : Inodes]
    BY <2>2, OpenMeans DEF IsOpen, HandleType
  <2>4. handles[h].inode \in Inodes
    BY <2>2, OpenMeans, NewInodeGood DEF HandleType, GoodInodes
  <2>. QED
    BY <2>1, <2>3, <2>4 DEF GoodInodes
<1>. QED
  BY <1>1, <1>2

LEMMA WithoutPointersType ==
  ASSUME NEW inode \in Inodes, NEW cut
  PROVE  /\ WithoutPointers(inode, cut) \in Inodes
         /\ \A i \in 0 .. Direct - 1 :
              WithoutPointers(inode, cut).direct[i] =
                IF i \in cut THEN 0 ELSE inode.direct[i]
         /\ WithoutPointers(inode, cut).indirect =
              IF Direct \in cut THEN 0 ELSE inode.indirect
<1> DEFINE direct == [i \in DOMAIN inode.direct |->
                        IF i \in cut THEN 0 ELSE inode.direct[i]]
           indirect == IF Direct \in cut THEN 0 ELSE inode.indirect
<1>1. WithoutPointers(inode, cut) =
        [inode EXCEPT !.direct = direct, !.indirect = indirect]
  BY DEF WithoutPointers
<1>2. inode.direct \in [0 .. Direct - 1 -> Pointers] /\ inode.indirect \in Pointers
  BY DEF Inodes
<1>3. 0 \in Pointers
  BY DEF Pointers
<1>4. /\ direct \in [0 .. Direct - 1 -> Pointers] /\ indirect \in Pointers
      /\ \A i \in 0 .. Direct - 1 :
           direct[i] = IF i \in cut THEN 0 ELSE inode.direct[i]
  BY <1>2, <1>3
<1>5. indirect = IF Direct \in cut THEN 0 ELSE inode.indirect
  OBVIOUS
<1> HIDE DEF direct, indirect
<1>6. /\ WithoutPointers(inode, cut).direct = direct
      /\ WithoutPointers(inode, cut).indirect = indirect
      /\ WithoutPointers(inode, cut) \in Inodes
  BY <1>1, <1>4 DEF Inodes
<1>. QED
  BY <1>4, <1>6, <1>5

\* A block index is recorded in an inode.
LEMMA PointerGood ==
  ASSUME NEW inode \in GoodInodes, NEW blk \in Indices
  PROVE  /\ [inode EXCEPT !.indirect = blk] \in GoodInodes
         /\ \A num \in 0 .. Direct - 1 :
              [inode EXCEPT !.direct[num] = blk] \in GoodInodes
<1>1. blk \in Pointers
  BY DEF Pointers
<1>2. [inode EXCEPT !.indirect = blk] \in GoodInodes
  BY <1>1 DEF GoodInodes, Inodes, CountsSectors
<1>3. ASSUME NEW num \in 0 .. Direct - 1
      PROVE  [inode EXCEPT !.direct[num] = blk] \in GoodInodes
  <2> DEFINE direct == [inode.direct EXCEPT ![num] = blk]
  <2>1. direct \in [0 .. Direct - 1 -> Pointers]
    BY <1>1 DEF GoodInodes, Inodes
  <2>2. [inode EXCEPT !.direct[num] = blk] = [inode EXCEPT !.direct = direct]
    OBVIOUS
  <2> HIDE DEF direct
  <2>3. [inode EXCEPT !.direct = direct] \in GoodInodes
    BY <2>1 DEF GoodInodes, Inodes, CountsSectors
  <2>. QED
    BY <2>2, <2>3
<1>. QED
  BY <1>2, <1>3

\* A request is none, or one of this type.
ReqType ==
  [op : {"read", "write"}, h : Handles, off : Sizes, size : Sizes, total : Sizes,
   blk : Pointers \cup {Unset}, buf : [Sizes -> Words]]

\* What a request in progress works on.
LEMMA RequestType ==
  ASSUME TInv, req # Idle
  PROVE  /\ req.op \in {"read", "write"} /\ req.h \in Handles
         /\ req.off \in Nat /\ req.size \in Nat /\ req.total \in Nat
         /\ req.total <= req.size /\ req.off + req.size <= MaxEnd
         /\ handles[req.h] \in [file : Files, inode : Inodes]
         /\ File \in Files /\ Inode \in GoodInodes
         /\ req \in ReqType
<1>1. req \in ReqType
  BY DEF TInv, TypeOK, ReqType
<1>2. Sizes \subseteq Nat
  BY SizesAreNat DEF Sizes
<1>3. handles[req.h] \in [file : Files, inode : Inodes]
  <2>1. req.h \in Handles /\ IsOpen(req.h)
    BY <1>1 DEF TInv, ReqFits, ReqType
  <2>. QED
    BY <2>1, HandleTypes
<1>4. CountsSectors(handles[req.h].inode) /\ req.h \in Handles
  BY <1>1 DEF TInv, ReqType
<1>. QED
  BY <1>1, <1>2, <1>3, <1>4 DEF TInv, ReqFits, File, Inode, GoodInodes, ReqType

\* A round stays within a block and within the request.
LEMMA ChunkFits ==
  ASSUME TInv, Writing \/ Reading
  PROVE  /\ req # Idle /\ req.total < req.size
         /\ Offset \in Nat /\ Num \in Nat /\ Offset % BlkWords \in 0 .. BlkWords - 1
         /\ Offset = Num * BlkWords + (Offset % BlkWords)
         /\ Chunk \in Nat /\ Chunk > 0
         /\ Chunk <= BlkWords - (Offset % BlkWords)
         /\ Chunk <= req.size - req.total
         /\ Offset + Chunk <= req.off + req.size
<1>1. req # Idle /\ req.total < req.size
  BY DEF Writing, Reading, Idle
<1>2. /\ req.off \in Nat /\ req.size \in Nat /\ req.total \in Nat
  BY <1>1, RequestType
<1>3. Offset \in Nat /\ Offset = req.off + req.total
  BY <1>2 DEF Offset
<1>4. /\ Num \in Nat /\ Offset % BlkWords \in 0 .. BlkWords - 1
      /\ Offset = Num * BlkWords + (Offset % BlkWords)
  BY <1>3, SizesAreNat, Division DEF Num
<1> DEFINE a == req.size - req.total
           b == BlkWords - (Offset % BlkWords)
<1>5. a \in Nat /\ a > 0 /\ b \in Nat /\ b > 0
  BY <1>1, <1>2, <1>4, SizesAreNat
<1> HIDE DEF a, b
<1>6. Min({a, b}) \in {a, b} /\ Min({a, b}) <= a /\ Min({a, b}) <= b
  BY <1>5, LeastNatural
<1>7. Chunk = Min({a, b})
  BY DEF Chunk, a, b
<1>8. Chunk \in Nat /\ Chunk > 0 /\ Chunk <= a /\ Chunk <= b
  BY <1>5, <1>6, <1>7
<1>. QED
  BY <1>1, <1>2, <1>3, <1>4, <1>8 DEF a, b

\* fs_find_blk reads a word, and moves the descriptor to a place.
LEMMA FindType ==
  ASSUME TInv, Writing \/ Reading, ~Beyond
  PROVE  /\ Found \in Words
         /\ PosAfterFind(Inode, Num) \in Addresses \cup {Nowhere}
         /\ Num < Direct => Num \in 0 .. Direct - 1 /\ Found = Inode.direct[Num]
                            /\ Found \in Pointers
         /\ ~(Num < Direct) => Num - Direct \in 0 .. BlkWords - 1
<1>1. Num \in Nat /\ Inode \in Inodes
  BY ChunkFits, RequestType DEF GoodInodes
<1>2. pos \in Addresses \cup {Nowhere} /\ disk \in [Addresses -> Words]
  BY DEF TInv, TypeOK
<1>3. CASE Num < Direct
  <2>1. Num \in 0 .. Direct - 1
    BY <1>1, <1>3, SizesAreNat
  <2>2. Found = Inode.direct[Num] /\ PosAfterFind(Inode, Num) = pos
    BY <1>3 DEF Found, fs_find_blk, PosAfterFind
  <2>3. Found \in Pointers
    BY <1>1, <2>1, <2>2 DEF Inodes
  <2>. QED
    BY <1>3, <1>2, <2>1, <2>2, <2>3 DEF Pointers, Words
<1>4. CASE ~(Num < Direct)
  <2>1. Num - Direct \in 0 .. BlkWords - 1
    BY <1>1, <1>4, SizesAreNat DEF Beyond
  <2>2. Slot(Inode, Num) \in Addresses \cup {Nowhere}
    BY <1>2, <2>1, SeekType DEF Slot
  <2>3. Found = WordAt(Slot(Inode, Num))
        /\ PosAfterFind(Inode, Num) = After(Slot(Inode, Num), 1)
    BY <1>4 DEF Found, fs_find_blk, PosAfterFind
  <2>4. Found \in Words
    BY <1>2, <2>2, <2>3 DEF WordAt, Words
  <2>5. PosAfterFind(Inode, Num) \in Addresses \cup {Nowhere}
    BY <2>2, <2>3, AfterType
  <2>. QED
    BY <1>4, <2>1, <2>4, <2>5
<1>. QED
  BY <1>3, <1>4

\* The volume that mounting makes.
LEMMA FreshBlocksType ==
  /\ FreshBlocks \in BlkGrps /\ HintsAreFree(FreshBlocks)
  /\ Used(FreshBlocks) = {RootBlk} /\ RootBlk \in Indices
<1> DEFINE grps == blkgrps_load([g \in GroupIds |-> {}])
<1>1. /\ grps \in BlkGrps /\ HintsAreFree(grps) /\ Used(grps) = {}
      /\ HasRoom(grps) /\ AllocIdx(grps) = 1
  BY ClearEffect
<1>2. FreshBlocks = Allocated(grps)
  BY DEF FreshBlocks
<1> HIDE DEF grps
<1>. QED
  BY <1>1, <1>2, AllocEffect DEF RootBlk

LEMMA FreshDiskType == FreshDisk \in [Addresses -> Words]
BY DEF FreshDisk, Words

Phases ==
  {"up", "aborted_size", "aborted_block", "aborted_unlink", "aborted_free", "crashed"}
    \cup Lost

LEMMA MemoryLostType ==
  ASSUME MemoryLost, phase' \in Phases
  PROVE  TInv'
<1>1. /\ blocks' = FreshBlocks /\ linked' = {} /\ tab' = [f \in Files |-> NewInode]
      /\ pos' = Nowhere /\ handles' = [h \in Handles |-> Closed] /\ reopen' = FALSE
      /\ req' = Idle /\ wild' = FALSE /\ disk' = FreshDisk
  BY DEF MemoryLost
<1>2. NewInode \in Inodes /\ CountsSectors(NewInode) /\ Closed.inode = NewInode
  BY NewInodeGood DEF GoodInodes, Closed
<1>3. TypeOK'
  BY <1>1, <1>2, FreshBlocksType, FreshDiskType DEF TypeOK, Phases
<1>. QED
  BY <1>1, <1>2, <1>3, FreshBlocksType DEF TInv, ReqFits, DownIsEmpty

LEMMA EndType ==
  ASSUME NEW how \in Phases, End(how) \/ GiveUp(how) \/ Restart
  PROVE  TInv'
BY MemoryLostType DEF End, GiveUp, Restart, Phases

\* Between requests, what they do with a handle leaves the rest as it was.
LEMMA HandleStepType ==
  ASSUME TInv, Serving, UNCHANGED <<phase, blocks, wild, req>>,
         linked' \in SUBSET Files, reopen' \in BOOLEAN,
         tab' \in [Files -> Inodes], \A f \in Files : CountsSectors(tab'[f]),
         disk' \in [Addresses -> Words], pos' \in Addresses \cup {Nowhere},
         handles' \in [Handles -> HandleType],
         \A h \in Handles : CountsSectors(handles'[h].inode)
  PROVE  TInv'
<1>1. req' = Idle /\ phase' = "up"
  BY DEF Serving
<1>2. TypeOK'
  BY <1>1 DEF TInv, TypeOK, HandleType
<1>. QED
  BY <1>1, <1>2 DEF TInv, ReqFits, DownIsEmpty

\* A handle is set, to one that is good.
LEMMA HandleSet ==
  ASSUME TInv, NEW h \in Handles, NEW handle \in HandleType, CountsSectors(handle.inode),
         handles' = [handles EXCEPT ![h] = handle]
  PROVE  /\ handles' \in [Handles -> HandleType]
         /\ \A g \in Handles : CountsSectors(handles'[g].inode)
<1>1. /\ handles \in [Handles -> HandleType]
      /\ \A g \in Handles : CountsSectors(handles[g].inode)
  BY HandleTypes
<1> HIDE DEF HandleType
<1>. QED
  BY <1>1

LEMMA TabType ==
  ASSUME TInv
  PROVE  /\ tab \in [Files -> Inodes] /\ \A f \in Files : tab[f] \in GoodInodes
BY DEF TInv, TypeOK, GoodInodes

LEMMA LetGoType ==
  ASSUME TInv, NEW h \in Handles, IsOpen(h), LetGo(h)
  PROVE  /\ tab' \in [Files -> Inodes] /\ \A f \in Files : CountsSectors(tab'[f])
         /\ disk' \in [Addresses -> Words]
<1>1. tab \in [Files -> Inodes] /\ \A f \in Files : CountsSectors(tab[f])
  BY TabType DEF GoodInodes
<1>2. disk \in [Addresses -> Words]
  BY DEF TInv, TypeOK
<1>3. CASE LastOf(h)
  BY <1>1, <1>2, <1>3, AgedType, NewInodeGood DEF LetGo, GoodInodes
<1>. QED
  BY <1>1, <1>2, <1>3 DEF LetGo

LEMMA OpenCloseType ==
  ASSUME TInv, NEW h \in Handles,
         Release(h) \/ \E f \in Files : Create(h, f) \/ Open(h, f)
  PROVE  TInv'
<1>1. tab \in [Files -> Inodes] /\ \A f \in Files : tab[f] \in GoodInodes
  BY TabType
<1>2. /\ disk \in [Addresses -> Words] /\ linked \in SUBSET Files /\ reopen \in BOOLEAN
      /\ pos \in Addresses \cup {Nowhere}
  BY DEF TInv, TypeOK
<1>3. CASE Release(h)
  <2>1. /\ Serving /\ IsOpen(h) /\ handles' = [handles EXCEPT ![h] = Closed] /\ LetGo(h)
        /\ UNCHANGED <<phase, blocks, linked, pos, reopen, wild, req>>
    BY <1>3 DEF Release
  <2>2. Closed \in HandleType /\ CountsSectors(Closed.inode)
    BY OpenMeans, NewInodeGood DEF GoodInodes
  <2>. QED
    BY <1>2, <2>1, <2>2, HandleSet, LetGoType, HandleStepType
<1>4. ASSUME NEW f \in Files, Create(h, f)
      PROVE  TInv'
  <2> DEFINE handle == [file |-> f, inode |-> NewInode]
  <2>1. /\ Serving /\ handles' = [handles EXCEPT ![h] = handle]
        /\ tab' = [tab EXCEPT ![f] = NewInode] /\ pos' = Nowhere
        /\ linked' \in {linked, linked \cup {f}}
        /\ UNCHANGED <<phase, blocks, disk, reopen, wild, req>>
    BY <1>4 DEF Create
  <2>2. handle \in HandleType /\ CountsSectors(handle.inode)
    BY NewInodeGood DEF GoodInodes, HandleType
  <2>3. tab' \in [Files -> Inodes] /\ \A g \in Files : CountsSectors(tab'[g])
    BY <1>1, <2>1, NewInodeGood DEF GoodInodes
  <2>4. linked' \in SUBSET Files
    BY <1>2, <2>1
  <2> HIDE DEF handle
  <2>. QED
    BY <1>2, <2>1, <2>2, <2>3, <2>4, HandleSet, HandleStepType
<1>5. ASSUME NEW f \in Files, Open(h, f)
      PROVE  TInv'
  <2> DEFINE handle == [file |-> f, inode |-> tab[f]]
  <2>1. /\ Serving /\ handles' = [handles EXCEPT ![h] = handle] /\ pos' = Nowhere
        /\ UNCHANGED <<phase, blocks, linked, tab, disk, reopen, wild, req>>
    BY <1>5 DEF Open
  <2>2. handle \in HandleType /\ CountsSectors(handle.inode)
    BY <1>1 DEF GoodInodes, HandleType
  <2>3. tab' \in [Files -> Inodes] /\ \A g \in Files : CountsSectors(tab'[g])
    BY <1>1, <2>1 DEF GoodInodes
  <2> HIDE DEF handle
  <2>. QED
    BY <1>2, <2>1, <2>2, <2>3, HandleSet, HandleStepType
<1>. QED
  BY <1>3, <1>4, <1>5

LEMMA ReopenFailsType ==
  ASSUME TInv, NEW h \in Handles, ReopenFails(h)
  PROVE  TInv'
<1>1. /\ Serving /\ IsOpen(h) /\ handles' = [handles EXCEPT ![h] = Freed] /\ LetGo(h)
      /\ pos' = Nowhere /\ UNCHANGED <<phase, blocks, linked, reopen, wild, req>>
  BY DEF ReopenFails
<1>2. Freed \in HandleType /\ CountsSectors(Freed.inode)
  BY OpenMeans, NewInodeGood DEF GoodInodes
<1>3. linked' \in SUBSET Files /\ reopen' \in BOOLEAN
  BY <1>1 DEF TInv, TypeOK
<1>. QED
  BY <1>1, <1>2, <1>3, HandleSet, LetGoType, HandleStepType

LEMMA PointerType ==
  ASSUME NEW inode \in Inodes, NEW i
  PROVE  i \in Nat => Pointer(inode, i) \in Pointers
BY SizesAreNat DEF Pointer, Inodes, Pointers

LEMMA RemoveType ==
  ASSUME TInv, NEW f \in Files, Remove(f)
  PROVE  TInv'
<1>1. tab \in [Files -> Inodes] /\ 0 \in 0 .. Direct - 1
  BY SizesAreNat DEF TInv, TypeOK
<1>2. tab[f].direct[0] \in Indices \cup {0}
  BY <1>1 DEF Inodes, Pointers
<1>3. /\ blocks' = Released(blocks, tab[f].direct[0])
      /\ disk' = Aged(disk, Named(Live \ {f}))
      /\ tab' = [tab EXCEPT ![f] = NewInode] /\ linked' = linked \ {f} /\ pos' = Nowhere
      /\ UNCHANGED <<phase, handles, reopen, wild, req>> /\ req = Idle /\ phase = "up"
  BY DEF Remove, Serving
<1>4. blocks' \in BlkGrps /\ HintsAreFree(blocks')
  BY <1>2, <1>3, ReleaseEffect DEF TInv, TypeOK
<1>5. disk' \in [Addresses -> Words]
  BY <1>3, AgedType DEF TInv, TypeOK
<1>6. tab' \in [Files -> Inodes] /\ \A g \in Files : CountsSectors(tab'[g])
  BY <1>3, NewInodeGood DEF TInv, TypeOK, GoodInodes
<1>. QED
  BY <1>3, <1>4, <1>5, <1>6 DEF TInv, TypeOK, ReqFits, DownIsEmpty

LEMMA TruncateType ==
  ASSUME TInv, NEW f \in Files, NEW size \in Sizes, Truncate(f, size)
  PROVE  TInv'
<1>1. CASE TruncateAborts(f, size)
  BY <1>1, EndType DEF TruncateAborts, Phases
<1>2. CASE TruncateDone(f, size)
  <2> DEFINE cut == Cut(tab[f], size)
             idxs == {Pointer(tab[f], i) : i \in cut}
             inode == SetSize(WithoutPointers(tab[f], cut), size)
  <2>1. tab \in [Files -> Inodes]
    BY DEF TInv, TypeOK
  <2>2. /\ blocks' = ReleasedAll(blocks, idxs)
        /\ tab' = [tab EXCEPT ![f] = inode]
        /\ disk' = Aged(disk, UNION {NamedBy(tab'[g]) : g \in Live})
        /\ reopen' = TRUE /\ pos' = Nowhere /\ UNCHANGED <<phase, linked, handles, wild, req>>
        /\ req = Idle /\ phase = "up"
    BY <1>2 DEF TruncateDone, Truncate, Serving
  <2>3. inode \in GoodInodes
    BY <2>1, WithoutPointersType, SetSizeGood
  <2> HIDE DEF cut, idxs, inode
  <2>4. blocks' \in BlkGrps /\ HintsAreFree(blocks')
    BY <2>2, ReleaseAllEffect DEF TInv, TypeOK
  <2>5. disk' \in [Addresses -> Words]
    BY <2>2, AgedType DEF TInv, TypeOK
  <2>6. tab' \in [Files -> Inodes] /\ \A g \in Files : CountsSectors(tab'[g])
    BY <2>1, <2>2, <2>3 DEF TInv, GoodInodes
  <2>. QED
    BY <2>2, <2>4, <2>5, <2>6 DEF TInv, TypeOK, ReqFits, DownIsEmpty
<1>. QED
  BY <1>1, <1>2 DEF Truncate

LEMMA LoseNameType ==
  ASSUME TInv, NEW f \in Files, LoseName(f)
  PROVE  TInv'
<1>1. /\ Serving /\ linked' = linked \ {f} /\ pos' = Nowhere
      /\ UNCHANGED <<phase, blocks, handles, reopen, wild, req>>
  BY DEF LoseName
<1>2. tab \in [Files -> Inodes] /\ \A g \in Files : CountsSectors(tab[g])
  BY TabType DEF GoodInodes
<1>3. disk \in [Addresses -> Words] /\ linked \in SUBSET Files /\ reopen \in BOOLEAN
  BY DEF TInv, TypeOK
<1>4. /\ tab' \in [Files -> Inodes] /\ \A g \in Files : CountsSectors(tab'[g])
      /\ disk' \in [Addresses -> Words]
  BY <1>2, <1>3, AgedType, NewInodeGood DEF LoseName, GoodInodes
<1>5. /\ handles' \in [Handles -> HandleType]
      /\ \A g \in Handles : CountsSectors(handles'[g].inode)
  BY <1>1, HandleTypes
<1>. QED
  BY <1>1, <1>3, <1>4, <1>5, HandleStepType

\* Reopening, if it succeeds.
LEMMA ReopenShape ==
  ASSUME TInv, NEW h \in Handles, Reopen(h)
  PROVE  /\ handles' \in [Handles -> HandleType]
         /\ \A g \in Handles : CountsSectors(handles'[g].inode)
         /\ handles'[h] \in [file : Files, inode : Inodes]
         /\ tab' \in [Files -> Inodes] /\ \A f \in Files : CountsSectors(tab'[f])
         /\ disk' \in [Addresses -> Words] /\ pos' \in Addresses \cup {Nowhere}
         /\ IsOpen(h)' /\ reopen' = FALSE
<1>1. /\ tab \in [Files -> Inodes] /\ \A f \in Files : tab[f] \in GoodInodes
      /\ disk \in [Addresses -> Words] /\ pos \in Addresses \cup {Nowhere}
      /\ linked \in SUBSET Files
  BY TabType DEF TInv, TypeOK
<1>2. IsOpen(h) /\ reopen' = FALSE
  BY DEF Reopen
<1>3. /\ handles' \in [Handles -> HandleType]
      /\ \A g \in Handles : CountsSectors(handles'[g].inode)
      /\ handles'[h] \in [file : Files, inode : Inodes]
      /\ tab' \in [Files -> Inodes] /\ \A f \in Files : CountsSectors(tab'[f])
      /\ disk' \in [Addresses -> Words] /\ pos' \in Addresses \cup {Nowhere}
  <2>1. CASE UNCHANGED <<tab, disk, pos, handles>>
    BY <1>1, <1>2, <2>1, HandleTypes DEF GoodInodes
  <2>2. ASSUME NEW f \in PathTo(h),
               handles' = [handles EXCEPT ![h] = [file |-> f, inode |-> Copy(h, f)]],
               LetGo(h), pos' = Nowhere
        PROVE  <1>3!1 /\ <1>3!2 /\ <1>3!3 /\ <1>3!4 /\ <1>3!5
    <3> DEFINE handle == [file |-> f, inode |-> Copy(h, f)]
    <3>1. f \in Files
      BY <1>1, <1>2 DEF PathTo, IsOpen
    <3>2. /\ handle \in HandleType /\ CountsSectors(handle.inode)
          /\ handle \in [file : Files, inode : Inodes]
      BY <1>1, <3>1 DEF Copy, GoodInodes, HandleType
    <3>3. handles'[h] = handle
      BY <2>2, HandleTypes
    <3> HIDE DEF handle
    <3>4. handles' = [handles EXCEPT ![h] = handle]
      BY <2>2 DEF handle
    <3>. QED
      BY <1>2, <2>2, <3>2, <3>3, <3>4, HandleSet, LetGoType
  <2>. QED
    BY <2>1, <2>2 DEF Reopen
<1>4. IsOpen(h)'
  BY <1>3 DEF IsOpen
<1>. QED
  BY <1>2, <1>3, <1>4

\* With what the request is then.
LEMMA ReopenType ==
  ASSUME TInv, NEW h \in Handles, Serving, Reopen(h),
         UNCHANGED <<phase, blocks, linked, wild>>,
         \/ req' = Idle
         \/ /\ req' \in ReqType /\ req'.h = h
            /\ req'.total <= req'.size /\ req'.off + req'.size <= MaxEnd
  PROVE  TInv'
<1>1. /\ handles' \in [Handles -> HandleType]
      /\ \A g \in Handles : CountsSectors(handles'[g].inode)
      /\ tab' \in [Files -> Inodes] /\ \A f \in Files : CountsSectors(tab'[f])
      /\ disk' \in [Addresses -> Words] /\ pos' \in Addresses \cup {Nowhere}
      /\ IsOpen(h)' /\ reopen' = FALSE
  BY ReopenShape
<1>2. req' \in ReqType \cup {Idle} /\ ReqFits'
  BY <1>1 DEF ReqFits, IsOpen, ReqType
<1>3. phase' = "up"
  BY DEF Serving
<1>4. TypeOK'
  BY <1>1, <1>2 DEF TInv, TypeOK, ReqType, HandleType
<1>. QED
  BY <1>1, <1>2, <1>3, <1>4 DEF TInv, DownIsEmpty

LEMMA OnHandleType ==
  ASSUME TInv, NEW h \in Handles,
         \/ Fgetattr(h)
         \/ \E off \in Offs, size \in Lens :
              WriteBegin(h, off, size) \/ ReadBegin(h, off, size)
  PROVE  TInv'
<1>1. CASE Fgetattr(h)
  BY <1>1, ReopenType DEF Fgetattr, Serving
<1>2. ASSUME NEW off \in Offs, NEW size \in Lens,
             WriteBegin(h, off, size) \/ ReadBegin(h, off, size)
      PROVE  TInv'
  <2>1. /\ off \in Nat /\ size \in Nat /\ off + size <= MaxEnd
        /\ off \in Sizes /\ size \in Sizes /\ 0 \in Sizes
    BY SizesAssumption, SizesAreNat DEF Sizes
  <2>2. /\ Serving /\ Reopen(h) /\ UNCHANGED <<phase, blocks, linked, wild>>
        /\ \E op \in {"read", "write"}, n \in {size, Min({size, handles'[h].inode.size})} :
             req' = Request(op, h, off, n)
    BY <1>2 DEF WriteBegin, ReadBegin
  <2>3. handles'[h].inode.size \in Nat
    <3>1. handles'[h] \in [file : Files, inode : Inodes]
      BY <2>2, ReopenShape
    <3>. QED
      BY <3>1, SizesAreNat DEF Inodes, Sizes
  <2>4. /\ Min({size, handles'[h].inode.size}) \in Nat
        /\ Min({size, handles'[h].inode.size}) <= size
    BY <2>1, <2>3, LeastNatural
  <2>5. PICK op \in {"read", "write"}, n \in Nat :
          n <= size /\ req' = Request(op, h, off, n)
    BY <2>1, <2>2, <2>4
  <2>6. n \in Sizes /\ off + n <= MaxEnd
    BY <2>1, <2>5, SizesAreNat DEF Sizes
  <2>7. Blank \in [Sizes -> Words] /\ Unset \in Pointers \cup {Unset}
    BY DEF Blank, Words
  <2>8. /\ req' \in ReqType /\ req'.h = h
        /\ req'.total <= req'.size /\ req'.off + req'.size <= MaxEnd
    BY <2>1, <2>5, <2>6, <2>7 DEF ReqType, Request
  <2>. QED
    BY <2>2, <2>8, ReopenType
<1>. QED
  BY <1>1, <1>2

\* A round that has done a chunk, to a block that was computed.
LEMMA RoundReq ==
  ASSUME TInv, Writing \/ Reading, NEW blk \in Pointers \cup {Unset},
         NEW buf \in [Sizes -> Words],
         req' = [req EXCEPT !.total = @ + Chunk, !.blk = blk, !.buf = buf]
  PROVE  /\ req' \in ReqType /\ req'.op = req.op /\ req'.h = req.h
         /\ req'.off = req.off /\ req'.size = req.size
         /\ req'.total = req.total + Chunk /\ req'.total <= req'.size
         /\ req'.off + req'.size <= MaxEnd
         /\ req'.buf = buf /\ req'.blk = blk
<1>1. /\ req # Idle /\ Chunk \in Nat /\ Chunk <= req.size - req.total
  BY ChunkFits
<1>2. /\ req \in ReqType /\ req.size \in Nat /\ req.total \in Nat
      /\ req.off + req.size <= MaxEnd
  BY <1>1, RequestType
<1>3. req.total + Chunk \in Sizes /\ req.total + Chunk <= req.size
  BY <1>1, <1>2, SizesAreNat DEF ReqType, Sizes
<1>. QED
  BY <1>2, <1>3 DEF ReqType

LEMMA SavedReq ==
  ASSUME TInv, Writing, NEW blk \in Pointers \cup {Unset},
         req' = [req EXCEPT !.total = @ + Chunk, !.blk = blk]
  PROVE  /\ req' \in ReqType /\ req'.op = req.op /\ req'.h = req.h
         /\ req'.off = req.off /\ req'.size = req.size
         /\ req'.total = req.total + Chunk /\ req'.total <= req'.size
         /\ req'.off + req'.size <= MaxEnd
         /\ req'.buf = req.buf /\ req'.blk = blk
<1>1. req \in ReqType
  BY ChunkFits, RequestType
<1>2. req' = [req EXCEPT !.total = @ + Chunk, !.blk = blk, !.buf = req.buf]
  BY <1>1 DEF ReqType
<1>3. req.buf \in [Sizes -> Words]
  BY <1>1 DEF ReqType
<1>. QED
  BY <1>2, <1>3, RoundReq

\* A chunk is saved in a block and the request goes on.
LEMMA SaveChunkType ==
  ASSUME TInv, Writing, NEW dev \in [Addresses -> Words], NEW blk \in Indices,
         SaveChunk(dev, blk)
  PROVE  /\ disk' \in [Addresses -> Words] /\ pos' \in Addresses \cup {Nowhere}
         /\ req' \in ReqType /\ req'.op = "write" /\ req'.h = req.h
         /\ req'.off = req.off /\ req'.size = req.size
         /\ req'.total = req.total + Chunk /\ req'.total <= req'.size
         /\ req'.off + req'.size <= MaxEnd
         /\ UNCHANGED <<phase, linked, tab, reopen, wild>>
         /\ req'.buf = req.buf
<1>1. /\ req # Idle /\ Offset \in Nat /\ Chunk \in Nat
      /\ Offset % BlkWords \in 0 .. BlkWords - 1
      /\ Offset + Chunk <= req.off + req.size
  BY ChunkFits
<1>2. /\ req.off \in Nat /\ req.size \in Nat /\ req.off + req.size <= MaxEnd /\ File \in Files
  BY <1>1, RequestType
<1>3. disk' \in [Addresses -> Words]
  <2>1. Offset + Chunk <= MaxEnd
    BY <1>1, <1>2, SizesAreNat
  <2>2. Addr(blk, Offset % BlkWords) \in Int
    BY <1>1, AddrEffect, IndicesAreNat, SizesAreNat, SMT DEF Addresses
  <2>3. Saved(dev, Addr(blk, Offset % BlkWords), File, Offset, Chunk) \in [Addresses -> Words]
    BY <1>1, <1>2, <2>1, <2>2, SavedType
  <2>. QED
    BY <2>3, BlurredType DEF SaveChunk
<1>4. pos' \in Addresses \cup {Nowhere}
  BY <1>1, AfterType DEF SaveChunk
<1>5. req' = [req EXCEPT !.total = @ + Chunk, !.blk = blk]
  BY DEF SaveChunk
<1>6. /\ req' \in ReqType /\ req'.op = req.op /\ req'.h = req.h
      /\ req'.off = req.off /\ req'.size = req.size
      /\ req'.total = req.total + Chunk /\ req'.total <= req'.size
      /\ req'.off + req'.size <= MaxEnd /\ req'.buf = req.buf
  BY <1>5, SavedReq DEF Pointers
<1>7. req.op = "write"
  BY DEF Writing
<1>. QED
  BY <1>3, <1>4, <1>6, <1>7 DEF SaveChunk

LEMMA SaveAstrayType ==
  ASSUME TInv, Writing, NEW dev, NEW blk \in Pointers, NEW at, SaveAstray(dev, blk, at)
  PROVE  /\ disk' \in [Addresses -> Words] /\ pos' \in Addresses \cup {Nowhere}
         /\ req' \in ReqType /\ req'.op = "write" /\ req'.h = req.h
         /\ req'.total <= req'.size /\ req'.off + req'.size <= MaxEnd
         /\ UNCHANGED <<phase, linked, tab, reopen>> /\ wild' = TRUE
<1>1. disk' \in [Addresses -> Words]
  BY BlurredType DEF SaveAstray
<1>2. pos' \in Addresses \cup {Nowhere}
  BY ChunkFits, AfterType DEF SaveAstray
<1>3. /\ req' \in ReqType /\ req'.op = "write" /\ req'.h = req.h
      /\ req'.total <= req'.size /\ req'.off + req'.size <= MaxEnd
  BY SavedReq DEF SaveAstray, Writing
<1>. QED
  BY <1>1, <1>2, <1>3 DEF SaveAstray

\* A round leaves these as they are, or changes them to their types.
LEMMA RoundType ==
  ASSUME TInv, req # Idle,
         UNCHANGED <<phase, linked, tab, reopen>>, wild' \in BOOLEAN,
         blocks' \in BlkGrps, HintsAreFree(blocks'),
         disk' \in [Addresses -> Words], pos' \in Addresses \cup {Nowhere},
         \/ handles' = handles
         \/ \E inode \in GoodInodes : handles' = [handles EXCEPT ![req.h].inode = inode],
         \/ req' = Idle
         \/ /\ req' \in ReqType /\ req'.h = req.h
            /\ req'.total <= req'.size /\ req'.off + req'.size <= MaxEnd
  PROVE  TInv'
<1>1. handles[req.h] \in [file : Files, inode : Inodes] /\ req.h \in Handles
  BY RequestType
<1>2. /\ handles' \in [Handles -> HandleType]
      /\ \A g \in Handles : CountsSectors(handles'[g].inode)
      /\ handles'[req.h] \in [file : Files, inode : Inodes]
  <2>1. CASE handles' = handles
    BY <1>1, <2>1, HandleTypes
  <2>2. ASSUME NEW inode \in GoodInodes, handles' = [handles EXCEPT ![req.h].inode = inode]
        PROVE  <1>2!1 /\ <1>2!2 /\ <1>2!3
    <3> DEFINE handle == [handles[req.h] EXCEPT !.inode = inode]
    <3>1. handles' = [handles EXCEPT ![req.h] = handle]
      BY <2>2
    <3>2. /\ handle \in [file : Files, inode : Inodes] /\ handle \in HandleType
          /\ handle.inode = inode
      BY <1>1 DEF GoodInodes, HandleType
    <3>3. CountsSectors(handle.inode)
      BY <3>2 DEF GoodInodes
    <3> HIDE DEF handle
    <3>4. handles'[req.h] = handle
      BY <1>1, <3>1, HandleTypes
    <3>. QED
      BY <1>1, <3>1, <3>2, <3>3, <3>4, HandleSet
  <2>. QED
    BY <2>1, <2>2
<1>3. handles'[req.h].file \in Files
  BY <1>2
<1>4. req' \in ReqType \cup {Idle} /\ ReqFits'
  <2>1. CASE req' = Idle
    BY <2>1 DEF ReqFits
  <2>2. CASE req' # Idle
    <3>1. req' \in ReqType /\ handles'[req'.h].file \in Files
          /\ req'.total <= req'.size /\ req'.off + req'.size <= MaxEnd
      BY <1>3, <2>2 DEF IsOpen
    <3>. QED
      BY <3>1 DEF ReqFits, IsOpen, ReqType
  <2>. QED
    BY <2>1, <2>2
<1>5. TypeOK'
  BY <1>2, <1>4 DEF TInv, TypeOK, ReqType, HandleType
<1>6. phase' = "up"
  BY DEF TInv, DownIsEmpty
<1>. QED
  BY <1>2, <1>4, <1>5, <1>6 DEF TInv, DownIsEmpty

LEMMA AllocType ==
  ASSUME TInv, HasRoom(blocks)
  PROVE  /\ AllocIdx(blocks) \in Indices \ Used(blocks)
         /\ Allocated(blocks) \in BlkGrps /\ HintsAreFree(Allocated(blocks))
         /\ Used(Allocated(blocks)) = Used(blocks) \cup {AllocIdx(blocks)}
         /\ HasRoom(Allocated(blocks)) =>
              /\ AllocIdx(Allocated(blocks)) \in Indices \ Used(Allocated(blocks))
              /\ Allocated(Allocated(blocks)) \in BlkGrps
              /\ HintsAreFree(Allocated(Allocated(blocks)))
              /\ Used(Allocated(Allocated(blocks))) =
                   Used(Allocated(blocks)) \cup {AllocIdx(Allocated(blocks))}
<1>1. blocks \in BlkGrps /\ HintsAreFree(blocks)
  BY DEF TInv, TypeOK
<1>2. /\ AllocIdx(blocks) \in Indices \ Used(blocks)
      /\ Allocated(blocks) \in BlkGrps /\ HintsAreFree(Allocated(blocks))
      /\ Used(Allocated(blocks)) = Used(blocks) \cup {AllocIdx(blocks)}
  BY <1>1, AllocEffect
<1> DEFINE grps == Allocated(blocks)
<1> HIDE DEF grps
<1>3. grps \in BlkGrps /\ HintsAreFree(grps)
  BY <1>2 DEF grps
<1>4. HasRoom(grps) =>
        /\ AllocIdx(grps) \in Indices \ Used(grps)
        /\ Allocated(grps) \in BlkGrps /\ HintsAreFree(Allocated(grps))
        /\ Used(Allocated(grps)) = Used(grps) \cup {AllocIdx(grps)}
  BY <1>3, AllocEffect
<1>. QED
  BY <1>2, <1>4 DEF grps

LEMMA WriteType ==
  ASSUME TInv, WriteStep
  PROVE  TInv'
<1>1. req.op = "write" /\ req # Idle
  BY DEF WriteStep, WriteFound, WriteStrays, WriteBeyond, WriteNoMemory, WriteDirect,
         WriteIndirect, WriteNewIndirect, WriteStarved, WriteFaults, WriteEnd, Missing,
         Writing, Idle
<1>2. /\ req.h \in Handles /\ req.off \in Nat /\ req.size \in Nat /\ req.total \in Nat
      /\ req.total <= req.size /\ req.off + req.size <= MaxEnd
      /\ File \in Files /\ Inode \in GoodInodes
      /\ handles[req.h] \in [file : Files, inode : Inodes]
  BY <1>1, RequestType
<1>3. /\ blocks \in BlkGrps /\ HintsAreFree(blocks) /\ disk \in [Addresses -> Words]
  BY DEF TInv, TypeOK
<1>4. wild \in BOOLEAN
  BY DEF TInv, TypeOK
<1>5. CASE WriteFound
  <2>1. Found \in Indices /\ SaveChunk(disk, Found) /\ UNCHANGED <<blocks, handles>>
        /\ Writing
    BY <1>5 DEF WriteFound, IsStray
  <2>. QED
    BY <1>1, <1>3, <2>1, SaveChunkType, RoundType DEF TInv, TypeOK
<1>6. ASSUME NEW blk \in Pointers, NEW at, Writing, Stray(blk, at)
      PROVE  TInv'
  <2>1. CASE SaveAstray(disk, blk, at) /\ UNCHANGED <<blocks, handles>>
    BY <1>1, <1>3, <1>6, <2>1, SaveAstrayType, RoundType
  <2>2. CASE GiveUp("lost_write")
    BY <2>2, EndType DEF Phases, Lost
  <2>. QED
    BY <1>6, <2>1, <2>2 DEF Stray
<1>7. CASE WriteStrays \/ WriteBeyond
  <2>1. TakenFor(Found) \subseteq Pointers
    BY DEF TakenFor, Pointers
  <2>2. Writing /\ (req.blk = Unset \/ req.blk \in Pointers)
    BY <1>1, <1>7, RequestType DEF WriteStrays, WriteBeyond, ReqType
  <2>3. CASE WriteStrays
    BY <1>6, <2>1, <2>2, <2>3 DEF WriteStrays
  <2>4. CASE WriteBeyond
    BY <1>6, <2>2, <2>4 DEF WriteBeyond
  <2>. QED
    BY <1>7, <2>3, <2>4
<1>8. CASE WriteNoMemory
  <2>1. /\ req' = [req EXCEPT !.size = req.total] /\ pos' = PosAfterFind(Inode, Num)
        /\ UNCHANGED <<phase, blocks, linked, tab, disk, handles, reopen, wild>>
        /\ Writing /\ ~Beyond
    BY <1>8 DEF WriteNoMemory, Missing
  <2>2. pos' \in Addresses \cup {Nowhere}
    BY <2>1, FindType
  <2>3. req \in ReqType
    BY <1>1, RequestType
  <2>4. req' \in ReqType /\ req'.h = req.h /\ req'.total <= req'.size
        /\ req'.off + req'.size <= MaxEnd
    BY <1>2, <2>1, <2>3, SizesAreNat DEF ReqType
  <2>. QED
    BY <1>1, <1>3, <2>1, <2>2, <2>4, RoundType DEF TInv, TypeOK
<1>9. CASE WriteDirect
  <2> DEFINE blk == AllocIdx(blocks)
  <2>1. /\ Writing /\ ~Beyond /\ HasRoom(blocks) /\ Num < Direct
        /\ handles' = [handles EXCEPT ![req.h].inode.direct[Num] = blk]
        /\ SaveChunk(disk, blk) /\ blocks' = Allocated(blocks)
    BY <1>9 DEF WriteDirect, Missing
  <2>2. blk \in Indices /\ blocks' \in BlkGrps /\ HintsAreFree(blocks')
    BY <2>1, AllocType
  <2> HIDE DEF blk
  <2>3. Num \in 0 .. Direct - 1
    BY <2>1, FindType
  <2>4. handles' = [handles EXCEPT ![req.h].inode = [Inode EXCEPT !.direct[Num] = blk]]
    BY <2>1 DEF Inode
  <2>5. [Inode EXCEPT !.direct[Num] = blk] \in GoodInodes
    BY <1>2, <2>2, <2>3, PointerGood
  <2>. QED
    BY <1>1, <1>3, <1>4, <2>1, <2>2, <2>4, <2>5, SaveChunkType, RoundType
<1>10. CASE WriteIndirect
  <2> DEFINE blk == AllocIdx(blocks)
             dev == [disk EXCEPT ![Addr(Inode.indirect, Num - Direct)] = blk]
  <2>1. /\ Writing /\ HasRoom(blocks) /\ SaveChunk(dev, blk)
        /\ blocks' = Allocated(blocks) /\ handles' = handles
    BY <1>10 DEF WriteIndirect, Missing
  <2>2. blk \in Indices /\ blocks' \in BlkGrps /\ HintsAreFree(blocks')
    BY <2>1, AllocType
  <2>3. dev \in [Addresses -> Words]
    BY <1>3, <2>2, PutType
  <2> HIDE DEF blk, dev
  <2>. QED
    BY <1>1, <1>4, <2>1, <2>2, <2>3, SaveChunkType, RoundType
<1>11. CASE WriteNewIndirect
  <2> DEFINE indirect == AllocIdx(blocks)
             blk      == AllocIdx(Allocated(blocks))
             clear    == Cleared(disk, indirect)
             dev == [clear EXCEPT ![Addr(indirect, Num - Direct)] = blk]
  <2>1. /\ Writing /\ HasRoom(blocks) /\ HasRoom(Allocated(blocks))
        /\ SaveChunk(dev, blk)
        /\ blocks' = Allocated(Allocated(blocks))
        /\ handles' = [handles EXCEPT ![req.h].inode.indirect = indirect]
    BY <1>11 DEF WriteNewIndirect, Missing
  <2>2. /\ indirect \in Indices /\ blk \in Indices
        /\ blocks' \in BlkGrps /\ HintsAreFree(blocks')
    BY <2>1, AllocType
  <2>3. dev \in [Addresses -> Words]
    <3>1. clear \in [Addresses -> Words]
      BY <1>3, ClearedType
    <3> HIDE DEF clear
    <3>. QED
      BY <2>2, <3>1, PutType
  <2> HIDE DEF indirect, blk, clear, dev
  <2>4. handles' = [handles EXCEPT ![req.h].inode = [Inode EXCEPT !.indirect = indirect]]
    BY <2>1 DEF Inode
  <2>5. [Inode EXCEPT !.indirect = indirect] \in GoodInodes
    BY <1>2, <2>2, PointerGood
  <2>. QED
    BY <1>1, <1>4, <2>1, <2>2, <2>3, <2>4, <2>5, SaveChunkType, RoundType
<1>12. CASE WriteFaults
  BY <1>12, EndType DEF WriteFaults, Phases
<1>13. CASE WriteStarved
  <2> DEFINE indirect == AllocIdx(blocks)
             behind   == After(Addr(indirect, Num - Direct), 1)
  <2>1. CASE /\ Writing /\ HasRoom(blocks) /\ SaveAstray(Cleared(disk, indirect), 0, behind)
             /\ handles' = [handles EXCEPT ![req.h].inode.indirect = indirect]
             /\ blocks' = Allocated(blocks)
    <3>1. indirect \in Indices /\ blocks' \in BlkGrps /\ HintsAreFree(blocks')
      BY <2>1, AllocType
    <3> HIDE DEF indirect, behind
    <3>2. handles' = [handles EXCEPT ![req.h].inode = [Inode EXCEPT !.indirect = indirect]]
      BY <2>1 DEF Inode
    <3>3. [Inode EXCEPT !.indirect = indirect] \in GoodInodes
      BY <1>2, <3>1, PointerGood
    <3>4. 0 \in Pointers
      BY DEF Pointers
    <3>. QED
      BY <1>1, <2>1, <3>1, <3>2, <3>3, <3>4, SaveAstrayType, RoundType
  <2>2. CASE GiveUp("lost_write")
    BY <2>2, EndType DEF Phases, Lost
  <2>. QED
    BY <1>13, <2>1, <2>2 DEF WriteStarved, Missing
<1>14. CASE WriteEnd
  <2> DEFINE size  == IF Inode.size > req.off THEN req.total ELSE req.total + Inode.size
             inode == SetSize(Inode, size)
  <2>1. /\ handles' = [handles EXCEPT ![req.h].inode = inode]
        /\ tab' = [tab EXCEPT ![File] = inode] /\ pos' = Nowhere /\ req' = Idle
        /\ UNCHANGED <<phase, blocks, linked, disk, reopen, wild>>
        /\ req.total = req.size
    BY <1>14 DEF WriteEnd
  <2>2. size \in Sizes
    <3>1. Inode.size \in Nat
      BY <1>2, SizesAreNat DEF GoodInodes, Inodes, Sizes
    <3>. QED
      BY <1>2, <2>1, <3>1, SizesAreNat DEF Sizes
  <2>3. inode \in GoodInodes
    BY <1>2, <2>2, SetSizeGood DEF GoodInodes
  <2> HIDE DEF size, inode
  <2> DEFINE handle == [handles[req.h] EXCEPT !.inode = inode]
  <2>4. handles' = [handles EXCEPT ![req.h] = handle]
    BY <2>1
  <2>5. handle \in HandleType /\ CountsSectors(handle.inode)
    BY <1>2, <2>3 DEF GoodInodes, HandleType
  <2> HIDE DEF handle
  <2>6. /\ handles' \in [Handles -> HandleType]
        /\ \A g \in Handles : CountsSectors(handles'[g].inode)
    BY <1>2, <2>4, <2>5, HandleSet
  <2>7. tab' \in [Files -> Inodes] /\ \A g \in Files : CountsSectors(tab'[g])
    BY <2>1, <2>3 DEF TInv, TypeOK, GoodInodes
  <2>. QED
    BY <1>1, <2>1, <2>6, <2>7 DEF TInv, TypeOK, ReqFits, DownIsEmpty, HandleType
<1>. QED
  BY <1>5, <1>7, <1>8, <1>9, <1>10, <1>11, <1>12, <1>14, <1>13 DEF WriteStep

LEMMA FilledType ==
  ASSUME TInv, Reading, NEW at
  PROVE  Filled(at) \in [Sizes -> Words]
<1>1. req.buf \in [Sizes -> Words] /\ Chunk \in Nat /\ req.total \in Nat
  BY ChunkFits, RequestType DEF ReqType
<1>2. disk \in [Addresses -> Words] /\ Any \in Words
  BY DEF TInv, TypeOK, Words
<1>3. ASSUME NEW i \in Sizes, i - req.total \in 0 .. Chunk - 1, Within(at, Chunk)
      PROVE  at + i - req.total \in Addresses
  <2>1. at \in Addresses /\ at \in Nat /\ i \in Nat
    BY <1>3, IndicesAreNat, SizesAreNat, SMT DEF Within, Addresses, Sizes
  <2> DEFINE n == i - req.total
  <2>2. n \in Nat /\ n + 1 <= Chunk /\ at + i - req.total = at + n
    BY <1>1, <1>3, <2>1
  <2> HIDE DEF n
  <2>3. Within(at, n + 1)
    <3>1. at % (BlkInodeNum * BlkWords) \in Nat /\ BlkInodeNum * BlkWords \in Nat
      <4>1. BlkInodeNum * BlkWords \in Nat /\ BlkInodeNum * BlkWords > 0
        BY SizesAreNat, SMT
      <4>. QED
        BY <2>1, <4>1, Division
    <3>. QED
      BY <1>1, <1>3, <2>2, <3>1 DEF Within
  <2>. QED
    BY <2>1, <2>2, <2>3, WithinGroup
<1>4. ASSUME NEW i \in Sizes
      PROVE  Filled(at)[i] \in Words
  BY <1>1, <1>2, <1>3 DEF Filled
<1>. QED
  BY <1>4 DEF Filled

LEMMA ReadType ==
  ASSUME TInv, ReadStep
  PROVE  TInv'
<1>1. req.op = "read" /\ req # Idle
  <2>1. req.op = "read"
    <3>1. CASE ReadChunk
      BY <3>1 DEF ReadChunk, Reading
    <3>2. CASE ReadFails \/ ReadEnd
      BY <3>2 DEF ReadFails, ReadEnd, Reading
    <3>. QED
      BY <3>1, <3>2 DEF ReadStep
  <2>2. Idle.op = "none"
    BY DEF Idle
  <2>. QED
    BY <2>1, <2>2
<1>2. /\ req.h \in Handles /\ req.off \in Nat /\ req.size \in Nat /\ req.total \in Nat
      /\ req.total <= req.size /\ req.off + req.size <= MaxEnd
  BY <1>1, RequestType
<1>3. /\ blocks \in BlkGrps /\ HintsAreFree(blocks) /\ disk \in [Addresses -> Words]
      /\ pos \in Addresses \cup {Nowhere} /\ wild \in BOOLEAN
  BY DEF TInv, TypeOK
<1>4. CASE ReadChunk
  <2>1. /\ Reading /\ ~Beyond
        /\ UNCHANGED <<phase, blocks, linked, tab, disk, handles, reopen, wild>>
    BY <1>4 DEF ReadChunk
  <2>2. PICK at :
          /\ req' = [req EXCEPT !.total = @ + Chunk, !.buf = Filled(at)]
          /\ pos' = After(at, Chunk)
    BY <1>4 DEF ReadChunk
  <2>3. /\ Chunk \in Nat
        /\ req \in ReqType
    BY <1>1, <2>1, ChunkFits, RequestType
  <2>4. pos' \in Addresses \cup {Nowhere}
    BY <2>2, <2>3, AfterType
  <2>5. Filled(at) \in [Sizes -> Words]
    BY <2>1, <2>3, FilledType
  <2>6. req' \in ReqType /\ req'.h = req.h /\ req'.total <= req'.size
        /\ req'.off + req'.size <= MaxEnd
    <3>1. req.blk \in Pointers \cup {Unset}
          /\ req' = [req EXCEPT !.total = @ + Chunk, !.blk = req.blk, !.buf = Filled(at)]
      BY <2>2, <2>3 DEF ReqType
    <3>. QED
      BY <2>1, <2>5, <3>1, RoundReq
  <2>. QED
    BY <1>1, <1>3, <2>1, <2>4, <2>6, RoundType
<1>5. CASE ReadFails
  <2>1. pos' \in Addresses \cup {Nowhere}
    BY <1>3, <1>5, FindType DEF ReadFails
  <2>. QED
    BY <1>1, <1>3, <1>5, <2>1, RoundType DEF ReadFails
<1>6. CASE ReadEnd
  BY <1>1, <1>3, <1>6, RoundType DEF ReadEnd
<1>. QED
  BY <1>4, <1>5, <1>6 DEF ReadStep

LEMMA InitType == Init => TInv
<1> SUFFICES ASSUME Init PROVE TInv
  OBVIOUS
<1>1. NewInode \in Inodes /\ CountsSectors(NewInode) /\ Closed.inode = NewInode
  BY NewInodeGood DEF GoodInodes, Closed
<1>2. FreshDisk \in [Addresses -> Words]
  BY FreshDiskType
<1>3. TypeOK
  BY <1>1, <1>2, FreshBlocksType DEF Init, TypeOK
<1>. QED
  BY <1>1, <1>3, FreshBlocksType DEF Init, TInv, ReqFits, DownIsEmpty

LEMMA NextType == TInv /\ [Next]_vars => TInv'
<1> SUFFICES ASSUME TInv, [Next]_vars PROVE TInv'
  OBVIOUS
<1>1. CASE Restart
  BY <1>1, EndType DEF Phases
<1>2. CASE LookUp \/ UNCHANGED vars
  <2>1. /\ UNCHANGED <<phase, blocks, linked, tab, disk, handles, reopen, wild, req>>
        /\ pos' \in {pos, Nowhere}
    BY <1>2 DEF LookUp, vars
  <2>. QED
    BY <2>1 DEF TInv, TypeOK, ReqFits, IsOpen, DownIsEmpty
<1>3. ASSUME NEW h \in Handles,
             Release(h) \/ \E f \in Files : Create(h, f) \/ Open(h, f)
      PROVE  TInv'
  BY <1>3, OpenCloseType
<1>4. ASSUME NEW h \in Handles,
             \/ Fgetattr(h)
             \/ \E off \in Offs, size \in Lens :
                  WriteBegin(h, off, size) \/ ReadBegin(h, off, size)
      PROVE  TInv'
  BY <1>4, OnHandleType
<1>5. ASSUME NEW f \in Files, Remove(f) \/ LoseName(f)
      PROVE  TInv'
  BY <1>5, RemoveType, LoseNameType
<1>6. ASSUME NEW f \in Files, NEW size \in Sizes, Truncate(f, size)
      PROVE  TInv'
  BY <1>6, TruncateType
<1>7. ASSUME NEW h \in Handles, ReleaseHidden(h) \/ UseFreed(h)
      PROVE  TInv'
  BY <1>7, EndType DEF ReleaseHidden, UseFreed, Phases, Lost
<1>8. ASSUME NEW h \in Handles, ReopenFails(h)
      PROVE  TInv'
  BY <1>8, ReopenFailsType
<1>. QED
  BY <1>1, <1>2, <1>3, <1>4, <1>5, <1>6, <1>7, <1>8, WriteType, ReadType DEF Next

\* The inductive invariant that the other proofs about file contents rest on.
LEMMA TypeInvariant == Spec => []TInv
BY InitType, NextType, PTL DEF Spec

(* Block pointers, words on the device, the position of the descriptor and *)
(* the bounds of requests keep to their types, whatever handles are open   *)
(* and wherever a request lies.                                            *)
THEOREM TypeCorrect == Spec => []TypeOK
<1>1. TInv => TypeOK
  BY DEF TInv
<1>. QED
  BY <1>1, TypeInvariant, PTL

-----------------------------------------------------------------------------
(* One handle                                                              *)

OneHandle == \A g, h \in Handles : g = h

\* The handle's copy of the inode is what the device has.
InStep(h) == handles[h].inode = tab[handles[h].file]

\* A request in progress has reopened its handle if need be.
ReopenedFirst == req # Idle => ~reopen

\* Unless a write is changing it, a copy that will be used as it is is true.
CopiesAreTrue ==
  req.op # "write" /\ ~reopen => \A h \in Handles : IsOpen(h) => InStep(h)

CopyInv == ReopenedFirst /\ CopiesAreTrue

\* What is done to a handle is done to all there are.
LEMMA SoleHandle ==
  ASSUME OneHandle, TInv, NEW h \in Handles, NEW handle,
         handles' = [handles EXCEPT ![h] = handle]
  PROVE  \A g \in Handles : handles'[g] = handle
BY HandleTypes DEF OneHandle

LEMMA NothingOpenNext ==
  ASSUME MemoryLost
  PROVE  CopyInv'
BY OpenMeans DEF MemoryLost, CopyInv, ReopenedFirst, CopiesAreTrue, IsOpen, Idle

LEMMA CopiesKept ==
  ASSUME CopyInv, UNCHANGED <<handles, tab, reopen, req>>
  PROVE  CopyInv'
BY DEF CopyInv, ReopenedFirst, CopiesAreTrue, IsOpen, InStep

\* The handle is opened, or closed, or left without memory.
LEMMA HandleKeepsCopies ==
  ASSUME OneHandle, TInv, NEW h \in Handles,
         \/ Release(h) \/ ReopenFails(h)
         \/ \E f \in Files : Create(h, f) \/ Open(h, f)
  PROVE  CopyInv'
<1>1. tab \in [Files -> Inodes]
  BY TabType
<1>2. CASE Release(h) \/ ReopenFails(h)
  <2>1. /\ \A g \in Handles : handles'[g] \in {Closed, Freed}
        /\ req' = Idle
    BY <1>2, SoleHandle DEF Release, ReopenFails, Serving
  <2>2. \A g \in Handles : ~IsOpen(g)'
    BY <2>1, OpenMeans DEF IsOpen
  <2>. QED
    BY <2>1, <2>2 DEF CopyInv, ReopenedFirst, CopiesAreTrue
<1>3. ASSUME NEW f \in Files, Create(h, f) \/ Open(h, f)
      PROVE  CopyInv'
  <2>1. /\ handles' = [handles EXCEPT ![h] = [file |-> f, inode |-> tab'[f]]]
        /\ req' = Idle
    BY <1>1, <1>3 DEF Create, Open, Serving
  <2>2. \A g \in Handles : handles'[g] = [file |-> f, inode |-> tab'[f]]
    BY <2>1, SoleHandle
  <2>. QED
    BY <2>1, <2>2 DEF CopyInv, ReopenedFirst, CopiesAreTrue, InStep
<1>. QED
  BY <1>2, <1>3

(* What is done by path is done to files that have no handle, or raises    *)
(* REOPEN.                                                                 *)
LEMMA ByPathKeepsCopies ==
  ASSUME TInv, CopyInv, NEW f \in Files,
         Remove(f) \/ LoseName(f) \/ \E size \in Sizes : Truncate(f, size)
  PROVE  CopyInv'
<1>1. tab \in [Files -> Inodes]
  BY TabType
<1>2. CASE Remove(f) \/ LoseName(f)
  <2>1. /\ UNCHANGED <<handles, reopen, req>>
        /\ \/ tab' = tab
           \/ /\ tab' = [tab EXCEPT ![f] = NewInode]
              /\ \A h \in Handles : handles[h].file # f
    BY <1>2 DEF Remove, LoseName
  <2>2. \A h \in Handles : IsOpen(h) => tab'[handles[h].file] = tab[handles[h].file]
    BY <1>1, <2>1 DEF IsOpen
  <2>. QED
    BY <2>1, <2>2 DEF CopyInv, ReopenedFirst, CopiesAreTrue, InStep, IsOpen
<1>3. ASSUME NEW size \in Sizes, Truncate(f, size)
      PROVE  CopyInv'
  <2>1. MemoryLost \/ (reopen' = TRUE /\ req' = Idle)
    BY <1>3 DEF Truncate, TruncateAborts, TruncateDone, Serving, End
  <2>. QED
    BY <2>1, NothingOpenNext DEF CopyInv, ReopenedFirst, CopiesAreTrue
<1>. QED
  BY <1>2, <1>3

\* chisai_fuse_reopen, if it succeeds: whatever REOPEN says, the copy is true.
LEMMA ReopenBringsInStep ==
  ASSUME OneHandle, TInv, CopyInv, Serving, NEW h \in Handles, Reopen(h)
  PROVE  ~reopen' /\ \A g \in Handles : IsOpen(g)' => InStep(g)'
<1>1. /\ tab \in [Files -> Inodes] /\ linked \in SUBSET Files
  BY TabType DEF TInv, TypeOK
<1>2. ~reopen' /\ handles[h].file \in Files
  BY DEF Reopen, IsOpen
<1>3. CASE ~reopen /\ UNCHANGED <<tab, disk, pos, handles>>
  BY <1>2, <1>3 DEF CopyInv, CopiesAreTrue, Serving, Idle, IsOpen, InStep
<1>4. ASSUME NEW f \in PathTo(h), LetGo(h),
             handles' = [handles EXCEPT ![h] = [file |-> f, inode |-> Copy(h, f)]]
      PROVE  \A g \in Handles : InStep(g)'
  <2>1. tab'[f] = tab[f]
    <3>1. f \in Files /\ f \in linked
      BY <1>1, <1>2 DEF PathTo
    <3>2. LastOf(h) => handles[h].file \notin linked
      BY DEF LastOf
    <3>3. tab' = tab \/ (LastOf(h) /\ tab' = [tab EXCEPT ![handles[h].file] = NewInode])
      BY <1>4 DEF LetGo
    <3>. QED
      BY <1>1, <3>1, <3>2, <3>3
  <2>2. \A g \in Handles : handles'[g] = [file |-> f, inode |-> tab[f]]
    BY <1>4, SoleHandle DEF Copy
  <2>. QED
    BY <2>1, <2>2 DEF InStep
<1>. QED
  BY <1>2, <1>3, <1>4 DEF Reopen

LEMMA OnHandleKeepsCopies ==
  ASSUME OneHandle, TInv, CopyInv, NEW h \in Handles,
         \/ Fgetattr(h)
         \/ \E off \in Offs, size \in Lens :
              WriteBegin(h, off, size) \/ ReadBegin(h, off, size)
  PROVE  CopyInv'
<1>1. Serving /\ Reopen(h)
  BY DEF Fgetattr, WriteBegin, ReadBegin
<1>. QED
  BY <1>1, ReopenBringsInStep DEF CopyInv, ReopenedFirst, CopiesAreTrue

(* The blocks of a write: the copy of its handle changes, until the inode  *)
(* is saved from the copy at its end.                                      *)
LEMMA WriteKeepsCopies ==
  ASSUME OneHandle, TInv, CopyInv, WriteStep
  PROVE  CopyInv'
<1>1. req.op = "write" /\ req # Idle
  BY DEF WriteStep, WriteFound, WriteStrays, WriteBeyond, WriteNoMemory, WriteDirect,
         WriteIndirect, WriteNewIndirect, WriteStarved, WriteFaults, WriteEnd, Missing,
         Writing, Idle
<1>2. req \in ReqType /\ req.h \in Handles /\ File \in Files
  BY <1>1, RequestType
<1>3. \/ MemoryLost
      \/ /\ reopen' = reopen
         /\ \E n, blk : \/ req' = [req EXCEPT !.total = n, !.blk = blk]
                        \/ req' = [req EXCEPT !.size = n]
      \/ WriteEnd
  <2>1. ASSUME NEW blk, NEW at, Stray(blk, at) PROVE <1>3!1 \/ <1>3!2
    BY <2>1 DEF Stray, SaveAstray, GiveUp
  <2>2. CASE WriteStrays \/ WriteBeyond
    BY <2>1, <2>2 DEF WriteStrays, WriteBeyond
  <2>3. CASE WriteStarved \/ WriteFaults
    BY <2>3 DEF WriteStarved, WriteFaults, SaveAstray, GiveUp, End
  <2>4. CASE WriteFound \/ WriteDirect \/ WriteIndirect \/ WriteNewIndirect
    BY <2>4 DEF WriteFound, WriteDirect, WriteIndirect, WriteNewIndirect, SaveChunk
  <2>5. CASE WriteNoMemory
    BY <2>5 DEF WriteNoMemory
  <2>. QED
    BY <2>2, <2>3, <2>4, <2>5 DEF WriteStep
<1>4. ASSUME reopen' = reopen,
             NEW n, NEW blk, \/ req' = [req EXCEPT !.total = n, !.blk = blk]
                             \/ req' = [req EXCEPT !.size = n]
      PROVE  CopyInv'
  <2>1. req'.op = "write" /\ ~reopen'
    BY <1>1, <1>2, <1>4 DEF ReqType, CopyInv, ReopenedFirst
  <2>. QED
    BY <2>1 DEF CopyInv, ReopenedFirst, CopiesAreTrue
<1>5. CASE WriteEnd
  <2>1. PICK inode : /\ handles' = [handles EXCEPT ![req.h].inode = inode]
                     /\ tab' = [tab EXCEPT ![File] = inode] /\ req' = Idle
    BY <1>5 DEF WriteEnd
  <2>2. \A g \in Handles : handles'[g] = [handles[req.h] EXCEPT !.inode = inode]
    BY <1>2, <2>1, SoleHandle
  <2>3. handles[req.h] \in [file : Files, inode : Inodes]
    BY <1>1, RequestType
  <2>4. \A g \in Handles : handles'[g].file = File /\ handles'[g].inode = inode
    BY <2>2, <2>3 DEF File
  <2>5. tab'[File] = inode
    BY <1>2, <2>1, TabType
  <2>. QED
    BY <2>1, <2>4, <2>5 DEF CopyInv, ReopenedFirst, CopiesAreTrue, InStep
<1>. QED
  BY <1>3, <1>4, <1>5, NothingOpenNext

\* A read changes neither inodes nor copies.
LEMMA ReadKeepsCopies ==
  ASSUME TInv, CopyInv, ReadStep
  PROVE  CopyInv'
<1>1. UNCHANGED <<tab, handles, reopen>> /\ req.op = "read"
  BY DEF ReadStep, ReadChunk, ReadFails, ReadEnd, Reading
<1>2. req # Idle /\ req.op # "write"
  BY <1>1 DEF Idle
<1>. QED
  BY <1>1, <1>2 DEF CopyInv, ReopenedFirst, CopiesAreTrue, InStep, IsOpen

LEMMA CopiesStep ==
  ASSUME OneHandle, TInv, CopyInv, [Next]_vars
  PROVE  CopyInv'
<1>1. CASE \/ Restart \/ \E h \in Handles : ReleaseHidden(h) \/ UseFreed(h)
  <2>1. MemoryLost
    BY <1>1 DEF Restart, ReleaseHidden, UseFreed, End, GiveUp
  <2>. QED
    BY <2>1, NothingOpenNext
<1>2. CASE LookUp \/ UNCHANGED vars
  BY <1>2, CopiesKept DEF LookUp, vars
<1>3. ASSUME NEW h \in Handles,
             \/ Release(h) \/ ReopenFails(h)
             \/ \E f \in Files : Create(h, f) \/ Open(h, f)
      PROVE  CopyInv'
  BY <1>3, HandleKeepsCopies
<1>4. ASSUME NEW h \in Handles,
             \/ Fgetattr(h)
             \/ \E off \in Offs, size \in Lens :
                  WriteBegin(h, off, size) \/ ReadBegin(h, off, size)
      PROVE  CopyInv'
  BY <1>4, OnHandleKeepsCopies
<1>5. ASSUME NEW f \in Files,
             Remove(f) \/ LoseName(f) \/ \E size \in Sizes : Truncate(f, size)
      PROVE  CopyInv'
  BY <1>5, ByPathKeepsCopies
<1>. QED
  BY <1>1, <1>2, <1>3, <1>4, <1>5, WriteKeepsCopies, ReadKeepsCopies DEF Next

LEMMA CopiesInStep ==
  ASSUME OneHandle
  PROVE  Spec => [](TInv /\ CopyInv)
<1>1. Init => TInv /\ CopyInv
  <2>1. Init => CopyInv
    BY OpenMeans DEF Init, CopyInv, ReopenedFirst, CopiesAreTrue, IsOpen, Idle
  <2>. QED
    BY <2>1, InitType
<1>2. TInv /\ CopyInv /\ [Next]_vars => (TInv /\ CopyInv)'
  BY NextType, CopiesStep
<1>. QED
  BY <1>1, <1>2, PTL DEF Spec

(* As long as one handle is open at a time, whatever happens to the name   *)
(* it was opened by (chisai_fuse_truncate, chisai_fuse_reopen): between    *)
(* requests, if the handle has a copy and the copy will be used without    *)
(* being read again, it is the inode on the device.  This says nothing of  *)
(* a reopening that fails, which leaves the handle without a copy: run     *)
(* reopen_dangles.  Run reopen_once shows that two handles are one too     *)
(* many.                                                                   *)
THEOREM OneHandleIsFresh ==
  ASSUME OneHandle
  PROVE  Spec => []HandleFresh
<1>1. CopyInv => HandleFresh
  BY DEF CopyInv, HandleFresh, CopiesAreTrue, Serving, Idle, InStep
<1>. QED
  BY <1>1, CopiesInStep, PTL

-----------------------------------------------------------------------------
(* What an inode and the device hold of a file                             *)

\* The block of a file by its number, and the word at an offset.
BlkAt(inode, dev, num) ==
  IF num < Direct THEN inode.direct[num]
  ELSE IF inode.indirect = 0 THEN 0
  ELSE dev[Addr(inode.indirect, num - Direct)]

WordOf(inode, dev, o) ==
  IF BlkAt(inode, dev, o \div BlkWords) \in Indices
  THEN dev[Addr(BlkAt(inode, dev, o \div BlkWords), o % BlkWords)] ELSE Absent

LEMMA LookupIs ==
  ASSUME NEW inode, NEW o
  PROVE  Lookup(inode, o) = WordOf(inode, disk, o)
BY DEF Lookup, WordOf, BlkAt

\* The offsets that an inode can record.
LEMMA OffsetParts ==
  ASSUME NEW o \in 0 .. Limit - 1
  PROVE  /\ o \in Nat /\ o \div BlkWords \in 0 .. Direct + BlkWords - 1
         /\ o % BlkWords \in 0 .. BlkWords - 1
         /\ o = (o \div BlkWords) * BlkWords + (o % BlkWords)
<1> DEFINE q == o \div BlkWords
           blks == Direct + BlkWords
<1>1. blks \in Nat /\ blks * BlkWords \in Nat /\ Limit = blks * BlkWords
  BY SizesAreNat, SMT DEF Limit
<1>2. o \in Nat /\ o < blks * BlkWords
  BY <1>1
<1>3. q \in Nat /\ o % BlkWords \in 0 .. BlkWords - 1 /\ o = q * BlkWords + (o % BlkWords)
  BY <1>2, SizesAreNat, Division
<1>4. blks = Direct + BlkWords
  OBVIOUS
<1> HIDE DEF q, blks
<1>5. q * BlkWords \in Nat
  BY <1>3, SizesAreNat, SMT
<1>6. ASSUME blks < q PROVE FALSE
  <2>1. blks * BlkWords + BlkWords <= q * BlkWords
    BY <1>1, <1>3, <1>6, SizesAreNat, ProductMonotone
  <2>. QED
    BY <1>1, <1>2, <1>3, <1>5, <2>1, SizesAreNat
<1>7. q # blks
  BY <1>1, <1>2, <1>3, <1>5
<1>8. q \in 0 .. Direct + BlkWords - 1
  BY <1>1, <1>3, <1>6, <1>7, <1>4, SizesAreNat
<1>. QED
  BY <1>2, <1>3, <1>8 DEF q

LEMMA SlotsAre ==
  ASSUME NEW inode \in Inodes
  PROVE  /\ inode.indirect \in Indices =>
              \A k \in 0 .. BlkWords - 1 : Addr(inode.indirect, k) \in Slots(inode)
         /\ \A a \in Slots(inode) :
              /\ inode.indirect \in Indices
              /\ \E k \in 0 .. BlkWords - 1 : a = Addr(inode.indirect, k)
<1>1. CASE inode.indirect \in Indices
  <2> DEFINE start == (inode.indirect - 1) * BlkWords
  <2>1. start \in Int
    <3>1. inode.indirect \in Nat
      BY <1>1, IndicesAreNat
    <3> DEFINE blk == inode.indirect
    <3> HIDE DEF blk
    <3>2. (blk - 1) * BlkWords \in Int
      BY <3>1, SizesAreNat, SMT DEF blk
    <3>. QED
      BY <3>2 DEF blk
  <2>2. \A k : Addr(inode.indirect, k) = start + k
    BY DEF Addr
  <2> HIDE DEF start
  <2>3. Slots(inode) = start + 0 .. start + (BlkWords - 1)
    BY <1>1, <2>2 DEF Slots
  <2>. QED
    <3>1. \A k \in 0 .. BlkWords - 1 : start + k \in start + 0 .. start + (BlkWords - 1)
      BY <2>1, SizesAreNat
    <3>2. ASSUME NEW a \in start + 0 .. start + (BlkWords - 1)
          PROVE  a - start \in 0 .. BlkWords - 1 /\ a = start + (a - start)
      BY <2>1, SizesAreNat
    <3>. QED
      BY <1>1, <2>2, <2>3, <3>1, <3>2
<1>2. CASE inode.indirect \notin Indices
  BY <1>2 DEF Slots
<1>. QED
  BY <1>1, <1>2

\* Every block that an inode leads to is named by it.
LEMMA NamedByIt ==
  ASSUME NEW inode \in Inodes
  PROVE  /\ inode.indirect \in NamedBy(inode)
         /\ \A num \in 0 .. Direct + BlkWords - 1 :
              BlkAt(inode, disk, num) \in Indices => BlkAt(inode, disk, num) \in NamedBy(inode)
<1>1. inode.indirect \in NamedBy(inode)
  BY DEF NamedBy
<1>2. ASSUME NEW num \in 0 .. Direct + BlkWords - 1, BlkAt(inode, disk, num) \in Indices
      PROVE  BlkAt(inode, disk, num) \in NamedBy(inode)
  <2>1. CASE num < Direct
    <3>1. num \in DOMAIN inode.direct
      BY <2>1, SizesAreNat DEF Inodes
    <3>. QED
      BY <2>1, <3>1 DEF NamedBy, BlkAt
  <2>2. CASE ~(num < Direct)
    <3>1. inode.indirect \in Indices
      BY <1>2, <2>2, IndicesAreNat DEF BlkAt, Inodes, Pointers
    <3>2. num - Direct \in 0 .. BlkWords - 1
      BY <2>2, SizesAreNat
    <3>3. Addr(inode.indirect, num - Direct) \in Slots(inode)
      BY <3>1, <3>2, SlotsAre
    <3>. QED
      BY <2>2, <3>1, <3>3, IndicesAreNat DEF NamedBy, BlkAt
  <2>. QED
    BY <2>1, <2>2
<1>. QED
  BY <1>1, <1>2

LEMMA AgedKeeps ==
  ASSUME NEW dev, NEW named, NEW blk \in Indices \cap named, NEW at \in 0 .. BlkWords - 1
  PROVE  Aged(dev, named)[Addr(blk, at)] = dev[Addr(blk, at)]
<1>1. Addr(blk, at) \in Addresses /\ (Addr(blk, at) \div BlkWords) + 1 = blk
  BY AddrEffect, IndicesAreNat
<1>. QED
  BY <1>1 DEF Aged

\* What an inode names is not aged, so the file holds what it held.
LEMMA AgedFile ==
  ASSUME NEW inode \in Inodes, NEW named, NamedBy(inode) \subseteq named,
         NEW o \in 0 .. Limit - 1
  PROVE  /\ WordOf(inode, Aged(disk, named), o) = WordOf(inode, disk, o)
         /\ BlkAt(inode, Aged(disk, named), o \div BlkWords) =
              BlkAt(inode, disk, o \div BlkWords)
<1> DEFINE num == o \div BlkWords
           dev == Aged(disk, named)
<1>1. num \in 0 .. Direct + BlkWords - 1 /\ o % BlkWords \in 0 .. BlkWords - 1
  BY OffsetParts
<1>2. BlkAt(inode, dev, num) = BlkAt(inode, disk, num)
  <2>1. CASE num < Direct
    BY <2>1 DEF BlkAt
  <2>2. CASE ~(num < Direct) /\ inode.indirect # 0
    <3>1. inode.indirect \in Indices \cap named
      BY <2>2, NamedByIt DEF Inodes, Pointers
    <3>2. num - Direct \in 0 .. BlkWords - 1
      BY <1>1, <2>2, SizesAreNat
    <3>3. dev[Addr(inode.indirect, num - Direct)] = disk[Addr(inode.indirect, num - Direct)]
      BY <3>1, <3>2, AgedKeeps
    <3>. QED
      BY <2>2, <3>3 DEF BlkAt
  <2>3. CASE ~(num < Direct) /\ inode.indirect = 0
    BY <2>3 DEF BlkAt
  <2>. QED
    BY <2>1, <2>2, <2>3
<1>3. BlkAt(inode, disk, num) \in Indices =>
        dev[Addr(BlkAt(inode, disk, num), o % BlkWords)] =
          disk[Addr(BlkAt(inode, disk, num), o % BlkWords)]
  BY <1>1, NamedByIt, AgedKeeps
<1>. QED
  BY <1>2, <1>3 DEF WordOf

-----------------------------------------------------------------------------
(* Truncation                                                              *)

\* Between requests, what a file holds is what its inode on the device leads to.
LEMMA ContentsAtRest ==
  ASSUME Serving, NEW f \in Live, NEW o \in 0 .. Limit - 1
  PROVE  Contents(f)[o] = WordOf(tab[f], disk, o)
<1>1. phase = "up" /\ View(f) = tab[f]
  BY DEF Serving, View, Idle
<1>. QED
  BY <1>1, LookupIs DEF Contents

LEMMA ContentsAtRestNext ==
  ASSUME Serving', NEW f \in Live', NEW o \in 0 .. Limit - 1
  PROVE  Contents(f)'[o] = WordOf(tab'[f], disk', o)
<1>1. phase' = "up" /\ View(f)' = tab'[f] /\ f \in Live'
  BY DEF Serving, View, Idle
<1>2. Contents(f)'[o] = Lookup(View(f), o)'
  BY <1>1 DEF Contents
<1>. QED
  BY <1>1, <1>2 DEF Lookup, WordOf, BlkAt

LEMMA TruncateEffect ==
  ASSUME TInv, NEW f \in Files, NEW size \in Sizes, Truncate(f, size), phase' = "up"
  PROVE  /\ Serving /\ Serving' /\ f \in linked /\ linked' = linked
         /\ f \in Live /\ Live' = Live
         /\ size \div BlkWords \in Nat /\ size \div BlkWords <= Direct + 1
         /\ tab[f] \in Inodes /\ tab'[f] \in Inodes
         /\ \A g \in Files \ {f} : tab'[g] = tab[g]
         /\ \A i \in Cut(tab[f], size) : Pointer(tab[f], i) # 0
         /\ blocks' = ReleasedAll(blocks, {Pointer(tab[f], i) : i \in Cut(tab[f], size)})
         /\ \A i \in 0 .. Direct - 1 :
              tab'[f].direct[i] =
                IF i \in Cut(tab[f], size) THEN 0 ELSE tab[f].direct[i]
         /\ tab'[f].indirect = IF Direct \in Cut(tab[f], size) THEN 0 ELSE tab[f].indirect
         /\ disk' = Aged(disk, UNION {NamedBy(tab'[g]) : g \in Live})
         /\ reopen' /\ handles' = handles /\ wild' = wild /\ req' = req
<1>1. TruncateDone(f, size) /\ Serving /\ f \in linked /\ size \div BlkWords <= Direct + 1
  BY DEF Truncate, TruncateAborts, End
<1> DEFINE cut == Cut(tab[f], size)
           new == WithoutPointers(tab[f], cut)
<1>2. /\ tab' = [tab EXCEPT ![f] = SetSize(new, size)]
      /\ \A i \in cut : Pointer(tab[f], i) # 0
      /\ blocks' = ReleasedAll(blocks, {Pointer(tab[f], i) : i \in cut})
      /\ disk' = Aged(disk, UNION {NamedBy(tab'[g]) : g \in Live})
      /\ UNCHANGED <<phase, linked, handles, wild, req>> /\ reopen'
  BY <1>1 DEF TruncateDone
<1>3. tab \in [Files -> Inodes]
  BY DEF TInv, TypeOK
<1>4. /\ new \in Inodes
      /\ \A i \in 0 .. Direct - 1 : new.direct[i] = IF i \in cut THEN 0 ELSE tab[f].direct[i]
      /\ new.indirect = IF Direct \in cut THEN 0 ELSE tab[f].indirect
  BY <1>3, WithoutPointersType
<1> HIDE DEF cut, new
<1>5. /\ SetSize(new, size) \in Inodes
      /\ SetSize(new, size).direct = new.direct
      /\ SetSize(new, size).indirect = new.indirect
  <2>1. SetSize(new, size) \in Inodes
    BY <1>4, SetSizeGood DEF GoodInodes
  <2>. QED
    BY <1>4, <2>1 DEF SetSize, Inodes
<1>6. /\ tab'[f] = SetSize(new, size)
      /\ \A g \in Files \ {f} : tab'[g] = tab[g]
  BY <1>2, <1>3
<1>7. Serving'
  BY <1>1, <1>2 DEF Serving
<1>8. size \div BlkWords \in Nat
  BY SizesAreNat, Division DEF Sizes
<1>9. f \in Live /\ Live' = Live
  BY <1>1, <1>2 DEF Live
<1>. QED
  BY <1>1, <1>2, <1>3, <1>4, <1>5, <1>6, <1>7, <1>8, <1>9 DEF cut

\* The blocks before the new end are not cut, and hold what they held.
LEMMA TruncateKeeps ==
  ASSUME TInv, NEW f \in Files, NEW size \in Sizes, Truncate(f, size), phase' = "up",
         NEW o \in 0 .. Limit - 1, o \div BlkWords < size \div BlkWords
  PROVE  WordOf(tab'[f], disk', o) = WordOf(tab[f], disk, o)
<1> DEFINE num == o \div BlkWords
           cut == Cut(tab[f], size)
           named == UNION {NamedBy(tab'[g]) : g \in Live}
<1>1. /\ f \in Live /\ tab[f] \in Inodes /\ tab'[f] \in Inodes
      /\ size \div BlkWords \in Nat
      /\ \A i \in 0 .. Direct - 1 :
           tab'[f].direct[i] = IF i \in cut THEN 0 ELSE tab[f].direct[i]
      /\ tab'[f].indirect = IF Direct \in cut THEN 0 ELSE tab[f].indirect
      /\ disk' = Aged(disk, named)
  BY TruncateEffect
<1>2. NamedBy(tab'[f]) \subseteq named
  BY <1>1
<1>3. num \in 0 .. Direct + BlkWords - 1 /\ num \in Nat
  BY OffsetParts, SizesAreNat
<1>4. \A i \in cut : i >= size \div BlkWords
  BY <1>1 DEF Cut
<1>5. num < size \div BlkWords
  OBVIOUS
<1> HIDE DEF num, cut, named
<1>6. BlkAt(tab'[f], disk, num) = BlkAt(tab[f], disk, num)
  <2>1. CASE num < Direct
    <3>1. num \in 0 .. Direct - 1 /\ num \notin cut
      BY <1>1, <1>3, <1>4, <1>5, <2>1, SizesAreNat
    <3>. QED
      BY <1>1, <2>1, <3>1 DEF BlkAt
  <2>2. CASE ~(num < Direct)
    <3>1. Direct \notin cut
      BY <1>1, <1>3, <1>4, <1>5, <2>2, SizesAreNat
    <3>. QED
      BY <1>1, <2>2, <3>1 DEF BlkAt
  <2>. QED
    BY <2>1, <2>2
<1>7. WordOf(tab'[f], disk, o) = WordOf(tab[f], disk, o)
  BY <1>6 DEF WordOf, num
<1>8. WordOf(tab'[f], Aged(disk, named), o) = WordOf(tab'[f], disk, o)
  BY <1>1, <1>2, AgedFile
<1>. QED
  BY <1>1, <1>7, <1>8

(* From the block of the new end to the old size everything is cut, since  *)
(* the size in sectors, plus one, counts at least as many as the blocks.   *)
LEMMA TruncateTakes ==
  ASSUME TInv, NEW f \in Files, NEW size \in Sizes, Truncate(f, size), phase' = "up",
         NEW o \in 0 .. Limit - 1, ~(o \div BlkWords < size \div BlkWords),
         o < tab[f].size
  PROVE  WordOf(tab'[f], disk', o) = Absent
<1> DEFINE num == o \div BlkWords
           cut == Cut(tab[f], size)
           old == tab[f].size
<1>1. /\ tab[f] \in Inodes /\ tab'[f] \in Inodes
      /\ size \div BlkWords \in Nat /\ size \div BlkWords <= Direct + 1
      /\ \A i \in cut : Pointer(tab[f], i) # 0
      /\ \A i \in 0 .. Direct - 1 :
           tab'[f].direct[i] = IF i \in cut THEN 0 ELSE tab[f].direct[i]
      /\ tab'[f].indirect = IF Direct \in cut THEN 0 ELSE tab[f].indirect
  BY TruncateEffect
<1>2. /\ o \in Nat /\ num \in Nat /\ o % BlkWords \in 0 .. BlkWords - 1
      /\ o = num * BlkWords + (o % BlkWords)
  BY OffsetParts, SizesAreNat
<1>3. old \in Nat /\ o < old
  BY <1>1, SizesAreNat DEF Inodes, Sizes
<1>4. tab[f].blkcnt = (old \div Sector) + 1
  BY <1>2, <1>3 DEF TInv, CountsSectors
<1>5. num <= old \div Sector
  <2> DEFINE q == old \div Sector
  <2>1. q \in Nat /\ old = q * Sector + (old % Sector) /\ old % Sector \in 0 .. Sector - 1
    BY <1>3, SizesAreNat, Division
  <2> HIDE DEF q, num, old
  <2>2. num * BlkWords \in Nat /\ num * Sector \in Nat /\ q * Sector \in Nat
    BY <1>2, <2>1, SizesAreNat, SMT
  <2>3. num * Sector <= num * BlkWords
    <3>1. num * (BlkWords - Sector) >= 0
      BY <1>2, SizesAreNat, SMT
    <3>2. num * (BlkWords - Sector) = num * BlkWords - num * Sector
      BY <1>2, SizesAreNat, SMT
    <3>. QED
      BY <2>2, <3>1, <3>2
  <2>4. ASSUME q < num PROVE FALSE
    <3>1. q * Sector + Sector <= num * Sector
      BY <1>2, <2>1, <2>4, SizesAreNat, ProductMonotone
    <3>. QED
      BY <1>2, <1>3, <2>1, <2>2, <2>3, <3>1, SizesAreNat
  <2>5. num <= q
    BY <1>2, <2>1, <2>4
  <2>. QED
    BY <2>5 DEF q
<1>6. old \div Sector \in Nat
  BY <1>3, SizesAreNat, Division
<1>7. cut = (size \div BlkWords) .. (tab[f].blkcnt - 1)
  BY DEF Cut
<1>8. ~(num < size \div BlkWords)
  OBVIOUS
<1> HIDE DEF num, cut, old
<1>9. num \in cut /\ \A i \in Nat : size \div BlkWords <= i /\ i <= num => i \in cut
  BY <1>1, <1>2, <1>4, <1>5, <1>6, <1>7, <1>8
<1>10. BlkAt(tab'[f], disk', num) = 0
  <2>1. CASE num < Direct
    <3>1. num \in 0 .. Direct - 1
      BY <1>2, <2>1, SizesAreNat
    <3>. QED
      BY <1>1, <1>9, <2>1, <3>1 DEF BlkAt
  <2>2. CASE ~(num < Direct) /\ Direct \in cut
    BY <1>1, <2>2 DEF BlkAt
  <2>3. CASE ~(num < Direct) /\ Direct \notin cut
    <3>1. ~(size \div BlkWords <= Direct)
      BY <1>2, <1>9, <2>3, SizesAreNat
    <3>2. Direct < num
      BY <1>1, <1>2, <1>8, <3>1, SizesAreNat
    <3>3. Pointer(tab[f], num) = 0
      BY <1>2, <3>2, SizesAreNat DEF Pointer
    <3>. QED
      BY <1>1, <1>9, <3>3
  <2>. QED
    BY <2>1, <2>2, <2>3
<1>. QED
  BY <1>10, IndicesAreNat DEF WordOf, num

(* fs_truncate_file cuts where it should, although its loop counts the old *)
(* blocks in sectors plus one and the new ones in blocks: what lies before *)
(* the block of the new end stays as it is, and nothing is left from there *)
(* to the old size, whatever handles are open.                             *)
THEOREM TruncationsCut == Spec => TruncateCuts
<1> DEFINE Cuts ==
      \A f \in Files, size \in Sizes :
        Truncate(f, size) /\ phase' = "up" =>
          \A o \in 0 .. Limit - 1 :
            /\ o \div BlkWords < size \div BlkWords => Contents(f)'[o] = Contents(f)[o]
            /\ o \div BlkWords >= size \div BlkWords /\ o < tab[f].size =>
                 Contents(f)'[o] = Absent
<1>1. TInv => Cuts
  <2> SUFFICES ASSUME TInv, NEW f \in Files, NEW size \in Sizes, Truncate(f, size),
                      phase' = "up", NEW o \in 0 .. Limit - 1
               PROVE  /\ o \div BlkWords < size \div BlkWords =>
                           Contents(f)'[o] = Contents(f)[o]
                      /\ o \div BlkWords >= size \div BlkWords /\ o < tab[f].size =>
                           Contents(f)'[o] = Absent
    OBVIOUS
  <2>1. Serving /\ Serving' /\ f \in Live /\ f \in Live'
    BY TruncateEffect
  <2>2. /\ Contents(f)[o] = WordOf(tab[f], disk, o)
        /\ Contents(f)'[o] = WordOf(tab'[f], disk', o)
    BY <2>1, ContentsAtRest, ContentsAtRestNext
  <2>3. CASE o \div BlkWords < size \div BlkWords
    <3>1. ~(o \div BlkWords >= size \div BlkWords)
      <4>1. o \div BlkWords \in Nat /\ size \div BlkWords \in Nat
        <5>1. size \div BlkWords \in Nat
          BY TruncateEffect
        <5>2. o \div BlkWords \in 0 .. Direct + BlkWords - 1
          BY OffsetParts
        <5>. QED
          BY <5>1, <5>2
      <4>. QED
        BY <2>3, <4>1
    <3>. QED
      BY <2>2, <2>3, <3>1, TruncateKeeps
  <2>4. CASE ~(o \div BlkWords < size \div BlkWords)
    BY <2>2, <2>4, TruncateTakes
  <2>. QED
    BY <2>3, <2>4
<1>2. TInv => [Cuts]_vars
  BY <1>1
<1>. QED
  BY <1>2, TypeInvariant, PTL DEF TruncateCuts

(* The block indices of all files, as one table                            *)

(* An inode has its direct indices, the one of its indirect block, and     *)
(* those in this block.                                                    *)
Keys == 0 .. Direct + BlkWords

Ptr(inode, dev, k) ==
  IF k < Direct THEN inode.direct[k]
  ELSE IF k = Direct THEN inode.indirect
  ELSE IF inode.indirect = 0 THEN 0
  ELSE dev[Addr(inode.indirect, k - Direct - 1)]

\* The device, with the words of indirect blocks as far as they are good.
Shown == IF wild THEN [a \in Addresses |-> 0] ELSE disk

PtrTable == [f \in Files |-> [k \in Keys |-> Ptr(View(f), Shown, k)]]

\* In table P, an index that the files in L have is in U and at one place.
Private(L, P, U) ==
  /\ \A f \in L, k \in Keys : P[f][k] # 0 => P[f][k] \in U \ {RootBlk}
  /\ \A f, g \in L : \A k, l \in Keys :
       P[f][k] # 0 /\ P[f][k] = P[g][l] => f = g /\ k = l

\* Indices go, and those that stay are not given up.
LEMMA ShrinkPrivate ==
  ASSUME NEW L, NEW P, NEW U, Private(L, P, U), NEW M, NEW Q, NEW W,
         \A f \in M, k \in Keys :
           Q[f][k] = 0 \/ (f \in L /\ Q[f][k] = P[f][k] /\ Q[f][k] \in W)
  PROVE  Private(M, Q, W)
BY DEF Private

\* One index comes that was not in use.
LEMMA GrowPrivate ==
  ASSUME NEW L, NEW P, NEW U, Private(L, P, U), RootBlk \in U,
         NEW f0 \in L, NEW k0 \in Keys, NEW b, b \notin U, NEW Q,
         \A f \in L, k \in Keys :
           Q[f][k] = IF f = f0 /\ k = k0 THEN b ELSE P[f][k]
  PROVE  Private(L, Q, U \cup {b})
BY DEF Private

LEMMA ViewType ==
  ASSUME TInv, NEW f \in Files
  PROVE  View(f) \in GoodInodes
<1>1. tab[f] \in GoodInodes
  BY DEF TInv, TypeOK, GoodInodes
<1>2. CASE req.op = "write"
  BY <1>1, <1>2, RequestType DEF View, Idle
<1>. QED
  BY <1>1, <1>2 DEF View

LEMMA KeysAre ==
  ASSUME NEW k \in Keys
  PROVE  /\ k \in Nat
         /\ k < Direct => k \in 0 .. Direct - 1
         /\ ~(k < Direct) /\ k # Direct => k - Direct - 1 \in 0 .. BlkWords - 1
BY SizesAreNat DEF Keys

(* Words of a block that is not the inode's indirect block do not matter,  *)
(* and no more do those of a block that is aged, if the inode names its    *)
(* own.                                                                    *)
SameInBlock(dev, new, blk) ==
  \A at \in 0 .. BlkWords - 1 : new[Addr(blk, at)] = dev[Addr(blk, at)]

LEMMA PtrSame ==
  ASSUME NEW inode \in Inodes, NEW dev, NEW new,
         inode.indirect # 0 => SameInBlock(dev, new, inode.indirect)
  PROVE  \A k \in Keys : Ptr(inode, new, k) = Ptr(inode, dev, k)
BY KeysAre DEF Ptr, SameInBlock

LEMMA SavedElsewhere ==
  ASSUME NEW dev, NEW blk \in Indices, NEW f, NEW o, NEW n, FitsBlock(o, n),
         NEW other \in Indices, other # blk
  PROVE  SameInBlock(dev, SavedIn(dev, blk, f, o, n), other)
<1> SUFFICES ASSUME NEW at \in 0 .. BlkWords - 1
             PROVE  SavedIn(dev, blk, f, o, n)[Addr(other, at)] = dev[Addr(other, at)]
  BY DEF SameInBlock
<1>1. Addr(other, at) \in Addresses /\ Addr(other, at) \div BlkWords = other - 1
  BY AddrEffect
<1>2. other - 1 # blk - 1
  BY IndicesAreNat
<1>3. \A a \in Addresses : a \div BlkWords # blk - 1 => SavedIn(dev, blk, f, o, n)[a] = dev[a]
  BY SavedEffect
<1>. QED
  BY <1>1, <1>2, <1>3

LEMMA PutElsewhere ==
  ASSUME NEW dev, NEW blk \in Indices, NEW k \in 0 .. BlkWords - 1, NEW w,
         NEW other \in Indices, other # blk
  PROVE  SameInBlock(dev, [dev EXCEPT ![Addr(blk, k)] = w], other)
<1> SUFFICES ASSUME NEW at \in 0 .. BlkWords - 1
             PROVE  [dev EXCEPT ![Addr(blk, k)] = w][Addr(other, at)] =
                      dev[Addr(other, at)]
  BY DEF SameInBlock
<1>1. Addr(other, at) \div BlkWords = other - 1 /\ Addr(blk, k) \div BlkWords = blk - 1
  BY AddrEffect
<1>2. Addr(other, at) # Addr(blk, k)
  BY <1>1, IndicesAreNat
<1>. QED
  BY <1>2

LEMMA ClearedElsewhere ==
  ASSUME NEW dev, NEW blk \in Indices, NEW other \in Indices, other # blk
  PROVE  SameInBlock(dev, Cleared(dev, blk), other)
<1> SUFFICES ASSUME NEW at \in 0 .. BlkWords - 1
             PROVE  Cleared(dev, blk)[Addr(other, at)] = dev[Addr(other, at)]
  BY DEF SameInBlock
<1>1. Addr(other, at) \in Addresses /\ Addr(other, at) \div BlkWords = other - 1
  BY AddrEffect
<1>2. other - 1 # blk - 1
  BY IndicesAreNat
<1>. QED
  BY <1>1, <1>2 DEF Cleared

LEMMA ClearedHere ==
  ASSUME NEW dev, NEW blk \in Indices, NEW at \in 0 .. BlkWords - 1
  PROVE  Cleared(dev, blk)[Addr(blk, at)] = 0
<1>1. Addr(blk, at) \in Addresses /\ Addr(blk, at) \div BlkWords = blk - 1
  BY AddrEffect
<1>. QED
  BY <1>1 DEF Cleared

LEMMA AgedElsewhere ==
  ASSUME NEW dev, NEW named, NEW blk \in Indices \cap named
  PROVE  SameInBlock(dev, Aged(dev, named), blk)
BY AgedKeeps DEF SameInBlock

LEMMA ShownAged ==
  ASSUME NEW named, NEW blk \in Indices \cap named,
         wild' = wild, disk' = Aged(disk, named)
  PROVE  SameInBlock(Shown, Shown', blk)
<1>1. SameInBlock(disk, disk', blk)
  BY AgedElsewhere
<1>2. CASE wild
  BY <1>2 DEF Shown, SameInBlock
<1>3. CASE ~wild
  BY <1>1, <1>3 DEF Shown
<1>. QED
  BY <1>2, <1>3

-----------------------------------------------------------------------------
(* Blocks are private                                                      *)

(* With one handle, the blocks of files are private, and the root          *)
(* directory keeps its block.                                              *)
FileInv ==
  /\ RootBlk \in Used(blocks)
  /\ Private(Live, PtrTable, Used(blocks))

LEMMA EndPrivate ==
  ASSUME MemoryLost
  PROVE  FileInv'
<1>1. blocks' = FreshBlocks /\ linked' = {} /\ handles' = [h \in Handles |-> Closed]
  BY DEF MemoryLost
<1>2. Live' = {}
  BY <1>1, OpenMeans DEF Live
<1>3. RootBlk \in Used(blocks)'
  BY <1>1, FreshBlocksType DEF Used, exist
<1>. QED
  BY <1>2, <1>3 DEF FileInv, Private

\* Indices in use are no more than they were, and some may go.
LEMMA TableSmaller ==
  ASSUME FileInv, RootBlk \in Used(blocks'),
         \A f \in Live', k \in Keys :
           LET new == Ptr(View(f)', Shown', k)
           IN  new = 0 \/ (f \in Live /\ new = Ptr(View(f), Shown, k)
                           /\ new \in Used(blocks'))
  PROVE  FileInv'
<1>1. Live \subseteq Files /\ Live' \subseteq Files
  BY DEF Live
<1>2. \A f \in Live', k \in Keys : PtrTable'[f][k] = Ptr(View(f)', Shown', k)
  BY <1>1 DEF PtrTable, Ptr
<1>3. \A f \in Live, k \in Keys : PtrTable[f][k] = Ptr(View(f), Shown, k)
  BY <1>1 DEF PtrTable
<1>4. \A f \in Live', k \in Keys :
        \/ PtrTable'[f][k] = 0
        \/ f \in Live /\ PtrTable'[f][k] = PtrTable[f][k] /\ PtrTable'[f][k] \in Used(blocks')
  BY <1>2, <1>3
<1>5. Private(Live', PtrTable', Used(blocks'))
  BY <1>4, ShrinkPrivate DEF FileInv
<1>6. Used(blocks)' = Used(blocks')
  BY DEF Used, exist
<1>. QED
  BY <1>5, <1>6 DEF FileInv, Private

LEMMA TableIs ==
  ASSUME NEW f \in Live, NEW k \in Keys
  PROVE  PtrTable[f][k] = Ptr(View(f), Shown, k)
BY DEF PtrTable, Live

\* An index in the table is in use, so what is kept of it is as well.
LEMMA TableInUse ==
  ASSUME FileInv, NEW f \in Live, NEW k \in Keys, Ptr(View(f), Shown, k) # 0
  PROVE  Ptr(View(f), Shown, k) \in Used(blocks) \ {RootBlk}
BY TableIs DEF FileInv, Private

LEMMA TableApart ==
  ASSUME FileInv, NEW f \in Live, NEW k \in Keys, Ptr(View(f), Shown, k) # 0,
         NEW g \in Live, NEW l \in Keys,
         Ptr(View(f), Shown, k) = Ptr(View(g), Shown, l)
  PROVE  f = g /\ k = l
BY TableIs DEF FileInv, Private

LEMMA NewInodePtr ==
  ASSUME NEW dev, NEW k \in Keys
  PROVE  Ptr(NewInode, dev, k) = 0
BY KeysAre DEF Ptr, NewInode

\* No block comes or goes.
LEMMA SamePointersPrivate ==
  ASSUME FileInv, blocks' = blocks, Live' \subseteq Live, Shown' = Shown,
         \A f \in Live : /\ View(f)'.direct = View(f).direct
                         /\ View(f)'.indirect = View(f).indirect
  PROVE  FileInv'
<1>1. \A f \in Live, k \in Keys : Ptr(View(f)', Shown', k) = Ptr(View(f), Shown, k)
  BY DEF Ptr
<1>2. \A f \in Live', k \in Keys :
        LET new == Ptr(View(f)', Shown', k)
        IN  new = 0 \/ (f \in Live /\ new = Ptr(View(f), Shown, k)
                        /\ new \in Used(blocks'))
  BY <1>1, TableInUse
<1>3. RootBlk \in Used(blocks')
  BY DEF FileInv
<1>. QED
  BY <1>2, <1>3, TableSmaller

\* A file is gone, and at most its first direct block is given up.
LEMMA GonePrivate ==
  ASSUME FileInv, TInv, NEW f \in Live, Live' = Live \ {f}, wild' = wild,
         disk' = Aged(disk, Named(Live \ {f})),
         tab' = [tab EXCEPT ![f] = NewInode],
         \A g \in Files : View(g) = tab[g] /\ View(g)' = tab'[g],
         NEW first \in {0, tab[f].direct[0]},
         Used(blocks') = Used(blocks) \ {first}
  PROVE  FileInv'
<1> DEFINE named == Named(Live \ {f})
<1>1. Live \subseteq Files /\ tab \in [Files -> Inodes]
  BY TabType DEF Live
<1>2. 0 \in Keys /\ 0 < Direct /\ 0 \in 0 .. Direct - 1
  BY SizesAreNat DEF Keys
<1>3. Ptr(View(f), Shown, 0) = tab[f].direct[0]
  BY <1>1, <1>2 DEF Ptr
<1>4. RootBlk \in Used(blocks')
  <2>1. first # 0 => first # RootBlk
    BY <1>2, <1>3, TableInUse
  <2>2. 0 # RootBlk
    BY DEF RootBlk
  <2>. QED
    BY <2>1, <2>2 DEF FileInv
<1>5. \A g \in Live \ {f} : NamedBy(tab[g]) \subseteq named
  BY DEF Named
<1> HIDE DEF named
<1>6. ASSUME NEW g \in Live', NEW k \in Keys, Ptr(View(g)', Shown', k) # 0
      PROVE  /\ g \in Live /\ Ptr(View(g)', Shown', k) = Ptr(View(g), Shown, k)
             /\ Ptr(View(g)', Shown', k) \in Used(blocks')
  <2>1. g \in Live /\ g # f /\ View(g)' = tab[g] /\ View(g) = tab[g] /\ tab[g] \in Inodes
    BY <1>1
  <2>2. NamedBy(tab[g]) \subseteq named
    BY <1>5, <2>1
  <2>3. tab[g].indirect # 0 => SameInBlock(Shown, Shown', tab[g].indirect)
    <3>1. tab[g].indirect # 0 => tab[g].indirect \in Indices \cap named
      BY <2>1, <2>2, NamedByIt DEF Inodes, Pointers
    <3>. QED
      BY <3>1, ShownAged DEF named
  <2>4. Ptr(tab[g], Shown', k) = Ptr(tab[g], Shown, k)
    BY <2>1, <2>3, PtrSame
  <2>5. Ptr(View(g), Shown, k) # 0
    BY <1>6, <2>1, <2>4
  <2>6. Ptr(View(g), Shown, k) \in Used(blocks)
    BY <2>1, <2>5, TableInUse
  <2>7. Ptr(View(g), Shown, k) # first
    <3>1. CASE first = 0
      BY <2>5, <3>1
    <3>2. CASE first = tab[f].direct[0]
      BY <1>2, <1>3, <2>1, <2>5, <3>2, TableApart
    <3>. QED
      BY <3>1, <3>2
  <2>. QED
    BY <2>1, <2>4, <2>6, <2>7
<1>. QED
  BY <1>4, <1>6, TableSmaller

\* A handle goes, or goes to another file that has a name.
LEMMA LetGoLive ==
  ASSUME TInv, NEW h \in Handles, IsOpen(h), NEW handle,
         handle.file \in Files => handle.file \in linked,
         handles' = [handles EXCEPT ![h] = handle], linked' = linked
  PROVE  /\ handles[h].file \in Live
         /\ Live' = IF LastOf(h) THEN Live \ {handles[h].file} ELSE Live
<1>1. /\ handles'[h] = handle /\ \A g \in Handles \ {h} : handles'[g] = handles[g]
  BY HandleTypes
<1>2. handles[h].file \in Files
  BY DEF IsOpen
<1>3. ASSUME NEW f \in Files
      PROVE  f \in Live' <=> f \in linked \/ \E g \in Handles \ {h} : handles[g].file = f
  BY <1>1 DEF Live
<1>4. ASSUME NEW f \in Files
      PROVE  f \in Live <=> \/ f \in linked \/ f = handles[h].file
                            \/ \E g \in Handles \ {h} : handles[g].file = f
  BY DEF Live
<1>5. Live \subseteq Files /\ Live' \subseteq Files
  BY DEF Live
<1>. QED
  BY <1>2, <1>3, <1>4, <1>5 DEF LastOf

LEMMA LetGoPrivate ==
  ASSUME FileInv, TInv, NEW h \in Handles, IsOpen(h), LetGo(h), NEW handle,
         handle.file \in Files => handle.file \in linked,
         handles' = [handles EXCEPT ![h] = handle], UNCHANGED <<blocks, linked, wild>>,
         \A g \in Files : View(g) = tab[g] /\ View(g)' = tab'[g]
  PROVE  FileInv'
<1>1. /\ handles[h].file \in Live /\ Live \subseteq Files
      /\ Live' = IF LastOf(h) THEN Live \ {handles[h].file} ELSE Live
  <2>1. Live \subseteq Files
    BY DEF Live
  <2>. QED
    BY <2>1, LetGoLive
<1>2. CASE LastOf(h)
  <2> DEFINE f == handles[h].file
  <2>1. f \in Live /\ Live' = Live \ {f}
    BY <1>1, <1>2
  <2>2. tab' = [tab EXCEPT ![f] = NewInode] /\ disk' = Aged(disk, Named(Live \ {f}))
    BY <1>2 DEF LetGo
  <2>3. Used(blocks') = Used(blocks) \ {0}
    BY IndicesAreNat DEF Used
  <2> HIDE DEF f
  <2>. QED
    BY <2>1, <2>2, <2>3, GonePrivate
<1>3. CASE ~LastOf(h)
  <2>1. Live' = Live /\ tab' = tab /\ Shown' = Shown
    BY <1>1, <1>3 DEF LetGo, Shown
  <2>2. \A g \in Live : View(g)' = View(g)
    BY <1>1, <2>1
  <2>. QED
    BY <2>1, <2>2, SamePointersPrivate
<1>. QED
  BY <1>2, <1>3

\* Between requests, the inode on the device is the one a file has.
LEMMA RestViews ==
  ASSUME Serving, req' = Idle
  PROVE  \A g : View(g) = tab[g] /\ View(g)' = tab'[g]
BY DEF Serving, View, Idle

\* A handle is opened or closed, or a file made; one that was made has no block.
LEMMA HandlePrivate ==
  ASSUME FileInv, TInv, NEW h \in Handles,
         \/ Release(h) \/ ReopenFails(h)
         \/ \E f \in Files : Create(h, f) \/ Open(h, f)
  PROVE  FileInv'
<1>1. Serving /\ req' = Idle
  BY DEF Release, ReopenFails, Create, Open, Serving
<1>2. \A g : View(g) = tab[g] /\ View(g)' = tab'[g]
  BY <1>1, RestViews
<1>3. CASE Release(h) \/ ReopenFails(h)
  <2>1. PICK handle \in {Closed, Freed} : handles' = [handles EXCEPT ![h] = handle]
    BY <1>3 DEF Release, ReopenFails
  <2>2. handle.file \notin Files
    BY OpenMeans
  <2>3. IsOpen(h) /\ LetGo(h) /\ UNCHANGED <<blocks, linked, wild>>
    BY <1>3 DEF Release, ReopenFails
  <2>. QED
    BY <1>2, <2>1, <2>2, <2>3, LetGoPrivate
<1>4. /\ tab \in [Files -> Inodes] /\ handles \in [Handles -> HandleType]
      /\ Live \subseteq Files /\ Live' \subseteq Files
  BY TabType, HandleTypes DEF Live
<1>5. ASSUME NEW f \in Files, Create(h, f)
      PROVE  FileInv'
  <2>1. /\ handles[h] = Closed /\ f \notin Live
        /\ linked' \in {linked, linked \cup {f}}
        /\ tab' = [tab EXCEPT ![f] = NewInode]
        /\ handles' = [handles EXCEPT ![h] = [file |-> f, inode |-> NewInode]]
        /\ UNCHANGED <<blocks, disk, wild>>
    BY <1>5 DEF Create
  <2>2. Live' = Live \cup {f}
    BY <1>4, <2>1, OpenMeans DEF Live
  <2>3. View(f)' = NewInode /\ \A g \in Live : View(g)' = View(g)
    BY <1>2, <1>4, <2>1
  <2>4. Shown' = Shown /\ RootBlk \in Used(blocks')
    BY <2>1 DEF Shown, FileInv
  <2>5. \A g \in Live', k \in Keys :
          LET new == Ptr(View(g)', Shown', k)
          IN  new = 0 \/ (g \in Live /\ new = Ptr(View(g), Shown, k)
                          /\ new \in Used(blocks'))
    BY <2>1, <2>2, <2>3, <2>4, NewInodePtr, TableInUse
  <2>. QED
    BY <2>4, <2>5, TableSmaller
<1>6. ASSUME NEW f \in Files, Open(h, f)
      PROVE  FileInv'
  <2>1. /\ handles[h] = Closed /\ f \in linked
        /\ handles' = [handles EXCEPT ![h] = [file |-> f, inode |-> tab[f]]]
        /\ UNCHANGED <<blocks, linked, tab, disk, wild>>
    BY <1>6 DEF Open
  <2>2. Live' \subseteq Live
    BY <1>4, <2>1, OpenMeans DEF Live
  <2>3. Shown' = Shown /\ \A g \in Live : View(g)' = View(g)
    BY <1>2, <2>1 DEF Shown
  <2>. QED
    BY <2>1, <2>2, <2>3, SamePointersPrivate
<1>. QED
  BY <1>3, <1>5, <1>6

\* Reopening the handle leaves every other file as it is on the device.
LEMMA OnHandleViews ==
  ASSUME OneHandle, TInv, CopyInv, NEW h \in Handles,
         \/ Fgetattr(h)
         \/ \E off \in Offs, size \in Lens :
              WriteBegin(h, off, size) \/ ReadBegin(h, off, size)
  PROVE  /\ Serving /\ Reopen(h) /\ UNCHANGED <<phase, blocks, linked, wild>>
         /\ req = Idle /\ (req' = Idle \/ req'.h = h)
         /\ \A f \in Files : View(f)' = tab'[f] /\ View(f) = tab[f]
<1>1. /\ Serving /\ Reopen(h) /\ UNCHANGED <<phase, blocks, linked, wild>>
      /\ req = Idle /\ (req' = Idle \/ req'.h = h)
  <2>1. CASE Fgetattr(h)
    BY <2>1 DEF Fgetattr, Serving
  <2>2. ASSUME NEW off \in Offs, NEW size \in Lens,
               WriteBegin(h, off, size) \/ ReadBegin(h, off, size)
        PROVE  /\ Serving /\ Reopen(h) /\ UNCHANGED <<phase, blocks, linked, wild>>
               /\ req = Idle /\ req'.h = h
    BY <2>2 DEF WriteBegin, ReadBegin, Serving, Request
  <2>. QED
    BY <2>1, <2>2
<1>2. IsOpen(h)' /\ \A g \in Handles : IsOpen(g)' => InStep(g)'
  BY <1>1, ReopenBringsInStep, ReopenShape
<1>3. handles'[h].inode = tab'[handles'[h].file]
  BY <1>2 DEF InStep
<1>4. ASSUME NEW f \in Files
      PROVE  View(f)' = tab'[f] /\ View(f) = tab[f]
  <2>1. View(f) = tab[f]
    BY <1>1 DEF View, Idle
  <2>2. View(f)' = tab'[f]
    BY <1>1, <1>3 DEF View, Idle, File, Inode
  <2>. QED
    BY <2>1, <2>2
<1>. QED
  BY <1>1, <1>4

\* fgetattr, and the beginnings of reads and writes.
LEMMA OnHandlePrivate ==
  ASSUME OneHandle, TInv, CopyInv, FileInv, NEW h \in Handles,
         \/ Fgetattr(h)
         \/ \E off \in Offs, size \in Lens :
              WriteBegin(h, off, size) \/ ReadBegin(h, off, size)
  PROVE  FileInv'
<1>1. /\ Reopen(h) /\ UNCHANGED <<blocks, linked, wild>>
      /\ \A f \in Files : View(f)' = tab'[f] /\ View(f) = tab[f]
  BY OnHandleViews
<1>2. IsOpen(h)
  BY <1>1 DEF Reopen
<1>3. CASE UNCHANGED <<tab, disk, pos, handles>>
  <2>1. Live' = Live /\ Shown' = Shown /\ Live \subseteq Files
    BY <1>1, <1>3 DEF Live, Shown
  <2>. QED
    BY <1>1, <1>3, <2>1, SamePointersPrivate
<1>4. ASSUME NEW f \in PathTo(h), LetGo(h),
             handles' = [handles EXCEPT ![h] = [file |-> f, inode |-> Copy(h, f)]]
      PROVE  FileInv'
  <2> DEFINE handle == [file |-> f, inode |-> Copy(h, f)]
  <2>1. handle.file \in Files => handle.file \in linked
    BY DEF PathTo
  <2>2. handles' = [handles EXCEPT ![h] = handle]
    BY <1>4
  <2> HIDE DEF handle
  <2>. QED
    BY <1>1, <1>2, <1>4, <2>1, <2>2, LetGoPrivate
<1>. QED
  BY <1>1, <1>3, <1>4 DEF Reopen

\* What is released of a removed file is no other's.
LEMMA RemovePrivate ==
  ASSUME FileInv, TInv, NEW f \in Files, Remove(f) \/ LoseName(f)
  PROVE  FileInv'
<1>1. /\ Serving /\ req' = Idle /\ f \in linked /\ linked' = linked \ {f}
      /\ handles' = handles /\ wild' = wild
  BY DEF Remove, LoseName, Serving
<1>2. \A g : View(g) = tab[g] /\ View(g)' = tab'[g]
  BY <1>1, RestViews
<1>3. f \in Live /\ 0 \in 0 .. Direct - 1 /\ tab[f] \in Inodes
  BY <1>1, TabType, SizesAreNat DEF Live
<1>4. ASSUME \A h \in Handles : handles[h].file # f,
             tab' = [tab EXCEPT ![f] = NewInode],
             disk' = Aged(disk, Named(Live \ {f})),
             NEW first \in {0, tab[f].direct[0]}, blocks' = Released(blocks, first)
      PROVE  FileInv'
  <2>1. Live' = Live \ {f}
    BY <1>1, <1>4 DEF Live
  <2>2. first \in Indices \cup {0}
    BY <1>3 DEF Inodes, Pointers
  <2>3. Used(blocks') = Used(blocks) \ {first}
    BY <1>4, <2>2, ReleaseEffect DEF TInv, TypeOK
  <2>. QED
    BY <1>1, <1>2, <1>3, <1>4, <2>1, <2>3, GonePrivate
<1>5. CASE Remove(f)
  BY <1>4, <1>5 DEF Remove
<1>6. CASE LoseName(f)
  <2>1. CASE \E h \in Handles : handles[h].file = f
    <3>1. blocks' = blocks /\ tab' = tab /\ Shown' = Shown
      BY <1>6, <2>1 DEF LoseName, Shown
    <3>2. Live' \subseteq Live
      BY <1>1 DEF Live
    <3>. QED
      BY <1>2, <3>1, <3>2, SamePointersPrivate
  <2>2. CASE \A h \in Handles : handles[h].file # f
    <3>1. /\ tab' = [tab EXCEPT ![f] = NewInode] /\ disk' = Aged(disk, Named(Live \ {f}))
          /\ blocks' = blocks
      BY <1>6, <2>2 DEF LoseName
    <3>2. Live' = Live \ {f}
      BY <1>1, <2>2 DEF Live
    <3>3. Used(blocks') = Used(blocks) \ {0}
      BY <3>1, IndicesAreNat DEF Used
    <3>. QED
      BY <1>1, <1>2, <1>3, <3>1, <3>2, <3>3, GonePrivate
  <2>. QED
    BY <2>1, <2>2
<1>. QED
  BY <1>5, <1>6

\* A truncation takes the indices it releases out of the inode.
LEMMA TruncatePrivate ==
  ASSUME FileInv, TInv, NEW f \in Files, NEW size \in Sizes, Truncate(f, size)
  PROVE  FileInv'
<1> DEFINE cut == Cut(tab[f], size)
           idxs == {Pointer(tab[f], i) : i \in cut}
           named == UNION {NamedBy(tab'[g]) : g \in Live}
<1>1. CASE TruncateAborts(f, size)
  BY <1>1, EndPrivate DEF TruncateAborts, End
<1>2. CASE TruncateDone(f, size)
  <2>1. phase' = "up"
    BY <1>2 DEF TruncateDone, Truncate, Serving
  <2>2. /\ Serving /\ Serving' /\ f \in Live /\ Live' = Live
        /\ tab[f] \in Inodes /\ tab'[f] \in Inodes
        /\ \A g \in Files \ {f} : tab'[g] = tab[g]
        /\ \A i \in cut : Pointer(tab[f], i) # 0
        /\ blocks' = ReleasedAll(blocks, idxs)
        /\ \A i \in 0 .. Direct - 1 :
             tab'[f].direct[i] = IF i \in cut THEN 0 ELSE tab[f].direct[i]
        /\ tab'[f].indirect = IF Direct \in cut THEN 0 ELSE tab[f].indirect
        /\ disk' = Aged(disk, named)
        /\ handles' = handles /\ wild' = wild
    BY <2>1, TruncateEffect
  <2>3. cut \subseteq Nat
    <3>1. size \div BlkWords \in Nat
      BY <2>1, TruncateEffect
    <3>2. MaxEnd \div Sector \in Nat
      BY SizesAreNat, Division
    <3>3. tab[f].blkcnt \in Int
      BY <2>2, <3>2 DEF Inodes
    <3>. QED
      BY <3>1, <3>3 DEF Cut
  <2>4. /\ tab \in [Files -> Inodes] /\ Live \subseteq Files
        /\ \A g \in Files : tab'[g] \in Inodes
    BY <2>2, TabType DEF Live
  <2>5. \A g \in Files : View(g) = tab[g] /\ View(g)' = tab'[g]
    BY <2>2 DEF View, Idle, Serving
  <2>6. Used(blocks') = Used(blocks) \ idxs
    BY <2>2, ReleaseAllEffect DEF TInv, TypeOK
  <2> HIDE DEF cut, named
  \* The indices released are the file's, at the keys that are cut.
  <2>7. \A idx \in idxs : \E k \in Keys : k \in cut /\ k <= Direct /\ idx # 0
                                          /\ idx = Ptr(View(f), Shown, k)
    <3> SUFFICES ASSUME NEW i \in cut
                 PROVE  /\ i \in Keys /\ i <= Direct /\ Pointer(tab[f], i) # 0
                        /\ Pointer(tab[f], i) = Ptr(View(f), Shown, i)
      OBVIOUS
    <3>1. Pointer(tab[f], i) # 0 /\ i \in Nat
      BY <2>2, <2>3
    <3>2. i <= Direct
      BY <3>1, SizesAreNat DEF Pointer
    <3>3. i \in Keys
      BY <3>1, <3>2, SizesAreNat DEF Keys
    <3>4. Pointer(tab[f], i) = Ptr(tab[f], Shown, i)
      BY <3>1, <3>2, SizesAreNat DEF Ptr, Pointer
    <3>. QED
      BY <2>5, <3>1, <3>2, <3>3, <3>4
  <2>8. RootBlk \in Used(blocks')
    <3>1. RootBlk \notin idxs
      BY <2>2, <2>7, TableInUse
    <3>. QED
      BY <2>6, <3>1 DEF FileInv
  <2> HIDE DEF idxs
  <2>9. ASSUME NEW g \in Live', NEW k \in Keys, Ptr(View(g)', Shown', k) # 0
        PROVE  /\ g \in Live /\ Ptr(View(g)', Shown', k) = Ptr(View(g), Shown, k)
               /\ Ptr(View(g)', Shown', k) \in Used(blocks')
    <3>1. g \in Live /\ tab'[g] \in Inodes /\ View(g)' = tab'[g] /\ View(g) = tab[g]
      BY <2>2, <2>4, <2>5
    <3>2. Ptr(tab'[g], Shown', k) = Ptr(tab'[g], Shown, k)
      <4>1. NamedBy(tab'[g]) \subseteq named
        BY <3>1 DEF named
      <4>2. tab'[g].indirect # 0 => tab'[g].indirect \in Indices \cap named
        BY <3>1, <4>1, NamedByIt DEF Inodes, Pointers
      <4>3. tab'[g].indirect # 0 => SameInBlock(Shown, Shown', tab'[g].indirect)
        BY <2>2, <4>2, ShownAged
      <4>. QED
        BY <3>1, <4>3, PtrSame
    <3>3. Ptr(tab'[g], Shown, k) # 0
      BY <1>2, <2>9, <3>1, <3>2
    <3>4. /\ Ptr(tab'[g], Shown, k) = Ptr(tab[g], Shown, k)
          /\ g = f => ~(k \in cut /\ k <= Direct)
      <4>1. CASE g # f
        BY <2>2, <2>4, <3>1, <4>1
      <4>2. CASE g = f /\ k < Direct
        <5>1. k \in 0 .. Direct - 1
          BY <4>2, KeysAre
        <5>. QED
          BY <2>2, <3>3, <4>2, <5>1 DEF Ptr
      <4>3. CASE g = f /\ ~(k < Direct)
        <5>1. Direct \notin cut
          BY <2>2, <3>3, <4>3 DEF Ptr
        <5>2. k <= Direct => k = Direct
          BY <4>3, KeysAre, SizesAreNat
        <5>. QED
          BY <2>2, <4>3, <5>1, <5>2 DEF Ptr
      <4>. QED
        BY <4>1, <4>2, <4>3
    <3>5. Ptr(View(g), Shown, k) # 0 /\ Ptr(View(g), Shown, k) \in Used(blocks)
      BY <3>1, <3>3, <3>4, TableInUse
    <3>6. Ptr(View(g), Shown, k) \notin idxs
      <4> SUFFICES ASSUME NEW l \in Keys, l \in cut, l <= Direct,
                          Ptr(View(g), Shown, k) = Ptr(View(f), Shown, l)
                   PROVE  FALSE
        BY <2>7
      <4>1. g = f /\ k = l
        BY <2>2, <3>1, <3>5, TableApart
      <4>. QED
        BY <3>4, <4>1
    <3>. QED
      BY <2>6, <3>1, <3>2, <3>4, <3>5, <3>6
  <2>. QED
    BY <2>8, <2>9, TableSmaller
<1>. QED
  BY <1>1, <1>2 DEF Truncate

-----------------------------------------------------------------------------
(* Blocks are private while a write goes on                                *)

\* One index is taken that was not in use, and written down in one place.
LEMMA TableGrows ==
  ASSUME FileInv, Live' = Live,
         NEW f0 \in Live, NEW k0 \in Keys, NEW b \in Indices \ Used(blocks),
         Used(blocks') = Used(blocks) \cup {b},
         \A f \in Live, k \in Keys :
           Ptr(View(f)', Shown', k) =
             IF f = f0 /\ k = k0 THEN b ELSE Ptr(View(f), Shown, k)
  PROVE  FileInv'
<1>1. Live \subseteq Files
  BY DEF Live
<1>2. \A f \in Live, k \in Keys :
        /\ PtrTable'[f][k] = Ptr(View(f)', Shown', k)
        /\ PtrTable[f][k] = Ptr(View(f), Shown, k)
  BY <1>1 DEF PtrTable, Ptr
<1>3. \A f \in Live, k \in Keys :
        PtrTable'[f][k] = IF f = f0 /\ k = k0 THEN b ELSE PtrTable[f][k]
  BY <1>2
<1>4. Private(Live, PtrTable, Used(blocks)) /\ RootBlk \in Used(blocks)
  BY DEF FileInv
<1>5. Private(Live, PtrTable', Used(blocks) \cup {b})
  BY <1>3, <1>4, GrowPrivate
<1>6. Used(blocks)' = Used(blocks')
  BY DEF Used, exist
<1>. QED
  BY <1>4, <1>5, <1>6 DEF FileInv, Private

\* Two indices are taken, and written down in two places of one file.
LEMMA TableGrowsTwice ==
  ASSUME FileInv, Live' = Live,
         NEW f0 \in Live, NEW k0 \in Keys, NEW k1 \in Keys, k0 # k1,
         NEW a \in Indices \ Used(blocks), NEW b \in Indices \ (Used(blocks) \cup {a}),
         Used(blocks') = (Used(blocks) \cup {a}) \cup {b},
         \A f \in Live, k \in Keys :
           Ptr(View(f)', Shown', k) =
             IF f = f0 /\ k = k0 THEN a
             ELSE IF f = f0 /\ k = k1 THEN b ELSE Ptr(View(f), Shown, k)
  PROVE  FileInv'
<1> DEFINE half == [f \in Live |-> [k \in Keys |->
                      IF f = f0 /\ k = k0 THEN a ELSE PtrTable[f][k]]]
<1>1. Live \subseteq Files
  BY DEF Live
<1>2. \A f \in Live, k \in Keys :
        /\ PtrTable'[f][k] = Ptr(View(f)', Shown', k)
        /\ PtrTable[f][k] = Ptr(View(f), Shown, k)
  BY <1>1 DEF PtrTable, Ptr
<1>3. \A f \in Live, k \in Keys :
        half[f][k] = IF f = f0 /\ k = k0 THEN a ELSE PtrTable[f][k]
  OBVIOUS
<1> HIDE DEF half
<1>4. \A f \in Live, k \in Keys :
        PtrTable'[f][k] = IF f = f0 /\ k = k1 THEN b ELSE half[f][k]
  BY <1>2, <1>3
<1>5. Private(Live, PtrTable, Used(blocks)) /\ RootBlk \in Used(blocks)
  BY DEF FileInv
<1>6. Private(Live, half, Used(blocks) \cup {a})
  BY <1>3, <1>5, GrowPrivate
<1>7. Private(Live, PtrTable', (Used(blocks) \cup {a}) \cup {b})
  <2> DEFINE used == Used(blocks) \cup {a}
  <2>1. b \notin used /\ RootBlk \in used /\ Private(Live, half, used)
    BY <1>5, <1>6
  <2> HIDE DEF used
  <2>2. Private(Live, PtrTable', used \cup {b})
    BY <1>4, <2>1, GrowPrivate
  <2>. QED
    BY <2>2 DEF used
<1>8. Used(blocks)' = Used(blocks')
  BY DEF Used, exist
<1>. QED
  BY <1>5, <1>7, <1>8 DEF FileInv, Private

\* After a write has gone astray, what counts is the pointers in the inodes.
LEMMA WildPtr ==
  ASSUME NEW inode \in Inodes, NEW k \in Keys
  PROVE  Ptr(inode, [a \in Addresses |-> 0], k) =
           IF k <= Direct THEN Pointer(inode, k) ELSE 0
<1>1. CASE k < Direct \/ k = Direct
  BY <1>1, KeysAre, SizesAreNat DEF Ptr, Pointer
<1>2. CASE ~(k < Direct) /\ k # Direct
  <2>1. k - Direct - 1 \in 0 .. BlkWords - 1 /\ ~(k <= Direct)
    BY <1>2, KeysAre, SizesAreNat
  <2>2. inode.indirect # 0 => Addr(inode.indirect, k - Direct - 1) \in Addresses
    BY <2>1, AddrEffect DEF Inodes, Pointers
  <2>. QED
    BY <1>2, <2>1, <2>2 DEF Ptr
<1>. QED
  BY <1>1, <1>2

LEMMA PointerIsPtr ==
  ASSUME NEW inode, NEW dev, NEW k \in Keys, k <= Direct
  PROVE  Ptr(inode, dev, k) = Pointer(inode, k)
BY KeysAre, SizesAreNat DEF Ptr, Pointer

\* One pointer of an inode may be new, of a block that was not in use.
LEMMA WildPrivate ==
  ASSUME FileInv, wild', Live' = Live, Used(blocks) \subseteq Used(blocks'),
         \A f \in Live : View(f)' \in Inodes,
         NEW f0 \in Live, NEW k0 \in Keys, NEW b,
         b # 0 => b \in Used(blocks') \ Used(blocks),
         \A f \in Live, k \in Keys :
           k <= Direct =>
             Pointer(View(f)', k) =
               IF b # 0 /\ f = f0 /\ k = k0 THEN b ELSE Pointer(View(f), k)
  PROVE  FileInv'
<1> DEFINE half == [f \in Live |-> [k \in Keys |->
                      IF k <= Direct THEN PtrTable[f][k] ELSE 0]]
<1>1. \A f \in Live, k \in Keys :
        half[f][k] = IF k <= Direct THEN PtrTable[f][k] ELSE 0
  OBVIOUS
<1> HIDE DEF half
<1>2. Private(Live, PtrTable, Used(blocks)) /\ RootBlk \in Used(blocks)
  BY DEF FileInv
<1>3. Private(Live, half, Used(blocks))
  BY <1>1, <1>2 DEF Private
<1>4. \A f \in Live, k \in Keys :
        PtrTable'[f][k] = IF k <= Direct THEN Pointer(View(f)', k) ELSE 0
  <2>1. Live \subseteq Files
    BY DEF Live
  <2>2. \A f \in Live, k \in Keys :
          PtrTable'[f][k] = Ptr(View(f)', [a \in Addresses |-> 0], k)
    BY <2>1 DEF PtrTable, Ptr, Shown
  <2>. QED
    BY <2>2, WildPtr
<1>5. \A f \in Live, k \in Keys : k <= Direct => PtrTable[f][k] = Pointer(View(f), k)
  BY TableIs, PointerIsPtr
<1>6. \A f \in Live, k \in Keys :
        \/ PtrTable'[f][k] = half[f][k]
        \/ b # 0 /\ f = f0 /\ k = k0 /\ PtrTable'[f][k] = b
  BY <1>1, <1>4, <1>5
<1>7. b = 0 \/ b \notin Used(blocks)
  OBVIOUS
<1>8. Private(Live, PtrTable', Used(blocks'))
  BY <1>2, <1>3, <1>6, <1>7 DEF Private
<1>9. Used(blocks)' = Used(blocks')
  BY DEF Used, exist
<1>. QED
  BY <1>2, <1>8, <1>9 DEF FileInv, Private

\* The file that a request works on is seen by its handle's copy.
LEMMA WritingView ==
  ASSUME TInv, Writing
  PROVE  /\ File \in Live /\ Live \subseteq Files /\ View(File) = Inode
         /\ \A g \in Live \ {File} : View(g) = tab[g]
         /\ Inode \in Inodes /\ req # Idle /\ req.h \in Handles
         /\ FitsBlock(Offset, Chunk)
<1>1. req # Idle /\ req.op = "write"
  BY DEF Writing, Idle
<1>2. req.h \in Handles /\ Inode \in GoodInodes /\ File \in Files
  BY <1>1, RequestType
<1>3. File \in Live /\ Live \subseteq Files
  BY <1>1, <1>2 DEF Live, File
<1>4. FitsBlock(Offset, Chunk)
  BY ChunkFits DEF FitsBlock
<1>. QED
  BY <1>1, <1>2, <1>3, <1>4 DEF View, GoodInodes

\* The views after a round: the file's is its handle's new copy.
LEMMA WritingViewNext ==
  ASSUME TInv, Writing, req' # Idle, req'.op = "write", req'.h = req.h,
         tab' = tab, linked' = linked,
         handles' = handles
           \/ \E inode : handles' = [handles EXCEPT ![req.h].inode = inode]
  PROVE  /\ \A g \in Live :
              View(g)' = IF g = File THEN handles'[req.h].inode ELSE View(g)
         /\ Live' = Live /\ File' = File
<1>1. req.h \in Handles /\ \A g \in Live \ {File} : View(g) = tab[g]
  BY WritingView
<1>2. handles[req.h] \in [file : Files, inode : Inodes] 
  BY WritingView, RequestType
<1>3. handles \in [Handles -> HandleType]
  BY HandleTypes
<1>4. handles'[req.h].file = handles[req.h].file
      /\ \A h \in Handles \ {req.h} : handles'[h] = handles[h]
  BY <1>1, <1>2, <1>3
<1>5. File' = File
  BY <1>4 DEF File
<1>6. Live' = Live
  <2>1. \A h \in Handles : handles'[h].file = handles[h].file
    BY <1>4
  <2>. QED
    BY <2>1 DEF Live
<1>7. \A g : g = File => View(g)' = handles'[req.h].inode
  BY <1>5 DEF View, Inode
<1>8. \A g \in Live \ {File} : View(g)' = tab[g]
  BY <1>5 DEF View
<1>. QED
  BY <1>1, <1>5, <1>6, <1>7, <1>8

\* Where the index of the block at hand is written, if it is.
SlotKey == IF Num < Direct THEN Num ELSE Num + 1

LEMMA FoundIsPtr ==
  ASSUME TInv, Writing \/ Reading, ~Beyond
  PROVE  /\ SlotKey \in Keys /\ SlotKey # Direct
         /\ ~(Num < Direct) => SlotKey > Direct /\ SlotKey - Direct - 1 = Num - Direct
         /\ (Num < Direct \/ Inode.indirect # 0) => Ptr(Inode, disk, SlotKey) = Found
<1>1. Num \in Nat /\ Inode \in Inodes /\ ~(Num >= Direct + BlkWords)
  BY ChunkFits, RequestType DEF GoodInodes, Beyond
<1>2. CASE Num < Direct
  BY <1>1, <1>2, SizesAreNat DEF SlotKey, Keys, Ptr, Found, fs_find_blk
<1>3. CASE ~(Num < Direct)
  <2>1. /\ SlotKey = Num + 1 /\ SlotKey \in Keys /\ SlotKey > Direct
        /\ SlotKey - Direct - 1 = Num - Direct /\ Num - Direct \in 0 .. BlkWords - 1
    BY <1>1, <1>3, SizesAreNat DEF SlotKey, Keys
  <2>2. SlotKey # Direct /\ ~(SlotKey < Direct)
    BY <1>1, <2>1, SizesAreNat
  <2>3. ASSUME Inode.indirect # 0
        PROVE  Ptr(Inode, disk, SlotKey) = Found
    <3>1. Inode.indirect \in Indices
      BY <1>1, <2>3 DEF Inodes, Pointers
    <3>2. Slot(Inode, Num) = Addr(Inode.indirect, Num - Direct)
      BY <3>1 DEF Slot, Seek
    <3>3. Addr(Inode.indirect, Num - Direct) \in Addresses
      BY <2>1, <3>1, AddrEffect
    <3>4. Found = disk[Addr(Inode.indirect, Num - Direct)]
      BY <1>3, <3>2, <3>3 DEF Found, fs_find_blk, WordAt
    <3>. QED
      BY <2>1, <2>2, <2>3, <3>4 DEF Ptr
  <2>. QED
    BY <1>3, <2>1, <2>2, <2>3
<1>. QED
  BY <1>2, <1>3

\* Of the pointers in the inode at hand, one becomes b, or none if b is 0.
RecordedAt(inode, k0, b) ==
  \A k \in Keys : k <= Direct =>
    Pointer(inode, k) = IF b # 0 /\ k = k0 THEN b ELSE Pointer(Inode, k)

\* A round of a write, after which one has gone astray.
LEMMA WildRound ==
  ASSUME FileInv, TInv, Writing, wild', req' # Idle, req'.op = "write", req'.h = req.h,
         tab' = tab, linked' = linked, Used(blocks) \subseteq Used(blocks'),
         NEW k0 \in Keys, NEW b, b # 0 => b \in Used(blocks') \ Used(blocks),
         NEW inode \in Inodes,
         \/ handles' = handles /\ inode = Inode
         \/ handles' = [handles EXCEPT ![req.h].inode = inode],
         RecordedAt(inode, k0, b)
  PROVE  FileInv'
<1>1. /\ File \in Live /\ Live \subseteq Files /\ View(File) = Inode /\ req.h \in Handles
  BY WritingView
<1>2. /\ \A g \in Live :
           View(g)' = IF g = File THEN handles'[req.h].inode ELSE View(g)
      /\ Live' = Live
  BY WritingViewNext
<1>3. handles'[req.h].inode = inode
  <2>1. handles[req.h] \in [file : Files, inode : Inodes]
    BY WritingView, RequestType
  <2>. QED
    BY <1>1, <2>1, HandleTypes DEF Inode
<1>4. \A f \in Live : View(f) \in Inodes
  BY <1>1, ViewType DEF GoodInodes
<1>5. \A f \in Live : View(f)' \in Inodes
  BY <1>2, <1>3, <1>4
<1>6. \A f \in Live, k \in Keys :
        k <= Direct =>
          Pointer(View(f)', k) =
            IF b # 0 /\ f = File /\ k = k0 THEN b ELSE Pointer(View(f), k)
  <2> SUFFICES ASSUME NEW f \in Live, NEW k \in Keys, k <= Direct
               PROVE  Pointer(View(f)', k) =
                        IF b # 0 /\ f = File /\ k = k0 THEN b ELSE Pointer(View(f), k)
    OBVIOUS
  <2>1. CASE f = File
    <3>1. View(f)' = inode /\ View(f) = Inode
      BY <1>1, <1>2, <1>3, <2>1
    <3>. QED
      BY <2>1, <3>1 DEF RecordedAt
  <2>2. CASE f # File
    BY <1>2, <2>2
  <2>. QED
    BY <2>1, <2>2
<1>. QED
  BY <1>1, <1>2, <1>5, <1>6, WildPrivate

\* Until then, the table is what the device has.
LEMMA DiskInUse ==
  ASSUME FileInv, ~wild, NEW f \in Live, NEW k \in Keys, Ptr(View(f), disk, k) # 0
  PROVE  Ptr(View(f), disk, k) \in Used(blocks) \ {RootBlk}
<1>1. Shown = disk
  BY DEF Shown
<1>. QED
  BY <1>1, TableInUse

LEMMA DiskApart ==
  ASSUME FileInv, ~wild, NEW f \in Live, NEW k \in Keys, Ptr(View(f), disk, k) # 0,
         NEW g \in Live, NEW l \in Keys,
         Ptr(View(f), disk, k) = Ptr(View(g), disk, l)
  PROVE  f = g /\ k = l
<1>1. Shown = disk
  BY DEF Shown
<1>. QED
  BY <1>1, TableApart

\* An indirect block is in use, and no data block is one.
LEMMA IndirectInUse ==
  ASSUME FileInv, ~wild, NEW f \in Live, View(f).indirect # 0
  PROVE  View(f).indirect \in Indices \cap Used(blocks)
<1>1. Direct \in Keys /\ Ptr(View(f), disk, Direct) = View(f).indirect
  BY SizesAreNat DEF Keys, Ptr
<1>2. View(f).indirect \in Used(blocks)
  BY <1>1, DiskInUse
<1>. QED
  BY <1>2 DEF Used

LEMMA DataIsNotIndirect ==
  ASSUME FileInv, ~wild, NEW f \in Live, NEW k \in Keys, k # Direct,
         Ptr(View(f), disk, k) # 0, NEW g \in Live
  PROVE  View(g).indirect # Ptr(View(f), disk, k)
<1>1. Direct \in Keys /\ Ptr(View(g), disk, Direct) = View(g).indirect
  BY SizesAreNat DEF Keys, Ptr
<1>. QED
  BY <1>1, DiskApart

(* What a round has written when block b holds its chunk: the index of b   *)
(* is in its place, the other indices of blocks of data are where they     *)
(* were, and the words changed are in b, or in the indirect block.         *)
WroteTo(b) ==
  /\ \A f \in Live, k \in Keys :
       k # Direct =>
         Ptr(View(f)', disk', k) =
           IF f = File /\ k = SlotKey THEN b ELSE Ptr(View(f), disk, k)
  /\ \A blk \in Used(blocks) :
       blk # b /\ blk # Inode.indirect => SameInBlock(disk, disk', blk)
  /\ \A at \in 0 .. BlkWords - 1 :
       at - (Offset % BlkWords) \in 0 .. Chunk - 1 =>
         disk'[Addr(b, at)] = Own(File, Offset + at - (Offset % BlkWords))

LEMMA UsedAreIndices == \A grps : Used(grps) \subseteq Indices
BY DEF Used

LEMMA SavedHere ==
  ASSUME NEW dev, NEW b \in Indices, FitsBlock(Offset, Chunk),
         disk' = SavedIn(dev, b, File, Offset, Chunk)
  PROVE  \A at \in 0 .. BlkWords - 1 :
           disk'[Addr(b, at)] =
             IF at - (Offset % BlkWords) \in 0 .. Chunk - 1
             THEN Own(File, Offset + at - (Offset % BlkWords)) ELSE dev[Addr(b, at)]
BY SavedEffect

\* The block was there: only its words change.
LEMMA WriteFoundEffect ==
  ASSUME FileInv, TInv, ~wild, WriteFound
  PROVE  /\ Found \in Used(blocks) /\ Ptr(View(File), disk, SlotKey) = Found
         /\ WroteTo(Found)
         /\ \A f \in Live, k \in Keys : Ptr(View(f)', disk', k) = Ptr(View(f), disk, k)
         /\ \A at \in 0 .. BlkWords - 1 :
              at - (Offset % BlkWords) \notin 0 .. Chunk - 1 =>
                disk'[Addr(Found, at)] = disk[Addr(Found, at)]
         /\ FileInv'
<1>1. /\ Writing /\ ~Beyond /\ Found # 0 /\ Found \in Indices
      /\ Num < Direct \/ Inode.indirect # 0
      /\ SaveChunk(disk, Found) /\ blocks' = blocks /\ handles' = handles
  <2>1. Num \in Nat
    BY ChunkFits DEF WriteFound
  <2>. QED
    BY <2>1, SizesAreNat DEF WriteFound, IsStray
<1>2. /\ File \in Live /\ Live \subseteq Files /\ View(File) = Inode
      /\ FitsBlock(Offset, Chunk)
  BY <1>1, WritingView
<1>3. SlotKey \in Keys /\ SlotKey # Direct /\ Ptr(View(File), disk, SlotKey) = Found
  BY <1>1, <1>2, FoundIsPtr
<1>4. Found \in Used(blocks)
  BY <1>1, <1>2, <1>3, DiskInUse
<1>5. disk' = SavedIn(disk, Found, File, Offset, Chunk)
  BY <1>1 DEF SaveChunk, SavedIn
<1>6. /\ tab' = tab /\ linked' = linked /\ wild' = wild /\ req' # Idle
      /\ req'.op = "write" /\ req'.h = req.h
  BY <1>1, <1>2, SaveChunkType DEF Idle, TInv, TypeOK
<1>7. /\ \A g \in Live : View(g)' = View(g)
      /\ Live' = Live
  <2>1. /\ \A g \in Live :
             View(g)' = IF g = File THEN handles'[req.h].inode ELSE View(g)
        /\ Live' = Live
    BY <1>1, <1>6, WritingViewNext
  <2>2. handles'[req.h].inode = View(File)
    BY <1>1, <1>2 DEF Inode
  <2>. QED
    BY <2>1, <2>2
<1>8. \A blk \in Used(blocks) : blk # Found => SameInBlock(disk, disk', blk)
  BY <1>1, <1>2, <1>5, SavedElsewhere, UsedAreIndices
<1>9. ASSUME NEW f \in Live, NEW k \in Keys
      PROVE  Ptr(View(f)', disk', k) = Ptr(View(f), disk, k)
  <2>1. View(f) \in Inodes
    BY <1>2, ViewType DEF GoodInodes
  <2>2. View(f).indirect # Found
    BY <1>1, <1>2, <1>3, DataIsNotIndirect
  <2>3. View(f).indirect # 0 => SameInBlock(disk, disk', View(f).indirect)
    BY <1>8, <2>2, IndirectInUse
  <2>4. Ptr(View(f), disk', k) = Ptr(View(f), disk, k)
    BY <2>1, <2>3, PtrSame
  <2>. QED
    BY <1>7, <2>4
<1>10. \A at \in 0 .. BlkWords - 1 :
         disk'[Addr(Found, at)] =
           IF at - (Offset % BlkWords) \in 0 .. Chunk - 1
           THEN Own(File, Offset + at - (Offset % BlkWords)) ELSE disk[Addr(Found, at)]
  BY <1>1, <1>2, <1>5, SavedHere
<1>11. WroteTo(Found)
  BY <1>3, <1>8, <1>9, <1>10 DEF WroteTo
<1>12. FileInv'
  <2>1. RootBlk \in Used(blocks') /\ Shown' = disk' /\ Shown = disk
    BY <1>1, <1>6 DEF FileInv, Shown
  <2>2. ASSUME NEW f \in Live', NEW k \in Keys, Ptr(View(f)', Shown', k) # 0
        PROVE  /\ f \in Live /\ Ptr(View(f)', Shown', k) = Ptr(View(f), Shown, k)
               /\ Ptr(View(f)', Shown', k) \in Used(blocks')
    BY <1>1, <1>7, <1>9, <2>1, <2>2, DiskInUse
  <2>. QED
    BY <2>1, <2>2, TableSmaller
<1>. QED
  BY <1>3, <1>4, <1>9, <1>10, <1>11, <1>12

\* A word that is no index is none at all where the file has its own.
LEMMA MissingIsZero ==
  ASSUME FileInv, TInv, ~wild, Writing, ~Beyond, Found \notin Indices,
         Num < Direct \/ Inode.indirect # 0
  PROVE  Ptr(View(File), disk, SlotKey) = 0
<1>1. File \in Live /\ View(File) = Inode
  BY WritingView
<1>2. SlotKey \in Keys /\ Ptr(View(File), disk, SlotKey) = Found
  BY <1>1, FoundIsPtr
<1>. QED
  BY <1>1, <1>2, DiskInUse, UsedAreIndices

\* A block was missing, and its index is written into the inode.
LEMMA WriteDirectEffect ==
  ASSUME FileInv, TInv, ~wild, WriteDirect
  PROVE  /\ Ptr(View(File), disk, SlotKey) = 0
         /\ WroteTo(AllocIdx(blocks))
         /\ FileInv'
<1> DEFINE b == AllocIdx(blocks)
<1>1. /\ Writing /\ ~Beyond /\ Found \notin Indices /\ HasRoom(blocks) /\ Num < Direct
      /\ handles' = [handles EXCEPT ![req.h].inode.direct[Num] = b]
      /\ SaveChunk(disk, b) /\ blocks' = Allocated(blocks)
  BY DEF WriteDirect, Missing
<1>2. b \in Indices \ Used(blocks) /\ Used(blocks') = Used(blocks) \cup {b}
  BY <1>1, AllocType
<1> HIDE DEF b
<1>3. /\ File \in Live /\ Live \subseteq Files /\ View(File) = Inode
      /\ FitsBlock(Offset, Chunk) /\ Inode \in Inodes
  BY <1>1, WritingView
<1>4. /\ SlotKey \in Keys /\ SlotKey # Direct /\ SlotKey = Num
      /\ Ptr(View(File), disk, SlotKey) = 0
  BY <1>1, <1>3, FoundIsPtr, MissingIsZero DEF SlotKey
<1>5. disk' = SavedIn(disk, b, File, Offset, Chunk)
  BY <1>1 DEF SaveChunk, SavedIn
<1>6. /\ tab' = tab /\ linked' = linked /\ wild' = wild /\ req' # Idle
      /\ req'.op = "write" /\ req'.h = req.h
  BY <1>1, <1>2, SaveChunkType DEF Idle, TInv, TypeOK
<1> DEFINE inode == [Inode EXCEPT !.direct[Num] = b]
<1>7. handles' = [handles EXCEPT ![req.h].inode = inode] /\ req.h \in Handles
  BY <1>1, WritingView DEF Inode
<1>8. /\ inode.indirect = Inode.indirect
      /\ \A i \in 0 .. Direct - 1 :
           inode.direct[i] = IF i = Num THEN b ELSE Inode.direct[i]
      /\ inode \in Inodes
  <2> DEFINE direct == [Inode.direct EXCEPT ![Num] = b]
  <2>1. inode = [Inode EXCEPT !.direct = direct]
    OBVIOUS
  <2>2. \A i \in 0 .. Direct - 1 : direct[i] = IF i = Num THEN b ELSE Inode.direct[i]
    BY <1>3 DEF Inodes
  <2>3. direct \in [0 .. Direct - 1 -> Pointers]
    BY <1>2, <1>3 DEF Inodes, Pointers
  <2> HIDE DEF direct, inode
  <2>4. inode \in Inodes /\ inode.direct = direct /\ inode.indirect = Inode.indirect
    BY <1>3, <2>1, <2>3 DEF Inodes
  <2>. QED
    BY <2>2, <2>4
<1> HIDE DEF inode
<1>9. /\ \A g \in Live : View(g)' = IF g = File THEN inode ELSE View(g)
      /\ Live' = Live
  <2>1. /\ \A g \in Live :
             View(g)' = IF g = File THEN handles'[req.h].inode ELSE View(g)
        /\ Live' = Live
    BY <1>1, <1>6, <1>7, WritingViewNext
  <2>2. handles'[req.h].inode = inode
    BY <1>7, WritingView, <1>1, RequestType DEF TInv, TypeOK
  <2>. QED
    BY <2>1, <2>2
<1>10. \A blk \in Used(blocks) : blk # b => SameInBlock(disk, disk', blk)
  BY <1>2, <1>3, <1>5, SavedElsewhere, UsedAreIndices
<1>11. ASSUME NEW f \in Live, NEW k \in Keys
       PROVE  Ptr(View(f)', disk', k) =
                IF f = File /\ k = SlotKey THEN b ELSE Ptr(View(f), disk, k)
  <2>1. View(f) \in Inodes /\ View(f)' \in Inodes /\ View(f)'.indirect = View(f).indirect
    BY <1>3, <1>8, <1>9, ViewType DEF GoodInodes
  <2>2. View(f)'.indirect # 0 => SameInBlock(disk, disk', View(f)'.indirect)
    <3>1. View(f).indirect # 0 => View(f).indirect \in Used(blocks)
      BY IndirectInUse
    <3>. QED
      BY <1>2, <1>10, <2>1, <3>1
  <2>3. Ptr(View(f)', disk', k) = Ptr(View(f)', disk, k)
    BY <2>1, <2>2, PtrSame
  <2>4. Ptr(View(f)', disk, k) =
          IF f = File /\ k = SlotKey THEN b ELSE Ptr(View(f), disk, k)
    <3>1. CASE f # File
      BY <1>9, <3>1
    <3>2. CASE f = File /\ k < Direct
      <4>1. k \in 0 .. Direct - 1
        BY <3>2, KeysAre
      <4>. QED
        BY <1>3, <1>4, <1>8, <1>9, <3>2, <4>1 DEF Ptr
    <3>3. CASE f = File /\ ~(k < Direct)
      BY <1>1, <1>3, <1>4, <1>8, <1>9, <3>3 DEF Ptr
    <3>. QED
      BY <3>1, <3>2, <3>3
  <2>. QED
    BY <2>3, <2>4
<1>12. \A at \in 0 .. BlkWords - 1 :
         disk'[Addr(b, at)] =
           IF at - (Offset % BlkWords) \in 0 .. Chunk - 1
           THEN Own(File, Offset + at - (Offset % BlkWords)) ELSE disk[Addr(b, at)]
  BY <1>2, <1>3, <1>5, SavedHere
<1>13. WroteTo(b)
  BY <1>10, <1>11, <1>12 DEF WroteTo
<1>14. FileInv'
  <2>1. Shown' = disk' /\ Shown = disk
    BY <1>6 DEF Shown
  <2>. QED
    BY <1>2, <1>3, <1>4, <1>6, <1>9, <1>11, <2>1, TableGrows
<1>. QED
  BY <1>4, <1>13, <1>14 DEF b

\* Or into the indirect block.
LEMMA WriteIndirectEffect ==
  ASSUME FileInv, TInv, ~wild, WriteIndirect
  PROVE  /\ Ptr(View(File), disk, SlotKey) = 0
         /\ WroteTo(AllocIdx(blocks))
         /\ FileInv'
<1> DEFINE b   == AllocIdx(blocks)
           ind == Inode.indirect
           dev == [disk EXCEPT ![Addr(ind, Num - Direct)] = b]
<1>1. /\ Writing /\ ~Beyond /\ Found \notin Indices /\ HasRoom(blocks) /\ ~(Num < Direct)
      /\ ind # 0 /\ handles' = handles
      /\ SaveChunk(dev, b) /\ blocks' = Allocated(blocks)
  <2>1. Num \in Nat
    BY ChunkFits DEF WriteIndirect, Missing
  <2>. QED
    BY <2>1, SizesAreNat DEF WriteIndirect, Missing
<1>2. b \in Indices \ Used(blocks) /\ Used(blocks') = Used(blocks) \cup {b}
  BY <1>1, AllocType
<1> HIDE DEF b
<1>3. /\ File \in Live /\ Live \subseteq Files /\ View(File) = Inode
      /\ FitsBlock(Offset, Chunk) /\ Inode \in Inodes
  BY <1>1, WritingView
<1>4. /\ SlotKey \in Keys /\ SlotKey # Direct /\ SlotKey > Direct
      /\ SlotKey - Direct - 1 = Num - Direct
      /\ Ptr(View(File), disk, SlotKey) = 0
  BY <1>1, <1>3, FoundIsPtr, MissingIsZero
<1>5. dev \in [Addresses -> Words]
  BY <1>2, PutType DEF TInv, TypeOK
<1>6. Num - Direct \in 0 .. BlkWords - 1
  BY <1>1, FindType
<1>7. ind \in Indices \cap Used(blocks)
  BY <1>1, <1>3, IndirectInUse
<1>8. Addr(ind, Num - Direct) \in Addresses
  BY <1>6, <1>7, AddrEffect
<1>9. dev[Addr(ind, Num - Direct)] = b
  BY <1>8 DEF TInv, TypeOK
<1>10. \A blk \in Used(blocks) : blk # ind => SameInBlock(disk, dev, blk)
  BY <1>6, <1>7, PutElsewhere, UsedAreIndices
<1>11. dev = [disk EXCEPT ![Addr(ind, Num - Direct)] = b]
  OBVIOUS
<1>12. ind = Inode.indirect
  OBVIOUS
<1> HIDE DEF dev, ind
<1>13. disk' = SavedIn(dev, b, File, Offset, Chunk)
  BY <1>1 DEF SaveChunk, SavedIn
<1>14. /\ tab' = tab /\ linked' = linked /\ wild' = wild /\ req' # Idle
       /\ req'.op = "write" /\ req'.h = req.h
  BY <1>1, <1>2, <1>5, SaveChunkType DEF Idle, TInv, TypeOK
<1>15. /\ \A g \in Live : View(g)' = View(g)
       /\ Live' = Live
  <2>1. /\ \A g \in Live :
             View(g)' = IF g = File THEN handles'[req.h].inode ELSE View(g)
        /\ Live' = Live
    BY <1>1, <1>14, WritingViewNext
  <2>2. handles'[req.h].inode = View(File)
    BY <1>1, <1>3 DEF Inode
  <2>. QED
    BY <2>1, <2>2
<1>16. \A blk \in Used(blocks) : SameInBlock(dev, disk', blk)
  BY <1>2, <1>3, <1>13, SavedElsewhere, UsedAreIndices
<1>17. \A blk \in Used(blocks) : blk # ind => SameInBlock(disk, disk', blk)
  BY <1>10, <1>16 DEF SameInBlock
<1>18. ASSUME NEW f \in Live, NEW k \in Keys
       PROVE  Ptr(View(f)', disk', k) =
                IF f = File /\ k = SlotKey THEN b ELSE Ptr(View(f), disk, k)
  <2>1. View(f) \in Inodes /\ View(f)' = View(f)
    BY <1>3, <1>15, ViewType DEF GoodInodes
  <2>2. CASE f # File
    <3>1. View(f).indirect # 0 =>
            View(f).indirect \in Used(blocks) /\ View(f).indirect # ind
      <4> SUFFICES ASSUME View(f).indirect # 0
                   PROVE  View(f).indirect \in Used(blocks) /\ View(f).indirect # ind
        OBVIOUS
      <4>1. /\ Direct \in Keys /\ Ptr(View(f), disk, Direct) = View(f).indirect
            /\ Ptr(View(File), disk, Direct) = ind
        BY <1>3, <1>12, SizesAreNat DEF Keys, Ptr
      <4>2. View(f).indirect # ind
        BY <1>3, <2>2, <4>1, DiskApart
      <4>. QED
        BY <4>2, IndirectInUse
    <3>2. View(f).indirect # 0 => SameInBlock(disk, disk', View(f).indirect)
      BY <1>17, <3>1
    <3>3. Ptr(View(f), disk', k) = Ptr(View(f), disk, k)
      BY <2>1, <3>2, PtrSame
    <3>. QED
      BY <2>1, <2>2, <3>3
  <2>3. CASE f = File
    <3>1. Ptr(View(f), disk', k) = Ptr(View(f), dev, k)
      <4>1. View(f).indirect # 0 => SameInBlock(dev, disk', View(f).indirect)
        BY <1>16, IndirectInUse
      <4>. QED
        BY <2>1, <4>1, PtrSame
    <3>2. View(f).indirect = ind
      BY <1>3, <1>12, <2>3
    <3>3. CASE k = SlotKey
      <4>1. ~(k < Direct) /\ k # Direct /\ k - Direct - 1 = Num - Direct
        BY <1>4, <3>3, KeysAre, SizesAreNat
      <4>2. Ptr(View(f), dev, k) = b
        BY <1>1, <1>9, <3>2, <4>1 DEF Ptr
      <4>. QED
        BY <2>1, <2>3, <3>1, <3>3, <4>2
    <3>4. CASE k < Direct \/ k = Direct
      <4>1. k # SlotKey
        BY <1>4, <3>4, KeysAre, SizesAreNat
      <4>2. Ptr(View(f), dev, k) = Ptr(View(f), disk, k)
        BY <3>4 DEF Ptr
      <4>. QED
        BY <2>1, <2>3, <3>1, <4>1, <4>2
    <3>5. CASE ~(k < Direct) /\ k # Direct /\ k # SlotKey
      <4>1. k - Direct - 1 \in 0 .. BlkWords - 1 /\ k - Direct - 1 # Num - Direct
        BY <1>4, <3>5, KeysAre, SizesAreNat
      <4>2. Addr(ind, k - Direct - 1) # Addr(ind, Num - Direct)
        <5>1. /\ Addr(ind, k - Direct - 1) % BlkWords = k - Direct - 1
              /\ Addr(ind, Num - Direct) % BlkWords = Num - Direct
          BY <1>6, <1>7, <4>1, AddrEffect
        <5>. QED
          BY <4>1, <5>1
      <4>3. dev[Addr(ind, k - Direct - 1)] = disk[Addr(ind, k - Direct - 1)]
        BY <1>11, <4>2
      <4>. QED
        BY <1>1, <1>3, <1>12, <2>1, <2>3, <3>1, <3>5, <4>3 DEF Ptr
    <3>. QED
      BY <3>3, <3>4, <3>5
  <2>. QED
    BY <2>2, <2>3
<1>19. \A at \in 0 .. BlkWords - 1 :
         disk'[Addr(b, at)] =
           IF at - (Offset % BlkWords) \in 0 .. Chunk - 1
           THEN Own(File, Offset + at - (Offset % BlkWords)) ELSE dev[Addr(b, at)]
  BY <1>2, <1>3, <1>13, SavedHere
<1>20. WroteTo(b)
  BY <1>17, <1>18, <1>19, <1>12 DEF WroteTo
<1>21. FileInv'
  <2>1. Shown' = disk' /\ Shown = disk
    BY <1>14 DEF Shown
  <2>. QED
    BY <1>2, <1>3, <1>4, <1>14, <1>15, <1>18, <2>1, TableGrows
<1>. QED
  BY <1>4, <1>20, <1>21 DEF b

\* The indirect block was missing as well: it is taken, cleared, and written.
LEMMA WriteNewIndirectEffect ==
  ASSUME FileInv, TInv, ~wild, WriteNewIndirect
  PROVE  /\ Ptr(View(File), disk, SlotKey) = 0
         /\ WroteTo(AllocIdx(Allocated(blocks)))
         /\ FileInv'
<1> DEFINE ind   == AllocIdx(blocks)
           b     == AllocIdx(Allocated(blocks))
           clear == Cleared(disk, ind)
           dev   == [clear EXCEPT ![Addr(ind, Num - Direct)] = b]
<1>1. /\ Writing /\ ~Beyond /\ HasRoom(blocks) /\ HasRoom(Allocated(blocks))
      /\ ~(Num < Direct) /\ Inode.indirect = 0
      /\ handles' = [handles EXCEPT ![req.h].inode.indirect = ind]
      /\ SaveChunk(dev, b) /\ blocks' = Allocated(Allocated(blocks))
  <2>1. Num \in Nat
    BY ChunkFits DEF WriteNewIndirect, Missing
  <2>. QED
    BY <2>1, SizesAreNat DEF WriteNewIndirect, Missing
<1>2. /\ ind \in Indices \ Used(blocks) /\ b \in Indices \ (Used(blocks) \cup {ind})
      /\ Used(blocks') = (Used(blocks) \cup {ind}) \cup {b}
  BY <1>1, AllocType
<1> HIDE DEF ind, b
<1>3. /\ File \in Live /\ Live \subseteq Files /\ View(File) = Inode
      /\ FitsBlock(Offset, Chunk) /\ Inode \in Inodes
  BY <1>1, WritingView
<1>4. /\ SlotKey \in Keys /\ SlotKey # Direct /\ SlotKey > Direct
      /\ SlotKey - Direct - 1 = Num - Direct /\ Direct \in Keys
  BY <1>1, <1>3, FoundIsPtr, SizesAreNat DEF Keys
<1>5. \A k \in Keys : ~(k < Direct) => Ptr(Inode, disk, k) = 0
  BY <1>1, KeysAre DEF Ptr
<1>6. Ptr(View(File), disk, SlotKey) = 0
  BY <1>3, <1>4, <1>5, KeysAre, SizesAreNat
<1>7. Num - Direct \in 0 .. BlkWords - 1
  BY <1>1, FindType
<1>8. clear \in [Addresses -> Words]
  BY <1>2, ClearedType DEF TInv, TypeOK
<1>9. \A k \in 0 .. BlkWords - 1 : clear[Addr(ind, k)] = 0 /\ Addr(ind, k) \in Addresses
  BY <1>2, ClearedHere, AddrEffect
<1>10. \A blk \in Indices : blk # ind => SameInBlock(disk, clear, blk)
  BY <1>2, ClearedElsewhere
<1>11. clear = Cleared(disk, ind)
  OBVIOUS
<1> HIDE DEF clear
<1>12. \A blk \in Indices : blk # ind => SameInBlock(clear, dev, blk)
  BY <1>2, <1>7, PutElsewhere
<1>13. \A k \in 0 .. BlkWords - 1 :
         dev[Addr(ind, k)] = IF k = Num - Direct THEN b ELSE 0
  <2>1. \A k \in 0 .. BlkWords - 1 : Addr(ind, k) % BlkWords = k
    BY <1>2, AddrEffect
  <2>. QED
    BY <1>7, <1>8, <1>9, <2>1
<1>14. dev \in [Addresses -> Words]
  BY <1>2, <1>8, PutType
<1> HIDE DEF dev
<1>15. disk' = SavedIn(dev, b, File, Offset, Chunk)
  BY <1>1 DEF SaveChunk, SavedIn
<1>16. /\ tab' = tab /\ linked' = linked /\ wild' = wild /\ req' # Idle
       /\ req'.op = "write" /\ req'.h = req.h
  BY <1>1, <1>2, <1>14, SaveChunkType DEF Idle, TInv, TypeOK
<1>17. \A blk \in Indices : blk # b => SameInBlock(dev, disk', blk)
  BY <1>2, <1>3, <1>15, SavedElsewhere
<1>18. \A blk \in Used(blocks) : blk # b => SameInBlock(disk, disk', blk)
  BY <1>2, <1>10, <1>12, <1>17, UsedAreIndices DEF SameInBlock
<1> DEFINE inode == [Inode EXCEPT !.indirect = ind]
<1>19. handles' = [handles EXCEPT ![req.h].inode = inode] /\ req.h \in Handles
  BY <1>1, WritingView DEF Inode
<1>20. inode \in Inodes /\ inode.indirect = ind /\ inode.direct = Inode.direct
  BY <1>2, <1>3 DEF Inodes, Pointers
<1> HIDE DEF inode
<1>21. /\ \A g \in Live : View(g)' = IF g = File THEN inode ELSE View(g)
       /\ Live' = Live
  <2>1. /\ \A g \in Live :
             View(g)' = IF g = File THEN handles'[req.h].inode ELSE View(g)
        /\ Live' = Live
    BY <1>1, <1>16, <1>19, WritingViewNext
  <2>2. handles'[req.h].inode = inode
    BY <1>19, WritingView, <1>1, RequestType DEF TInv, TypeOK
  <2>. QED
    BY <2>1, <2>2
<1>22. ASSUME NEW f \in Live, NEW k \in Keys
       PROVE  Ptr(View(f)', disk', k) =
                IF f = File /\ k = Direct THEN ind
                ELSE IF f = File /\ k = SlotKey THEN b ELSE Ptr(View(f), disk, k)
  <2>1. CASE f # File
    <3>1. View(f)' = View(f) /\ View(f) \in Inodes
      BY <1>3, <1>21, <2>1, ViewType DEF GoodInodes
    <3>2. View(f).indirect # 0 => SameInBlock(disk, disk', View(f).indirect)
      BY <1>2, <1>18, IndirectInUse
    <3>3. Ptr(View(f), disk', k) = Ptr(View(f), disk, k)
      BY <3>1, <3>2, PtrSame
    <3>. QED
      BY <2>1, <3>1, <3>3
  <2>2. CASE f = File
    <3>1. View(f)' = inode
      BY <1>3, <1>21, <2>2
    <3>2. CASE k < Direct
      <4>1. k # Direct /\ k # SlotKey
        BY <1>4, <3>2, KeysAre, SizesAreNat
      <4>2. Ptr(inode, disk', k) = Inode.direct[k] /\ Ptr(Inode, disk, k) = Inode.direct[k]
        BY <1>20, <3>2 DEF Ptr
      <4>. QED
        BY <1>3, <2>2, <3>1, <4>1, <4>2
    <3>3. CASE k = Direct
      <4>1. ~(k < Direct)
        BY <3>3, SizesAreNat
      <4>2. Ptr(inode, disk', k) = ind
        BY <1>20, <3>3, <4>1 DEF Ptr
      <4>. QED
        BY <2>2, <3>1, <3>3, <4>2
    <3>4. CASE ~(k < Direct) /\ k # Direct
      <4>1. k - Direct - 1 \in 0 .. BlkWords - 1
        BY <3>4, KeysAre
      <4>2. k = SlotKey <=> k - Direct - 1 = Num - Direct
        BY <1>4, KeysAre, SizesAreNat
      <4>3. inode.indirect # 0
        BY <1>2, <1>20, IndicesAreNat
      <4>4. Ptr(inode, disk', k) = disk'[Addr(ind, k - Direct - 1)]
        BY <1>20, <3>4, <4>3 DEF Ptr
      <4>5. disk'[Addr(ind, k - Direct - 1)] = dev[Addr(ind, k - Direct - 1)]
        BY <1>2, <1>17, <4>1 DEF SameInBlock
      <4>6. dev[Addr(ind, k - Direct - 1)] = IF k = SlotKey THEN b ELSE 0
        BY <1>13, <4>1, <4>2
      <4>7. Ptr(View(f), disk, k) = 0
        BY <1>3, <1>5, <2>2, <3>4
      <4>. QED
        BY <2>2, <3>1, <3>4, <4>4, <4>5, <4>6, <4>7
    <3>. QED
      BY <3>2, <3>3, <3>4
  <2>. QED
    BY <2>1, <2>2
<1>23. \A at \in 0 .. BlkWords - 1 :
         disk'[Addr(b, at)] =
           IF at - (Offset % BlkWords) \in 0 .. Chunk - 1
           THEN Own(File, Offset + at - (Offset % BlkWords)) ELSE dev[Addr(b, at)]
  BY <1>2, <1>3, <1>15, SavedHere
<1>24. WroteTo(b)
  BY <1>18, <1>22, <1>23 DEF WroteTo
<1>25. FileInv'
  <2>1. Shown' = disk' /\ Shown = disk
    BY <1>16 DEF Shown
  <2>. QED
    BY <1>2, <1>3, <1>4, <1>16, <1>21, <1>22, <2>1, TableGrowsTwice
<1>. QED
  BY <1>6, <1>24, <1>25 DEF b

\* At the end of a write its inode goes to the device, with another size.
LEMMA WriteEndEffect ==
  ASSUME FileInv, TInv, WriteEnd
  PROVE  /\ req # Idle /\ File \in Live /\ Live' = Live
         /\ \A f \in Live : /\ View(f)'.direct = View(f).direct
                              /\ View(f)'.indirect = View(f).indirect
         /\ FileInv'
<1>1. req.op = "write" /\ req # Idle /\ req' = Idle
      /\ UNCHANGED <<phase, blocks, linked, disk, wild>>
  BY DEF WriteEnd, Idle
<1>2. req.h \in Handles /\ Inode \in Inodes /\ File \in Files
      /\ handles[req.h] \in [file : Files, inode : Inodes]
  BY <1>1, RequestType DEF GoodInodes
<1>3. File \in Live /\ Live \subseteq Files
  BY <1>2 DEF Live, File
<1>4. PICK inode :
        /\ handles' = [handles EXCEPT ![req.h].inode = inode]
        /\ tab' = [tab EXCEPT ![File] = inode]
        /\ inode.direct = Inode.direct /\ inode.indirect = Inode.indirect
  <2> DEFINE size  == IF Inode.size > req.off THEN req.total ELSE req.total + Inode.size
             inode == SetSize(Inode, size)
  <2>1. handles' = [handles EXCEPT ![req.h].inode = inode]
        /\ tab' = [tab EXCEPT ![File] = inode]
    BY DEF WriteEnd
  <2>2. inode.direct = Inode.direct /\ inode.indirect = Inode.indirect
    BY <1>2 DEF SetSize, Inodes
  <2>. QED
    BY <2>1, <2>2
<1>5. \A f \in Files : View(f)' = IF f = File THEN inode ELSE View(f)
  <2>1. \A f \in Files : View(f)' = tab'[f]
    BY <1>1 DEF View, Idle
  <2>2. \A f \in Files \ {File} : View(f) = tab[f]
    BY DEF View
  <2>. QED
    BY <1>2, <1>4, <2>1, <2>2, TabType
<1>6. View(File) = Inode
  BY <1>1 DEF View
<1>7. \A f \in Live : /\ View(f)'.direct = View(f).direct
                        /\ View(f)'.indirect = View(f).indirect
  BY <1>3, <1>4, <1>5, <1>6
<1>8. Live' = Live /\ Shown' = Shown
  <2>1. handles'[req.h].file = File
    BY <1>2, <1>4, HandleTypes DEF File
  <2>2. \A h \in Handles \ {req.h} : handles'[h] = handles[h]
    BY <1>2, <1>4, HandleTypes
  <2>3. \A h \in Handles : handles'[h].file = handles[h].file
    BY <2>1, <2>2 DEF File
  <2>. QED
    BY <1>1, <2>3 DEF Live, Shown
<1>9. FileInv'
  BY <1>1, <1>7, <1>8, SamePointersPrivate
<1>. QED
  BY <1>1, <1>3, <1>7, <1>8, <1>9

LEMMA ReadShape ==
  ASSUME TInv, ReadStep
  PROVE  /\ req # Idle /\ req.op = "read" /\ req'.op \in {"read", "none"}
         /\ UNCHANGED <<phase, blocks, linked, disk, tab, handles, reopen, wild>>
<1>1. req.op = "read" /\ UNCHANGED <<phase, blocks, linked, disk, tab, handles, reopen, wild>>
  <2>1. CASE ReadChunk
    BY <2>1 DEF ReadChunk, Reading
  <2>2. CASE ReadFails \/ ReadEnd
    BY <2>2 DEF ReadFails, ReadEnd, Reading
  <2>. QED
    BY <2>1, <2>2 DEF ReadStep
<1>2. Idle.op = "none"
  BY DEF Idle
<1>3. req # Idle
  BY <1>1, <1>2
<1>4. CASE ReadChunk
  <2>1. PICK n, buf : req' = [req EXCEPT !.total = n, !.buf = buf]
    BY <1>4 DEF ReadChunk
  <2>2. req \in ReqType
    BY <1>3, RequestType
  <2>3. req'.op = req.op
    BY <2>1, <2>2 DEF ReqType
  <2>. QED
    BY <1>1, <1>3, <2>3
<1>5. CASE ReadFails \/ ReadEnd
  <2>1. req' = Idle
    BY <1>5 DEF ReadFails, ReadEnd
  <2>. QED
    BY <1>1, <1>2, <1>3, <2>1
<1>. QED
  BY <1>4, <1>5 DEF ReadStep

\* Reads, and a write that finds no memory, leave the files as they are.
LEMMA QuietViews ==
  ASSUME TInv, WriteNoMemory \/ ReadStep \/ LookUp \/ UNCHANGED vars
  PROVE  /\ UNCHANGED <<phase, blocks, linked, disk, tab, handles, wild>>
         /\ Live' = Live
         /\ \A f : View(f)' = View(f)
<1>1. CASE WriteNoMemory
  <2>1. req # Idle /\ req' = [req EXCEPT !.size = req.total]
        /\ UNCHANGED <<phase, blocks, linked, disk, tab, handles, wild>>
    BY <1>1 DEF WriteNoMemory, Missing, Writing, Idle
  <2>2. req'.op = req.op /\ req'.h = req.h
    BY <2>1, RequestType DEF ReqType
  <2>. QED
    BY <2>1, <2>2 DEF View, File, Inode, Live
<1>2. CASE ReadStep
  BY <1>2, ReadShape DEF View, Live
<1>3. CASE LookUp \/ UNCHANGED vars
  <2>1. UNCHANGED <<phase, blocks, linked, disk, tab, handles, wild, req>>
    BY <1>3 DEF LookUp, vars
  <2>. QED
    BY <2>1 DEF View, File, Inode, Live
<1>. QED
  BY <1>1, <1>2, <1>3

LEMMA QuietPrivate ==
  ASSUME FileInv, TInv, WriteNoMemory \/ ReadStep \/ LookUp \/ UNCHANGED vars
  PROVE  FileInv'
<1>1. /\ UNCHANGED <<blocks, linked, disk, handles, wild>> /\ Live' = Live
      /\ \A f \in Live : View(f)' = View(f)
  BY QuietViews
<1>2. Shown' = Shown
  BY <1>1 DEF Shown
<1>. QED
  BY <1>1, <1>2, SamePointersPrivate

\* A round that changes no pointer, after a write has gone astray.
LEMMA WildRoundKeeps ==
  ASSUME FileInv, TInv, Writing, wild', req' # Idle, req'.op = "write", req'.h = req.h,
         UNCHANGED <<tab, linked, handles>>, Used(blocks) \subseteq Used(blocks')
  PROVE  FileInv'
<1> DEFINE b == 0
<1>1. 0 \in Keys /\ Inode \in Inodes
  BY WritingView, SizesAreNat DEF Keys
<1>2. b = 0
  OBVIOUS
<1> HIDE DEF b
<1>3. /\ b # 0 => b \in Used(blocks') \ Used(blocks)
      /\ \A k \in Keys : k <= Direct =>
           Pointer(Inode, k) = IF b # 0 /\ k = 0 THEN b ELSE Pointer(Inode, k)
  BY <1>2
<1>4. RecordedAt(Inode, 0, b)
  BY <1>3 DEF RecordedAt
<1>. QED
  BY <1>1, <1>3, <1>4, WildRound

\* The index of the indirect block is recorded.
LEMMA WildIndirect ==
  ASSUME FileInv, TInv, Writing, wild', req' # Idle, req'.op = "write", req'.h = req.h,
         UNCHANGED <<tab, linked>>, Used(blocks) \subseteq Used(blocks'),
         NEW b \in Indices, b \in Used(blocks') \ Used(blocks),
         handles' = [handles EXCEPT ![req.h].inode.indirect = b]
  PROVE  FileInv'
<1> DEFINE inode == [Inode EXCEPT !.indirect = b]
<1>1. handles' = [handles EXCEPT ![req.h].inode = inode]
  BY DEF Inode
<1>2. inode \in Inodes /\ inode.indirect = b /\ inode.direct = Inode.direct
  BY WritingView DEF Inodes, Pointers
<1> HIDE DEF inode
<1>3. Direct \in Keys /\ b # 0
  BY SizesAreNat, IndicesAreNat DEF Keys
<1>4. RecordedAt(inode, Direct, b)
  BY <1>2, <1>3, SizesAreNat DEF RecordedAt, Pointer
<1>5. b # 0 => b \in Used(blocks') \ Used(blocks)
  OBVIOUS
<1>6. inode \in Inodes /\ Direct \in Keys
  BY <1>2, <1>3
<1>7. \/ handles' = handles /\ inode = Inode
      \/ handles' = [handles EXCEPT ![req.h].inode = inode]
  BY <1>1
<1>8. tab' = tab /\ linked' = linked
  OBVIOUS
<1>. QED
  BY <1>4, <1>5, <1>6, <1>7, <1>8, WildRound

LEMMA AstrayPrivate ==
  ASSUME FileInv, TInv, WriteStrays \/ WriteBeyond \/ WriteStarved
  PROVE  FileInv'
<1>1. req # Idle /\ Writing
  BY DEF WriteStrays, WriteBeyond, WriteStarved, Missing, Writing, Idle
<1>2. ASSUME NEW blk \in Pointers, NEW at, Stray(blk, at)
      PROVE  FileInv'
  <2>1. CASE GiveUp("lost_write")
    BY <2>1, EndPrivate DEF GiveUp
  <2>2. CASE SaveAstray(disk, blk, at) /\ UNCHANGED <<blocks, handles>>
    <3>1. /\ req' \in ReqType /\ req'.op = "write" /\ req'.h = req.h
          /\ UNCHANGED <<linked, tab>> /\ wild' = TRUE
      BY <1>1, <2>2, SaveAstrayType
    <3>2. req' # Idle
      BY <3>1 DEF Idle
    <3>. QED
      BY <1>1, <2>2, <3>1, <3>2, WildRoundKeeps
  <2>. QED
    BY <1>2, <2>1, <2>2 DEF Stray
<1>3. CASE WriteStrays
  <2>1. TakenFor(Found) \subseteq Pointers
    BY DEF TakenFor, Pointers
  <2>. QED
    BY <1>2, <1>3, <2>1 DEF WriteStrays
<1>4. CASE WriteBeyond
  <2>1. req.blk = Unset \/ req.blk \in Pointers
    BY <1>1, RequestType DEF ReqType
  <2>. QED
    BY <1>2, <1>4, <2>1 DEF WriteBeyond
<1>5. CASE WriteStarved
  <2> DEFINE indirect == AllocIdx(blocks)
             behind   == After(Addr(indirect, Num - Direct), 1)
  <2>1. CASE /\ SaveAstray(Cleared(disk, indirect), 0, behind)
             /\ handles' = [handles EXCEPT ![req.h].inode.indirect = indirect]
             /\ blocks' = Allocated(blocks) /\ HasRoom(blocks)
    <3>1. 0 \in Pointers
      BY DEF Pointers
    <3>2. /\ req' \in ReqType /\ req'.op = "write" /\ req'.h = req.h
          /\ UNCHANGED <<linked, tab>> /\ wild' = TRUE
      BY <1>1, <2>1, <3>1, SaveAstrayType
    <3>3. req' # Idle
      BY <3>2 DEF Idle
    <3>4. /\ indirect \in Indices \ Used(blocks)
          /\ Used(blocks') = Used(blocks) \cup {indirect}
      BY <2>1, AllocType
    <3> HIDE DEF indirect, behind
    <3>. QED
      BY <1>1, <2>1, <3>2, <3>3, <3>4, WildIndirect
  <2>2. CASE GiveUp("lost_write")
    BY <2>2, EndPrivate DEF GiveUp
  <2>. QED
    BY <1>5, <2>1, <2>2 DEF WriteStarved
<1>. QED
  BY <1>3, <1>4, <1>5

LEMMA WildPrivateRounds ==
  ASSUME FileInv, TInv, wild,
         WriteFound \/ WriteDirect \/ WriteIndirect \/ WriteNewIndirect
  PROVE  FileInv'
<1>1. req # Idle /\ Writing
  BY DEF WriteFound, WriteDirect, WriteIndirect, WriteNewIndirect, Missing, Writing, Idle
<1>2. disk \in [Addresses -> Words]
  BY DEF TInv, TypeOK
<1>3. ASSUME NEW dev \in [Addresses -> Words], NEW blk \in Indices, SaveChunk(dev, blk)
      PROVE  /\ wild' /\ req' # Idle /\ req'.op = "write" /\ req'.h = req.h
             /\ UNCHANGED <<tab, linked>>
  <2>1. /\ req'.op = "write" /\ req'.h = req.h
        /\ tab' = tab /\ linked' = linked /\ wild' = wild
    BY <1>1, <1>3, SaveChunkType
  <2>2. Idle.op = "none"
    BY DEF Idle
  <2>. QED
    BY <2>1, <2>2
<1>4. CASE WriteFound
  <2>1. Found \in Indices /\ SaveChunk(disk, Found) /\ UNCHANGED <<blocks, handles>>
    BY <1>4 DEF WriteFound, IsStray
  <2>. QED
    BY <1>1, <1>3, <1>2, <2>1, WildRoundKeeps
<1>5. CASE WriteDirect
  <2> DEFINE b == AllocIdx(blocks)
             inode == [Inode EXCEPT !.direct[Num] = b]
  <2>1. /\ HasRoom(blocks) /\ Num < Direct /\ ~Beyond /\ SaveChunk(disk, b)
        /\ handles' = [handles EXCEPT ![req.h].inode = inode]
        /\ blocks' = Allocated(blocks)
    BY <1>5 DEF WriteDirect, Missing, Inode
  <2>2. b \in Indices \ Used(blocks) /\ Used(blocks') = Used(blocks) \cup {b}
    BY <2>1, AllocType
  <2> HIDE DEF b
  <2>3. Num \in 0 .. Direct - 1 /\ Num \in Keys /\ b # 0
    BY <1>1, <2>1, <2>2, FindType, SizesAreNat, IndicesAreNat DEF Keys
  <2>4. Inode \in Inodes
    BY <1>1, WritingView
  <2>5. inode \in Inodes /\ inode.indirect = Inode.indirect
        /\ \A i \in 0 .. Direct - 1 :
             inode.direct[i] = IF i = Num THEN b ELSE Inode.direct[i]
    <3> DEFINE direct == [Inode.direct EXCEPT ![Num] = b]
    <3>1. inode = [Inode EXCEPT !.direct = direct]
      OBVIOUS
    <3>2. direct \in [0 .. Direct - 1 -> Pointers]
      BY <2>2, <2>4 DEF Inodes, Pointers
    <3>3. \A i \in 0 .. Direct - 1 : direct[i] = IF i = Num THEN b ELSE Inode.direct[i]
      BY <2>4 DEF Inodes
    <3> HIDE DEF direct, inode
    <3>4. inode \in Inodes /\ inode.direct = direct /\ inode.indirect = Inode.indirect
      BY <2>4, <3>1, <3>2 DEF Inodes
    <3>. QED
      BY <3>3, <3>4
  <2> HIDE DEF inode
  <2>6. RecordedAt(inode, Num, b)
    BY <2>3, <2>5, KeysAre, SizesAreNat DEF RecordedAt, Pointer
  <2>7. Used(blocks) \subseteq Used(blocks') /\ b \in Used(blocks') \ Used(blocks)
    BY <2>2
  <2>. QED
    BY <1>1, <1>3, <1>2, <2>1, <2>2, <2>3, <2>5, <2>6, <2>7, WildRound
<1>6. CASE WriteIndirect
  <2> DEFINE b   == AllocIdx(blocks)
             dev == [disk EXCEPT ![Addr(Inode.indirect, Num - Direct)] = b]
  <2>1. /\ HasRoom(blocks) /\ SaveChunk(dev, b)
        /\ blocks' = Allocated(blocks) /\ handles' = handles
    BY <1>6 DEF WriteIndirect
  <2>2. b \in Indices \ Used(blocks) /\ Used(blocks') = Used(blocks) \cup {b}
    BY <2>1, AllocType
  <2>3. dev \in [Addresses -> Words]
    BY <1>2, <2>2, PutType
  <2> HIDE DEF b, dev
  <2>. QED
    BY <1>1, <1>3, <2>1, <2>2, <2>3, WildRoundKeeps
<1>7. CASE WriteNewIndirect
  <2> DEFINE indirect == AllocIdx(blocks)
             b        == AllocIdx(Allocated(blocks))
             clear    == Cleared(disk, indirect)
             dev      == [clear EXCEPT ![Addr(indirect, Num - Direct)] = b]
  <2>1. /\ HasRoom(blocks) /\ HasRoom(Allocated(blocks)) /\ SaveChunk(dev, b)
        /\ blocks' = Allocated(Allocated(blocks))
        /\ handles' = [handles EXCEPT ![req.h].inode.indirect = indirect]
    BY <1>7 DEF WriteNewIndirect
  <2>2. /\ indirect \in Indices \ Used(blocks) /\ b \in Indices
        /\ Used(blocks') = (Used(blocks) \cup {indirect}) \cup {b}
    BY <2>1, AllocType
  <2>3. clear \in [Addresses -> Words]
    BY <1>2, ClearedType
  <2> HIDE DEF clear
  <2>4. dev \in [Addresses -> Words]
    BY <2>2, <2>3, PutType
  <2> HIDE DEF indirect, b, dev
  <2>. QED
    BY <1>1, <1>3, <2>1, <2>2, <2>4, WildIndirect
<1>. QED
  BY <1>4, <1>5, <1>6, <1>7

LEMMA WriteStepPrivate ==
  ASSUME FileInv, TInv, WriteStep
  PROVE  FileInv'
<1>1. CASE WriteFaults
  BY <1>1, EndPrivate DEF WriteFaults, End
<1>2. CASE WriteFound \/ WriteDirect \/ WriteIndirect \/ WriteNewIndirect
  BY <1>2, WildPrivateRounds, WriteFoundEffect, WriteDirectEffect, WriteIndirectEffect,
     WriteNewIndirectEffect
<1>. QED
  BY <1>1, <1>2, AstrayPrivate, WriteEndEffect, QuietPrivate DEF WriteStep

LEMMA InitPrivate == Init => FileInv
<1> SUFFICES ASSUME Init PROVE FileInv
  OBVIOUS
<1>1. linked = {} /\ blocks = FreshBlocks /\ handles = [h \in Handles |-> Closed]
  BY DEF Init
<1>2. Live = {}
  BY <1>1, OpenMeans DEF Live
<1>. QED
  BY <1>1, <1>2, FreshBlocksType DEF FileInv, Private

LEMMA NextPrivate ==
  ASSUME OneHandle, FileInv, TInv, CopyInv, [Next]_vars
  PROVE  FileInv'
<1>1. CASE Restart \/ \E h \in Handles : ReleaseHidden(h) \/ UseFreed(h)
  BY <1>1, EndPrivate DEF Restart, ReleaseHidden, UseFreed, End, GiveUp
<1>2. ASSUME NEW h \in Handles,
             \/ Release(h) \/ ReopenFails(h)
             \/ \E f \in Files : Create(h, f) \/ Open(h, f)
      PROVE  FileInv'
  BY <1>2, HandlePrivate
<1>3. ASSUME NEW h \in Handles,
             \/ Fgetattr(h)
             \/ \E off \in Offs, size \in Lens :
                  WriteBegin(h, off, size) \/ ReadBegin(h, off, size)
      PROVE  FileInv'
  BY <1>3, OnHandlePrivate
<1>4. CASE \E f \in Files : Remove(f) \/ LoseName(f)
  BY <1>4, RemovePrivate
<1>5. CASE \E f \in Files, size \in Sizes : Truncate(f, size)
  BY <1>5, TruncatePrivate
<1>. QED
  BY <1>1, <1>2, <1>3, <1>4, <1>5, WriteStepPrivate, QuietPrivate DEF Next

LEMMA FileInvariant ==
  ASSUME OneHandle
  PROVE  Spec => [](FileInv /\ TInv /\ CopyInv)
<1>1. Init => FileInv /\ TInv /\ CopyInv
  <2>1. Init => CopyInv
    BY OpenMeans DEF Init, CopyInv, ReopenedFirst, CopiesAreTrue, IsOpen, Idle
  <2>. QED
    BY <2>1, InitType, InitPrivate
<1>2. FileInv /\ TInv /\ CopyInv /\ [Next]_vars => (FileInv /\ TInv /\ CopyInv)'
  BY NextType, CopiesStep, NextPrivate
<1>. QED
  BY <1>1, <1>2, PTL DEF Spec

-----------------------------------------------------------------------------
(* What private blocks are good for                                        *)

\* A place of BlocksPrivate is a key of the table.
KeyOf(place) ==
  IF place[2] <= Direct THEN place[2] ELSE (place[3] % BlkWords) + Direct + 1

LEMMA PlacesAreKeys ==
  ASSUME TInv, NEW f \in Files, NEW p \in Places(f)
  PROVE  /\ p[1] = f /\ KeyOf(p) \in Keys
         /\ IndexAt(p) = Ptr(View(f), Shown, KeyOf(p)) /\ IndexAt(p) # 0
         /\ \A q \in Places(f) : KeyOf(q) = KeyOf(p) => q = p
<1>1. View(f) \in Inodes
  BY ViewType DEF GoodInodes
<1> DEFINE InInode == {<<f, i>> : i \in {j \in 0 .. Direct : Pointer(View(f), j) # 0}}
           InBlock == {<<f, Direct + 1, a>> : a \in {b \in Slots(View(f)) : ~wild /\ disk[b] # 0}}
<1>2. Places(f) = InInode \cup InBlock
  BY DEF Places
<1>3. \A i \in 0 .. Direct : i <= Direct /\ i \in Keys /\ (i < Direct \/ i = Direct)
  BY SizesAreNat DEF Keys
<1>4. ASSUME NEW q \in InInode
      PROVE  /\ q = <<f, KeyOf(q)>> /\ KeyOf(q) \in 0 .. Direct
             /\ IndexAt(q) = Pointer(View(f), KeyOf(q)) /\ IndexAt(q) # 0
  <2>1. PICK i \in 0 .. Direct : q = <<f, i>> /\ Pointer(View(f), i) # 0
    BY <1>4
  <2>2. q[1] = f /\ q[2] = i
    BY <2>1
  <2>3. KeyOf(q) = i /\ IndexAt(q) = Pointer(View(f), i)
    BY <1>3, <2>2 DEF KeyOf, IndexAt
  <2>. QED
    BY <2>1, <2>3
<1>5. ASSUME NEW q \in InBlock
      PROVE  /\ View(f).indirect \in Indices /\ ~wild
             /\ q = <<f, Direct + 1, Addr(View(f).indirect, KeyOf(q) - Direct - 1)>>
             /\ KeyOf(q) \in Keys /\ KeyOf(q) > Direct
             /\ IndexAt(q) = disk[Addr(View(f).indirect, KeyOf(q) - Direct - 1)]
             /\ IndexAt(q) # 0
  <2>1. PICK a \in Slots(View(f)) : q = <<f, Direct + 1, a>> /\ disk[a] # 0 /\ ~wild
    BY <1>5
  <2>2. PICK k \in 0 .. BlkWords - 1 :
          View(f).indirect \in Indices /\ a = Addr(View(f).indirect, k)
    BY <1>1, SlotsAre
  <2>3. a % BlkWords = k
    BY <2>2, AddrEffect
  <2>4. q[1] = f /\ q[2] = Direct + 1 /\ q[3] = a /\ ~(Direct + 1 <= Direct)
    BY <2>1, SizesAreNat
  <2>5. KeyOf(q) = k + Direct + 1 /\ IndexAt(q) = disk[a]
    BY <2>3, <2>4 DEF KeyOf, IndexAt
  <2>6. KeyOf(q) \in Keys /\ KeyOf(q) > Direct /\ KeyOf(q) - Direct - 1 = k
    BY <2>5, SizesAreNat DEF Keys
  <2>. QED
    BY <2>1, <2>2, <2>5, <2>6
<1>6. \A q \in InInode, r \in InBlock : KeyOf(q) # KeyOf(r)
  BY <1>4, <1>5, SizesAreNat
<1> HIDE DEF InInode, InBlock
<1>7. CASE p \in InInode
  <2>1. p = <<f, KeyOf(p)>> /\ KeyOf(p) \in 0 .. Direct
        /\ IndexAt(p) = Pointer(View(f), KeyOf(p)) /\ IndexAt(p) # 0
    BY <1>4, <1>7
  <2>2. p[1] = f
    BY <2>1
  <2>3. Pointer(View(f), KeyOf(p)) = Ptr(View(f), Shown, KeyOf(p))
    BY <1>3, <2>1 DEF Pointer, Ptr
  <2>. QED
    BY <1>2, <1>3, <1>4, <1>6, <1>7, <2>1, <2>2, <2>3
<1>8. CASE p \in InBlock
  <2>1. /\ View(f).indirect \in Indices /\ Shown = disk
        /\ p = <<f, Direct + 1, Addr(View(f).indirect, KeyOf(p) - Direct - 1)>>
        /\ KeyOf(p) \in Keys /\ KeyOf(p) > Direct
        /\ IndexAt(p) = disk[Addr(View(f).indirect, KeyOf(p) - Direct - 1)]
        /\ IndexAt(p) # 0
    BY <1>5, <1>8 DEF Shown
  <2>2. p[1] = f
    BY <2>1
  <2>3. /\ ~(KeyOf(p) < Direct) /\ KeyOf(p) # Direct /\ View(f).indirect # 0
    BY <2>1, KeysAre, SizesAreNat, IndicesAreNat
  <2>4. IndexAt(p) = Ptr(View(f), Shown, KeyOf(p))
    BY <2>1, <2>3 DEF Ptr
  <2>. QED
    BY <1>2, <1>5, <1>6, <1>8, <2>1, <2>2, <2>4
<1>. QED
  BY <1>2, <1>7, <1>8

(* With one open handle, no two pointers of inodes, and until a write has  *)
(* gone astray no two words of indirect blocks either, name one block; it  *)
(* is in use as long as it is named, and is not the root directory's.  No  *)
(* removal, truncation, lost name or end of the process leaves a block to  *)
(* two owners, nor does an allocation that stops halfway by itself: only   *)
(* what its data overwrites, which then may be taken for block indices.    *)
THEOREM BlocksArePrivate ==
  ASSUME OneHandle
  PROVE  Spec => []BlocksPrivate
<1>1. FileInv /\ TInv => BlocksPrivate
  <2> SUFFICES ASSUME FileInv, TInv,
                      NEW f \in Live, NEW p \in Places(f),
                      NEW g \in Live, NEW q \in Places(g)
               PROVE  /\ IndexAt(p) \in Used(blocks) \ {RootBlk}
                      /\ IndexAt(p) = IndexAt(q) => p = q
    BY DEF BlocksPrivate
  <2>1. f \in Files /\ g \in Files
    BY DEF Live
  <2>2. /\ KeyOf(p) \in Keys /\ IndexAt(p) = Ptr(View(f), Shown, KeyOf(p)) /\ IndexAt(p) # 0
        /\ KeyOf(q) \in Keys /\ IndexAt(q) = Ptr(View(g), Shown, KeyOf(q)) /\ IndexAt(q) # 0
    BY <2>1, PlacesAreKeys
  <2>3. IndexAt(p) \in Used(blocks) \ {RootBlk}
    BY <2>2, TableInUse
  <2>4. ASSUME IndexAt(p) = IndexAt(q) PROVE p = q
    <3>1. ASSUME NEW k \in Keys, k = KeyOf(p), NEW l \in Keys, l = KeyOf(q)
          PROVE  f = g /\ k = l
      <4>1. /\ Ptr(View(f), Shown, k) # 0
            /\ Ptr(View(f), Shown, k) = Ptr(View(g), Shown, l)
        BY <2>2, <2>4, <3>1
      <4>. QED
        BY <4>1, TableApart
    <3>2. f = g /\ KeyOf(p) = KeyOf(q)
      BY <2>2, <3>1
    <3>. QED
      BY <2>1, <3>2, PlacesAreKeys
  <2>. QED
    BY <2>3, <2>4
<1>. QED
  BY <1>1, FileInvariant, PTL

\* A word in a place for indices of this file is one, or 0.
LEMMA FoundInUse ==
  ASSUME FileInv, TInv, ~wild, Writing \/ Reading, ~Beyond, Found # 0,
         Num < Direct \/ Inode.indirect # 0, File \in Live, View(File) = Inode
  PROVE  Found \in Used(blocks) \ {RootBlk} /\ Found \in Indices
<1>1. SlotKey \in Keys /\ Ptr(View(File), disk, SlotKey) = Found
  BY FoundIsPtr
<1>. QED
  BY <1>1, DiskInUse, UsedAreIndices

\* Whatever else happens, no write goes astray.
LEMMA OnlyStrays ==
  ASSUME TInv, Next, phase = "up"
  PROVE  \/ phase' # "lost_write" /\ (wild' = wild \/ wild' = FALSE)
         \/ WriteStrays \/ WriteBeyond \/ WriteStarved
<1>1. CASE Restart \/ \E h \in Handles : ReleaseHidden(h) \/ UseFreed(h)
  BY <1>1 DEF Restart, ReleaseHidden, UseFreed, End, GiveUp, MemoryLost
<1>2. CASE LookUp \/ \E h \in Handles : \/ Release(h) \/ ReopenFails(h) \/ Fgetattr(h)
                                        \/ \E f \in Files : Create(h, f) \/ Open(h, f)
  BY <1>2 DEF LookUp, Release, ReopenFails, Fgetattr, Create, Open
<1>3. CASE \E h \in Handles, off \in Offs, size \in Lens :
             WriteBegin(h, off, size) \/ ReadBegin(h, off, size)
  BY <1>3 DEF WriteBegin, ReadBegin
<1>4. CASE \E f \in Files : Remove(f) \/ LoseName(f)
  BY <1>4 DEF Remove, LoseName
<1>5. CASE \E f \in Files, size \in Sizes : Truncate(f, size)
  BY <1>5 DEF Truncate, TruncateAborts, TruncateDone, End, MemoryLost
<1>6. CASE ReadStep
  BY <1>6, ReadShape
<1>7. CASE WriteStep
  BY <1>7 DEF WriteStep, WriteFound, WriteNoMemory, WriteDirect, WriteIndirect,
              WriteNewIndirect, WriteFaults, WriteEnd, SaveChunk, End, MemoryLost
<1>. QED
  BY <1>1, <1>2, <1>3, <1>4, <1>5, <1>6, <1>7 DEF Next

(* With one open handle, the first write that goes astray is one behind    *)
(* the last block that a file can have, or one for which the file has no   *)
(* indirect block: fs_find_blk then reads a word wherever the descriptor   *)
(* was left, or fs_alloc_blk gets one block of the two it needs.  Until    *)
(* then every word in a place for block indices is 0 or a block of the     *)
(* file.                                                                   *)
THEOREM StraysHaveNoIndirect ==
  ASSUME OneHandle
  PROVE  Spec => StraysLackIndirect
<1>1. FileInv /\ TInv /\ [Next]_vars =>
        [phase = "up" /\ ~wild /\ (wild' \/ phase' = "lost_write") =>
           Num >= Direct /\ (Beyond \/ Inode.indirect = 0)]_vars
  <2> SUFFICES ASSUME FileInv, TInv, Next, phase = "up", ~wild,
                      wild' \/ phase' = "lost_write"
               PROVE  Num >= Direct /\ (Beyond \/ Inode.indirect = 0)
    OBVIOUS
  <2>1. WriteStrays \/ WriteBeyond \/ WriteStarved
    BY OnlyStrays
  <2>2. Writing
    BY <2>1 DEF WriteStrays, WriteBeyond, WriteStarved, Missing
  <2>3. Num \in Nat
    BY <2>2, ChunkFits
  <2>4. CASE WriteStrays
    <3>1. ~Beyond /\ IsStray
      BY <2>4 DEF WriteStrays
    <3>2. ASSUME Num < Direct \/ Inode.indirect # 0 PROVE FALSE
      <4>1. Found # 0 /\ Found \in Indices
        BY <2>2, <3>1, <3>2, FoundInUse, WritingView DEF IsStray
      <4>. QED
        BY <2>3, <3>1, <3>2, <4>1, SizesAreNat DEF IsStray
    <3>. QED
      BY <2>3, <3>2, SizesAreNat
  <2>5. CASE WriteBeyond
    BY <2>3, <2>5, SizesAreNat DEF WriteBeyond, Beyond
  <2>6. CASE WriteStarved
    BY <2>6 DEF WriteStarved
  <2>. QED
    BY <2>1, <2>4, <2>5, <2>6
<1>. QED
  BY <1>1, FileInvariant, PTL DEF Spec, StraysLackIndirect

-----------------------------------------------------------------------------
(* Files are implemented                                                   *)

\* What FileStore sees of a file while no write has gone astray.
SizeOf(f) == IF f \in Live THEN tab[f].size ELSE 0

Job ==
  IF req # Idle
  THEN [op |-> req.op, file |-> File, from |-> req.off, at |-> Offset,
        to |-> req.off + req.size]
  ELSE [op |-> "none", file |-> 0, from |-> 0, at |-> 0, to |-> 0]

LEMMA Stored ==
  ASSUME NEW f, NEW o \in 0 .. Limit - 1
  PROVE  Contents(f)[o] =
           IF phase = "up" /\ f \in Live THEN WordOf(View(f), disk, o) ELSE Absent
BY LookupIs DEF Contents

LEMMA StoredNext ==
  ASSUME NEW f, NEW o \in 0 .. Limit - 1
  PROVE  Contents(f)'[o] =
           IF phase' = "up" /\ f \in Live' THEN WordOf(View(f)', disk', o) ELSE Absent
BY DEF Contents, Lookup, WordOf, BlkAt

LEMMA ContentsSame ==
  ASSUME NEW f, \A o \in 0 .. Limit - 1 : Contents(f)'[o] = Contents(f)[o]
  PROVE  Contents(f)' = Contents(f)
BY DEF Contents

LEMMA ContentsEmpty ==
  ASSUME NEW f, f \notin Live'
  PROVE  Contents(f)' = [o \in 0 .. Limit - 1 |-> Absent]
BY DEF Contents

\* A file that is there as before, or is not, as before.
LEMMA ContentsKept ==
  ASSUME phase' = phase, NEW f, f \in Live' <=> f \in Live,
         f \in Live => \A o \in 0 .. Limit - 1 :
           WordOf(View(f)', disk', o) = WordOf(View(f), disk, o)
  PROVE  Contents(f)' = Contents(f)
<1>1. \A o \in 0 .. Limit - 1 : Contents(f)'[o] = Contents(f)[o]
  BY Stored, StoredNext
<1>. QED
  BY <1>1, ContentsSame

LEMMA PointersKept ==
  ASSUME phase' = phase, disk' = disk, NEW f, f \in Live' <=> f \in Live,
         f \in Live => /\ View(f)'.direct = View(f).direct
                       /\ View(f)'.indirect = View(f).indirect
  PROVE  Contents(f)' = Contents(f)
<1>1. f \in Live => \A o \in 0 .. Limit - 1 :
        WordOf(View(f)', disk', o) = WordOf(View(f), disk, o)
  BY DEF WordOf, BlkAt
<1>. QED
  BY <1>1, ContentsKept

\* The key of a block by its number: the indirect block itself is passed over.
NumKey(num) == IF num < Direct THEN num ELSE num + 1

LEMMA NumKeyIs ==
  ASSUME NEW num \in 0 .. Direct + BlkWords - 1
  PROVE  /\ NumKey(num) \in Keys /\ NumKey(num) # Direct
         /\ \A inode, dev : BlkAt(inode, dev, num) = Ptr(inode, dev, NumKey(num))
         /\ \A n \in 0 .. Direct + BlkWords - 1 : NumKey(n) = NumKey(num) => n = num
<1>1. num \in Nat
  OBVIOUS
<1>2. /\ NumKey(num) \in Keys /\ NumKey(num) # Direct
      /\ num < Direct => NumKey(num) = num
      /\ ~(num < Direct) => /\ NumKey(num) = num + 1 /\ ~(NumKey(num) < Direct)
                            /\ NumKey(num) - Direct - 1 = num - Direct
  BY SizesAreNat DEF NumKey, Keys
<1>3. \A inode, dev : BlkAt(inode, dev, num) = Ptr(inode, dev, NumKey(num))
  BY <1>2 DEF BlkAt, Ptr
<1>4. \A n \in 0 .. Direct + BlkWords - 1 : NumKey(n) = NumKey(num) => n = num
  BY SizesAreNat DEF NumKey
<1>. QED
  BY <1>2, <1>3, <1>4

\* A word stays if the index of its block does, and the words of the block do.
LEMMA WordKept ==
  ASSUME NEW inode, NEW dev, NEW inode2, NEW dev2, NEW o \in 0 .. Limit - 1,
         LET k == NumKey(o \div BlkWords)
         IN  /\ Ptr(inode2, dev2, k) = Ptr(inode, dev, k)
             /\ Ptr(inode, dev, k) # 0 => SameInBlock(dev, dev2, Ptr(inode, dev, k))
  PROVE  WordOf(inode2, dev2, o) = WordOf(inode, dev, o)
<1> DEFINE num == o \div BlkWords
           k   == NumKey(num)
           at  == o % BlkWords
<1>1. num \in 0 .. Direct + BlkWords - 1 /\ at \in 0 .. BlkWords - 1
  BY OffsetParts
<1>2. Ptr(inode2, dev2, k) = Ptr(inode, dev, k)
      /\ (Ptr(inode, dev, k) # 0 => SameInBlock(dev, dev2, Ptr(inode, dev, k)))
  OBVIOUS
<1>3. BlkAt(inode, dev, num) = Ptr(inode, dev, k)
      /\ BlkAt(inode2, dev2, num) = Ptr(inode2, dev2, k)
  BY <1>1, NumKeyIs
<1>4. /\ WordOf(inode, dev, o) =
           IF BlkAt(inode, dev, num) \in Indices
           THEN dev[Addr(BlkAt(inode, dev, num), at)] ELSE Absent
      /\ WordOf(inode2, dev2, o) =
           IF BlkAt(inode2, dev2, num) \in Indices
           THEN dev2[Addr(BlkAt(inode2, dev2, num), at)] ELSE Absent
  BY DEF WordOf
<1> HIDE DEF num, k, at
<1>. QED
  BY <1>1, <1>2, <1>3, <1>4, IndicesAreNat DEF SameInBlock

LEMMA WordAbsent ==
  ASSUME NEW inode, NEW dev, NEW o \in 0 .. Limit - 1,
         Ptr(inode, dev, NumKey(o \div BlkWords)) = 0
  PROVE  WordOf(inode, dev, o) = Absent
<1>1. BlkAt(inode, dev, o \div BlkWords) = 0
  BY OffsetParts, NumKeyIs
<1>. QED
  BY <1>1, IndicesAreNat DEF WordOf

\* The offsets of a chunk are in the block of its first.
LEMMA ChunkOffsets ==
  ASSUME TInv, Writing \/ Reading, NEW o \in 0 .. Limit - 1
  PROVE  /\ o \in Offset .. Offset + Chunk - 1 =>
              /\ o \div BlkWords = Num
              /\ (o % BlkWords) - (Offset % BlkWords) \in 0 .. Chunk - 1
              /\ Offset + (o % BlkWords) - (Offset % BlkWords) = o
         /\ o \notin Offset .. Offset + Chunk - 1 /\ o \div BlkWords = Num =>
              (o % BlkWords) - (Offset % BlkWords) \notin 0 .. Chunk - 1
<1> DEFINE num == o \div BlkWords
           at  == o % BlkWords
           r   == Offset % BlkWords
<1>1. /\ o \in Nat /\ num \in Nat /\ at \in 0 .. BlkWords - 1
      /\ o = num * BlkWords + at
  BY OffsetParts, SizesAreNat
<1>2. /\ Offset \in Nat /\ Num \in Nat /\ r \in 0 .. BlkWords - 1
      /\ Offset = Num * BlkWords + r
      /\ Chunk \in Nat /\ Chunk > 0 /\ Chunk <= BlkWords - r
  BY ChunkFits
<1> HIDE DEF num, at, r
<1>3. BlkWords \in Nat /\ BlkWords > 0
  BY SizesAreNat
<1>4. num = Num => o - Offset = at - r
  BY <1>1, <1>2, <1>3
<1>5. ASSUME o \in Offset .. Offset + Chunk - 1 PROVE num = Num
  <2>1. ASSUME num < Num PROVE FALSE
    <3>1. num * BlkWords + BlkWords <= Num * BlkWords
      BY <1>1, <1>2, <1>3, <2>1, ProductMonotone
    <3>2. num * BlkWords \in Int /\ Num * BlkWords \in Int
      BY <1>1, <1>2, <1>3
    <3>. QED
      BY <1>1, <1>2, <1>3, <1>5, <3>1, <3>2
  <2>2. ASSUME Num < num PROVE FALSE
    <3>1. Num * BlkWords + BlkWords <= num * BlkWords
      BY <1>1, <1>2, <1>3, <2>2, ProductMonotone
    <3>2. num * BlkWords \in Int /\ Num * BlkWords \in Int
      BY <1>1, <1>2, <1>3
    <3>. QED
      BY <1>1, <1>2, <1>3, <1>5, <3>1, <3>2
  <2>. QED
    BY <1>1, <1>2, <2>1, <2>2
<1>6. ASSUME o \in Offset .. Offset + Chunk - 1
      PROVE  at - r \in 0 .. Chunk - 1 /\ Offset + at - r = o
  BY <1>1, <1>2, <1>4, <1>5, <1>6
<1>7. ASSUME o \notin Offset .. Offset + Chunk - 1, num = Num
      PROVE  at - r \notin 0 .. Chunk - 1
  BY <1>1, <1>2, <1>4, <1>7
<1>. QED
  BY <1>5, <1>6, <1>7 DEF num, at, r

\* FileStore loses everything, if that is what happens.
LEMMA LosesAll ==
  ASSUME ~InControl' \/ MemoryLost
  PROVE  Store!Lose
<1>1. CASE ~InControl'
  BY <1>1 DEF Store!Lose, Store!Empty, Store!Offsets, Store!Nothing
<1>2. CASE MemoryLost
  <2>1. linked' = {} /\ handles' = [h \in Handles |-> Closed] /\ req' = Idle
    BY <1>2 DEF MemoryLost
  <2>2. Live' = {}
    BY <2>1, OpenMeans DEF Live
  <2>3. \A f \in Files : Contents(f)' = [o \in 0 .. Limit - 1 |-> Absent]
    BY <2>2, ContentsEmpty
  <2>. QED
    BY <2>1, <2>2, <2>3 DEF Store!Lose, Store!Empty, Store!Offsets, Store!Nothing
<1>. QED
  BY <1>1, <1>2

\* Some files are gone.
LEMMA GoneStored ==
  ASSUME InControl, InControl', NEW lost \in SUBSET Files, Live' = Live \ lost,
         \A f \in Files \ lost : Contents(f)' = Contents(f) /\ SizeOf(f)' = SizeOf(f)
  PROVE  Store!Gone(lost)
<1>1. \A f \in lost : Contents(f)' = [o \in 0 .. Limit - 1 |-> Absent]
  BY ContentsEmpty
<1>. QED
  BY <1>1 DEF Store!Gone, Store!Empty, Store!Offsets, SizeOf

\* Nothing is to be seen.
LEMMA StoreStutters ==
  ASSUME InControl, InControl', Live' = Live, Job' = Job, req'.buf = req.buf,
         \A f \in Files : Contents(f)' = Contents(f) /\ SizeOf(f)' = SizeOf(f)
  PROVE  UNCHANGED Store!vars
BY DEF Store!vars, Job, SizeOf

LEMMA AtRest ==
  ASSUME Serving, req' = Idle
  PROVE  /\ req = Idle /\ req'.buf = req.buf
         /\ Job = [op |-> "none", file |-> 0, from |-> 0, at |-> 0, to |-> 0]
         /\ Job' = [op |-> "none", file |-> 0, from |-> 0, at |-> 0, to |-> 0]
BY DEF Serving, Job

LEMMA RemoveStored ==
  ASSUME InControl, InControl', Serving, req' = Idle, NEW f \in Files,
         Live' = Live \ {f},
         \A g \in Files \ {f} : Contents(g)' = Contents(g) /\ SizeOf(g)' = SizeOf(g)
  PROVE  Store!Remove(f)
<1>1. Store!Gone({f})
  BY GoneStored
<1>. QED
  BY <1>1, AtRest DEF Store!Remove, Store!Nothing, Job

\* A handle lets go of its file and leads to another, or to none.
LEMMA LetGoStored ==
  ASSUME TInv, TInv', phase' = phase, NEW h \in Handles, IsOpen(h), LetGo(h),
         NEW handle, handle.file \in Files => handle.file \in linked,
         handles' = [handles EXCEPT ![h] = handle], linked' = linked,
         \A g \in Files : View(g) = tab[g] /\ View(g)' = tab'[g]
  PROVE  \E lost \in SUBSET {handles[h].file} :
           /\ handle.file \notin lost /\ Live' = Live \ lost
           /\ \A f \in Files \ lost : Contents(f)' = Contents(f) /\ SizeOf(f)' = SizeOf(f)
<1> DEFINE file == handles[h].file
<1>1. /\ file \in Live /\ Live \subseteq Files
      /\ Live' = IF LastOf(h) THEN Live \ {file} ELSE Live
  <2>1. Live \subseteq Files
    BY DEF Live
  <2>. QED
    BY <2>1, LetGoLive
<1>2. CASE ~LastOf(h)
  <2>1. tab' = tab /\ disk' = disk /\ Live' = Live
    BY <1>1, <1>2 DEF LetGo
  <2>2. \A f \in Files : SizeOf(f)' = SizeOf(f)
    BY <2>1 DEF SizeOf
  <2>3. \A f \in Files : Contents(f)' = Contents(f)
    BY <2>1, PointersKept
  <2>. QED
    BY <2>1, <2>2, <2>3
<1>3. CASE LastOf(h)
  <2> DEFINE named == Named(Live \ {file})
  <2>1. /\ tab' = [tab EXCEPT ![file] = NewInode] /\ disk' = Aged(disk, named)
        /\ Live' = Live \ {file}
    BY <1>1, <1>3 DEF LetGo
  <2>2. handle.file # file
    BY <1>1, <1>3 DEF LastOf
  <2>3. \A f \in Files \ {file} : tab'[f] = tab[f]
    BY <1>1, <2>1, TabType
  <2>4. \A f \in Files \ {file} : SizeOf(f)' = SizeOf(f)
    BY <2>1, <2>3 DEF SizeOf
  <2>5. \A f \in Live \ {file} : NamedBy(tab[f]) \subseteq named
    BY DEF Named
  <2> HIDE DEF named, file
  <2>6. ASSUME NEW f \in Files \ {file} PROVE Contents(f)' = Contents(f)
    <3>1. f \in Live => \A o \in 0 .. Limit - 1 :
            WordOf(tab[f], disk', o) = WordOf(tab[f], disk, o)
      BY <2>1, <2>5, <2>6, AgedFile, TabType DEF GoodInodes
    <3>. QED
      BY <2>1, <2>3, <3>1, ContentsKept
  <2>. QED
    BY <2>1, <2>2, <2>4, <2>6 DEF file
<1>. QED
  BY <1>2, <1>3

LEMMA CreateStored ==
  ASSUME TInv, InControl, InControl', NEW h \in Handles, NEW f \in Files, Create(h, f)
  PROVE  Store!Create(f)
<1>1. /\ Serving /\ req' = Idle /\ phase' = phase /\ disk' = disk
      /\ f \notin Live /\ linked' \in {linked, linked \cup {f}}
      /\ handles[h] = Closed
      /\ tab' = [tab EXCEPT ![f] = NewInode]
      /\ handles' = [handles EXCEPT ![h] = [file |-> f, inode |-> NewInode]]
  BY DEF Create, Serving
<1>2. tab'[f] = NewInode /\ \A g \in Files \ {f} : tab'[g] = tab[g]
  BY <1>1, TabType
<1>3. \A g : View(g) = tab[g] /\ View(g)' = tab'[g]
  BY <1>1, RestViews
<1>4. Live' = Live \cup {f}
  <2>1. handles'[h].file = f /\ \A g \in Handles \ {h} : handles'[g] = handles[g]
    BY <1>1, HandleTypes
  <2>2. handles[h].file \notin Files
    BY <1>1, OpenMeans
  <2>. QED
    BY <1>1, <2>1, <2>2 DEF Live
<1>5. \A g \in Files : SizeOf(g)' = SizeOf(g)
  <2>1. NewInode.size = 0
    BY DEF NewInode
  <2>. QED
    BY <1>1, <1>2, <1>4, <2>1 DEF SizeOf
<1>6. ASSUME NEW g \in Files PROVE Contents(g)' = Contents(g)
  <2>1. CASE g # f
    BY <1>1, <1>2, <1>3, <1>4, <2>1, PointersKept
  <2>2. CASE g = f
    <3>1. ASSUME NEW o \in 0 .. Limit - 1 PROVE Contents(g)'[o] = Contents(g)[o]
      <4>1. Ptr(NewInode, disk', NumKey(o \div BlkWords)) = 0
        BY OffsetParts, NumKeyIs, NewInodePtr
      <4>2. WordOf(View(g)', disk', o) = Absent
        BY <1>2, <1>3, <2>2, <4>1, WordAbsent
      <4>. QED
        BY <1>1, <2>2, <4>2, Stored, StoredNext
    <3>. QED
      BY <3>1, ContentsSame
  <2>. QED
    BY <2>1, <2>2
<1>. QED
  BY <1>1, <1>4, <1>5, <1>6, AtRest DEF Store!Create, Store!Nothing, Job, SizeOf

\* A handle is opened or closed, and its file may go with it.
LEMMA HandleStored ==
  ASSUME TInv, TInv', InControl, InControl', NEW h \in Handles,
         Release(h) \/ ReopenFails(h) \/ \E f \in Files : Open(h, f)
  PROVE  [Store!Next]_(Store!vars)
<1>1. Serving /\ req' = Idle /\ linked' = linked /\ phase' = phase
  BY DEF Release, ReopenFails, Open, Serving
<1>2. \A g : View(g) = tab[g] /\ View(g)' = tab'[g]
  BY <1>1, RestViews
<1>3. CASE Release(h) \/ ReopenFails(h)
  <2>1. PICK handle \in {Closed, Freed} : handles' = [handles EXCEPT ![h] = handle]
    BY <1>3 DEF Release, ReopenFails
  <2>2. IsOpen(h) /\ LetGo(h)
    BY <1>3 DEF Release, ReopenFails
  <2>3. handle.file \notin Files
    BY OpenMeans
  <2>4. PICK lost \in SUBSET {handles[h].file} :
          /\ Live' = Live \ lost
          /\ \A f \in Files \ lost : Contents(f)' = Contents(f) /\ SizeOf(f)' = SizeOf(f)
    BY <1>1, <1>2, <2>1, <2>2, <2>3, LetGoStored
  <2>5. CASE lost = {}
    <3>1. Live' = Live /\ \A f \in Files : Contents(f)' = Contents(f) /\ SizeOf(f)' = SizeOf(f)
      BY <2>4, <2>5
    <3>2. Job' = Job /\ req'.buf = req.buf
      BY <1>1, AtRest
    <3>. QED
      BY <3>1, <3>2, StoreStutters
  <2>6. CASE lost = {handles[h].file}
    <3>1. ASSUME NEW f \in Files, f = handles[h].file
          PROVE  Store!Remove(f)
      <4>1. Live' = Live \ {f} /\ \A g \in Files \ {f} :
                                  Contents(g)' = Contents(g) /\ SizeOf(g)' = SizeOf(g)
        BY <2>4, <2>6, <3>1
      <4>. QED
        BY <1>1, <4>1, RemoveStored
    <3>2. \E f \in Files : Store!Remove(f)
      BY <2>2, <3>1 DEF IsOpen
    <3>. QED
      BY <3>2 DEF Store!Next
  <2>. QED
    BY <2>5, <2>6
<1>4. CASE \E f \in Files : Open(h, f)
  <2>1. PICK f \in Files : Open(h, f)
    BY <1>4
  <2>2. /\ handles[h] = Closed /\ f \in linked /\ UNCHANGED <<linked, tab, disk>>
        /\ handles' = [handles EXCEPT ![h] = [file |-> f, inode |-> tab[f]]]
    BY <2>1 DEF Open
  <2>3. Live' = Live
    <3>1. handles'[h].file = f /\ \A g \in Handles \ {h} : handles'[g] = handles[g]
      BY <2>2, HandleTypes
    <3>2. handles[h].file \notin Files
      BY <2>2, OpenMeans
    <3>. QED
      BY <2>2, <3>1, <3>2 DEF Live
  <2>4. \A g \in Files : SizeOf(g)' = SizeOf(g) /\ Contents(g)' = Contents(g)
    BY <1>1, <1>2, <2>2, <2>3, PointersKept DEF SizeOf
  <2>. QED
    BY <1>1, <2>3, <2>4, AtRest, StoreStutters
<1>. QED
  BY <1>3, <1>4

\* A name is removed or lost; the file goes with it if it is not open.
LEMMA NameStored ==
  ASSUME TInv, TInv', InControl, InControl', NEW f \in Files, Remove(f) \/ LoseName(f)
  PROVE  [Store!Next]_(Store!vars)
<1>1. /\ Serving /\ req' = Idle /\ linked' = linked \ {f} /\ phase' = phase
      /\ handles' = handles /\ f \in linked
  BY DEF Remove, LoseName, Serving
<1>2. \A g : View(g) = tab[g] /\ View(g)' = tab'[g]
  BY <1>1, RestViews
<1>3. CASE \E h \in Handles : handles[h].file = f
  <2>1. UNCHANGED <<tab, disk>>
    BY <1>3 DEF Remove, LoseName
  <2>2. Live' = Live
    BY <1>1, <1>3 DEF Live
  <2>3. \A g \in Files : SizeOf(g)' = SizeOf(g) /\ Contents(g)' = Contents(g)
    BY <1>1, <1>2, <2>1, <2>2, PointersKept DEF SizeOf
  <2>. QED
    BY <1>1, <2>2, <2>3, AtRest, StoreStutters
<1>4. CASE ~\E h \in Handles : handles[h].file = f
  <2> DEFINE named == Named(Live \ {f})
  <2>1. tab' = [tab EXCEPT ![f] = NewInode] /\ disk' = Aged(disk, named)
    BY <1>4 DEF Remove, LoseName
  <2>2. Live' = Live \ {f}
    BY <1>1, <1>4 DEF Live
  <2>3. \A g \in Files \ {f} : tab'[g] = tab[g]
    BY <2>1, TabType
  <2>4. \A g \in Files \ {f} : SizeOf(g)' = SizeOf(g)
    BY <2>2, <2>3 DEF SizeOf
  <2>5. \A g \in Live \ {f} : NamedBy(tab[g]) \subseteq named
    BY DEF Named
  <2> HIDE DEF named
  <2>6. ASSUME NEW g \in Files \ {f} PROVE Contents(g)' = Contents(g)
    <3>1. g \in Live => \A o \in 0 .. Limit - 1 :
            WordOf(tab[g], disk', o) = WordOf(tab[g], disk, o)
      BY <2>1, <2>5, <2>6, AgedFile, TabType DEF GoodInodes
    <3>. QED
      BY <1>1, <1>2, <2>2, <2>3, <3>1, ContentsKept
  <2>7. Store!Remove(f)
    BY <1>1, <2>2, <2>4, <2>6, RemoveStored
  <2>. QED
    BY <2>7 DEF Store!Next
<1>. QED
  BY <1>3, <1>4

LEMMA TruncateStored ==
  ASSUME TInv, TInv', InControl, InControl', NEW f \in Files, NEW size \in Sizes,
         Truncate(f, size)
  PROVE  Store!Truncate(f)
<1> DEFINE named == UNION {NamedBy(tab'[g]) : g \in Live}
<1>1. phase = "up" /\ phase' = "up"
  BY DEF InControl
<1>2. /\ Serving /\ req' = req /\ f \in Live /\ Live' = Live
      /\ tab[f] \in Inodes /\ tab'[f] \in Inodes
      /\ \A g \in Files \ {f} : tab'[g] = tab[g]
      /\ \A i \in 0 .. Direct - 1 : tab'[f].direct[i] \in {0, tab[f].direct[i]}
      /\ tab'[f].indirect \in {0, tab[f].indirect}
      /\ disk' = Aged(disk, named)
  BY <1>1, TruncateEffect
<1>3. req' = Idle
  BY <1>2 DEF Serving
<1>4. \A g : View(g) = tab[g] /\ View(g)' = tab'[g]
  BY <1>2, <1>3, RestViews
<1>5. tab'[f].size = size /\ size <= tab[f].size
  <2>1. /\ tab[f].size >= size
        /\ tab' = [tab EXCEPT ![f] = SetSize(WithoutPointers(@, Cut(@, size)), size)]
    BY <1>1 DEF Truncate, TruncateAborts, TruncateDone, End
  <2>2. WithoutPointers(tab[f], Cut(tab[f], size)) \in Inodes
    BY <1>2, WithoutPointersType
  <2>3. tab'[f] = SetSize(WithoutPointers(tab[f], Cut(tab[f], size)), size)
    BY <2>1, TabType
  <2>4. tab'[f].size = size
    BY <2>2, <2>3 DEF SetSize, Inodes
  <2>5. size \in Nat /\ tab[f].size \in Nat
    BY <1>2, SizesAreNat DEF Inodes, Sizes
  <2>. QED
    BY <2>1, <2>4, <2>5
<1>6. \A g \in Live : NamedBy(tab'[g]) \subseteq named
  OBVIOUS
<1> HIDE DEF named
<1>7. ASSUME NEW g \in Files, NEW o \in 0 .. Limit - 1, g \in Live
      PROVE  WordOf(tab'[g], disk', o) = WordOf(tab'[g], disk, o)
  <2>1. tab'[g] \in Inodes
    BY <1>2, TabType
  <2>. QED
    BY <1>2, <1>6, <1>7, <2>1, AgedFile
<1>8. \A g \in Files \ {f} : Contents(g)' = Contents(g) /\ SizeOf(g)' = SizeOf(g)
  <2>1. \A g \in Files \ {f} : Contents(g)' = Contents(g)
    BY <1>1, <1>2, <1>4, <1>7, ContentsKept
  <2>. QED
    BY <1>2, <2>1 DEF SizeOf
<1>9. ASSUME NEW o \in 0 .. Limit - 1
      PROVE  Contents(f)'[o] \in {Contents(f)[o], Absent}
  <2> DEFINE num == o \div BlkWords
  <2>1. num \in 0 .. Direct + BlkWords - 1 /\ num \in Nat
    BY OffsetParts
  <2>2. BlkAt(tab'[f], disk, num) \in {0, BlkAt(tab[f], disk, num)}
    <3>1. CASE num < Direct
      <4>1. num \in 0 .. Direct - 1
        BY <2>1, <3>1, SizesAreNat
      <4>. QED
        BY <1>2, <3>1, <4>1 DEF BlkAt
    <3>2. CASE ~(num < Direct)
      BY <1>2, <3>2 DEF BlkAt
    <3>. QED
      BY <3>1, <3>2
  <2>3. WordOf(tab'[f], disk, o) \in {WordOf(tab[f], disk, o), Absent}
    BY <2>2, IndicesAreNat DEF WordOf
  <2>. QED
    BY <1>1, <1>2, <1>4, <1>7, <2>3, Stored, StoredNext
<1>10. ASSUME NEW o \in 0 .. Limit - 1
      PROVE  /\ o \div BlkWords < size \div BlkWords => Contents(f)'[o] = Contents(f)[o]
             /\ ~(o \div BlkWords < size \div BlkWords) /\ o < tab[f].size =>
                  Contents(f)'[o] = Absent
  BY <1>1, <1>2, <1>4, TruncateKeeps, TruncateTakes, Stored, StoredNext
<1>11. \A o \in 0 .. Limit - 1 :
         o \in Nat /\ (o < tab[f].size \/ o >= tab[f].size)
  <2>1. tab[f].size \in Nat
    BY <1>2, SizesAreNat DEF Inodes, Sizes
  <2>. QED
    BY <2>1, OffsetParts
<1>12. SizeOf(f)' = size /\ SizeOf(f) = tab[f].size
  BY <1>2, <1>5 DEF SizeOf
<1>13. ASSUME NEW o \in 0 .. Limit - 1
       PROVE  LET kept == o \div BlkWords < size \div BlkWords
              IN  \/ Contents(f)'[o] = Contents(f)[o] /\ (kept \/ o >= tab[f].size)
                  \/ Contents(f)'[o] = Absent /\ ~kept
  BY <1>9, <1>10, <1>11
<1>. QED
  BY <1>2, <1>3, <1>5, <1>8, <1>12, <1>13, AtRest
     DEF Store!Truncate, Store!OthersKept, Store!Offsets, Store!Nothing, Job, SizeOf

\* A handle is reopened if need be; then its copy has the size of the file.
LEMMA ReopenStored ==
  ASSUME OneHandle, TInv, TInv', CopyInv, InControl, InControl', NEW h \in Handles,
         \/ Fgetattr(h)
         \/ \E off \in Offs, size \in Lens :
              WriteBegin(h, off, size) \/ ReadBegin(h, off, size)
  PROVE  /\ Serving /\ handles[h].file \in Files /\ handles'[h].file \in Live
         /\ tab[handles'[h].file].size = handles'[h].inode.size
         /\ \E lost \in SUBSET {handles[h].file} :
              /\ handles'[h].file \notin lost /\ Live' = Live \ lost
              /\ \A f \in Files \ lost :
                   Contents(f)' = Contents(f) /\ SizeOf(f)' = SizeOf(f)
<1>1. /\ Serving /\ Reopen(h) /\ linked' = linked /\ phase' = phase
      /\ \A f \in Files : View(f) = tab[f] /\ View(f)' = tab'[f]
  BY OnHandleViews
<1>2. IsOpen(h) /\ handles[h].file \in Files
  BY <1>1 DEF Reopen, IsOpen
<1>3. CASE UNCHANGED <<tab, disk, pos, handles>>
  <2>1. Live' = Live /\ \A f \in Files : SizeOf(f)' = SizeOf(f)
    BY <1>1, <1>3 DEF Live, SizeOf
  <2>2. \A f \in Files : Contents(f)' = Contents(f)
    BY <1>1, <1>3, <2>1, PointersKept
  <2>3. handles'[h].file \in Live
    BY <1>2, <1>3 DEF Live
  <2>4. InStep(h)'
    BY <1>1, <1>2, <1>3, ReopenBringsInStep DEF IsOpen
  <2>5. tab[handles'[h].file].size = handles'[h].inode.size
    BY <1>3, <2>4 DEF InStep
  <2>6. /\ {} \in SUBSET {handles[h].file} /\ handles'[h].file \notin {}
        /\ Live' = Live \ {}
        /\ \A f \in Files \ {} : Contents(f)' = Contents(f) /\ SizeOf(f)' = SizeOf(f)
    BY <2>1, <2>2
  <2>7. \E lost \in SUBSET {handles[h].file} :
          /\ handles'[h].file \notin lost /\ Live' = Live \ lost
          /\ \A f \in Files \ lost : Contents(f)' = Contents(f) /\ SizeOf(f)' = SizeOf(f)
    BY <2>6
  <2>. QED
    BY <1>1, <1>2, <2>3, <2>5, <2>7
<1>4. ASSUME NEW f \in PathTo(h), LetGo(h),
             handles' = [handles EXCEPT ![h] = [file |-> f, inode |-> Copy(h, f)]]
      PROVE  /\ handles'[h].file \in Live
             /\ tab[handles'[h].file].size = handles'[h].inode.size
             /\ \E lost \in SUBSET {handles[h].file} :
                  /\ handles'[h].file \notin lost /\ Live' = Live \ lost
                  /\ \A g \in Files \ lost :
                       Contents(g)' = Contents(g) /\ SizeOf(g)' = SizeOf(g)
  <2> DEFINE handle == [file |-> f, inode |-> Copy(h, f)]
  <2>1. f \in linked /\ linked \subseteq Files
    BY DEF PathTo, TInv, TypeOK
  <2>2. handle.file = f /\ handle.inode = tab[f]
    BY DEF Copy
  <2>3. handles' = [handles EXCEPT ![h] = handle]
    BY <1>4
  <2> HIDE DEF handle
  <2>4. handles'[h] = handle
    BY <2>3, HandleTypes
  <2>5. \E lost \in SUBSET {handles[h].file} :
          /\ handle.file \notin lost /\ Live' = Live \ lost
          /\ \A g \in Files \ lost : Contents(g)' = Contents(g) /\ SizeOf(g)' = SizeOf(g)
    BY <1>1, <1>2, <1>4, <2>1, <2>2, <2>3, LetGoStored
  <2>6. f \in Live
    BY <2>1 DEF Live
  <2>. QED
    BY <2>2, <2>4, <2>5, <2>6
<1>. QED
  BY <1>1, <1>2, <1>3, <1>4 DEF Reopen

LEMMA BeginStored ==
  ASSUME InControl, InControl', Serving, NEW lost \in SUBSET Files,
         Live' = Live \ lost,
         \A f \in Files \ lost : Contents(f)' = Contents(f) /\ SizeOf(f)' = SizeOf(f),
         lost \subseteq Live,
         NEW h, NEW op \in {"read", "write"}, NEW off \in Nat, NEW n \in Nat,
         req' = Request(op, h, off, n),
         NEW f, f = handles'[h].file, f \in Live \ lost,
         op = "read" => n <= SizeOf(f)
  PROVE  Store!Begin
<1>1. Store!Gone(lost)
  BY GoneStored
<1>2. req = Idle /\ Job = [op |-> "none", file |-> 0, from |-> 0, at |-> 0, to |-> 0]
  BY DEF Serving, Job
<1>3. /\ req'.op = op /\ req'.h = h /\ req'.off = off /\ req'.size = n /\ req'.total = 0
  BY DEF Request
<1>4. req' # Idle
  <2>1. Idle.op = "none"
    BY DEF Idle
  <2>. QED
    BY <1>3, <2>1
<1>5. Job' = [op |-> op, file |-> f, from |-> off, at |-> off, to |-> off + n]
  BY <1>3, <1>4 DEF Job, File, Offset
<1>6. lost \in SUBSET (Live \ {f}) /\ f \in Files
  BY DEF Live
<1>. QED
  BY <1>1, <1>2, <1>4, <1>5, <1>6
     DEF Store!Begin, Store!Nothing, Job, SizeOf

\* A request begins with the file of its handle.
LEMMA OnHandleStored ==
  ASSUME OneHandle, TInv, TInv', CopyInv, InControl, InControl', NEW h \in Handles,
         \/ Fgetattr(h)
         \/ \E off \in Offs, size \in Lens :
              WriteBegin(h, off, size) \/ ReadBegin(h, off, size)
  PROVE  [Store!Next]_(Store!vars)
<1>1. /\ Serving /\ handles[h].file \in Files /\ handles'[h].file \in Live
      /\ tab[handles'[h].file].size = handles'[h].inode.size
  BY ReopenStored
<1>2. PICK lost \in SUBSET {handles[h].file} :
        /\ handles'[h].file \notin lost /\ Live' = Live \ lost
        /\ \A f \in Files \ lost : Contents(f)' = Contents(f) /\ SizeOf(f)' = SizeOf(f)
  BY ReopenStored
<1>3. CASE Fgetattr(h)
  <2>1. req' = Idle
    BY <1>3 DEF Fgetattr, Serving
  <2>2. CASE lost = {}
    <3>1. Live' = Live /\ \A f \in Files : Contents(f)' = Contents(f) /\ SizeOf(f)' = SizeOf(f)
      BY <1>2, <2>2
    <3>2. Job' = Job /\ req'.buf = req.buf
      BY <1>1, <2>1, AtRest
    <3>. QED
      BY <3>1, <3>2, StoreStutters
  <2>3. CASE lost = {handles[h].file}
    <3>1. ASSUME NEW f \in Files, f = handles[h].file
          PROVE  Store!Remove(f)
      <4>1. Live' = Live \ {f} /\ \A g \in Files \ {f} :
                                  Contents(g)' = Contents(g) /\ SizeOf(g)' = SizeOf(g)
        BY <1>2, <2>3, <3>1
      <4>. QED
        BY <1>1, <2>1, <4>1, RemoveStored
    <3>2. \E f \in Files : Store!Remove(f)
      BY <1>1, <3>1
    <3>. QED
      BY <3>2 DEF Store!Next
  <2>. QED
    BY <2>2, <2>3
<1>4. ASSUME NEW op \in {"read", "write"}, NEW off \in Nat, NEW n \in Nat,
             req' = Request(op, h, off, n),
             op = "read" => n <= handles'[h].inode.size
      PROVE  Store!Begin
  <2>1. ASSUME NEW f, f = handles'[h].file PROVE Store!Begin
    <3>1. f \in Live \ lost /\ SizeOf(f) = handles'[h].inode.size
      BY <1>1, <1>2, <2>1 DEF SizeOf
    <3>2. handles[h].file \in Live
      BY <1>1 DEF Live
    <3>3. lost \in SUBSET Files /\ lost \subseteq Live
      BY <1>1, <1>2, <3>2
    <3>. QED
      BY <1>1, <1>2, <1>4, <2>1, <3>1, <3>3, BeginStored
  <2>. QED
    BY <2>1
<1>5. CASE \E off \in Offs, size \in Lens : WriteBegin(h, off, size)
  <2>1. PICK off \in Offs, size \in Lens : WriteBegin(h, off, size)
    BY <1>5
  <2>2. off \in Nat /\ size \in Nat /\ req' = Request("write", h, off, size)
    BY <2>1, SizesAssumption DEF WriteBegin
  <2>3. Store!Begin
    BY <1>4, <2>2
  <2>. QED
    BY <2>3 DEF Store!Next
<1>6. CASE \E off \in Offs, size \in Lens : ReadBegin(h, off, size)
  <2>1. PICK off \in Offs, size \in Lens : ReadBegin(h, off, size)
    BY <1>6
  <2> DEFINE old == handles'[h].inode.size
             n   == Min({size, old})
  <2>2. off \in Nat /\ size \in Nat /\ req' = Request("read", h, off, n)
    BY <2>1, SizesAssumption DEF ReadBegin
  <2>3. old \in Nat
    <3>1. Reopen(h)
      BY <2>1 DEF ReadBegin
    <3>2. handles'[h] \in [file : Files, inode : Inodes]
      BY <3>1, ReopenShape
    <3>. QED
      BY <3>2, SizesAreNat DEF Inodes, Sizes
  <2> HIDE DEF old
  <2>4. n \in Nat /\ n <= old
    BY <2>2, <2>3, LeastNatural
  <2> HIDE DEF n
  <2>5. Store!Begin
    BY <1>4, <2>2, <2>4 DEF old
  <2>. QED
    BY <2>5 DEF Store!Next
<1>. QED
  BY <1>3, <1>5, <1>6

\* Words that no round touches stay what they were.
LEMMA OthersStored ==
  ASSUME FileInv, TInv, ~wild, Writing, ~Beyond, phase' = phase, Live' = Live,
         NEW b \in Indices, WroteTo(b),
         b \in Used(blocks) => b = Ptr(View(File), disk, SlotKey),
         NEW f \in Files, NEW o \in 0 .. Limit - 1, f # File \/ o \div BlkWords # Num
  PROVE  Contents(f)'[o] = Contents(f)[o]
<1> DEFINE k == NumKey(o \div BlkWords)
<1>1. CASE phase = "up" /\ f \in Live
  <2>1. k \in Keys /\ k # Direct
    BY OffsetParts, NumKeyIs
  <2>2. f # File \/ k # SlotKey
    <3>1. Num \in 0 .. Direct + BlkWords - 1 /\ SlotKey = NumKey(Num)
      BY ChunkFits, SizesAreNat DEF SlotKey, NumKey, Beyond
    <3>2. o \div BlkWords \in 0 .. Direct + BlkWords - 1
      BY OffsetParts
    <3>. QED
      BY <3>1, <3>2, NumKeyIs
  <2> HIDE DEF k
  <2>3. Ptr(View(f)', disk', k) = Ptr(View(f), disk, k)
    BY <1>1, <2>1, <2>2 DEF WroteTo
  <2>4. ASSUME Ptr(View(f), disk, k) # 0
        PROVE  SameInBlock(disk, disk', Ptr(View(f), disk, k))
    <3>1. File \in Live /\ View(File) = Inode
      BY WritingView
    <3>2. Ptr(View(f), disk, k) \in Used(blocks)
      BY <1>1, <2>1, <2>4, DiskInUse
    <3>3. Ptr(View(f), disk, k) # Inode.indirect
      BY <1>1, <2>1, <2>4, <3>1, DataIsNotIndirect
    <3>4. Ptr(View(f), disk, k) # b
      <4>1. SlotKey \in Keys
        BY FoundIsPtr
      <4>2. Ptr(View(f), disk, k) # Ptr(View(File), disk, SlotKey)
        BY <1>1, <2>1, <2>2, <2>4, <3>1, <4>1, DiskApart
      <4>. QED
        BY <3>2, <4>2
    <3>. QED
      BY <3>2, <3>3, <3>4 DEF WroteTo
  <2>5. WordOf(View(f)', disk', o) = WordOf(View(f), disk, o)
    BY <2>3, <2>4, WordKept DEF k
  <2>. QED
    BY <1>1, <2>5, Stored, StoredNext
<1>2. CASE ~(phase = "up" /\ f \in Live)
  BY <1>2, Stored, StoredNext
<1>. QED
  BY <1>1, <1>2

\* The chunk is where fs_read_file would look for it.
LEMMA ChunkStored ==
  ASSUME FileInv, TInv, Writing, ~Beyond, phase' = "up", Live' = Live,
         NEW b \in Indices, WroteTo(b),
         NEW o \in 0 .. Limit - 1, o \in Offset .. Offset + Chunk - 1,
         NEW f, f = File
  PROVE  Contents(f)'[o] = Own(f, o)
<1>1. File \in Live
  BY WritingView
<1>2. /\ o \div BlkWords = Num
      /\ (o % BlkWords) - (Offset % BlkWords) \in 0 .. Chunk - 1
      /\ Offset + (o % BlkWords) - (Offset % BlkWords) = o
  BY ChunkOffsets
<1>3. /\ o % BlkWords \in 0 .. BlkWords - 1 /\ Num \in 0 .. Direct + BlkWords - 1
      /\ SlotKey = NumKey(Num) /\ SlotKey \in Keys /\ SlotKey # Direct
  BY <1>2, OffsetParts, FoundIsPtr DEF SlotKey, NumKey
<1>4. Ptr(View(f)', disk', SlotKey) = b
  BY <1>1, <1>3 DEF WroteTo
<1>5. BlkAt(View(f)', disk', Num) = b
  BY <1>3, <1>4, NumKeyIs
<1>6. disk'[Addr(b, o % BlkWords)] = Own(File, o)
  <2>1. disk'[Addr(b, o % BlkWords)] =
          Own(File, Offset + (o % BlkWords) - (Offset % BlkWords))
    BY <1>2, <1>3 DEF WroteTo
  <2>. QED
    BY <1>2, <2>1
<1>7. WordOf(View(f)', disk', o) = Own(File, o)
  BY <1>2, <1>5, <1>6 DEF WordOf
<1>. QED
  BY <1>1, <1>7, StoredNext

\* A round that saves its chunk advances the write.
LEMMA RoundAdvances ==
  ASSUME FileInv, TInv, InControl, InControl', Writing, ~Beyond,
         NEW dev \in [Addresses -> Words], NEW b \in Indices, SaveChunk(dev, b),
         handles' = handles
           \/ \E inode : handles' = [handles EXCEPT ![req.h].inode = inode],
         WroteTo(b),
         \/ b \notin Used(blocks) /\ Ptr(View(File), disk, SlotKey) = 0
         \/ /\ b = Ptr(View(File), disk, SlotKey)
            /\ \A at \in 0 .. BlkWords - 1 :
                 at - (Offset % BlkWords) \notin 0 .. Chunk - 1 =>
                   disk'[Addr(b, at)] = disk[Addr(b, at)]
  PROVE  Store!StoreWords
<1>1. /\ req'.op = "write" /\ req'.h = req.h /\ req'.off = req.off /\ req'.size = req.size
      /\ req'.total = req.total + Chunk /\ req'.total <= req'.size
      /\ UNCHANGED <<phase, linked, tab, reopen>>
  BY SaveChunkType
<1>2. phase = "up" /\ phase' = "up" /\ ~wild
  BY DEF InControl
<1>3. /\ File \in Live /\ Live \subseteq Files /\ req' # Idle /\ req.op = "write"
      /\ FitsBlock(Offset, Chunk) /\ View(File) = Inode /\ req # Idle
  <2>1. Idle.op = "none"
    BY DEF Idle
  <2>. QED
    BY <1>1, <2>1, WritingView DEF Writing
<1>4. File' = File /\ Live' = Live
  BY <1>1, <1>3, WritingViewNext
<1>5. \A f \in Files : SizeOf(f)' = SizeOf(f)
  BY <1>1, <1>4 DEF SizeOf
<1> DEFINE end == Offset + Chunk
<1>6. /\ Offset \in Nat /\ Chunk \in Nat /\ Chunk > 0 /\ end <= req.off + req.size
      /\ req.off \in Nat /\ req.size \in Nat /\ Offset < req.off + req.size
      /\ end \in Offset + 1 .. req.off + req.size
  <2>1. /\ Offset \in Nat /\ Chunk \in Nat /\ Chunk > 0
        /\ Offset + Chunk <= req.off + req.size /\ req # Idle
    BY ChunkFits
  <2>2. req.off \in Nat /\ req.size \in Nat
    BY <2>1, RequestType
  <2>. QED
    BY <2>1, <2>2
<1>7. Offset' = end
  <2>1. req.off \in Nat /\ req.total \in Nat
    BY RequestType, <1>3
  <2>2. Offset' = req'.off + req'.total
    BY DEF Offset
  <2>. QED
    BY <1>1, <1>6, <2>1, <2>2 DEF Offset
<1>8. /\ Job = [op |-> "write", file |-> File, from |-> req.off, at |-> Offset,
                to |-> req.off + req.size]
      /\ Job' = [op |-> "write", file |-> File, from |-> req.off, at |-> end,
                 to |-> req.off + req.size]
  BY <1>1, <1>3, <1>4, <1>7 DEF Job
<1>9. \A f \in Files \ {File} : Contents(f)' = Contents(f)
  <2>1. \A f \in Files \ {File}, o \in 0 .. Limit - 1 : Contents(f)'[o] = Contents(f)[o]
    BY <1>2, <1>1, <1>4, OthersStored
  <2>. QED
    BY <2>1, ContentsSame
<1>10. Offset .. end - 1 = Offset .. Offset + Chunk - 1
  BY <1>6
<1> HIDE DEF end
<1>11. ASSUME NEW o \in 0 .. Limit - 1
      PROVE  /\ o \in Offset .. end - 1 => o \div BlkWords = Num
             /\ o \notin Offset .. end - 1 /\ o \div BlkWords = Num =>
                  (o % BlkWords) - (Offset % BlkWords) \notin 0 .. Chunk - 1
             /\ o % BlkWords \in 0 .. BlkWords - 1
  BY <1>10, ChunkOffsets, OffsetParts
<1>12. /\ Num \in 0 .. Direct + BlkWords - 1
       /\ SlotKey = NumKey(Num) /\ SlotKey \in Keys /\ SlotKey # Direct
  BY ChunkFits, FoundIsPtr, SizesAreNat DEF SlotKey, NumKey, Beyond
<1>13. ASSUME NEW f, f = File, NEW o \in 0 .. Limit - 1
      PROVE  \/ o \in Offset .. end - 1 /\ Contents(f)'[o] = Own(f, o)
             \/ o \notin Offset .. end - 1 /\ Contents(f)'[o] = Contents(f)[o]
             \/ Contents(f)[o] = Absent /\ o \notin Offset .. end - 1
                /\ o \div BlkWords = Num
  <2>1. CASE o \in Offset .. end - 1
    <3>1. o \in Offset .. Offset + Chunk - 1
      BY <1>10, <2>1
    <3>2. Contents(f)'[o] = Own(f, o)
      BY <1>2, <1>1, <1>4, <1>13, <3>1, ChunkStored
    <3>. QED
      BY <2>1, <3>2
  <2>2. CASE o \div BlkWords # Num
    <3>1. o \notin Offset .. end - 1
      BY <1>11, <2>2
    <3>2. Contents(f)'[o] = Contents(f)[o]
      BY <1>2, <1>1, <1>3, <1>4, <1>13, <2>2, OthersStored
    <3>. QED
      BY <3>1, <3>2
  <2>3. CASE o \notin Offset .. end - 1 /\ o \div BlkWords = Num
    <3>1. /\ (o % BlkWords) - (Offset % BlkWords) \notin 0 .. Chunk - 1
          /\ o % BlkWords \in 0 .. BlkWords - 1
      BY <1>11, <2>3
    <3>2. CASE Ptr(View(File), disk, SlotKey) = 0
      <4>1. WordOf(View(f), disk, o) = Absent
        BY <1>13, <2>3, <1>12, <3>2, WordAbsent
      <4>2. Contents(f)[o] = Absent
        BY <1>2, <1>3, <1>13, <4>1, Stored
      <4>. QED
        BY <2>3, <4>2
    <3>3. CASE /\ b = Ptr(View(File), disk, SlotKey)
               /\ disk'[Addr(b, o % BlkWords)] = disk[Addr(b, o % BlkWords)]
      <4>1. BlkAt(View(f), disk, Num) = b
        BY <1>13, <1>12, <3>3, NumKeyIs
      <4>2. Ptr(View(f)', disk', SlotKey) = b
        BY <1>3, <1>13, <1>12 DEF WroteTo
      <4>3. BlkAt(View(f)', disk', Num) = b
        BY <1>12, <4>2, NumKeyIs
      <4>4. WordOf(View(f)', disk', o) = WordOf(View(f), disk, o)
        BY <2>3, <3>3, <4>1, <4>3 DEF WordOf
      <4>5. Contents(f)'[o] = Contents(f)[o]
        BY <1>2, <1>1, <1>3, <1>4, <1>13, <4>4, Stored, StoredNext
      <4>. QED
        BY <2>3, <4>5
    <3>. QED
      BY <3>1, <3>2, <3>3
  <2>. QED
    BY <2>1, <2>2, <2>3
<1>. QED
  BY <1>3, <1>4, <1>6, <1>8, <1>9, <1>13, <1>5
     DEF Store!StoreWords, Store!OthersKept, Store!Offsets, Job, Num, SizeOf

(* While a write is in progress its handle's copy changes, but not in size *)
(* before the end.                                                         *)
SizeInStep == req.op = "write" => Inode.size = tab[File].size

LEMMA SizeKept ==
  ASSUME TInv, SizeInStep, req.op = "write", req # Idle, req'.h = req.h,
         tab' = tab, NEW inode, inode.size = Inode.size,
         handles' = handles \/ handles' = [handles EXCEPT ![req.h].inode = inode]
  PROVE  SizeInStep'
<1>1. req.h \in Handles /\ handles[req.h] \in [file : Files, inode : Inodes]
  BY RequestType
<1>2. handles'[req.h].file = handles[req.h].file
      /\ handles'[req.h].inode.size = handles[req.h].inode.size
  BY <1>1, HandleTypes DEF Inode
<1>. QED
  BY <1>2 DEF SizeInStep, File, Inode

LEMMA WriteKeepsSize ==
  ASSUME TInv, SizeInStep, WriteStep
  PROVE  SizeInStep'
<1>1. req.op = "write" /\ req # Idle
  <2>1. req.op = "write"
    BY DEF WriteStep, WriteFound, WriteStrays, WriteBeyond, WriteNoMemory, WriteDirect,
           WriteIndirect, WriteNewIndirect, WriteStarved, WriteFaults, WriteEnd, Missing,
           Writing
  <2>2. Idle.op = "none"
    BY DEF Idle
  <2>. QED
    BY <2>1, <2>2
<1>2. Inode \in Inodes /\ req \in ReqType
  BY <1>1, RequestType DEF GoodInodes
<1>3. ASSUME req' = Idle PROVE SizeInStep'
  <2>1. Idle.op = "none"
    BY DEF Idle
  <2>. QED
    BY <1>3, <2>1 DEF SizeInStep
<1>4. \A n, blk : req' = [req EXCEPT !.total = n, !.blk = blk]
                    \/ req' = [req EXCEPT !.size = n] => req'.h = req.h
  BY <1>2 DEF ReqType
<1>5. ASSUME NEW blk, NEW at, Stray(blk, at)
      PROVE  SizeInStep'
  <2>1. CASE GiveUp("lost_write")
    BY <1>3, <2>1 DEF GiveUp, MemoryLost
  <2>2. CASE SaveAstray(disk, blk, at) /\ UNCHANGED <<blocks, handles>>
    <3>1. tab' = tab /\ handles' = handles /\ req'.h = req.h
      BY <1>4, <2>2 DEF SaveAstray
    <3>. QED
      BY <1>1, <3>1, SizeKept
  <2>. QED
    BY <1>5, <2>1, <2>2 DEF Stray
<1>6. CASE WriteStrays \/ WriteBeyond
  BY <1>5, <1>6 DEF WriteStrays, WriteBeyond
<1>7. CASE WriteFound \/ WriteIndirect
  <2>1. tab' = tab /\ handles' = handles /\ req'.h = req.h
    BY <1>4, <1>7 DEF WriteFound, WriteIndirect, SaveChunk
  <2>. QED
    BY <1>1, <2>1, SizeKept
<1>8. CASE WriteDirect
  <2> DEFINE inode == [Inode EXCEPT !.direct[Num] = AllocIdx(blocks)]
  <2>1. /\ tab' = tab /\ req'.h = req.h
        /\ handles' = [handles EXCEPT ![req.h].inode = inode]
    BY <1>4, <1>8 DEF WriteDirect, SaveChunk, Inode
  <2>2. inode.size = Inode.size
    BY <1>2 DEF Inodes
  <2> HIDE DEF inode
  <2>. QED
    BY <1>1, <2>1, <2>2, SizeKept
<1>9. ASSUME NEW b, tab' = tab, req'.h = req.h,
             handles' = [handles EXCEPT ![req.h].inode.indirect = b]
      PROVE  SizeInStep'
  <2> DEFINE inode == [Inode EXCEPT !.indirect = b]
  <2>1. handles' = [handles EXCEPT ![req.h].inode = inode]
    BY <1>9 DEF Inode
  <2>2. inode.size = Inode.size
    BY <1>2 DEF Inodes
  <2> HIDE DEF inode
  <2>. QED
    BY <1>1, <1>9, <2>1, <2>2, SizeKept
<1>10. CASE WriteNewIndirect
  <2>1. /\ tab' = tab /\ req'.h = req.h
        /\ handles' = [handles EXCEPT ![req.h].inode.indirect = AllocIdx(blocks)]
    BY <1>4, <1>10 DEF WriteNewIndirect, SaveChunk
  <2>. QED
    BY <1>9, <2>1
<1>11. CASE WriteStarved
  <2>1. CASE GiveUp("lost_write")
    BY <1>3, <2>1 DEF GiveUp, MemoryLost
  <2>2. CASE /\ tab' = tab /\ req'.h = req.h
             /\ handles' = [handles EXCEPT ![req.h].inode.indirect = AllocIdx(blocks)]
    BY <1>9, <2>2
  <2>. QED
    BY <1>4, <1>11, <2>1, <2>2 DEF WriteStarved, SaveAstray
<1>12. CASE WriteNoMemory
  <2>1. tab' = tab /\ handles' = handles /\ req'.h = req.h
    BY <1>4, <1>12 DEF WriteNoMemory
  <2>. QED
    BY <1>1, <2>1, SizeKept
<1>13. CASE WriteFaults \/ WriteEnd
  BY <1>3, <1>13 DEF WriteFaults, End, MemoryLost, WriteEnd
<1>. QED
  BY <1>6, <1>7, <1>8, <1>10, <1>11, <1>12, <1>13 DEF WriteStep

LEMMA SizeStep ==
  ASSUME OneHandle, TInv, CopyInv, SizeInStep, [Next]_vars
  PROVE  SizeInStep'
<1>1. Idle.op = "none"
  BY DEF Idle
<1>2. CASE WriteStep
  BY <1>2, WriteKeepsSize
<1>3. CASE ReadStep
  <2>1. req'.op \in {"read", "none"}
    BY <1>3, ReadShape
  <2>. QED
    BY <2>1 DEF SizeInStep
<1>4. CASE UNCHANGED vars
  BY <1>4 DEF vars, SizeInStep, Inode, File
<1>5. ASSUME NEW h \in Handles, NEW off \in Offs, NEW size \in Lens,
             WriteBegin(h, off, size) \/ ReadBegin(h, off, size)
      PROVE  SizeInStep'
  <2>1. Serving /\ Reopen(h) /\ req'.h = h
    BY <1>5 DEF WriteBegin, ReadBegin, Request
  <2>2. IsOpen(h)' /\ \A g \in Handles : IsOpen(g)' => InStep(g)'
    BY <2>1, ReopenBringsInStep, ReopenShape
  <2>3. handles'[h].inode = tab'[handles'[h].file]
    BY <2>2 DEF InStep
  <2>. QED
    BY <2>1, <2>3 DEF SizeInStep, Inode, File
<1>6. CASE \/ Restart \/ LookUp
           \/ \E h \in Handles : \/ Release(h) \/ ReopenFails(h) \/ Fgetattr(h)
                                 \/ ReleaseHidden(h) \/ UseFreed(h)
                                 \/ \E f \in Files : Create(h, f) \/ Open(h, f)
           \/ \E f \in Files : Remove(f) \/ LoseName(f)
           \/ \E f \in Files, size \in Sizes : Truncate(f, size)
  <2>1. req' = Idle
    <3>1. CASE Restart \/ \E h \in Handles : ReleaseHidden(h) \/ UseFreed(h)
      BY <3>1 DEF Restart, ReleaseHidden, UseFreed, End, GiveUp, MemoryLost
    <3>2. CASE LookUp \/ \E h \in Handles : Release(h) \/ ReopenFails(h) \/ Fgetattr(h)
      BY <3>2 DEF LookUp, Release, ReopenFails, Fgetattr, Serving
    <3>3. CASE \E h \in Handles, f \in Files : Create(h, f) \/ Open(h, f)
      BY <3>3 DEF Create, Open, Serving
    <3>4. CASE \E f \in Files : Remove(f) \/ LoseName(f)
      BY <3>4 DEF Remove, LoseName, Serving
    <3>5. CASE \E f \in Files, size \in Sizes : Truncate(f, size)
      BY <3>5 DEF Truncate, TruncateAborts, TruncateDone, End, MemoryLost, Serving
    <3>. QED
      BY <1>6, <3>1, <3>2, <3>3, <3>4, <3>5
  <2>. QED
    BY <1>1, <2>1 DEF SizeInStep
<1>. QED
  BY <1>2, <1>3, <1>4, <1>5, <1>6 DEF Next

\* A step of a write that stays in control.
LEMMA WriteStepStored ==
  ASSUME FileInv, TInv, SizeInStep, InControl, InControl', WriteStep
  PROVE  Store!Next
<1>1. phase = "up" /\ phase' = "up" /\ ~wild /\ ~wild'
  BY DEF InControl
<1>2. disk \in [Addresses -> Words]
  BY DEF TInv, TypeOK
<1>3. CASE WriteFound
  <2>1. /\ Writing /\ ~Beyond /\ Found \in Indices
        /\ SaveChunk(disk, Found) /\ handles' = handles
    BY <1>3 DEF WriteFound, IsStray
  <2>2. /\ WroteTo(Found) /\ Found = Ptr(View(File), disk, SlotKey)
        /\ \A at \in 0 .. BlkWords - 1 :
             at - (Offset % BlkWords) \notin 0 .. Chunk - 1 =>
               disk'[Addr(Found, at)] = disk[Addr(Found, at)]
    BY <1>1, <1>3, WriteFoundEffect
  <2>3. Store!StoreWords
    BY <1>2, <2>1, <2>2, RoundAdvances
  <2>. QED
    BY <2>3 DEF Store!Next
<1>4. CASE WriteDirect
  <2> DEFINE b == AllocIdx(blocks)
  <2>1. /\ Writing /\ ~Beyond /\ HasRoom(blocks)
        /\ SaveChunk(disk, b)
        /\ handles' = [handles EXCEPT ![req.h].inode.direct[Num] = b]
    BY <1>4 DEF WriteDirect, Missing
  <2>2. b \in Indices \ Used(blocks)
    BY <2>1, AllocType
  <2>3. WroteTo(b) /\ Ptr(View(File), disk, SlotKey) = 0
    BY <1>1, <1>4, WriteDirectEffect
  <2>4. \E inode : handles' = [handles EXCEPT ![req.h].inode = inode]
    <3>1. handles' = [handles EXCEPT ![req.h].inode = [Inode EXCEPT !.direct[Num] = b]]
      BY <2>1 DEF Inode
    <3>. QED
      BY <3>1
  <2> HIDE DEF b
  <2>5. Store!StoreWords
    BY <1>2, <2>1, <2>2, <2>3, <2>4, RoundAdvances
  <2>. QED
    BY <2>5 DEF Store!Next
<1>5. CASE WriteIndirect
  <2> DEFINE b   == AllocIdx(blocks)
             dev == [disk EXCEPT ![Addr(Inode.indirect, Num - Direct)] = b]
  <2>1. /\ Writing /\ ~Beyond /\ HasRoom(blocks)
        /\ SaveChunk(dev, b) /\ handles' = handles
    BY <1>5 DEF WriteIndirect, Missing
  <2>2. b \in Indices \ Used(blocks)
    BY <2>1, AllocType
  <2>3. WroteTo(b) /\ Ptr(View(File), disk, SlotKey) = 0
    BY <1>1, <1>5, WriteIndirectEffect
  <2> HIDE DEF b
  <2>4. dev \in [Addresses -> Words]
    BY <1>2, <2>2, PutType
  <2> HIDE DEF dev
  <2>5. Store!StoreWords
    BY <2>1, <2>2, <2>3, <2>4, RoundAdvances
  <2>. QED
    BY <2>5 DEF Store!Next
<1>6. CASE WriteNewIndirect
  <2> DEFINE ind   == AllocIdx(blocks)
             b     == AllocIdx(Allocated(blocks))
             clear == Cleared(disk, ind)
             dev   == [clear EXCEPT ![Addr(ind, Num - Direct)] = b]
  <2>1. /\ Writing /\ ~Beyond /\ HasRoom(blocks) /\ HasRoom(Allocated(blocks))
        /\ SaveChunk(dev, b)
        /\ handles' = [handles EXCEPT ![req.h].inode.indirect = ind]
    BY <1>6 DEF WriteNewIndirect, Missing
  <2>2. b \in Indices \ Used(blocks)
    BY <2>1, AllocType
  <2>3. WroteTo(b) /\ Ptr(View(File), disk, SlotKey) = 0
    BY <1>1, <1>6, WriteNewIndirectEffect
  <2>4. \E inode : handles' = [handles EXCEPT ![req.h].inode = inode]
    <3>1. handles' = [handles EXCEPT ![req.h].inode = [Inode EXCEPT !.indirect = ind]]
      BY <2>1 DEF Inode
    <3>. QED
      BY <3>1
  <2>5. clear \in [Addresses -> Words]
    BY <1>2, ClearedType
  <2> HIDE DEF b, ind, clear
  <2>6. dev \in [Addresses -> Words]
    BY <2>2, <2>5, PutType
  <2> HIDE DEF dev
  <2>7. Store!StoreWords
    BY <2>1, <2>2, <2>3, <2>4, <2>6, RoundAdvances
  <2>. QED
    BY <2>7 DEF Store!Next
<1>7. CASE WriteNoMemory
  <2>1. /\ Writing /\ req' = [req EXCEPT !.size = req.total]
        /\ UNCHANGED <<phase, linked, disk, tab, handles>>
    BY <1>7 DEF WriteNoMemory, Missing
  <2>2. req.op = "write" /\ req # Idle /\ req.total < req.size
    BY <2>1, ChunkFits DEF Writing
  <2>3. req \in ReqType /\ req.off \in Nat /\ req.size \in Nat /\ req.total \in Nat
    BY <2>2, RequestType
  <2>4. /\ req'.op = req.op /\ req'.h = req.h /\ req'.off = req.off
        /\ req'.total = req.total /\ req'.size = req.total
    BY <2>1, <2>3 DEF ReqType
  <2>5. req' # Idle
    <3>1. Idle.op = "none"
      BY DEF Idle
    <3>. QED
      BY <2>2, <2>4, <3>1
  <2>6. Offset < req.off + req.size
    BY <2>2, <2>3 DEF Offset
  <2>7. /\ Job = [op |-> "write", file |-> File, from |-> req.off, at |-> Offset,
                  to |-> req.off + req.size]
        /\ Job' = [op |-> "write", file |-> File, from |-> req.off, at |-> Offset,
                   to |-> Offset]
    BY <2>1, <2>2, <2>4, <2>5 DEF Job, Offset, File
  <2>8. Live' = Live /\ \A f : View(f)' = View(f)
    BY <1>7, QuietViews
  <2>9. \A f \in Files : Contents(f)' = Contents(f) /\ SizeOf(f)' = SizeOf(f)
    BY <2>1, <2>8, PointersKept DEF SizeOf
  <2>10. Store!Shorten
    BY <2>2, <2>5, <2>6, <2>7, <2>8, <2>9 DEF Store!Shorten, Job, SizeOf
  <2>. QED
    BY <2>10 DEF Store!Next
<1>8. CASE WriteEnd
  <2> DEFINE old == Inode.size
             n   == IF old > req.off THEN req.total ELSE req.total + old
  <2>1. /\ req.op = "write" /\ req.total = req.size /\ req' = Idle
        /\ UNCHANGED <<phase, linked, disk>>
        /\ tab' = [tab EXCEPT ![File] = SetSize(Inode, n)]
    BY <1>8 DEF WriteEnd
  <2>2. req # Idle /\ File \in Live /\ Live' = Live
        /\ \A f \in Live : /\ View(f)'.direct = View(f).direct
                           /\ View(f)'.indirect = View(f).indirect
    BY <1>8, WriteEndEffect
  <2>3. \A f \in Files : Contents(f)' = Contents(f)
    BY <2>1, <2>2, PointersKept
  <2>4. /\ req.off \in Nat /\ req.total \in Nat /\ Inode \in Inodes /\ File \in Files
    BY <2>2, RequestType DEF GoodInodes
  <2>5. old = SizeOf(File)
    BY <2>1, <2>2 DEF SizeInStep, SizeOf
  <2>6. SetSize(Inode, n).size = n
    BY <2>4 DEF SetSize, Inodes
  <2> HIDE DEF n
  <2>7. tab'[File].size = n /\ \A f \in Files \ {File} : tab'[f] = tab[f]
    BY <2>1, <2>4, <2>6, TabType
  <2>8. \A f \in Files : SizeOf(f)' = IF f = File THEN n ELSE SizeOf(f)
    BY <2>2, <2>7 DEF SizeOf
  <2>9. Offset - req.off = req.total
    BY <2>4 DEF Offset
  <2>10. /\ Job = [op |-> "write", file |-> File, from |-> req.off, at |-> Offset,
                   to |-> Offset]
         /\ Job' = [op |-> "none", file |-> 0, from |-> 0, at |-> 0, to |-> 0]
    BY <2>1, <2>2 DEF Job, Offset
  <2>11. n = IF SizeOf(File) > req.off THEN Offset - req.off
             ELSE Offset - req.off + SizeOf(File)
    BY <2>5, <2>9 DEF n
  <2> HIDE DEF old
  <2>12. Store!FinishWrite
    BY <2>2, <2>3, <2>4, <2>8, <2>10, <2>11
       DEF Store!FinishWrite, Store!Nothing, Job, SizeOf
  <2>. QED
    BY <2>12 DEF Store!Next
<1>9. CASE WriteStrays \/ WriteBeyond \/ WriteStarved \/ WriteFaults
  <2>1. MemoryLost
    BY <1>1, <1>9 DEF WriteStrays, WriteBeyond, WriteStarved, WriteFaults, Stray, SaveAstray,
                      GiveUp, End
  <2>2. Store!Lose
    BY <2>1, LosesAll
  <2>. QED
    BY <2>2 DEF Store!Next
<1>. QED
  BY <1>3, <1>4, <1>5, <1>6, <1>7, <1>8, <1>9 DEF WriteStep

\* A chunk of a block that a file may have is not cut by the end of its group.
LEMMA BlockWithin ==
  ASSUME NEW blk \in Indices \ {RootBlk}, NEW r \in 0 .. BlkWords - 1,
         NEW n \in Nat, n <= BlkWords - r
  PROVE  Within(Addr(blk, r), n)
<1> DEFINE g    == (blk - 1) \div BlkInodeNum
           b    == (blk - 1) % BlkInodeNum
           size == BlkInodeNum * BlkWords
           a    == Addr(blk, r)
<1>1. blk - 1 \in Nat /\ r \in Nat /\ r < BlkWords
  BY IndicesAreNat, SizesAreNat
<1>2. g \in Nat /\ b \in 0 .. BlkInodeNum - 1 /\ blk - 1 = g * BlkInodeNum + b
  BY <1>1, SizesAreNat, Division
<1> HIDE DEF g, b
<1>3. /\ size \in Nat /\ b * BlkWords \in Nat /\ g * size \in Nat
      /\ g * BlkInodeNum \in Nat
  BY <1>2, SizesAreNat, SMT
<1>4. (blk - 1) * BlkWords = g * size + b * BlkWords
  BY <1>2, SizesAreNat, SMT
<1>5. b * BlkWords + BlkWords <= size
  BY <1>2, SizesAreNat, ProductMonotone
<1>6. a = g * size + (b * BlkWords + r)
  BY <1>1, <1>3, <1>4 DEF Addr
<1>7. b * BlkWords + r \in 0 .. size - 1
  BY <1>1, <1>3, <1>5, SizesAreNat
<1>8. a % size = b * BlkWords + r
  <2> HIDE DEF size, a
  <2>1. (g * size + (b * BlkWords + r)) % size = b * BlkWords + r
    BY <1>2, <1>3, <1>7, DivisionUnique
  <2>. QED
    BY <1>6, <2>1
<1>9. a \in Addresses /\ a \div BlkWords + 1 = blk
  BY AddrEffect, IndicesAreNat
<1>10. (a % size) + n <= size
  BY <1>1, <1>3, <1>5, <1>8, SizesAreNat
<1>. QED
  BY <1>9, <1>10 DEF Within

\* A read goes by the copy of its handle, which is the inode on the device.
LEMMA ReadingView ==
  ASSUME TInv, CopyInv, req # Idle, req.op = "read"
  PROVE  File \in Live /\ File \in Files /\ View(File) = Inode
<1>1. req.h \in Handles /\ File \in Files
  BY RequestType
<1>2. File \in Live
  BY <1>1 DEF Live, File
<1>3. Inode = tab[File]
  BY <1>1 DEF CopyInv, ReopenedFirst, CopiesAreTrue, IsOpen, InStep, File, Inode
<1>. QED
  BY <1>1, <1>2, <1>3 DEF View

\* The offsets of a chunk, and what the file has there.
LEMMA ChunkInLimit ==
  ASSUME TInv, Writing \/ Reading, ~Beyond, NEW o \in Offset .. Offset + Chunk - 1
  PROVE  o \in 0 .. Limit - 1
<1> DEFINE blks == Direct + BlkWords
           r    == Offset % BlkWords
<1>1. /\ Offset \in Nat /\ Num \in Nat /\ r \in 0 .. BlkWords - 1
      /\ Offset = Num * BlkWords + r
      /\ Chunk \in Nat /\ Chunk <= BlkWords - r
  BY ChunkFits
<1>2. blks \in Nat /\ Num < blks
  BY <1>1, SizesAreNat DEF Beyond
<1> HIDE DEF blks, r
<1>3. Num * BlkWords + BlkWords <= blks * BlkWords
  BY <1>1, <1>2, SizesAreNat, ProductMonotone
<1>4. Num * BlkWords \in Nat /\ blks * BlkWords \in Nat
  BY <1>1, <1>2, SizesAreNat, SMT
<1>5. Limit = blks * BlkWords
  BY DEF Limit, blks
<1>. QED
  BY <1>1, <1>3, <1>4, <1>5, SizesAreNat

LEMMA ChunkHolds ==
  ASSUME FileInv, TInv, InControl, Reading \/ Writing, ~Beyond, File \in Live,
         View(File) = Inode, NEW o \in Offset .. Offset + Chunk - 1, NEW f, f = File
  PROVE  Contents(f)[o] =
           IF (Num < Direct \/ Inode.indirect # 0) /\ Found \in Indices
           THEN disk[Addr(Found, o % BlkWords)] ELSE Absent
<1>1. o \in 0 .. Limit - 1 /\ phase = "up" /\ ~wild
  BY ChunkInLimit DEF InControl
<1>2. o \div BlkWords = Num /\ o % BlkWords \in 0 .. BlkWords - 1
      /\ Num \in 0 .. Direct + BlkWords - 1
  BY <1>1, ChunkOffsets, OffsetParts
<1>3. SlotKey = NumKey(Num) /\ SlotKey \in Keys
  BY FoundIsPtr DEF SlotKey, NumKey
<1>4. Contents(f)[o] = WordOf(Inode, disk, o)
  BY <1>1, Stored
<1>5. CASE Num < Direct \/ Inode.indirect # 0
  <2>1. BlkAt(Inode, disk, Num) = Found
    BY <1>2, <1>3, <1>5, FoundIsPtr, NumKeyIs
  <2>. QED
    BY <1>2, <1>4, <1>5, <2>1 DEF WordOf
<1>6. CASE ~(Num < Direct \/ Inode.indirect # 0)
  <2>1. BlkAt(Inode, disk, Num) = 0
    BY <1>6 DEF BlkAt
  <2>2. WordOf(Inode, disk, o) = Absent
    BY <1>2, <2>1, IndicesAreNat DEF WordOf
  <2>. QED
    BY <1>4, <1>6, <2>2
<1>. QED
  BY <1>5, <1>6

\* A chunk is read to its place in the buffer.
LEMMA ChunkRead ==
  ASSUME FileInv, TInv, CopyInv, InControl, Reading, ~Beyond, Found # 0,
         NEW blk \in TakenFor(Found), NEW buf,
         buf = Filled(Seek(PosAfterFind(Inode, Num), blk, Offset % BlkWords))
  PROVE  /\ \A o \in req.off .. Offset - 1 : buf[o - req.off] = req.buf[o - req.off]
         /\ \A o \in Offset .. Offset + Chunk - 1 :
              Contents(File)[o] \in {Absent, buf[o - req.off]}
<1> DEFINE at == Seek(PosAfterFind(Inode, Num), blk, Offset % BlkWords)
<1>1. /\ req # Idle /\ req.op = "read" /\ req.total < req.size /\ ~wild
      /\ Offset \in Nat /\ Chunk \in Nat /\ Chunk > 0
      /\ Chunk <= req.size - req.total
      /\ Offset % BlkWords \in 0 .. BlkWords - 1
      /\ Chunk <= BlkWords - (Offset % BlkWords)
  BY ChunkFits DEF InControl, Reading
<1>2. /\ req \in ReqType /\ req.off \in Nat /\ req.size \in Nat /\ req.total \in Nat
      /\ req.size <= MaxEnd
  <2>1. req.off \in Nat /\ req.size \in Nat /\ req.off + req.size <= MaxEnd
    BY <1>1, RequestType
  <2>. QED
    BY <1>1, <2>1, RequestType, SizesAreNat
<1>3. Offset = req.off + req.total
  BY DEF Offset
<1>4. File \in Live /\ View(File) = Inode
  BY <1>1, ReadingView
<1>5. \A i \in Sizes :
        buf[i] = IF i - req.total \notin 0 .. Chunk - 1 THEN req.buf[i]
                 ELSE IF Within(at, Chunk) THEN disk[at + i - req.total] ELSE Any
  BY DEF Filled
<1> HIDE DEF at
<1>6. ASSUME NEW o \in req.off .. Offset - 1
      PROVE  buf[o - req.off] = req.buf[o - req.off]
  <2> DEFINE i == o - req.off
  <2>1. i \in Sizes /\ i - req.total \notin 0 .. Chunk - 1
    BY <1>1, <1>2, <1>3, SizesAreNat DEF Sizes
  <2> HIDE DEF i
  <2>2. buf[i] = req.buf[i]
    BY <1>5, <2>1
  <2>. QED
    BY <2>2 DEF i
<1>7. ASSUME NEW o \in Offset .. Offset + Chunk - 1
      PROVE  Contents(File)[o] \in {Absent, buf[o - req.off]}
  <2>1. CASE ~((Num < Direct \/ Inode.indirect # 0) /\ Found \in Indices)
    BY <1>4, <2>1, ChunkHolds
  <2>2. CASE (Num < Direct \/ Inode.indirect # 0) /\ Found \in Indices
    <3>1. Found \in Indices \ {RootBlk} /\ blk = Found
      BY <1>1, <1>4, <2>2, FoundInUse DEF TakenFor
    <3>2. at = Addr(Found, Offset % BlkWords)
      BY <3>1 DEF at, Seek
    <3>3. Within(at, Chunk)
      BY <1>1, <3>1, <3>2, BlockWithin
    <3> DEFINE i == o - req.off
    <3>4. i \in Sizes /\ i - req.total \in 0 .. Chunk - 1 /\ i - req.total = o - Offset
      BY <1>1, <1>2, <1>3, SizesAreNat DEF Sizes
    <3>5. at + i - req.total = Addr(Found, o % BlkWords)
      <4>1. o \in 0 .. Limit - 1
        BY ChunkInLimit
      <4>2. (o % BlkWords) \in Nat /\ Offset + (o % BlkWords) - (Offset % BlkWords) = o
        BY <4>1, ChunkOffsets, OffsetParts
      <4>3. (Found - 1) * BlkWords \in Int
        <5>1. Found \in Nat
          BY <3>1, IndicesAreNat
        <5>. QED
          BY <5>1, SizesAreNat, SMT
      <4> DEFINE start == (Found - 1) * BlkWords
                 p     == Offset % BlkWords
                 q     == o % BlkWords
      <4>4. at = start + p /\ Addr(Found, q) = start + q
        BY <3>2 DEF Addr
      <4>5. start \in Int /\ p \in Nat /\ q \in Nat /\ Offset + q - p = o
        BY <1>1, <4>2, <4>3
      <4> HIDE DEF start, p, q
      <4>6. at + i - req.total = start + q
        BY <1>1, <1>2, <3>4, <4>4, <4>5, SizesAreNat DEF Sizes
      <4>. QED
        BY <4>4, <4>6 DEF q
    <3> HIDE DEF i
    <3>6. buf[i] = disk[at + i - req.total]
      BY <1>5, <3>3, <3>4
    <3>7. Contents(File)[o] = disk[Addr(Found, o % BlkWords)]
      BY <1>4, <2>2, ChunkHolds
    <3>. QED
      BY <3>5, <3>6, <3>7 DEF i
  <2>. QED
    BY <2>1, <2>2
<1>. QED
  BY <1>6, <1>7

LEMMA ReadStepStored ==
  ASSUME FileInv, TInv, CopyInv, InControl, InControl', ReadStep
  PROVE  Store!Next
<1>1. /\ req # Idle /\ req.op = "read"
      /\ UNCHANGED <<phase, blocks, linked, disk, tab, handles, reopen, wild>>
  BY ReadShape
<1>2. Live' = Live /\ \A f \in Files : Contents(f)' = Contents(f) /\ SizeOf(f)' = SizeOf(f)
  <2>1. Live' = Live /\ \A f : View(f)' = View(f)
    BY QuietViews
  <2>. QED
    BY <1>1, <2>1, PointersKept DEF SizeOf
<1>3. File \in Live /\ File \in Files /\ View(File) = Inode
  BY <1>1, ReadingView
<1>4. /\ req \in ReqType /\ req.off \in Nat /\ req.size \in Nat /\ req.total \in Nat
      /\ Offset = req.off + req.total
  BY <1>1, RequestType DEF Offset
<1>5. Job = [op |-> "read", file |-> File, from |-> req.off, at |-> Offset,
             to |-> req.off + req.size]
  BY <1>1 DEF Job
<1>6. CASE ReadChunk
  <2> DEFINE end == Offset + Chunk
  <2>1. Reading /\ ~Beyond /\ Found # 0
    BY <1>6 DEF ReadChunk
  <2>2. PICK blk \in TakenFor(Found) :
          req' = [req EXCEPT !.total = @ + Chunk,
                    !.buf = Filled(Seek(PosAfterFind(Inode, Num), blk, Offset % BlkWords))]
    BY <1>6 DEF ReadChunk
  <2>3. /\ req'.op = "read" /\ req'.h = req.h /\ req'.off = req.off /\ req'.size = req.size
        /\ req'.total = req.total + Chunk
        /\ req'.buf = Filled(Seek(PosAfterFind(Inode, Num), blk, Offset % BlkWords))
    BY <1>1, <1>4, <2>2 DEF ReqType
  <2>4. /\ \A o \in req.off .. Offset - 1 : req'.buf[o - req.off] = req.buf[o - req.off]
        /\ \A o \in Offset .. Offset + Chunk - 1 :
             Contents(File)[o] \in {Absent, req'.buf[o - req.off]}
    BY <2>1, <2>3, ChunkRead
  <2>5. req' # Idle
    <3>1. Idle.op = "none"
      BY DEF Idle
    <3>. QED
      BY <2>3, <3>1
  <2>6. /\ Chunk \in Nat /\ Chunk > 0 /\ Offset \in Nat /\ end \in Offset + 1 .. req.off + req.size
        /\ Offset < req.off + req.size
    <3>1. /\ Chunk \in Nat /\ Chunk > 0 /\ Offset \in Nat
          /\ Offset + Chunk <= req.off + req.size
      BY <2>1, ChunkFits
    <3>. QED
      BY <1>4, <3>1
  <2>7. Job' = [op |-> "read", file |-> File, from |-> req.off, at |-> end,
                to |-> req.off + req.size]
    BY <1>1, <1>4, <2>3, <2>5, <2>6 DEF Job, File, Offset
  <2>8. ASSUME NEW o \in Offset .. end - 1
        PROVE  o \in 0 .. Limit - 1 /\ Contents(File)[o] \in {Absent, req'.buf[o - req.off]}
    <3>1. o \in Offset .. Offset + Chunk - 1
      BY <2>6
    <3>. QED
      BY <2>1, <2>4, <3>1, ChunkInLimit
  <2> HIDE DEF end
  <2>9. Store!FetchWords
    BY <1>2, <1>3, <1>5, <1>1, <2>4, <2>5, <2>6, <2>7, <2>8
       DEF Store!FetchWords, Store!Offsets, Job, SizeOf
  <2>. QED
    BY <2>9 DEF Store!Next
<1>7. CASE ReadFails
  <2>1. Reading /\ req' = Idle /\ (Beyond \/ (~Beyond /\ Found \notin Indices))
    BY <1>7 DEF ReadFails
  <2>2. /\ Offset \in Nat /\ Num \in Nat /\ Offset < req.off + req.size
        /\ Offset \in Offset .. req.off + req.size - 1
        /\ Offset \in Offset .. Offset + Chunk - 1
        /\ Offset = Num * BlkWords + (Offset % BlkWords) /\ Offset % BlkWords \in Nat
    <3>1. /\ Chunk \in Nat /\ Chunk > 0 /\ Offset \in Nat /\ Num \in Nat
          /\ Offset + Chunk <= req.off + req.size
          /\ Offset = Num * BlkWords + (Offset % BlkWords)
          /\ Offset % BlkWords \in 0 .. BlkWords - 1
      BY <2>1, ChunkFits
    <3>. QED
      BY <1>4, <3>1, SizesAreNat
  <2>3. Offset \notin 0 .. Limit - 1 \/ Contents(File)[Offset] = Absent
    <3>1. CASE Beyond
      <4>1. Offset \div BlkWords = Num /\ Num >= Direct + BlkWords
        BY <3>1 DEF Num, Beyond
      <4>2. Offset \in 0 .. Limit - 1 => Offset \div BlkWords \in 0 .. Direct + BlkWords - 1
        BY OffsetParts
      <4>. QED
        BY <2>2, <4>1, <4>2, SizesAreNat
    <3>2. CASE ~Beyond /\ Found \notin Indices
      BY <1>3, <2>1, <2>2, <3>2, ChunkHolds
    <3>. QED
      BY <2>1, <3>1, <3>2
  <2>4. \E o \in Job.at .. Job.to - 1 :
          o \notin 0 .. Limit - 1 \/ Contents(Job.file)[o] = Absent
    <3>1. Job.at = Offset /\ Job.to = req.off + req.size /\ Job.file = File
      BY <1>5
    <3>2. Offset \in Job.at .. Job.to - 1
      BY <1>4, <2>2, <3>1
    <3>3. Offset \notin 0 .. Limit - 1 \/ Contents(Job.file)[Offset] = Absent
      BY <2>3, <3>1
    <3>. QED
      BY <3>2, <3>3
  <2>5. Store!FailRead
    <3>1. Job.op = "read" /\ Job.file \in Files
      BY <1>3, <1>5
    <3>2. Job' = [op |-> "none", file |-> 0, from |-> 0, at |-> 0, to |-> 0]
      BY <2>1 DEF Job
    <3>. QED
      BY <1>1, <1>2, <2>4, <3>1, <3>2
         DEF Store!FailRead, Store!Offsets, Store!Nothing, Job, SizeOf
  <2>. QED
    BY <2>5 DEF Store!Next
<1>8. CASE ReadEnd
  <2>1. req' = Idle /\ req.total = req.size
    BY <1>8 DEF ReadEnd
  <2>2. Store!FinishRead
    BY <1>1, <1>2, <1>4, <1>5, <2>1 DEF Store!FinishRead, Store!Nothing, Job, SizeOf
  <2>. QED
    BY <2>2 DEF Store!Next
<1>. QED
  BY <1>6, <1>7, <1>8 DEF ReadStep

\* Once a write has gone astray, or the process has ended, it stays so.
LEMMA StaysOut ==
  ASSUME TInv, [Next]_vars, ~InControl
  PROVE  ~InControl' \/ MemoryLost
<1>1. CASE UNCHANGED vars
  BY <1>1 DEF vars, InControl
<1>2. CASE Next /\ phase # "up"
  <2>1. req = Idle
    BY <1>2 DEF TInv, DownIsEmpty
  <2>2. Idle.op = "none"
    BY DEF Idle
  <2>3. ~WriteStep /\ ~ReadStep
    <3>1. ~ReadStep
      BY <2>1, ReadShape
    <3>2. WriteStep => req.op = "write"
      BY DEF WriteStep, WriteFound, WriteStrays, WriteBeyond, WriteNoMemory, WriteDirect,
             WriteIndirect, WriteNewIndirect, WriteStarved, WriteFaults, WriteEnd, Missing,
             Writing
    <3>. QED
      BY <2>1, <2>2, <3>1, <3>2
  <2>4. Restart
    BY <1>2, <2>3
       DEF Next, Create, Open, Release, ReleaseHidden, UseFreed, Fgetattr, ReopenFails, LookUp,
           Remove, LoseName, Truncate, WriteBegin, ReadBegin, Serving
  <2>. QED
    BY <2>4 DEF Restart
<1>3. CASE Next /\ wild
  <2>1. wild' = wild \/ wild' = TRUE \/ MemoryLost
    <3>1. CASE Restart \/ \E h \in Handles : ReleaseHidden(h) \/ UseFreed(h)
      BY <3>1 DEF Restart, ReleaseHidden, UseFreed, End, GiveUp
    <3>2. CASE LookUp \/ \E h \in Handles : \/ Release(h) \/ ReopenFails(h) \/ Fgetattr(h)
                                            \/ \E f \in Files : Create(h, f) \/ Open(h, f)
      BY <3>2 DEF LookUp, Release, ReopenFails, Fgetattr, Create, Open
    <3>3. CASE \E h \in Handles, off \in Offs, size \in Lens :
                 WriteBegin(h, off, size) \/ ReadBegin(h, off, size)
      BY <3>3 DEF WriteBegin, ReadBegin
    <3>4. CASE \E f \in Files : Remove(f) \/ LoseName(f)
      BY <3>4 DEF Remove, LoseName
    <3>5. CASE \E f \in Files, size \in Sizes : Truncate(f, size)
      BY <3>5 DEF Truncate, TruncateAborts, TruncateDone, End
    <3>6. CASE ReadStep
      BY <3>6, ReadShape
    <3>7. CASE WriteStep
      BY <3>7 DEF WriteStep, WriteFound, WriteStrays, WriteBeyond, WriteNoMemory, WriteDirect,
                  WriteIndirect, WriteNewIndirect, WriteStarved, WriteFaults, WriteEnd,
                  SaveChunk, Stray, SaveAstray, End, GiveUp
    <3>. QED
      BY <1>3, <3>1, <3>2, <3>3, <3>4, <3>5, <3>6, <3>7 DEF Next
  <2>. QED
    BY <1>3, <2>1 DEF InControl
<1>. QED
  BY <1>1, <1>2, <1>3 DEF InControl, TInv, TypeOK

(* Pointers, blocks and copies of inodes implement files of any number and *)
(* size, if one handle is open at a time.  Until a write goes astray or    *)
(* the process ends: fs_write_file stores its words at their offsets and   *)
(* in its file only; fs_read_file returns what was stored, to the size     *)
(* that the file has, and fails only where nothing was stored; whatever    *)
(* was truncated, removed, lost or overwritten before.                     *)
THEOREM FilesAreImplemented ==
  ASSUME OneHandle
  PROVE  Spec => ImplementsFileStore
<1>1. Init => Store!Init
  <2> SUFFICES ASSUME Init PROVE Store!Init
    OBVIOUS
  <2>1. linked = {} /\ req = Idle /\ handles = [h \in Handles |-> Closed]
    BY DEF Init
  <2>2. Live = {}
    BY <2>1, OpenMeans DEF Live
  <2>3. \A f \in Files : Contents(f) = [o \in 0 .. Limit - 1 |-> Absent]
    BY <2>2 DEF Contents
  <2>. QED
    BY <2>1, <2>2, <2>3 DEF Store!Init, Store!Empty, Store!Offsets, Store!Nothing
<1>2. FileInv /\ TInv /\ TInv' /\ CopyInv /\ SizeInStep /\ [Next]_vars =>
        [Store!Next]_(Store!vars)
  <2> SUFFICES ASSUME FileInv, TInv, TInv', CopyInv, SizeInStep, [Next]_vars
               PROVE  [Store!Next]_(Store!vars)
    OBVIOUS
  <2>1. CASE ~InControl' \/ MemoryLost
    <3>1. Store!Lose
      BY <2>1, LosesAll
    <3>. QED
      BY <3>1 DEF Store!Next
  <2>2. CASE InControl /\ InControl' /\ ~MemoryLost
    <3>1. CASE Restart \/ \E h \in Handles : ReleaseHidden(h) \/ UseFreed(h)
      BY <2>2, <3>1 DEF Restart, ReleaseHidden, UseFreed, End, GiveUp
    <3>2. ASSUME NEW h \in Handles,
                 Release(h) \/ ReopenFails(h) \/ \E f \in Files : Open(h, f)
          PROVE  [Store!Next]_(Store!vars)
      BY <2>2, <3>2, HandleStored
    <3>3. ASSUME NEW h \in Handles, NEW f \in Files, Create(h, f)
          PROVE  [Store!Next]_(Store!vars)
      <4>1. Store!Create(f)
        BY <2>2, <3>3, CreateStored
      <4>. QED
        BY <4>1 DEF Store!Next
    <3>4. ASSUME NEW h \in Handles,
                 \/ Fgetattr(h)
                 \/ \E off \in Offs, size \in Lens :
                      WriteBegin(h, off, size) \/ ReadBegin(h, off, size)
          PROVE  [Store!Next]_(Store!vars)
      BY <2>2, <3>4, OnHandleStored
    <3>5. CASE LookUp \/ UNCHANGED vars
      <4>1. UNCHANGED <<phase, linked, disk, tab, handles, req>>
        BY <3>5 DEF LookUp, vars
      <4>2. Live' = Live /\ \A f : View(f)' = View(f)
        BY <3>5, QuietViews
      <4>3. \A f \in Files : Contents(f)' = Contents(f) /\ SizeOf(f)' = SizeOf(f)
        BY <4>1, <4>2, PointersKept DEF SizeOf
      <4>4. Job' = Job
        BY <4>1 DEF Job, File, Offset
      <4>. QED
        BY <2>2, <4>1, <4>2, <4>3, <4>4, StoreStutters
    <3>6. ASSUME NEW f \in Files, Remove(f) \/ LoseName(f)
          PROVE  [Store!Next]_(Store!vars)
      BY <2>2, <3>6, NameStored
    <3>7. ASSUME NEW f \in Files, NEW size \in Sizes, Truncate(f, size)
          PROVE  [Store!Next]_(Store!vars)
      <4>1. Store!Truncate(f)
        BY <2>2, <3>7, TruncateStored
      <4>. QED
        BY <4>1 DEF Store!Next
    <3>8. CASE WriteStep \/ ReadStep
      BY <2>2, <3>8, WriteStepStored, ReadStepStored
    <3>. QED
      BY <3>1, <3>2, <3>3, <3>4, <3>5, <3>6, <3>7, <3>8 DEF Next
  <2>. QED
    BY <2>1, <2>2, StaysOut
<1>3. Init => SizeInStep
  BY DEF Init, SizeInStep, Idle
<1>4. TInv /\ CopyInv /\ SizeInStep /\ [Next]_vars => SizeInStep'
  BY SizeStep
<1>. QED
  BY <1>1, <1>2, <1>3, <1>4, FileInvariant, PTL
     DEF Spec, ImplementsFileStore, Store!Spec

=============================================================================
