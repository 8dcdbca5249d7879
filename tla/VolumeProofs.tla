---------------------------- MODULE VolumeProofs ----------------------------
(***************************************************************************)
(* Proofs about Volume, for every block size, every size of a device and   *)
(* every content of it.                                                    *)
(***************************************************************************)
EXTENDS Volume, Products

\* The lengths that a block size gives rise to, and how a group adds up.
LEMMA Lengths ==
  ASSUME NEW b \in BlkSizes
  PROVE  /\ b \in Nat /\ b > 0
         /\ blk_inode_num(b) \in Nat /\ blk_inode_num(b) > 0
         /\ INODE_SIZE \in Nat /\ INODE_SIZE > 0
         /\ INODE_SIZE * blk_inode_num(b) \in Nat
         /\ b * blk_inode_num(b) \in Nat
         /\ blkgrp_size(b) =
              2 * b + INODE_SIZE * blk_inode_num(b) + b * blk_inode_num(b)
         /\ blkgrp_size(b) \in Nat /\ blkgrp_size(b) > 0
<1> DEFINE n == blk_inode_num(b)
<1>1. b \in Nat /\ b > 0 /\ ByteBits \in Nat /\ ByteBits > 0
  BY BlkSizesAssumption, ByteBitsAssumption
<1>2. INODE_SIZE \in Nat /\ INODE_SIZE > 0
  BY InodeSizeAssumption
<1>3. n \in Nat /\ n > 0
  <2>1. n \in Nat
    BY <1>1, SMT DEF blk_inode_num
  <2>2. 0 * ByteBits + ByteBits <= n
    BY <1>1, ProductMonotone DEF blk_inode_num
  <2>. QED
    BY <2>1, <2>2, <1>1
<1>4. blkgrp_size(b) = 2 * b + n * (INODE_SIZE + b)
  BY DEF blkgrp_size
<1> HIDE DEF n
<1>5. n * (INODE_SIZE + b) = INODE_SIZE * n + b * n
  BY <1>1, <1>2, <1>3, SMT
<1>6. INODE_SIZE * n \in Nat /\ b * n \in Nat
  BY <1>1, <1>2, <1>3, SMT
<1>. QED
  BY <1>1, <1>2, <1>3, <1>4, <1>5, <1>6 DEF n

\* Groups follow each other; the first starts behind the superblock.
LEMMA GroupsFollow ==
  ASSUME NEW b \in BlkSizes, NEW g \in Nat
  PROVE  /\ GroupStart(b, g) \in Nat
         /\ b <= GroupStart(b, g)
         /\ \A h \in Nat : g < h => GroupStart(b, g) + blkgrp_size(b) <= GroupStart(b, h)
<1> DEFINE s == blkgrp_size(b)
<1>1. b \in Nat /\ s \in Nat
  BY Lengths
<1> HIDE DEF s
<1>2. \A h \in Nat : h * s \in Nat
  BY <1>1, SMT
<1>3. \A h \in Nat : g < h => g * s + s <= h * s
  BY <1>1, ProductMonotone
<1>. QED
  BY <1>1, <1>2, <1>3 DEF GroupStart, s

\* Splitting the index of a position gives back its group and the position.
LEMMA IndexRoundTrip ==
  ASSUME NEW v \in Superblocks,
         v.groups * blk_inode_num(v.block_size) < Word,
         NEW g \in GroupsOf(v), NEW pos \in PositionsOf(v)
  PROVE  LET b == v.block_size IN
         /\ grp_idx(b, Index(b, g, pos)) = g
         /\ bitvec_idx(b, Index(b, g, pos)) = pos
<1> DEFINE b == v.block_size
           n == blk_inode_num(b)
           i == g * n + pos
<1>1. b \in BlkSizes /\ v.groups \in Nat
  BY DEF Superblocks
<1>2. n \in Nat /\ n > 0
  BY <1>1, Lengths
<1>3. g \in Nat /\ g < v.groups /\ pos \in 0 .. n - 1
  BY <1>1, <1>2 DEF GroupsOf, PositionsOf
<1>4. v.groups * n < Word
  OBVIOUS
<1> HIDE DEF b, n
<1>5. g * n \in Nat /\ v.groups * n \in Nat
  BY <1>1, <1>2, <1>3, SMT
<1>6. g * n + n <= v.groups * n
  BY <1>1, <1>2, <1>3, ProductMonotone
<1>7. i \in Nat /\ i + 1 \in Nat /\ i + 1 < Word /\ Word \in Nat
  BY <1>2, <1>3, <1>4, <1>5, <1>6, WordAssumption
<1>8. i \div n = g /\ i % n = pos
  BY <1>2, <1>3, DivisionUnique
<1>9. Index(b, g, pos) = (i + 1) % Word
  BY DEF Index, n
<1> HIDE DEF i
<1>10. (i + 1) % Word = i + 1 /\ i % Word = i
  BY <1>7, SMT
<1>11. Slot(Index(b, g, pos)) = i
  BY <1>7, <1>9, <1>10 DEF Slot
<1>. QED
  BY <1>8, <1>11 DEF grp_idx, bitvec_idx, b, n

\* An element of an array of elements of length len.
LEMMA ElementInArray ==
  ASSUME NEW len \in Nat, NEW n \in Nat, NEW pos \in 0 .. n - 1
  PROVE  /\ len * pos \in Nat
         /\ len * pos + len <= len * n
         /\ \A q \in 0 .. n - 1 : pos < q => len * pos + len <= len * q
<1>1. \A q \in Nat : len * q = q * len /\ q * len \in Nat
  BY SMT
<1>2. pos * len + len <= n * len
  BY ProductMonotone
<1>3. \A q \in 0 .. n - 1 : pos < q => pos * len + len <= q * len
  BY ProductMonotone
<1>. QED
  BY <1>1, <1>2, <1>3

-----------------------------------------------------------------------------

\* Where a thing lies within its block group.
LocalStart(v, p) ==
  LET b == v.block_size
      n == blk_inode_num(b)
  IN  CASE p.kind = "data_bitmap"  -> 0
        [] p.kind = "inode_bitmap" -> b
        [] p.kind = "inode"        -> 2 * b + INODE_SIZE * p.pos
        [] p.kind = "data"         -> 2 * b + INODE_SIZE * n + b * p.pos

\* Everything but the superblock lies in its group.
LEMMA InGroup ==
  ASSUME NEW v \in Superblocks,
         v.groups * blk_inode_num(v.block_size) < Word,
         NEW p \in Records(v) \cup Bitmaps(v)
  PROVE  /\ p.grp \in Nat
         /\ Length(v, p) \in Nat
         /\ LocalStart(v, p) \in Nat
         /\ LocalStart(v, p) + Length(v, p) <= blkgrp_size(v.block_size)
         /\ Start(v, p) = GroupStart(v.block_size, p.grp) + LocalStart(v, p)
<1> DEFINE b == v.block_size
           n == blk_inode_num(b)
<1>1. b \in BlkSizes /\ v.groups \in Nat
  BY DEF Superblocks
<1>2. /\ b \in Nat /\ n \in Nat /\ n > 0 /\ INODE_SIZE \in Nat
      /\ INODE_SIZE * n \in Nat /\ b * n \in Nat
      /\ blkgrp_size(b) = 2 * b + INODE_SIZE * n + b * n
  BY <1>1, Lengths
<1>3. p.grp \in GroupsOf(v) /\ p.grp \in Nat
  BY <1>1 DEF Records, Bitmaps, GroupsOf
<1>4. GroupStart(b, p.grp) \in Nat
  BY <1>1, <1>3, GroupsFollow
<1>5. CASE p \in Records(v)
  <2>1. p.kind \in {"inode", "data"} /\ p.pos \in PositionsOf(v)
    BY <1>5 DEF Records
  <2>2. p.pos \in 0 .. n - 1
    BY <2>1 DEF PositionsOf
  <2>3. /\ grp_idx(b, Index(b, p.grp, p.pos)) = p.grp
        /\ bitvec_idx(b, Index(b, p.grp, p.pos)) = p.pos
    BY <1>3, <2>1, IndexRoundTrip
  <2> HIDE DEF b, n
  <2>4. /\ INODE_SIZE * p.pos \in Nat
        /\ INODE_SIZE * p.pos + INODE_SIZE <= INODE_SIZE * n
        /\ b * p.pos \in Nat
        /\ b * p.pos + b <= b * n
    BY <1>2, <2>2, ElementInArray
  <2>5. CASE p.kind = "inode"
    <3>1. /\ LocalStart(v, p) = 2 * b + INODE_SIZE * p.pos
          /\ Length(v, p) = INODE_SIZE
      BY <2>5 DEF LocalStart, Length, b
    <3>2. Start(v, p) = GroupStart(b, p.grp) + 2 * b + INODE_SIZE * p.pos
      BY <2>3, <2>5 DEF Start, fs_inode_to_offset, b
    <3>. QED
      BY <1>2, <1>3, <1>4, <2>4, <3>1, <3>2 DEF b
  <2>6. CASE p.kind = "data"
    <3>1. /\ LocalStart(v, p) = 2 * b + INODE_SIZE * n + b * p.pos
          /\ Length(v, p) = b
      BY <2>6 DEF LocalStart, Length, b, n
    <3>2. Start(v, p) = GroupStart(b, p.grp) + 2 * b + INODE_SIZE * n + b * p.pos
      BY <2>3, <2>6 DEF Start, fs_data_to_offset, b, n
    <3>. QED
      BY <1>2, <1>3, <1>4, <2>4, <3>1, <3>2 DEF b
  <2>. QED
    BY <2>1, <2>5, <2>6
<1>6. CASE p \in Bitmaps(v)
  <2>1. p.kind \in {"data_bitmap", "inode_bitmap"}
    BY <1>6 DEF Bitmaps
  <2>2. Length(v, p) = b
    BY <2>1 DEF Length
  <2>3. CASE p.kind = "data_bitmap"
    <3>1. LocalStart(v, p) = 0 /\ Start(v, p) = GroupStart(b, p.grp)
      BY <2>3 DEF LocalStart, Start
    <3> HIDE DEF b, n
    <3>. QED
      BY <1>2, <1>3, <1>4, <2>2, <3>1 DEF b
  <2>4. CASE p.kind = "inode_bitmap"
    <3>1. LocalStart(v, p) = b /\ Start(v, p) = GroupStart(b, p.grp) + b
      BY <2>4 DEF LocalStart, Start
    <3> HIDE DEF b, n
    <3>. QED
      BY <1>2, <1>3, <1>4, <2>2, <3>1 DEF b
  <2>. QED
    BY <2>1, <2>3, <2>4
<1>. QED
  BY <1>5, <1>6

\* Two things of one group.
LEMMA ApartInGroup ==
  ASSUME NEW v \in Superblocks,
         NEW p \in Records(v) \cup Bitmaps(v),
         NEW q \in Records(v) \cup Bitmaps(v),
         p # q, p.grp = q.grp
  PROVE  \/ LocalStart(v, p) + Length(v, p) <= LocalStart(v, q)
         \/ LocalStart(v, q) + Length(v, q) <= LocalStart(v, p)
<1> DEFINE b == v.block_size
           n == blk_inode_num(b)
           Lies(r, k) ==
             /\ r.kind = k
             /\ r \in [kind : {k}, grp : GroupsOf(v), pos : Nat]
             /\ LocalStart(v, r) \in Nat
             /\ k = "data_bitmap"  => LocalStart(v, r) = 0 /\ Length(v, r) = b
             /\ k = "inode_bitmap" => LocalStart(v, r) = b /\ Length(v, r) = b
             /\ k \in {"data_bitmap", "inode_bitmap"} => r.pos = 0
             /\ k \in {"inode", "data"} => r.pos \in 0 .. n - 1
             /\ k = "inode" =>
                  /\ LocalStart(v, r) = 2 * b + INODE_SIZE * r.pos
                  /\ Length(v, r) = INODE_SIZE
                  /\ INODE_SIZE * r.pos \in Nat
                  /\ INODE_SIZE * r.pos + INODE_SIZE <= INODE_SIZE * n
             /\ k = "data" =>
                  /\ LocalStart(v, r) = 2 * b + INODE_SIZE * n + b * r.pos
                  /\ Length(v, r) = b
                  /\ b * r.pos \in Nat
           Kinds == {"data_bitmap", "inode_bitmap", "inode", "data"}
<1>1. b \in BlkSizes
  BY DEF Superblocks
<1>2. b \in Nat /\ n \in Nat /\ INODE_SIZE \in Nat /\ INODE_SIZE * n \in Nat
  BY <1>1, Lengths
<1>3. ASSUME NEW r \in Records(v) \cup Bitmaps(v)
      PROVE  \E k \in Kinds : Lies(r, k)
  <2>1. CASE r \in Bitmaps(v)
    <3>1. Lies(r, r.kind)
      BY <1>2, <2>1 DEF Bitmaps, LocalStart, Length
    <3>. QED
      BY <2>1, <3>1 DEF Bitmaps
  <2>2. CASE r \in Records(v)
    <3>1. r.kind \in {"inode", "data"} /\ r.pos \in 0 .. n - 1
      BY <2>2 DEF Records, PositionsOf
    <3>2. /\ INODE_SIZE * r.pos \in Nat
          /\ INODE_SIZE * r.pos + INODE_SIZE <= INODE_SIZE * n
          /\ b * r.pos \in Nat
      BY <1>2, <3>1, ElementInArray
    <3>3. /\ r.kind = "inode" =>
               LocalStart(v, r) = 2 * b + INODE_SIZE * r.pos
                 /\ Length(v, r) = INODE_SIZE
          /\ r.kind = "data" =>
               LocalStart(v, r) = 2 * b + INODE_SIZE * n + b * r.pos
                 /\ Length(v, r) = b
      BY DEF LocalStart, Length
    <3>4. r \in [kind : {r.kind}, grp : GroupsOf(v), pos : Nat]
      BY <1>2, <2>2, <3>1 DEF Records, PositionsOf
    <3>5. LocalStart(v, r) \in Nat
      BY <1>2, <3>1, <3>2, <3>3
    <3> HIDE DEF b, n
    <3>. QED
      BY <3>1, <3>2, <3>3, <3>4, <3>5
  <2>. QED
    BY <2>1, <2>2
<1>4. PICK k \in Kinds : Lies(p, k)
  BY <1>3
<1>5. PICK l \in Kinds : Lies(q, l)
  BY <1>3
<1>6. k = l => p.pos # q.pos
  <2> SUFFICES ASSUME k = l, p.pos = q.pos
               PROVE  FALSE
    OBVIOUS
  <2>1. /\ p \in [kind : {k}, grp : GroupsOf(v), pos : Nat]
        /\ q \in [kind : {k}, grp : GroupsOf(v), pos : Nat]
    BY <1>4, <1>5
  <2>2. p.kind = q.kind
    BY <2>1
  <2>. QED
    BY <2>1, <2>2
<1>7. \A x, y \in 0 .. n - 1 :
        x < y => /\ INODE_SIZE * x + INODE_SIZE <= INODE_SIZE * y
                 /\ b * x + b <= b * y
  BY <1>2, ElementInArray
<1> HIDE DEF b, n
<1>8. CASE k = l /\ k \in {"data_bitmap", "inode_bitmap"}
  BY <1>4, <1>5, <1>6, <1>8
<1>9. CASE k = l /\ k \in {"inode", "data"}
  <2>1. p.pos \in 0 .. n - 1 /\ q.pos \in 0 .. n - 1
    BY <1>4, <1>5, <1>9
  <2>2. p.pos < q.pos \/ q.pos < p.pos
    BY <1>2, <1>6, <1>9, <2>1
  <2>3. \/ /\ INODE_SIZE * p.pos + INODE_SIZE <= INODE_SIZE * q.pos
           /\ b * p.pos + b <= b * q.pos
        \/ /\ INODE_SIZE * q.pos + INODE_SIZE <= INODE_SIZE * p.pos
           /\ b * q.pos + b <= b * p.pos
    BY <1>7, <2>1, <2>2
  <2>4. CASE k = "inode"
    <3>1. /\ LocalStart(v, p) = 2 * b + INODE_SIZE * p.pos
          /\ LocalStart(v, q) = 2 * b + INODE_SIZE * q.pos
          /\ Length(v, p) = INODE_SIZE /\ Length(v, q) = INODE_SIZE
          /\ INODE_SIZE * p.pos \in Nat /\ INODE_SIZE * q.pos \in Nat
      BY <1>4, <1>5, <1>9, <2>4
    <3>. QED
      BY <1>2, <2>3, <3>1
  <2>5. CASE k = "data"
    <3>1. /\ LocalStart(v, p) = 2 * b + INODE_SIZE * n + b * p.pos
          /\ LocalStart(v, q) = 2 * b + INODE_SIZE * n + b * q.pos
          /\ Length(v, p) = b /\ Length(v, q) = b
          /\ b * p.pos \in Nat /\ b * q.pos \in Nat
      BY <1>4, <1>5, <1>9, <2>5
    <3>. QED
      BY <1>2, <2>3, <3>1
  <2>. QED
    BY <1>9, <2>4, <2>5
<1>10. CASE k # l
  BY <1>2, <1>4, <1>5, <1>10
<1>. QED
  BY <1>8, <1>9, <1>10

-----------------------------------------------------------------------------

\* Any two things of a volume, wherever they are.
LEMMA VolumeApart ==
  ASSUME NEW v \in Superblocks,
         v.groups * blk_inode_num(v.block_size) < Word,
         NEW p \in Places(v), NEW q \in Places(v), p # q
  PROVE  End(v, p) <= Start(v, q) \/ End(v, q) <= Start(v, p)
<1> DEFINE b == v.block_size
           InGroups == Records(v) \cup Bitmaps(v)
<1>1. b \in BlkSizes /\ b \in Nat /\ blkgrp_size(b) \in Nat
  BY Lengths DEF Superblocks
<1>2. ASSUME NEW r \in InGroups
      PROVE  /\ r.grp \in Nat
             /\ Length(v, r) \in Nat
             /\ LocalStart(v, r) \in Nat
             /\ LocalStart(v, r) + Length(v, r) <= blkgrp_size(b)
             /\ Start(v, r) = GroupStart(b, r.grp) + LocalStart(v, r)
             /\ GroupStart(b, r.grp) \in Nat
             /\ b <= GroupStart(b, r.grp)
             /\ \A h \in Nat :
                  r.grp < h => GroupStart(b, r.grp) + blkgrp_size(b) <= GroupStart(b, h)
  <2>1. r.grp \in Nat
    BY InGroup
  <2>. QED
    BY <1>1, <2>1, InGroup, GroupsFollow
<1>3. \A r \in InGroups : End(v, r) = Start(v, r) + Length(v, r)
  BY DEF End
<1>4. End(v, Superblk) = b /\ Start(v, Superblk) = 0
  <2>1. Start(v, Superblk) = 0 /\ Length(v, Superblk) = b
    BY DEF Start, Length, Superblk
  <2>. QED
    BY <1>1, <2>1 DEF End
<1> HIDE DEF b, InGroups
<1>5. \A r \in InGroups : End(v, Superblk) <= Start(v, r)
  BY <1>1, <1>2, <1>4
<1>6. CASE p \in InGroups /\ q \in InGroups /\ p.grp # q.grp
  <2>1. p.grp \in Nat /\ q.grp \in Nat
    BY <1>2, <1>6
  <2>2. p.grp < q.grp \/ q.grp < p.grp
    BY <1>6, <2>1
  <2>. QED
    BY <1>1, <1>2, <1>3, <1>6, <2>1, <2>2
<1>7. CASE p \in InGroups /\ q \in InGroups /\ p.grp = q.grp
  <2>1. \/ LocalStart(v, p) + Length(v, p) <= LocalStart(v, q)
        \/ LocalStart(v, q) + Length(v, q) <= LocalStart(v, p)
    BY <1>7, ApartInGroup DEF InGroups
  <2>. QED
    BY <1>2, <1>3, <1>7, <2>1
<1>8. CASE p = Superblk \/ q = Superblk
  BY <1>5, <1>8 DEF Places, InGroups
<1>. QED
  BY <1>6, <1>7, <1>8 DEF Places, InGroups

(* What requests write lies behind the bitmaps of the first group, whether *)
(* or not the indices fit into a word.                                     *)
LEMMA WritesSpareBitmaps ==
  ASSUME NEW v \in Superblocks, NEW bit \in Reserved
  PROVE  ~ Writes(v, ByteOf(v.block_size, bit))
<1> DEFINE b == v.block_size
           n == blk_inode_num(b)
           first == GroupStart(b, 0)
<1>1. b \in BlkSizes
  BY DEF Superblocks
<1>2. /\ b \in Nat /\ b > 0 /\ n \in Nat /\ n > 0 /\ INODE_SIZE \in Nat
      /\ INODE_SIZE * n \in Nat
  BY <1>1, Lengths
<1>3. first \in Nat /\ \A g \in Nat : GroupStart(b, g) \in Nat /\ first <= GroupStart(b, g)
  <2>1. \A g \in Nat : GroupStart(b, g) \in Nat
    BY <1>1, GroupsFollow
  <2>2. \A g \in Nat : 0 < g => first + blkgrp_size(b) <= GroupStart(b, g)
    BY <1>1, GroupsFollow
  <2>. QED
    BY <1>1, <2>1, <2>2, Lengths
<1>4. ASSUME NEW p \in Records(v)
      PROVE  Start(v, p) \in Nat /\ first + 2 * b <= Start(v, p)
  <2> DEFINE idx == Index(b, p.grp, p.pos)
             g == grp_idx(b, idx)
             k == bitvec_idx(b, idx)
  <2>1. p.kind \in {"inode", "data"} /\ p.grp \in Nat /\ p.pos \in Nat
    BY <1>2 DEF Records, GroupsOf, PositionsOf
  <2>2. idx \in Nat
    <3>1. p.grp * n \in Nat
      BY <1>2, <2>1, SMT
    <3>2. p.grp * n + p.pos + 1 \in Nat
      BY <2>1, <3>1
    <3>. QED
      BY <3>2, WordAssumption, Division DEF Index
  <2> HIDE DEF idx
  <2>3. Slot(idx) \in Nat
    <3>1. Word \in Nat /\ Word > 0 /\ idx - 1 \in Int
      BY <2>2, WordAssumption
    <3>. QED
      BY <3>1, SMT DEF Slot
  <2>4. g \in Nat /\ k \in 0 .. n - 1
    BY <1>2, <2>3, Division DEF grp_idx, bitvec_idx
  <2> HIDE DEF g, k
  <2>5. INODE_SIZE * k \in Nat /\ b * k \in Nat
    BY <1>2, <2>4, SMT
  <2>6. GroupStart(b, g) \in Nat /\ first <= GroupStart(b, g)
    BY <1>3, <2>4
  <2>7. CASE p.kind = "inode"
    <3>1. Start(v, p) = GroupStart(b, g) + 2 * b + INODE_SIZE * k
      BY <2>7 DEF Start, fs_inode_to_offset, g, k, idx
    <3>. QED
      BY <1>2, <1>3, <2>5, <2>6, <3>1
  <2>8. CASE p.kind = "data"
    <3>1. Start(v, p) = GroupStart(b, g) + 2 * b + INODE_SIZE * n + b * k
      BY <2>8 DEF Start, fs_data_to_offset, g, k, idx
    <3>. QED
      BY <1>2, <1>3, <2>5, <2>6, <3>1
  <2>. QED
    BY <2>1, <2>7, <2>8
<1>5. ByteOf(b, bit) \in Nat /\ ByteOf(b, bit) < first + 2 * b
  BY <1>2, <1>3 DEF ByteOf
<1> HIDE DEF b, first
<1>6. \A p \in Records(v) : ~ (Start(v, p) <= ByteOf(b, bit))
  BY <1>2, <1>3, <1>4, <1>5
<1>. QED
  BY <1>6 DEF Writes, b

-----------------------------------------------------------------------------

\* None is no superblock.
LEMMA NoneIsNone == None \notin Superblocks
BY BlkSizesAssumption DEF None, Superblocks

(* What chisai_format writes is a superblock, and its volume lies on the   *)
(* device if blocks are sectors.                                           *)
LEMMA FormatResult ==
  ASSUME TypeOK, Format
  PROVE  /\ sb' \in Superblocks
         /\ sb'.block_size = Sector =>
              GroupStart(Sector, sb'.groups) <= sectors * Sector
<1> DEFINE s == blkgrp_size(blk)
           d == disk_size
           m == FormatGroups
<1>1. /\ blk \in BlkSizes /\ blk \in Nat /\ blk > 0
      /\ s \in Nat /\ s > 0 /\ sectors \in Nat
  BY Lengths, SizesAssumption DEF TypeOK
<1>2. d \in Nat
  BY <1>1, SMT DEF disk_size
<1>3. blk + s <= d
  BY <1>1, <1>2 DEF Format
<1>4. m = (d - blk) \div s
  BY DEF FormatGroups
<1>5. sb' = [block_size |-> blk, groups |-> m]
  BY DEF Format
<1>6. s = blkgrp_size(blk) /\ d = sectors * blk
  BY DEF disk_size
<1> HIDE DEF s, d, m
<1>7. d - blk \in Nat
  BY <1>1, <1>2, <1>3
<1>8. /\ m \in Nat
      /\ (d - blk) % s \in 0 .. s - 1
      /\ d - blk = m * s + ((d - blk) % s)
  BY <1>1, <1>4, <1>7, Division
<1>9. m * s \in Nat /\ 0 * s = 0
  BY <1>1, <1>8, SMT
<1>10. m # 0
  BY <1>1, <1>2, <1>3, <1>7, <1>8, <1>9
<1>11. blk + m * s <= d
  BY <1>1, <1>2, <1>7, <1>8, <1>9
<1>. QED
  BY <1>1, <1>5, <1>6, <1>8, <1>10, <1>11 DEF Superblocks, GroupStart

(* The invariant.  That a volume can be mounted again rests on RootIsKept: *)
(* since the last mount nothing has changed the bits of the bitmaps that   *)
(* fs_create_root needs, because no record of the volume lies on them.     *)
THEOREM Invariant == Spec => []IInv
<1>1. Init => IInv
  <2> SUFFICES ASSUME Init
               PROVE  IInv
    OBVIOUS
  <2>1. TypeOK
    BY DEF Init, TypeOK
  <2>2. SectorVolumeFits
    BY SectorAssumption DEF Init, SectorVolumeFits, None
  <2>. QED
    BY <2>1, <2>2 DEF Init, IInv, RemountsWork, RootIsKept
<1>2. IInv /\ [Next]_vars => IInv'
  <2> SUFFICES ASSUME IInv, [Next]_vars
               PROVE  IInv'
    OBVIOUS
  <2> USE DEF IInv
  <2>1. CASE Attach
    BY <2>1 DEF Attach, TypeOK, SectorVolumeFits, Fits, RemountsWork, RootIsKept
  <2>2. CASE FormatDies
    BY <2>2 DEF FormatDies, TypeOK, SectorVolumeFits, Fits, RemountsWork, RootIsKept
  <2>3. CASE Format
    <3>1. /\ sb' \in Superblocks
          /\ sb'.block_size = Sector =>
               GroupStart(Sector, sb'.groups) <= sectors * Sector
      BY <2>3, FormatResult
    <3>2. TypeOK'
      BY <2>3, <3>1 DEF Format, TypeOK
    <3>3. SectorVolumeFits'
      BY <2>3, <3>1 DEF Format, SectorVolumeFits, Fits
    <3>. QED
      BY <2>3, <3>2, <3>3 DEF Format, RemountsWork, RootIsKept
  <2>4. CASE MountRefused
    BY <2>4 DEF MountRefused, TypeOK, SectorVolumeFits, Fits, RemountsWork, RootIsKept
  <2>5. CASE MountFindsRoot
    BY <2>5 DEF MountFindsRoot, TypeOK, SectorVolumeFits, Fits, RemountsWork, RootIsKept
  <2>6. CASE MountMakesRoot
    <3>1. sb \in Superblocks
      BY <2>6 DEF MountMakesRoot, TypeOK
    <3>2. stray'[sb.block_size] = {}
      <4>1. sb.block_size \in BlkSizes
        BY <3>1 DEF Superblocks
      <4>2. /\ stray' \in [BlkSizes -> SUBSET Reserved]
            /\ \A bit \in Reserved :
                 bit \in stray'[sb.block_size] => bit \in stray[sb.block_size]
        BY <2>6, <3>1, <4>1, WritesSpareBitmaps DEF MountMakesRoot, Scribble
      <4>. QED
        BY <2>6, <4>1, <4>2 DEF MountMakesRoot
    <3>3. TypeOK'
      BY <2>6 DEF MountMakesRoot, Scribble, TypeOK
    <3>4. SectorVolumeFits'
      BY <2>6 DEF MountMakesRoot, SectorVolumeFits, Fits
    <3>. QED
      BY <2>6, <3>2, <3>3, <3>4 DEF MountMakesRoot, RemountsWork, RootIsKept
  <2>7. CASE MountAborts
    <3>1. ~ mounted
      BY <2>7 DEF MountAborts, RootIsKept
    <3>2. TypeOK'
      BY <2>7 DEF MountAborts, Scribble, TypeOK
    <3>3. SectorVolumeFits'
      BY <2>7 DEF MountAborts, SectorVolumeFits, Fits
    <3>. QED
      BY <2>7, <3>1, <3>2, <3>3 DEF MountAborts, RemountsWork, RootIsKept
  <2>8. CASE Use
    <3>1. TypeOK'
      BY <2>8 DEF Use, Scribble, TypeOK
    <3>2. SectorVolumeFits'
      BY <2>8 DEF Use, SectorVolumeFits, Fits
    <3>3. RootIsKept'
      <4> SUFFICES ASSUME mounted
                   PROVE  RootIsKept'
        BY <2>8 DEF Use, RootIsKept
      <4>1. sb = fs /\ sb \in Superblocks /\ sb.block_size \in BlkSizes
        BY <2>8 DEF Use, RootIsKept, TypeOK, Superblocks
      <4>2. /\ stray' \in [BlkSizes -> SUBSET Reserved]
            /\ \A bit \in Reserved :
                 bit \in stray'[sb.block_size] <=> bit \in stray[sb.block_size]
        BY <2>8, <4>1, WritesSpareBitmaps DEF Use, Scribble
      <4>3. stray'[sb.block_size] = stray[sb.block_size]
        BY <4>1, <4>2 DEF TypeOK
      <4>. QED
        BY <2>8, <4>3 DEF Use, RootIsKept
    <3>. QED
      BY <2>8, <3>1, <3>2, <3>3 DEF Use, RemountsWork
  <2>9. CASE Unmount
    <3>1. None.block_size # Sector
      BY SectorAssumption DEF None
    <3>2. SectorVolumeFits'
      BY <2>9, <3>1 DEF Unmount, SectorVolumeFits, Fits
    <3>3. TypeOK' /\ RemountsWork' /\ RootIsKept'
      BY <2>9 DEF Unmount, TypeOK, RemountsWork, RootIsKept
    <3>. QED
      BY <3>2, <3>3
  <2>10. CASE UNCHANGED vars
    BY <2>10 DEF vars, TypeOK, SectorVolumeFits, Fits, RemountsWork, RootIsKept
  <2>. QED
    BY <2>1, <2>2, <2>3, <2>4, <2>5, <2>6, <2>7, <2>8, <2>9, <2>10 DEF Next
<1>. QED
  BY <1>1, <1>2, PTL DEF Spec

\* Type correctness; a superblock that was formatted has at least one group.
THEOREM TypeCorrect == Spec => []TypeOK
BY Invariant, PTL DEF IInv

(* The volume that chisai_format makes on a device with blocks of 512      *)
(* bytes ends on the device.                                               *)
THEOREM SectorVolumesFit == Spec => []SectorVolumeFits
BY Invariant, PTL DEF IInv

(* What a mounted file system writes never makes the assertions of         *)
(* fs_create_root fail at a later mount of the same volume.                *)
THEOREM MountedVolumesRemount == Spec => []RemountsWork
BY Invariant, PTL DEF IInv

(* The offsets of fs_inode_to_offset, fs_data_to_offset and blkgrps_load   *)
(* never overlap, as long as the indices fit into a chisai_size_t.         *)
THEOREM PlacesAreApart == Spec => []PlacesApart
<1>1. TypeOK => PlacesApart
  <2> SUFFICES ASSUME TypeOK, fs # None,
                      fs.groups * blk_inode_num(fs.block_size) < Word,
                      NEW p \in Places(fs), NEW q \in Places(fs), p # q
               PROVE  End(fs, p) <= Start(fs, q) \/ End(fs, q) <= Start(fs, p)
    BY DEF PlacesApart
  <2>1. fs \in Superblocks
    BY DEF TypeOK
  <2>. QED
    BY <2>1, VolumeApart
<1>. QED
  BY <1>1, TypeCorrect, PTL

=============================================================================
