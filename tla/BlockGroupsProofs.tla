-------------------------- MODULE BlockGroupsProofs --------------------------
(***************************************************************************)
(* What the operations of BlockGroups return and preserve, for every       *)
(* number of groups and every group size: the lemmas that the proofs about *)
(* the modules built on it rest on.                                        *)
(***************************************************************************)
EXTENDS BlockGroups, Products

\* Min names the least element of a non-empty set of naturals.
LEMMA LeastNatural ==
  ASSUME NEW S \in SUBSET Nat, S # {}
  PROVE  /\ Min(S) \in S
         /\ \A n \in S : Min(S) <= n
BY LeastExists DEF Min

LEMMA LeastIs ==
  ASSUME NEW S \in SUBSET Nat, NEW m \in S, \A n \in S : m <= n
  PROVE  Min(S) = m
<1> DEFINE k == Min(S)
<1>1. k \in S /\ k <= m
  BY LeastNatural
<1> HIDE DEF k
<1>2. k \in Nat /\ m \in Nat /\ m <= k
  BY <1>1
<1>3. k = m
  BY <1>1, <1>2
<1>. QED
  BY <1>3 DEF k

(* Division undoes the composition of a group and a position into an       *)
(* index.                                                                  *)
LEMMA IndexOfPosition ==
  ASSUME NEW g \in Nat, NEW b \in Bits
  PROVE  /\ grp_idx(g * BlkInodeNum + b + 1) = g
         /\ bitvec_idx(g * BlkInodeNum + b + 1) = b
<1> DEFINE n == BlkInodeNum
<1>1. n \in Nat /\ b \in 0 .. n - 1
  BY BlkInodeNumAssumption DEF Bits
<1>2. g * n \in Nat
  BY <1>1, SMT
<1>3. (g * n + b + 1) - 1 = g * n + b
  BY <1>1, <1>2
<1>4. (g * n + b) \div n = g /\ (g * n + b) % n = b
  BY <1>1, DivisionUnique
<1>. QED
  BY <1>3, <1>4 DEF grp_idx, bitvec_idx

LEMMA PositionOfIndex ==
  ASSUME NEW idx \in Indices
  PROVE  /\ grp_idx(idx) \in GroupIds
         /\ bitvec_idx(idx) \in Bits
         /\ idx = grp_idx(idx) * BlkInodeNum + bitvec_idx(idx) + 1
<1> DEFINE n == BlkInodeNum
           q == (idx - 1) \div n
           r == (idx - 1) % n
<1>1. n \in Nat /\ n > 0 /\ Groups \in Nat
  BY GroupsAssumption, BlkInodeNumAssumption
<1>2. Groups * n \in Nat
  BY <1>1, SMT
<1>3. idx - 1 \in Nat /\ idx \in Nat /\ idx <= Groups * n
  BY <1>2 DEF Indices, Total
<1>4. q \in Nat /\ r \in 0 .. n - 1 /\ idx - 1 = q * n + r
  BY <1>1, <1>3, Division
<1> HIDE DEF q, r
<1>5. q * n \in Nat
  BY <1>1, <1>4, SMT
<1>6. q < Groups
  <2> SUFFICES ASSUME Groups <= q
               PROVE  FALSE
    BY <1>1, <1>4
  <2>1. CASE Groups = q
    BY <2>1, <1>1, <1>2, <1>3, <1>4, <1>5
  <2>2. CASE Groups < q
    <3>1. Groups * n + n <= q * n
      BY <2>2, <1>1, <1>4, ProductMonotone
    <3>. QED
      BY <3>1, <1>1, <1>2, <1>3, <1>4, <1>5
  <2>. QED
    BY <2>1, <2>2, <1>1, <1>4
<1>. QED
  BY <1>1, <1>3, <1>4, <1>5, <1>6 DEF grp_idx, bitvec_idx, GroupIds, Bits, q, r

LEMMA PositionIsIndex ==
  ASSUME NEW g \in GroupIds, NEW b \in Bits
  PROVE  g * BlkInodeNum + b + 1 \in Indices
<1>1. Groups \in Nat /\ BlkInodeNum \in Nat /\ BlkInodeNum > 0
  BY GroupsAssumption, BlkInodeNumAssumption
<1>2. g \in Nat /\ g < Groups /\ b \in 0 .. BlkInodeNum - 1
  BY <1>1 DEF GroupIds, Bits
<1>3. g * BlkInodeNum + BlkInodeNum <= Groups * BlkInodeNum
  BY <1>1, <1>2, ProductMonotone
<1>4. g * BlkInodeNum \in Nat /\ Groups * BlkInodeNum \in Nat
  BY <1>1, <1>2, SMT
<1>. QED
  BY <1>1, <1>2, <1>3, <1>4 DEF Indices, Total

\* The hint computed from a bitmap names its lowest clear bit, if any.
LEMMA FindFirstSet ==
  ASSUME NEW b \in Bitmap
  PROVE  /\ find_first_set(b) \in 0 .. BlkInodeNum
         /\ find_first_set(b) # 0 => find_first_set(b) - 1 \in Bits \ b
         /\ find_first_set(b) = 0 <=> b = Bits
<1>1. CASE b = Bits
  BY <1>1, BlkInodeNumAssumption DEF find_first_set
<1>2. CASE b # Bits
  <2>1. Bits \ b \in SUBSET Nat /\ Bits \ b # {}
    <3>1. Bits \in SUBSET Nat
      BY BlkInodeNumAssumption DEF Bits
    <3>2. b \subseteq Bits
      BY DEF Bitmap
    <3>. QED
      BY <1>2, <3>1, <3>2
  <2>2. Min(Bits \ b) \in Bits \ b
    BY <2>1, LeastNatural
  <2>. QED
    BY <1>2, <2>2, BlkInodeNumAssumption DEF find_first_set, Bits
<1>. QED
  BY <1>1, <1>2

LEMMA FirstFitHasClearBit ==
  ASSUME NEW grp, ~ Exhausted(grp)
  PROVE  FirstFit(grp) \in GroupIds /\ grp[FirstFit(grp)].bitmap # Bits
<1>1. WithClearBit(grp) \in SUBSET Nat /\ WithClearBit(grp) # {}
  BY GroupsAssumption DEF Exhausted, WithClearBit, GroupIds
<1>2. FirstFit(grp) \in WithClearBit(grp)
  BY <1>1, LeastNatural DEF FirstFit
<1>. QED
  BY <1>2 DEF WithClearBit

\* blkgrps_load yields well-typed block groups whose hints are free.
LEMMA LoadEffect ==
  ASSUME NEW bitmaps \in [GroupIds -> Bitmap]
  PROVE  /\ blkgrps_load(bitmaps) \in BlkGrps
         /\ HintsAreFree(blkgrps_load(bitmaps))
<1> SUFFICES ASSUME NEW g \in GroupIds
             PROVE  /\ bitmaps[g] \in Bitmap
                    /\ find_first_set(bitmaps[g]) \in 0 .. BlkInodeNum
                    /\ find_first_set(bitmaps[g]) # 0 =>
                         find_first_set(bitmaps[g]) - 1 \notin bitmaps[g]
  BY DEF blkgrps_load, BlkGrps, HintsAreFree
<1>. QED
  BY FindFirstSet

(* A successful allocation returns an index that was not in use, and sets  *)
(* that index's bit and no other.                                          *)
LEMMA AllocEffect ==
  ASSUME NEW grp \in BlkGrps, HintsAreFree(grp), HasRoom(grp)
  PROVE  /\ AllocIdx(grp) \in Indices \ Used(grp)
         /\ Allocated(grp) \in BlkGrps
         /\ HintsAreFree(Allocated(grp))
         /\ Used(Allocated(grp)) = Used(grp) \cup {AllocIdx(grp)}
<1> DEFINE g == FirstFit(grp)
           bit == grp[g].next - 1
           set == grp[g].bitmap \cup {bit}
           new == Allocated(grp)
<1>1. g \in GroupIds /\ grp[g].next # 0
  BY FirstFitHasClearBit DEF HasRoom
<1>2. bit \in Bits /\ bit \notin grp[g].bitmap /\ grp[g].bitmap \in Bitmap
  BY <1>1, BlkInodeNumAssumption DEF BlkGrps, HintsAreFree, Bits
<1>3. AllocIdx(grp) = g * BlkInodeNum + bit + 1
  <2>1. g * BlkInodeNum \in Int
    BY <1>1, GroupsAssumption, BlkInodeNumAssumption, SMT DEF GroupIds
  <2>2. grp[g].next \in Int
    BY <1>1, BlkInodeNumAssumption DEF BlkGrps
  <2>. QED
    BY <2>1, <2>2 DEF AllocIdx
<1>4. AllocIdx(grp) \in Indices
  BY <1>1, <1>2, <1>3, PositionIsIndex
<1>5. grp_idx(AllocIdx(grp)) = g /\ bitvec_idx(AllocIdx(grp)) = bit
  <2>1. g \in Nat
    BY <1>1, GroupsAssumption DEF GroupIds
  <2>. QED
    BY <1>2, <1>3, <2>1, IndexOfPosition
<1>6. new = [grp EXCEPT ![g] = [bitmap |-> set, next |-> find_first_set(set)]]
  BY DEF Allocated, SetBit
<1>7. set \in Bitmap
  BY <1>2 DEF Bitmap
<1> HIDE DEF g, bit, set, new
<1>8. /\ new \in BlkGrps
      /\ new[g].bitmap = set /\ new[g].next = find_first_set(set)
      /\ \A h \in GroupIds \ {g} : new[h] = grp[h]
  BY <1>1, <1>6, <1>7, FindFirstSet DEF BlkGrps
<1>9. HintsAreFree(new)
  BY <1>7, <1>8, FindFirstSet DEF HintsAreFree
<1>10. AllocIdx(grp) \notin Used(grp)
  BY <1>2, <1>5 DEF Used, exist, bit, g
<1>11. ASSUME NEW idx \in Indices
       PROVE  exist(new, idx) <=> exist(grp, idx) \/ idx = AllocIdx(grp)
  <2>1. idx # 0 /\ AllocIdx(grp) # 0
    BY <1>4, GroupsAssumption, BlkInodeNumAssumption DEF Indices
  <2>2. grp_idx(idx) \in GroupIds
    BY PositionOfIndex
  <2>3. CASE grp_idx(idx) # g
    BY <2>1, <2>2, <2>3, <1>5, <1>8 DEF exist
  <2>4. CASE grp_idx(idx) = g
    <3>1. bitvec_idx(idx) = bit <=> idx = AllocIdx(grp)
      BY <2>4, <1>4, <1>5, PositionOfIndex
    <3>. QED
      BY <2>1, <2>4, <3>1, <1>8 DEF exist, set
  <2>. QED
    BY <2>3, <2>4
<1>12. Used(new) = Used(grp) \cup {AllocIdx(grp)}
  BY <1>4, <1>11 DEF Used
<1>. QED
  BY <1>4, <1>8, <1>9, <1>10, <1>12 DEF new

\* A release clears the bit of its index and no other.
LEMMA ReleaseEffect ==
  ASSUME NEW grp \in BlkGrps, HintsAreFree(grp), NEW idx \in Indices \cup {0}
  PROVE  /\ Released(grp, idx) \in BlkGrps
         /\ HintsAreFree(Released(grp, idx))
         /\ Used(Released(grp, idx)) = Used(grp) \ {idx}
<1>1. CASE idx = 0
  BY <1>1, GroupsAssumption, BlkInodeNumAssumption DEF Released, Used, Indices
<1>2. CASE idx \in Indices
  <2> DEFINE g == grp_idx(idx)
             bit == bitvec_idx(idx)
             new == Released(grp, idx)
  <2>1. g \in GroupIds /\ idx # 0
    BY <1>2, PositionOfIndex DEF Indices
  <2>2. new = [grp EXCEPT ![g].bitmap = @ \ {bit}]
    BY <2>1 DEF Released
  <2> HIDE DEF g, bit, new
  <2>3. /\ new \in BlkGrps
        /\ new[g].bitmap = grp[g].bitmap \ {bit} /\ new[g].next = grp[g].next
        /\ \A h \in GroupIds \ {g} : new[h] = grp[h]
    BY <2>1, <2>2 DEF BlkGrps, Bitmap
  <2>4. HintsAreFree(new)
    BY <2>3 DEF HintsAreFree
  <2>5. ASSUME NEW i \in Indices
        PROVE  exist(new, i) <=> exist(grp, i) /\ i # idx
    <3>1. grp_idx(i) \in GroupIds
      BY PositionOfIndex
    <3>2. CASE grp_idx(i) # g
      BY <3>1, <3>2, <2>3 DEF exist, g
    <3>3. CASE grp_idx(i) = g
      <4>1. bitvec_idx(i) = bit <=> i = idx
        BY <3>3, <1>2, PositionOfIndex DEF g, bit
      <4>. QED
        BY <3>3, <4>1, <2>3 DEF exist
    <3>. QED
      BY <3>2, <3>3
  <2>6. Used(new) = Used(grp) \ {idx}
    BY <2>5 DEF Used
  <2>. QED
    BY <2>3, <2>4, <2>6 DEF new
<1>. QED
  BY <1>1, <1>2

(* Bitmaps as they were formatted: nothing is in use, and the first        *)
(* allocation takes index 1.                                               *)
LEMMA ClearEffect ==
  LET grps == blkgrps_load([g \in GroupIds |-> {}]) IN
  /\ grps \in BlkGrps /\ HintsAreFree(grps) /\ Used(grps) = {}
  /\ HasRoom(grps) /\ AllocIdx(grps) = 1
<1> DEFINE none == [g \in GroupIds |-> {}]
           grps == blkgrps_load(none)
<1>1. none \in [GroupIds -> Bitmap]
  BY DEF Bitmap
<1>2. grps \in BlkGrps /\ HintsAreFree(grps)
  BY <1>1, LoadEffect
<1>3. \A g \in GroupIds : grps[g].bitmap = {} /\ grps[g].next = find_first_set({})
  BY DEF blkgrps_load
<1> HIDE DEF grps
<1>4. Used(grps) = {}
  BY <1>3, PositionOfIndex DEF Used, exist
<1>5. 0 \in Bits /\ 0 \in GroupIds /\ Bits \in SUBSET Nat /\ GroupIds \in SUBSET Nat
  BY GroupsAssumption, BlkInodeNumAssumption DEF Bits, GroupIds
<1>6. find_first_set({}) = 1
  <2>1. Min(Bits) = 0
    BY <1>5, LeastIs
  <2>. QED
    BY <1>5, <2>1 DEF find_first_set
<1>7. WithClearBit(grps) = GroupIds
  BY <1>3, <1>5 DEF WithClearBit
<1>8. FirstFit(grps) = 0
  <2>1. Min(GroupIds) = 0
    BY <1>5, LeastIs
  <2>. QED
    BY <1>7, <2>1 DEF FirstFit
<1>9. HasRoom(grps) /\ AllocIdx(grps) = 1
  BY <1>3, <1>5, <1>6, <1>7, <1>8, BlkInodeNumAssumption
     DEF HasRoom, Exhausted, AllocIdx
<1>. QED
  BY <1>2, <1>4, <1>9 DEF grps

(* The scan over the groups gives up only when no index is left in any.    *)
LEMMA ExhaustedMeansAllUsed ==
  ASSUME NEW grp \in BlkGrps, Exhausted(grp)
  PROVE  Used(grp) = Indices
<1> SUFFICES ASSUME NEW idx \in Indices
             PROVE  exist(grp, idx)
  BY DEF Used
<1>1. grp_idx(idx) \in GroupIds /\ bitvec_idx(idx) \in Bits
  BY PositionOfIndex
<1>2. grp[grp_idx(idx)].bitmap = Bits
  BY <1>1 DEF Exhausted, WithClearBit
<1>3. idx # 0
  BY GroupsAssumption, BlkInodeNumAssumption DEF Indices
<1>. QED
  BY <1>1, <1>2, <1>3 DEF exist

=============================================================================
