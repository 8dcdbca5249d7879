---------------------------- MODULE BlockGroups ----------------------------
(***************************************************************************)
(* Block-group bitmaps of src/src/chisai-core/block_group.c.               *)
(*                                                                         *)
(* Every block group owns one bitmap for inodes and one for data blocks    *)
(* and, beside each, a cached hint of the next free position (next_inode,  *)
(* next_data).  The source repeats the same code for both kinds; the       *)
(* operators below are one copy, applied to one kind at a time:            *)
(*   grps[g].bitmap   the positions of group g whose bit is set            *)
(*   grps[g].next     the cached hint, 1-based; 0 means "no free position" *)
(* An index handed to the rest of the file system is 1-based and counts    *)
(* through the groups: position b of group g is g * BlkInodeNum + b + 1.   *)
(***************************************************************************)
EXTENDS Integers, FiniteSetsExt

CONSTANTS Groups,       \* number of block groups on the device
          BlkInodeNum   \* positions per group: blk_size * BYTE_BITS

ASSUME GroupsAssumption == Groups \in Nat \ {0}
ASSUME BlkInodeNumAssumption == BlkInodeNum \in Nat \ {0}

GroupIds == 0 .. Groups - 1
Bits     == 0 .. BlkInodeNum - 1
Bitmap   == SUBSET Bits
Total    == Groups * BlkInodeNum
Indices  == 1 .. Total
BlkGrps  == [GroupIds -> [bitmap : Bitmap, next : 0 .. BlkInodeNum]]

\* Plausible slips, used only to see that the properties notice them.
HintAfterNext(bitmap) ==
  IF bitmap \in {{}, Bits} THEN 0 ELSE Max(bitmap) + 2
ScanMissesLastBit(bitmap) ==
  LET free == (Bits \ bitmap) \ {BlkInodeNum - 1}
  IN  IF free = {} THEN 0 ELSE 1 + Min(free)
HintFromFullBitmap(bitmap) ==
  IF bitmap = Bits THEN 1 ELSE 1 + Min(Bits \ bitmap)

(* bitvec_find_first_set looks for the lowest clear bit, in spite of its   *)
(* name, and adds one to it (ffs); 0 says that every bit is set.           *)
find_first_set(bitmap) ==
  IF bitmap = Bits THEN 0 ELSE 1 + Min(Bits \ bitmap)

\* blkgrps_load: read the bitmaps from the device, recompute every hint.
blkgrps_load(bitmaps) ==
  [g \in GroupIds |-> [bitmap |-> bitmaps[g],
                       next   |-> find_first_set(bitmaps[g])]]

grp_idx(idx)    == (idx - 1) \div BlkInodeNum
bitvec_idx(idx) == (idx - 1) % BlkInodeNum

\* blkgrps_inode_exist, blkgrps_data_exist.
exist(grps, idx) ==
  /\ idx # 0
  /\ bitvec_idx(idx) \in grps[grp_idx(idx)].bitmap

Used(grps)  == {idx \in Indices : exist(grps, idx)}
Zeros(grps) == Indices \ Used(grps)

\* A hint that is not 0 points at a clear bit.
HintsAreFree(grps) ==
  \A g \in GroupIds : grps[g].next # 0 => grps[g].next - 1 \notin grps[g].bitmap

(***************************************************************************)
(* blkgrps_*_alloc scans for the first group that has a clear bit and then *)
(* trusts that group's hint.  Three things can happen:                     *)
(*   Exhausted   no group has a clear bit: the call returns 0;             *)
(*   Faults      the chosen group has a clear bit but its hint is 0: the   *)
(*               call computes idx - 1 = 2^32 - 1 and bitvec_set writes    *)
(*               512 MiB behind a bitmap of one block, which ends the      *)
(*               process;                                                  *)
(*   HasRoom     the hint's bit is set, the hint is recomputed and the     *)
(*               index returned.                                           *)
(***************************************************************************)
WithClearBit(grps) == {g \in GroupIds : grps[g].bitmap # Bits}
Exhausted(grps)    == WithClearBit(grps) = {}
FirstFit(grps)     == Min(WithClearBit(grps))
Faults(grps)       == ~Exhausted(grps) /\ grps[FirstFit(grps)].next = 0
HasRoom(grps)      == ~Exhausted(grps) /\ grps[FirstFit(grps)].next # 0

AllocIdx(grps) ==
  FirstFit(grps) * BlkInodeNum + grps[FirstFit(grps)].next

SetBit(grp) == grp.bitmap \cup {grp.next - 1}

KeepOldHint(grps) ==
  [grps EXCEPT ![FirstFit(grps)].bitmap = SetBit(grps[FirstFit(grps)])]

\* The block groups after a successful allocation.
Allocated(grps) ==
  [grps EXCEPT ![FirstFit(grps)] =
     [bitmap |-> SetBit(@), next |-> find_first_set(SetBit(@))]]

ReleaseInFirstGroup(grps, idx) ==
  IF idx = 0 THEN grps
  ELSE [grps EXCEPT ![0].bitmap = @ \ {bitvec_idx(idx)}]

(* blkgrps_inode_release, blkgrps_data_release: clear the bit and leave    *)
(* the hint alone; index 0 is ignored.                                     *)
Released(grps, idx) ==
  IF idx = 0 THEN grps
  ELSE [grps EXCEPT ![grp_idx(idx)].bitmap = @ \ {bitvec_idx(idx)}]

=============================================================================
