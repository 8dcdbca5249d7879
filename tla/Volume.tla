------------------------------- MODULE Volume -------------------------------
(***************************************************************************)
(* The layout of a device and the life of a volume on it: formatting       *)
(* (src/src/chisai-format.c), mounting (fs_init and fs_create_root in      *)
(* src/src/chisai-core/fs.c) and where a mounted file system writes.       *)
(*                                                                         *)
(* The device is a row of bytes.  A volume starts with its superblock; a   *)
(* block group is a data bitmap, an inode bitmap, a table of inodes and as *)
(* many data blocks.  Formatting writes the superblock only, so what the   *)
(* bitmaps hold is what the device happened to hold there: an earlier      *)
(* volume with another block size may have kept its files at those bytes.  *)
(***************************************************************************)
EXTENDS Integers

CONSTANTS Sector,      \* the unit of BLKGETSIZE, 512 bytes
          BlkSizes,    \* the logical block sizes a device may have
          ByteBits,    \* BYTE_BITS
          INODE_SIZE,
          Word,        \* 2^32, the range of chisai_size_t
          Sizes        \* sizes of the device, in sectors

ASSUME SectorAssumption     == Sector \in Nat \ {0}
ASSUME BlkSizesAssumption   == BlkSizes \subseteq Nat \ {0}
ASSUME ByteBitsAssumption   == ByteBits \in Nat \ {0}
ASSUME InodeSizeAssumption  == INODE_SIZE \in Nat \ {0}
ASSUME WordAssumption       == Word \in Nat \ {0}
ASSUME SizesAssumption      == Sizes \subseteq Nat

VARIABLES sectors,   \* the size of the device
          blk,       \* its logical block size, as BLKSSZGET tells it
          sb,        \* the superblock on the device
          fs,        \* the superblock in the memory of the mounted process
          stray,     \* the reserved bits that are set, for each block size
          exit,      \* how the last format or mount ended
          mounted    \* history: the superblock has been mounted since it was made

vars == <<sectors, blk, sb, fs, stray, exit, mounted>>

None        == [block_size |-> 0, groups |-> 0]
Superblocks == [block_size : BlkSizes, groups : Nat \ {0}]

\* The positions that fs_create_root takes: data block 1, inodes 1 and 2.
Reserved == {"data1", "inode1", "inode2"}

-----------------------------------------------------------------------------

blk_inode_num(b) == b * ByteBits
blkgrp_size(b)   == 2 * b + blk_inode_num(b) * (INODE_SIZE + b)

\* Where a block group begins: one block is reserved for the superblock.
GroupStart(b, g) == b + g * blkgrp_size(b)

\* The index that blkgrps_*_alloc makes of a group and a position in it.
Index(b, g, pos) == (g * blk_inode_num(b) + pos + 1) % Word

Slot(idx)          == (idx - 1) % Word
grp_idx(b, idx)    == Slot(idx) \div blk_inode_num(b)
bitvec_idx(b, idx) == Slot(idx) % blk_inode_num(b)

\* Plausible slips, used only to see that the properties notice them.
inode_past_one_bitmap(b, idx) ==
  GroupStart(b, grp_idx(b, idx)) + b + INODE_SIZE * bitvec_idx(b, idx)
data_before_last_inode(b, idx) ==
  GroupStart(b, grp_idx(b, idx)) + 2 * b
    + INODE_SIZE * (blk_inode_num(b) - 1) + b * bitvec_idx(b, idx)

fs_inode_to_offset(b, idx) ==
  GroupStart(b, grp_idx(b, idx)) + 2 * b + INODE_SIZE * bitvec_idx(b, idx)

fs_data_to_offset(b, idx) ==
  GroupStart(b, grp_idx(b, idx)) + 2 * b
    + INODE_SIZE * blk_inode_num(b) + b * bitvec_idx(b, idx)

(***************************************************************************)
(* Everything a volume keeps somewhere: where it starts and how long it is.*)
(***************************************************************************)
GroupsOf(v)    == 0 .. v.groups - 1
PositionsOf(v) == 0 .. blk_inode_num(v.block_size) - 1

Records(v) == [kind : {"inode", "data"}, grp : GroupsOf(v), pos : PositionsOf(v)]
Bitmaps(v) == [kind : {"data_bitmap", "inode_bitmap"}, grp : GroupsOf(v), pos : {0}]
Superblk   == [kind |-> "superblock", grp |-> 0, pos |-> 0]
Places(v)  == Records(v) \cup Bitmaps(v) \cup {Superblk}

Start(v, p) ==
  LET b   == v.block_size
      idx == Index(b, p.grp, p.pos)
  IN  CASE p.kind = "superblock"   -> 0
        [] p.kind = "data_bitmap"  -> GroupStart(b, p.grp)
        [] p.kind = "inode_bitmap" -> GroupStart(b, p.grp) + b
        [] p.kind = "inode"        -> fs_inode_to_offset(b, idx)
        [] p.kind = "data"         -> fs_data_to_offset(b, idx)

Length(v, p) == IF p.kind = "inode" THEN INODE_SIZE ELSE v.block_size
End(v, p)    == Start(v, p) + Length(v, p)

\* The byte that holds a reserved bit of a volume with blocks of b bytes.
ByteOf(b, bit) ==
  IF bit = "data1" THEN GroupStart(b, 0) ELSE GroupStart(b, 0) + b

\* The bytes that requests to a mounted volume can change.
Writes(v, byte) == \E p \in Records(v) : Start(v, p) <= byte /\ byte < End(v, p)

\* Files and directories are written: bits that lie there may change.
Scribble(v) ==
  /\ stray' \in [BlkSizes -> SUBSET Reserved]
  /\ \A b \in BlkSizes, bit \in Reserved :
       \/ bit \in stray'[b] <=> bit \in stray[b]
       \/ Writes(v, ByteOf(b, bit))

-----------------------------------------------------------------------------

Init ==
  /\ sectors \in Sizes
  /\ blk \in BlkSizes
  /\ sb = None /\ fs = None
  /\ stray \in [BlkSizes -> SUBSET Reserved]
  /\ exit = "none"
  /\ mounted = FALSE

\* Nothing is mounted and the device comes back with another block size.
Attach ==
  /\ fs = None
  /\ blk' \in BlkSizes
  /\ UNCHANGED <<sectors, sb, fs, stray, exit, mounted>>

\* BLKGETSIZE counts sectors of 512 bytes; chisai_format takes them for blocks.
disk_size == sectors * blk

\* Slips, see above: the superblock and the check of the size are forgotten.
GroupsOfWholeDevice == disk_size \div blkgrp_size(blk)

\* How many block groups chisai_format makes.
FormatGroups == (disk_size - blk) \div blkgrp_size(blk)

FormatDies ==
  /\ disk_size < blk + blkgrp_size(blk)
  /\ exit' = "too small"
  /\ UNCHANGED <<sectors, blk, sb, fs, stray, mounted>>

FormatUnchecked ==
  /\ sb' = [block_size |-> blk, groups |-> FormatGroups]
  /\ exit' = "done"
  /\ mounted' = FALSE
  /\ UNCHANGED <<sectors, blk, fs, stray>>

(* The superblock takes 32 bytes of block 0, less than any block, so it    *)
(* lies on no bitmap.  Nothing stops a format of a mounted device.         *)
Format ==
  /\ disk_size >= blk + blkgrp_size(blk)
  /\ sb' = [block_size |-> blk, groups |-> FormatGroups]
  /\ exit' = "done"
  /\ mounted' = FALSE
  /\ UNCHANGED <<sectors, blk, fs, stray>>

\* fs_init of a device that was never formatted.
MountRefused ==
  /\ fs = None /\ sb = None
  /\ exit' = "bad magic"
  /\ UNCHANGED <<sectors, blk, sb, fs, stray, mounted>>

\* fs_init finds the bit of ROOT_INODE set and takes what is there for the root.
MountFindsRoot ==
  /\ fs = None /\ sb # None
  /\ "inode2" \in stray[sb.block_size]
  /\ fs' = sb
  /\ exit' = "done"
  /\ mounted' = TRUE
  /\ UNCHANGED <<sectors, blk, sb, stray>>

(* fs_create_root gets data block 1 and then inodes 1 and 2, and writes    *)
(* the root.                                                               *)
MountMakesRoot ==
  /\ fs = None /\ sb # None
  /\ stray[sb.block_size] = {}
  /\ fs' = sb
  /\ exit' = "done"
  /\ mounted' = TRUE
  /\ Scribble(sb)
  /\ UNCHANGED <<sectors, blk, sb>>

(* The bit of ROOT_INODE is clear, but data block 1 or inode 1 is taken:   *)
(* the first, or the second, assertion of fs_create_root fails.  The       *)
(* directory of the root is saved between them.                            *)
MountAborts ==
  /\ fs = None /\ sb # None
  /\ "inode2" \notin stray[sb.block_size]
  /\ \/ /\ "data1" \in stray[sb.block_size]
        /\ UNCHANGED stray
     \/ /\ "data1" \notin stray[sb.block_size]
        /\ "inode1" \in stray[sb.block_size]
        /\ Scribble(sb)
  /\ exit' = "aborted"
  /\ UNCHANGED <<sectors, blk, sb, fs, mounted>>

\* Any request that writes; the bitmaps themselves are never saved.
Use ==
  /\ fs # None
  /\ Scribble(fs)
  /\ UNCHANGED <<sectors, blk, sb, fs, exit, mounted>>

\* fs_destroy, or the end of the process.
Unmount ==
  /\ fs # None
  /\ fs' = None
  /\ exit' = "done"
  /\ UNCHANGED <<sectors, blk, sb, stray, mounted>>

Next ==
  \/ Attach
  \/ FormatDies \/ Format
  \/ MountRefused \/ MountFindsRoot \/ MountMakesRoot \/ MountAborts
  \/ Use
  \/ Unmount

Spec == Init /\ [][Next]_vars

-----------------------------------------------------------------------------

TypeOK ==
  /\ sectors \in Sizes
  /\ blk \in BlkSizes
  /\ sb \in Superblocks \cup {None}
  /\ fs \in Superblocks \cup {None}
  /\ stray \in [BlkSizes -> SUBSET Reserved]
  /\ exit \in {"none", "done", "too small", "bad magic", "aborted"}
  /\ mounted \in BOOLEAN

(* The offsets that blkgrps_load, fs_inode_to_offset and fs_data_to_offset *)
(* compute are of one layout: no two things of a mounted volume share a    *)
(* byte, as long as the indices fit into a chisai_size_t.                  *)
PlacesApart ==
  (fs # None /\ fs.groups * blk_inode_num(fs.block_size) < Word) =>
     \A p, q \in Places(fs) :
        p # q => End(fs, p) <= Start(fs, q) \/ End(fs, q) <= Start(fs, p)

(* The number of groups that chisai_format computes: a superblock and its  *)
(* groups end on the device.                                               *)
Fits(v) == GroupStart(v.block_size, v.groups) <= sectors * Sector

\* A volume made on a device with blocks of 512 bytes lies on the device.
SectorVolumeFits ==
  \A v \in {sb, fs} : v.block_size = Sector => Fits(v)

(* A volume that could be mounted can be mounted again, whatever was done  *)
(* with it in between: fs_create_root's assertions hold another time       *)
(* since no inode and no data block lies on a bitmap of the volume.        *)
RemountsWork == mounted => exit # "aborted"

\* What makes RemountsWork inductive: the bits still are as the mount left them.
RootIsKept ==
  mounted => /\ sb # None
             /\ fs \in {None, sb}
             /\ \/ "inode2" \in stray[sb.block_size]
                \/ stray[sb.block_size] = {}

IInv == TypeOK /\ SectorVolumeFits /\ RemountsWork /\ RootIsKept

=============================================================================
