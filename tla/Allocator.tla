----------------------------- MODULE Allocator -----------------------------
(***************************************************************************)
(* The allocation service of the file system: the block groups of one kind *)
(* (inodes or data blocks), the superblock counter that fs.c keeps beside  *)
(* them, and the life of the process that holds both in memory.            *)
(*                                                                         *)
(* The bitmaps are read from the device once, when it is mounted, and are  *)
(* never written back, so `disk' keeps the value it has in the initial     *)
(* state, which is arbitrary: formatting writes the superblock only.       *)
(***************************************************************************)
EXTENDS BlockGroups

CONSTANT MaxFree   \* bound of the model on the free counter, see Release

ASSUME MaxFreeAssumption == MaxFree \in Nat /\ MaxFree >= Total

VARIABLES phase,    \* "down": not mounted, "up": serving, "dead": crashed
          disk,     \* the bitmaps on the device
          grps,     \* the bitmaps and hints in memory
          free,     \* sb.free_inodes or sb.free_blocks, in memory
          ret,      \* the index the last allocation returned
          filled    \* history: groups seen full since the bitmaps were loaded

vars == <<phase, disk, grps, free, ret, filled>>

Full(grps_) == {g \in GroupIds : grps_[g].bitmap = Bits}

Init ==
  /\ phase = "down"
  /\ disk \in [GroupIds -> Bitmap]
  /\ grps = blkgrps_load(disk)
  /\ free = Total
  /\ ret = 0
  /\ filled = {}

\* fs_init: the superblock's counter and the bitmaps come from the device.
Load ==
  /\ phase # "up"
  /\ phase' = "up"
  /\ grps' = blkgrps_load(disk)
  /\ free' = Total
  /\ filled' = Full(grps')
  /\ UNCHANGED <<disk, ret>>

\* fs_inode_alloc, fs_data_alloc: nothing is left and the call returns 0.
AllocFails ==
  /\ phase = "up"
  /\ Exhausted(grps)
  /\ ret' = 0
  /\ UNCHANGED <<phase, disk, grps, free, filled>>

Alloc ==
  /\ phase = "up"
  /\ HasRoom(grps)
  /\ grps' = Allocated(grps)
  /\ ret' = AllocIdx(grps)
  /\ free' = free - 1
  /\ filled' = filled \cup Full(grps')
  /\ UNCHANGED <<phase, disk>>

\* The hint of the chosen group is 0: the write behind the bitmap is fatal.
AllocFaults ==
  /\ phase = "up"
  /\ Faults(grps)
  /\ phase' = "dead"
  /\ UNCHANGED <<disk, grps, free, ret, filled>>

ReleaseNotCounted(idx) ==
  /\ phase = "up"
  /\ grps' = Released(grps, idx)
  /\ UNCHANGED <<phase, disk, free, ret, filled>>

(* fs_inode_release, fs_data_release.  The counter grows whether or not    *)
(* the bit was set, and also for index 0: fs_remove_file releases block 0  *)
(* of every file that was never written.  MaxFree bounds the counter.      *)
Release(idx) ==
  /\ phase = "up"
  /\ free < MaxFree
  /\ grps' = Released(grps, idx)
  /\ free' = free + 1
  /\ UNCHANGED <<phase, disk, ret, filled>>

\* fs_destroy: the memory is freed and nothing is written back.
Destroy ==
  /\ phase = "up"
  /\ phase' = "down"
  /\ UNCHANGED <<disk, grps, free, ret, filled>>

Next ==
  \/ Load
  \/ AllocFails
  \/ Alloc
  \/ AllocFaults
  \/ \E idx \in Indices \cup {0} : Release(idx)
  \/ Destroy

Spec == Init /\ [][Next]_vars

-----------------------------------------------------------------------------

TypeOK ==
  /\ phase \in {"down", "up", "dead"}
  /\ disk \in [GroupIds -> Bitmap]
  /\ grps \in BlkGrps
  /\ free \in 0 .. MaxFree
  /\ ret \in Indices \cup {0}
  /\ filled \in SUBSET GroupIds

(* A hint that is not 0 points at a clear bit, although a release never    *)
(* refreshes it and allocation never looks at the bit before it sets it:   *)
(* this is what keeps blkgrp_*_alloc from handing out an index twice.      *)
HintIsFree == HintsAreFree(grps)

(* The superblock counter, incremented even by releases that free nothing, *)
(* never falls below the number of clear bits; the unsigned `free--' of    *)
(* fs_*_alloc therefore never wraps below zero.                            *)
CounterCoversZeros ==
  phase = "up" => free >= Cardinality(Zeros(grps))

(* A release frees the index it was given and no other, whichever group it *)
(* lies in; releasing a free index or index 0 frees nothing.               *)
ReleaseFreesItsIndex ==
  [][\A idx \in Indices \cup {0} :
       Release(idx) => Used(grps') = Used(grps) \ {idx}]_vars

(* What is left of "allocation works while an index is free": the process  *)
(* is lost only if some group has been full since the mount.               *)
FaultNeedsFullGroup ==
  phase = "dead" => filled # {}

(* The allocator implements the pool of indices.  While no process runs,   *)
(* the indices held are those the next mount will find on the device.      *)
Pool == INSTANCE IndexPool WITH
          used  <- IF phase = "up" THEN Used(grps) ELSE Used(blkgrps_load(disk)),
          saved <- Used(blkgrps_load(disk))

ImplementsPool == Pool!Spec

=============================================================================
