-------------------------- MODULE AllocatorProofs --------------------------
(***************************************************************************)
(* Proofs about Allocator, for every number of groups, every group size    *)
(* and every content of the on-disk bitmaps.                               *)
(***************************************************************************)
EXTENDS Allocator, BlockGroupsProofs

\* The clear bits as a finite set, and how the two operations change them.
LEMMA ZerosFinite ==
  ASSUME NEW grp
  PROVE  /\ IsFiniteSet(Zeros(grp)) /\ Cardinality(Zeros(grp)) \in Nat
         /\ Cardinality(Zeros(grp)) <= Total
<1>1. Total \in Nat
  BY GroupsAssumption, BlkInodeNumAssumption, SMT DEF Total
<1>2. IsFiniteSet(Indices) /\ Cardinality(Indices) = Total
  BY <1>1, FS_Interval DEF Indices
<1>3. Zeros(grp) \in SUBSET Indices
  BY DEF Zeros
<1>. QED
  BY <1>1, <1>2, <1>3, FS_Subset, FS_CardinalityType

LEMMA AllocTakesZero ==
  ASSUME NEW grp \in BlkGrps, HintsAreFree(grp), HasRoom(grp)
  PROVE  Cardinality(Zeros(Allocated(grp))) = Cardinality(Zeros(grp)) - 1
<1>1. /\ AllocIdx(grp) \in Zeros(grp)
      /\ Zeros(Allocated(grp)) = Zeros(grp) \ {AllocIdx(grp)}
  BY AllocEffect DEF Zeros
<1>. QED
  BY <1>1, ZerosFinite, FS_RemoveElement

LEMMA ReleaseAddsAtMostOne ==
  ASSUME NEW grp \in BlkGrps, HintsAreFree(grp), NEW idx \in Indices \cup {0}
  PROVE  Cardinality(Zeros(Released(grp, idx))) <= Cardinality(Zeros(grp)) + 1
<1>1. CASE idx = 0
  BY <1>1, ZerosFinite DEF Released
<1>2. CASE idx \in Indices
  <2>1. Zeros(Released(grp, idx)) = Zeros(grp) \cup {idx}
    BY <1>2, ReleaseEffect DEF Zeros
  <2>. QED
    BY <2>1, ZerosFinite, FS_AddElement
<1>. QED
  BY <1>1, <1>2

(* A hint is 0 only where a full group has been seen: what turns the       *)
(* history `filled' into an inductive fact.                                *)
ZeroHintSeenFull ==
  phase = "up" => \A g \in GroupIds : grps[g].next = 0 => g \in filled

(* TypeOK is not inductive by itself: that the unsigned counter does not   *)
(* go below 0 follows from CounterCoversZeros, which in turn needs the     *)
(* hints to be free so that an allocation consumes a clear bit.            *)
IInv == TypeOK /\ HintIsFree /\ CounterCoversZeros /\ ZeroHintSeenFull
             /\ FaultNeedsFullGroup

LEMMA InitInvariant == Init => IInv
<1> SUFFICES ASSUME Init PROVE IInv
  OBVIOUS
<1>1. grps \in BlkGrps /\ HintsAreFree(grps)
  BY LoadEffect DEF Init
<1>2. free \in 0 .. MaxFree
  BY GroupsAssumption, BlkInodeNumAssumption, MaxFreeAssumption, SMT DEF Init, Total
<1>. QED
  BY <1>1, <1>2 DEF Init, IInv, TypeOK, HintIsFree, CounterCoversZeros,
                    ZeroHintSeenFull, FaultNeedsFullGroup

LEMMA NextInvariant == IInv /\ [Next]_vars => IInv'
<1> SUFFICES ASSUME IInv, [Next]_vars
             PROVE  IInv'
  OBVIOUS
<1> USE DEF IInv, TypeOK, HintIsFree
<1>0. Total \in Nat /\ MaxFree \in Nat /\ Total <= MaxFree
  BY GroupsAssumption, BlkInodeNumAssumption, MaxFreeAssumption, SMT DEF Total
<1>1. CASE Load
  <2>1. grps' \in BlkGrps /\ HintsAreFree(grps')
    BY <1>1, LoadEffect DEF Load
  <2>2. CounterCoversZeros'
    BY <1>1, <1>0, ZerosFinite DEF Load, CounterCoversZeros
  <2>3. ASSUME NEW g \in GroupIds, grps'[g].next = 0
        PROVE  g \in filled'
    <3>1. grps'[g].bitmap = disk[g] /\ find_first_set(disk[g]) = 0
      BY <1>1, <2>3 DEF Load, blkgrps_load
    <3>. QED
      BY <1>1, <3>1, FindFirstSet DEF Load, Full
  <2>. QED
    BY <1>0, <1>1, <2>1, <2>2, <2>3
       DEF Load, Full, ZeroHintSeenFull, FaultNeedsFullGroup
<1>2. CASE AllocFails
  BY <1>2 DEF AllocFails, CounterCoversZeros, ZeroHintSeenFull,
              FaultNeedsFullGroup
<1>3. CASE Alloc
  <2>1. /\ grps' \in BlkGrps /\ HintsAreFree(grps') /\ ret' \in Indices
        /\ Cardinality(Zeros(grps)) >= 1
    <3>1. AllocIdx(grps) \in Zeros(grps)
      BY <1>3, AllocEffect DEF Alloc, Zeros
    <3>2. Cardinality(Zeros(grps)) # 0
      BY <3>1, ZerosFinite, FS_EmptySet
    <3>. QED
      BY <1>3, <3>2, AllocEffect, ZerosFinite DEF Alloc
  <2>2. CounterCoversZeros' /\ free' \in 0 .. MaxFree
    BY <1>0, <1>3, <2>1, AllocTakesZero, ZerosFinite DEF Alloc, CounterCoversZeros
  <2>3. ASSUME NEW g \in GroupIds, grps'[g].next = 0
        PROVE  g \in filled'
    <3>1. CASE g # FirstFit(grps)
      BY <1>3, <2>3, <3>1 DEF Alloc, Allocated, BlkGrps, ZeroHintSeenFull
    <3>2. CASE g = FirstFit(grps)
      <4>1. /\ grps'[g].bitmap \in Bitmap
            /\ grps'[g].next = find_first_set(grps'[g].bitmap)
        BY <1>3, <3>2, <2>1 DEF Alloc, Allocated, BlkGrps
      <4>2. grps'[g].bitmap = Bits
        BY <4>1, <2>3, FindFirstSet
      <4>. QED
        BY <1>3, <4>2 DEF Alloc, Full
    <3>. QED
      BY <3>1, <3>2
  <2>. QED
    BY <1>3, <2>1, <2>2, <2>3
       DEF Alloc, Full, ZeroHintSeenFull, FaultNeedsFullGroup
<1>4. CASE AllocFaults
  <2>1. FirstFit(grps) \in GroupIds /\ grps[FirstFit(grps)].next = 0
    BY <1>4, FirstFitHasClearBit DEF AllocFaults, Faults
  <2>. QED
    BY <1>4, <2>1 DEF AllocFaults, CounterCoversZeros, ZeroHintSeenFull,
                      FaultNeedsFullGroup
<1>5. ASSUME NEW idx \in Indices \cup {0}, Release(idx)
      PROVE  IInv'
  <2>1. grps' \in BlkGrps /\ HintsAreFree(grps')
    BY <1>5, ReleaseEffect DEF Release
  <2>2. CounterCoversZeros' /\ free' \in 0 .. MaxFree
    BY <1>0, <1>5, ReleaseAddsAtMostOne, ZerosFinite DEF Release, CounterCoversZeros
  <2>3. \A g \in GroupIds : grps'[g].next = grps[g].next
    BY <1>5, PositionOfIndex DEF Release, Released, BlkGrps
  <2>. QED
    BY <1>5, <2>1, <2>2, <2>3 DEF Release, ZeroHintSeenFull, FaultNeedsFullGroup
<1>6. CASE Destroy
  BY <1>6 DEF Destroy, CounterCoversZeros, ZeroHintSeenFull, FaultNeedsFullGroup
<1>7. CASE UNCHANGED vars
  BY <1>7 DEF vars, CounterCoversZeros, ZeroHintSeenFull, FaultNeedsFullGroup
<1>. QED
  BY <1>1, <1>2, <1>3, <1>4, <1>5, <1>6, <1>7 DEF Next

(* Every reachable state satisfies the inductive invariant.                *)
THEOREM Invariant == Spec => []IInv
BY InitInvariant, NextInvariant, PTL DEF Spec

(* The variables of the allocator stay in their ranges; in particular the  *)
(* unsigned counters free_inodes and free_blocks never wrap below 0.       *)
THEOREM TypeCorrect == Spec => []TypeOK
BY Invariant, PTL DEF IInv

(* blkgrp_*_alloc sets the bit its hint names without looking at it: the   *)
(* bit is clear, although bitvec_reset in a release refreshes no hint.     *)
THEOREM HintsNameClearBits == Spec => []HintIsFree
BY Invariant, PTL DEF IInv

(* The counter that fs_*_release increments unconditionally never falls    *)
(* below the number of clear bits in the bitmaps.                          *)
THEOREM CounterIsUpperBound == Spec => []CounterCoversZeros
BY Invariant, PTL DEF IInv

(* The write through hint 0 needs a group that was full at some time since *)
(* the bitmaps were loaded.                                                *)
THEOREM FaultsOnlyAfterFull == Spec => []FaultNeedsFullGroup
BY Invariant, PTL DEF IInv

(* blkgrps_*_release clears the bit of the index it was given: division    *)
(* splits the index into the group and the position it was made of.        *)
THEOREM ReleasesFreeTheirIndex == Spec => ReleaseFreesItsIndex
<1>1. IInv /\ [Next]_vars =>
        [\A idx \in Indices \cup {0} :
           Release(idx) => Used(grps') = Used(grps) \ {idx}]_vars
  BY ReleaseEffect DEF IInv, TypeOK, HintIsFree, Release
<1>. QED
  BY <1>1, Invariant, PTL DEF Spec, ReleaseFreesItsIndex

(* Allocation never hands out an index somebody holds, never refuses while *)
(* one is free in every group it looks at, and a release gives back the    *)
(* one index it was given: the bitmaps, hints and groups implement the     *)
(* pool of indices, whatever the bitmaps on the device are.                *)
THEOREM AllocatorImplementsPool == Spec => ImplementsPool
<1>1. Init => Pool!Init
  <2> SUFFICES ASSUME Init PROVE Pool!Init
    OBVIOUS
  <2>. QED
    BY DEF Init, Pool!Init, Used
<1>2. IInv /\ [Next]_vars => [Pool!Next]_(Pool!vars)
  <2> SUFFICES ASSUME IInv, [Next]_vars
               PROVE  [Pool!Next]_(Pool!vars)
    OBVIOUS
  <2> USE DEF IInv, TypeOK, HintIsFree
  <2>1. CASE Load
    BY <2>1 DEF Load, Pool!vars
  <2>2. CASE AllocFails
    <3>1. Used(grps) = Indices
      BY <2>2, ExhaustedMeansAllUsed DEF AllocFails
    <3>2. Pool!Refuse
      BY <2>2, <3>1 DEF AllocFails, Pool!Refuse
    <3>. QED
      BY <3>2 DEF Pool!Next
  <2>3. CASE Alloc
    <3>1. /\ AllocIdx(grps) \in Indices \ Used(grps)
          /\ Used(grps') = Used(grps) \cup {AllocIdx(grps)}
      BY <2>3, AllocEffect DEF Alloc
    <3>2. Pool!Grant
      BY <2>3, <3>1 DEF Alloc, Pool!Grant
    <3>. QED
      BY <3>2 DEF Pool!Next
  <2>4. CASE AllocFaults
    <3>1. Pool!Restart
      BY <2>4 DEF AllocFaults, Pool!Restart
    <3>. QED
      BY <3>1 DEF Pool!Next
  <2>5. ASSUME NEW idx \in Indices \cup {0}, Release(idx)
        PROVE  [Pool!Next]_(Pool!vars)
    <3>1. Used(grps') = Used(grps) \ {idx}
      BY <2>5, ReleaseEffect DEF Release
    <3>2. CASE idx = 0
      <4>1. Used(grps') = Used(grps)
        BY <2>5, <3>2 DEF Release, Released
      <4>. QED
        BY <2>5, <4>1 DEF Release, Pool!vars
    <3>3. CASE idx \in Indices
      <4>1. Pool!Release
        BY <2>5, <3>1, <3>3 DEF Release, Pool!Release
      <4>. QED
        BY <4>1 DEF Pool!Next
    <3>. QED
      BY <3>2, <3>3
  <2>6. CASE Destroy
    <3>1. Pool!Restart
      BY <2>6 DEF Destroy, Pool!Restart
    <3>. QED
      BY <3>1 DEF Pool!Next
  <2>7. CASE UNCHANGED vars
    BY <2>7 DEF vars, Pool!vars
  <2>. QED
    BY <2>1, <2>2, <2>3, <2>4, <2>5, <2>6, <2>7 DEF Next
<1>. QED
  BY <1>1, <1>2, Invariant, PTL DEF Spec, ImplementsPool, Pool!Spec

=============================================================================
