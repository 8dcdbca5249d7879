------------------------------- MODULE Bitvec -------------------------------
(***************************************************************************)
(* The bit vectors of src/utils/bitvec.c: an array of bytes, with the      *)
(* arithmetic that finds a bit in it.  A bitmap of BlockGroups is such a   *)
(* vector; this module is about the bytes, that one about the set of bits. *)
(***************************************************************************)
EXTENDS Integers, FiniteSets, Folds, Functions

CONSTANT Size    \* bytes in the vector, the block size

ASSUME SizeAssumption == Size \in Nat \ {0}

Bytes     == 0 .. Size - 1
Positions == 0 .. 8 * Size - 1

VARIABLE inner   \* position in the array -> byte

\* Bit `pos' of a byte, and of the int it is promoted to.
Bit(byte, pos) == (byte \div 2^pos) % 2

split(index) == index \div 8
pos(index)   == index % 8

bitvec_get(vec, index) == Bit(vec[split(index)], pos(index))

\* Slips: an addition, or a plain assignment, for the `or'.
AddBit(byte, p)    == byte + 2^p
AssignBit(byte, p) == 2^p

\* `|= (1 << pos)' and `&= ~(1 << pos)'.
SetBit(byte, p)   == byte + (1 - Bit(byte, p)) * 2^p
ResetBit(byte, p) == byte - Bit(byte, p) * 2^p

\* Slip: the highest bit is not counted.
popcountOf7(byte) == Cardinality({p \in 0 .. 6 : Bit(byte, p) = 1})

popcount(byte) == Cardinality({p \in 0 .. 7 : Bit(byte, p) = 1})

bitvec_count_zeros(vec) ==
  MapThenFoldSet(+, 0, LAMBDA i : 8 - popcount(vec[i]),
                 LAMBDA S : CHOOSE i \in S : TRUE, Bytes)

LowestClear(byte) ==
  CHOOSE p \in 0 .. 8 : /\ Bit(byte, p) = 0
                        /\ \A q \in 0 .. p - 1 : Bit(byte, q) = 1

\* Slip: a full byte is told from others by 0, as ffs of a byte would be.
ffsOfByte(byte) == IF byte = 255 THEN 0 ELSE 1 + LowestClear(byte)

(* __builtin_ffs(~byte): one plus the position of the lowest clear bit.    *)
(* ~ applies to the promoted int, so a full byte gives 9.                  *)
ffs(byte) == 1 + LowestClear(byte)

(* The scan stops at the first byte with a clear bit; 0 if there is none.  *)
bitvec_find_first_set(vec) ==
  LET from[i \in 0 .. Size] ==
        IF i = Size THEN 0
        ELSE IF ffs(vec[i]) < 9 THEN 8 * i + ffs(vec[i])
        ELSE from[i + 1]
  IN  from[0]

-----------------------------------------------------------------------------

\* bitvec_init, then the bitmap is read from the device.
Init == inner \in [Bytes -> 0 .. 255]

bitvec_set(index) ==
  inner' = [inner EXCEPT ![split(index)] = SetBit(@, pos(index))]

bitvec_reset(index) ==
  inner' = [inner EXCEPT ![split(index)] = ResetBit(@, pos(index))]

Next == \E index \in Positions : bitvec_set(index) \/ bitvec_reset(index)

Spec == Init /\ [][Next]_inner

-----------------------------------------------------------------------------

TypeOK == inner \in [Bytes -> 0 .. 255]

Clear == {index \in Positions : bitvec_get(inner, index) = 0}

(* The popcounts of the bytes add up to the number of clear bits, which    *)
(* blkgrps_*_alloc compares with 0 before it trusts the hint.              *)
ZerosAreCounted == bitvec_count_zeros(inner) = Cardinality(Clear)

(* The scan by bytes gives one plus the lowest clear position, 0 if there  *)
(* is none: what BlockGroups!find_first_set says of the set of bits.       *)
LowestClearIsFound ==
  LET first == bitvec_find_first_set(inner)
  IN  IF Clear = {} THEN first = 0
      ELSE first - 1 \in Clear /\ \A index \in Clear : first - 1 <= index

(* Setting and resetting change the bit asked for and no other.            *)
BitsOf == INSTANCE BitSet WITH bits <- Positions \ Clear

ImplementsBitSet == BitsOf!Spec

=============================================================================
