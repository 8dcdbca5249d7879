---------------------------- MODULE BitvecProofs ----------------------------
(***************************************************************************)
(* Proofs about Bitvec, for every number of bytes: the arithmetic on bytes *)
(* is that of a set of positions.                                          *)
(***************************************************************************)
EXTENDS Bitvec, Products

Byte     == 0 .. 255
BitsOfIt == 0 .. 7

LEMMA Powers ==
  ASSUME NEW p \in BitsOfIt
  PROVE  \/ p = 0 /\ 2^p = 1
         \/ p = 1 /\ 2^p = 2
         \/ p = 2 /\ 2^p = 4
         \/ p = 3 /\ 2^p = 8
         \/ p = 4 /\ 2^p = 16
         \/ p = 5 /\ 2^p = 32
         \/ p = 6 /\ 2^p = 64
         \/ p = 7 /\ 2^p = 128
<1>1. /\ 2^0 = 1 /\ 2^1 = 2 /\ 2^2 = 4 /\ 2^3 = 8
      /\ 2^4 = 16 /\ 2^5 = 32 /\ 2^6 = 64 /\ 2^7 = 128
  BY SMT
<1>2. \/ p = 0 \/ p = 1 \/ p = 2 \/ p = 3
      \/ p = 4 \/ p = 5 \/ p = 6 \/ p = 7
  BY DEF BitsOfIt
<1>3. CASE p = 0
  <2>1. 2^p = 2^0
    BY <1>3
  <2>. QED
    BY <2>1, <1>1, <1>3, Zenon
<1>4. CASE p = 1
  <2>1. 2^p = 2^1
    BY <1>4
  <2>. QED
    BY <2>1, <1>1, <1>4, Zenon
<1>5. CASE p = 2
  <2>1. 2^p = 2^2
    BY <1>5
  <2>. QED
    BY <2>1, <1>1, <1>5, Zenon
<1>6. CASE p = 3
  <2>1. 2^p = 2^3
    BY <1>6
  <2>. QED
    BY <2>1, <1>1, <1>6, Zenon
<1>7. CASE p = 4
  <2>1. 2^p = 2^4
    BY <1>7
  <2>. QED
    BY <2>1, <1>1, <1>7, Zenon
<1>8. CASE p = 5
  <2>1. 2^p = 2^5
    BY <1>8
  <2>. QED
    BY <2>1, <1>1, <1>8, Zenon
<1>9. CASE p = 6
  <2>1. 2^p = 2^6
    BY <1>9
  <2>. QED
    BY <2>1, <1>1, <1>9, Zenon
<1>10. CASE p = 7
  <2>1. 2^p = 2^7
    BY <1>10
  <2>. QED
    BY <2>1, <1>1, <1>10, Zenon
<1>. QED
  BY <1>2, <1>3, <1>4, <1>5, <1>6, <1>7, <1>8, <1>9, <1>10, Zenon

\* A bit of a byte by the divisor that shifts it down.
BitAt(byte, d) == (byte \div d) % 2
Divisors == {1, 2, 4, 8, 16, 32, 64, 128}

LEMMA SetBitArithmetic ==
  ASSUME NEW b \in Byte, NEW d \in Divisors, NEW e \in Divisors
  PROVE  LET new == b + (1 - BitAt(b, d)) * d IN
         /\ BitAt(b, d) \in {0, 1} /\ new \in Byte
         /\ BitAt(new, e) = IF e = d THEN 1 ELSE BitAt(b, e)
<1>1. CASE d = 1
  BY <1>1 DEF Byte, Divisors, BitAt
<1>2. CASE d = 2
  BY <1>2 DEF Byte, Divisors, BitAt
<1>3. CASE d = 4
  BY <1>3 DEF Byte, Divisors, BitAt
<1>4. CASE d = 8
  BY <1>4 DEF Byte, Divisors, BitAt
<1>5. CASE d = 16
  BY <1>5 DEF Byte, Divisors, BitAt
<1>6. CASE d = 32
  BY <1>6 DEF Byte, Divisors, BitAt
<1>7. CASE d = 64
  BY <1>7 DEF Byte, Divisors, BitAt
<1>8. CASE d = 128
  BY <1>8 DEF Byte, Divisors, BitAt
<1>. QED
  BY <1>1, <1>2, <1>3, <1>4, <1>5, <1>6, <1>7, <1>8 DEF Divisors

LEMMA ResetBitArithmetic ==
  ASSUME NEW b \in Byte, NEW d \in Divisors, NEW e \in Divisors
  PROVE  LET new == b - BitAt(b, d) * d IN
         /\ new \in Byte
         /\ BitAt(new, e) = IF e = d THEN 0 ELSE BitAt(b, e)
<1>1. CASE d = 1
  BY <1>1 DEF Byte, Divisors, BitAt
<1>2. CASE d = 2
  BY <1>2 DEF Byte, Divisors, BitAt
<1>3. CASE d = 4
  BY <1>3 DEF Byte, Divisors, BitAt
<1>4. CASE d = 8
  BY <1>4 DEF Byte, Divisors, BitAt
<1>5. CASE d = 16
  BY <1>5 DEF Byte, Divisors, BitAt
<1>6. CASE d = 32
  BY <1>6 DEF Byte, Divisors, BitAt
<1>7. CASE d = 64
  BY <1>7 DEF Byte, Divisors, BitAt
<1>8. CASE d = 128
  BY <1>8 DEF Byte, Divisors, BitAt
<1>. QED
  BY <1>1, <1>2, <1>3, <1>4, <1>5, <1>6, <1>7, <1>8 DEF Divisors

\* Setting or resetting a bit of a byte changes no other.
LEMMA ByteEffect ==
  ASSUME NEW b \in Byte, NEW p \in BitsOfIt
  PROVE  /\ Bit(b, p) \in {0, 1}
         /\ SetBit(b, p) \in Byte /\ ResetBit(b, p) \in Byte
         /\ \A q \in BitsOfIt :
              /\ Bit(SetBit(b, p), q) = IF q = p THEN 1 ELSE Bit(b, q)
              /\ Bit(ResetBit(b, p), q) = IF q = p THEN 0 ELSE Bit(b, q)
<1>1. \A q \in BitsOfIt : 2^q \in Divisors /\ (2^q = 2^p <=> q = p)
  BY Powers DEF Divisors
<1>2. \A q, c : Bit(c, q) = BitAt(c, 2^q)
  BY DEF Bit, BitAt
<1>. QED
  BY <1>1, <1>2, SetBitArithmetic, ResetBitArithmetic DEF SetBit, ResetBit

-----------------------------------------------------------------------------
(***************************************************************************)
(* A position is a byte and a bit of it.                                   *)
(***************************************************************************)

LEMMA PositionSplits ==
  ASSUME NEW index \in Positions
  PROVE  /\ split(index) \in Bytes /\ pos(index) \in BitsOfIt
         /\ index = 8 * split(index) + pos(index)
BY SizeAssumption DEF Positions, Bytes, BitsOfIt, split, pos

LEMMA PositionOf ==
  ASSUME NEW i \in Bytes, NEW p \in BitsOfIt
  PROVE  /\ 8 * i + p \in Positions
         /\ split(8 * i + p) = i /\ pos(8 * i + p) = p
BY SizeAssumption DEF Positions, Bytes, BitsOfIt, split, pos

LEMMA SamePosition ==
  ASSUME NEW index \in Positions, NEW other \in Positions
  PROVE  index = other <=> split(index) = split(other) /\ pos(index) = pos(other)
BY PositionSplits

(* Setting a bit of the vector takes its position from the clear ones,     *)
(* resetting it adds the position, and no other position changes.          *)
LEMMA VectorEffect ==
  ASSUME TypeOK, NEW index \in Positions
  PROVE  /\ bitvec_set(index) => TypeOK' /\ Clear' = Clear \ {index}
         /\ bitvec_reset(index) => TypeOK' /\ Clear' = Clear \cup {index}
<1> DEFINE i == split(index)
           p == pos(index)
<1>1. i \in Bytes /\ p \in BitsOfIt /\ inner[i] \in Byte
  BY PositionSplits DEF TypeOK, Byte
<1>2. \A other \in Positions :
        /\ split(other) \in Bytes /\ pos(other) \in BitsOfIt
        /\ index = other <=> i = split(other) /\ p = pos(other)
  BY PositionSplits, SamePosition
<1>3. SetBit(inner[i], p) \in Byte /\ ResetBit(inner[i], p) \in Byte
  BY <1>1, ByteEffect
<1>4. \A q \in BitsOfIt :
        /\ Bit(SetBit(inner[i], p), q) = IF q = p THEN 1 ELSE Bit(inner[i], q)
        /\ Bit(ResetBit(inner[i], p), q) = IF q = p THEN 0 ELSE Bit(inner[i], q)
  BY <1>1, ByteEffect
<1> HIDE DEF i, p
<1>5. ASSUME bitvec_set(index)
      PROVE  TypeOK' /\ Clear' = Clear \ {index}
  <2>1. inner' = [inner EXCEPT ![i] = SetBit(inner[i], p)]
    BY <1>5 DEF bitvec_set, i, p
  <2>2. TypeOK'
    BY <1>3, <2>1 DEF TypeOK, Byte
  <2>3. ASSUME NEW other \in Positions
        PROVE  Bit(inner'[split(other)], pos(other)) =
                 IF other = index THEN 1
                 ELSE Bit(inner[split(other)], pos(other))
    <3>1. CASE split(other) = i
      BY <3>1, <1>1, <1>2, <1>4, <2>1 DEF TypeOK
    <3>2. CASE split(other) # i
      BY <3>2, <1>1, <1>2, <2>1 DEF TypeOK
    <3>. QED
      BY <3>1, <3>2
  <2>4. Clear' = Clear \ {index}
    BY <2>3 DEF Clear, bitvec_get
  <2>. QED
    BY <2>2, <2>4
<1>6. ASSUME bitvec_reset(index)
      PROVE  TypeOK' /\ Clear' = Clear \cup {index}
  <2>1. inner' = [inner EXCEPT ![i] = ResetBit(inner[i], p)]
    BY <1>6 DEF bitvec_reset, i, p
  <2>2. TypeOK'
    BY <1>3, <2>1 DEF TypeOK, Byte
  <2>3. ASSUME NEW other \in Positions
        PROVE  Bit(inner'[split(other)], pos(other)) =
                 IF other = index THEN 0
                 ELSE Bit(inner[split(other)], pos(other))
    <3>1. CASE split(other) = i
      BY <3>1, <1>1, <1>2, <1>4, <2>1 DEF TypeOK
    <3>2. CASE split(other) # i
      BY <3>2, <1>1, <1>2, <2>1 DEF TypeOK
    <3>. QED
      BY <3>1, <3>2
  <2>4. Clear' = Clear \cup {index}
    BY <2>3 DEF Clear, bitvec_get
  <2>. QED
    BY <2>2, <2>4
<1>. QED
  BY <1>5, <1>6

(* bitvec_set and bitvec_reset keep every element of the array a byte:     *)
(* neither `or' nor `and not' carries out of it.                           *)
THEOREM TypeCorrect == Spec => []TypeOK
<1>1. Init => TypeOK
  BY DEF Init, TypeOK
<1>2. TypeOK /\ [Next]_inner => TypeOK'
  <2>1. ASSUME TypeOK, Next
        PROVE  TypeOK'
    BY <2>1, VectorEffect DEF Next
  <2>2. TypeOK /\ UNCHANGED inner => TypeOK'
    BY DEF TypeOK
  <2>. QED
    BY <2>1, <2>2
<1>. QED
  BY <1>1, <1>2, PTL DEF Spec

(* The masks on bytes are the addition and the removal of one element of a *)
(* set: what block_group.c takes bitvec_set and bitvec_reset to be.        *)
THEOREM BytesImplementSet == Spec => ImplementsBitSet
<1> DEFINE Bits == Positions \ Clear
<1>1. Init => BitsOf!Init
  BY DEF BitsOf!Init
<1>2. TypeOK /\ [Next]_inner => [BitsOf!Next]_Bits
  <2>1. ASSUME TypeOK, NEW index \in Positions, bitvec_set(index)
        PROVE  BitsOf!Next
    <3>1. (Positions \ Clear)' = (Positions \ Clear) \cup {index}
      BY <2>1, VectorEffect DEF Positions
    <3>. QED
      BY <3>1 DEF BitsOf!Next, BitsOf!Add
  <2>2. ASSUME TypeOK, NEW index \in Positions, bitvec_reset(index)
        PROVE  BitsOf!Next
    <3>1. (Positions \ Clear)' = (Positions \ Clear) \ {index}
      BY <2>2, VectorEffect DEF Positions
    <3>. QED
      BY <3>1 DEF BitsOf!Next, BitsOf!Remove
  <2>3. ASSUME UNCHANGED inner
        PROVE  Bits' = Bits
    BY <2>3 DEF Clear
  <2>. QED
    BY <2>1, <2>2, <2>3 DEF Next
<1>. QED
  BY <1>1, <1>2, TypeCorrect, PTL DEF Spec, ImplementsBitSet, BitsOf!Spec

-----------------------------------------------------------------------------
(***************************************************************************)
(* Counting: the popcounts of any set of bytes account for the clear bits  *)
(* in them.                                                                *)
(***************************************************************************)

ClearIn(s) == {index \in Clear : split(index) \in s}

LEMMA BytesAreFinite == IsFiniteSet(Bytes) /\ IsFiniteSet(Positions)
BY SizeAssumption, FS_Interval DEF Bytes, Positions

LEMMA ClearAreFinite ==
  ASSUME NEW s
  PROVE  IsFiniteSet(ClearIn(s)) /\ Cardinality(ClearIn(s)) \in Nat
BY BytesAreFinite, FS_Subset, FS_CardinalityType DEF ClearIn, Clear

LEMMA EightBits == IsFiniteSet(0 .. 7) /\ Cardinality(0 .. 7) = 8
<1>1. \A n \in Nat : IsFiniteSet(0 .. n) /\ Cardinality(0 .. n) = n + 1
  BY FS_Interval
<1>2. 7 \in Nat /\ 7 + 1 = 8
  OBVIOUS
<1>3. IsFiniteSet(0 .. 7) /\ Cardinality(0 .. 7) = 7 + 1
  BY <1>1, <1>2, Zenon
<1>. QED
  BY <1>2, <1>3, Zenon

\* The clear bits of one byte, by the bijection of positions and bits.
LEMMA ZerosOfByte ==
  ASSUME TypeOK, NEW i \in Bytes
  PROVE  /\ popcount(inner[i]) \in 0 .. 8
         /\ Cardinality(ClearIn({i})) = 8 - popcount(inner[i])
<1> DEFINE ones  == {p \in 0 .. 7 : Bit(inner[i], p) = 1}
           zeros == (0 .. 7) \ ones
           f == [p \in zeros |-> 8 * i + p]
<1>1. IsFiniteSet(0 .. 7) /\ Cardinality(0 .. 7) = 8
  BY EightBits
<1>2. IsFiniteSet(ones) /\ Cardinality(ones) <= 8 /\ Cardinality(ones) \in Nat
  BY <1>1, FS_Subset, FS_CardinalityType
<1>3. IsFiniteSet(zeros) /\ Cardinality(zeros) = 8 - Cardinality(ones)
  <2>1. (0 .. 7) \cap ones = ones
    OBVIOUS
  <2> HIDE DEF ones
  <2>2. /\ IsFiniteSet((0 .. 7) \ ones)
        /\ Cardinality((0 .. 7) \ ones) =
             Cardinality(0 .. 7) - Cardinality((0 .. 7) \cap ones)
    BY <1>1, FS_Difference, Zenon
  <2>. QED
    BY <1>1, <2>1, <2>2
<1>4. zeros = {p \in 0 .. 7 : Bit(inner[i], p) = 0}
  <2>1. \A p \in 0 .. 7 : Bit(inner[i], p) \in {0, 1}
    BY ByteEffect DEF TypeOK, Byte, BitsOfIt
  <2>. QED
    BY <2>1
<1> HIDE DEF ones, zeros
<1>5. \A p \in zeros : f[p] \in ClearIn({i})
  BY <1>4, PositionOf DEF ClearIn, Clear, bitvec_get, BitsOfIt
<1>6. \A p, q \in zeros : f[p] = f[q] => p = q
  BY <1>4 DEF Bytes
<1>7. \A index \in ClearIn({i}) : \E p \in zeros : f[p] = index
  <2> SUFFICES ASSUME NEW index \in ClearIn({i})
               PROVE  pos(index) \in zeros /\ index = 8 * i + pos(index)
    OBVIOUS
  <2>1. index \in Positions /\ split(index) = i
        /\ Bit(inner[i], pos(index)) = 0
    BY DEF ClearIn, Clear, bitvec_get
  <2>. QED
    BY <1>4, <2>1, PositionSplits DEF BitsOfIt
<1>8. f \in Bijection(zeros, ClearIn({i}))
  BY <1>5, <1>6, <1>7 DEF Bijection, Injection, Surjection, IsInjective
<1>9. Cardinality(ClearIn({i})) = Cardinality(zeros)
  BY <1>3, <1>8, FS_Bijection DEF ExistsBijection
<1>10. popcount(inner[i]) = Cardinality(ones)
  BY DEF popcount, ones
<1>. QED
  BY <1>2, <1>3, <1>9, <1>10

\* One byte more: the clear bits of different bytes are different.
LEMMA ZerosOfBytes ==
  ASSUME TypeOK, NEW s \in SUBSET Bytes, NEW i \in s
  PROVE  Cardinality(ClearIn(s)) =
           (8 - popcount(inner[i])) + Cardinality(ClearIn(s \ {i}))
<1> DEFINE one  == ClearIn({i})
           rest == ClearIn(s \ {i})
<1>1. ClearIn(s) = one \cup rest /\ one \cap rest = {}
  BY DEF ClearIn
<1>2. /\ IsFiniteSet(one) /\ IsFiniteSet(rest)
      /\ Cardinality(one) \in Nat /\ Cardinality(rest) \in Nat
  BY ClearAreFinite
<1> HIDE DEF one, rest
<1>3. Cardinality(one \cup rest) =
        Cardinality(one) + Cardinality(rest) - Cardinality(one \cap rest)
  BY <1>2, FS_Union
<1>4. Cardinality(one \cap rest) = 0
  BY <1>1, FS_EmptySet
<1>5. Cardinality(one \cup rest) = Cardinality(one) + Cardinality(rest)
  BY <1>2, <1>3, <1>4
<1>6. Cardinality(one) = 8 - popcount(inner[i])
  BY ZerosOfByte DEF one
<1>. QED
  BY <1>1, <1>5, <1>6 DEF rest

(* A function that adds the bytes up one at a time counts the clear bits   *)
(* of every set of bytes: of the sets it miscounts, take a smallest.       *)
IsTally(tally) ==
  tally = [s \in SUBSET Bytes |->
             IF s = {} THEN 0
             ELSE LET i == CHOOSE i \in s : TRUE
                  IN  (8 - popcount(inner[i])) + tally[s \ {i}]]

LEMMA TallyCounts ==
  ASSUME TypeOK, NEW tally, IsTally(tally)
  PROVE  \A s \in SUBSET Bytes : tally[s] = Cardinality(ClearIn(s))
<1> DEFINE Miscounted == {s \in SUBSET Bytes : tally[s] # Cardinality(ClearIn(s))}
           Sizes == {Cardinality(s) : s \in Miscounted}
<1> SUFFICES ASSUME Miscounted # {}
             PROVE  FALSE
  OBVIOUS
<1>1. \A s \in SUBSET Bytes : IsFiniteSet(s) /\ Cardinality(s) \in Nat
  BY BytesAreFinite, FS_Subset, FS_CardinalityType
<1>2. Sizes \in SUBSET Nat /\ Sizes # {}
  BY <1>1
<1>3. PICK n \in Sizes : \A m \in Sizes : n <= m
  BY <1>2, LeastExists
<1>4. PICK s \in Miscounted : n = Cardinality(s)
  OBVIOUS
<1>5. s # {}
  <2>1. tally[{}] = 0
    BY DEF IsTally
  <2>2. ClearIn({}) = {}
    BY DEF ClearIn
  <2>. QED
    BY <2>1, <2>2, FS_EmptySet
<1> DEFINE i == CHOOSE i \in s : TRUE
<1>6. i \in s
  BY <1>5
<1>7. tally[s] = (8 - popcount(inner[i])) + tally[s \ {i}]
  BY <1>5 DEF IsTally
<1> HIDE DEF i
<1>8. Cardinality(s \ {i}) = n - 1 /\ n \in Nat
  BY <1>1, <1>4, <1>6, FS_RemoveElement
<1>9. s \ {i} \in SUBSET Bytes /\ s \ {i} \notin Miscounted
  <2>1. s \ {i} \in SUBSET Bytes
    OBVIOUS
  <2>2. n - 1 \notin Sizes
    BY <1>3, <1>8
  <2>. QED
    BY <1>8, <2>1, <2>2
<1>10. tally[s \ {i}] = Cardinality(ClearIn(s \ {i}))
  BY <1>9
<1>11. tally[s] = Cardinality(ClearIn(s))
  BY <1>6, <1>7, <1>10, ZerosOfBytes
<1>. QED
  BY <1>11

LEMMA TallyExists ==
  ASSUME TypeOK
  PROVE  \E tally : IsTally(tally)
<1> DEFINE count == [s \in SUBSET Bytes |-> Cardinality(ClearIn(s))]
<1>1. ASSUME NEW s \in SUBSET Bytes
      PROVE  count[s] = IF s = {} THEN 0
                        ELSE LET i == CHOOSE i \in s : TRUE
                             IN  (8 - popcount(inner[i])) + count[s \ {i}]
  <2>1. CASE s = {}
    <3>1. ClearIn(s) = {}
      BY <2>1 DEF ClearIn
    <3>. QED
      BY <2>1, <3>1, FS_EmptySet
  <2>2. CASE s # {}
    <3> DEFINE i == CHOOSE i \in s : TRUE
    <3>1. i \in s
      BY <2>2
    <3>2. count[s] = Cardinality(ClearIn(s))
          /\ count[s \ {i}] = Cardinality(ClearIn(s \ {i}))
      OBVIOUS
    <3> HIDE DEF count
    <3>3. count[s] = (8 - popcount(inner[i])) + count[s \ {i}]
      BY <3>1, <3>2, ZerosOfBytes
    <3>. QED
      BY <2>2, <3>3
  <2>. QED
    BY <2>1, <2>2
<1>2. IsTally(count)
  BY <1>1 DEF IsTally
<1>. QED
  BY <1>2

LEMMA CountIsTally ==
  bitvec_count_zeros(inner) = (CHOOSE tally : IsTally(tally))[Bytes]
BY DEF bitvec_count_zeros, MapThenFoldSet, IsTally

(* bitvec_count_zeros gives the number of clear bits of every vector: the  *)
(* number that blkgrps_*_alloc compares with 0.                            *)
THEOREM ZerosCounted == Spec => []ZerosAreCounted
<1>1. ASSUME TypeOK
      PROVE  ZerosAreCounted
  <2>1. IsTally(CHOOSE tally : IsTally(tally))
    BY <1>1, TallyExists
  <2>2. bitvec_count_zeros(inner) = Cardinality(ClearIn(Bytes))
    BY <1>1, <2>1, TallyCounts, CountIsTally
  <2>3. ClearIn(Bytes) = Clear
    BY PositionSplits DEF ClearIn, Clear
  <2>. QED
    BY <2>2, <2>3 DEF ZerosAreCounted
<1>. QED
  BY <1>1, TypeCorrect, PTL

-----------------------------------------------------------------------------
(***************************************************************************)
(* Scanning: what is found from a byte on is the lowest clear bit from     *)
(* that byte on.                                                           *)
(***************************************************************************)

\* The ninth bit of the promoted byte is clear, so ffs always finds one.
LEMMA LowestClearOfByte ==
  ASSUME NEW b \in Byte
  PROVE  /\ LowestClear(b) \in 0 .. 8
         /\ LowestClear(b) # 8 => Bit(b, LowestClear(b)) = 0
         /\ \A q \in 0 .. LowestClear(b) - 1 : Bit(b, q) = 1
<1> DEFINE Unset == {p \in 0 .. 8 : Bit(b, p) = 0}
<1>1. Bit(b, 8) = 0
  <2>1. 2^8 = 256
    BY SMT
  <2>2. (b \div 256) % 2 = 0
    BY DEF Byte
  <2>. QED
    BY <2>1, <2>2 DEF Bit
<1>2. PICK p \in Unset : \A n \in Unset : p <= n
  <2>1. 8 \in Unset /\ Unset \in SUBSET Nat
    BY <1>1
  <2> HIDE DEF Unset
  <2>. QED
    BY <2>1, LeastExists
<1>3. ASSUME NEW q \in 0 .. p - 1
      PROVE  Bit(b, q) = 1
  <2>1. q \in BitsOfIt /\ q \notin Unset
    BY <1>2 DEF BitsOfIt
  <2>2. Bit(b, q) \in {0, 1}
    BY <2>1, ByteEffect
  <2>. QED
    BY <2>1, <2>2 DEF BitsOfIt
<1>4. \E n \in 0 .. 8 : Bit(b, n) = 0 /\ \A q \in 0 .. n - 1 : Bit(b, q) = 1
  BY <1>2, <1>3
<1>. QED
  BY <1>4 DEF LowestClear

ClearFrom(i) == {index \in Clear : i <= split(index)}

\* One more than the least of a set of positions; 0 if it is empty.
LowestOf(S) == IF S = {} THEN 0 ELSE 1 + CHOOSE m \in S : \A n \in S : m <= n

LEMMA LowestIs ==
  ASSUME NEW S \in SUBSET Nat, NEW m \in S, \A n \in S : m <= n
  PROVE  LowestOf(S) = 1 + m
<1> DEFINE k == CHOOSE k \in S : \A n \in S : k <= n
<1>1. k \in S /\ \A n \in S : k <= n
  OBVIOUS
<1> HIDE DEF k
<1>2. k = m
  BY <1>1
<1>3. LowestOf(S) = 1 + k
  BY DEF LowestOf, k
<1>. QED
  BY <1>2, <1>3

\* One step of the scan: at a byte with a clear bit, and past a full one.
LEMMA ScanStep ==
  ASSUME TypeOK, NEW i \in Bytes
  PROVE  LowestOf(ClearFrom(i)) =
           IF ffs(inner[i]) < 9 THEN 8 * i + ffs(inner[i])
           ELSE LowestOf(ClearFrom(i + 1))
<1> DEFINE b == inner[i]
           p == LowestClear(b)
<1>1. b \in Byte /\ i \in Nat
  BY SizeAssumption DEF TypeOK, Byte, Bytes
<1>2. p \in 0 .. 8 /\ (p # 8 => Bit(b, p) = 0)
      /\ \A q \in 0 .. p - 1 : Bit(b, q) = 1
  BY <1>1, LowestClearOfByte
<1>3. ffs(inner[i]) = 1 + p
  BY DEF ffs
<1> HIDE DEF p
<1>4. \A index \in Clear : /\ split(index) \in Nat /\ pos(index) \in 0 .. 7
                           /\ index = 8 * split(index) + pos(index)
                           /\ index \in Nat
                           /\ split(index) = i => Bit(b, pos(index)) = 0
  BY PositionSplits, SizeAssumption
     DEF Clear, bitvec_get, Bytes, BitsOfIt, Positions
<1>5. \A index \in Clear : split(index) = i => p <= pos(index)
  BY <1>2, <1>4
<1>6. ClearFrom(i) \in SUBSET Nat
  BY <1>4 DEF ClearFrom
<1>7. CASE p # 8
  <2>1. p \in 0 .. 7 /\ Bit(b, p) = 0
    BY <1>2, <1>7
  <2>2. 8 * i + p \in Positions /\ split(8 * i + p) = i /\ pos(8 * i + p) = p
    BY <2>1, PositionOf DEF BitsOfIt
  <2>3. 8 * i + p \in ClearFrom(i)
    BY <1>1, <2>1, <2>2 DEF ClearFrom, Clear, bitvec_get
  <2>4. ASSUME NEW index \in ClearFrom(i)
        PROVE  8 * i + p <= index
    <3>1. index \in Clear /\ i <= split(index)
      BY DEF ClearFrom
    <3>2. CASE split(index) = i
      BY <1>1, <1>4, <1>5, <2>1, <3>1, <3>2
    <3>3. CASE split(index) # i
      BY <1>1, <1>4, <2>1, <3>1, <3>3
    <3>. QED
      BY <3>2, <3>3
  <2>5. LowestOf(ClearFrom(i)) = 1 + (8 * i + p)
    BY <1>6, <2>3, <2>4, LowestIs
  <2>. QED
    BY <1>1, <1>3, <2>1, <2>5
<1>8. CASE p = 8
  <2>1. ASSUME NEW index \in Clear
        PROVE  i <= split(index) <=> i + 1 <= split(index)
    BY <1>1, <1>4, <1>5, <1>8
  <2>2. ClearFrom(i) = ClearFrom(i + 1)
    BY <2>1 DEF ClearFrom
  <2>. QED
    BY <1>3, <1>8, <2>2
<1>. QED
  BY <1>7, <1>8

IsScan(scan) ==
  scan = [i \in 0 .. Size |->
            IF i = Size THEN 0
            ELSE IF ffs(inner[i]) < 9 THEN 8 * i + ffs(inner[i])
            ELSE scan[i + 1]]

LEMMA NothingBehind ==
  ASSUME TypeOK
  PROVE  LowestOf(ClearFrom(Size)) = 0
<1>1. \A index \in Clear : split(index) \in Bytes
  BY PositionSplits DEF Clear
<1>2. ClearFrom(Size) = {}
  BY <1>1, SizeAssumption DEF ClearFrom, Bytes
<1>. QED
  BY <1>2 DEF LowestOf

LEMMA ScanExists ==
  ASSUME TypeOK
  PROVE  \E scan : IsScan(scan)
<1> DEFINE low == [i \in 0 .. Size |-> LowestOf(ClearFrom(i))]
<1>1. \A i \in 0 .. Size : low[i] = LowestOf(ClearFrom(i))
  OBVIOUS
<1>2. ASSUME NEW i \in 0 .. Size
      PROVE  LowestOf(ClearFrom(i)) =
               IF i = Size THEN 0
               ELSE IF ffs(inner[i]) < 9 THEN 8 * i + ffs(inner[i])
               ELSE low[i + 1]
  <2>1. CASE i = Size
    BY <2>1, NothingBehind
  <2>2. CASE i # Size
    <3>1. i \in Bytes /\ i + 1 \in 0 .. Size
      BY <2>2, SizeAssumption DEF Bytes
    <3> HIDE DEF low
    <3>. QED
      BY <2>2, <3>1, <1>1, ScanStep
  <2>. QED
    BY <2>1, <2>2
<1>3. IsScan(low)
  BY <1>2 DEF IsScan
<1>. QED
  BY <1>3

\* Of the bytes from which a scan goes wrong, take the last.
LEMMA ScanFinds ==
  ASSUME TypeOK, NEW scan, IsScan(scan)
  PROVE  \A i \in 0 .. Size : scan[i] = LowestOf(ClearFrom(i))
<1> DEFINE Wrong == {i \in 0 .. Size : scan[i] # LowestOf(ClearFrom(i))}
           Left  == {Size - i : i \in Wrong}
<1> SUFFICES ASSUME Wrong # {}
             PROVE  FALSE
  OBVIOUS
<1>1. Left \in SUBSET Nat /\ Left # {}
  BY SizeAssumption
<1>2. PICK n \in Left : \A m \in Left : n <= m
  BY <1>1, LeastExists
<1>3. PICK i \in Wrong : n = Size - i
  OBVIOUS
<1>4. i # Size
  <2>1. scan[Size] = 0
    BY SizeAssumption DEF IsScan
  <2>. QED
    BY <1>3, <2>1, NothingBehind
<1>5. i \in Bytes /\ i + 1 \in 0 .. Size
  BY <1>4, SizeAssumption DEF Bytes
<1>6. i + 1 \notin Wrong
  <2>1. Size - (i + 1) < n
    BY <1>3, <1>5, SizeAssumption DEF Bytes
  <2>2. Size - (i + 1) \in Int /\ n \in Int
    BY <1>3, <1>5, SizeAssumption DEF Bytes
  <2>3. Size - (i + 1) \notin Left
    BY <1>2, <2>1, <2>2
  <2>. QED
    BY <2>3
<1>7. scan[i + 1] = LowestOf(ClearFrom(i + 1))
  BY <1>5, <1>6
<1>8. scan[i] = IF ffs(inner[i]) < 9 THEN 8 * i + ffs(inner[i])
                ELSE scan[i + 1]
  BY <1>4 DEF IsScan
<1>9. scan[i] = LowestOf(ClearFrom(i))
  BY <1>5, <1>7, <1>8, ScanStep
<1>. QED
  BY <1>9

LEMMA FindIsScan ==
  bitvec_find_first_set(inner) = (CHOOSE scan : IsScan(scan))[0]
BY DEF bitvec_find_first_set, IsScan

(* bitvec_find_first_set gives one plus the lowest clear position of every *)
(* vector, and 0 of a full one: what BlockGroups!find_first_set says, and  *)
(* what the hint of a block group is set to.                               *)
THEOREM LowestClearFound == Spec => []LowestClearIsFound
<1>1. ASSUME TypeOK
      PROVE  LowestClearIsFound
  <2>1. IsScan(CHOOSE scan : IsScan(scan))
    BY <1>1, ScanExists
  <2>2. bitvec_find_first_set(inner) = LowestOf(ClearFrom(0))
    BY <1>1, <2>1, ScanFinds, FindIsScan, SizeAssumption
  <2>3. ClearFrom(0) = Clear
    BY PositionSplits, SizeAssumption DEF ClearFrom, Clear, Bytes
  <2>4. Clear \in SUBSET Nat
    BY DEF Clear, Positions
  <2>5. CASE Clear = {}
    BY <2>2, <2>3, <2>5 DEF LowestOf, LowestClearIsFound
  <2>6. CASE Clear # {}
    <3>1. PICK m \in Clear : \A n \in Clear : m <= n
      BY <2>4, <2>6, LeastExists
    <3>2. LowestOf(Clear) = 1 + m
      BY <2>4, <3>1, LowestIs
    <3>3. (1 + m) - 1 = m
      BY <2>4
    <3>. QED
      BY <2>2, <2>3, <2>6, <3>1, <3>2, <3>3 DEF LowestClearIsFound
  <2>. QED
    BY <2>5, <2>6
<1>. QED
  BY <1>1, TypeCorrect, PTL

=============================================================================
