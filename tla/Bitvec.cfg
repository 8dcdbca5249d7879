CONSTANT Size = 2
SPECIFICATION Spec
INVARIANTS TypeOK ZerosAreCounted LowestClearIsFound
PROPERTY ImplementsBitSet
