CONSTANTS
  Groups = 2
  BlkInodeNum = 3
  MaxFree = 7
SPECIFICATION Spec
INVARIANTS TypeOK HintIsFree CounterCoversZeros FaultNeedsFullGroup
PROPERTIES ImplementsPool ReleaseFreesItsIndex
