CONSTANTS
  Groups = 1
  BlkInodeNum = 4
  Names = {a, b}
  FullNames = {}
  LongNames = {}
  FilePerDir = 2
  MaxDepth = 2
  Vfs = FALSE
SPECIFICATION Spec
SYMMETRY NameSymmetry
INVARIANTS TypeOK EntriesHaveInodes OneEntryEach DirsOwnBlocks NoCycle
PROPERTIES ImplementsForest OtherNamesKept
