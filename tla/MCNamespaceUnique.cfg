CONSTANTS
  Groups = 1
  BlkInodeNum = 4
  Names = {a, b}
  FullNames = {}
  LongNames = {}
  FilePerDir = 2
  MaxDepth = 2
  Vfs = TRUE
SPECIFICATION Spec
SYMMETRY NameSymmetry
INVARIANT UniqueNames
