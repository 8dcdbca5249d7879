CONSTANTS
  Groups = 1
  BlkInodeNum = 4
  Names = {a, b, f, l}
  FullNames = {f}
  LongNames = {l}
  FilePerDir = 1
  MaxDepth = 2
  Vfs = TRUE
SPECIFICATION Spec
SYMMETRY NameSymmetry
INVARIANT NoGhostNames
PROPERTY ImplementsForest
