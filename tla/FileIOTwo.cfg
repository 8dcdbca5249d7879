CONSTANTS
  Groups = 1
  BlkInodeNum = 3
  Handles = {h1}
  NumFiles = 2
  Direct = 1
  BlkWords = 2
  Sector = 2
  Offs = {0, 3}
  Lens = {1, 4}
  MaxEnd = 7
SPECIFICATION Spec
INVARIANT BlocksPrivate
PROPERTY ImplementsFileStore
