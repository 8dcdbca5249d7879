CONSTANTS
  Groups = 1
  BlkInodeNum = 4
  Handles = {h1}
  NumFiles = 1
  Direct = 1
  BlkWords = 2
  Sector = 2
  Offs = {0, 3}
  Lens = {1, 4}
  MaxEnd = 7
SPECIFICATION Spec
INVARIANTS TypeOK BlocksPrivate HandleFresh
PROPERTIES TruncateCuts StraysLackIndirect ImplementsFileStore RequestsReturn
