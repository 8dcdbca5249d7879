SPECIFICATION Spec
CONSTANTS
  Sector = 2
  BlkSizes = {2, 4}
  ByteBits = 2
  INODE_SIZE = 1
  Word = 32
  Sizes = {5, 16, 25, 60}
INVARIANTS TypeOK PlacesApart SectorVolumeFits RemountsWork
