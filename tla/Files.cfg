SPECIFICATION Spec
CONSTANTS
  MAX_FD = 3
  MAX_MOUNTS = 16
  CHUNK = 1
  READ_UNITS = 2
  MAX_BINDINGS = 2
  MAX_FILES = 2
  MAX_CONTENT = 3
  TOTAL_BLOCKS = 4
  INODE_BLOCKS = 1
  NUM_INODES = 5
  BLOCK_UNITS = 2
  DIR_CAP = 4
  MAX_SIZE = 4
  Names <- MCNames
  Contents <- MCContents
  TestFile <- T
  Requests <- MCRequests
INVARIANTS TypeOK CopyIsExact
PROPERTIES TransferTouchesNoOther MoveMoves NoDescriptorLeak ClosedStaysClosed NoFileWithoutDescriptor CdWalks LatestBindingWins TransferReturns
CHECK_DEADLOCK FALSE
