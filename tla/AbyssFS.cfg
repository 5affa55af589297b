SPECIFICATION Spec
CONSTANTS
  TOTAL_BLOCKS = 5
  INODE_BLOCKS = 1
  NUM_INODES = 4
  BLOCK_UNITS = 2
  DIR_CAP = 4
  MAX_SIZE = 1
  Names <- MCNames
  Paths <- MCPaths
  Cwds <- MCCwds
  Buffers <- MCBuffers
INVARIANTS TypeOK Tree BlockOwnership FreeCount RootLinks
PROPERTIES OrphansOnlyFromFailureOrRemoval OneSubtreePerStep
CHECK_DEADLOCK FALSE
